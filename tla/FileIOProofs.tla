---------------------------- MODULE FileIOProofs ----------------------------
(***************************************************************************)
(* Theorems about FileIO, for any number of handles and files.             *)
(***************************************************************************)
EXTENDS FileIO, SequenceTheorems, TLAPS

(* ---------------------------------------------------------------------- *)
(* Types                                                                   *)

(* read_bytes has never read more than it has room for.                      *)
RoomLeft == \A h \in Handles : ioPc[h] = "read" => total[h] <= room[h] /\ handle[h] >= 0
WriteLeft == \A h \in Handles : ioPc[h] = "write" => total[h] <= DataLen /\ handle[h] >= 0

TypeInv == FileTypeOK /\ RoomLeft /\ WriteLeft

LEMMA DataType ==
  ASSUME NEW h \in Handles
  PROVE  Data(h) \in Seq(Bytes) /\ Len(Data(h)) = DataLen
<1>1. Data(h) \in [1 .. DataLen -> Bytes]
  BY DEF Data, Bytes
<1>2. QED
  BY <1>1, BoundsAssumption DEF Data

LEMMA PieceType ==
  ASSUME NEW h \in Handles, NEW i \in Nat, NEW n \in Nat, i + n <= DataLen
  PROVE  SubSeq(Data(h), i + 1, i + n) \in Seq(Bytes)
<1>1. Data(h) \in Seq(Bytes) /\ Len(Data(h)) = DataLen
  BY DataType
<1>2. QED
  BY <1>1

(* A turn of write_all's loop sends at most what is left.                    *)
LEMMA ChunkBounds ==
  ASSUME TypeInv, NEW g \in Handles, NEW n \in 1 .. DataLen, WriteChunk(g, n)
  PROVE  /\ total[g] \in Nat /\ n \in Nat \ {0} /\ total[g] + n <= DataLen
         /\ handle[g] >= 0 /\ start[g] \in Nat
<1>1. ioPc[g] = "write" /\ n \in 1 .. Least(DataLen - total[g], MaxTransfer)
  BY DEF WriteChunk, Rest
<1>2. total[g] \in Nat /\ total[g] <= DataLen /\ handle[g] >= 0 /\ start[g] \in Nat
  BY <1>1 DEF TypeInv, FileTypeOK, WriteLeft
<1>3. QED
  BY <1>1, <1>2, BoundsAssumption DEF Least

LEMMA PrefixType ==
  ASSUME NEW h \in Handles, NEW n \in Nat, n <= DataLen
  PROVE  SubSeq(Data(h), 1, n) \in Seq(Bytes)
<1>1. Data(h) \in Seq(Bytes) /\ Len(Data(h)) = DataLen
  BY DataType
<1>2. QED
  BY <1>1

LEMMA OverwriteType ==
  ASSUME NEW s \in Seq(Bytes), NEW at \in Nat, NEW c \in Seq(Bytes)
  PROVE  Overwrite(s, at, c) \in Seq(Bytes)
<1> DEFINE end == at + Len(c)
           n   == IF Len(s) > end THEN Len(s) ELSE end
<1>1. n \in Nat
  OBVIOUS
<1>2. \A i \in 1 .. n : (IF i > at /\ i <= end THEN c[i - at]
                         ELSE IF i <= Len(s) THEN s[i] ELSE Zero) \in Bytes
  BY DEF Bytes
<1>3. Overwrite(s, at, c) \in [1 .. n -> Bytes]
  BY <1>2 DEF Overwrite
<1>4. PICK m \in Nat : m = n
  BY <1>1
<1>5. [1 .. m -> Bytes] \subseteq Seq(Bytes)
  OBVIOUS
<1>6. QED
  BY <1>3, <1>4, <1>5

LEMMA LeftType ==
  ASSUME FileTypeOK, NEW h \in Handles, handle[h] >= 0, ~ Free(handle[h])
  PROVE  Left(h) \in Seq(Bytes)
<1>1. handle[h] \in Fds
  BY DEF FileTypeOK
<1>2. content[fdFile[handle[h]]] \in Seq(Bytes) /\ fdPos[handle[h]] \in Nat
  BY <1>1 DEF FileTypeOK, Free
<1>3. QED
  BY <1>2 DEF Left

(* ---------------------------------------------------------------------- *)
(* Descriptors                                                              *)

DescInv ==
  /\ handle \in [Handles -> Fds \union {-1}]
  /\ fdFile \in [Fds -> Files \union {NoFile}]
  /\ OwnDescriptor

LEMMA InitDesc == FileInit => DescInv
BY DEF FileInit, DescInv, OwnDescriptor, Free

LEMMA NextDesc == DescInv /\ [FileNext]_fileVars => DescInv'
<1> SUFFICES ASSUME DescInv, [FileNext]_fileVars PROVE DescInv'
  OBVIOUS
<1> USE BoundsAssumption DEF DescInv, OwnDescriptor, Free, Fds, sys, call
<1>1. ASSUME NEW h \in Handles, NEW f \in Files, NEW m \in Modes, Open(h, f, m) PROVE DescInv'
  BY <1>1 DEF Open, NextFd
<1>2. ASSUME NEW h \in Handles, OpenFails(h) PROVE DescInv'
  BY <1>2 DEF OpenFails
<1>3. ASSUME NEW h \in Handles, Close(h) PROVE DescInv'
  BY <1>3 DEF Close, Released
<1>4. ASSUME NEW h \in Handles, UseClosed(h) PROVE DescInv'
  BY <1>4 DEF UseClosed
<1>5. ASSUME NEW h \in Handles, NEW to \in 0 .. MaxSize, Seek(h, to) PROVE DescInv'
  BY <1>5 DEF Seek
<1>6. ASSUME NEW h \in Handles, WriteAll(h) PROVE DescInv'
  BY <1>6 DEF WriteAll, Begin
<1>7. ASSUME NEW h \in Handles, NEW n \in 1 .. DataLen, WriteChunk(h, n) PROVE DescInv'
  BY <1>7 DEF WriteChunk
<1>8. ASSUME NEW h \in Handles, NEW n \in 0 .. DataLen, WriteOnce(h, n) PROVE DescInv'
  BY <1>8 DEF WriteOnce
<1>9. ASSUME NEW h \in Handles, NEW n \in 0 .. DataLen, PrintTo(h, n) PROVE DescInv'
  BY <1>9 DEF PrintTo
<1>10. ASSUME NEW h \in Handles, Printed(h) PROVE DescInv'
  BY <1>10 DEF Printed
<1>11. ASSUME NEW h \in Handles, CallFails(h) PROVE DescInv'
  BY <1>11 DEF CallFails
<1>12. ASSUME NEW h \in Handles, Caught(h) PROVE DescInv'
  BY <1>12 DEF Caught
<1>13. ASSUME NEW h \in Handles, NEW n \in 1 .. MaxSize, ReadOnce(h, n) PROVE DescInv'
  BY <1>13 DEF ReadOnce
<1>14. ASSUME NEW h \in Handles, NEW n \in Sizes, ReadBytes(h, n) PROVE DescInv'
  BY <1>14 DEF ReadBytes, Begin
<1>15. ASSUME NEW h \in Handles, NEW n \in 0 .. MaxSize, ReadChunk(h, n) PROVE DescInv'
  BY <1>15 DEF ReadChunk
<1>16. CASE UNCHANGED fileVars
  BY <1>16 DEF fileVars
<1>17. QED
  BY <1>1, <1>2, <1>3, <1>4, <1>5, <1>6, <1>7, <1>8, <1>9, <1>10, <1>11, <1>12,
     <1>13, <1>14, <1>15, <1>16 DEF FileNext, Step

(* No descriptor ever has two owners, is used after it was given back, or is *)
(* left open without one: however the calls of the handles mix, and whether  *)
(* or not close reports an error.                                            *)
THEOREM OwnDescriptorHolds == FileSpec => []OwnDescriptor
<1>1. DescInv => OwnDescriptor
  BY DEF DescInv
<1>2. QED
  BY <1>1, InitDesc, NextDesc, PTL DEF FileSpec

LEMMA InitType == FileInit => TypeInv
BY BoundsAssumption DEF FileInit, TypeInv, FileTypeOK, RoomLeft, WriteLeft

(* What one system call leaves of the types.                                 *)
LEMMA SysWriteType ==
  ASSUME FileTypeOK, DescInv, NEW h \in Handles, handle[h] >= 0, NEW b \in Seq(Bytes), SysWrite(h, b)
  PROVE  /\ content' \in [Files -> Seq(Bytes)]
         /\ fdPos' \in [Fds -> Nat]
         /\ disturbed' \in [Handles -> BOOLEAN]
<1> DEFINE fd == handle[h]
           f  == fdFile[fd]
           at == IF Appends(fd) THEN Len(content[f]) ELSE fdPos[fd]
<1>1. fd \in Fds /\ f \in Files
  BY DEF FileTypeOK, DescInv, OwnDescriptor, Free
<1>2. content[f] \in Seq(Bytes) /\ at \in Nat
  BY <1>1 DEF FileTypeOK
<1>3. Overwrite(content[f], at, b) \in Seq(Bytes)
  BY <1>2, OverwriteType
<1>4. content' = [content EXCEPT ![f] = IF b = <<>> THEN @ ELSE Overwrite(@, at, b)]
  BY DEF SysWrite
<1>5. fdPos' = [fdPos EXCEPT ![fd] = at + Len(b)]
  BY DEF SysWrite
<1>6. disturbed' \in [Handles -> BOOLEAN]
  BY DEF SysWrite, FileTypeOK
<1> HIDE DEF fd, f, at
<1>7. content' \in [Files -> Seq(Bytes)]
  BY <1>1, <1>2, <1>3, <1>4 DEF FileTypeOK
<1>8. fdPos' \in [Fds -> Nat]
  BY <1>1, <1>2, <1>5 DEF FileTypeOK
<1>9. QED
  BY <1>6, <1>7, <1>8

LEMMA NextType == TypeInv /\ DescInv /\ [FileNext]_fileVars => TypeInv'
<1> SUFFICES ASSUME TypeInv, DescInv, [FileNext]_fileVars PROVE TypeInv'
  OBVIOUS
<1> USE BoundsAssumption DEF TypeInv, FileTypeOK, RoomLeft, WriteLeft, sys, call, CountOp, Idle, Finish, Begin, Least
<1>1. ASSUME NEW h \in Handles, NEW f \in Files, NEW m \in Modes, Open(h, f, m) PROVE TypeInv'
  BY <1>1 DEF Open
<1>2. ASSUME NEW h \in Handles, OpenFails(h) PROVE TypeInv'
  BY <1>2 DEF OpenFails
<1>3. ASSUME NEW h \in Handles, Close(h) PROVE TypeInv'
  BY <1>3 DEF Close, Released
<1>4. ASSUME NEW h \in Handles, UseClosed(h) PROVE TypeInv'
  BY <1>4 DEF UseClosed
<1>5. ASSUME NEW h \in Handles, NEW to \in 0 .. MaxSize, Seek(h, to) PROVE TypeInv'
  BY <1>5, SMTT(30) DEF Seek
<1>6. ASSUME NEW h \in Handles, WriteAll(h) PROVE TypeInv'
  BY <1>6, SMTT(30) DEF WriteAll, Writable
<1>7. ASSUME NEW h \in Handles, NEW n \in 1 .. DataLen, WriteChunk(h, n) PROVE TypeInv'
  <2>0. total[h] \in Nat /\ n \in Nat /\ total[h] + n <= DataLen /\ handle[h] >= 0
    BY <1>7 DEF WriteChunk, Rest
  <2>1. SubSeq(Data(h), total[h] + 1, total[h] + n) \in Seq(Bytes)
    BY <2>0, PieceType
  <2>2. SysWrite(h, SubSeq(Data(h), total[h] + 1, total[h] + n))
    BY <1>7 DEF WriteChunk
  <2>3. /\ content' \in [Files -> Seq(Bytes)]
        /\ fdPos' \in [Fds -> Nat]
        /\ disturbed' \in [Handles -> BOOLEAN]
    BY <2>0, <2>1, <2>2, SysWriteType
  <2>40. total[h] + n \in Nat
    BY <2>0
  <2>4. total' = [total EXCEPT ![h] = total[h] + n] /\ (ioPc' = ioPc \/ ioPc' = [ioPc EXCEPT ![h] = "idle"])
    BY <1>7 DEF WriteChunk
  <2>5. total' \in [Handles -> Nat] /\ ioPc' \in [Handles -> {"idle", "write", "read", "raised", "printed"}]
    BY <2>40, <2>4
  <2>6. RoomLeft'
    BY <1>7, <2>0, <2>4 DEF WriteChunk
  <2>7. WriteLeft'
    BY <1>7, <2>0, <2>4 DEF WriteChunk
  <2>8. ops' \in [Handles -> Nat]
    BY <1>7 DEF WriteChunk
  <2>9. QED
    BY <1>7, <2>3, <2>5, <2>6, <2>7, <2>8 DEF WriteChunk
<1>8. ASSUME NEW h \in Handles, NEW n \in 0 .. DataLen, WriteOnce(h, n) PROVE TypeInv'
  <2>0. n \in Nat /\ n <= DataLen /\ handle[h] >= 0
    BY <1>8 DEF WriteOnce, Writable
  <2>1. SubSeq(Data(h), 1, n) \in Seq(Bytes)
    BY <2>0, PrefixType
  <2>2. SysWrite(h, SubSeq(Data(h), 1, n))
    BY <1>8 DEF WriteOnce
  <2>3. /\ content' \in [Files -> Seq(Bytes)]
        /\ fdPos' \in [Fds -> Nat]
        /\ disturbed' \in [Handles -> BOOLEAN]
    BY <2>0, <2>1, <2>2, SysWriteType
  <2>4. total' = [total EXCEPT ![h] = n] /\ ioPc[h] = "idle" /\ (ioPc' = ioPc \/ ioPc' = [ioPc EXCEPT ![h] = "printed"])
    BY <1>8 DEF WriteOnce
  <2>5. total' \in [Handles -> Nat] /\ ioPc' \in [Handles -> {"idle", "write", "read", "raised", "printed"}]
    BY <2>0, <2>4
  <2>6. RoomLeft'
    BY <1>8, <2>0, <2>4 DEF WriteOnce
  <2>7. WriteLeft'
    BY <1>8, <2>0, <2>4 DEF WriteOnce
  <2>8. ops' \in [Handles -> Nat]
    BY <1>8 DEF WriteOnce
  <2>9. QED
    BY <1>8, <2>3, <2>5, <2>6, <2>7, <2>8 DEF WriteOnce
<1>9. ASSUME NEW h \in Handles, NEW n \in 0 .. DataLen, PrintTo(h, n) PROVE TypeInv'
  <2>0. n \in Nat /\ n <= DataLen /\ handle[h] >= 0
    BY <1>9 DEF PrintTo, Writable
  <2>1. SubSeq(Data(h), 1, n) \in Seq(Bytes)
    BY <2>0, PrefixType
  <2>2. SysWrite(h, SubSeq(Data(h), 1, n))
    BY <1>9 DEF PrintTo
  <2>3. /\ content' \in [Files -> Seq(Bytes)]
        /\ fdPos' \in [Fds -> Nat]
        /\ disturbed' \in [Handles -> BOOLEAN]
    BY <2>0, <2>1, <2>2, SysWriteType
  <2>4. total' = [total EXCEPT ![h] = n] /\ ioPc[h] = "idle" /\ (ioPc' = ioPc \/ ioPc' = [ioPc EXCEPT ![h] = "printed"])
    BY <1>9 DEF PrintTo
  <2>5. total' \in [Handles -> Nat] /\ ioPc' \in [Handles -> {"idle", "write", "read", "raised", "printed"}]
    BY <2>0, <2>4
  <2>6. RoomLeft'
    BY <1>9, <2>0, <2>4 DEF PrintTo
  <2>7. WriteLeft'
    BY <1>9, <2>0, <2>4 DEF PrintTo
  <2>8. ops' \in [Handles -> Nat]
    BY <1>9 DEF PrintTo
  <2>9. QED
    BY <1>9, <2>3, <2>5, <2>6, <2>7, <2>8 DEF PrintTo
<1>10. ASSUME NEW h \in Handles, Printed(h) PROVE TypeInv'
  BY <1>10 DEF Printed
<1>11. ASSUME NEW h \in Handles, CallFails(h) PROVE TypeInv'
  BY <1>11 DEF CallFails
<1>12. ASSUME NEW h \in Handles, Caught(h) PROVE TypeInv'
  BY <1>12 DEF Caught
<1>13. ASSUME NEW h \in Handles, NEW n \in 1 .. MaxSize, ReadOnce(h, n) PROVE TypeInv'
  <2>1. handle[h] \in Fds /\ n \in Nat
    BY <1>13 DEF ReadOnce, Readable
  <2>2. fdPos' \in [Fds -> Nat]
    BY <1>13, <2>1 DEF ReadOnce
  <2>3. RoomLeft' /\ WriteLeft' /\ ops' \in [Handles -> Nat]
    BY <1>13 DEF ReadOnce
  <2>4. QED
    BY <1>13, <2>2, <2>3 DEF ReadOnce
<1>14. ASSUME NEW h \in Handles, NEW n \in Sizes, ReadBytes(h, n) PROVE TypeInv'
  <2>1. handle[h] \in Fds /\ n \in Nat \union {-1}
    BY <1>14 DEF ReadBytes, Readable
  <2>2. size' \in [Handles -> Nat \union {-1}] /\ room' \in [Handles -> Nat] /\ buf' \in [Handles -> Seq(Bytes)]
    BY <1>14, <2>1 DEF ReadBytes
  <2>e. /\ ioPc' = [ioPc EXCEPT ![h] = "read"]
        /\ total' = [total EXCEPT ![h] = 0]
        /\ handle' = handle /\ handle[h] >= 0
        /\ room' = [room EXCEPT ![h] = IF n >= 0 THEN n ELSE FirstChunk]
    BY <1>14 DEF ReadBytes, Readable
  <2>r. \A g \in Handles : g # h => ioPc'[g] = ioPc[g] /\ total'[g] = total[g] /\ room'[g] = room[g]
    BY <2>e
  <2>w. ioPc'[h] = "read" /\ total'[h] = 0 /\ room'[h] = (IF n >= 0 THEN n ELSE FirstChunk)
    BY <2>e
  <2>3. RoomLeft' /\ WriteLeft'
    <3>1. RoomLeft'
      BY <2>1, <2>e, <2>r, <2>w DEF RoomLeft
    <3>2. WriteLeft'
      BY <2>1, <2>e, <2>r, <2>w DEF WriteLeft
    <3>3. QED
      BY <3>1, <3>2
  <2>4. start' \in [Handles -> Nat] /\ total' \in [Handles -> Nat]
    BY <1>14, <2>1 DEF ReadBytes
  <2>5. QED
    BY <1>14, <2>2, <2>3, <2>4 DEF ReadBytes
<1>15. ASSUME NEW h \in Handles, NEW n \in 0 .. MaxSize, ReadChunk(h, n) PROVE TypeInv'
  <2>1. handle[h] \in Fds /\ ~ Free(handle[h])
    BY <1>15 DEF ReadChunk, DescInv, OwnDescriptor
  <2>2. Left(h) \in Seq(Bytes)
    BY <1>15, <2>1, LeftType DEF ReadChunk
  <2>3. n <= Len(Left(h)) /\ n <= room[h] - total[h]
    BY <1>15, <2>2, SMTT(30) DEF ReadChunk
  <2>4. SubSeq(Left(h), 1, n) \in Seq(Bytes)
    BY <2>2, <2>3
  <2>5. buf' \in [Handles -> Seq(Bytes)]
    BY <1>15, <2>4 DEF ReadChunk
  <2>6. fdPos' \in [Fds -> Nat]
    BY <1>15, <2>1, SMTT(30) DEF ReadChunk
  <2>71. n \in Nat /\ total[h] \in Nat /\ total[h] + n \in Nat /\ (total[h] + n) * 2 \in Nat
    BY <1>15
  <2>7. /\ total' = [total EXCEPT ![h] = total[h] + n]
        /\ \/ room' = room
           \/ room' = [room EXCEPT ![h] = (total[h] + n) * 2]
    BY <1>15 DEF ReadChunk, Grow
  <2>70. total' \in [Handles -> Nat] /\ room' \in [Handles -> Nat]
    BY <2>7, <2>71, SMTT(30)
  <2>72. total'[h] <= room'[h] /\ handle[h] >= 0
    BY <1>15, <2>3, <2>7, <2>71 DEF ReadChunk
  <2>73. ioPc' = ioPc \/ ioPc' = [ioPc EXCEPT ![h] = "idle"]
    BY <1>15 DEF ReadChunk
  <2>74. \A g \in Handles \ {h} : total'[g] = total[g] /\ room'[g] = room[g] /\ ioPc'[g] = ioPc[g]
    BY <2>7, <2>73
  <2>75. handle' = handle
    BY <1>15 DEF ReadChunk
  <2>8. RoomLeft'
    BY <2>72, <2>74, <2>75
  <2>9. ioPc' \in [Handles -> {"idle", "write", "read", "raised", "printed"}] /\ WriteLeft'
    BY <1>15 DEF ReadChunk
  <2>10. QED
    BY <1>15, <2>5, <2>6, <2>70, <2>8, <2>9 DEF ReadChunk
<1>16. CASE UNCHANGED fileVars
  BY <1>16 DEF fileVars
<1>17. QED
  BY <1>1, <1>2, <1>3, <1>4, <1>5, <1>6, <1>7, <1>8, <1>9, <1>10, <1>11, <1>12,
     <1>13, <1>14, <1>15, <1>16 DEF FileNext, Step

(* The model is type correct: in particular no offset, count or buffer length *)
(* of the loops of read_bytes and write_all is ever negative.                *)
THEOREM TypeCorrect == FileSpec => []FileTypeOK
<1>1. TypeInv => FileTypeOK
  BY DEF TypeInv
<1>2. QED
  BY <1>1, InitType, NextType, InitDesc, NextDesc, PTL DEF FileSpec
(* ---------------------------------------------------------------------- *)
(* What the loops of read_bytes and write_all have moved so far             *)

FileOf(h) == fdFile[handle[h]]

(* The bytes t stand in s from offset at on.                                 *)
StandsAt(s, at, t) == t # <<>> => /\ at + Len(t) <= Len(s)
                                  /\ \A i \in 1 .. Len(t) : s[at + i] = t[i]

(* The offset has moved by what was read, there is room for more, and what   *)
(* was read is what the file has there, unless somebody disturbed it.        *)
ReadSoFar(h) ==
  ioPc[h] = "read" =>
    /\ Len(buf[h]) = total[h]
    /\ fdPos[handle[h]] = start[h] + total[h]
    /\ size[h] >= 0 => room[h] = size[h]
    /\ size[h] < 0 => room[h] > total[h]
    /\ ~ disturbed[h] => StandsAt(content[FileOf(h)], start[h], buf[h])

Sent(h) == SubSeq(Data(h), 1, total[h])

WrittenSoFar(h) ==
  ioPc[h] = "write" /\ ~ Appends(handle[h]) =>
    /\ fdPos[handle[h]] = start[h] + total[h]
    /\ total[h] < DataLen
    /\ ~ disturbed[h] => StandsAt(content[FileOf(h)], start[h], Sent(h))

SoFar == \A h \in Handles : ReadSoFar(h) /\ WrittenSoFar(h)

(* A file that has only grown at its end.                                    *)
Grown(s, t) == Len(s) <= Len(t) /\ \A i \in 1 .. Len(s) : t[i] = s[i]

(* What Overwrite makes of a file, byte by byte.                             *)
LEMMA OverwriteBytes ==
  ASSUME NEW s \in Seq(Bytes), NEW at \in Nat, NEW c \in Seq(Bytes)
  PROVE  /\ Overwrite(s, at, c) \in Seq(Bytes)
         /\ Len(Overwrite(s, at, c)) >= Len(s)
         /\ Len(Overwrite(s, at, c)) >= at + Len(c)
         /\ \A i \in 1 .. Len(c) : Overwrite(s, at, c)[at + i] = c[i]
         /\ \A i \in 1 .. Len(s) : i <= at \/ i > at + Len(c) => Overwrite(s, at, c)[i] = s[i]
<1> DEFINE end == at + Len(c)
           n   == IF Len(s) > end THEN Len(s) ELSE end
           o   == Overwrite(s, at, c)
<1>1. n \in Nat /\ n >= Len(s) /\ n >= at + Len(c)
  OBVIOUS
<1>2. o = [i \in 1 .. n |-> IF i > at /\ i <= end THEN c[i - at]
                           ELSE IF i <= Len(s) THEN s[i] ELSE Zero]
  BY DEF Overwrite
<1>3. o \in Seq(Bytes)
  BY OverwriteType
<1>4. Len(o) = n
  BY <1>1, <1>2, <1>3
<1>5. ASSUME NEW i \in 1 .. Len(c) PROVE o[at + i] = c[i]
  <2>1. at + i \in 1 .. n /\ at + i > at /\ at + i <= end /\ (at + i) - at = i
    BY <1>1
  <2>2. QED
    BY <1>2, <2>1
<1>6. ASSUME NEW i \in 1 .. Len(s), i <= at \/ i > at + Len(c) PROVE o[i] = s[i]
  <2>1. i \in 1 .. n /\ ~(i > at /\ i <= end) /\ i <= Len(s)
    BY <1>1, <1>6
  <2>2. QED
    BY <1>2, <2>1
<1>7. QED
  BY <1>1, <1>3, <1>4, <1>5, <1>6

LEMMA GrownKeeps ==
  ASSUME NEW s \in Seq(Bytes), NEW u \in Seq(Bytes), Grown(s, u), NEW at \in Nat,
         NEW t \in Seq(Bytes), StandsAt(s, at, t)
  PROVE  StandsAt(u, at, t)
<1> SUFFICES ASSUME t # <<>> PROVE at + Len(t) <= Len(u) /\ \A i \in 1 .. Len(t) : u[at + i] = t[i]
  BY DEF StandsAt
<1>1. at + Len(t) <= Len(s) /\ \A i \in 1 .. Len(t) : s[at + i] = t[i]
  BY DEF StandsAt
<1>2. ASSUME NEW i \in 1 .. Len(t) PROVE u[at + i] = t[i]
  <2>1. at + i \in 1 .. Len(s)
    BY <1>1
  <2>2. QED
    BY <1>1, <2>1 DEF Grown
<1>3. QED
  BY <1>1, <1>2 DEF Grown

(* StandsAt is HasAt for what is not empty.                                  *)
LEMMA StandsIsHas ==
  ASSUME NEW s \in Seq(Bytes), NEW at \in Nat, NEW t \in Seq(Bytes), t # <<>>, StandsAt(s, at, t)
  PROVE  HasAt(s, at, t)
<1>1. at + Len(t) <= Len(s) /\ \A i \in 1 .. Len(t) : s[at + i] = t[i]
  BY DEF StandsAt
<1>2. Len(t) \in Nat /\ Len(t) > 0
  BY EmptySeq, LenProperties
<1> DEFINE w == SubSeq(s, at + 1, at + Len(t))
<1>3. w \in Seq(Bytes) /\ Len(w) = Len(t) /\ \A i \in 1 .. Len(t) : w[i] = s[at + i]
  BY <1>1, <1>2
<1>4. w = t
  BY <1>1, <1>3, SeqEqual
<1>5. QED
  BY <1>1, <1>4 DEF HasAt

(* What one write(2) does to the files, the offsets and the other handles.   *)
At(h) == IF Appends(handle[h]) THEN Len(content[FileOf(h)]) ELSE fdPos[handle[h]]

LEMMA SysWriteFiles ==
  ASSUME FileTypeOK, DescInv, NEW h \in Handles, handle[h] >= 0, NEW b \in Seq(Bytes), SysWrite(h, b)
  PROVE  /\ handle[h] \in Fds /\ FileOf(h) \in Files /\ At(h) \in Nat
         /\ \A f \in Files : f # FileOf(h) => content'[f] = content[f]
         /\ fdPos'[handle[h]] = At(h) + Len(b)
         /\ \A fd \in Fds : fd # handle[h] => fdPos'[fd] = fdPos[fd]
         /\ StandsAt(content'[FileOf(h)], At(h), b)
         /\ Len(content'[FileOf(h)]) >= Len(content[FileOf(h)])
         /\ \A i \in 1 .. Len(content[FileOf(h)]) :
              i <= At(h) => content'[FileOf(h)][i] = content[FileOf(h)][i]
         /\ Appends(handle[h]) => Grown(content[FileOf(h)], content'[FileOf(h)])
         /\ disturbed'[h] = disturbed[h]
         /\ \A g \in Handles : ~ disturbed'[g] /\ g # h =>
              /\ ~ disturbed[g]
              /\ handle[g] >= 0 /\ FileOf(g) = FileOf(h) => Appends(handle[h])
<1> DEFINE f == FileOf(h)
           s == content[f]
           a == At(h)
<1>1. handle[h] \in Fds /\ f \in Files
  BY DEF FileTypeOK, DescInv, OwnDescriptor, Free, FileOf
<1>2. s \in Seq(Bytes) /\ a \in Nat
  BY <1>1 DEF FileTypeOK, At
<1>3. content' = [content EXCEPT ![f] = IF b = <<>> THEN s ELSE Overwrite(s, a, b)]
  BY DEF SysWrite, At, FileOf
<1>4. fdPos' = [fdPos EXCEPT ![handle[h]] = a + Len(b)]
  BY DEF SysWrite, At, FileOf
<1>5. /\ disturbed'[h] = disturbed[h]
      /\ \A g \in Handles : ~ disturbed'[g] /\ g # h =>
           /\ ~ disturbed[g]
           /\ handle[g] >= 0 /\ FileOf(g) = FileOf(h) => Appends(handle[h])
  BY DEF SysWrite, OthersOn, FileOf, FileTypeOK
<1>6. content'[f] = IF b = <<>> THEN s ELSE Overwrite(s, a, b)
  BY <1>1, <1>3 DEF FileTypeOK
<1>7. /\ StandsAt(content'[f], a, b) /\ Len(content'[f]) >= Len(s)
      /\ \A i \in 1 .. Len(s) : i <= a => content'[f][i] = s[i]
  <2>1. CASE b = <<>>
    BY <1>2, <1>6, <2>1 DEF StandsAt
  <2>2. CASE b # <<>>
    BY <1>2, <1>6, <2>2, OverwriteBytes DEF StandsAt
  <2>3. QED
    BY <2>1, <2>2
<1>8. Appends(handle[h]) => Grown(s, content'[f])
  <2>1. SUFFICES ASSUME Appends(handle[h]) PROVE Grown(s, content'[f])
    OBVIOUS
  <2>2. a = Len(s)
    BY <2>1 DEF At
  <2>3. \A i \in 1 .. Len(s) : content'[f][i] = s[i]
    BY <1>2, <1>7, <2>2
  <2>4. QED
    BY <1>7, <2>3 DEF Grown
<1>9. QED
  BY <1>1, <1>2, <1>3, <1>4, <1>5, <1>7, <1>8 DEF FileTypeOK

(* The step of another handle leaves a call in progress as it is, and its    *)
(* file to grow, or marks the call disturbed.                                *)
KeepsCall(h) ==
  /\ ioPc'[h] = ioPc[h] /\ handle'[h] = handle[h] /\ total'[h] = total[h] /\ buf'[h] = buf[h]
  /\ room'[h] = room[h] /\ size'[h] = size[h] /\ start'[h] = start[h]
  /\ handle[h] >= 0 =>
       /\ fdPos'[handle[h]] = fdPos[handle[h]] /\ fdFile'[handle[h]] = fdFile[handle[h]]
       /\ fdMode'[handle[h]] = fdMode[handle[h]]
       /\ ~ disturbed'[h] => ~ disturbed[h] /\ Grown(content[FileOf(h)], content'[FileOf(h)])

LEMMA GrownItself == ASSUME NEW s PROVE Len(s) \in Nat => Grown(s, s)
BY DEF Grown

LEMMA OthersKeepCall ==
  ASSUME TypeInv, DescInv, NEW g \in Handles, Step(g), NEW h \in Handles, h # g
  PROVE  KeepsCall(h)
<1>1. handle[h] >= 0 => /\ handle[h] \in Fds /\ ~ Free(handle[h]) /\ FileOf(h) \in Files
                        /\ handle[g] >= 0 => handle[g] # handle[h]
  BY DEF TypeInv, FileTypeOK, DescInv, OwnDescriptor, Free, FileOf
<1>2. handle[h] >= 0 => content[FileOf(h)] \in Seq(Bytes) /\ Grown(content[FileOf(h)], content[FileOf(h)])
  BY <1>1, GrownItself DEF TypeInv, FileTypeOK
<1>3. handle[h] \in Int /\ handle[g] \in Int
  BY DEF TypeInv, FileTypeOK, Fds
<1> DEFINE Locals == /\ ioPc'[h] = ioPc[h] /\ handle'[h] = handle[h] /\ total'[h] = total[h] /\ buf'[h] = buf[h]
                     /\ room'[h] = room[h] /\ size'[h] = size[h] /\ start'[h] = start[h]
<1>l. Locals
  BY DEF TypeInv, FileTypeOK, Step, Open, OpenFails, Close, UseClosed, Seek, WriteAll, Begin, WriteChunk, WriteOnce,
     PrintTo, Printed, CallFails, Caught, ReadOnce, ReadBytes, ReadChunk, Finish, call
<1>q. ASSUME handle[h] >= 0 => /\ fdPos'[handle[h]] = fdPos[handle[h]]
                               /\ fdFile'[handle[h]] = fdFile[handle[h]]
                               /\ fdMode'[handle[h]] = fdMode[handle[h]],
             content' = content, disturbed'[h] = disturbed[h]
      PROVE  KeepsCall(h)
  BY <1>l, <1>2, <1>q DEF KeepsCall
<1>w. ASSUME NEW b \in Seq(Bytes), handle[g] >= 0, SysWrite(g, b), UNCHANGED <<fdFile, fdMode>>
      PROVE  KeepsCall(h)
  <2>1. SUFFICES ASSUME handle[h] >= 0
                 PROVE  /\ fdPos'[handle[h]] = fdPos[handle[h]]
                        /\ ~ disturbed'[h] =>
                             ~ disturbed[h] /\ Grown(content[FileOf(h)], content'[FileOf(h)])
    BY <1>l, <1>w, <2>1 DEF KeepsCall
  <2>2. fdPos'[handle[h]] = fdPos[handle[h]]
    BY <1>1, <1>w, <2>1, SysWriteFiles DEF TypeInv
  <2>3. ASSUME ~ disturbed'[h] PROVE ~ disturbed[h] /\ Grown(content[FileOf(h)], content'[FileOf(h)])
    <3>1. ~ disturbed[h] /\ (FileOf(h) = FileOf(g) => Appends(handle[g]))
      BY <1>w, <2>1, <2>3, SysWriteFiles DEF TypeInv
    <3>2. FileOf(h) = FileOf(g) => Grown(content[FileOf(h)], content'[FileOf(h)])
      BY <1>w, <3>1, SysWriteFiles DEF TypeInv
    <3>3. FileOf(h) # FileOf(g) => content'[FileOf(h)] = content[FileOf(h)]
      BY <1>1, <1>w, <2>1, SysWriteFiles DEF TypeInv
    <3>4. QED
      BY <1>2, <2>1, <3>1, <3>2, <3>3
  <2>4. QED
    BY <2>2, <2>3
<1>4. ASSUME NEW f \in Files, NEW m \in Modes, Open(g, f, m) PROVE KeepsCall(h)
  <2>1. PICK fd \in Fds : /\ Free(fd) /\ fdFile' = [fdFile EXCEPT ![fd] = f]
                          /\ fdPos' = [fdPos EXCEPT ![fd] = 0] /\ fdMode' = [fdMode EXCEPT ![fd] = m]
    BY <1>4 DEF Open, NextFd
  <2>2. SUFFICES ASSUME handle[h] >= 0
                 PROVE  /\ fdPos'[handle[h]] = fdPos[handle[h]] /\ fdFile'[handle[h]] = fdFile[handle[h]]
                        /\ fdMode'[handle[h]] = fdMode[handle[h]]
                        /\ ~ disturbed'[h] =>
                             ~ disturbed[h] /\ Grown(content[FileOf(h)], content'[FileOf(h)])
    BY <1>l, <2>2 DEF KeepsCall
  <2>3. handle[h] # fd
    BY <1>1, <2>1, <2>2
  <2>4. /\ fdPos'[handle[h]] = fdPos[handle[h]] /\ fdFile'[handle[h]] = fdFile[handle[h]]
        /\ fdMode'[handle[h]] = fdMode[handle[h]]
    BY <1>1, <2>1, <2>2, <2>3 DEF TypeInv, FileTypeOK
  <2>5. ASSUME ~ disturbed'[h] PROVE ~ disturbed[h] /\ content'[FileOf(h)] = content[FileOf(h)]
    <3>1. ~ disturbed[h] /\ ~(m = "w" /\ h \in OthersOn(g, f))
      BY <1>4, <2>5 DEF Open
    <3>2. m = "w" => FileOf(h) # f
      BY <2>2, <3>1 DEF OthersOn, FileOf
    <3>3. QED
      BY <1>1, <1>4, <2>2, <3>1, <3>2 DEF Open, TypeInv, FileTypeOK
  <2>6. QED
    BY <1>2, <2>2, <2>4, <2>5
<1>5. CASE OpenFails(g) \/ UseClosed(g) \/ Printed(g) \/ CallFails(g) \/ Caught(g)
  BY <1>5, <1>q DEF OpenFails, UseClosed, Printed, CallFails, Caught, sys, call
<1>6. CASE Close(g)
  BY <1>1, <1>6, <1>q DEF Close, Released, call, TypeInv, FileTypeOK
<1>7. ASSUME NEW to \in 0 .. MaxSize, Seek(g, to) PROVE KeepsCall(h)
  BY <1>1, <1>7, <1>q DEF Seek, call, TypeInv, FileTypeOK
<1>8. CASE WriteAll(g) \/ \E n \in Sizes : ReadBytes(g, n)
  BY <1>8, <1>q DEF WriteAll, ReadBytes, Begin, sys, TypeInv, FileTypeOK
<1>9. ASSUME NEW n \in 1 .. DataLen, WriteChunk(g, n) PROVE KeepsCall(h)
  <2>1. total[g] \in Nat /\ n \in Nat /\ total[g] + n <= DataLen /\ handle[g] >= 0
    BY <1>9, ChunkBounds
  <2>2. SubSeq(Data(g), total[g] + 1, total[g] + n) \in Seq(Bytes)
    BY <2>1, PieceType
  <2>3. QED
    BY <1>9, <1>w, <2>1, <2>2 DEF WriteChunk
<1>10. ASSUME NEW n \in 0 .. DataLen, WriteOnce(g, n) \/ PrintTo(g, n) PROVE KeepsCall(h)
  <2>1. SubSeq(Data(g), 1, n) \in Seq(Bytes) /\ handle[g] >= 0
    BY <1>10, PrefixType, BoundsAssumption DEF WriteOnce, PrintTo, Writable
  <2>2. QED
    BY <1>10, <1>w, <2>1 DEF WriteOnce, PrintTo
<1>11. ASSUME NEW n \in 1 .. MaxSize, ReadOnce(g, n) PROVE KeepsCall(h)
  BY <1>1, <1>11, <1>q DEF ReadOnce, Readable, call, TypeInv, FileTypeOK
<1>12. ASSUME NEW n \in 0 .. MaxSize, ReadChunk(g, n) PROVE KeepsCall(h)
  <2>1. handle[g] >= 0 /\ fdPos' = [fdPos EXCEPT ![handle[g]] = @ + n] /\ UNCHANGED <<content, fdFile, fdMode, disturbed>>
    BY <1>12 DEF ReadChunk, TypeInv, RoomLeft
  <2>2. QED
    BY <1>1, <1>q, <2>1 DEF TypeInv, FileTypeOK
<1>13. QED
  BY <1>4, <1>5, <1>6, <1>7, <1>8, <1>9, <1>10, <1>11, <1>12 DEF Step

LEMMA KeptSoFar ==
  ASSUME TypeInv, TypeInv', DescInv, NEW h \in Handles, KeepsCall(h), ReadSoFar(h), WrittenSoFar(h)
  PROVE  ReadSoFar(h)' /\ WrittenSoFar(h)'
<1>1. CASE ioPc[h] \notin {"read", "write"}
  BY <1>1 DEF KeepsCall, ReadSoFar, WrittenSoFar
<1>2. CASE ioPc[h] \in {"read", "write"}
  <2>1. handle[h] >= 0 /\ handle[h] \in Fds /\ FileOf(h) \in Files
    BY <1>2 DEF TypeInv, FileTypeOK, RoomLeft, WriteLeft, DescInv, OwnDescriptor, Free, FileOf
  <2>2. FileOf(h)' = FileOf(h) /\ Sent(h)' = Sent(h) /\ (Appends(handle[h])' <=> Appends(handle[h]))
    BY <2>1 DEF KeepsCall, FileOf, Sent, Appends
  <2>3. /\ content[FileOf(h)] \in Seq(Bytes) /\ content'[FileOf(h)] \in Seq(Bytes)
        /\ start[h] \in Nat /\ buf[h] \in Seq(Bytes)
    BY <2>1 DEF TypeInv, FileTypeOK
  <2>4. ReadSoFar(h)'
    <3>1. SUFFICES ASSUME ioPc[h] = "read", ~ disturbed'[h]
                   PROVE  StandsAt(content'[FileOf(h)], start[h], buf[h])
      BY <2>1, <2>2 DEF ReadSoFar, KeepsCall
    <3>2. Grown(content[FileOf(h)], content'[FileOf(h)]) /\ StandsAt(content[FileOf(h)], start[h], buf[h])
      BY <2>1, <3>1 DEF KeepsCall, ReadSoFar
    <3>3. QED
      BY <2>3, <3>2, GrownKeeps
  <2>5. WrittenSoFar(h)'
    <3>1. SUFFICES ASSUME ioPc[h] = "write", ~ Appends(handle[h]), ~ disturbed'[h]
                   PROVE  StandsAt(content'[FileOf(h)], start[h], Sent(h))
      BY <2>1, <2>2 DEF WrittenSoFar, KeepsCall
    <3>2. Grown(content[FileOf(h)], content'[FileOf(h)]) /\ StandsAt(content[FileOf(h)], start[h], Sent(h))
      BY <2>1, <3>1 DEF KeepsCall, WrittenSoFar
    <3>3. Sent(h) \in Seq(Bytes)
      BY <3>1, PrefixType DEF Sent, TypeInv, FileTypeOK, WriteLeft
    <3>4. QED
      BY <2>3, <3>2, <3>3, GrownKeeps
  <2>6. QED
    BY <2>4, <2>5
<1>3. QED
  BY <1>1, <1>2

(* A piece of a sequence, and two sequences one after the other.             *)
LEMMA PieceIs ==
  ASSUME NEW s \in Seq(Bytes), NEW a \in Nat, NEW n \in Nat, a + n <= Len(s)
  PROVE  /\ SubSeq(s, a + 1, a + n) \in Seq(Bytes) /\ Len(SubSeq(s, a + 1, a + n)) = n
         /\ \A i \in 1 .. n : SubSeq(s, a + 1, a + n)[i] = s[a + i]
<1>1. ASSUME NEW i \in 1 .. n PROVE SubSeq(s, a + 1, a + n)[i] = s[a + i]
  <2>1. (a + 1) + i - 1 = a + i /\ i \in 1 .. ((a + n) - (a + 1) + 1)
    OBVIOUS
  <2>2. QED
    BY <2>1
<1>2. SubSeq(s, a + 1, a + n) \in Seq(Bytes) /\ Len(SubSeq(s, a + 1, a + n)) = n
  OBVIOUS
<1>3. QED
  BY <1>1, <1>2

LEMMA JoinIs ==
  ASSUME NEW s \in Seq(Bytes), NEW t \in Seq(Bytes)
  PROVE  /\ s \o t \in Seq(Bytes) /\ Len(s \o t) = Len(s) + Len(t)
         /\ \A i \in 1 .. Len(s) : (s \o t)[i] = s[i]
         /\ \A i \in 1 .. (Len(s) + Len(t)) : i > Len(s) => (s \o t)[i] = t[i - Len(s)]
OBVIOUS

(* One turn of write_all's loop: what has been sent stands where the call    *)
(* began.                                                                    *)
LEMMA ChunkWritten ==
  ASSUME TypeInv, DescInv, NEW h \in Handles, NEW n \in 1 .. DataLen, WriteChunk(h, n),
         WrittenSoFar(h), ~ Appends(handle[h])
  PROVE  /\ fdPos'[handle[h]] = start[h] + (total[h] + n)
         /\ total[h] + n <= DataLen /\ disturbed'[h] = disturbed[h] /\ FileOf(h) \in Files
         /\ ~ disturbed[h] =>
              StandsAt(content'[FileOf(h)], start[h], SubSeq(Data(h), 1, total[h] + n))
<1> DEFINE k == total[h]
           d == Data(h)
           b == SubSeq(d, k + 1, k + n)
           f == FileOf(h)
<1>1. k \in Nat /\ n \in Nat \ {0} /\ k + n <= DataLen /\ handle[h] >= 0 /\ start[h] \in Nat
  BY ChunkBounds
<1>2. d \in Seq(Bytes) /\ Len(d) = DataLen
  BY DataType
<1>3. b \in Seq(Bytes) /\ Len(b) = n /\ \A i \in 1 .. n : b[i] = d[k + i]
  BY <1>1, <1>2, PieceIs
<1>b. At(h) = fdPos[handle[h]]
  BY DEF At
<1> HIDE DEF b, d
<1>4. SysWrite(h, b) /\ fdPos[handle[h]] = start[h] + k
  BY DEF WriteChunk, WrittenSoFar, b, d
<1>5. At(h) = start[h] + k
  BY <1>4, <1>b
<1>6. /\ fdPos'[handle[h]] = (start[h] + k) + n /\ disturbed'[h] = disturbed[h] /\ f \in Files
      /\ StandsAt(content'[f], start[h] + k, b) /\ Len(content'[f]) >= Len(content[f])
      /\ \A i \in 1 .. Len(content[f]) : i <= start[h] + k => content'[f][i] = content[f][i]
  <2>1. FileTypeOK
    BY DEF TypeInv
  <2>2. /\ fdPos'[handle[h]] = At(h) + Len(b) /\ disturbed'[h] = disturbed[h] /\ f \in Files
        /\ StandsAt(content'[f], At(h), b) /\ Len(content'[f]) >= Len(content[f])
        /\ \A i \in 1 .. Len(content[f]) : i <= At(h) => content'[f][i] = content[f][i]
    BY <1>1, <1>3, <1>4, <2>1, SysWriteFiles
  <2>3. QED
    BY <1>3, <1>5, <2>2
<1>7. ASSUME ~ disturbed[h] PROVE StandsAt(content'[f], start[h], SubSeq(d, 1, k + n))
  <2> DEFINE t == SubSeq(d, 1, k + n)
  <2>1. t \in Seq(Bytes) /\ Len(t) = k + n /\ \A i \in 1 .. (k + n) : t[i] = d[i]
    BY <1>1, <1>2
  <2>2. b # <<>>
    BY <1>1, <1>3
  <2>3. (start[h] + k) + n <= Len(content'[f]) /\ \A i \in 1 .. n : content'[f][(start[h] + k) + i] = b[i]
    BY <1>3, <1>6, <2>2 DEF StandsAt
  <2>4. StandsAt(content[f], start[h], SubSeq(d, 1, k))
    BY <1>7 DEF WriteChunk, WrittenSoFar, Sent, d
  <2>5. SubSeq(d, 1, k) \in Seq(Bytes) /\ Len(SubSeq(d, 1, k)) = k /\ \A i \in 1 .. k : SubSeq(d, 1, k)[i] = d[i]
    BY <1>1, <1>2
  <2>6. content[f] \in Seq(Bytes)
    BY <1>6 DEF TypeInv, FileTypeOK
  <2>7. ASSUME NEW i \in 1 .. k PROVE content'[f][start[h] + i] = d[i]
    <3>1. SubSeq(d, 1, k) # <<>>
      <4>1. k # 0 /\ Len(SubSeq(d, 1, k)) = k
        BY <1>1, <2>5
      <4>2. QED
        BY <4>1, EmptySeq
    <3>2. start[h] + k <= Len(content[f]) /\ content[f][start[h] + i] = d[i]
      BY <2>4, <2>5, <3>1 DEF StandsAt
    <3>3. start[h] + i \in 1 .. Len(content[f]) /\ start[h] + i <= start[h] + k
      BY <1>1, <2>6, <3>2
    <3>4. QED
      BY <1>6, <3>2, <3>3
  <2>8. ASSUME NEW i \in 1 .. (k + n) PROVE content'[f][start[h] + i] = t[i]
    <3>1. CASE i <= k
      BY <1>1, <2>1, <2>7, <3>1
    <3>2. CASE i > k
      <4>1. i - k \in 1 .. n /\ (start[h] + k) + (i - k) = start[h] + i /\ k + (i - k) = i
        BY <1>1, <3>2
      <4>2. content'[f][start[h] + i] = b[i - k] /\ b[i - k] = d[i]
        BY <1>3, <2>3, <4>1
      <4>3. QED
        BY <2>1, <4>2
    <3>3. QED
      BY <1>1, <3>1, <3>2
  <2>9. start[h] + Len(t) <= Len(content'[f])
    BY <1>1, <2>1, <2>3
  <2>10. QED
    BY <2>1, <2>8, <2>9 DEF StandsAt
<1>8. (start[h] + k) + n = start[h] + (k + n)
  BY <1>1
<1>9. QED
  BY <1>1, <1>6, <1>7, <1>8 DEF d

(* One turn of read_bytes' loop: what has been read stands in the file.      *)
LEMMA ChunkRead ==
  ASSUME TypeInv, DescInv, NEW h \in Handles, NEW n \in 0 .. MaxSize, ReadChunk(h, n), ReadSoFar(h)
  PROVE  /\ Len(buf'[h]) = total[h] + n /\ total'[h] = total[h] + n
         /\ fdPos'[handle[h]] = start[h] + (total[h] + n)
         /\ FileOf(h) \in Files /\ buf'[h] \in Seq(Bytes)
         /\ ~ disturbed[h] => StandsAt(content[FileOf(h)], start[h], buf'[h])
         /\ n = 0 /\ total[h] # size[h] => start[h] + total[h] >= Len(content[FileOf(h)])
<1> DEFINE k == total[h]
           s == content[FileOf(h)]
           p == fdPos[handle[h]]
           c == SubSeq(Left(h), 1, n)
<1>1. /\ handle[h] >= 0 /\ handle[h] \in Fds /\ ~ Free(handle[h]) /\ FileOf(h) \in Files
      /\ k \in Nat /\ start[h] \in Nat /\ room[h] \in Nat /\ n \in Nat /\ buf[h] \in Seq(Bytes)
      /\ size[h] \in Nat \union {-1} /\ k <= room[h]
  BY BoundsAssumption DEF ReadChunk, TypeInv, FileTypeOK, RoomLeft, DescInv, OwnDescriptor, Free, FileOf
<1>2. s \in Seq(Bytes) /\ p \in Nat
  BY <1>1 DEF TypeInv, FileTypeOK
<1>3. ioPc[h] = "read" /\ Len(buf[h]) = k /\ p = start[h] + k
  BY DEF ReadChunk, ReadSoFar
<1>4. Left(h) = IF p < Len(s) THEN SubSeq(s, p + 1, Len(s)) ELSE <<>>
  BY DEF Left, FileOf
<1>5. /\ Left(h) \in Seq(Bytes)
      /\ Len(Left(h)) = IF p < Len(s) THEN Len(s) - p ELSE 0
      /\ \A i \in 1 .. Len(Left(h)) : Left(h)[i] = s[p + i]
  <2>1. CASE p < Len(s)
    <3>1. SubSeq(s, p + 1, Len(s)) \in Seq(Bytes) /\ Len(SubSeq(s, p + 1, Len(s))) = Len(s) - p
      BY <1>2, <2>1
    <3>2. \A i \in 1 .. (Len(s) - p) : SubSeq(s, p + 1, Len(s))[i] = s[p + i]
      BY <1>2, <2>1
    <3>3. QED
      BY <1>4, <2>1, <3>1, <3>2
  <2>2. CASE ~(p < Len(s))
    BY <1>2, <1>4, <2>2, EmptySeq
  <2>3. QED
    BY <2>1, <2>2
<1>6. n <= Len(Left(h)) /\ (n = 0 => room[h] = k \/ Len(Left(h)) = 0)
  BY <1>1, <1>5, BoundsAssumption DEF ReadChunk, Least
<1>7. c \in Seq(Bytes) /\ Len(c) = n /\ \A i \in 1 .. n : c[i] = s[p + i]
  BY <1>1, <1>5, <1>6
<1>8. buf'[h] = buf[h] \o c /\ total'[h] = k + n /\ fdPos'[handle[h]] = p + n
  BY <1>1 DEF ReadChunk, TypeInv, FileTypeOK
<1>9. /\ buf'[h] \in Seq(Bytes) /\ Len(buf'[h]) = k + n
      /\ \A i \in 1 .. k : buf'[h][i] = buf[h][i]
      /\ \A i \in 1 .. (k + n) : i > k => buf'[h][i] = c[i - k]
  <2> HIDE DEF c, k
  <2> DEFINE e == buf[h] \o c
  <2>1. /\ e \in Seq(Bytes) /\ Len(e) = k + n
        /\ \A i \in 1 .. k : e[i] = buf[h][i]
        /\ \A i \in 1 .. (k + n) : i > k => e[i] = c[i - k]
    BY <1>1, <1>3, <1>7, JoinIs
  <2> HIDE DEF e
  <2>2. buf'[h] = e
    BY <1>8 DEF e
  <2>3. QED
    BY <2>1, <2>2
<1>10. ASSUME ~ disturbed[h] PROVE StandsAt(s, start[h], buf'[h])
  <2>1. SUFFICES ASSUME buf'[h] # <<>>
                 PROVE  start[h] + (k + n) <= Len(s) /\ \A i \in 1 .. (k + n) : s[start[h] + i] = buf'[h][i]
    BY <1>9 DEF StandsAt
  <2>2. StandsAt(s, start[h], buf[h])
    BY <1>3, <1>10 DEF ReadSoFar
  <2>3. k > 0 => start[h] + k <= Len(s) /\ \A i \in 1 .. k : s[start[h] + i] = buf[h][i]
    BY <1>1, <1>3, <2>2, EmptySeq DEF StandsAt
  <2>4. n > 0 => start[h] + (k + n) <= Len(s)
    <3> HIDE DEF k, s, p
    <3>1. Len(s) \in Nat
      BY <1>2
    <3>2. n > 0 => p < Len(s) /\ n <= Len(s) - p
      BY <1>1, <1>2, <1>5, <1>6, <3>1
    <3>3. QED
      BY <1>1, <1>2, <1>3, <3>1, <3>2
  <2>5. k + n > 0
    BY <1>1, <1>9, <2>1, EmptySeq
  <2>6. start[h] + (k + n) <= Len(s)
    BY <1>1, <2>3, <2>4, <2>5
  <2>7. ASSUME NEW i \in 1 .. (k + n) PROVE s[start[h] + i] = buf'[h][i]
    <3>1. CASE i <= k
      BY <1>1, <1>9, <2>3, <3>1
    <3>2. CASE i > k
      <4>1. i - k \in 1 .. n /\ p + (i - k) = start[h] + i
        BY <1>1, <1>3, <3>2, SMTT(30)
      <4>2. QED
        BY <1>7, <1>9, <3>2, <4>1
    <3>3. QED
      BY <1>1, <3>1, <3>2
  <2>8. QED
    BY <2>6, <2>7
<1>11. ASSUME n = 0, k # size[h] PROVE start[h] + k >= Len(s)
  <2>1. room[h] # k
    BY <1>1, <1>3, <1>11 DEF ReadSoFar
  <2>2. Len(Left(h)) = 0
    BY <1>6, <1>11, <2>1
  <2>3. QED
    BY <1>2, <1>3, <1>5, <2>2
<1>12. fdPos'[handle[h]] = start[h] + (k + n)
  <2> HIDE DEF k, p
  <2>1. QED
    BY <1>1, <1>3, <1>8
<1>13. QED
  <2> HIDE DEF s, p, c
  <2>1. QED
    BY <1>1, <1>8, <1>9, <1>10, <1>11, <1>12 DEF s

(* The handle's own step: a call begins with nothing moved, a turn of the    *)
(* loop moves some more, and every other step is not in a loop afterwards.   *)
LEMMA OwnSoFar ==
  ASSUME TypeInv, TypeInv', DescInv, NEW h \in Handles, Step(h), ReadSoFar(h), WrittenSoFar(h)
  PROVE  ReadSoFar(h)' /\ WrittenSoFar(h)'
<1>h. handle[h] \in Int /\ (handle[h] >= 0 => handle[h] \in Fds)
  BY DEF TypeInv, FileTypeOK, Fds
<1>1. ASSUME ioPc'[h] \notin {"read", "write"} PROVE ReadSoFar(h)' /\ WrittenSoFar(h)'
  BY <1>1 DEF ReadSoFar, WrittenSoFar
<1>2. CASE WriteAll(h)
  <2>1. /\ ioPc'[h] = "write" /\ total'[h] = 0 /\ start'[h] = fdPos[handle[h]] /\ handle[h] >= 0
        /\ handle' = handle /\ fdPos' = fdPos
    BY <1>2 DEF WriteAll, Begin, sys, TypeInv, FileTypeOK
  <2>2. start'[h] \in Nat
    BY DEF TypeInv, FileTypeOK
  <2>3. Sent(h)' = <<>>
    <3>1. Sent(h)' = SubSeq(Data(h), 1, 0)
      BY <2>1 DEF Sent, Data
    <3>2. QED
      BY <3>1, DataType
  <2>4. QED
    BY <2>1, <2>2, <2>3, BoundsAssumption DEF ReadSoFar, WrittenSoFar, StandsAt
<1>3. ASSUME NEW n \in Sizes, ReadBytes(h, n) PROVE ReadSoFar(h)' /\ WrittenSoFar(h)'
  <2>1. /\ ioPc'[h] = "read" /\ total'[h] = 0 /\ start'[h] = fdPos[handle[h]] /\ buf'[h] = <<>>
        /\ handle' = handle /\ fdPos' = fdPos /\ size'[h] = n
        /\ room'[h] = IF n >= 0 THEN n ELSE FirstChunk
    BY <1>3 DEF ReadBytes, Begin, sys, TypeInv, FileTypeOK
  <2>2. start'[h] \in Nat /\ n \in Int
    BY BoundsAssumption DEF TypeInv, FileTypeOK
  <2>3. QED
    BY <2>1, <2>2, BoundsAssumption, EmptySeq DEF ReadSoFar, WrittenSoFar, StandsAt
<1>4. ASSUME NEW n \in 1 .. DataLen, WriteChunk(h, n) PROVE ReadSoFar(h)' /\ WrittenSoFar(h)'
  <2>1. /\ total'[h] = total[h] + n /\ start' = start /\ handle' = handle /\ fdFile' = fdFile
        /\ ioPc[h] = "write" /\ total[h] \in Nat /\ fdMode' = fdMode
        /\ IF n = DataLen - total[h] THEN ioPc'[h] = "idle" ELSE ioPc' = ioPc
    BY <1>4 DEF WriteChunk, Finish, Rest, TypeInv, FileTypeOK
  <2>2. CASE n = DataLen - total[h]
    BY <1>1, <2>1, <2>2
  <2>3. CASE n # DataLen - total[h]
    <3>1. SUFFICES ASSUME ~ Appends(handle[h]) PROVE WrittenSoFar(h)'
      BY <2>1, <2>3 DEF ReadSoFar, WrittenSoFar, Appends
    <3>2. /\ fdPos'[handle[h]] = start[h] + (total[h] + n)
          /\ total[h] + n <= DataLen /\ disturbed'[h] = disturbed[h]
          /\ ~ disturbed[h] =>
               StandsAt(content'[FileOf(h)], start[h], SubSeq(Data(h), 1, total[h] + n))
      BY <1>4, <3>1, ChunkWritten
    <3>3. FileOf(h)' = FileOf(h) /\ Sent(h)' = SubSeq(Data(h), 1, total[h] + n)
      BY <2>1 DEF FileOf, Sent, Data
    <3>4. total[h] + n < DataLen
      BY <2>1, <2>3, <3>2, BoundsAssumption
    <3>5. QED
      BY <2>1, <3>2, <3>3, <3>4 DEF WrittenSoFar
  <2>4. QED
    BY <2>2, <2>3
<1>5. ASSUME NEW n \in 0 .. MaxSize, ReadChunk(h, n) PROVE ReadSoFar(h)' /\ WrittenSoFar(h)'
  <2>1. /\ start' = start /\ handle' = handle /\ fdFile' = fdFile /\ content' = content /\ size' = size
        /\ ioPc[h] = "read" /\ disturbed' = disturbed
    BY <1>5 DEF ReadChunk
  <2>2. CASE total[h] + n = size[h] \/ n = 0
    <3>1. ioPc'[h] = "idle"
      BY <1>5, <2>2 DEF ReadChunk, Finish, TypeInv, FileTypeOK
    <3>2. QED
      BY <1>1, <3>1
  <2>3. CASE ~(total[h] + n = size[h] \/ n = 0)
    <3>1. /\ ioPc' = ioPc /\ room'[h] = IF size[h] < 0 THEN Grow(total[h] + n) ELSE room[h]
      BY <1>5, <2>3 DEF ReadChunk, TypeInv, FileTypeOK
    <3>2. /\ Len(buf'[h]) = total[h] + n /\ total'[h] = total[h] + n
          /\ fdPos'[handle[h]] = start[h] + (total[h] + n)
          /\ ~ disturbed[h] => StandsAt(content[FileOf(h)], start[h], buf'[h])
      BY <1>5, ChunkRead
    <3>3. FileOf(h)' = FileOf(h)
      BY <2>1 DEF FileOf
    <3>4. size[h] < 0 => room'[h] > total[h] + n
      <4>1. total[h] \in Nat /\ n \in Nat \ {0}
        BY <2>3, BoundsAssumption DEF TypeInv, FileTypeOK
      <4>2. QED
        BY <3>1, <4>1 DEF Grow
    <3>5. size[h] >= 0 => room'[h] = size[h]
      <4>1. size[h] \in Int
        BY DEF TypeInv, FileTypeOK
      <4>2. QED
        BY <2>1, <3>1, <4>1 DEF ReadSoFar
    <3>6. QED
      BY <2>1, <3>1, <3>2, <3>3, <3>4, <3>5 DEF ReadSoFar, WrittenSoFar
  <2>4. QED
    BY <2>2, <2>3
<1>6. ASSUME ioPc[h] = "idle", ioPc' = ioPc PROVE ReadSoFar(h)' /\ WrittenSoFar(h)'
  BY <1>1, <1>6
<1>7. CASE \/ \E f \in Files, m \in Modes : Open(h, f, m)
           \/ OpenFails(h) \/ Close(h) \/ UseClosed(h)
           \/ \E to \in 0 .. MaxSize : Seek(h, to)
           \/ \E n \in 0 .. DataLen : WriteOnce(h, n)
           \/ \E n \in 1 .. MaxSize : ReadOnce(h, n)
  BY <1>6, <1>7 DEF Open, OpenFails, Close, UseClosed, Seek, WriteOnce, ReadOnce, Idle
<1>8. CASE (\E n \in 0 .. DataLen : PrintTo(h, n)) \/ Printed(h) \/ CallFails(h) \/ Caught(h)
  <2>1. ioPc'[h] \in {"printed", "idle", "raised"}
    BY <1>8 DEF PrintTo, Printed, CallFails, Caught, Finish, TypeInv, FileTypeOK
  <2>2. QED
    BY <1>1, <2>1
<1>9. QED
  BY <1>2, <1>3, <1>4, <1>5, <1>7, <1>8 DEF Step

LEMMA NextSoFar ==
  ASSUME TypeInv, TypeInv', DescInv, SoFar, [FileNext]_fileVars
  PROVE  SoFar'
<1>1. CASE FileNext
  <2>1. PICK g \in Handles : Step(g)
    BY <1>1 DEF FileNext
  <2>2. ASSUME NEW h \in Handles PROVE ReadSoFar(h)' /\ WrittenSoFar(h)'
    <3>1. ReadSoFar(h) /\ WrittenSoFar(h)
      BY DEF SoFar
    <3>2. CASE h = g
      BY <2>1, <3>1, <3>2, OwnSoFar
    <3>3. CASE h # g
      <4>1. KeepsCall(h)
        BY <2>1, <3>3, OthersKeepCall
      <4>2. QED
        BY <3>1, <4>1, KeptSoFar
    <3>4. QED
      BY <3>2, <3>3
  <2>3. QED
    BY <2>2 DEF SoFar
<1>2. CASE UNCHANGED fileVars
  BY <1>2 DEF fileVars, sys, call, SoFar, ReadSoFar, WrittenSoFar, StandsAt, Sent, FileOf, Appends, Data
<1>3. QED
  BY <1>1, <1>2

LEMMA InitSoFar == FileInit => SoFar
BY DEF FileInit, SoFar, ReadSoFar, WrittenSoFar

(* read_bytes returns what the file has from where the call began, all of it *)
(* or as much as was asked for, however short the single reads are and       *)
(* whatever other handles append meanwhile.                                  *)
THEOREM ReadWholeHolds == FileSpec => ReadWhole
<1> DEFINE Good(h) == Returns(h, "read") /\ ~ disturbed[h] =>
                        LET s == content[fdFile[handle[h]]]
                            n == Len(buf'[h])
                        IN /\ n > 0 => HasAt(s, start[h], buf'[h])
                           /\ n = size[h] \/ start[h] + n >= Len(s)
<1>1. ASSUME TypeInv, TypeInv', DescInv, SoFar, [FileNext]_fileVars
      PROVE  [\A h \in Handles : Good(h)]_fileVars
  <2>1. SUFFICES ASSUME NEW h \in Handles, Returns(h, "read"), ~ disturbed[h]
                 PROVE  LET s == content[FileOf(h)]
                            n == Len(buf'[h])
                        IN /\ n > 0 => HasAt(s, start[h], buf'[h])
                           /\ n = size[h] \/ start[h] + n >= Len(s)
    BY DEF FileOf
  <2>2. PICK g \in Handles : Step(g)
    BY <1>1, <2>1 DEF FileNext, fileVars, Returns
  <2>3. g = h
    <3>1. g # h => ioPc'[h] = ioPc[h]
      BY <1>1, <2>2, OthersKeepCall DEF KeepsCall
    <3>2. QED
      BY <2>1, <3>1 DEF Returns
  <2>4. PICK n \in 0 .. MaxSize : ReadChunk(h, n)
    <3>1. ioPc[h] = "read" /\ ioPc'[h] = "idle"
      BY <2>1 DEF Returns
    <3>2. ~(CallFails(h) \/ Caught(h) \/ Printed(h) \/ OpenFails(h) \/ Close(h) \/ UseClosed(h) \/ WriteAll(h))
      BY <1>1, <3>1 DEF CallFails, Caught, Printed, OpenFails, Close, UseClosed, WriteAll, Begin, Idle, TypeInv, FileTypeOK
    <3>3. Step(h)
      BY <2>2, <2>3
    <3>4. QED
      BY <3>1, <3>2, <3>3 DEF Step, Open, Seek, WriteChunk, WriteOnce, PrintTo, ReadOnce, ReadBytes, Begin, Idle
  <2>5. total[h] + n = size[h] \/ n = 0
    BY <2>1, <2>4 DEF ReadChunk, Returns
  <2>6. /\ Len(buf'[h]) = total[h] + n /\ FileOf(h) \in Files /\ buf'[h] \in Seq(Bytes)
        /\ StandsAt(content[FileOf(h)], start[h], buf'[h])
        /\ n = 0 /\ total[h] # size[h] => start[h] + total[h] >= Len(content[FileOf(h)])
    BY <1>1, <2>1, <2>4, ChunkRead DEF SoFar
  <2>7. /\ content[FileOf(h)] \in Seq(Bytes) /\ start[h] \in Nat /\ total[h] \in Nat
    BY <1>1, <2>6 DEF TypeInv, FileTypeOK
  <2>8. Len(buf'[h]) > 0 => HasAt(content[FileOf(h)], start[h], buf'[h])
    BY <2>6, <2>7, StandsIsHas, EmptySeq
  <2>9. Len(buf'[h]) = size[h] \/ start[h] + Len(buf'[h]) >= Len(content[FileOf(h)])
    BY <2>5, <2>6, <2>7
  <2>10. QED
    BY <2>8, <2>9
<1>2. QED
  BY <1>1, InitType, NextType, InitDesc, NextDesc, InitSoFar, NextSoFar, PTL DEF FileSpec, ReadWhole

(* ---------------------------------------------------------------------- *)
(* Writes in append mode                                                    *)

(* What others add at the end of a file is not a handle's own.               *)
LEMMA LastKept ==
  ASSUME NEW h, NEW s \in Seq(Bytes), NEW u \in Seq(Bytes), NEW t \in Seq(Bytes), Grown(s, u), LastOf(h, s, t),
         \A i \in 1 .. Len(u) : i > Len(s) => u[i].by # h
  PROVE  LastOf(h, u, t)
<1>1. PICK ls \in Nat, lu \in Nat, lt \in Nat : ls = Len(s) /\ lu = Len(u) /\ lt = Len(t)
  OBVIOUS
<1>2. ls <= lu /\ \A i \in 1 .. ls : u[i] = s[i]
  BY <1>1 DEF Grown
<1>3. PICK place \in [1 .. lt -> 1 .. ls] :
        /\ \A j, k \in 1 .. lt : j < k => place[j] < place[k]
        /\ \A k \in 1 .. lt : s[place[k]] = t[k]
        /\ \A i \in 1 .. ls : s[i].by = h => (\E k \in 1 .. lt : i = place[k]) \/ (\A k \in 1 .. lt : i < place[k])
  BY <1>1 DEF LastOf
<1>4. place \in [1 .. lt -> 1 .. lu]
  BY <1>2, <1>3
<1>5. \A k \in 1 .. lt : u[place[k]] = t[k]
  BY <1>2, <1>3
<1>6. ASSUME NEW i \in 1 .. lu, u[i].by = h
      PROVE  (\E k \in 1 .. lt : i = place[k]) \/ (\A k \in 1 .. lt : i < place[k])
  <2>1. i \in 1 .. ls
    BY <1>1, <1>6
  <2>2. s[i].by = h
    BY <1>2, <1>6, <2>1
  <2>3. QED
    BY <1>3, <2>1, <2>2
<1>7. QED
  BY <1>1, <1>3, <1>4, <1>5, <1>6 DEF LastOf

(* A handle's own bytes, added at the end, follow its last ones.             *)
LEMMA LastExtended ==
  ASSUME NEW h, NEW s \in Seq(Bytes), NEW u \in Seq(Bytes), NEW d \in Seq(Bytes), NEW k \in Nat, NEW n \in Nat, k + n <= Len(d),
         LastOf(h, s, SubSeq(d, 1, k)), Grown(s, u), Len(u) = Len(s) + n, \A i \in 1 .. n : u[Len(s) + i] = d[k + i]
  PROVE  LastOf(h, u, SubSeq(d, 1, k + n))
<1>1. PICK ls \in Nat : ls = Len(s) /\ Len(u) = ls + n
  OBVIOUS
<1>2. \A i \in 1 .. ls : u[i] = s[i]
  BY <1>1 DEF Grown
<1>3. PICK t, v : t = SubSeq(d, 1, k) /\ v = SubSeq(d, 1, k + n)
  OBVIOUS
<1>4. /\ Len(t) = k /\ \A i \in 1 .. k : t[i] = d[i]
      /\ Len(v) = k + n /\ \A i \in 1 .. (k + n) : v[i] = d[i]
  <2>1. k <= Len(d)
    OBVIOUS
  <2>2. QED
    BY <1>3, <2>1
<1>5. PICK place \in [1 .. k -> 1 .. ls] :
        /\ \A i, j \in 1 .. k : i < j => place[i] < place[j]
        /\ \A j \in 1 .. k : s[place[j]] = t[j]
        /\ \A i \in 1 .. ls : s[i].by = h => (\E j \in 1 .. k : i = place[j]) \/ (\A j \in 1 .. k : i < place[j])
  BY <1>1, <1>3, <1>4 DEF LastOf
<1>6. PICK at : at = [j \in 1 .. (k + n) |-> IF j <= k THEN place[j] ELSE ls + (j - k)]
  OBVIOUS
<1>7. at \in [1 .. (k + n) -> 1 .. (ls + n)]
  <2>1. ASSUME NEW j \in 1 .. (k + n) PROVE (IF j <= k THEN place[j] ELSE ls + (j - k)) \in 1 .. (ls + n)
    <3>1. CASE j <= k
      <4>1. j \in 1 .. k
        BY <3>1
      <4>2. place[j] \in 1 .. ls
        BY <1>5, <4>1
      <4>3. QED
        BY <3>1, <4>2
    <3>2. CASE ~(j <= k)
      BY <3>2
    <3>3. QED
      BY <3>1, <3>2
  <2>2. QED
    BY <1>6, <2>1
<1>8. (\A j \in 1 .. k : at[j] = place[j] /\ place[j] \in 1 .. ls) /\ \A j \in 1 .. (k + n) : j > k => at[j] = ls + (j - k)
  BY <1>5, <1>6
<1>9. ASSUME NEW i \in 1 .. (k + n), NEW j \in 1 .. (k + n), i < j PROVE at[i] < at[j]
  <2>1. CASE j <= k
    <3>1. i \in 1 .. k /\ j \in 1 .. k
      BY <1>9, <2>1
    <3>2. QED
      BY <1>5, <1>8, <1>9, <3>1
  <2>2. CASE j > k /\ i <= k
    <3>1. i \in 1 .. k
      BY <2>2
    <3>2. at[i] \in 1 .. ls /\ at[j] = ls + (j - k)
      BY <1>8, <2>2, <3>1
    <3>3. QED
      BY <2>2, <3>2
  <2>3. CASE j > k /\ i > k
    <3>1. at[i] = ls + (i - k) /\ at[j] = ls + (j - k)
      BY <1>8, <2>3
    <3>2. QED
      BY <1>9, <3>1
  <2>4. QED
    BY <2>1, <2>2, <2>3
<1>10. ASSUME NEW j \in 1 .. (k + n) PROVE u[at[j]] = v[j]
  <2>1. CASE j <= k
    <3>1. j \in 1 .. k
      BY <2>1
    <3>2. u[at[j]] = s[place[j]] /\ s[place[j]] = t[j] /\ t[j] = d[j]
      BY <1>2, <1>4, <1>5, <1>8, <3>1
    <3>3. QED
      BY <1>4, <3>2
  <2>2. CASE j > k
    <3>1. j - k \in 1 .. n /\ k + (j - k) = j
      BY <2>2
    <3>2. u[ls + (j - k)] = d[j]
      BY <1>1, <3>1
    <3>3. QED
      BY <1>4, <1>8, <2>2, <3>2
  <2>3. QED
    BY <2>1, <2>2
<1>11. ASSUME NEW i \in 1 .. (ls + n), u[i].by = h
       PROVE  (\E j \in 1 .. (k + n) : i = at[j]) \/ (\A j \in 1 .. (k + n) : i < at[j])
  <2>1. CASE i <= ls
    <3>1. i \in 1 .. ls /\ s[i].by = h
      BY <1>2, <1>11, <2>1
    <3>2. CASE \E j \in 1 .. k : i = place[j]
      <4>1. PICK j \in 1 .. k : i = place[j]
        BY <3>2
      <4>2. j \in 1 .. (k + n) /\ i = at[j]
        BY <1>8, <4>1
      <4>3. QED
        BY <4>2
    <3>3. CASE \A j \in 1 .. k : i < place[j]
      <4>1. ASSUME NEW j \in 1 .. (k + n) PROVE i < at[j]
        <5>1. CASE j <= k
          <6>1. j \in 1 .. k
            BY <5>1
          <6>2. QED
            BY <1>8, <3>3, <6>1
        <5>2. CASE j > k
          <6>1. at[j] = ls + (j - k)
            BY <1>8, <5>2
          <6>2. QED
            BY <3>1, <5>2, <6>1
        <5>3. QED
          BY <5>1, <5>2
      <4>2. QED
        BY <4>1
    <3>4. QED
      BY <1>5, <3>1, <3>2, <3>3
  <2>2. CASE i > ls
    <3>1. PICK j : j = k + (i - ls)
      OBVIOUS
    <3>2. j \in 1 .. (k + n) /\ j > k /\ ls + (j - k) = i
      BY <2>2, <3>1
    <3>3. QED
      BY <1>8, <3>2
  <2>3. QED
    BY <2>1, <2>2
<1>12. LastOf(h, u, v)
  <2>1. at \in [1 .. Len(v) -> 1 .. Len(u)]
    BY <1>1, <1>4, <1>7
  <2>2. Len(v) = k + n /\ Len(u) = ls + n
    BY <1>1, <1>4
  <2>3. \A i, j \in 1 .. Len(v) : i < j => at[i] < at[j]
    BY <1>9, <2>2
  <2>4. \A j \in 1 .. Len(v) : u[at[j]] = v[j]
    BY <1>10, <2>2
  <2>5. \A i \in 1 .. Len(u) : u[i].by = h =>
          (\E j \in 1 .. Len(v) : i = at[j]) \/ (\A j \in 1 .. Len(v) : i < at[j])
    BY <1>11, <2>2
  <2>6. QED
    BY <2>1, <2>3, <2>4, <2>5 DEF LastOf
<1>13. QED
  BY <1>3, <1>12

(* Nothing has been sent yet.                                                *)
LEMMA LastOfNone ==
  ASSUME NEW h, NEW s, Len(s) \in Nat
  PROVE  LastOf(h, s, <<>>)
<1>1. PICK t, ls : t = <<>> /\ ls = Len(s)
  OBVIOUS
<1>2. Len(t) = 0 /\ \A k \in 1 .. Len(t) : FALSE
  BY <1>1
<1>3. PICK place : place = [k \in 1 .. Len(t) |-> 1]
  OBVIOUS
<1>4. place \in [1 .. Len(t) -> 1 .. ls]
  BY <1>2, <1>3
<1>5. LastOf(h, s, t)
  BY <1>1, <1>2, <1>4, Zenon DEF LastOf
<1>6. QED
  BY <1>1, <1>5

(* One write(2) at the end of the file.                                      *)
LEMMA SysWriteAppends ==
  ASSUME FileTypeOK, DescInv, NEW h \in Handles, handle[h] >= 0, NEW b \in Seq(Bytes), SysWrite(h, b), Appends(handle[h])
  PROVE  /\ Len(content'[FileOf(h)]) = Len(content[FileOf(h)]) + Len(b)
         /\ \A i \in 1 .. Len(b) : content'[FileOf(h)][Len(content[FileOf(h)]) + i] = b[i]
<1>1. PICK f : f = FileOf(h)
  OBVIOUS
<1>2. f \in Files /\ handle[h] \in Fds
  BY <1>1 DEF FileTypeOK, DescInv, OwnDescriptor, Free, FileOf
<1>3. PICK s : s = content[f]
  OBVIOUS
<1>4. s \in Seq(Bytes)
  BY <1>2, <1>3 DEF FileTypeOK
<1>5. content'[f] = IF b = <<>> THEN s ELSE Overwrite(s, Len(s), b)
  BY <1>1, <1>2, <1>3 DEF SysWrite, FileOf, FileTypeOK
<1>6. PICK ls \in Nat, lb \in Nat : ls = Len(s) /\ lb = Len(b)
  BY <1>4
<1>7. CASE b = <<>>
  BY <1>1, <1>3, <1>4, <1>5, <1>7
<1>8. CASE b # <<>>
  <2>1. PICK o : o = Overwrite(s, ls, b)
    OBVIOUS
  <2>2. o \in Seq(Bytes) /\ \A i \in 1 .. lb : o[ls + i] = b[i]
    BY <1>4, <1>6, <2>1, OverwriteBytes
  <2>3. DOMAIN o = 1 .. (ls + lb)
    <3>1. ~(ls > ls + lb)
      OBVIOUS
    <3>2. QED
      BY <1>6, <2>1, <3>1 DEF Overwrite
  <2>4. Len(o) = ls + lb
    <3>1. Len(o) \in Nat /\ DOMAIN o = 1 .. Len(o)
      BY <2>2
    <3>2. QED
      BY <2>3, <3>1
  <2>5. QED
    BY <1>1, <1>3, <1>5, <1>6, <1>8, <2>1, <2>2, <2>4
<1>9. QED
  BY <1>7, <1>8

(* In append mode: what has been sent is the last that the handle wrote.     *)
AppendedSoFar(h) ==
  ioPc[h] = "write" /\ Appends(handle[h]) =>
    total[h] < DataLen /\ (~ disturbed[h] => LastOf(h, content[FileOf(h)], Sent(h)))
AllAppended == \A h \in Handles : AppendedSoFar(h)

(* The bytes that another handle adds to a file are its own.                 *)
AddsNoneOf(h) ==
  handle[h] >= 0 /\ ~ disturbed'[h] =>
    \A i \in 1 .. Len(content'[FileOf(h)]) : i > Len(content[FileOf(h)]) => content'[FileOf(h)][i].by # h

PieceOf(g, a, n, b) == b \in Seq(Bytes) /\ Len(b) = n /\ \A i \in 1 .. n : b[i].by = g /\ b[i] = Data(g)[a + i]
LEMMA BytesOfOne ==
  ASSUME NEW g \in Handles, NEW a \in Nat, NEW n \in Nat, a + n <= DataLen
  PROVE  PieceOf(g, a, n, SubSeq(Data(g), a + 1, a + n))
<1>0. PICK b : b = SubSeq(Data(g), a + 1, a + n)
  OBVIOUS
<1>1. Data(g) \in Seq(Bytes) /\ Len(Data(g)) = DataLen
  BY DataType
<1>2. b \in Seq(Bytes) /\ Len(b) = n /\ \A i \in 1 .. n : b[i] = Data(g)[a + i]
  BY <1>0, <1>1, PieceIs
<1>3. ASSUME NEW i \in 1 .. n PROVE b[i].by = g
  <2>1. a + i \in 1 .. DataLen
    BY BoundsAssumption
  <2>2. Data(g)[a + i].by = g
    BY <2>1 DEF Data
  <2>3. QED
    BY <1>2, <2>2
<1>4. QED
  BY <1>0, <1>2, <1>3 DEF PieceOf

LEMMA OthersAddNone ==
  ASSUME TypeInv, DescInv, NEW g \in Handles, Step(g), NEW h \in Handles, h # g
  PROVE  AddsNoneOf(h)
<1>1. SUFFICES ASSUME handle[h] >= 0, ~ disturbed'[h]
               PROVE  \A i \in 1 .. Len(content'[FileOf(h)]) : i > Len(content[FileOf(h)]) => content'[FileOf(h)][i].by # h
  BY DEF AddsNoneOf
<1>2. handle[h] \in Fds /\ FileOf(h) \in Files /\ content[FileOf(h)] \in Seq(Bytes)
  BY <1>1 DEF TypeInv, FileTypeOK, DescInv, OwnDescriptor, Free, FileOf
<1>3. PICK f : f = FileOf(h)
  OBVIOUS
<1>4. PICK ls \in Nat : ls = Len(content[f])
  BY <1>2, <1>3
<1> DEFINE Goal == \A i \in 1 .. Len(content'[f]) : i > Len(content[f]) => content'[f][i].by # h
<1>5. ASSUME content'[f] = content[f] PROVE Goal
  BY <1>4, <1>5
<1>6. ASSUME NEW a \in Nat, NEW n \in Nat, a + n <= DataLen, handle[g] >= 0, SysWrite(g, SubSeq(Data(g), a + 1, a + n)) PROVE Goal
  <2>1. PICK b : b = SubSeq(Data(g), a + 1, a + n)
    OBVIOUS
  <2>2. b \in Seq(Bytes) /\ Len(b) = n /\ \A i \in 1 .. n : b[i].by = g
    <3>1. PieceOf(g, a, n, b)
      BY <1>6, <2>1, BytesOfOne
    <3>2. QED
      BY <3>1 DEF PieceOf
  <2>3. FileTypeOK /\ SysWrite(g, b)
    BY <1>6, <2>1 DEF TypeInv
  <2>4. /\ f # FileOf(g) => content'[f] = content[f]
        /\ f = FileOf(g) => Appends(handle[g])
    BY <1>1, <1>2, <1>3, <1>6, <2>2, <2>3, SysWriteFiles
  <2>5. CASE f = FileOf(g)
    <3>1. Len(content'[f]) = ls + n /\ \A i \in 1 .. n : content'[f][ls + i] = b[i]
      BY <1>4, <1>6, <2>2, <2>3, <2>4, <2>5, SysWriteAppends
    <3>2. ASSUME NEW i \in 1 .. (ls + n), i > ls PROVE content'[f][i].by # h
      <4>1. i - ls \in 1 .. n /\ ls + (i - ls) = i
        BY <3>2
      <4>2. content'[f][i] = b[i - ls]
        BY <3>1, <4>1
      <4>3. QED
        BY <2>2, <4>1, <4>2
    <3>3. QED
      BY <1>4, <3>1, <3>2
  <2>6. QED
    BY <1>5, <2>4, <2>5
<1>7. ASSUME NEW e \in Files, NEW m \in Modes, Open(g, e, m) PROVE Goal
  <2>1. ~(m = "w" /\ h \in OthersOn(g, e))
    BY <1>1, <1>7 DEF Open
  <2>2. m = "w" => f # e
    BY <1>1, <1>3, <2>1 DEF OthersOn, FileOf
  <2>3. content'[f] = content[f]
    BY <1>2, <1>3, <1>7, <2>2 DEF Open, TypeInv, FileTypeOK
  <2>4. QED
    BY <1>5, <2>3
<1>8. ASSUME content' = content PROVE Goal
  BY <1>5, <1>8
<1>9. ASSUME \/ OpenFails(g) \/ Close(g) \/ UseClosed(g) \/ WriteAll(g) \/ Printed(g) \/ CallFails(g) \/ Caught(g)
             \/ \E to \in 0 .. MaxSize : Seek(g, to)
             \/ \E n \in 1 .. MaxSize : ReadOnce(g, n)
             \/ (\E n \in Sizes : ReadBytes(g, n)) \/ (\E n \in 0 .. MaxSize : ReadChunk(g, n))
      PROVE  Goal
  <2>1. content' = content
    BY <1>9 DEF OpenFails, Close, UseClosed, WriteAll, Printed, CallFails, Caught, Seek, ReadOnce, ReadBytes, ReadChunk, Begin, sys
  <2>2. QED
    BY <1>8, <2>1
<1>10. ASSUME NEW n \in 1 .. DataLen, WriteChunk(g, n) PROVE Goal
  <2>1. total[g] \in Nat /\ n \in Nat /\ total[g] + n <= DataLen /\ handle[g] >= 0
    BY <1>10, ChunkBounds
  <2>2. SysWrite(g, SubSeq(Data(g), total[g] + 1, total[g] + n))
    BY <1>10 DEF WriteChunk
  <2>3. QED
    BY <1>6, <2>1, <2>2
<1>11. ASSUME NEW n \in 0 .. DataLen, WriteOnce(g, n) \/ PrintTo(g, n) PROVE Goal
  <2>1. n \in Nat /\ 0 + n <= DataLen /\ handle[g] >= 0 /\ SysWrite(g, SubSeq(Data(g), 1, n))
    BY <1>11, BoundsAssumption DEF WriteOnce, PrintTo, Writable
  <2>2. 0 + 1 = 1 /\ 0 + n = n
    BY <2>1
  <2>3. SysWrite(g, SubSeq(Data(g), 0 + 1, 0 + n))
    BY <2>1, <2>2
  <2>4. QED
    BY <1>6, <2>1, <2>3
<1>12. Goal
  <2> HIDE DEF Goal
  <2>1. QED
    BY <1>7, <1>9, <1>10, <1>11 DEF Step
<1>13. QED
  BY <1>3, <1>12

LEMMA KeptAppended ==
  ASSUME TypeInv, TypeInv', DescInv, NEW h \in Handles, KeepsCall(h), AddsNoneOf(h), AppendedSoFar(h)
  PROVE  AppendedSoFar(h)'
<1>1. CASE ioPc[h] # "write"
  BY <1>1 DEF KeepsCall, AppendedSoFar
<1>2. CASE ioPc[h] = "write"
  <2>1. handle[h] >= 0 /\ handle[h] \in Fds /\ FileOf(h) \in Files /\ total[h] \in Nat /\ total[h] <= DataLen
    BY <1>2 DEF TypeInv, FileTypeOK, WriteLeft, DescInv, OwnDescriptor, Free, FileOf
  <2>2. FileOf(h)' = FileOf(h) /\ Sent(h)' = Sent(h) /\ (Appends(handle[h])' <=> Appends(handle[h]))
    BY <2>1 DEF KeepsCall, FileOf, Sent, Appends
  <2>3. content[FileOf(h)] \in Seq(Bytes) /\ content'[FileOf(h)] \in Seq(Bytes)
    BY <2>1 DEF TypeInv, FileTypeOK
  <2>4. Sent(h) \in Seq(Bytes)
    BY <2>1, PrefixType DEF Sent
  <2>5. SUFFICES ASSUME Appends(handle[h])
                 PROVE  total'[h] < DataLen /\ (~ disturbed'[h] => LastOf(h, content'[FileOf(h)], Sent(h)))
    BY <2>2 DEF AppendedSoFar
  <2>6. total'[h] < DataLen
    BY <1>2, <2>5 DEF KeepsCall, AppendedSoFar
  <2>7. ASSUME ~ disturbed'[h] PROVE LastOf(h, content'[FileOf(h)], Sent(h))
    <3>1. Grown(content[FileOf(h)], content'[FileOf(h)]) /\ ~ disturbed[h]
      BY <2>1, <2>7 DEF KeepsCall
    <3>2. LastOf(h, content[FileOf(h)], Sent(h))
      BY <1>2, <2>5, <3>1 DEF AppendedSoFar
    <3>3. \A i \in 1 .. Len(content'[FileOf(h)]) : i > Len(content[FileOf(h)]) => content'[FileOf(h)][i].by # h
      BY <2>1, <2>7 DEF AddsNoneOf
    <3>4. QED
      BY <2>3, <2>4, <3>1, <3>2, <3>3, LastKept
  <2>8. QED
    BY <2>6, <2>7
<1>3. QED
  BY <1>1, <1>2

(* One turn of write_all's loop in append mode.                              *)
LEMMA ChunkAppended ==
  ASSUME TypeInv, TypeInv', DescInv, NEW h \in Handles, NEW n \in 1 .. DataLen, WriteChunk(h, n), AppendedSoFar(h), Appends(handle[h])
  PROVE  /\ disturbed'[h] = disturbed[h] /\ total[h] \in Nat /\ total[h] + n <= DataLen
         /\ ~ disturbed[h] => LastOf(h, content'[FileOf(h)], SubSeq(Data(h), 1, total[h] + n))
<1>1. PICK k : k = total[h]
  OBVIOUS
<1>2. k \in Nat /\ n \in Nat /\ k + n <= DataLen /\ handle[h] >= 0
  BY <1>1, ChunkBounds
<1>3. PICK b : b = SubSeq(Data(h), k + 1, k + n)
  OBVIOUS
<1>4. b \in Seq(Bytes) /\ Len(b) = n /\ \A i \in 1 .. n : b[i] = Data(h)[k + i]
  <2>1. PieceOf(h, k, n, b)
    BY <1>2, <1>3, BytesOfOne
  <2>2. QED
    BY <2>1 DEF PieceOf
<1>5. FileTypeOK /\ SysWrite(h, b)
  BY <1>1, <1>3 DEF TypeInv, WriteChunk
<1>6. /\ FileOf(h) \in Files /\ disturbed'[h] = disturbed[h]
      /\ Grown(content[FileOf(h)], content'[FileOf(h)])
  BY <1>2, <1>4, <1>5, SysWriteFiles
<1>7. /\ Len(content'[FileOf(h)]) = Len(content[FileOf(h)]) + n
      /\ \A i \in 1 .. n : content'[FileOf(h)][Len(content[FileOf(h)]) + i] = b[i]
  BY <1>2, <1>4, <1>5, SysWriteAppends
<1>8. ASSUME ~ disturbed[h] PROVE LastOf(h, content'[FileOf(h)], SubSeq(Data(h), 1, k + n))
  <2>1. PICK s, u, d : s = content[FileOf(h)] /\ u = content'[FileOf(h)] /\ d = Data(h)
    OBVIOUS
  <2>2. s \in Seq(Bytes) /\ u \in Seq(Bytes)
    BY <1>6, <2>1 DEF TypeInv, FileTypeOK
  <2>3. d \in Seq(Bytes) /\ Len(d) = DataLen
    BY <2>1, DataType
  <2>4. LastOf(h, s, SubSeq(d, 1, k))
    BY <1>1, <1>8, <2>1 DEF AppendedSoFar, Sent, WriteChunk
  <2>5. Grown(s, u) /\ Len(u) = Len(s) + n /\ \A i \in 1 .. n : u[Len(s) + i] = d[k + i]
    BY <1>4, <1>6, <1>7, <2>1
  <2>6. LastOf(h, u, SubSeq(d, 1, k + n))
    BY <1>2, <2>2, <2>3, <2>4, <2>5, LastExtended
  <2>7. QED
    BY <2>1, <2>6
<1>9. QED
  BY <1>1, <1>2, <1>6, <1>8

LEMMA OwnAppended ==
  ASSUME TypeInv, TypeInv', DescInv, NEW h \in Handles, Step(h), AppendedSoFar(h)
  PROVE  AppendedSoFar(h)'
<1>1. ASSUME ioPc'[h] # "write" PROVE AppendedSoFar(h)'
  BY <1>1 DEF AppendedSoFar
<1>2. CASE WriteAll(h)
  <2>1. ioPc'[h] = "write" /\ total'[h] = 0 /\ handle' = handle /\ content' = content /\ fdFile' = fdFile /\ handle[h] >= 0
    BY <1>2 DEF WriteAll, Begin, sys, TypeInv, FileTypeOK
  <2>2. FileOf(h) \in Files
    BY <2>1 DEF TypeInv, FileTypeOK, DescInv, OwnDescriptor, Free, FileOf
  <2>3. Len(content[FileOf(h)]) \in Nat
    BY <2>2 DEF TypeInv, FileTypeOK
  <2>4. Sent(h)' = <<>>
    <3>1. Sent(h)' = SubSeq(Data(h), 1, 0)
      BY <2>1 DEF Sent, Data
    <3>2. QED
      BY <3>1, DataType
  <2>5. LastOf(h, content[FileOf(h)], <<>>)
    BY <2>3, LastOfNone
  <2>6. content'[FileOf(h)'] = content[FileOf(h)]
    BY <2>1 DEF FileOf
  <2>7. QED
    BY <2>1, <2>4, <2>5, <2>6, BoundsAssumption DEF AppendedSoFar
<1>3. ASSUME NEW n \in 1 .. DataLen, WriteChunk(h, n) PROVE AppendedSoFar(h)'
  <2>1. /\ total'[h] = total[h] + n /\ handle' = handle /\ fdFile' = fdFile
        /\ ioPc[h] = "write" /\ total[h] \in Nat /\ fdMode' = fdMode
        /\ IF n = DataLen - total[h] THEN ioPc'[h] = "idle" ELSE ioPc' = ioPc
    BY <1>3 DEF WriteChunk, Finish, Rest, TypeInv, FileTypeOK
  <2>2. CASE n = DataLen - total[h]
    BY <1>1, <2>1, <2>2
  <2>3. CASE n # DataLen - total[h]
    <3>1. SUFFICES ASSUME Appends(handle[h]) PROVE AppendedSoFar(h)'
      BY <2>1 DEF AppendedSoFar, Appends
    <3>2. /\ disturbed'[h] = disturbed[h] /\ total[h] + n <= DataLen
          /\ ~ disturbed[h] => LastOf(h, content'[FileOf(h)], SubSeq(Data(h), 1, total[h] + n))
      BY <1>3, <3>1, ChunkAppended
    <3>3. FileOf(h)' = FileOf(h) /\ Sent(h)' = SubSeq(Data(h), 1, total[h] + n)
      BY <2>1 DEF FileOf, Sent, Data
    <3>4. total[h] + n < DataLen
      BY <2>1, <2>3, <3>2, BoundsAssumption
    <3>5. QED
      BY <2>1, <3>2, <3>3, <3>4 DEF AppendedSoFar
  <2>4. QED
    BY <2>2, <2>3
<1>4. ASSUME ioPc[h] = "idle", ioPc' = ioPc PROVE AppendedSoFar(h)'
  BY <1>1, <1>4
<1>5. CASE \/ \E f \in Files, m \in Modes : Open(h, f, m)
           \/ OpenFails(h) \/ Close(h) \/ UseClosed(h)
           \/ \E to \in 0 .. MaxSize : Seek(h, to)
           \/ \E n \in 0 .. DataLen : WriteOnce(h, n)
           \/ \E n \in 1 .. MaxSize : ReadOnce(h, n)
  BY <1>4, <1>5 DEF Open, OpenFails, Close, UseClosed, Seek, WriteOnce, ReadOnce, Idle
<1>6. CASE (\E n \in 0 .. DataLen : PrintTo(h, n)) \/ Printed(h) \/ CallFails(h) \/ Caught(h)
  <2>1. ioPc'[h] \in {"printed", "idle", "raised"}
    BY <1>6 DEF PrintTo, Printed, CallFails, Caught, Finish, TypeInv, FileTypeOK
  <2>2. QED
    BY <1>1, <2>1
<1>7. CASE (\E n \in Sizes : ReadBytes(h, n)) \/ (\E n \in 0 .. MaxSize : ReadChunk(h, n))
  <2>1. ioPc'[h] # "write"
    <3>1. ASSUME NEW n \in Sizes, ReadBytes(h, n) PROVE ioPc'[h] # "write"
      BY <3>1 DEF ReadBytes, Begin, TypeInv, FileTypeOK
    <3>2. ASSUME NEW n \in 0 .. MaxSize, ReadChunk(h, n) PROVE ioPc'[h] # "write"
      <4>1. ioPc[h] = "read" /\ (ioPc' = [ioPc EXCEPT ![h] = "idle"] \/ ioPc' = ioPc)
        BY <3>2 DEF ReadChunk, Finish
      <4>2. QED
        BY <4>1 DEF TypeInv, FileTypeOK
    <3>3. QED
      BY <1>7, <3>1, <3>2
  <2>2. QED
    BY <1>1, <2>1
<1>8. QED
  BY <1>2, <1>3, <1>5, <1>6, <1>7 DEF Step

LEMMA NextAppended ==
  ASSUME TypeInv, TypeInv', DescInv, AllAppended, [FileNext]_fileVars
  PROVE  AllAppended'
<1>1. CASE FileNext
  <2>1. PICK g \in Handles : Step(g)
    BY <1>1 DEF FileNext
  <2>2. ASSUME NEW h \in Handles PROVE AppendedSoFar(h)'
    <3>1. AppendedSoFar(h)
      BY DEF AllAppended
    <3>2. CASE h = g
      BY <2>1, <3>1, <3>2, OwnAppended
    <3>3. CASE h # g
      <4>1. KeepsCall(h) /\ AddsNoneOf(h)
        BY <2>1, <3>3, OthersKeepCall, OthersAddNone
      <4>2. QED
        BY <3>1, <4>1, KeptAppended
    <3>4. QED
      BY <3>2, <3>3
  <2>3. QED
    BY <2>2 DEF AllAppended
<1>2. CASE UNCHANGED fileVars
  <2>1. ASSUME NEW h \in Handles PROVE AppendedSoFar(h)'
    <3>1. /\ ioPc'[h] = ioPc[h] /\ total'[h] = total[h] /\ disturbed'[h] = disturbed[h]
          /\ Appends(handle[h])' = Appends(handle[h]) /\ FileOf(h)' = FileOf(h) /\ Sent(h)' = Sent(h) /\ content' = content
      BY <1>2 DEF fileVars, sys, call, Appends, FileOf, Sent, Data
    <3>2. QED
      BY <3>1 DEF AllAppended, AppendedSoFar
  <2>2. QED
    BY <2>1 DEF AllAppended
<1>3. QED
  BY <1>1, <1>2

LEMMA InitAppended == FileInit => AllAppended
BY DEF FileInit, AllAppended, AppendedSoFar

(* When write_all returns the file has all the bytes, once and in order:     *)
(* where the call began, or in append mode as the last the handle wrote;     *)
(* whatever the system made of the single writes and whatever other handles  *)
(* append meanwhile.                                                         *)
THEOREM WriteAllWholeHolds == FileSpec => WriteAllWhole
<1> DEFINE Whole(h) == IF Appends(handle[h]) THEN LastOf(h, content'[fdFile[handle[h]]], Data(h))
                       ELSE HasAt(content'[fdFile[handle[h]]], start[h], Data(h))
<1>1. ASSUME TypeInv, TypeInv', DescInv, SoFar, AllAppended, [FileNext]_fileVars
      PROVE  [\A h \in Handles : Returns(h, "write") /\ ~ disturbed'[h] => Whole(h)]_fileVars
  <2>1. SUFFICES ASSUME NEW h \in Handles, Returns(h, "write"), ~ disturbed'[h]
                 PROVE  IF Appends(handle[h]) THEN LastOf(h, content'[FileOf(h)], Data(h))
                        ELSE HasAt(content'[FileOf(h)], start[h], Data(h))
    BY DEF FileOf
  <2>2. PICK g \in Handles : Step(g)
    BY <1>1, <2>1 DEF FileNext, fileVars, Returns
  <2>3. g = h
    <3>1. g # h => ioPc'[h] = ioPc[h]
      BY <1>1, <2>2, OthersKeepCall DEF KeepsCall
    <3>2. QED
      BY <2>1, <3>1 DEF Returns
  <2>4. PICK n \in 1 .. DataLen : WriteChunk(h, n)
    <3>1. ioPc[h] = "write" /\ ioPc'[h] = "idle"
      BY <2>1 DEF Returns
    <3>2. ~(CallFails(h) \/ Caught(h) \/ Printed(h) \/ OpenFails(h) \/ Close(h) \/ UseClosed(h) \/ WriteAll(h))
      BY <1>1, <3>1 DEF CallFails, Caught, Printed, OpenFails, Close, UseClosed, WriteAll, Begin, Idle, TypeInv, FileTypeOK
    <3>3. Step(h)
      BY <2>2, <2>3
    <3>4. QED
      BY <3>1, <3>2, <3>3 DEF Step, Open, Seek, ReadChunk, WriteOnce, PrintTo, ReadOnce, ReadBytes, Begin, Idle
  <2>5. n = DataLen - total[h]
    BY <2>1, <2>4 DEF WriteChunk, Returns, Rest
  <2>6. content'[FileOf(h)] \in Seq(Bytes) /\ start[h] \in Nat /\ total[h] \in Nat
    <3>1. FileOf(h) \in Files
      <4>1. handle[h] >= 0
        BY <1>1, <2>1 DEF Returns, TypeInv, WriteLeft
      <4>2. handle[h] \in Fds /\ ~ Free(handle[h])
        BY <1>1, <4>1 DEF DescInv, OwnDescriptor
      <4>3. QED
        BY <1>1, <4>2 DEF DescInv, Free, FileOf
    <3>2. QED
      BY <1>1, <3>1 DEF TypeInv, FileTypeOK
  <2>7. Data(h) \in Seq(Bytes) /\ Len(Data(h)) = DataLen
    BY DataType
  <2>8. SubSeq(Data(h), 1, total[h] + n) = Data(h)
    <3>1. total[h] + n = DataLen
      BY <2>5, <2>6, BoundsAssumption
    <3>2. SubSeq(Data(h), 1, Len(Data(h))) = Data(h)
      BY <2>7, SubSeqFull
    <3>3. QED
      BY <2>7, <3>1, <3>2
  <2>9. CASE Appends(handle[h])
    <3>1. /\ disturbed'[h] = disturbed[h]
          /\ ~ disturbed[h] => LastOf(h, content'[FileOf(h)], SubSeq(Data(h), 1, total[h] + n))
      BY <1>1, <2>4, <2>9, ChunkAppended DEF AllAppended
    <3>2. QED
      BY <2>1, <2>8, <2>9, <3>1
  <2>10. CASE ~ Appends(handle[h])
    <3>1. /\ disturbed'[h] = disturbed[h]
          /\ ~ disturbed[h] => StandsAt(content'[FileOf(h)], start[h], SubSeq(Data(h), 1, total[h] + n))
      BY <1>1, <2>4, <2>10, ChunkWritten DEF SoFar
    <3>2. Data(h) # <<>>
      BY <2>7, BoundsAssumption, EmptySeq
    <3>3. HasAt(content'[FileOf(h)], start[h], Data(h))
      BY <2>1, <2>6, <2>7, <2>8, <3>1, <3>2, StandsIsHas
    <3>4. QED
      BY <2>10, <3>3
  <2>11. QED
    BY <2>9, <2>10
<1>2. QED
  BY <1>1, InitType, NextType, InitDesc, NextDesc, InitSoFar, NextSoFar, InitAppended, NextAppended, PTL DEF FileSpec, WriteAllWhole
=============================================================================
