--------------------------- MODULE ServicesProofs ---------------------------
(***************************************************************************)
(* Theorems about ConfigPaths, Configuration and RPCClient.                *)
(***************************************************************************)
EXTENDS ConfigPaths, Configuration, RPCClient, SequenceTheorems, FiniteSetTheorems, TLAPS

(* A set of natural numbers that is not empty has a least one.               *)
LEMMA LeastNat ==
  ASSUME NEW T \in SUBSET Nat, T # {}
  PROVE  \E x \in T : \A y \in T : x <= y
<1> DEFINE R == {ss \in Nat \X Nat : ss[1] < ss[2]}
<1>1. IsWellFoundedOn(R, Nat)
  BY NatLessThanWellFounded DEF OpToRel
<1>2. PICK x \in T : \A y \in T : <<y, x>> \notin R
  <2> HIDE DEF R
  <2>1. QED
    BY <1>1, WFMin
<1>3. \A y \in T : ~(y < x)
  BY <1>2
<1>4. QED
  BY <1>3

(* ---------------------------------------------------------------------- *)
(* RPCClient: types, and the invariant of the sockets                      *)

Nothing == [p \in Attempts |-> "nothing"]

RPCType ==
  /\ editor \in Editors
  /\ DOMAIN table \subseteq Numbers /\ \A n \in DOMAIN table : table[n] \in Attempts
  /\ ctl \in [Attempts -> {"start", "waiting", "ok", "error"}]
  /\ held \in [Attempts -> Numbers \cup {NoFd}]
  /\ connections \in Seq(Attempts) /\ futures \in Seq(Attempts)
  /\ index \in Int /\ closes \in [Attempts -> Nat] /\ stray \subseteq Attempts

(* The set is in the order of operator<.                                     *)
InOrder(s) == \A i, j \in 1 .. Len(s) : i < j => Before(s[i], s[j])

(* A Connection that has not been closed holds a number that is its own, what *)
(* is still in a future or in the set has not been closed, nothing is in      *)
(* both, and what is in neither has been closed.                              *)
Holds(p) == IF ctl[p] = "ok" THEN closes[p] = 0 => held[p] \in DOMAIN table /\ table[held[p]] = p
            ELSE held[p] = NoFd /\ closes[p] = 0
SocketInv ==
  /\ \A p \in Attempts : Holds(p) /\ (ctl[p] = "ok" => held[p] # NoFd) /\ closes[p] <= 1
  /\ stray = {}
  /\ \A i, j \in 1 .. Len(futures) : futures[i] = futures[j] => i = j
  /\ \A p \in Range(futures) : p \notin Range(connections) /\ closes[p] = 0
  /\ \A p \in Range(connections) : ctl[p] = "ok" /\ closes[p] = IF rpc = "returned" THEN 1 ELSE 0
  /\ \A p \in Attempts : (ctl[p] \notin {"ok", "error"} => p \in Range(futures)) /\ (NotTaken(p) => closes[p] = 1)
  /\ rpc = "start" => connections = <<>>
  /\ InOrder(connections)

(* What has been sent to the window that was picked.                         *)
SentTo(p, sent) == [q \in Attempts |-> IF q = p THEN sent ELSE "nothing"]
PickInv ==
  /\ rpc \in {"start", "collect", "send"} => received = Nothing /\ result = "none"
  /\ rpc = "receive" => /\ result = "none" /\ index \in 0 .. (Len(connections) - 1)
                        /\ \E sent \in Sent : received = SentTo(Picked, sent)
  /\ result = "success" => \/ received = Nothing
                           \/ index \in 0 .. (Len(connections) - 1) /\ received = SentTo(Picked, "whole")

(* ---------------------------------------------------------------------- *)
(* The order of the set                                                    *)

(* Among Connections of which none is taken for another, operator< is        *)
(* transitive.                                                               *)
LEMMA BeforeTransitive ==
  ASSUME RPCType, NEW p \in Attempts, NEW q \in Attempts, NEW r \in Attempts,
         Before(p, q), Before(q, r), Before(p, r) \/ Before(r, p)
  PROVE  Before(p, r)
<1>1. /\ editor[p].seen \in Int /\ editor[q].seen \in Int /\ editor[r].seen \in Int
      /\ editor[p].length \in Nat /\ editor[q].length \in Nat /\ editor[r].length \in Nat
      /\ editor[p].name = editor[q].name => editor[p].length = editor[q].length
      /\ editor[q].name = editor[r].name => editor[q].length = editor[r].length
      /\ editor[p].name = editor[r].name => editor[p].length = editor[r].length
  BY PortsAssumption DEF RPCType
<1>2. Ports[p] \in Nat /\ Ports[q] \in Nat /\ Ports[r] \in Nat
  BY PortsAssumption DEF Attempts
<1>3. QED
  BY <1>1, <1>2 DEF Before

LEMMA BeforeNotBoth ==
  ASSUME RPCType, NEW p \in Attempts, NEW q \in Attempts, Before(p, q)
  PROVE  ~ Before(q, p) /\ editor[p].seen <= editor[q].seen
<1>1. /\ editor[p].seen \in Int /\ editor[q].seen \in Int /\ editor[p].length \in Nat /\ editor[q].length \in Nat
      /\ Ports[p] \in Nat /\ Ports[q] \in Nat
  BY PortsAssumption DEF RPCType, Attempts
<1>2. QED
  BY <1>1 DEF Before

(* There is a place for what is to be inserted: all that comes before it     *)
(* stands in front of all that does not.                                     *)
LEMMA PlaceThere ==
  ASSUME RPCType, NEW s \in Seq(Attempts), InOrder(s), NEW p \in Attempts,
         \A q \in Range(s) : Before(p, q) \/ Before(q, p)
  PROVE  \E i \in 1 .. (Len(s) + 1) : \A j \in 1 .. Len(s) : j < i <=> Before(s[j], p)
<1> DEFINE T == {i \in 1 .. (Len(s) + 1) : i <= Len(s) => ~ Before(s[i], p)}
<1>1. Len(s) \in Nat /\ \A j \in 1 .. Len(s) : s[j] \in Attempts /\ s[j] \in Range(s)
  BY DEF Range
<1>2. T \in SUBSET Nat /\ Len(s) + 1 \in T
  BY <1>1
<1>3. PICK i \in T : \A y \in T : i <= y
  <2> HIDE DEF T
  <2>1. QED
    BY <1>2, LeastNat
<1>4. ASSUME NEW j \in 1 .. Len(s) PROVE j < i <=> Before(s[j], p)
  <2>1. CASE j < i
    <3>1. j \notin T
      BY <1>1, <1>3, <2>1
    <3>2. QED
      BY <1>1, <2>1, <3>1
  <2>2. CASE j = i
    BY <1>1, <1>3, <2>2
  <2>3. CASE j > i
    <3>1. i \in 1 .. Len(s) /\ ~ Before(s[i], p) /\ Before(s[i], s[j])
      BY <1>1, <1>3, <2>3 DEF InOrder
    <3>2. Before(p, s[i])
      BY <1>1, <3>1
    <3>3. ~ Before(s[j], p)
      BY <1>1, <3>1, <3>2, BeforeTransitive, BeforeNotBoth
    <3>4. QED
      BY <2>3, <3>3
  <2>4. QED
    BY <1>1, <1>3, <2>1, <2>2, <2>3
<1>5. QED
  BY <1>3, <1>4

LEMMA InsertAtIs ==
  ASSUME NEW s \in Seq(Attempts), NEW i \in 1 .. (Len(s) + 1), NEW p \in Attempts
  PROVE  /\ InsertAt(s, i, p) \in Seq(Attempts) /\ Len(InsertAt(s, i, p)) = Len(s) + 1
         /\ \A j \in 1 .. (Len(s) + 1) :
              InsertAt(s, i, p)[j] = IF j < i THEN s[j] ELSE IF j = i THEN p ELSE s[j - 1]
<1> DEFINE a == SubSeq(s, 1, i - 1)
           b == SubSeq(s, i, Len(s))
<1>1. a \in Seq(Attempts) /\ Len(a) = i - 1 /\ \A j \in 1 .. (i - 1) : a[j] = s[j]
  OBVIOUS
<1>2. b \in Seq(Attempts) /\ Len(b) = Len(s) - i + 1
  OBVIOUS
<1>3. \A j \in 1 .. (Len(s) - i + 1) : b[j] = s[i + j - 1]
  OBVIOUS
<1>4. InsertAt(s, i, p) = (a \o <<p>>) \o b
  BY DEF InsertAt
<1> HIDE DEF a, b
<1> DEFINE c == a \o <<p>>
<1>5. /\ c \in Seq(Attempts) /\ Len(c) = i /\ c[i] = p
      /\ \A j \in 1 .. (i - 1) : c[j] = s[j]
  BY <1>1
<1> HIDE DEF c
<1>6. InsertAt(s, i, p) = c \o b
  BY <1>4 DEF c
<1>7. /\ c \o b \in Seq(Attempts) /\ Len(c \o b) = Len(s) + 1
      /\ \A j \in 1 .. i : (c \o b)[j] = c[j]
  <2>1. Len(s) \in Nat /\ i + (Len(s) - i + 1) = Len(s) + 1
    OBVIOUS
  <2>2. Len(c \o b) = Len(c) + Len(b) /\ \A j \in 1 .. Len(c) : (c \o b)[j] = c[j]
    BY <1>2, <1>5, SMTT(30)
  <2>3. QED
    BY <1>2, <1>5, <2>1, <2>2
<1>8. ASSUME NEW j \in 1 .. (Len(s) + 1), j > i PROVE (c \o b)[j] = s[j - 1]
  <2>1. (c \o b)[j] = b[j - i]
    BY <1>2, <1>5, <1>8
  <2>2. j - i \in 1 .. (Len(s) - i + 1) /\ i + (j - i) - 1 = j - 1
    BY <1>8
  <2>3. QED
    BY <1>3, <2>1, <2>2
<1>9. ASSUME NEW j \in 1 .. (Len(s) + 1)
      PROVE  (c \o b)[j] = IF j < i THEN s[j] ELSE IF j = i THEN p ELSE s[j - 1]
  <2>1. CASE j < i
    BY <1>5, <1>7, <2>1
  <2>2. CASE j = i
    BY <1>5, <1>7, <2>2
  <2>3. CASE j > i
    <3>1. (c \o b)[j] = s[j - 1]
      BY <1>8, <2>3, Zenon
    <3>2. ~(j < i) /\ j # i
      BY <2>3
    <3>3. QED
      BY <3>1, <3>2, Zenon
  <2>4. i \in Int /\ j \in Int
    OBVIOUS
  <2>5. j < i \/ j = i \/ j > i
    BY <2>4
  <2>6. QED
    BY <2>1, <2>2, <2>3, <2>5
<1>10. QED
  BY <1>6, <1>7, <1>9

(* What insert makes of the set.                                             *)
LEMMA InsertIs ==
  ASSUME RPCType, NEW s \in Seq(Attempts), InOrder(s), NEW p \in Attempts
  PROVE  /\ Insert(s, p) \in Seq(Attempts) /\ InOrder(Insert(s, p))
         /\ Range(Insert(s, p)) \subseteq Range(s) \cup {p} /\ Range(s) \subseteq Range(Insert(s, p))
<1>1. CASE \E q \in Range(s) : ~ Before(p, q) /\ ~ Before(q, p)
  BY <1>1 DEF Insert
<1>2. CASE \A q \in Range(s) : Before(p, q) \/ Before(q, p)
  <2> DEFINE Place(i) == \A j \in 1 .. Len(s) : j < i <=> Before(s[j], p)
             at == CHOOSE i \in 1 .. (Len(s) + 1) : Place(i)
             t == Insert(s, p)
  <2>1. at \in 1 .. (Len(s) + 1) /\ Place(at)
    BY <1>2, PlaceThere
  <2>2. t = InsertAt(s, at, p)
    BY <1>2 DEF Insert
  <2> HIDE DEF at, t
  <2>3. /\ t \in Seq(Attempts) /\ Len(t) = Len(s) + 1
        /\ \A j \in 1 .. (Len(s) + 1) : t[j] = IF j < at THEN s[j] ELSE IF j = at THEN p ELSE s[j - 1]
    BY <2>1, <2>2, InsertAtIs, SMTT(30)
  <2>4. Len(s) \in Nat /\ \A j \in 1 .. Len(s) : s[j] \in Attempts /\ s[j] \in Range(s)
    BY DEF Range
  <2>5. ASSUME NEW i \in 1 .. Len(t), NEW j \in 1 .. Len(t), i < j PROVE Before(t[i], t[j])
    <3>1. CASE i < at /\ j < at
      <4>1. i \in 1 .. Len(s) /\ j \in 1 .. Len(s) /\ t[i] = s[i] /\ t[j] = s[j]
        BY <2>1, <2>3, <2>4, <3>1
      <4>2. QED
        BY <2>5, <4>1 DEF InOrder
    <3>2. CASE i < at /\ j = at
      <4>1. i \in 1 .. Len(s) /\ t[i] = s[i] /\ t[j] = p
        BY <2>1, <2>3, <2>4, <3>2
      <4>2. QED
        BY <2>1, <3>2, <4>1
    <3>3. CASE i < at /\ j > at
      <4>1. i \in 1 .. Len(s) /\ j - 1 \in 1 .. Len(s) /\ i < j - 1 /\ t[i] = s[i] /\ t[j] = s[j - 1]
        BY <2>1, <2>3, <2>4, <2>5, <3>3
      <4>2. QED
        BY <4>1 DEF InOrder
    <3>4. CASE i = at /\ j > at
      <4>1. j - 1 \in 1 .. Len(s) /\ ~(j - 1 < at) /\ t[i] = p /\ t[j] = s[j - 1]
        BY <2>1, <2>3, <2>4, <2>5, <3>4
      <4>2. QED
        BY <1>2, <2>1, <2>4, <4>1
    <3>5. CASE i > at /\ j > at
      <4>1. i - 1 \in 1 .. Len(s) /\ j - 1 \in 1 .. Len(s) /\ i - 1 < j - 1 /\ t[i] = s[i - 1] /\ t[j] = s[j - 1]
        BY <2>1, <2>3, <2>4, <2>5, <3>5
      <4>2. QED
        BY <4>1 DEF InOrder
    <3>6. QED
      BY <2>1, <2>3, <2>5, <3>1, <3>2, <3>3, <3>4, <3>5
  <2>6. Range(t) \subseteq Range(s) \cup {p}
    <3>1. ASSUME NEW j \in 1 .. Len(t) PROVE t[j] \in Range(s) \cup {p}
      <4>1. CASE j < at
        BY <2>1, <2>3, <2>4, <4>1
      <4>2. CASE j > at
        <5>1. j - 1 \in 1 .. Len(s) /\ t[j] = s[j - 1]
          BY <2>1, <2>3, <2>4, <4>2
        <5>2. QED
          BY <2>4, <5>1
      <4>3. QED
        BY <2>1, <2>3, <4>1, <4>2
    <3>2. QED
      BY <2>3, <3>1, RangeEquality
  <2>7. Range(s) \subseteq Range(t)
    <3>1. ASSUME NEW j \in 1 .. Len(s) PROVE \E i \in 1 .. Len(t) : t[i] = s[j]
      <4>1. CASE j < at
        BY <2>1, <2>3, <2>4, <4>1
      <4>2. CASE ~(j < at)
        <5>1. j + 1 \in 1 .. Len(t) /\ j + 1 > at /\ (j + 1) - 1 = j
          BY <2>1, <2>3, <2>4, <4>2
        <5>2. t[j + 1] = s[j]
          BY <2>1, <2>3, <5>1
        <5>3. QED
          BY <5>1, <5>2
      <4>3. QED
        BY <4>1, <4>2
    <3>2. QED
      BY <2>3, <3>1, RangeEquality
  <2>8. QED
    BY <2>3, <2>5, <2>6, <2>7 DEF InOrder, t
<1>3. QED
  BY <1>1, <1>2

(* ---------------------------------------------------------------------- *)
(* The steps of RPCClient                                                  *)

(* Destroying Connections that have not been closed closes their own numbers *)
(* and leaves those of the others alone.                                     *)
LEMMA DestroyIs ==
  ASSUME RPCType, SocketInv, NEW S \in SUBSET Attempts, Destroy(S),
         \A p \in S : ctl[p] = "ok" /\ closes[p] = 0
  PROVE  /\ stray' = {} /\ closes' = [p \in Attempts |-> closes[p] + (IF p \in S THEN 1 ELSE 0)]
         /\ DOMAIN table' \subseteq DOMAIN table /\ \A n \in DOMAIN table' : table'[n] = table[n]
         /\ \A p \in Attempts : ctl[p] = "ok" /\ closes'[p] = 0 =>
              held[p] \in DOMAIN table' /\ table'[held[p]] = p
<1> DEFINE holding == {p \in S : held[p] # NoFd}
           gone == {held[p] : p \in holding}
<1>1. holding = S
  BY DEF SocketInv
<1>2. \A p \in S : held[p] \in DOMAIN table /\ table[held[p]] = p
  BY DEF SocketInv, Holds
<1>3. /\ table' = [m \in DOMAIN table \ gone |-> table[m]]
      /\ closes' = [p \in Attempts |-> closes[p] + (IF p \in holding THEN 1 ELSE 0)]
      /\ stray' = stray \cup {p \in holding : held[p] \notin DOMAIN table \/ table[held[p]] # p}
  BY DEF Destroy
<1>4. stray' = {}
  BY <1>1, <1>2, <1>3 DEF SocketInv
<1>5. closes' = [p \in Attempts |-> closes[p] + (IF p \in S THEN 1 ELSE 0)]
  BY <1>1, <1>3
<1>6. ASSUME NEW p \in Attempts, ctl[p] = "ok", closes'[p] = 0
      PROVE  held[p] \in DOMAIN table' /\ table'[held[p]] = p
  <2>1. p \notin S /\ closes[p] = 0
    BY <1>5, <1>6 DEF RPCType
  <2>2. held[p] \in DOMAIN table /\ table[held[p]] = p
    BY <1>6, <2>1 DEF SocketInv, Holds
  <2>3. held[p] \notin gone
    BY <1>1, <1>2, <2>1, <2>2
  <2>4. QED
    BY <1>3, <2>2, <2>3
<1>7. QED
  BY <1>3, <1>4, <1>5, <1>6

(* What was in a sequence is its head or still in its tail.                   *)
LEMMA LaterInRange ==
  ASSUME NEW S, NEW s \in Seq(S), s # <<>>, NEW x \in Range(s)
  PROVE  x = Head(s) \/ x \in Range(Tail(s))
<1>1. PICK i \in 1 .. Len(s) : s[i] = x
  BY RangeEquality
<1>2. CASE i = 1
  BY <1>1, <1>2
<1>3. CASE i # 1
  <2>1. Tail(s) \in Seq(S) /\ i - 1 \in 1 .. Len(Tail(s)) /\ Tail(s)[i - 1] = x
    BY <1>1, <1>3
  <2>2. QED
    BY <2>1, RangeEquality
<1>4. QED
  BY <1>2, <1>3

(* Steps that leave the Connections and the set alone.                       *)
LEMMA SocketsAlone ==
  ASSUME SocketInv, UNCHANGED <<editor, table, ctl, held, connections, futures, closes, stray>>,
         (rpc' = "returned" <=> rpc = "returned") \/ connections = <<>>,
         rpc' = "start" => rpc = "start"
  PROVE  SocketInv'
<1>1. \A p \in Attempts : Holds(p)' <=> Holds(p)
  BY DEF Holds
<1>2. InOrder(connections)' <=> InOrder(connections)
  BY DEF InOrder, Before
<1>3. connections = <<>> => Range(connections) = {}
  BY DEF Range
<1>4. \A p \in Range(connections') : ctl'[p] = "ok" /\ closes'[p] = IF rpc' = "returned" THEN 1 ELSE 0
  BY <1>3 DEF SocketInv
<1>5. \A p \in Attempts : NotTaken(p)' <=> NotTaken(p)
  BY DEF NotTaken
<1>6. QED
  BY <1>1, <1>2, <1>4, <1>5 DEF SocketInv

LEMMA NextRPCType ==
  ASSUME RPCType, SocketInv, RPCNext
  PROVE  RPCType'
<1>1. CASE Collect
  <2> DEFINE p == Head(futures)
  <2>1. p \in Attempts /\ futures' \in Seq(Attempts)
    BY <1>1 DEF Collect, RPCType
  <2>2. connections' \in Seq(Attempts)
    BY <1>1, <2>1, InsertIs DEF Collect, RPCType, SocketInv
  <2>3. /\ DOMAIN table' \subseteq DOMAIN table /\ (\A n \in DOMAIN table' : table'[n] = table[n])
        /\ closes' \in [Attempts -> Nat] /\ stray' \subseteq Attempts
    <3>1. PICK S \in SUBSET Attempts : Destroy(S)
      BY <1>1, <2>1 DEF Collect, LeftBehind
    <3>2. QED
      BY <3>1 DEF Destroy, RPCType
  <2>4. QED
    BY <1>1, <2>1, <2>2, <2>3 DEF Collect, RPCType
<1>2. CASE Leave
  <2>1. Range(connections) \in SUBSET Attempts
    BY RangeOfSeq DEF RPCType
  <2>2. /\ DOMAIN table' \subseteq DOMAIN table /\ (\A n \in DOMAIN table' : table'[n] = table[n])
        /\ closes' \in [Attempts -> Nat] /\ stray' \subseteq Attempts
    BY <1>2, <2>1 DEF Leave, Destroy, RPCType
  <2>3. QED
    BY <1>2, <2>2 DEF Leave, RPCType
<1>3. ASSUME NEW p \in Attempts, Connect(p) PROVE RPCType'
  <2>1. DOMAIN table' \subseteq Numbers /\ \A n \in DOMAIN table' : table'[n] \in Attempts
    <3>1. CASE Free = {}
      BY <1>3, <3>1 DEF Connect, RPCType
    <3>2. CASE Free # {}
      <4>1. PICK n \in Free : table' = [m \in DOMAIN table \cup {n} |-> IF m = n THEN p ELSE table[m]]
        BY <1>3, <3>2 DEF Connect
      <4>2. n \in Numbers /\ DOMAIN table' = DOMAIN table \cup {n}
        BY <4>1 DEF Free
      <4>3. \A m \in DOMAIN table' : table'[m] = IF m = n THEN p ELSE table[m]
        BY <4>1
      <4>4. QED
        BY <4>2, <4>3 DEF RPCType
    <3>3. QED
      BY <3>1, <3>2
  <2>2. ctl' \in [Attempts -> {"start", "waiting", "ok", "error"}]
    BY <1>3 DEF Connect, RPCType
  <2>3. QED
    BY <1>3, <2>1, <2>2 DEF Connect, RPCType
<1>4. ASSUME NEW p \in Attempts, WaitFor(p) PROVE RPCType'
  BY <1>4 DEF WaitFor, RPCType
<1>5. ASSUME NEW p \in Attempts, Talker(p) PROVE RPCType'
  BY <1>5 DEF Talker, Send, Receive, RPCType
<1>6. CASE \E i \in Inputs : Choose(i)
  BY <1>6, PortsAssumption DEF Choose, Return, RPCType
<1>7. CASE (\E way \in {"go", "dry", "nolog"} : invokeRPC(way)) \/ InvalidInput \/ Server
  BY <1>7 DEF invokeRPC, InvalidInput, Server, ReceiveDebug, RPCType
<1>8. CASE \E sent \in Sent : SendDebug(sent)
  BY <1>8 DEF SendDebug, RPCType
<1>9. QED
  BY <1>1, <1>2, <1>3, <1>4, <1>5, <1>6, <1>7, <1>8 DEF RPCNext, Client, Worker

LEMMA NextSocket ==
  ASSUME RPCType, SocketInv, RPCNext
  PROVE  SocketInv'
<1>1. CASE Collect
  <2> DEFINE p == Head(futures)
  <2>1. /\ p \in Attempts /\ futures \in Seq(Attempts) /\ futures # <<>> /\ futures' = Tail(futures)
        /\ rpc = "collect" /\ UNCHANGED <<editor, ctl, held, rpc>>
    BY <1>1 DEF Collect, RPCType
  <2>2. /\ Len(futures') = Len(futures) - 1 /\ \A i \in 1 .. Len(futures') : futures'[i] = futures[i + 1]
        /\ futures' \in Seq(Attempts) /\ p = futures[1] /\ Len(futures) \in Nat \ {0}
    BY <2>1
  <2>3. \A i, j \in 1 .. Len(futures') : futures'[i] = futures'[j] => i = j
    BY <2>2 DEF SocketInv
  <2>4. Range(futures') \subseteq Range(futures) /\ p \notin Range(futures') /\ p \in Range(futures)
    <3>1. ASSUME NEW i \in 1 .. Len(futures') PROVE futures'[i] \in Range(futures) /\ futures'[i] # p
      BY <2>1, <2>2, RangeEquality DEF SocketInv
    <3>2. p \in Range(futures)
      BY <2>1, <2>2, RangeEquality
    <3>3. QED
      BY <2>2, <3>1, <3>2, RangeEquality
  <2>5. p \notin Range(connections) /\ closes[p] = 0
    BY <2>4 DEF SocketInv
  <2> DEFINE S == IF ctl[p] = "ok" THEN LeftBehind(p) ELSE {}
  <2>6. /\ Destroy(S) /\ S \in SUBSET {p} /\ \A q \in S : ctl[q] = "ok" /\ closes[q] = 0
    BY <1>1, <2>5 DEF Collect, LeftBehind
  <2>7. /\ InOrder(connections') /\ Range(connections') \subseteq Range(connections) \cup {p}
        /\ p \in Range(connections') => ctl[p] = "ok" /\ p \notin S
        /\ p \notin Range(connections') /\ ctl[p] = "ok" => p \in S
        /\ Range(connections) \subseteq Range(connections')
        /\ connections' \in Seq(Attempts)
    <3>1. CASE ctl[p] = "ok"
      <4>1. connections' = Insert(connections, p)
        BY <1>1, <3>1 DEF Collect
      <4>2. QED
        BY <2>1, <3>1, <4>1, InsertIs DEF SocketInv, RPCType, LeftBehind
    <3>2. CASE ctl[p] # "ok"
      BY <1>1, <2>5, <3>2 DEF Collect, SocketInv, RPCType
    <3>3. QED
      BY <3>1, <3>2
  <2> HIDE DEF S, p
  <2>8. /\ stray' = {} /\ closes' = [q \in Attempts |-> closes[q] + (IF q \in S THEN 1 ELSE 0)]
        /\ \A q \in Attempts : ctl[q] = "ok" /\ closes'[q] = 0 =>
             held[q] \in DOMAIN table' /\ table'[held[q]] = q
    BY <2>1, <2>6, DestroyIs
  <2>9. ASSUME NEW q \in Attempts PROVE Holds(q)' /\ (ctl'[q] = "ok" => held'[q] # NoFd) /\ closes'[q] <= 1
    <3>1. closes'[q] <= 1 /\ (closes'[q] = closes[q] \/ ctl[q] = "ok")
      BY <2>5, <2>6, <2>8 DEF SocketInv, RPCType
    <3>2. QED
      BY <2>1, <2>8, <3>1 DEF SocketInv, Holds
  <2>10. ASSUME NEW q \in Range(futures') PROVE q \notin Range(connections') /\ closes'[q] = 0
    <3>1. q \in Attempts /\ q # p /\ q \in Range(futures)
      BY <2>2, <2>4, RangeOfSeq
    <3>2. QED
      BY <2>6, <2>7, <2>8, <3>1 DEF SocketInv
  <2>11. ASSUME NEW q \in Range(connections')
         PROVE  ctl'[q] = "ok" /\ closes'[q] = IF rpc' = "returned" THEN 1 ELSE 0
    <3>1. q \in Attempts /\ (q \in Range(connections) \/ q = p)
      BY <2>7, RangeOfSeq
    <3>2. q \notin S
      BY <2>5, <2>6, <2>7, <3>1
    <3>3. closes'[q] = closes[q]
      BY <2>8, <3>1, <3>2 DEF RPCType
    <3>4. QED
      BY <2>1, <2>5, <2>7, <3>1, <3>3 DEF SocketInv
  <2>12. InOrder(connections)'
    BY <2>1, <2>7 DEF InOrder, Before
  <2>13. ASSUME NEW q \in Attempts
         PROVE  (ctl'[q] \notin {"ok", "error"} => q \in Range(futures')) /\ (NotTaken(q)' => closes'[q] = 1)
    <3>1. q \in Range(futures) => q = p \/ q \in Range(futures')
      BY <2>1, <2>2, LaterInRange
    <3>2. ctl[p] \in {"ok", "error"}
      BY <1>1 DEF Collect, p
    <3>3. CASE q = p
      BY <2>1, <2>5, <2>7, <2>8, <3>2, <3>3 DEF NotTaken
    <3>4. CASE q # p
      BY <2>1, <2>6, <2>7, <2>8, <3>1, <3>4 DEF NotTaken, SocketInv
    <3>5. QED
      BY <3>3, <3>4
  <2>14. QED
    BY <2>1, <2>3, <2>8, <2>9, <2>10, <2>11, <2>12, <2>13 DEF SocketInv
<1>2. CASE Leave
  <2>1. /\ rpc = "leave" /\ rpc' = "returned" /\ Destroy(Range(connections))
        /\ UNCHANGED <<editor, ctl, held, connections, futures>>
    BY <1>2 DEF Leave
  <2>2. Range(connections) \in SUBSET Attempts /\ \A p \in Range(connections) : ctl[p] = "ok" /\ closes[p] = 0
    BY <2>1, RangeOfSeq DEF SocketInv, RPCType
  <2>3. /\ stray' = {} /\ closes' = [q \in Attempts |-> closes[q] + (IF q \in Range(connections) THEN 1 ELSE 0)]
        /\ \A q \in Attempts : ctl[q] = "ok" /\ closes'[q] = 0 =>
             held[q] \in DOMAIN table' /\ table'[held[q]] = q
    BY <2>1, <2>2, DestroyIs
  <2>4. ASSUME NEW q \in Attempts PROVE Holds(q)' /\ (ctl'[q] = "ok" => held'[q] # NoFd) /\ closes'[q] <= 1
    <3>1. closes'[q] <= 1 /\ (closes'[q] = closes[q] \/ ctl[q] = "ok")
      BY <2>2, <2>3 DEF SocketInv, RPCType
    <3>2. QED
      BY <2>1, <2>3, <3>1 DEF SocketInv, Holds
  <2>5. ASSUME NEW q \in Range(futures) PROVE q \notin Range(connections) /\ closes'[q] = 0
    <3>1. q \in Attempts /\ q \notin Range(connections) /\ closes[q] = 0
      BY RangeOfSeq DEF SocketInv, RPCType
    <3>2. QED
      BY <2>3, <3>1
  <2>6. ASSUME NEW q \in Range(connections) PROVE ctl[q] = "ok" /\ closes'[q] = 1
    BY <2>2, <2>3
  <2>7. InOrder(connections)'
    BY <2>1 DEF InOrder, Before, SocketInv
  <2>8. ASSUME NEW q \in Attempts
        PROVE  (ctl'[q] \notin {"ok", "error"} => q \in Range(futures')) /\ (NotTaken(q)' => closes'[q] = 1)
    BY <2>1, <2>3 DEF SocketInv, NotTaken
  <2>9. QED
    BY <2>1, <2>3, <2>4, <2>5, <2>6, <2>7, <2>8 DEF SocketInv
<1>3. ASSUME NEW p \in Attempts, Connect(p) PROVE SocketInv'
  <2>1. /\ ctl[p] = "start" /\ ctl' \in {[ctl EXCEPT ![p] = "error"], [ctl EXCEPT ![p] = "waiting"]}
        /\ DOMAIN table \subseteq DOMAIN table' /\ \A n \in DOMAIN table : table'[n] = table[n]
        /\ UNCHANGED <<editor, held, connections, futures, rpc, closes, stray>>
    BY <1>3 DEF Connect, Free
  <2>2. \A q \in Attempts : ctl'[q] # ctl[q] => q = p
    BY <2>1 DEF RPCType
  <2>3. ctl'[p] # "ok" /\ ctl[p] # "ok"
    BY <2>1 DEF RPCType
  <2>4. \A q \in Attempts : Holds(q)'
    BY <2>1, <2>2, <2>3 DEF SocketInv, Holds
  <2>5. \A q \in Range(connections) : ctl'[q] = "ok"
    <3>1. Range(connections) \subseteq Attempts
      BY RangeOfSeq DEF RPCType
    <3>2. QED
      BY <2>2, <2>3, <3>1 DEF SocketInv
  <2>6. InOrder(connections)'
    BY <2>1 DEF InOrder, Before, SocketInv
  <2>7. ASSUME NEW q \in Attempts
        PROVE  (ctl'[q] \notin {"ok", "error"} => q \in Range(futures')) /\ (NotTaken(q)' => closes'[q] = 1)
    BY <2>1, <2>2, <2>3 DEF SocketInv, NotTaken
  <2>8. QED
    BY <2>1, <2>2, <2>3, <2>4, <2>5, <2>6, <2>7 DEF SocketInv
<1>4. ASSUME NEW p \in Attempts, WaitFor(p) PROVE SocketInv'
  <2>1. /\ ctl[p] = "waiting" /\ ctl' \in {[ctl EXCEPT ![p] = "error"], [ctl EXCEPT ![p] = "ok"]}
        /\ IF ctl' = [ctl EXCEPT ![p] = "ok"]
           THEN \E n \in DOMAIN table : table[n] = p /\ held' = [held EXCEPT ![p] = n]
           ELSE held' = held
        /\ UNCHANGED <<editor, table, connections, futures, rpc, closes, stray>>
    <3>1. [ctl EXCEPT ![p] = "error"] # [ctl EXCEPT ![p] = "ok"]
      BY DEF RPCType
    <3>2. QED
      BY <1>4, <3>1 DEF WaitFor
  <2>2. \A q \in Attempts : q # p => ctl'[q] = ctl[q] /\ held'[q] = held[q]
    BY <2>1 DEF RPCType
  <2>3. Holds(p)' /\ (ctl'[p] = "ok" => held'[p] # NoFd)
    <3>1. CASE ctl' = [ctl EXCEPT ![p] = "ok"]
      <4>1. PICK n \in DOMAIN table : table[n] = p /\ held' = [held EXCEPT ![p] = n]
        BY <2>1, <3>1
      <4>2. n # NoFd /\ ctl'[p] = "ok" /\ held'[p] = n
        BY <3>1, <4>1, PortsAssumption DEF RPCType, NoFd
      <4>3. QED
        BY <2>1, <4>1, <4>2 DEF Holds
    <3>2. CASE ctl' # [ctl EXCEPT ![p] = "ok"]
      BY <2>1, <3>2 DEF RPCType, SocketInv, Holds
    <3>3. QED
      BY <3>1, <3>2
  <2>4. \A q \in Attempts : Holds(q)' /\ (ctl'[q] = "ok" => held'[q] # NoFd)
    BY <2>1, <2>2, <2>3 DEF SocketInv, Holds
  <2>5. \A q \in Range(connections) : ctl'[q] = "ok"
    <3>1. Range(connections) \subseteq Attempts /\ p \notin Range(connections)
      BY <2>1, RangeOfSeq DEF RPCType, SocketInv
    <3>2. QED
      BY <2>2, <3>1 DEF SocketInv
  <2>6. InOrder(connections)'
    BY <2>1 DEF InOrder, Before, SocketInv
  <2>7. ASSUME NEW q \in Attempts
        PROVE  (ctl'[q] \notin {"ok", "error"} => q \in Range(futures')) /\ (NotTaken(q)' => closes'[q] = 1)
    <3>1. p \in Range(futures)
      BY <2>1 DEF SocketInv
    <3>2. QED
      BY <2>1, <2>2, <3>1 DEF SocketInv, NotTaken
  <2>8. QED
    BY <2>1, <2>4, <2>5, <2>6, <2>7 DEF SocketInv
<1>5. ASSUME NEW p \in Attempts, Talker(p) PROVE SocketInv'
  BY <1>5, SocketsAlone DEF Talker, Send, Receive
<1>6. CASE \E way \in {"go", "dry", "nolog"} : invokeRPC(way)
  BY <1>6, SocketsAlone DEF invokeRPC, Return, SocketInv
<1>7. CASE \E i \in Inputs : Choose(i)
  BY <1>7, SocketsAlone DEF Choose, Return
<1>8. CASE InvalidInput \/ Server \/ \E sent \in Sent : SendDebug(sent)
  BY <1>8, SocketsAlone DEF InvalidInput, Server, ReceiveDebug, SendDebug
<1>9. QED
  BY <1>1, <1>2, <1>3, <1>4, <1>5, <1>6, <1>7, <1>8 DEF RPCNext, Client, Worker

LEMMA InitRPC == RPCInit => RPCType /\ SocketInv /\ PickInv
<1> SUFFICES ASSUME RPCInit PROVE RPCType /\ SocketInv /\ PickInv
  OBVIOUS
<1>1. futures = [p \in Attempts |-> p] /\ Attempts = 1 .. Len(Ports) /\ Len(Ports) \in Nat
  BY PortsAssumption DEF RPCInit, Attempts
<1>2. futures \in Seq(Attempts) /\ Len(futures) = Len(Ports) /\ \A i \in 1 .. Len(futures) : futures[i] = i
  BY <1>1
<1>3. connections = <<>> /\ Range(connections) = {} /\ connections \in Seq(Attempts) /\ Len(connections) = 0
  BY EmptySeq DEF RPCInit, Range
<1>4. RPCType
  BY <1>2, <1>3 DEF RPCInit, RPCType, NoFd
<1>5. \A p \in Range(futures) : p \in Attempts
  BY <1>2, RangeOfSeq
<1>a. \A p \in Attempts : p \in Range(futures)
  BY <1>1, <1>2, RangeEquality
<1>6. SocketInv
  BY <1>2, <1>3, <1>5, <1>a DEF RPCInit, SocketInv, Holds, InOrder, NotTaken
<1>7. PickInv
  BY DEF RPCInit, PickInv, Nothing
<1>8. QED
  BY <1>4, <1>6, <1>7

LEMMA NextPick ==
  ASSUME RPCType, PickInv, RPCNext
  PROVE  PickInv'
<1>1. CASE Collect
  BY <1>1 DEF Collect, PickInv
<1>2. ASSUME UNCHANGED <<connections, rpc, index, result, received>> PROVE PickInv'
  BY <1>2 DEF PickInv, Picked
<1>3. ASSUME NEW p \in Attempts, Worker(p) \/ Talker(p) PROVE PickInv'
  BY <1>2, <1>3 DEF Worker, Talker, Connect, WaitFor, Send, Receive
<1>4. CASE \E way \in {"go", "dry", "nolog"} : invokeRPC(way)
  BY <1>4 DEF invokeRPC, Return, PickInv
<1>5. CASE \E i \in Inputs : Choose(i)
  BY <1>5 DEF Choose, Return, PickInv
<1>6. CASE InvalidInput
  BY <1>6 DEF InvalidInput, PickInv
<1>7. ASSUME NEW sent \in Sent, SendDebug(sent) PROVE PickInv'
  <2>1. /\ rpc = "send" /\ received = Nothing /\ result = "none" /\ UNCHANGED <<connections, index>>
    BY <1>7 DEF SendDebug, PickInv
  <2>2. CASE index \in 0 .. (Len(connections) - 1)
    <3>1. Picked' = Picked /\ received' = SentTo(Picked, sent)
      BY <1>7, <2>1, <2>2 DEF SendDebug, Picked, Nothing, SentTo
    <3>2. /\ rpc' = IF sent = "failed" THEN "leave" ELSE "receive"
          /\ result' = IF sent = "failed" THEN "error" ELSE result
      BY <1>7, <2>2 DEF SendDebug
    <3>3. QED
      BY <2>1, <2>2, <3>1, <3>2 DEF PickInv
  <2>3. CASE index \notin 0 .. (Len(connections) - 1)
    BY <1>7, <2>1, <2>3 DEF SendDebug, PickInv
  <2>4. QED
    BY <2>2, <2>3
<1>8. ASSUME NEW ok \in BOOLEAN, ReceiveDebug(ok) PROVE PickInv'
  <2>1. /\ rpc = "receive" /\ rpc' = "leave" /\ result' = (IF ok THEN "success" ELSE "error")
        /\ ok => received[Picked] = "whole"
        /\ UNCHANGED <<connections, index, received>>
    BY <1>8 DEF ReceiveDebug
  <2>2. PICK sent \in Sent : index \in 0 .. (Len(connections) - 1) /\ received = SentTo(Picked, sent)
    BY <2>1 DEF PickInv
  <2>3. Picked \in Attempts
    <3>1. index + 1 \in 1 .. Len(connections)
      BY <2>2 DEF RPCType
    <3>2. QED
      BY <3>1 DEF Picked, RPCType
  <2>4. ok => received = SentTo(Picked, "whole")
    BY <2>1, <2>2, <2>3 DEF SentTo
  <2>5. Picked' = Picked
    BY <2>1 DEF Picked
  <2>6. QED
    BY <2>1, <2>2, <2>4, <2>5 DEF PickInv
<1>9. CASE Leave
  BY <1>9 DEF Leave, PickInv, Picked
<1>10. QED
  BY <1>1, <1>3, <1>4, <1>5, <1>6, <1>7, <1>8, <1>9 DEF RPCNext, Client, Server

LEMMA RPCInvariant == RPCSafe => [](RPCType /\ SocketInv /\ PickInv)
<1>1. RPCType /\ SocketInv /\ PickInv /\ [RPCNext]_rpcVars => (RPCType /\ SocketInv /\ PickInv)'
  <2> SUFFICES ASSUME RPCType, SocketInv, PickInv, [RPCNext]_rpcVars
               PROVE  (RPCType /\ SocketInv /\ PickInv)'
    OBVIOUS
  <2>1. CASE RPCNext
    BY <2>1, NextRPCType, NextSocket, NextPick
  <2>2. CASE UNCHANGED rpcVars
    <3>1. RPCType'
      BY <2>2 DEF rpcVars, RPCType
    <3>2. SocketInv'
      BY <2>2, SocketsAlone DEF rpcVars
    <3>3. PickInv'
      BY <2>2 DEF rpcVars, PickInv, Picked
    <3>4. QED
      BY <3>1, <3>2, <3>3
  <2>3. QED
    BY <2>1, <2>2
<1>2. QED
  BY <1>1, InitRPC, PTL DEF RPCSafe

(* Whatever the windows do and however the threads interleave, for any       *)
(* number of ports, the socket of a Connection is closed exactly once, when  *)
(* the set does not take it or when the set is destroyed, and the number     *)
(* closed is its own.                                                        *)
THEOREM SocketsClosedOnceHolds == RPCSafe => []SocketsClosedOnce
<1>1. ASSUME RPCType, SocketInv PROVE SocketsClosedOnce
  <2>1. ASSUME NEW p \in Attempts
        PROVE  closes[p] = IF NotTaken(p) \/ (rpc = "returned" /\ p \in Range(connections)) THEN 1 ELSE 0
    <3>1. CASE ctl[p] # "ok"
      BY <1>1, <3>1 DEF SocketInv, Holds, NotTaken
    <3>2. CASE ctl[p] = "ok" /\ p \in Range(futures)
      BY <1>1, <3>2 DEF SocketInv, NotTaken
    <3>3. CASE ctl[p] = "ok" /\ p \notin Range(futures)
      BY <1>1, <3>3 DEF SocketInv, NotTaken
    <3>4. QED
      BY <3>1, <3>2, <3>3
  <2>2. QED
    BY <1>1, <2>1 DEF SocketInv, SocketsClosedOnce
<1>2. QED
  BY <1>1, RPCInvariant, PTL

(* The debug session that is reported as started runs in the window that was *)
(* picked, which got the whole request, and at most index of the listed      *)
(* windows were active more recently than it.                                *)
THEOREM PickHonouredHolds == RPCSafe => []PickHonoured
<1>1. ASSUME RPCType, SocketInv, PickInv PROVE PickHonoured
  <2>1. SUFFICES ASSUME result = "success", received # Nothing
                 PROVE  \E p \in Attempts :
                          /\ received = [q \in Attempts |-> IF q = p THEN "whole" ELSE "nothing"]
                          /\ ctl[p] = "ok"
                          /\ Cardinality({q \in Range(connections) : editor[q].seen < editor[p].seen}) <= index
    BY DEF PickHonoured, Nothing
  <2>2. index \in 0 .. (Len(connections) - 1) /\ received = SentTo(Picked, "whole")
    BY <1>1, <2>1 DEF PickInv
  <2>3. connections \in Seq(Attempts) /\ index + 1 \in 1 .. Len(connections) /\ index \in Nat
    BY <1>1, <2>2 DEF RPCType
  <2>4. Picked \in Attempts /\ Picked \in Range(connections)
    BY <2>3, RangeEquality DEF Picked
  <2>5. ctl[Picked] = "ok"
    BY <1>1, <2>4 DEF SocketInv
  <2> DEFINE younger == {q \in Range(connections) : editor[q].seen < editor[Picked].seen}
             ahead == {connections[i] : i \in 1 .. index}
             f == [i \in 1 .. index |-> connections[i]]
  <2>6. younger \subseteq ahead
    <3>1. ASSUME NEW j \in 1 .. Len(connections), editor[connections[j]].seen < editor[Picked].seen
          PROVE  j \in 1 .. index
      <4>1. connections[j] \in Attempts /\ editor[connections[j]].seen \in Int /\ editor[Picked].seen \in Int
        BY <1>1, <2>3, <2>4, PortsAssumption DEF RPCType
      <4>2. j # index + 1
        BY <3>1, <4>1 DEF Picked
      <4>3. ~(index + 1 < j)
        <5>1. SUFFICES ASSUME index + 1 < j PROVE FALSE
          OBVIOUS
        <5>2. Before(Picked, connections[j])
          BY <1>1, <2>3, <5>1 DEF SocketInv, InOrder, Picked
        <5>3. editor[Picked].seen <= editor[connections[j]].seen
          BY <1>1, <2>4, <4>1, <5>2, BeforeNotBoth
        <5>4. QED
          BY <3>1, <4>1, <5>3
      <4>4. QED
        BY <2>3, <4>2, <4>3
    <3>2. QED
      BY <2>3, <3>1, RangeEquality
  <2>7. f \in Surjection(1 .. index, ahead)
    BY DEF Surjection
  <2>8. IsFiniteSet(1 .. index) /\ Cardinality(1 .. index) = index
    BY <2>3, FS_Interval
  <2> HIDE DEF f, ahead, younger
  <2>9. IsFiniteSet(ahead) /\ Cardinality(ahead) <= index
    BY <2>7, <2>8, FS_Surjection
  <2>10. IsFiniteSet(younger) /\ Cardinality(younger) <= Cardinality(ahead)
    BY <2>6, <2>9, FS_Subset
  <2>11. Cardinality(younger) \in Nat /\ Cardinality(ahead) \in Nat
    BY <2>9, <2>10, FS_CardinalityType
  <2>12. Cardinality(younger) <= index
    BY <2>3, <2>9, <2>10, <2>11
  <2>13. QED
    BY <2>2, <2>4, <2>5, <2>12 DEF SentTo, younger
<1>2. QED
  BY <1>1, RPCInvariant, PTL

(* ---------------------------------------------------------------------- *)
(* Configuration: what MODULAR_DEBUG sets                                  *)

(* g concatenates the pieces up to n.                                        *)
Joins(g, piece, n) == \A i \in 0 .. n : g[i] = IF i = 0 THEN <<>> ELSE g[i - 1] \o piece[i]

(* There is such a g, by induction on n: a least n without one is not 0, and *)
(* what there is for n - 1 can be continued.                                 *)
LEMMA JoinedThere ==
  ASSUME NEW T, NEW N \in Nat, NEW piece \in [1 .. N -> Seq(T)]
  PROVE  \E g \in [0 .. N -> Seq(T)] : Joins(g, piece, N)
<1> DEFINE Good(n) == \E g \in [0 .. n -> Seq(T)] : Joins(g, piece, n)
           Bad == {n \in 0 .. N : ~ Good(n)}
<1>1. SUFFICES ASSUME Bad # {} PROVE FALSE
  <2>1. N \in 0 .. N
    OBVIOUS
  <2> HIDE DEF Good
  <2>2. Good(N)
    BY <1>1, <2>1
  <2>3. QED
    BY <2>2 DEF Good
<1>2. PICK b \in Bad : \A y \in Bad : b <= y
  <2>1. Bad \in SUBSET Nat
    OBVIOUS
  <2> HIDE DEF Bad
  <2>2. QED
    BY <1>1, <2>1, LeastNat
<1>3. b # 0
  <2> DEFINE g == [i \in 0 .. 0 |-> <<>>]
  <2>1. g \in [0 .. 0 -> Seq(T)]
    BY EmptySeq
  <2>2. Joins(g, piece, 0)
    BY DEF Joins
  <2>3. Good(0)
    BY <2>1, <2>2
  <2>4. QED
    BY <1>2, <2>3
<1>4. b \in 1 .. N /\ b - 1 \in 0 .. N /\ b - 1 \notin Bad
  BY <1>2, <1>3
<1>5. PICK g \in [0 .. (b - 1) -> Seq(T)] : Joins(g, piece, b - 1)
  BY <1>4
<1> DEFINE h == [i \in 0 .. b |-> IF i = b THEN g[b - 1] \o piece[b] ELSE g[i]]
<1>6. h \in [0 .. b -> Seq(T)]
  <2>1. g[b - 1] \o piece[b] \in Seq(T)
    BY <1>4
  <2>2. \A i \in 0 .. b : i # b => g[i] \in Seq(T)
    BY <1>4
  <2>3. QED
    BY <2>1, <2>2
<1>7. Joins(h, piece, b)
  <2> SUFFICES ASSUME NEW i \in 0 .. b PROVE h[i] = IF i = 0 THEN <<>> ELSE h[i - 1] \o piece[i]
    BY DEF Joins
  <2>1. CASE i = b
    <3>1. h[b] = g[b - 1] \o piece[b] /\ h[b - 1] = g[b - 1] /\ b # 0
      BY <1>4
    <3> HIDE DEF h
    <3>2. QED
      BY <2>1, <3>1
  <2>2. CASE i # b
    <3>1. i \in 0 .. (b - 1) /\ (i # 0 => i - 1 \in 0 .. b /\ i - 1 # b)
      BY <1>4, <2>2
    <3>2. QED
      BY <1>5, <2>2, <3>1 DEF Joins
  <2>3. QED
    BY <2>1, <2>2
<1>8. Good(b)
  BY <1>6, <1>7
<1>9. QED
  BY <1>2, <1>8

(* A setting is a key and its value.                                         *)
Pairs == {"nan-check", "assert-level"} \X {"true", "all", "warn"}
LEMMA SettingsType == ASSUME NEW token PROVE Settings(token) \in Seq(Pairs)
<1>1. <<"nan-check", "true">> \in Pairs /\ <<"assert-level", "all">> \in Pairs /\ <<"assert-level", "warn">> \in Pairs
  BY DEF Pairs
<1>2. /\ <<<<"nan-check", "true">>, <<"assert-level", "all">>>> \in Seq(Pairs) 
      /\ <<<<"nan-check", "true">>>> \in Seq(Pairs) /\ <<<<"assert-level", "warn">>>> \in Seq(Pairs) /\ <<>> \in Seq(Pairs)
  BY <1>1
<1>3. QED
  BY <1>2, Zenon DEF Settings

LEMMA DebugSettingsType ==
  ASSUME NEW tokens \in Seq(STRING)
  PROVE  DebugSettings(tokens) \in Seq(Pairs)
<1> DEFINE N == Len(tokens)
           piece == [n \in 1 .. N |-> Settings(tokens[n])]
           all[n \in 0 .. Len(tokens)] == IF n = 0 THEN <<>> ELSE all[n - 1] \o Settings(tokens[n])
           IsAll(g) == g = [n \in 0 .. Len(tokens) |-> IF n = 0 THEN <<>> ELSE g[n - 1] \o Settings(tokens[n])]
<1>1. N \in Nat /\ piece \in [1 .. N -> Seq(Pairs)]
  BY SettingsType
<1>2. \E g : IsAll(g)
  <2>1. PICK g \in [0 .. N -> Seq(Pairs)] : Joins(g, piece, N)
    <3> HIDE DEF piece, N
    <3>1. QED
      BY <1>1, JoinedThere
  <2>2. ASSUME NEW n \in 0 .. N PROVE g[n] = IF n = 0 THEN <<>> ELSE g[n - 1] \o Settings(tokens[n])
    <3>1. n # 0 => piece[n] = Settings(tokens[n])
      BY <1>1
    <3> HIDE DEF piece, N
    <3>2. g[n] = IF n = 0 THEN <<>> ELSE g[n - 1] \o piece[n]
      BY <2>1 DEF Joins
    <3>3. QED
      BY <3>1, <3>2
  <2>3. IsAll(g)
    BY <2>1, <2>2
  <2>4. QED
    BY <2>3
<1>3. all = CHOOSE g : IsAll(g)
  OBVIOUS
<1>4. DebugSettings(tokens) = all[N]
  BY DEF DebugSettings
<1> HIDE DEF all
<1>5. IsAll(all)
  BY <1>2, <1>3
<1>6. \A n \in 0 .. N : all[n] = IF n = 0 THEN <<>> ELSE all[n - 1] \o Settings(tokens[n])
  BY <1>5
<1> DEFINE Bad == {n \in 0 .. N : all[n] \notin Seq(Pairs)}
<1>7. ASSUME Bad # {} PROVE FALSE
  <2>1. Bad \in SUBSET Nat
    BY <1>1
  <2>2. PICK b \in Bad : \A y \in Bad : b <= y
    <3> HIDE DEF Bad
    <3>1. QED
      BY <1>7, <2>1, LeastNat
  <2>3. CASE b = 0
    BY <1>6, <2>2, <2>3, EmptySeq
  <2>4. CASE b # 0
    <3>1. b - 1 \in 0 .. N /\ b - 1 \notin Bad /\ b \in 0 .. N
      BY <1>1, <2>2, <2>4
    <3>2. all[b - 1] \in Seq(Pairs) /\ Settings(tokens[b]) \in Seq(Pairs)
      BY <3>1, SettingsType
    <3>3. all[b] = all[b - 1] \o Settings(tokens[b])
      BY <1>6, <2>4, <3>1
    <3>4. all[b] \in Seq(Pairs)
      BY <3>2, <3>3
    <3>5. QED
      BY <2>2, <3>4
  <2>5. QED
    BY <2>3, <2>4
<1>8. QED
  BY <1>1, <1>4, <1>7

(* ---------------------------------------------------------------------- *)
(* Configuration: the invariant                                            *)

Debug == DebugSettings(world.debug)

(* What the first m settings leave for a key.                                *)
LastUpTo(k, m) ==
  LET hits == {i \in 1 .. m : Debug[i][1] = k}
  IN IF hits = {} THEN None ELSE Debug[CHOOSE i \in hits : \A j \in hits : j <= i][2]

(* What is found when there is no override and the file says v.              *)
Below(k, v) == First(<<world.env[k], world.runfiles[k], v>>)

ConfigType ==
  /\ world \in Worlds /\ DOMAIN overrides = Keys /\ DOMAIN cachedKV = Keys
  /\ pc \in [Threads -> {"idle", "parse", "init", "ready", "locked", "unlocked", "error"}]
  /\ DOMAIN cfg = Threads /\ \A t \in Threads : DOMAIN cfg[t] = Keys
  /\ call \in [Threads -> Keys \cup {None}] /\ DOMAIN during = Threads /\ DOMAIN answer = Threads
  /\ clean \in [Threads -> SUBSET Keys]

(* Who is past a gate found it open, and it stays open.                      *)
Gates ==
  /\ \A t \in Threads : pc[t] \in {"init", "ready", "locked", "unlocked", "error"} => parseFlag.at = "open"
  /\ \A t \in Threads : pc[t] \in {"ready", "locked", "unlocked", "error"} \/ clean[t] # {} => initFlag.at = "open"
  /\ parseFlag.at = "open" => left = <<>>

(* The settings made so far are in the overrides of the keys that were not   *)
(* changed at run time.                                                      *)
AppliedUpTo(m) ==
  left = SubSeq(Debug, m + 1, Len(Debug)) /\ \A k \in Keys \ set : overrides[k] = LastUpTo(k, m)
DebugApplied == \E m \in 0 .. Len(Debug) : AppliedUpTo(m)

(* A read in progress: the answer of this moment is one of the right ones,   *)
(* and, past the overrides, the answer without one is; a value that was not  *)
(* copied from elsewhere answers as the file does.                           *)
Reads(t) ==
  /\ call[t] # None <=> pc[t] \in {"locked", "unlocked"}
  /\ call[t] # None => Effective(call[t], cachedKV) \in during[t]
  /\ pc[t] = "unlocked" => /\ Below(call[t], cachedKV[call[t]]) \in during[t]
                           /\ call[t] \notin set => DebugValue(call[t]) = None
  /\ \A k \in clean[t] : Below(k, cfg[t][k]) = Below(k, cachedKV[k])
  /\ answer[t].key # None => answer[t].value \in answer[t].right /\ DebugSeen(t, answer[t].key)

ReadInv == \A t \in Threads : Reads(t)

(* ---------------------------------------------------------------------- *)
(* Configuration: what is found first                                      *)

LEMMA FirstOfFour ==
  ASSUME NEW a, NEW b, NEW c, NEW d
  PROVE  First(<<a, b, c, d>>) =
           IF a # None THEN a ELSE IF b # None THEN b ELSE IF c # None THEN c ELSE d
<1> DEFINE s == <<a, b, c, d>>
           some == {i \in 1 .. Len(s) : s[i] # None}
           least == CHOOSE i \in some : \A j \in some : i <= j
<1>1. 1 .. Len(s) = {1, 2, 3, 4} /\ s[1] = a /\ s[2] = b /\ s[3] = c /\ s[4] = d
  OBVIOUS
<1>2. First(s) = IF some = {} THEN None ELSE s[least]
  BY DEF First
<1> HIDE DEF s
<1>3. ASSUME NEW m \in some, \A j \in some : m <= j PROVE least = m
  <2>1. \A i \in some : i \in Int
    BY <1>1
  <2> HIDE DEF some
  <2>2. least \in some /\ \A j \in some : least <= j
    BY <1>3
  <2>3. QED
    BY <1>3, <2>1, <2>2
<1>4. CASE a # None
  BY <1>1, <1>2, <1>3, <1>4 DEF s
<1>5. CASE a = None /\ b # None
  BY <1>1, <1>2, <1>3, <1>5 DEF s
<1>6. CASE a = None /\ b = None /\ c # None
  BY <1>1, <1>2, <1>3, <1>6 DEF s
<1>7. CASE a = None /\ b = None /\ c = None /\ d # None
  BY <1>1, <1>2, <1>3, <1>7 DEF s
<1>8. CASE a = None /\ b = None /\ c = None /\ d = None
  <2>1. some = {}
    BY <1>1, <1>8
  <2>2. QED
    BY <1>2, <1>8, <2>1 DEF s
<1>9. QED
  BY <1>4, <1>5, <1>6, <1>7, <1>8

LEMMA FirstOfThree ==
  ASSUME NEW a, NEW b, NEW c
  PROVE  First(<<a, b, c>>) = IF a # None THEN a ELSE IF b # None THEN b ELSE c
<1> DEFINE s == <<a, b, c>>
           some == {i \in 1 .. Len(s) : s[i] # None}
           least == CHOOSE i \in some : \A j \in some : i <= j
<1>1. 1 .. Len(s) = {1, 2, 3} /\ s[1] = a /\ s[2] = b /\ s[3] = c
  OBVIOUS
<1>2. First(s) = IF some = {} THEN None ELSE s[least]
  BY DEF First
<1> HIDE DEF s
<1>3. ASSUME NEW m \in some, \A j \in some : m <= j PROVE least = m
  <2>1. \A i \in some : i \in Int
    BY <1>1
  <2> HIDE DEF some
  <2>2. least \in some /\ \A j \in some : least <= j
    BY <1>3
  <2>3. QED
    BY <1>3, <2>1, <2>2
<1>4. CASE a # None
  BY <1>1, <1>2, <1>3, <1>4 DEF s
<1>5. CASE a = None /\ b # None
  BY <1>1, <1>2, <1>3, <1>5 DEF s
<1>6. CASE a = None /\ b = None /\ c # None
  BY <1>1, <1>2, <1>3, <1>6 DEF s
<1>7. CASE a = None /\ b = None /\ c = None
  <2>1. some = {}
    BY <1>1, <1>7
  <2>2. QED
    BY <1>2, <1>7, <2>1 DEF s
<1>8. QED
  BY <1>4, <1>5, <1>6, <1>7

(* The answer is the override when there is one and what is below otherwise. *)
LEMMA EffectiveIs ==
  ASSUME NEW k
  PROVE  Effective(k, cachedKV) = IF overrides[k] # None THEN overrides[k] ELSE Below(k, cachedKV[k])
BY FirstOfFour, FirstOfThree DEF Effective, Below

(* One more setting.                                                         *)
LEMMA LastUpToNext ==
  ASSUME NEW k, NEW m \in Nat
  PROVE  LastUpTo(k, m + 1) = IF Debug[m + 1][1] = k THEN Debug[m + 1][2] ELSE LastUpTo(k, m)
<1> DEFINE hits(n) == {i \in 1 .. n : Debug[i][1] = k}
           last(n) == CHOOSE i \in hits(n) : \A j \in hits(n) : j <= i
<1>1. CASE Debug[m + 1][1] = k
  <2>1. m + 1 \in hits(m + 1) /\ \A j \in hits(m + 1) : j <= m + 1 /\ j \in Int
    BY <1>1
  <2>2. last(m + 1) = m + 1
    <3> HIDE DEF hits
    <3>1. last(m + 1) \in hits(m + 1) /\ \A j \in hits(m + 1) : j <= last(m + 1)
      BY <2>1
    <3>2. QED
      BY <2>1, <3>1
  <2>3. LastUpTo(k, m + 1) = Debug[last(m + 1)][2]
    BY <2>1 DEF LastUpTo
  <2>4. QED
    BY <1>1, <2>2, <2>3
<1>2. CASE Debug[m + 1][1] # k
  <2>1. hits(m + 1) = hits(m)
    BY <1>2
  <2> DEFINE val(h) == IF h = {} THEN None ELSE Debug[CHOOSE i \in h : \A j \in h : j <= i][2]
  <2>2. LastUpTo(k, m + 1) = val(hits(m + 1)) /\ LastUpTo(k, m) = val(hits(m))
    BY DEF LastUpTo
  <2> HIDE DEF val, hits
  <2>3. QED
    BY <1>2, <2>1, <2>2
<1>3. QED
  BY <1>1, <1>2

LEMMA DebugIs ==
  ASSUME ConfigType
  PROVE  Debug \in Seq(Pairs) /\ \A k : DebugValue(k) = LastUpTo(k, Len(Debug))
<1>1. world.debug \in Seq(STRING)
  BY ConfigAssumption DEF ConfigType
<1>2. QED
  BY <1>1, DebugSettingsType DEF Debug, DebugValue, LastUpTo

(* When all settings are made, an override nobody changed is what            *)
(* MODULAR_DEBUG says.                                                       *)
LEMMA AllApplied ==
  ASSUME ConfigType, DebugApplied, left = <<>>, NEW k \in Keys, k \notin set
  PROVE  overrides[k] = DebugValue(k)
<1>1. Debug \in Seq(Pairs) /\ DebugValue(k) = LastUpTo(k, Len(Debug))
  BY DebugIs
<1>2. PICK m \in 0 .. Len(Debug) : AppliedUpTo(m)
  BY DEF DebugApplied
<1>3. m = Len(Debug)
  <2>1. SubSeq(Debug, m + 1, Len(Debug)) = <<>>
    BY <1>2 DEF AppliedUpTo
  <2>2. m < Len(Debug) => Len(SubSeq(Debug, m + 1, Len(Debug))) = Len(Debug) - m
    BY <1>1
  <2>3. ~(m < Len(Debug))
    <3>1. Len(SubSeq(Debug, m + 1, Len(Debug))) = 0
      BY <2>1, EmptySeq
    <3>2. Len(Debug) \in Nat /\ m \in Nat
      BY <1>1
    <3>3. QED
      BY <2>2, <3>1, <3>2
  <2>4. QED
    BY <1>1, <2>3
<1>4. QED
  BY <1>1, <1>2, <1>3 DEF AppliedUpTo

(* ---------------------------------------------------------------------- *)
(* Configuration: the steps                                                *)

LEMMA NextConfigType ==
  ASSUME ConfigType, ConfigNext
  PROVE  ConfigType'
<1>1. CASE WriteFile
  BY <1>1 DEF WriteFile, ConfigType
<1>2. SUFFICES ASSUME NEW t \in Threads, ConfigStep(t) PROVE ConfigType'
  BY <1>1 DEF ConfigNext
<1>3. CASE open(t)
  BY <1>3 DEF open, ConfigType
<1>4. CASE parseModularDebugEnv(t)
  <2>1. DOMAIN during' = Threads /\ DOMAIN overrides' = Keys
    BY <1>4 DEF parseModularDebugEnv, Watched, ConfigType
  <2>2. QED
    BY <1>4, <2>1 DEF parseModularDebugEnv, ConfigType
<1>5. CASE InitFromFile(t)
  <2>1. DOMAIN cachedKV' = Keys
    <3>1. ASSUME NEW content \in InFile PROVE DOMAIN content.kv = Keys
      <4>1. {world.old, world.new} \subseteq [ok : BOOLEAN, kv : [Keys -> STRING]]
        BY ConfigAssumption DEF ConfigType
      <4>2. QED
        BY <3>1, <4>1 DEF InFile
    <3>2. cachedKV' = cachedKV \/ \E content \in InFile : cachedKV' = content.kv
      BY <1>5 DEF InitFromFile, parseFrom
    <3>3. QED
      BY <3>1, <3>2 DEF ConfigType
  <2>2. QED
    BY <1>5, <2>1 DEF InitFromFile, ConfigType
<1>6. ASSUME NEW v, NEW copied, Answers(t, v, copied) PROVE ConfigType'
  BY <1>6 DEF Answers, ConfigType
<1>7. CASE maybeGetValue(t)
  <2>1. CASE OverrideOf(call[t]) # None
    BY <1>6, <1>7, <2>1 DEF maybeGetValue
  <2>2. CASE OverrideOf(call[t]) = None
    BY <1>7, <2>2 DEF maybeGetValue, ConfigType
  <2>3. QED
    BY <2>1, <2>2
<1>8. CASE FromElsewhere(t)
  BY <1>6, <1>8 DEF FromElsewhere
<1>9. CASE Close(t)
  BY <1>9 DEF Close, Empty, ConfigType
<1>10. ASSUME NEW k \in Keys, getValue(t, k) PROVE ConfigType'
  BY <1>10 DEF getValue, ConfigType
<1>11. ASSUME NEW k \in Tunable, NEW v, setGlobalValue(t, k, v) PROVE ConfigType'
  BY <1>11 DEF setGlobalValue, Watched, ConfigType
<1>12. ASSUME NEW k \in Tunable, setValue(t, k, "local") PROVE ConfigType'
  BY <1>12 DEF setValue, ConfigType
<1>13. QED
  BY <1>2, <1>3, <1>4, <1>5, <1>7, <1>8, <1>9, <1>10, <1>11, <1>12 DEF ConfigStep, unsetGlobalValue

LEMMA NextGates ==
  ASSUME ConfigType, Gates, ConfigNext
  PROVE  Gates'
<1>1. CASE WriteFile
  BY <1>1 DEF WriteFile, Gates
<1>2. SUFFICES ASSUME NEW t \in Threads, ConfigStep(t) PROVE Gates'
  BY <1>1 DEF ConfigNext
<1>3. CASE open(t)
  BY <1>3 DEF open, Gates, ConfigType
<1>4. CASE parseModularDebugEnv(t)
  BY <1>4 DEF parseModularDebugEnv, Passes, Gates, ConfigType
<1>5. CASE InitFromFile(t)
  BY <1>5 DEF InitFromFile, Passes, Gates, ConfigType
<1>6. ASSUME NEW v, NEW copied \in BOOLEAN, pc[t] \in {"locked", "unlocked"}, Answers(t, v, copied) PROVE Gates'
  BY <1>6 DEF Answers, Gates, ConfigType
<1>7. CASE maybeGetValue(t)
  <2>1. CASE OverrideOf(call[t]) # None
    <3>1. pc[t] \in {"locked", "unlocked"} /\ Answers(t, OverrideOf(call[t]), TRUE)
      BY <1>7, <2>1 DEF maybeGetValue
    <3>2. QED
      BY <1>6, <3>1, Zenon
  <2>2. CASE OverrideOf(call[t]) = None
    BY <1>7, <2>2 DEF maybeGetValue, Gates, ConfigType
  <2>3. QED
    BY <2>1, <2>2
<1>8. CASE FromElsewhere(t)
  <2>1. /\ pc[t] \in {"locked", "unlocked"}
        /\ Answers(t, First(<<world.env[call[t]], world.runfiles[call[t]], cfg[t][call[t]]>>), FALSE)
    BY <1>8 DEF FromElsewhere
  <2>2. QED
    BY <1>6, <2>1, Zenon
<1>9. CASE Close(t)
  BY <1>9 DEF Close, Gates, ConfigType
<1>10. ASSUME NEW k \in Keys, getValue(t, k) PROVE Gates'
  BY <1>10 DEF getValue, Gates, ConfigType
<1>11. ASSUME NEW k \in Tunable, NEW v, setGlobalValue(t, k, v) PROVE Gates'
  BY <1>11 DEF setGlobalValue, Gates
<1>12. ASSUME NEW k \in Tunable, setValue(t, k, "local") PROVE Gates'
  BY <1>12 DEF setValue, Gates, ConfigType
<1>13. QED
  BY <1>2, <1>3, <1>4, <1>5, <1>7, <1>8, <1>9, <1>10, <1>11, <1>12 DEF ConfigStep, unsetGlobalValue

(* What happens to the settings: one more is made, a key is changed at run   *)
(* time, or nothing.                                                         *)
LEMMA SettingsStep ==
  ASSUME ConfigType, ConfigNext
  PROVE  /\ world' = world
         /\ \/ UNCHANGED <<overrides, left, set>>
            \/ /\ left # <<>> /\ left' = Tail(left) /\ set' = set
               /\ overrides' = [overrides EXCEPT ![Head(left)[1]] = Head(left)[2]]
            \/ \E k, v : /\ overrides' = [overrides EXCEPT ![k] = v] /\ set' = set \cup {k}
                         /\ left' = left
<1>1. CASE WriteFile
  BY <1>1 DEF WriteFile
<1>2. SUFFICES ASSUME NEW t \in Threads, ConfigStep(t)
               PROVE  /\ world' = world
                      /\ \/ UNCHANGED <<overrides, left, set>>
                         \/ /\ left # <<>> /\ left' = Tail(left) /\ set' = set
                            /\ overrides' = [overrides EXCEPT ![Head(left)[1]] = Head(left)[2]]
                         \/ \E k, v : /\ overrides' = [overrides EXCEPT ![k] = v] /\ set' = set \cup {k}
                                      /\ left' = left
  BY <1>1 DEF ConfigNext
<1>3. CASE parseModularDebugEnv(t)
  BY <1>3 DEF parseModularDebugEnv
<1>4. ASSUME NEW k \in Tunable, NEW v, setGlobalValue(t, k, v)
      PROVE  /\ world' = world /\ left' = left /\ set' = set \cup {k}
             /\ overrides' = [overrides EXCEPT ![k] = v]
  BY <1>4 DEF setGlobalValue
<1>5. CASE \E k \in Tunable : setGlobalValue(t, k, "runtime") \/ unsetGlobalValue(t, k)
  BY <1>4, <1>5 DEF unsetGlobalValue
<1>6. CASE \/ open(t) \/ InitFromFile(t) \/ maybeGetValue(t) \/ FromElsewhere(t) \/ Close(t)
           \/ (\E k \in Keys : getValue(t, k)) \/ \E k \in Tunable : setValue(t, k, "local")
  BY <1>6 DEF open, InitFromFile, maybeGetValue, FromElsewhere, Answers, Close, getValue, setValue
<1>7. QED
  BY <1>2, <1>3, <1>5, <1>6 DEF ConfigStep

LEMMA NextApplied ==
  ASSUME ConfigType, DebugApplied, ConfigNext
  PROVE  DebugApplied'
<1>1. PICK m \in 0 .. Len(Debug) : AppliedUpTo(m)
  BY DEF DebugApplied
<1>2. world' = world /\ Debug' = Debug /\ Debug \in Seq(Pairs)
  BY SettingsStep, DebugIs DEF Debug
<1>3. \A k, n : LastUpTo(k, n)' = LastUpTo(k, n)
  BY <1>2 DEF LastUpTo
<1>4. CASE UNCHANGED <<overrides, left, set>>
  BY <1>1, <1>2, <1>3, <1>4 DEF DebugApplied, AppliedUpTo
<1>5. CASE /\ left # <<>> /\ left' = Tail(left) /\ set' = set
           /\ overrides' = [overrides EXCEPT ![Head(left)[1]] = Head(left)[2]]
  <2>1. left = SubSeq(Debug, m + 1, Len(Debug)) /\ Len(Debug) \in Nat /\ m \in Nat
    BY <1>1, <1>2 DEF AppliedUpTo
  <2>2. m < Len(Debug)
    <3>1. ~(m < Len(Debug)) => SubSeq(Debug, m + 1, Len(Debug)) = <<>>
      BY <2>1, SubSeqEmpty
    <3>2. QED
      BY <1>5, <2>1, <3>1
  <2>3. Head(left) = Debug[m + 1] /\ Tail(left) = SubSeq(Debug, (m + 1) + 1, Len(Debug))
    BY <1>2, <2>1, <2>2, HeadTailOfSubSeq
  <2>4. ASSUME NEW k \in Keys \ set PROVE overrides'[k] = LastUpTo(k, m + 1)
    <3>1. overrides[k] = LastUpTo(k, m)
      BY <1>1 DEF AppliedUpTo
    <3>2. LastUpTo(k, m + 1) = IF Debug[m + 1][1] = k THEN Debug[m + 1][2] ELSE LastUpTo(k, m)
      BY <2>1, LastUpToNext
    <3>3. QED
      BY <1>5, <2>3, <3>1, <3>2 DEF ConfigType
  <2>5. m + 1 \in 0 .. Len(Debug)
    BY <2>1, <2>2
  <2>6. AppliedUpTo(m + 1)'
    BY <1>2, <1>3, <1>5, <2>3, <2>4 DEF AppliedUpTo
  <2>7. QED
    BY <1>2, <2>5, <2>6 DEF DebugApplied
<1>6. ASSUME NEW k, NEW v, overrides' = [overrides EXCEPT ![k] = v], set' = set \cup {k}, left' = left
      PROVE  DebugApplied'
  <2>1. \A q \in Keys \ set' : overrides'[q] = LastUpTo(q, m)
    BY <1>1, <1>6 DEF AppliedUpTo, ConfigType
  <2>2. AppliedUpTo(m)'
    BY <1>1, <1>2, <1>3, <1>6, <2>1 DEF AppliedUpTo
  <2>3. QED
    BY <1>2, <2>2 DEF DebugApplied
<1>7. QED
  BY <1>4, <1>5, <1>6, SettingsStep

(* Nothing that a read of another thread depends on changes, but for the     *)
(* overrides, whose new answer is watched.                                   *)
LEMMA OtherReads ==
  ASSUME NEW t \in Threads, ConfigType, Reads(t),
         pc'[t] = pc[t], call'[t] = call[t], cfg'[t] = cfg[t], clean'[t] = clean[t], answer'[t] = answer[t],
         world' = world, set \subseteq set',
         cachedKV' = cachedKV \/ (call[t] = None /\ clean[t] = {}),
         \/ during'[t] = during[t] /\ overrides' = overrides
         \/ during' = Watched(overrides') /\ cachedKV' = cachedKV
  PROVE  Reads(t)'
<1>1. \A q : DebugValue(q)' = DebugValue(q)
  BY DEF DebugValue
<1>3. call[t] # None => Effective(call[t], cachedKV)' \in during'[t] /\ during[t] \subseteq during'[t]
  BY DEF Reads, Effective, Watched
<1>4. answer[t].key # None => answer'[t].value \in answer'[t].right /\ DebugSeen(t, answer[t].key)'
  BY <1>1 DEF Reads, DebugSeen
<1>5. \A q \in clean[t] : Below(q, cfg[t][q])' = Below(q, cachedKV[q])'
  BY DEF Reads, Below
<1>6. pc[t] = "unlocked" => /\ Below(call[t], cachedKV[call[t]])' \in during'[t]
                            /\ call[t] \notin set' => DebugValue(call[t])' = None
  BY <1>1, <1>3 DEF Reads, Below
<1>7. QED
  BY <1>3, <1>4, <1>5, <1>6 DEF Reads

(* The answer is given.                                                      *)
LEMMA AnswerReads ==
  ASSUME NEW t \in Threads, ConfigType, Reads(t), call[t] # None, NEW v, NEW copied \in BOOLEAN,
         Answers(t, v, copied),
         v \in during[t] \/ (call[t] \notin clean[t] /\ v = cfg[t][call[t]]),
         DebugValue(call[t]) # None /\ call[t] \notin set => v = DebugValue(call[t]),
         copied \/ (call[t] \in clean[t] => Below(call[t], v) = Below(call[t], cachedKV[call[t]]))
  PROVE  Reads(t)'
<1>0. PICK k : k = call[t]
  OBVIOUS
<1>1. k \in Keys /\ call'[t] = None /\ pc'[t] = "ready" /\ UNCHANGED <<world, overrides, cachedKV, set>>
  BY <1>0 DEF Answers, ConfigType
<1>2. /\ answer'[t].key = k /\ answer'[t].value = v
      /\ answer'[t].right = during[t] \cup (IF k \in clean[t] THEN {} ELSE {cfg[t][k]})
  BY <1>0 DEF Answers, ConfigType
<1>3. DebugValue(k)' = DebugValue(k)
  BY <1>1 DEF DebugValue
<1>4. DebugSeen(t, k)'
  BY <1>0, <1>1, <1>2, <1>3 DEF DebugSeen
<1>5. cfg'[t] = [cfg[t] EXCEPT ![k] = v] /\ clean'[t] = IF copied THEN clean[t] \ {k} ELSE clean[t]
  BY <1>0 DEF Answers, ConfigType
<1>6. ASSUME NEW q \in clean'[t] PROVE Below(q, cfg[t][q])' = Below(q, cachedKV[q])'
  <2>1. q \in clean[t] /\ q \in Keys
    BY <1>5 DEF ConfigType
  <2>2. CASE q = k
    <3>1. Below(k, v) = Below(k, cachedKV[k]) /\ cfg'[t][q] = v
      BY <1>0, <1>1, <1>5, <1>6, <2>1, <2>2 DEF ConfigType
    <3>2. QED
      BY <1>1, <2>2, <3>1 DEF Below
  <2>3. CASE q # k
    <3>1. cfg'[t][q] = cfg[t][q] /\ Below(q, cfg[t][q]) = Below(q, cachedKV[q])
      BY <1>5, <2>1, <2>3 DEF ConfigType, Reads
    <3>2. QED
      BY <1>1, <3>1 DEF Below
  <2>4. QED
    BY <2>2, <2>3
<1>7. answer'[t].value \in answer'[t].right
  BY <1>0, <1>2
<1>8. QED
  BY <1>1, <1>2, <1>4, <1>6, <1>7 DEF Reads

LEMMA NextReads ==
  ASSUME ConfigType, Gates, DebugApplied, ReadInv, ConfigNext
  PROVE  ReadInv'
<1>1. SUFFICES ASSUME NEW u \in Threads PROVE Reads(u)'
  BY DEF ReadInv
<1>2. Reads(u)
  BY DEF ReadInv
<1>3. ASSUME UNCHANGED <<world, overrides, cachedKV, set>>, pc'[u] = pc[u], call'[u] = call[u], cfg'[u] = cfg[u],
             clean'[u] = clean[u], answer'[u] = answer[u], during'[u] = during[u]
      PROVE  Reads(u)'
  BY <1>2, <1>3, OtherReads
<1>4. CASE WriteFile
  BY <1>3, <1>4 DEF WriteFile
<1>5. ASSUME NEW t \in Threads, ConfigStep(t) PROVE Reads(u)'
  <2>1. \A q : world' = world => DebugValue(q)' = DebugValue(q)
    BY DEF DebugValue
  <2>2. ASSUME pc[u] \notin {"locked", "unlocked"}, pc'[u] \notin {"locked", "unlocked"},
               call'[u] = call[u], UNCHANGED <<world, cachedKV, set>>, cfg'[u] = cfg[u],
               clean'[u] = clean[u], answer'[u] = answer[u]
        PROVE  Reads(u)'
    <3>1. answer[u].key # None => DebugSeen(u, answer[u].key)'
      BY <1>2, <2>1, <2>2 DEF Reads, DebugSeen
    <3>2. \A q \in clean[u] : Below(q, cfg[u][q])' = Below(q, cachedKV[q])'
      BY <1>2, <2>2 DEF Reads, Below
    <3>3. QED
      BY <1>2, <2>2, <3>1, <3>2 DEF Reads
  <2>3. CASE open(t)
    <3>1. CASE u = t
      BY <2>2, <2>3, <3>1 DEF open, ConfigType
    <3>2. CASE u # t
      BY <1>3, <2>3, <3>2 DEF open
    <3>3. QED
      BY <3>1, <3>2
  <2>4. CASE parseModularDebugEnv(t)
    <3>1. CASE pc' # pc
      <4>1. pc[t] = "parse" /\ pc' = [pc EXCEPT ![t] = "init"]
            /\ UNCHANGED <<world, overrides, cachedKV, set, call, cfg, clean, answer, during>>
        BY <2>4, <3>1 DEF parseModularDebugEnv
      <4>2. CASE u = t
        BY <2>2, <4>1, <4>2 DEF ConfigType
      <4>3. CASE u # t
        BY <1>3, <4>1, <4>3
      <4>4. QED
        BY <4>2, <4>3
    <3>2. CASE pc' = pc
      <4>1. /\ UNCHANGED <<world, cachedKV, set, call, cfg, clean, answer>>
            /\ UNCHANGED <<overrides, during>> \/ during' = Watched(overrides')
        BY <2>4 DEF parseModularDebugEnv
      <4>2. QED
        BY <1>2, <3>2, <4>1, OtherReads
    <3>3. QED
      BY <3>1, <3>2
  <2>5. CASE InitFromFile(t)
    <3>1. CASE initFlag.at = "open" /\ Passes(initFlag) /\ cachedKV' = cachedKV
      <4>1. pc[t] = "init" /\ UNCHANGED <<world, overrides, cachedKV, set, call, during, answer>>
        BY <2>5, <3>1 DEF InitFromFile
      <4>2. CASE u # t
        <5>1. pc'[u] = pc[u] /\ cfg'[u] = cfg[u] /\ clean'[u] = clean[u]
          BY <2>5, <4>2 DEF InitFromFile, ConfigType
        <5>2. QED
          BY <1>3, <4>1, <5>1
      <4>3. CASE u = t
        <5>1. \/ pc'[t] = "init" /\ UNCHANGED <<cfg, clean>>
              \/ pc'[t] = "error" /\ UNCHANGED <<cfg, clean>>
              \/ pc'[t] = "ready" /\ cfg'[t] = cachedKV
          BY <2>5, <4>1 DEF InitFromFile, ConfigType
        <5>2. CASE UNCHANGED <<cfg, clean>> /\ pc'[t] \in {"init", "error"}
          BY <2>2, <4>1, <4>3, <5>2
        <5>3. CASE pc'[t] = "ready" /\ cfg'[t] = cachedKV
          <6>1. call[t] = None
            BY <1>2, <4>1, <4>3 DEF Reads
          <6>2. answer[t].key # None => answer[t].value \in answer[t].right /\ DebugSeen(t, answer[t].key)'
            BY <1>2, <2>1, <4>1, <4>3 DEF Reads, DebugSeen
          <6>3. QED
            BY <4>1, <4>3, <5>3, <6>1, <6>2 DEF Reads
        <5>4. QED
          BY <5>1, <5>2, <5>3
      <4>4. QED
        BY <4>2, <4>3
    <3>2. CASE initFlag.at # "open"
      <4>1. UNCHANGED <<world, overrides, set, call, cfg, clean, answer, during, pc>>
        BY <2>5, <3>2 DEF InitFromFile, Passes
      <4>2. pc[u] \notin {"locked", "unlocked"} /\ clean[u] = {}
        BY <3>2 DEF Gates
      <4>3. call[u] = None
        BY <1>2, <4>2 DEF Reads
      <4>4. QED
        BY <1>2, <4>1, <4>2, <4>3, OtherReads
    <3>3. CASE initFlag.at = "open" /\ ~(Passes(initFlag) /\ cachedKV' = cachedKV)
      BY <2>5, <3>3 DEF InitFromFile, Passes
    <3>4. QED
      BY <3>1, <3>2, <3>3
  <2>6. CASE maybeGetValue(t) /\ u = t
    <3>1. pc[t] = "locked" /\ call[t] # None /\ call[t] \in Keys
      BY <1>2, <2>6 DEF maybeGetValue, Reads, ConfigType
    <3>2. left = <<>>
      BY <3>1 DEF Gates
    <3>3. call[t] \notin set => overrides[call[t]] = DebugValue(call[t])
      BY <3>1, <3>2, AllApplied
    <3>4. Effective(call[t], cachedKV) =
            IF overrides[call[t]] # None THEN overrides[call[t]] ELSE Below(call[t], cachedKV[call[t]])
      BY EffectiveIs
    <3>5. CASE overrides[call[t]] # None
      <4>1. Answers(t, overrides[call[t]], TRUE)
        BY <2>6, <3>5 DEF maybeGetValue, OverrideOf
      <4>2. overrides[call[t]] \in during[t]
        BY <1>2, <2>6, <3>1, <3>4, <3>5 DEF Reads
      <4>3. Reads(t)'
        BY <1>2, <2>6, <3>1, <3>3, <4>1, <4>2, AnswerReads, Zenon
      <4>4. QED
        BY <2>6, <4>3
    <3>6. CASE overrides[call[t]] = None
      <4>1. /\ pc'[t] = "unlocked"
            /\ UNCHANGED <<world, overrides, cachedKV, cfg, call, during, answer, clean, set>>
        BY <2>6, <3>6 DEF maybeGetValue, OverrideOf, ConfigType
      <4>2. Below(call[t], cachedKV[call[t]]) \in during[t]
        BY <1>2, <2>6, <3>1, <3>4, <3>6 DEF Reads
      <4>3. call[t] \notin set => DebugValue(call[t]) = None
        BY <3>3, <3>6
      <4>4. /\ Effective(call[t], cachedKV)' = Effective(call[t], cachedKV)
            /\ Below(call[t], cachedKV[call[t]])' = Below(call[t], cachedKV[call[t]])
        BY <4>1 DEF Effective, Below
      <4>5. \A q \in clean[t] : Below(q, cfg[t][q])' = Below(q, cachedKV[q])'
        BY <1>2, <2>6, <4>1 DEF Reads, Below
      <4>6. answer[t].key # None => answer[t].value \in answer[t].right /\ DebugSeen(t, answer[t].key)'
        BY <1>2, <2>1, <2>6, <4>1 DEF Reads, DebugSeen
      <4>7. QED
        BY <1>2, <2>1, <2>6, <3>1, <4>1, <4>2, <4>3, <4>4, <4>5, <4>6 DEF Reads
    <3>7. QED
      BY <3>5, <3>6
  <2>7. CASE FromElsewhere(t) /\ u = t
    <3> DEFINE k == call[t]
               v == Below(k, cfg[t][k])
    <3>1. pc[t] = "unlocked" /\ k # None /\ k \in Keys /\ Answers(t, v, FALSE)
      BY <1>2, <2>7 DEF FromElsewhere, Reads, ConfigType, Below
    <3>2. Below(k, cachedKV[k]) \in during[t] /\ (k \notin set => DebugValue(k) = None)
      BY <1>2, <2>7, <3>1 DEF Reads
    <3>3. \A w : Below(k, w) = IF world.env[k] # None THEN world.env[k]
                               ELSE IF world.runfiles[k] # None THEN world.runfiles[k] ELSE w
      BY FirstOfThree DEF Below
    <3>4. k \in clean[t] => v = Below(k, cachedKV[k])
      BY <1>2, <2>7 DEF Reads
    <3>5. v \in during[t] \/ (k \notin clean[t] /\ v = cfg[t][k])
      BY <3>2, <3>3, <3>4
    <3>6. k \in clean[t] => Below(k, v) = Below(k, cachedKV[k])
      BY <3>3, <3>4
    <3> HIDE DEF v
    <3>7. Reads(t)'
      BY <1>2, <2>7, <3>1, <3>2, <3>5, <3>6, AnswerReads, Zenon
    <3>8. QED
      BY <2>7, <3>7
  <2>8. CASE (maybeGetValue(t) \/ FromElsewhere(t)) /\ u # t
    <3> DEFINE Same == /\ UNCHANGED <<world, overrides, cachedKV, set>> /\ pc'[u] = pc[u] /\ call'[u] = call[u]
                       /\ cfg'[u] = cfg[u] /\ clean'[u] = clean[u] /\ answer'[u] = answer[u] /\ during'[u] = during[u]
    <3>1. Same
      <4>1. ASSUME NEW v, NEW copied, Answers(t, v, copied) PROVE Same
        BY <2>8, <4>1 DEF Answers, ConfigType
      <4>2. (\E v, copied : Answers(t, v, copied)) \/ Same
        BY <2>8 DEF maybeGetValue, FromElsewhere, ConfigType
      <4>3. QED
        BY <4>1, <4>2
    <3>2. QED
      BY <1>3, <3>1
  <2>9. CASE Close(t)
    <3>1. CASE u # t
      BY <1>3, <2>9, <3>1 DEF Close
    <3>2. CASE u = t
      <4>1. pc[t] \in {"ready", "error"} /\ pc'[t] = "idle" /\ call' = call /\ clean'[t] = {} /\ answer'[t] = NoAnswer
        BY <2>9 DEF Close, ConfigType
      <4>2. QED
        BY <1>2, <3>2, <4>1 DEF Reads, NoAnswer
    <3>3. QED
      BY <3>1, <3>2
  <2>10. ASSUME NEW k \in Keys, getValue(t, k) PROVE Reads(u)'
    <3>1. CASE u # t
      BY <1>3, <2>10, <3>1 DEF getValue
    <3>2. CASE u = t
      <4>1. /\ pc'[t] = "locked" /\ call'[t] = k /\ during'[t] = {Effective(k, cachedKV)} /\ answer'[t] = NoAnswer
            /\ UNCHANGED <<world, overrides, cachedKV, cfg, clean>> /\ k # None
        BY <2>10, ConfigAssumption DEF getValue, ConfigType
      <4>2. Effective(call[t], cachedKV)' \in during'[t]
        BY <4>1 DEF Effective
      <4>3. \A q \in clean[t] : Below(q, cfg[t][q])' = Below(q, cachedKV[q])'
        BY <1>2, <3>2, <4>1 DEF Reads, Below
      <4>4. QED
        BY <3>2, <4>1, <4>2, <4>3 DEF Reads, NoAnswer
    <3>3. QED
      BY <3>1, <3>2
  <2>11. ASSUME NEW k \in Tunable, NEW v, setGlobalValue(t, k, v) PROVE Reads(u)'
    <3>1. /\ UNCHANGED <<world, cachedKV, pc, cfg, call, answer, clean>> /\ during' = Watched(overrides')
          /\ set \subseteq set'
      BY <2>11 DEF setGlobalValue
    <3>2. QED
      BY <1>2, <3>1, OtherReads
  <2>12. ASSUME NEW k \in Tunable, setValue(t, k, "local") PROVE Reads(u)'
    <3>1. CASE u # t
      BY <1>3, <2>12, <3>1 DEF setValue
    <3>2. CASE u = t
      <4>1. /\ pc[t] = "ready" /\ UNCHANGED <<world, overrides, cachedKV, pc, call, during, answer, set>>
            /\ clean'[t] = clean[t] \ {k} /\ cfg'[t] = [cfg[t] EXCEPT ![k] = "local"]
        BY <2>12 DEF setValue, ConfigType
      <4>2. ASSUME NEW q \in clean'[t] PROVE Below(q, cfg[t][q])' = Below(q, cachedKV[q])'
        <5>1. q \in clean[t] /\ q # k /\ q \in Keys
          BY <4>1 DEF ConfigType
        <5>2. cfg'[t][q] = cfg[t][q] /\ Below(q, cfg[t][q]) = Below(q, cachedKV[q])
          BY <1>2, <3>2, <4>1, <5>1 DEF ConfigType, Reads
        <5>3. QED
          BY <4>1, <5>2 DEF Below
      <4>3. answer[t].key # None => answer[t].value \in answer[t].right /\ DebugSeen(t, answer[t].key)'
        BY <1>2, <2>1, <3>2, <4>1 DEF Reads, DebugSeen
      <4>4. call[t] = None
        BY <1>2, <3>2, <4>1 DEF Reads
      <4>5. QED
        BY <3>2, <4>1, <4>2, <4>3, <4>4 DEF Reads
    <3>3. QED
      BY <3>1, <3>2
  <2>13. QED
    BY <1>5, <2>3, <2>4, <2>5, <2>6, <2>7, <2>8, <2>9, <2>10, <2>11, <2>12 DEF ConfigStep, unsetGlobalValue
<1>6. QED
  BY <1>4, <1>5 DEF ConfigNext

LEMMA InitConfig == ConfigInit => ConfigType /\ Gates /\ DebugApplied /\ ReadInv
<1> SUFFICES ASSUME ConfigInit PROVE ConfigType /\ Gates /\ DebugApplied /\ ReadInv
  OBVIOUS
<1>1. ConfigType
  BY DEF ConfigInit, ConfigType, Empty
<1>2. Gates
  BY DEF ConfigInit, Gates, Closed
<1>3. DebugApplied
  <2>1. Debug \in Seq(Pairs) /\ left = Debug
    BY <1>1, DebugIs DEF ConfigInit, Debug
  <2>2. left = SubSeq(Debug, 0 + 1, Len(Debug))
    BY <2>1, SubSeqFull
  <2>3. \A k \in Keys : overrides[k] = LastUpTo(k, 0)
    BY DEF ConfigInit, Empty, LastUpTo
  <2>4. 0 \in 0 .. Len(Debug)
    BY <2>1
  <2>5. QED
    BY <2>2, <2>3, <2>4 DEF DebugApplied, AppliedUpTo
<1>4. ReadInv
  BY DEF ConfigInit, ReadInv, Reads, NoAnswer
<1>5. QED
  BY <1>1, <1>2, <1>3, <1>4

(* A read returns what was the right answer at some moment between the call  *)
(* and the return, for any number of threads that open, read and override    *)
(* the configuration while another process writes the file; and who has a    *)
(* Config sees all of MODULAR_DEBUG.                                         *)
THEOREM ReadsExplainedHolds == ConfigSafe => []ReadsExplained
<1> DEFINE Inv == ConfigType /\ Gates /\ DebugApplied /\ ReadInv
<1>1. Inv /\ [ConfigNext]_configVars => Inv'
  <2> SUFFICES ASSUME Inv, [ConfigNext]_configVars PROVE Inv'
    OBVIOUS
  <2>1. CASE ConfigNext
    BY <2>1, NextConfigType, NextGates, NextApplied, NextReads
  <2>2. CASE UNCHANGED configVars
    <3>1. ConfigType' /\ Gates'
      BY <2>2 DEF configVars, ConfigType, Gates
    <3>2. DebugApplied'
      <4>1. Debug' = Debug /\ \A k, m : LastUpTo(k, m)' = LastUpTo(k, m)
        BY <2>2 DEF configVars, LastUpTo, Debug
      <4>2. PICK m \in 0 .. Len(Debug) : AppliedUpTo(m)
        BY DEF DebugApplied
      <4>3. AppliedUpTo(m)'
        BY <2>2, <4>1, <4>2 DEF configVars, AppliedUpTo
      <4>4. QED
        BY <4>1, <4>2, <4>3 DEF DebugApplied
    <3>3. ASSUME NEW u \in Threads PROVE Reads(u)'
      <4>1. Reads(u)
        BY DEF ReadInv
      <4>2. QED
        BY <2>2, <4>1, OtherReads DEF configVars
    <3>4. QED
      BY <3>1, <3>2, <3>3 DEF ReadInv
  <2>3. QED
    BY <2>1, <2>2
<1>2. Inv => ReadsExplained
  BY DEF ReadInv, Reads, ReadsExplained
<1>3. QED
  BY <1>1, <1>2, InitConfig, PTL DEF ConfigSafe

(* ---------------------------------------------------------------------- *)
(* ConfigPaths: what is found first                                        *)

(* NoFolder when nothing of ps is in S, else something of ps that is.        *)
LEMMA FirstInIs ==
  ASSUME NEW T, NEW ps \in Seq(T), NEW S, NoFolder \notin S
  PROVE  /\ FirstIn(ps, S) = NoFolder <=> \A i \in 1 .. Len(ps) : ps[i] \notin S
         /\ FirstIn(ps, S) # NoFolder => FirstIn(ps, S) \in S /\ \E i \in 1 .. Len(ps) : FirstIn(ps, S) = ps[i]
<1> DEFINE I == {i \in 1 .. Len(ps) : ps[i] \in S}
<1>1. I \in SUBSET Nat
  OBVIOUS
<1>2. FirstIn(ps, S) = LET hit == IF I # {} THEN Min(I) ELSE 0 IN IF hit = 0 THEN NoFolder ELSE ps[hit]
  BY DEF FirstIn, SelectInSeq
<1>3. CASE I = {}
  <2>1. FirstIn(ps, S) = NoFolder
    BY <1>2, <1>3
  <2>2. QED
    BY <1>3, <2>1
<1>4. CASE I # {}
  <2>1. Min(I) \in I
    <3> HIDE DEF I
    <3>1. \E x \in I : \A y \in I : x <= y
      BY <1>1, <1>4, LeastNat
    <3>2. QED
      BY <3>1 DEF Min
  <2>2. FirstIn(ps, S) = ps[Min(I)] /\ Min(I) \in 1 .. Len(ps) /\ ps[Min(I)] \in S
    BY <1>2, <1>4, <2>1
  <2>3. QED
    BY <2>2
<1>5. QED
  BY <1>3, <1>4

(* The one there is.                                                         *)
LEMMA FirstInOnly ==
  ASSUME NEW T, NEW ps \in Seq(T), NEW S, NoFolder \notin S, NEW p \in S,
         \E i \in 1 .. Len(ps) : ps[i] = p, \A i \in 1 .. Len(ps) : ps[i] \in S => ps[i] = p
  PROVE  FirstIn(ps, S) = p
BY FirstInIs

LEMMA FirstInAt ==
  ASSUME NEW T, NEW ps \in Seq(T), NEW S, NEW i \in 1 .. Len(ps), ps[i] \in S, \A j \in 1 .. (i - 1) : ps[j] \notin S
  PROVE  FirstIn(ps, S) = ps[i]
<1> DEFINE I == {j \in 1 .. Len(ps) : ps[j] \in S}
<1>1. FirstIn(ps, S) = LET hit == IF I # {} THEN Min(I) ELSE 0 IN IF hit = 0 THEN NoFolder ELSE ps[hit]
  BY DEF FirstIn, SelectInSeq
<1>2. i \in I /\ \A y \in I : i <= y
  OBVIOUS
<1>3. Min(I) = i
  <2>1. I \subseteq Nat
    OBVIOUS
  <2> HIDE DEF I
  <2>2. \A x \in I : (\A y \in I : x <= y) => x = i
    BY <1>2, <2>1
  <2>3. QED
    BY <1>2, <2>2 DEF Min
<1>4. QED
  BY <1>1, <1>2, <1>3

(* Where something is found first, it stays so whatever is looked at after.  *)
LEMMA FirstInConcat ==
  ASSUME NEW T, NEW s \in Seq(T), NEW ps \in Seq(T), NEW S, NoFolder \notin S
  PROVE  FirstIn(s \o ps, S) = IF FirstIn(s, S) # NoFolder THEN FirstIn(s, S) ELSE FirstIn(ps, S)
<1>1. /\ s \o ps \in Seq(T) /\ Len(s \o ps) = Len(s) + Len(ps) /\ Len(s) \in Nat /\ Len(ps) \in Nat
      /\ \A i \in 1 .. Len(s) : (s \o ps)[i] = s[i]
      /\ \A i \in 1 .. Len(ps) : (s \o ps)[Len(s) + i] = ps[i]
  BY ConcatProperties
<1> DEFINE both == s \o ps
           I(q) == {i \in 1 .. Len(q) : q[i] \in S}
<1>2. \A q \in Seq(T) : I(q) # {} => \E x \in I(q) : \A y \in I(q) : x <= y
  <2> TAKE q \in Seq(T)
  <2>1. I(q) \in SUBSET Nat
    OBVIOUS
  <2> HIDE DEF I
  <2>2. QED
    BY <2>1, LeastNat
<1>3. CASE I(s) # {}
  <2>1. PICK x \in 1 .. Len(s) : s[x] \in S /\ \A j \in 1 .. (x - 1) : s[j] \notin S
    <3>1. PICK x \in I(s) : \A y \in I(s) : x <= y
      BY <1>2, <1>3
    <3>2. QED
      BY <1>1, <3>1
  <2>2. FirstIn(s, S) = s[x]
    BY <2>1, FirstInAt
  <2>3. x \in 1 .. Len(both) /\ both[x] = s[x] /\ \A j \in 1 .. (x - 1) : both[j] = s[j]
    BY <1>1, <2>1
  <2> HIDE DEF both
  <2>4. FirstIn(both, S) = both[x]
    BY <1>1, <2>1, <2>3, FirstInAt DEF both
  <2>5. QED
    BY <2>1, <2>2, <2>3, <2>4 DEF both
<1>4. CASE I(s) = {} /\ I(ps) # {}
  <2>1. PICK x \in 1 .. Len(ps) : ps[x] \in S /\ \A j \in 1 .. (x - 1) : ps[j] \notin S
    <3>1. PICK x \in I(ps) : \A y \in I(ps) : x <= y
      BY <1>2, <1>4
    <3>2. QED
      BY <1>1, <3>1
  <2>2. FirstIn(ps, S) = ps[x] /\ FirstIn(s, S) = NoFolder
    BY <1>4, <2>1, FirstInAt, FirstInIs
  <2>3. Len(s) + x \in 1 .. Len(both) /\ both[Len(s) + x] = ps[x]
    BY <1>1, <2>1
  <2>4. ASSUME NEW j \in 1 .. (Len(s) + x - 1) PROVE both[j] \notin S
    <3>1. CASE j \in 1 .. Len(s)
      BY <1>1, <1>4, <3>1
    <3>2. CASE j \notin 1 .. Len(s)
      <4>1. j - Len(s) \in 1 .. (x - 1) /\ j - Len(s) \in 1 .. Len(ps) /\ Len(s) + (j - Len(s)) = j
        BY <1>1, <2>1, <3>2
      <4>2. both[j] = ps[j - Len(s)]
        BY <1>1, <4>1
      <4>3. QED
        BY <2>1, <4>1, <4>2
    <3>3. QED
      BY <3>1, <3>2
  <2> HIDE DEF both
  <2>5. FirstIn(both, S) = both[Len(s) + x]
    <3>1. PICK k : k = Len(s) + x
      OBVIOUS
    <3>2. k \in 1 .. Len(both) /\ both[k] \in S /\ \A j \in 1 .. (k - 1) : both[j] \notin S
      BY <2>1, <2>3, <2>4, <3>1
    <3>3. QED
      BY <1>1, <3>1, <3>2, FirstInAt DEF both
  <2>6. QED
    BY <2>2, <2>3, <2>5 DEF both
<1>5. CASE I(s) = {} /\ I(ps) = {}
  <2>1. \A i \in 1 .. Len(both) : both[i] \notin S
    <3> SUFFICES ASSUME NEW i \in 1 .. Len(both) PROVE both[i] \notin S
      OBVIOUS
    <3>1. CASE i \in 1 .. Len(s)
      BY <1>1, <1>5, <3>1
    <3>2. CASE i \notin 1 .. Len(s)
      <4>1. i - Len(s) \in 1 .. Len(ps) /\ Len(s) + (i - Len(s)) = i
        BY <1>1, <3>2
      <4>2. both[i] = ps[i - Len(s)]
        BY <1>1, <4>1
      <4>3. QED
        BY <1>5, <4>1, <4>2
    <3>3. QED
      BY <3>1, <3>2
  <2> HIDE DEF both
  <2>2. FirstIn(both, S) = NoFolder
    BY <1>1, <2>1, FirstInIs DEF both
  <2>3. FirstIn(s, S) = NoFolder /\ FirstIn(ps, S) = NoFolder
    BY <1>5, FirstInIs
  <2>4. QED
    BY <2>2, <2>3 DEF both
<1>6. QED
  BY <1>3, <1>4, <1>5

(* ---------------------------------------------------------------------- *)
(* ConfigPaths: the folders that are searched                              *)

FolderNames ==
  {"HOME", ".modular", "MODULAR_HOME", "MODULAR_DERIVED_PATH", "TEST_TMPDIR", "APPDATA", "Local", "Modular",
   "XDG_CONFIG_HOME", "XDG_DATA_HOME", "XDG_CACHE_HOME", ".config", ".local", "share", ".cache", "cache", "modular", "/opt", "/etc", "homebrew", "etc"}
Path == Seq(FolderNames)
LEMMA TupleSeq ==
  ASSUME NEW T, NEW a \in T, NEW b \in T, NEW c \in T
  PROVE  <<a>> \in Seq(T) /\ <<a, b>> \in Seq(T) /\ <<a, b, c>> \in Seq(T)
OBVIOUS
LEMMA TuplePath ==
  ASSUME NEW a \in FolderNames, NEW b \in FolderNames, NEW c \in FolderNames
  PROVE  <<a>> \in Path /\ <<a, b>> \in Path /\ <<a, b, c>> \in Path
BY TupleSeq DEF Path
LEMMA ModularIs == Modular \in Path /\ Modular # NoFolder
<1>1. Modular \in Path
  BY TuplePath DEF Modular, FolderNames
<1>2. Modular # NoFolder
  BY DEF Modular, NoFolder
<1>3. QED
  BY <1>1, <1>2

(* Every folder that is searched is a path.                                  *)
LEMMA SearchType ==
  ASSUME NEW type \in FolderTypes
  PROVE  /\ ExistingHome(type) \in Seq(Path) /\ XDG(type) \in Seq(Path) /\ NewHome(type) \in Seq(Path)
         /\ <<<<"/opt", "modular">>>> \in Seq(Path) /\ <<<<"/etc", "modular">>>> \in Seq(Path)
         /\ getSearchPaths(type) \in Seq(Path)
<1>1. \A p \in Path : <<p>> \in Seq(Path) /\ <<p, Modular>> \in Seq(Path)
  BY ModularIs
<1>2. \A p, q \in Path : p \o q \in Path
  BY DEF Path
<1>3. <<>> \in Seq(Path)
  OBVIOUS
<1>4. ExistingHome(type) \in Seq(Path)
  <2>1. Modular \o <<".cache", "modular">> \in Path
    BY <1>2, ModularIs, TuplePath DEF FolderNames
  <2>2. QED
    BY <1>1, <1>3, <2>1, ModularIs DEF ExistingHome
<1>5. NewHome(type) \in Seq(Path)
  <2>1. Modular \o <<"cache">> \in Path
    BY <1>2, ModularIs, TuplePath DEF FolderNames
  <2>2. QED
    BY <1>1, <1>3, <2>1, ModularIs DEF NewHome
<1>6. XDG(type) \in Seq(Path)
  <2>1. XDGVariable[type] \in FolderNames /\ XDGDefault[type] \in Path
    <3>1. <<"HOME", ".config">> \in Path /\ <<"HOME", ".local", "share">> \in Path /\ <<"HOME", ".cache">> \in Path
      BY TuplePath, ZenonT(30) DEF FolderNames
    <3>2. XDGDefault[type] \in {<<"HOME", ".config">>, <<"HOME", ".local", "share">>, <<"HOME", ".cache">>}
      BY DEF XDGDefault, FolderTypes
    <3>3. XDGVariable[type] \in FolderNames
      BY DEF XDGVariable, FolderTypes, FolderNames
    <3>4. QED
      BY <3>1, <3>2, <3>3
  <2>2. <<XDGVariable[type], "modular">> \in Path /\ XDGDefault[type] \o <<"modular">> \in Path
    <3>1. "modular" \in FolderNames
      BY DEF FolderNames
    <3>2. QED
      BY <1>2, <2>1, <3>1, TuplePath
  <2>3. QED
    BY <1>1, <1>3, <2>2 DEF XDG
<1>7. <<"/opt", "modular">> \in Path /\ <<"/etc", "modular">> \in Path
  BY TuplePath DEF FolderNames
<1>8. \A v \in FolderNames : Only(v, type) \in Seq(Path)
  <2>1. "cache" \in FolderNames
    BY DEF FolderNames
  <2>2. QED
    BY <1>1, <2>1, TuplePath DEF Only
<1>9. <<"TEST_TMPDIR", ".modular">> \in Path /\ <<"APPDATA", "Local", "Modular">> \in Path
  BY TuplePath DEF FolderNames
<1>10. \A a, b, c, d \in Seq(Path) : a \o b \o c \o d \in Seq(Path)
  OBVIOUS
<1>11. ExistingHome(type) \o XDG(type) \o NewHome(type) \o <<<<"/opt", "modular">>>> \in Seq(Path)
  BY <1>1, <1>4, <1>5, <1>6, <1>7, <1>10
<1>12. getSearchPaths(type) \in Seq(Path)
  <2>1. Only("MODULAR_HOME", type) \in Seq(Path) /\ Only("MODULAR_DERIVED_PATH", type) \in Seq(Path)
    BY <1>8 DEF FolderNames
  <2>2. <<<<"TEST_TMPDIR", ".modular">>>> \in Seq(Path) /\ <<<<"APPDATA", "Local", "Modular">>>> \in Seq(Path)
    BY <1>1, <1>9
  <2>3. QED
    BY <1>11, <2>1, <2>2, Zenon DEF getSearchPaths
<1>13. QED
  BY <1>1, <1>4, <1>5, <1>6, <1>7, <1>12

(* ---------------------------------------------------------------------- *)
(* ConfigPaths: the configuration stays found                              *)

(* Without one of the variables that stand alone, and not on Windows.        *)
Several == ~Has("MODULAR_HOME") /\ ~Has("MODULAR_DERIVED_PATH") /\ ~Has("TEST_TMPDIR") /\ ~Windows
Opt == <<<<"/opt", "modular">>>>

LEMMA SearchIs ==
  /\ findModularFile = FirstIn(getSearchPaths("Config") \o SystemFolders, files)
  /\ Several => getSearchPaths("Config") = ExistingHome("Config") \o XDG("Config") \o NewHome("Config") \o Opt
  /\ SystemFolders \in Seq(Path) /\ getSearchPaths("Config") \in Seq(Path) /\ Opt \in Seq(Path)
  /\ ExistingHome("Config") \in Seq(Path) /\ XDG("Config") \in Seq(Path) /\ NewHome("Config") \in Seq(Path)
<1>1. "Config" \in FolderTypes
  BY DEF FolderTypes
<1>2. SystemFolders \in Seq(Path)
  <2>1. <<"/etc", "modular">> \in Path
    BY TuplePath DEF FolderNames
  <2>2. <<"/opt", "homebrew", "etc", "modular">> \in Path
    BY DEF Path, FolderNames
  <2>3. \A p, q \in Path : <<p>> \in Seq(Path) /\ <<p, q>> \in Seq(Path)
    OBVIOUS
  <2>4. QED
    BY <2>1, <2>2, <2>3 DEF SystemFolders
<1>3. /\ getSearchPaths("Config") \in Seq(Path) /\ Opt \in Seq(Path)
      /\ ExistingHome("Config") \in Seq(Path) /\ XDG("Config") \in Seq(Path) /\ NewHome("Config") \in Seq(Path)
  BY <1>1, SearchType DEF Opt
<1>4. findModularFile = FirstIn(getSearchPaths("Config") \o SystemFolders, files)
  BY DEF findModularFile
<1>5. Several => getSearchPaths("Config") = ExistingHome("Config") \o XDG("Config") \o NewHome("Config") \o Opt
  BY DEF getSearchPaths, Several, Opt
<1>6. QED
  BY <1>2, <1>3, <1>4, <1>5

(* $HOME/.modular, in front or behind, holds no file.                        *)
LEMMA HomeHasNone ==
  ASSUME NoFolder \notin files, Modular \notin files
  PROVE  FirstIn(ExistingHome("Config"), files) = NoFolder /\ FirstIn(NewHome("Config"), files) = NoFolder
<1>1. ExistingHome("Config") \in {<<>>, <<Modular, Modular>>} /\ NewHome("Config") \in {<<>>, <<Modular>>}
  BY DEF ExistingHome, NewHome
<1>2. ASSUME NEW s \in {<<>>, <<Modular, Modular>>, <<Modular>>} PROVE FirstIn(s, files) = NoFolder
  <2>1. s \in Seq(Path) /\ \A i \in 1 .. Len(s) : s[i] = Modular
    <3>1. CASE s = <<>>
      BY <3>1
    <3>2. CASE s = <<Modular>>
      BY <3>2, ModularIs
    <3>3. CASE s = <<Modular, Modular>>
      BY <3>3, ModularIs
    <3>4. QED
      BY <1>2, <3>1, <3>2, <3>3
  <2>2. QED
    BY <2>1, FirstInIs
<1>3. QED
  BY <1>1, <1>2

FoundOf(X, Q, R, S) ==
  IF FirstIn(X, S) # NoFolder THEN FirstIn(X, S) ELSE IF FirstIn(Q, S) # NoFolder THEN FirstIn(Q, S) ELSE FirstIn(R, S)

(* Folders in front and behind that have nothing are passed over.            *)
LEMMA PassedOver ==
  ASSUME NEW E \in Seq(Path), NEW X \in Seq(Path), NEW N \in Seq(Path), NEW Q \in Seq(Path), NEW R \in Seq(Path),
         NEW S, NoFolder \notin S, FirstIn(E, S) = NoFolder, FirstIn(N, S) = NoFolder
  PROVE  FirstIn((E \o X \o N \o Q) \o R, S) = FoundOf(X, Q, R, S)
<1>1. PICK a \in Seq(Path) : a = E \o X
  BY ConcatProperties, Zenon
<1>2. PICK b \in Seq(Path) : b = a \o N
  BY ConcatProperties, Zenon
<1>3. PICK c \in Seq(Path) : c = b \o Q
  BY ConcatProperties, Zenon
<1>4. FirstIn(a, S) = FirstIn(X, S)
  BY <1>1, FirstInConcat
<1>5. FirstIn(b, S) = FirstIn(X, S)
  BY <1>2, <1>4, FirstInConcat
<1>6. FirstIn(c, S) = IF FirstIn(X, S) # NoFolder THEN FirstIn(X, S) ELSE FirstIn(Q, S)
  BY <1>3, <1>5, FirstInConcat
<1>7. FirstIn(c \o R, S) = FoundOf(X, Q, R, S)
  BY <1>6, FirstInConcat DEF FoundOf
<1>8. c = E \o X \o N \o Q
  BY <1>1, <1>2, <1>3, Zenon
<1>9. QED
  BY <1>7, <1>8, Zenon

(* A folder more, or $HOME/.modular in front instead of behind, changes      *)
(* nothing for the file.                                                     *)
LEMMA SameSearch ==
  ASSUME UNCHANGED <<machine, files>>, dirs \subseteq dirs', NoFolder \notin files, files \subseteq dirs
  PROVE  findModularFile' = findModularFile
<1>1. SystemFolders' = SystemFolders /\ Several' = Several /\ XDG("Config")' = XDG("Config")
  BY DEF SystemFolders, Several, XDG, Has, Windows
<1>2. CASE ~Several
  <2>1. getSearchPaths("Config")' = getSearchPaths("Config")
    BY <1>2 DEF getSearchPaths, Several, Has, Windows
  <2>2. QED
    BY <1>1, <2>1 DEF findModularFile, SystemFolders, Windows
<1>3. CASE Several /\ Modular \in files
  <2>1. ExistingHome("Config")' = ExistingHome("Config") /\ NewHome("Config")' = NewHome("Config")
    BY <1>3 DEF ExistingHome, NewHome, Has
  <2>2. getSearchPaths("Config")' = getSearchPaths("Config")
    BY <1>1, <2>1 DEF getSearchPaths, Has, Windows
  <2>3. QED
    BY <1>1, <2>2 DEF findModularFile, SystemFolders, Windows
<1>4. CASE Several /\ Modular \notin files
  <2> DEFINE Found == FoundOf(XDG("Config"), Opt, SystemFolders, files)
  <2>1. findModularFile = Found
    <3>1. FirstIn(ExistingHome("Config"), files) = NoFolder /\ FirstIn(NewHome("Config"), files) = NoFolder
      BY <1>4, HomeHasNone
    <3>2. FirstIn((ExistingHome("Config") \o XDG("Config") \o NewHome("Config") \o Opt) \o SystemFolders, files) = Found
      <4>1. PICK E, X, N, Q, R, S : /\ E = ExistingHome("Config") /\ X = XDG("Config") /\ N = NewHome("Config")
                                    /\ Q = Opt /\ R = SystemFolders /\ S = files
        OBVIOUS
      <4>2. /\ E \in Seq(Path) /\ X \in Seq(Path) /\ N \in Seq(Path) /\ Q \in Seq(Path) /\ R \in Seq(Path)
            /\ NoFolder \notin S /\ FirstIn(E, S) = NoFolder /\ FirstIn(N, S) = NoFolder
        BY <3>1, <4>1, SearchIs
      <4>3. FirstIn((E \o X \o N \o Q) \o R, S) = FoundOf(X, Q, R, S)
        BY <4>2, PassedOver
      <4>4. QED
        BY <4>1, <4>3, Zenon
    <3>3. QED
      BY <1>4, <3>2, SearchIs, Zenon
  <2>2. findModularFile' = Found'
    <3>1. (/\ findModularFile = FirstIn(getSearchPaths("Config") \o SystemFolders, files)
           /\ Several => getSearchPaths("Config") = ExistingHome("Config") \o XDG("Config") \o NewHome("Config") \o Opt)'
      BY SearchIs, PTL
    <3>2. (/\ ExistingHome("Config") \in Seq(Path) /\ XDG("Config") \in Seq(Path) /\ NewHome("Config") \in Seq(Path)
           /\ SystemFolders \in Seq(Path) /\ Opt \in Seq(Path))'
      BY SearchIs, PTL
    <3>3. (FirstIn(ExistingHome("Config"), files) = NoFolder /\ FirstIn(NewHome("Config"), files) = NoFolder)'
      <4>1. (NoFolder \notin files /\ Modular \notin files)'
        BY <1>4
      <4>2. QED
        BY <4>1, HomeHasNone, PTL
    <3>4. Several' /\ NoFolder \notin files'
      BY <1>1, <1>4
    <3>5. (FirstIn((ExistingHome("Config") \o XDG("Config") \o NewHome("Config") \o Opt) \o SystemFolders, files) = Found)'
      <4>1. PICK E, X, N, Q, R, S : (/\ E = ExistingHome("Config") /\ X = XDG("Config") /\ N = NewHome("Config")
                                     /\ Q = Opt /\ R = SystemFolders /\ S = files)'
        OBVIOUS
      <4>2. /\ E \in Seq(Path) /\ X \in Seq(Path) /\ N \in Seq(Path) /\ Q \in Seq(Path) /\ R \in Seq(Path)
            /\ NoFolder \notin S /\ FirstIn(E, S) = NoFolder /\ FirstIn(N, S) = NoFolder
        BY <3>2, <3>3, <3>4, <4>1
      <4>3. FirstIn((E \o X \o N \o Q) \o R, S) = FoundOf(X, Q, R, S)
        BY <4>2, PassedOver
      <4>4. QED
        BY <4>1, <4>3, Zenon
    <3>6. QED
      BY <3>1, <3>4, <3>5, Zenon
  <2>3. Found' = Found
    BY <1>1 DEF Opt, FoundOf
  <2>4. QED
    BY <2>1, <2>2, <2>3
<1>5. QED
  BY <1>2, <1>3, <1>4

Among(p, s) == \E i \in 1 .. Len(s) : s[i] = p

LEMMA AmongConcat ==
  ASSUME NEW T, NEW s \in Seq(T), NEW t \in Seq(T), NEW p
  PROVE  Among(p, s \o t) <=> Among(p, s) \/ Among(p, t)
<1>1. /\ s \o t \in Seq(T) /\ Len(s \o t) = Len(s) + Len(t) /\ Len(s) \in Nat /\ Len(t) \in Nat
      /\ \A i \in 1 .. Len(s) : (s \o t)[i] = s[i]
      /\ \A i \in 1 .. Len(t) : (s \o t)[Len(s) + i] = t[i]
  BY ConcatProperties
<1> DEFINE both == s \o t
<1> HIDE DEF both
<1>2. ASSUME NEW i \in 1 .. Len(both), both[i] = p PROVE Among(p, s) \/ Among(p, t)
  <2>1. CASE i \in 1 .. Len(s)
    BY <1>1, <1>2, <2>1 DEF Among, both
  <2>2. CASE i \notin 1 .. Len(s)
    <3>1. i - Len(s) \in 1 .. Len(t) /\ Len(s) + (i - Len(s)) = i
      BY <1>1, <2>2 DEF both
    <3>2. both[i] = t[i - Len(s)]
      BY <1>1, <3>1 DEF both
    <3>3. QED
      BY <1>2, <3>1, <3>2 DEF Among
  <2>3. QED
    BY <2>1, <2>2
<1>3. ASSUME NEW i \in 1 .. Len(s), s[i] = p PROVE Among(p, both)
  BY <1>1, <1>3 DEF Among, both
<1>4. ASSUME NEW i \in 1 .. Len(t), t[i] = p PROVE Among(p, both)
  <2>1. Len(s) + i \in 1 .. Len(both) /\ both[Len(s) + i] = p
    BY <1>1, <1>4 DEF both
  <2>2. QED
    BY <2>1 DEF Among
<1>5. QED
  BY <1>2, <1>3, <1>4 DEF Among, both

(* What is found is one of those looked at, whatever is looked for.          *)
LEMMA FirstInAmong ==
  ASSUME NEW T, NEW ps \in Seq(T), NEW S, FirstIn(ps, S) # NoFolder
  PROVE  Among(FirstIn(ps, S), ps) /\ FirstIn(ps, S) \in S
<1> DEFINE I == {i \in 1 .. Len(ps) : ps[i] \in S}
<1>1. FirstIn(ps, S) = LET hit == IF I # {} THEN Min(I) ELSE 0 IN IF hit = 0 THEN NoFolder ELSE ps[hit]
  BY DEF FirstIn, SelectInSeq
<1>2. I # {} /\ I \in SUBSET Nat
  BY <1>1
<1>3. Min(I) \in I
  <2> HIDE DEF I
  <2>1. \E x \in I : \A y \in I : x <= y
    BY <1>2, LeastNat
  <2>2. QED
    BY <2>1 DEF Min
<1>4. FirstIn(ps, S) = ps[Min(I)] /\ Min(I) \in 1 .. Len(ps) /\ ps[Min(I)] \in S
  BY <1>1, <1>2, <1>3
<1>5. QED
  BY <1>4 DEF Among

(* Which folders are searched depends on the machine alone, their order not. *)
SearchedOn(p) == (Has("HOME") /\ p = Modular) \/ Among(p, XDG("Config")) \/ Among(p, Opt)
LEMMA SearchSet ==
  ASSUME NEW p, Several
  PROVE  Among(p, getSearchPaths("Config")) <=> SearchedOn(p)
<1>1. PICK E \in Seq(Path), X \in Seq(Path), N \in Seq(Path), Q \in Seq(Path) :
        E = ExistingHome("Config") /\ X = XDG("Config") /\ N = NewHome("Config") /\ Q = Opt
  BY SearchIs
<1>2. getSearchPaths("Config") = E \o X \o N \o Q
  BY <1>1, SearchIs
<1>3. Among(p, E \o X \o N \o Q) <=> Among(p, E) \/ Among(p, X) \/ Among(p, N) \/ Among(p, Q)
  <2>1. PICK a \in Seq(Path) : a = E \o X
    BY ConcatProperties, Zenon
  <2>2. PICK b \in Seq(Path) : b = a \o N
    BY ConcatProperties, Zenon
  <2>3. Among(p, a) <=> Among(p, E) \/ Among(p, X)
    BY <2>1, AmongConcat
  <2>4. Among(p, b) <=> Among(p, a) \/ Among(p, N)
    BY <2>2, AmongConcat
  <2>5. Among(p, b \o Q) <=> Among(p, b) \/ Among(p, Q)
    BY AmongConcat
  <2>6. b \o Q = E \o X \o N \o Q
    BY <2>1, <2>2, Zenon
  <2>7. QED
    BY <2>3, <2>4, <2>5, <2>6, Zenon
<1>4. Among(p, E) \/ Among(p, N) <=> Has("HOME") /\ p = Modular
  <2>1. ~Among(p, <<>>) /\ (Among(p, <<Modular>>) <=> p = Modular) /\ (Among(p, <<Modular, Modular>>) <=> p = Modular)
    BY DEF Among
  <2>2. CASE Has("HOME") /\ Modular \in dirs
    <3>1. E = <<Modular, Modular>> /\ N = <<>>
      BY <1>1, <2>2 DEF ExistingHome, NewHome
    <3>2. QED
      BY <2>1, <2>2, <3>1
  <2>3. CASE Has("HOME") /\ Modular \notin dirs
    <3>1. E = <<>> /\ N = <<Modular>>
      BY <1>1, <2>3 DEF ExistingHome, NewHome
    <3>2. QED
      BY <2>1, <2>3, <3>1
  <2>4. CASE ~Has("HOME")
    <3>1. E = <<>> /\ N = <<>>
      BY <1>1, <2>4 DEF ExistingHome, NewHome
    <3>2. QED
      BY <2>1, <2>4, <3>1
  <2>5. QED
    BY <2>2, <2>3, <2>4
<1>5. QED
  BY <1>1, <1>2, <1>3, <1>4 DEF SearchedOn

LEMMA EverySearched == Several => \A p : Among(p, getSearchPaths("Config")) <=> SearchedOn(p)
BY SearchSet

LEMMA SameFolders ==
  ASSUME UNCHANGED machine
  PROVE  \A p : Among(p, getSearchPaths("Config")') <=> Among(p, getSearchPaths("Config"))
<1>1. Several' = Several /\ XDG("Config")' = XDG("Config")
  BY DEF Several, XDG, Has, Windows
<1>2. CASE ~Several
  <2>1. getSearchPaths("Config")' = getSearchPaths("Config")
    BY <1>2 DEF getSearchPaths, Several, Has, Windows
  <2>2. QED
    BY <2>1
<1>3. CASE Several
  <2>1. \A p : Among(p, getSearchPaths("Config")) <=> SearchedOn(p)
    BY <1>3, SearchSet
  <2>2. (Several => \A p : Among(p, getSearchPaths("Config")) <=> SearchedOn(p))'
    BY EverySearched, PTL
  <2>3. \A p : SearchedOn(p)' <=> SearchedOn(p)
    BY <1>1 DEF SearchedOn, Has, Opt, Modular
  <2>4. \A p : Among(p, getSearchPaths("Config")') <=> SearchedOn(p)'
    BY <1>1, <1>3, <2>2 DEF Among
  <2>5. QED
    BY <2>1, <2>3, <2>4
<1>4. QED
  BY <1>2, <1>3

(* The folders above a path, itself among them, are none of them empty.      *)
LEMMA CreatePathIs ==
  ASSUME NEW T, NEW p \in Seq(T), p # NoFolder
  PROVE  NoFolder \notin createPath(p) /\ p \in createPath(p)
<1>1. Len(p) \in Nat \ {0}
  BY EmptySeq DEF NoFolder
<1>2. ASSUME NEW n \in 1 .. Len(p) PROVE SubSeq(p, 1, n) # NoFolder
  <2>1. Len(SubSeq(p, 1, n)) = n
    BY <1>1
  <2>2. QED
    BY <2>1 DEF NoFolder
<1>3. SubSeq(p, 1, Len(p)) = p
  BY <1>1
<1>4. Len(p) \in 1 .. Len(p)
  BY <1>1
<1>5. NoFolder \notin createPath(p)
  BY <1>2, Zenon DEF createPath
<1>6. p \in createPath(p)
  BY <1>3, <1>4, Zenon DEF createPath
<1>7. QED
  BY <1>5, <1>6

(* The best folder is one of those searched; making it takes nothing away.   *)
LEMMA BestIs ==
  ASSUME NEW type \in FolderTypes, NEW create \in BOOLEAN, NoFolder \notin dirs
  PROVE  LET best == findBestPathForType(type, create) IN
         /\ dirs \subseteq best.dirs /\ NoFolder \notin best.dirs
         /\ best.folder \in best.dirs => Among(best.folder, getSearchPaths(type))
<1>1. PICK ps \in Seq(Path) : ps = getSearchPaths(type)
  BY SearchType
<1>2. Len(ps) \in Nat /\ ps # <<>>
  <2>1. \A p : <<p>> # <<>>
    OBVIOUS
  <2>2. ASSUME NEW s \in Seq(Path) PROVE s \o <<<<"/opt", "modular">>>> # <<>>
    <3>1. Len(s \o <<<<"/opt", "modular">>>>) = Len(s) + 1
      BY SearchType, ConcatProperties
    <3>2. QED
      BY <3>1
  <2>3. ExistingHome(type) \o XDG(type) \o NewHome(type) \in Seq(Path)
    BY SearchType
  <2>4. ExistingHome(type) \o XDG(type) \o NewHome(type) \o <<<<"/opt", "modular">>>> # <<>>
    BY <2>2, <2>3, Zenon
  <2>5. getSearchPaths(type) # <<>>
    BY <2>1, <2>4, Zenon DEF getSearchPaths, Only
  <2>6. QED
    BY <1>1, <2>5
<1> DEFINE old == FirstIn(ps, dirs)
           new == FirstIn(ps, Creatable)
           best == findBestPathForType(type, create)
<1>3. best = IF old # NoFolder THEN [folder |-> old, dirs |-> dirs]
             ELSE IF ~create THEN [folder |-> ps[1], dirs |-> dirs]
             ELSE IF new = NoFolder THEN [folder |-> NoFolder, dirs |-> dirs]
             ELSE [folder |-> new, dirs |-> dirs \cup createPath(new)]
  BY <1>1 DEF findBestPathForType
<1>4. old # NoFolder => Among(old, ps)
  BY FirstInAmong
<1>5. new # NoFolder => Among(new, ps) /\ NoFolder \notin createPath(new)
  <2>1. new # NoFolder => Among(new, ps)
    BY FirstInAmong
  <2>2. Among(new, ps) => new \in Path
    BY DEF Among
  <2>3. QED
    BY <2>1, <2>2, CreatePathIs DEF Path
<1>6. old = NoFolder => ps[1] \notin dirs
  <2>1. 1 \in 1 .. Len(ps)
    BY <1>2, EmptySeq
  <2>2. QED
    BY <2>1, FirstInIs
<1> HIDE DEF old, new, best
<1>7. dirs \subseteq best.dirs /\ NoFolder \notin best.dirs /\ (best.folder \in best.dirs => Among(best.folder, ps))
  <2>1. CASE old # NoFolder
    BY <1>3, <1>4, <2>1
  <2>2. CASE old = NoFolder /\ ~create
    BY <1>3, <1>6, <2>2
  <2>3. CASE old = NoFolder /\ create /\ new = NoFolder
    BY <1>3, <2>3
  <2>4. CASE old = NoFolder /\ create /\ new # NoFolder
    BY <1>3, <1>5, <2>4
  <2>5. QED
    BY <2>1, <2>2, <2>3, <2>4
<1>8. QED
  BY <1>1, <1>7 DEF best

(* A file written where there was none is found again.                       *)
LEMMA WrittenIsFound ==
  ASSUME NEW best, UNCHANGED machine, NoFolder \notin files, findModularFile = NoFolder,
         files' = files \cup {best}, best # NoFolder, Among(best, getSearchPaths("Config"))
  PROVE  findModularFile' = best
<1>1. (/\ findModularFile = FirstIn(getSearchPaths("Config") \o SystemFolders, files)
       /\ SystemFolders \in Seq(Path) /\ getSearchPaths("Config") \in Seq(Path))'
  BY SearchIs, PTL
<1>2. PICK s \in Seq(Path), t \in Seq(Path), r \in Seq(Path) :
        s = getSearchPaths("Config") /\ t = getSearchPaths("Config")' /\ r = SystemFolders /\ r = SystemFolders'
  BY <1>1, SearchIs DEF SystemFolders, Windows
<1>3. \A p : Among(p, t) <=> Among(p, s)
  BY <1>2, SameFolders
<1>4. \A p : Among(p, t \o r) <=> Among(p, s \o r)
  BY <1>3, AmongConcat
<1>5. PICK q \in Seq(Path), n \in Seq(Path) : q = s \o r /\ n = t \o r
  BY ConcatProperties, Zenon
<1>6. findModularFile = FirstIn(q, files) /\ findModularFile' = FirstIn(n, files')
  BY <1>1, <1>2, <1>5, SearchIs, Zenon
<1>7. \A i \in 1 .. Len(q) : q[i] \notin files
  BY <1>6, FirstInIs
<1>8. \A i \in 1 .. Len(n) : n[i] \notin files
  <2> SUFFICES ASSUME NEW i \in 1 .. Len(n) PROVE n[i] \notin files
    OBVIOUS
  <2>1. Among(n[i], n)
    BY DEF Among
  <2>2. Among(n[i], q)
    BY <1>4, <1>5, <2>1, Zenon
  <2>3. QED
    BY <1>7, <2>2 DEF Among
<1>9. Among(best, n)
  BY <1>2, <1>3, <1>5, AmongConcat
<1>10. PICK S : S = files'
  OBVIOUS
<1>11. FirstIn(n, S) = best
  <2>1. NoFolder \notin S /\ best \in S /\ \A i \in 1 .. Len(n) : n[i] \in S => n[i] = best
    BY <1>8, <1>10
  <2>2. \E i \in 1 .. Len(n) : n[i] = best
    BY <1>9 DEF Among
  <2>3. QED
    BY <2>1, <2>2, FirstInOnly
<1>12. QED
  BY <1>6, <1>10, <1>11

(* No folder is the empty path, a file lies in a folder there is, and the    *)
(* configuration placed is the one found.                                    *)
PathInv == NoFolder \notin dirs /\ files \subseteq dirs /\ ConfigStaysFound

LEMMA InitPath == PathInit => PathInv
<1> SUFFICES ASSUME PathInit PROVE PathInv
  OBVIOUS
<1>1. PICK m \in Machines : dirs = UNION {createPath(p) : p \in m.dirs \cup m.files} /\ files = m.files /\ placed = NoFolder
  BY DEF PathInit
<1>2. \A p \in m.dirs \cup m.files : p \in Seq(STRING) /\ p # NoFolder
  BY PathAssumption DEF NoFolder
<1>3. \A p \in m.dirs \cup m.files : NoFolder \notin createPath(p) /\ p \in createPath(p)
  BY <1>2, CreatePathIs
<1>4. NoFolder \notin dirs /\ files \subseteq dirs
  BY <1>1, <1>3
<1>5. QED
  BY <1>1, <1>4 DEF PathInv, ConfigStaysFound

LEMMA NextPath == PathInv /\ [PathNext]_pathVars => PathInv'
<1> SUFFICES ASSUME PathInv, [PathNext]_pathVars PROVE PathInv'
  OBVIOUS
<1>1. NoFolder \notin dirs /\ files \subseteq dirs /\ NoFolder \notin files
  BY DEF PathInv
<1>2. ASSUME UNCHANGED <<machine, files, placed>>, dirs \subseteq dirs', NoFolder \notin dirs' PROVE PathInv'
  <2>1. findModularFile' = findModularFile
    BY <1>1, <1>2, SameSearch
  <2>2. ConfigStaysFound'
    BY <1>2, <2>1 DEF PathInv, ConfigStaysFound
  <2>3. QED
    BY <1>1, <1>2, <2>2 DEF PathInv
<1>3. CASE UNCHANGED pathVars
  BY <1>1, <1>2, <1>3 DEF pathVars
<1>4. ASSUME NEW type \in FolderTypes, NEW create \in BOOLEAN, getFolderPath(type, create) PROVE PathInv'
  <2>1. dirs \subseteq dirs' /\ NoFolder \notin dirs'
    BY <1>1, <1>4, BestIs DEF getFolderPath
  <2>2. QED
    BY <1>2, <1>4, <2>1 DEF getFolderPath
<1>5. ASSUME NEW create \in BOOLEAN, UseConfigFile(create) PROVE PathInv'
  <2>1. PICK b : b = getConfigFilePath(create)
    OBVIOUS
  <2>2. /\ dirs' = b.dirs /\ UNCHANGED machine
        /\ \/ /\ b.folder \in dirs' \/ b.folder \in files
              /\ files' = files \cup {b.folder} /\ placed' = (IF placed = NoFolder THEN b.folder ELSE placed)
           \/ ~(b.folder \in dirs' \/ b.folder \in files) /\ UNCHANGED <<files, placed>>
    BY <1>5, <2>1 DEF UseConfigFile
  <2>3. CASE findModularFile # NoFolder
    <3>1. b.folder = findModularFile /\ b.dirs = dirs
      BY <2>1, <2>3 DEF getConfigFilePath
    <3>2. findModularFile \in files
      <4>1. PICK s, S : s \in Seq(Path) /\ s = getSearchPaths("Config") \o SystemFolders /\ S = files
        BY SearchIs, ConcatProperties, Zenon
      <4>2. findModularFile = FirstIn(s, S)
        BY <4>1, SearchIs, Zenon
      <4>3. FirstIn(s, S) \in S
        BY <2>3, <4>1, <4>2, FirstInAmong
      <4>4. QED
        BY <4>1, <4>2, <4>3
    <3>3. files' = files /\ placed' = findModularFile
      BY <2>2, <2>3, <3>1, <3>2 DEF PathInv, ConfigStaysFound
    <3>4. findModularFile' = findModularFile
      BY <1>1, <2>2, <3>1, <3>3, SameSearch
    <3>5. QED
      BY <1>1, <2>2, <3>1, <3>3, <3>4 DEF PathInv, ConfigStaysFound
  <2>4. CASE findModularFile = NoFolder
    <3>1. placed = NoFolder
      BY <2>4 DEF PathInv, ConfigStaysFound
    <3>2. dirs \subseteq dirs' /\ NoFolder \notin dirs' /\ (b.folder \in dirs' => Among(b.folder, getSearchPaths("Config")))
      <4>1. b = findBestPathForType("Config", create)
        BY <2>1, <2>4 DEF getConfigFilePath
      <4>2. QED
        BY <1>1, <2>2, <4>1, BestIs DEF FolderTypes
    <3>3. CASE UNCHANGED <<files, placed>>
      BY <1>2, <2>2, <3>2, <3>3
    <3>4. CASE /\ b.folder \in dirs' \/ b.folder \in files
               /\ files' = files \cup {b.folder} /\ placed' = (IF placed = NoFolder THEN b.folder ELSE placed)
      <4>1. b.folder \in dirs' /\ b.folder # NoFolder /\ Among(b.folder, getSearchPaths("Config"))
        BY <1>1, <3>2, <3>4
      <4>2. findModularFile' = b.folder
        BY <1>1, <2>2, <2>4, <3>4, <4>1, WrittenIsFound
      <4>3. QED
        BY <1>1, <3>1, <3>2, <3>4, <4>1, <4>2 DEF PathInv, ConfigStaysFound
    <3>5. QED
      BY <2>2, <3>3, <3>4
  <2>5. QED
    BY <2>3, <2>4
<1>6. QED
  BY <1>3, <1>4, <1>5 DEF PathNext

(* Once the configuration has been found or placed somewhere, every later    *)
(* lookup finds that file, on every machine: making the data or cache folder *)
(* moves $HOME/.modular to the front of the folders searched, and hides      *)
(* nothing (getSearchPaths, findModularFile, findBestPathForType).           *)
THEOREM ConfigStaysFoundHolds == PathSafe => []ConfigStaysFound
<1>1. PathInv => ConfigStaysFound
  BY DEF PathInv
<1>2. QED
  BY <1>1, InitPath, NextPath, PTL DEF PathSafe
=============================================================================
