------------------------------ MODULE RPCClient ------------------------------
(***************************************************************************)
(* The client of mojo debug (Debug/RPCClient.cpp): it asks the VS Code     *)
(* windows behind a list of ports at once, lists those that answer in five *)
(* seconds and sends the debug request to the one the user picks.  Per     *)
(* port one thread connects and one talks; the second is left behind when  *)
(* it takes too long.                                                      *)
(***************************************************************************)
EXTENDS Integers, Sequences, FiniteSets, SequencesExt

CONSTANTS Ports,         \* the ports, in the order they were given
          Numbers,       \* the descriptor numbers the system hands out
          Editors,       \* what can be behind the ports: [Attempts -> [does, seen, name, length]]
          Inputs         \* what the user may type; <enter> is 0

\* One call of tryToConnectToServer per port given; a port may be given twice.
Attempts == DOMAIN Ports

\* A name has one length.
ASSUME PortsAssumption ==
  /\ Ports \in Seq(Nat) /\ Inputs \subseteq Int /\ Numbers \subseteq Nat
  /\ \A e \in Editors : \A p, q \in Attempts :
       /\ e[p].seen \in Int /\ e[p].length \in Nat
       /\ e[p].name = e[q].name => e[p].length = e[q].length

VARIABLES editor,       \* the window behind each port, as each attempt finds it; does: refuses, answers, denies, garbles or is silent
          table,        \* the descriptor numbers in use and the port each is for
          ctl,          \* tryToConnectToServer: start, waiting, ok or error
          talk,         \* doSendRequest of the connect request: none, sending, receiving, yes or no
          held,         \* the number in a Connection of the port
          connections,  \* std::set<Connection>, in its order
          futures,      \* the ports whose result invokeRPC has still to get
          rpc, index, result,  \* invokeRPC, the index typed, what it returns
          received,     \* what each window has received of the debug request
          closes, stray \* how often a Connection closed its number; closes that hit another port's socket

rpcVars == <<editor, table, ctl, talk, held, connections, futures, rpc, index, result, received, closes, stray>>
NoFd == -1
Free == {n \in Numbers : n \notin DOMAIN table}
-----------------------------------------------------------------------------
(* Sorted for display: last activity, then the longer name, then the port. *)
BeforeOldest(p, q) == editor[p].seen > editor[q].seen \/ (editor[p].seen = editor[q].seen /\ Ports[p] < Ports[q])
Before(p, q) ==
  LET a == editor[p]  b == editor[q] IN
  IF a.seen # b.seen THEN a.seen < b.seen
  ELSE IF a.name # b.name THEN a.length > b.length ELSE Ports[p] < Ports[q]
\* std::set: neither before the other is the same element.
Insert(s, p) ==
  IF \E q \in Range(s) : ~Before(p, q) /\ ~Before(q, p) THEN s
  ELSE InsertAt(s, CHOOSE i \in 1..(Len(s) + 1) : \A j \in 1..Len(s) : j < i <=> Before(s[j], p), p)

\* The destructors of Connections that hold the numbers of these ports.
Destroy(S) ==
  LET open == {p \in S : held[p] # NoFd} IN
  /\ table' = [m \in DOMAIN table \ {held[p] : p \in open} |-> table[m]]
  /\ closes' = [p \in Attempts |-> closes[p] + (IF p \in open THEN 1 ELSE 0)]
  /\ stray' = stray \cup {p \in open : held[p] \notin DOMAIN table \/ table[held[p]] # p}
-----------------------------------------------------------------------------
\* socket and connect; a port that refuses returns without closing its socket.
Connect(p) ==
  /\ rpc = "collect" /\ ctl[p] = "start"
  /\ IF Free = {} THEN ctl' = [ctl EXCEPT ![p] = "error"] /\ UNCHANGED <<table, talk>>
     ELSE \E n \in Free :
            /\ \A m \in Free : n <= m
            /\ table' = [m \in DOMAIN table \cup {n} |-> IF m = n THEN p ELSE table[m]]
            /\ IF editor[p].does = "refuses" THEN ctl' = [ctl EXCEPT ![p] = "error"] /\ UNCHANGED talk
               ELSE ctl' = [ctl EXCEPT ![p] = "waiting"] /\ talk' = [talk EXCEPT ![p] = "sending"]
  /\ UNCHANGED <<editor, held, connections, futures, rpc, index, result, received, closes, stray>>

\* doSendRequest in the thread that talks.  send may fail, or take a part: only
\* a negative result is looked at, and the window then waits for the rest.
Sent == {"whole", "part", "failed"}
Send(p, sent) ==
  /\ talk[p] = "sending"
  /\ talk' = [talk EXCEPT ![p] = CASE sent = "failed" -> "no" [] sent = "part" -> "stuck" [] OTHER -> "receiving"]
  /\ UNCHANGED <<editor, table, ctl, held, connections, futures, rpc, index, result, received, closes, stray>>
\* The response, up to the separator; recv may fail, or the stream end before it.
Answered(p) == editor[p].does = "answers"
Receive(p) ==
  /\ \/ /\ talk[p] = "receiving" /\ editor[p].does # "silent"
        /\ talk' = [talk EXCEPT ![p] = IF Answered(p) THEN "yes" ELSE "no"]
     \/ talk[p] \in {"receiving", "stuck"} /\ talk' = [talk EXCEPT ![p] = "no"]
  /\ UNCHANGED <<editor, table, ctl, held, connections, futures, rpc, index, result, received, closes, stray>>

\* wait_for: the answer is there, or five seconds have passed.
GivesUpNever(p) == FALSE
GivesUp(p) == talk[p] \notin {"yes", "no"}
WaitFor(p) ==
  /\ ctl[p] = "waiting"
  /\ \/ GivesUp(p) /\ ctl' = [ctl EXCEPT ![p] = "error"] /\ UNCHANGED held
     \/ talk[p] = "no" /\ ctl' = [ctl EXCEPT ![p] = "error"] /\ UNCHANGED held
     \/ /\ talk[p] = "yes" /\ ctl' = [ctl EXCEPT ![p] = "ok"]
        /\ \E n \in DOMAIN table : table[n] = p /\ held' = [held EXCEPT ![p] = n]
  /\ UNCHANGED <<editor, table, talk, connections, futures, rpc, index, result, received, closes, stray>>
-----------------------------------------------------------------------------
Return(r) == rpc' = "returned" /\ result' = r

\* dryRun prints the request; the log file may not be created.
invokeRPC(way) ==
  /\ rpc = "start"
  /\ IF way = "go" THEN rpc' = "collect" /\ UNCHANGED result ELSE Return(IF way = "dry" THEN "success" ELSE "error")
  /\ UNCHANGED <<editor, table, ctl, talk, held, connections, futures, index, received, closes, stray>>

\* A Connection moves into the set and the one it was moved from is destroyed
\* empty; one the set does not take is destroyed with its socket.
LeftBehindAlways(p) == {p}
LeftBehind(p) == IF p \in Range(Insert(connections, p)) THEN {} ELSE {p}
Collect ==
  /\ rpc = "collect" /\ futures # <<>>
  /\ LET p == Head(futures) IN
     /\ ctl[p] \in {"ok", "error"}
     /\ connections' = (IF ctl[p] = "ok" THEN Insert(connections, p) ELSE connections)
     /\ Destroy(IF ctl[p] = "ok" THEN LeftBehind(p) ELSE {})
  /\ futures' = Tail(futures)
  /\ UNCHANGED <<editor, ctl, talk, held, rpc, index, result, received>>

\* None: an error.  One: that one.  More: the user is asked.
Choose(i) ==
  /\ rpc = "collect" /\ futures = <<>>
  /\ IF connections = <<>> THEN Return("error") /\ UNCHANGED index
     ELSE IF Len(connections) = 1 THEN rpc' = "send" /\ index' = 0 /\ UNCHANGED result
     ELSE rpc' = "send" /\ index' = i /\ UNCHANGED result
  /\ UNCHANGED <<editor, table, ctl, talk, held, connections, futures, received, closes, stray>>

\* What was typed is no number.
InvalidInput ==
  /\ rpc = "collect" /\ futures = <<>> /\ Len(connections) > 1
  /\ rpc' = "leave" /\ result' = "error"
  /\ UNCHANGED <<editor, table, ctl, talk, held, connections, futures, index, received, closes, stray>>

\* std::advance: an index the set does not have is undefined.
Picked == connections[index + 1]
SendDebug(sent) ==
  /\ rpc = "send"
  /\ IF index \in 0..(Len(connections) - 1)
     THEN /\ received' = [received EXCEPT ![Picked] = sent]
          /\ rpc' = IF sent = "failed" THEN "leave" ELSE "receive"
          /\ result' = IF sent = "failed" THEN "error" ELSE result
     ELSE rpc' = "undefined" /\ UNCHANGED <<received, result>>
  /\ UNCHANGED <<editor, table, ctl, talk, held, connections, futures, index, closes, stray>>
\* The window answers a whole request one way or the other; of half a request
\* only an error can come, when the stream ends.
ReceiveDebug(ok) ==
  /\ rpc = "receive" /\ (ok => received[Picked] = "whole")
  /\ rpc' = "leave" /\ result' = (IF ok THEN "success" ELSE "error")
  /\ UNCHANGED <<editor, table, ctl, talk, held, connections, futures, index, received, closes, stray>>
\* The set is destroyed, and every Connection in it.
Leave ==
  /\ rpc = "leave" /\ rpc' = "returned"
  /\ Destroy(Range(connections))
  /\ UNCHANGED <<editor, ctl, talk, held, connections, futures, index, result, received>>

RPCInit ==
  /\ editor \in Editors /\ table = <<>>
  /\ ctl = [p \in Attempts |-> "start"] /\ talk = [p \in Attempts |-> "none"] /\ held = [p \in Attempts |-> NoFd]
  /\ connections = <<>> /\ futures = [p \in Attempts |-> p] /\ rpc = "start" /\ index = NoFd /\ result = "none"
  /\ received = [p \in Attempts |-> "nothing"] /\ closes = [p \in Attempts |-> 0] /\ stray = {}

Client == \/ (\E way \in {"go", "dry", "nolog"} : invokeRPC(way)) \/ Collect \/ (\E i \in Inputs : Choose(i)) \/ InvalidInput
          \/ (\E sent \in Sent : SendDebug(sent)) \/ Leave
Server == \E ok \in BOOLEAN : ReceiveDebug(ok)
Worker(p) == Connect(p) \/ WaitFor(p)
Talker(p) == (\E sent \in Sent : Send(p, sent)) \/ Receive(p)
RPCNext == Client \/ Server \/ \E p \in Attempts : Worker(p) \/ Talker(p)
RPCSafe == RPCInit /\ [][RPCNext]_rpcVars

\* The client's threads run and its timers fire; a window need never answer.
RPCFairness == WF_rpcVars(Client) /\ \A p \in Attempts : WF_rpcVars(Worker(p))
-----------------------------------------------------------------------------
\* The set had an element neither before nor after this Connection, and did not
\* take it.
NotTaken(p) == ctl[p] = "ok" /\ p \notin Range(futures) /\ p \notin Range(connections)

(* A Connection is moved twice on its way from the thread that made it into the
   set; its socket is closed exactly once, when the set does not take it or when
   the set is destroyed, not before, and never a number that by then is another
   port's socket.                                                            *)
SocketsClosedOnce ==
  /\ stray = {}
  /\ \A p \in Attempts :
       closes[p] = IF NotTaken(p) \/ (rpc = "returned" /\ p \in Range(connections)) THEN 1 ELSE 0

(* The debug session that is reported as started was started in one window, the
   whole request reached it, and it is the one that was picked: with the index i
   there are at most i listed windows that were active more recently.        *)
PickHonoured ==
  result = "success" /\ received # [p \in Attempts |-> "nothing"] =>
    \E p \in Attempts :
      /\ received = [q \in Attempts |-> IF q = p THEN "whole" ELSE "nothing"]
      /\ ctl[p] = "ok" /\ Cardinality({q \in Range(connections) : editor[q].seen < editor[p].seen}) <= index

(* Windows that are silent, or that got half a request, do not keep the client
   from listing the others.                                                  *)
CollectEnds == rpc = "collect" ~> rpc # "collect"
=============================================================================
