---------------------------- MODULE ArchiveService ----------------------------
(***************************************************************************)
(* What a caller of ObjectCompiler::emitArchive may rely on: every request  *)
(* is answered, with an error or with an archive that is right for it, and  *)
(* with one answer.  Once the program has run into undefined behaviour      *)
(* (broken) nothing is promised.                                            *)
(***************************************************************************)
CONSTANTS
  Requests,     \* what can be asked for
  Right(_, _),  \* Right(r, a): archive a is what request r stands for
  NoRequest, NoAnswer, Error

VARIABLES request, answer, broken

serviceVars == <<request, answer, broken>>

Init == request = NoRequest /\ answer = NoAnswer /\ broken = FALSE

\* A new request takes the place of an answered one.
Ask == /\ request = NoRequest \/ answer # NoAnswer \/ broken
       /\ request' \in Requests /\ answer' = NoAnswer /\ UNCHANGED broken

Answer == /\ request # NoRequest /\ answer = NoAnswer
          /\ answer' # NoAnswer /\ (answer' = Error \/ Right(request, answer') \/ broken)
          /\ UNCHANGED <<request, broken>>

Break == broken' = TRUE /\ UNCHANGED <<request, answer>>

Next == Ask \/ Answer \/ Break

Answered == (request # NoRequest /\ answer = NoAnswer) ~> (answer # NoAnswer \/ broken)

Spec == Init /\ [][Next]_serviceVars /\ Answered
=============================================================================
