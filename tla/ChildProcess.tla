---------------------------- MODULE ChildProcess ----------------------------
(***************************************************************************)
(* Process and Pipe of std/os/process.mojo, with the descriptor calls of   *)
(* std/sys/_fd.mojo they rest on, on both families of systems.             *)
(*                                                                         *)
(* A Process object names its child by an id the system gave it: a pid on  *)
(* POSIX, a handle on Windows.  The id is the child's until it is released *)
(* (a successful waitpid on POSIX, CloseHandle on Windows) and can then be *)
(* given to anything else in the system, here called Stranger.             *)
(*                                                                         *)
(* The methods of one object run one after another (they take mut self);   *)
(* the children, the rest of the system, and the other objects of the      *)
(* program run between any two of them.  Each method but the blocking wait *)
(* makes one system call that matters, and is one action; the wait is two. *)
(***************************************************************************)
EXTENDS Integers

CONSTANTS
  Objs,        \* the Process objects the program makes
  Ids,         \* pids on POSIX, handles on Windows
  Pipes,       \* the Pipe objects the program makes
  Platforms,   \* the systems to consider, of {"posix", "windows"}
  ExitCodes,   \* what a child passes to exit
  Faults,      \* what kills a child: a signal on POSIX, an exception on Windows
  Severity,    \* 2^30: the error severity of an NTSTATUS is 3 * Severity
  Threaded,    \* may a thread spawn while another one is making a pipe
  Stranger, Nobody

ASSUME PlatformsAssumption == Platforms \subseteq {"posix", "windows"}
ASSUME CodesAssumption ==
  /\ Severity \in Nat \ {0}
  /\ ExitCodes \subseteq 0 .. (4 * Severity - 1)
  /\ Faults \subseteq 1 .. 126
ASSUME NamesAssumption ==
  /\ Threaded \in BOOLEAN
  /\ Stranger # Nobody
  /\ {Stranger, Nobody} \cap Objs = {}
  /\ Nobody \notin Ids

VARIABLES
  platform,    \* CompilationTarget
  owner,       \* the system's table: whose id this is
  life,        \* the child of an object: "unborn", "running" or "exited"
  word,        \* the status the system keeps for a child that has exited
  cause,       \* what ended the child
  pending,     \* KILL has been accepted and has not ended the child yet
  child,       \* self.child_pid, or self.handle
  status,      \* self.status: {} for None, else {the cached status}
  pc,          \* where the object is in its life
  raised,      \* the last wait of the object failed
  signalled,   \* who has been sent a signal
  pipe,        \* where a Pipe is in its life
  ends,        \* the ends the program has open
  inherit,     \* the ends a child would be given
  asked,       \* the ends the program asked to have inherited
  holds        \* the ends a child was given and still has

kernel == <<owner, life, word, cause, pending>>
object == <<child, status, pc, raised, signalled>>
pipes == <<pipe, ends, inherit, asked>>
childVars == <<platform, kernel, object, pipes, holds>>

-----------------------------------------------------------------------------
(* Statuses.  None is the empty Optional. *)

None == -1
Running == [exit_code |-> None, term_signal |-> None]
Exited(n) == [exit_code |-> n, term_signal |-> None]
Signaled(n) == [exit_code |-> None, term_signal |-> n]

HasExited(s) == s.exit_code # None \/ s.term_signal # None

KILL == 9
ErrorBase == 3 * Severity
StatusControlCExit == ErrorBase + (314 % Severity)

\* What ends a child, and the word the system keeps about it.  A fault on
\* POSIX also sets the bit that says a core was dumped.
Causes == [kind : {"exit"}, n : ExitCodes] \union [kind : {"fault"}, n : Faults]
            \union [kind : {"kill"}, n : {KILL}]

Word(p, c) ==
  IF p = "posix"
    THEN CASE c.kind = "exit"  -> 256 * (c.n % 256)
           [] c.kind = "fault" -> 128 + c.n
           [] c.kind = "kill"  -> c.n
    ELSE CASE c.kind = "exit"  -> c.n
           [] c.kind = "fault" -> ErrorBase + (c.n % Severity)
           [] c.kind = "kill"  -> StatusControlCExit

\* Process._check_status on what waitpid filled in.
CheckStatusKeepsCore(w) ==
  IF w % 256 = 0 THEN Exited((w \div 256) % 256) ELSE Signaled(w % 256)
CheckStatus(w) ==
  IF w % 128 = 0 THEN Exited((w \div 256) % 256) ELSE Signaled(w % 128)

\* The end of _windows_status, on what GetExitCodeProcess filled in.
WindowsStatus(w) == IF w \div Severity = 3 THEN Signaled(w) ELSE Exited(w)

Decode(p, w) == IF p = "posix" THEN CheckStatus(w) ELSE WindowsStatus(w)

-----------------------------------------------------------------------------
(* Pipes *)

Ends == {"in", "out"}

\* fd_pipe: POSIX pipe() leaves both ends to be inherited, _pipe is told
\* _O_NOINHERIT.
FdPipeInherits(p) == IF p = "posix" THEN Ends ELSE {}

\* fd_set_inheritable on one end.
SetInheritableOnlyOn(q, e) == IF e \in asked[q] THEN inherit[q] \union {e} ELSE inherit[q]
SetInheritable(q, e) == IF e \in asked[q] THEN inherit[q] \union {e} ELSE inherit[q] \ {e}

PipeInit(q) ==
  /\ pipe[q] = "none"
  /\ \E a \in SUBSET Ends : asked' = [asked EXCEPT ![q] = a]
  /\ pipe' = [pipe EXCEPT ![q] = "made"]
  /\ ends' = [ends EXCEPT ![q] = Ends]
  /\ inherit' = [inherit EXCEPT ![q] = FdPipeInherits(platform)]
  /\ UNCHANGED <<platform, kernel, object, holds>>

\* _set_close_on_exec on the read end, then on the write end.
PipeConfigure(q) ==
  /\ pipe[q] \in {"made", "half"}
  /\ LET e == IF pipe[q] = "made" THEN "in" ELSE "out"
     IN inherit' = [inherit EXCEPT ![q] = SetInheritable(q, e)]
  /\ pipe' = [pipe EXCEPT ![q] = IF @ = "made" THEN "half" ELSE "open"]
  /\ UNCHANGED <<platform, kernel, object, ends, asked, holds>>

PipeConfigureFailsHalf(q) ==
  /\ pipe[q] \in {"made", "half"}
  /\ pipe' = [pipe EXCEPT ![q] = "gone"]
  /\ ends' = [ends EXCEPT ![q] = {"out"}]
  /\ inherit' = [inherit EXCEPT ![q] = @ \ {"in"}]
  /\ UNCHANGED <<platform, kernel, object, asked, holds>>

\* Either call fails: both ends are closed and the constructor raises.
PipeConfigureFails(q) ==
  /\ pipe[q] \in {"made", "half"}
  /\ pipe' = [pipe EXCEPT ![q] = "gone"]
  /\ ends' = [ends EXCEPT ![q] = {}]
  /\ inherit' = [inherit EXCEPT ![q] = {}]
  /\ UNCHANGED <<platform, kernel, object, asked, holds>>

\* set_output_only closes "in", set_input_only closes "out".
PipeClose(q, e) ==
  /\ pipe[q] = "open"
  /\ e \in ends[q]
  /\ ends' = [ends EXCEPT ![q] = @ \ {e}]
  /\ inherit' = [inherit EXCEPT ![q] = @ \ {e}]
  /\ UNCHANGED <<platform, kernel, object, pipe, asked, holds>>

PipeDeinit(q) ==
  /\ pipe[q] = "open"
  /\ pipe' = [pipe EXCEPT ![q] = "gone"]
  /\ ends' = [ends EXCEPT ![q] = {}]
  /\ inherit' = [inherit EXCEPT ![q] = {}]
  /\ UNCHANGED <<platform, kernel, object, asked, holds>>

-----------------------------------------------------------------------------
(* Starting a child *)

\* What the new process is given: posix_spawnp passes down every descriptor
\* without FD_CLOEXEC, CreateProcessW is told to inherit nothing.
Inherited(p) == IF p = "posix" THEN UNION {{q} \X inherit[q] : q \in Pipes} ELSE {}

Run(o) ==
  /\ pc[o] = "none"
  /\ Threaded \/ \A q \in Pipes : pipe[q] \notin {"made", "half"}
  /\ \E i \in Ids :
       /\ owner[i] = Nobody
       /\ owner' = [owner EXCEPT ![i] = o]
       /\ child' = [child EXCEPT ![o] = i]
  /\ life' = [life EXCEPT ![o] = "running"]
  /\ pc' = [pc EXCEPT ![o] = "idle"]
  /\ holds' = [holds EXCEPT ![o] = Inherited(platform)]
  /\ UNCHANGED <<platform, word, cause, pending, status, raised, signalled, pipes>>

RunFails(o) ==
  /\ pc[o] = "none"
  /\ pc' = [pc EXCEPT ![o] = "gone"]
  /\ UNCHANGED <<platform, kernel, child, status, raised, signalled, pipes, holds>>

-----------------------------------------------------------------------------
(* _kill, for hangup, interrupt and kill *)

CachedExit(o) == \E s \in status[o] : HasExited(s)

\* kill(2) and TerminateProcess act on whoever has the id now.  A child that
\* has exited and has not been waited for takes a signal without effect, and
\* refuses TerminateProcess.
SendTo(o, sig) ==
  /\ signalled' = signalled \union {owner[child[o]]}
  /\ pending' = [pending EXCEPT ![o] = @ \/ (sig = KILL /\ life[o] = "running")]
  /\ UNCHANGED <<platform, owner, life, word, cause, child, status, pc, raised, pipes, holds>>

\* Windows answers False to hangup and interrupt.
KillUnchecked(o, sig) ==
  /\ pc[o] = "idle"
  /\ platform = "windows" => sig = KILL
  /\ SendTo(o, sig)
Kill(o, sig) ==
  /\ pc[o] = "idle"
  /\ ~ CachedExit(o)
  /\ platform = "windows" => sig = KILL
  /\ SendTo(o, sig)

-----------------------------------------------------------------------------
(* poll, wait and __deinit__ *)

\* waitpid and WaitForSingleObject answer for the child only while the id is
\* its own; for any other id waitpid fails with ECHILD.
Known(o) == owner[child[o]] = o

\* The id after a wait that found the child dead: waitpid releases the pid, a
\* handle stays open.
AfterWait(o) == IF platform = "posix" THEN [owner EXCEPT ![child[o]] = Nobody] ELSE owner

\* What the wait calls find out, and what poll and wait keep of it.
Result(o) == IF life[o] = "exited" THEN Decode(platform, word[o]) ELSE Running
Cache(o) == IF HasExited(Result(o)) THEN {Result(o)} ELSE status[o]

\* A cached status is returned as it is, and changes nothing.
Poll(o) ==
  /\ pc[o] = "idle"
  /\ status[o] = {}
  /\ Known(o)
  /\ status' = [status EXCEPT ![o] = Cache(o)]
  /\ owner' = IF life[o] = "exited" THEN AfterWait(o) ELSE owner
  /\ UNCHANGED <<platform, life, word, cause, pending, child, pc, raised, signalled, pipes, holds>>

\* wait blocks unless the status is cached.
WaitStart(o) ==
  /\ pc[o] = "idle"
  /\ status[o] = {}
  /\ pc' = [pc EXCEPT ![o] = "wait"]
  /\ UNCHANGED <<platform, kernel, child, status, raised, signalled, pipes, holds>>

WaitReturns(o) ==
  /\ pc[o] = "wait"
  /\ Known(o)
  /\ life[o] = "exited"
  /\ status' = [status EXCEPT ![o] = Cache(o)]
  /\ raised' = [raised EXCEPT ![o] = ~ HasExited(Result(o))]
  /\ owner' = AfterWait(o)
  /\ pc' = [pc EXCEPT ![o] = "idle"]
  /\ UNCHANGED <<platform, life, word, cause, pending, child, signalled, pipes, holds>>

\* A blocking waitpid fails because a signal handler of the program ran
\* (EINTR): wait raises and caches nothing.
WaitFails(o) ==
  /\ pc[o] = "wait"
  /\ platform = "posix"
  /\ pc' = [pc EXCEPT ![o] = "idle"]
  /\ raised' = [raised EXCEPT ![o] = TRUE]
  /\ UNCHANGED <<platform, kernel, child, status, signalled, pipes, holds>>

\* __deinit__ calls wait; nothing else can be done with the object any more.
DeinitStart(o) ==
  /\ pc[o] = "idle"
  /\ status[o] = {}
  /\ pc' = [pc EXCEPT ![o] = "deinit"]
  /\ UNCHANGED <<platform, kernel, child, status, raised, signalled, pipes, holds>>

\* After the wait, __deinit__ closes the handle, on Windows.
CloseHandleIfCached(o) ==
  IF platform = "windows" /\ CachedExit(o) THEN [owner EXCEPT ![child[o]] = Nobody] ELSE AfterWait(o)
CloseHandle(o) ==
  IF platform = "windows" THEN [owner EXCEPT ![child[o]] = Nobody] ELSE AfterWait(o)

DeinitReturns(o) ==
  /\ pc[o] = "deinit"
  /\ Known(o)
  /\ life[o] = "exited"
  /\ owner' = CloseHandle(o)
  /\ pc' = [pc EXCEPT ![o] = "gone"]
  /\ raised' = [raised EXCEPT ![o] = FALSE]
  /\ UNCHANGED <<platform, life, word, cause, pending, child, status, signalled, pipes, holds>>

\* The status is cached: wait returns it, and only a handle is left to close.
DeinitCached(o) ==
  /\ pc[o] = "idle"
  /\ status[o] # {}
  /\ owner' = IF platform = "windows" THEN CloseHandle(o) ELSE owner
  /\ pc' = [pc EXCEPT ![o] = "gone"]
  /\ raised' = [raised EXCEPT ![o] = FALSE]
  /\ UNCHANGED <<platform, life, word, cause, pending, child, status, signalled, pipes, holds>>

\* The wait of __deinit__ fails with EINTR and the error is dropped.
DeinitFails(o) ==
  /\ pc[o] = "deinit"
  /\ platform = "posix"
  /\ pc' = [pc EXCEPT ![o] = "gone"]
  /\ raised' = [raised EXCEPT ![o] = TRUE]
  /\ UNCHANGED <<platform, kernel, child, status, signalled, pipes, holds>>

-----------------------------------------------------------------------------
(* The children and the rest of the system *)

\* A child that TerminateProcess has been called for ends of nothing else.
ChildEnds(o, c) ==
  /\ life[o] = "running"
  /\ c.kind = "kill" => pending[o]
  /\ platform = "windows" /\ pending[o] => c.kind = "kill"
  /\ life' = [life EXCEPT ![o] = "exited"]
  /\ cause' = [cause EXCEPT ![o] = c]
  /\ word' = [word EXCEPT ![o] = Word(platform, c)]
  /\ holds' = [holds EXCEPT ![o] = {}]
  /\ UNCHANGED <<platform, owner, pending, object, pipes>>

\* Ids are given to other processes, and given back.
StrangerTakes(i) ==
  /\ owner[i] = Nobody
  /\ owner' = [owner EXCEPT ![i] = Stranger]
  /\ UNCHANGED <<platform, life, word, cause, pending, object, pipes, holds>>
StrangerLeaves(i) ==
  /\ owner[i] = Stranger
  /\ owner' = [owner EXCEPT ![i] = Nobody]
  /\ UNCHANGED <<platform, life, word, cause, pending, object, pipes, holds>>

-----------------------------------------------------------------------------

Unset == [kind |-> "exit", n |-> None]

ChildInit ==
  /\ platform \in Platforms
  /\ owner = [i \in Ids |-> Nobody]
  /\ life = [o \in Objs |-> "unborn"]
  /\ word = [o \in Objs |-> None]
  /\ cause = [o \in Objs |-> Unset]
  /\ pending = [o \in Objs |-> FALSE]
  /\ child = [o \in Objs |-> Nobody]
  /\ status = [o \in Objs |-> {}]
  /\ pc = [o \in Objs |-> "none"]
  /\ raised = [o \in Objs |-> FALSE]
  /\ signalled = {}
  /\ pipe = [q \in Pipes |-> "none"]
  /\ ends = [q \in Pipes |-> {}]
  /\ inherit = [q \in Pipes |-> {}]
  /\ asked = [q \in Pipes |-> {}]
  /\ holds = [o \in Objs |-> {}]

\* SignalCodes: HUP, INT and KILL.
Signals == {1, 2, KILL}

ObjectStep(o) ==
  \/ Run(o) \/ RunFails(o)
  \/ \E sig \in Signals : Kill(o, sig)
  \/ Poll(o)
  \/ WaitStart(o) \/ WaitReturns(o) \/ WaitFails(o)
  \/ DeinitStart(o) \/ DeinitReturns(o) \/ DeinitCached(o) \/ DeinitFails(o)

PipeStep(q) ==
  \/ PipeInit(q) \/ PipeConfigure(q) \/ PipeConfigureFails(q)
  \/ \E e \in Ends : PipeClose(q, e)
  \/ PipeDeinit(q)

ChildNext ==
  \/ \E o \in Objs : ObjectStep(o)
  \/ \E o \in Objs, c \in Causes : ChildEnds(o, c)
  \/ \E q \in Pipes : PipeStep(q)
  \/ \E i \in Ids : StrangerTakes(i) \/ StrangerLeaves(i)

ChildSpec == ChildInit /\ [][ChildNext]_childVars

-----------------------------------------------------------------------------
(* Properties *)

\* A cached status is one of a process that has ended, in one way.
Statuses == [exit_code : Nat, term_signal : {None}]
              \union [exit_code : {None}, term_signal : Nat]

\* The variables have their types.
ChildTypeOK ==
  /\ platform \in Platforms
  /\ owner \in [Ids -> Objs \union {Stranger, Nobody}]
  /\ life \in [Objs -> {"unborn", "running", "exited"}]
  /\ word \in [Objs -> Int]
  /\ cause \in [Objs -> Causes \union {Unset}]
  /\ pending \in [Objs -> BOOLEAN]
  /\ child \in [Objs -> Ids \union {Nobody}]
  /\ status \in [Objs -> SUBSET Statuses]
  /\ pc \in [Objs -> {"none", "idle", "wait", "deinit", "gone"}]
  /\ raised \in [Objs -> BOOLEAN]
  /\ signalled \subseteq Objs \union {Stranger, Nobody}
  /\ pipe \in [Pipes -> {"none", "made", "half", "open", "gone"}]
  /\ ends \in [Pipes -> SUBSET Ends]
  /\ inherit \in [Pipes -> SUBSET Ends]
  /\ asked \in [Pipes -> SUBSET Ends]
  /\ holds \in [Objs -> SUBSET (Pipes \X Ends)]

\* hangup, interrupt and kill only ever reach a child of this program: not a
\* process that was given the pid, and not an object that was given the handle,
\* after the child was waited for ("its pid could be reused").
SignalsOnlyChildren == signalled \subseteq Objs

\* The status poll and wait keep is what ended the child: its exit code, or
\* the signal that killed it.  On Windows a fault and kill() are reported as a
\* signal, as is an exit code of error severity (the gap _windows_status
\* documents); a code such as 259, STILL_ACTIVE, is an exit like any other.
Meaning(p, c) ==
  IF p = "posix"
    THEN IF c.kind = "exit" THEN Exited(c.n % 256) ELSE Signaled(c.n)
    ELSE IF c.kind = "exit" /\ c.n < ErrorBase THEN Exited(c.n) ELSE Signaled(Word(p, c))
StatusTrue ==
  \A o \in Objs : \A s \in status[o] :
    life[o] = "exited" /\ s = Meaning(platform, cause[o])

\* An id is held for a child exactly as long as somebody may need it: from
\* the spawn to the wait on POSIX, to the end of the object on Windows.  An
\* object that is gone leaves no zombie and no open handle behind, unless the
\* waitpid of its __deinit__ failed.
Owns(o) ==
  /\ pc[o] \in {"idle", "wait", "deinit"}
  /\ platform = "windows" \/ status[o] = {}
IdsReleased ==
  \A i \in Ids, o \in Objs :
    owner[i] = o <=> \/ Owns(o) /\ child[o] = i
                     \/ pc[o] = "gone" /\ raised[o] /\ child[o] = i

\* No descriptor of a pipe outlives it, and only open ends are inherited.
PipeReleased ==
  \A q \in Pipes :
    /\ pipe[q] \in {"none", "gone"} => ends[q] = {}
    /\ inherit[q] \subseteq ends[q]

\* A child is given an end of a pipe only if the program asked for that end
\* not to be closed on exec; otherwise the reader of the pipe never sees its
\* end as long as the child lives.
InheritsOnlyAsked ==
  \A o \in Objs, q \in Pipes, e \in Ends : <<q, e>> \in holds[o] => e \in asked[q]
=============================================================================
