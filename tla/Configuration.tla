---------------------------- MODULE Configuration ----------------------------
(***************************************************************************)
(* The values of a configuration (Support/lib/Configuration.cpp): threads  *)
(* that open it, read it and override it while other processes write the   *)
(* file.  Opening goes through two gates that one thread passes and the    *)
(* others wait for (std::call_once): MODULAR_DEBUG, then the file.         *)
(***************************************************************************)
EXTENDS Integers, Sequences, FiniteSets

CONSTANTS Threads, Keys, Tunable, \* Tunable: the keys the program itself sets and clears
          Worlds,                 \* worlds: [debug, env, runfiles, old, new]
          MaxChanges              \* values set or cleared at run time, one bound for all threads

None == "none"

ASSUME ConfigAssumption ==
  /\ MaxChanges \in Nat /\ None \notin Keys
  /\ \A w \in Worlds : /\ w.debug \in Seq(STRING) /\ {w.env, w.runfiles} \subseteq [Keys -> STRING]
                        /\ {w.old, w.new} \subseteq [ok : BOOLEAN, kv : [Keys -> STRING]]

VARIABLES world,      \* MODULAR_DEBUG as tokens, MODULAR_<KEY>, the runfiles, the file before and after a write
          file,       \* "old", "half" while another process writes it under its lock, "new"
          overrides, cachedKV,
          parseFlag, initFlag,  \* the gates: [by, at]; at: "closed", "running", "open"
          left,       \* the settings MODULAR_DEBUG still has to make
          initError,
          pc, cfg,    \* the threads and the Config each holds
          call,       \* the key a thread is reading
          during,     \* the values that were the right answer since the call began
          answer,     \* the last call answered: [key, value, right]
          clean,      \* keys whose value this Config has not copied from elsewhere
          set, changes  \* keys overridden or cleared at run time, and how often

configVars == <<world, file, overrides, cachedKV, parseFlag, initFlag, left, initError, pc, cfg, call, during, answer, clean, set, changes>>
Empty == [k \in Keys |-> None]
Closed == [by |-> None, at |-> "closed"]
NoAnswer == [key |-> None, value |-> None, right |-> {}]
-----------------------------------------------------------------------------
\* sensible is a bundle; a token that is not known is dropped.
Settings(token) ==
  CASE token = "sensible" -> <<<<"nan-check", "true">>, <<"assert-level", "all">>>>
    [] token = "nan-check" -> <<<<"nan-check", "true">>>>
    [] token = "assert-level=warn" -> <<<<"assert-level", "warn">>>>
    [] OTHER -> <<>>
DebugSettings(tokens) ==
  LET all[n \in 0..Len(tokens)] == IF n = 0 THEN <<>> ELSE all[n - 1] \o Settings(tokens[n]) IN all[Len(tokens)]

\* What can be read: a file that parses or not, and while it is written a part.
InFile == CASE file = "old" -> {world.old} [] file = "new" -> {world.new}
            [] OTHER -> {[world.new EXCEPT !.kv[k] = None] : k \in Keys} \cup {[world.new EXCEPT !.ok = FALSE]}

First(s) == LET some == {i \in 1..Len(s) : s[i] # None} IN IF some = {} THEN None ELSE s[CHOOSE i \in some : \A j \in some : i <= j]
\* The answer at this moment of an untouched Config; kv is the file's map.
Effective(k, kv) == First(<<overrides[k], world.env[k], world.runfiles[k], kv[k]>>)
Watched(o) == [t \in Threads |-> IF call[t] = None THEN {}
                                 ELSE during[t] \cup {First(<<o[call[t]], world.env[call[t]], world.runfiles[call[t]], cachedKV[call[t]]>>)}]
-----------------------------------------------------------------------------
open(t) ==
  /\ pc[t] = "idle"
  /\ pc' = [pc EXCEPT ![t] = "parse"]
  /\ UNCHANGED <<world, file, overrides, cachedKV, parseFlag, initFlag, left, initError, cfg, call, during, answer, clean, set, changes>>

\* call_once: the first runs, the others go on when it is done.
Passes(flag) == flag.at = "open"

parseModularDebugEnv(t) ==
  /\ pc[t] = "parse"
  /\ \/ parseFlag.at = "closed" /\ parseFlag' = [by |-> t, at |-> "running"] /\ UNCHANGED <<overrides, left, during, pc>>
     \/ /\ parseFlag = [by |-> t, at |-> "running"]
        /\ IF left = <<>> THEN parseFlag' = [by |-> None, at |-> "open"] /\ UNCHANGED <<overrides, left, during>>
           ELSE /\ overrides' = [overrides EXCEPT ![Head(left)[1]] = Head(left)[2]]
                /\ left' = Tail(left) /\ during' = Watched(overrides') /\ UNCHANGED parseFlag
        /\ UNCHANGED pc
     \/ /\ Passes(parseFlag) /\ pc' = [pc EXCEPT ![t] = "init"]
        /\ UNCHANGED <<parseFlag, overrides, left, during>>
  /\ UNCHANGED <<world, file, cachedKV, initFlag, initError, cfg, call, answer, clean, set, changes>>

\* Read under the lock file when the folder is writable; a process that waited
\* for that lock goes on without it (LockedFile), so a half is read either way.
parseFrom(content) ==
  IF content.ok THEN cachedKV' = content.kv /\ UNCHANGED initError
  ELSE initError' = TRUE /\ UNCHANGED cachedKV

InitFromFile(t) ==
  /\ pc[t] = "init"
  /\ \/ initFlag.at = "closed" /\ initFlag' = [by |-> t, at |-> "running"] /\ UNCHANGED <<cachedKV, initError, pc, cfg, clean>>
     \/ /\ initFlag = [by |-> t, at |-> "running"]
        /\ \E content \in InFile : parseFrom(content)
        /\ initFlag' = [by |-> None, at |-> "open"] /\ UNCHANGED <<pc, cfg, clean>>
     \/ /\ Passes(initFlag)
        /\ IF initError THEN pc' = [pc EXCEPT ![t] = "error"] /\ UNCHANGED <<cfg, clean>>
           ELSE /\ pc' = [pc EXCEPT ![t] = "ready"]
                /\ cfg' = [cfg EXCEPT ![t] = cachedKV] /\ clean' = [clean EXCEPT ![t] = Keys]
        /\ UNCHANGED <<initFlag, cachedKV, initError>>
  /\ UNCHANGED <<world, file, overrides, parseFlag, left, call, during, answer, set, changes>>
-----------------------------------------------------------------------------
getValue(t, k) ==
  /\ pc[t] = "ready"
  /\ pc' = [pc EXCEPT ![t] = "locked"] /\ call' = [call EXCEPT ![t] = k]
  /\ during' = [during EXCEPT ![t] = {Effective(k, cachedKV)}] /\ answer' = [answer EXCEPT ![t] = NoAnswer]
  /\ UNCHANGED <<world, file, overrides, cachedKV, parseFlag, initFlag, left, initError, cfg, clean, set, changes>>

\* What a read finds becomes an entry of the Config that was asked.
Answers(t, v, copied) ==
  /\ cfg' = [cfg EXCEPT ![t][call[t]] = v]
  /\ answer' = [answer EXCEPT ![t] = [key |-> call[t], value |-> v,
                                      right |-> during[t] \cup (IF call[t] \in clean[t] THEN {} ELSE {cfg[t][call[t]]})]]
  /\ clean' = [clean EXCEPT ![t] = IF copied THEN @ \ {call[t]} ELSE @]
  /\ call' = [call EXCEPT ![t] = None] /\ during' = [during EXCEPT ![t] = {}]
  /\ pc' = [pc EXCEPT ![t] = "ready"]
  /\ UNCHANGED <<world, file, overrides, cachedKV, parseFlag, initFlag, left, initError, set, changes>>

\* First the overrides, under their mutex ...
OverrideUnlessEnv(k) == IF world.env[k] = None THEN overrides[k] ELSE None
OverrideOf(k) == overrides[k]
maybeGetValue(t) ==
  /\ pc[t] = "locked"
  /\ IF OverrideOf(call[t]) # None THEN Answers(t, OverrideOf(call[t]), TRUE)
     ELSE /\ pc' = [pc EXCEPT ![t] = "unlocked"]
          /\ UNCHANGED <<world, file, overrides, cachedKV, parseFlag, initFlag, left, initError, cfg, call, during, answer, clean, set, changes>>
\* ... then, after it is released, the environment, the runfiles and this Config.
FromElsewhere(t) ==
  /\ pc[t] = "unlocked"
  /\ LET v == First(<<world.env[call[t]], world.runfiles[call[t]], cfg[t][call[t]]>>) IN Answers(t, v, FALSE)

setGlobalValue(t, k, v) ==
  /\ pc[t] \in {"idle", "ready"} /\ changes < MaxChanges
  /\ overrides' = [overrides EXCEPT ![k] = v] /\ during' = Watched(overrides')
  /\ set' = set \cup {k} /\ changes' = changes + 1
  /\ UNCHANGED <<world, file, cachedKV, parseFlag, initFlag, left, initError, pc, cfg, call, answer, clean>>
unsetGlobalValue(t, k) == overrides[k] # None /\ setGlobalValue(t, k, None)

setValue(t, k, v) ==
  /\ pc[t] = "ready" /\ changes < MaxChanges /\ changes' = changes + 1
  /\ cfg' = [cfg EXCEPT ![t][k] = v] /\ clean' = [clean EXCEPT ![t] = @ \ {k}]
  /\ UNCHANGED <<world, file, overrides, cachedKV, parseFlag, initFlag, left, initError, pc, call, during, answer, set>>

\* The Config goes out of scope.
Close(t) ==
  /\ pc[t] \in {"ready", "error"}
  /\ pc' = [pc EXCEPT ![t] = "idle"]
  /\ cfg' = [cfg EXCEPT ![t] = Empty] /\ clean' = [clean EXCEPT ![t] = {}] /\ answer' = [answer EXCEPT ![t] = NoAnswer]
  /\ UNCHANGED <<world, file, overrides, cachedKV, parseFlag, initFlag, left, initError, call, during, set, changes>>

\* Another process replaces the file under its lock; once read it is cached.
WriteFile ==
  /\ ~Passes(initFlag)
  /\ file' = (CASE file = "old" -> "half" [] OTHER -> "new") /\ file # "new"
  /\ UNCHANGED <<world, overrides, cachedKV, parseFlag, initFlag, left, initError, pc, cfg, call, during, answer, clean, set, changes>>

ConfigInit ==
  /\ world \in Worlds /\ file = "old" /\ overrides = Empty /\ cachedKV = Empty
  /\ parseFlag = Closed /\ initFlag = Closed /\ left = DebugSettings(world.debug) /\ initError = FALSE
  /\ pc = [t \in Threads |-> "idle"] /\ cfg = [t \in Threads |-> Empty] /\ call = [t \in Threads |-> None]
  /\ during = [t \in Threads |-> {}] /\ answer = [t \in Threads |-> NoAnswer] /\ clean = [t \in Threads |-> {}]
  /\ set = {} /\ changes = 0

ConfigStep(t) ==
  \/ open(t) \/ parseModularDebugEnv(t) \/ InitFromFile(t) \/ maybeGetValue(t) \/ FromElsewhere(t) \/ Close(t)
  \/ \E k \in Keys : getValue(t, k)
  \/ \E k \in Tunable : setGlobalValue(t, k, "runtime") \/ unsetGlobalValue(t, k) \/ setValue(t, k, "local")
ConfigNext == WriteFile \/ \E t \in Threads : ConfigStep(t)
ConfigSafe == ConfigInit /\ [][ConfigNext]_configVars
-----------------------------------------------------------------------------
DebugValue(k) == LET s == DebugSettings(world.debug)
                     hits == {i \in 1..Len(s) : s[i][1] = k}
                 IN IF hits = {} THEN None ELSE s[CHOOSE i \in hits : \A j \in hits : j <= i][2]
DebugSeen(t, k) == k \notin set /\ DebugValue(k) # None => answer[t].value = DebugValue(k)

(* A read returns what was the right answer (override, environment, runfile,
   file) at some moment between the call and the return, although the lock on
   the overrides is released half way.  A Config that was given a value, or has
   copied an override, may also return that.  And whoever has a Config from
   open() sees all of MODULAR_DEBUG, the last token for a key, even when two
   threads open for the first time together: a read of such a key that nobody
   changed at run time is what MODULAR_DEBUG says.                           *)
ReadsExplained ==
  \A t \in Threads : answer[t].key # None => answer[t].value \in answer[t].right /\ DebugSeen(t, answer[t].key)
=============================================================================
