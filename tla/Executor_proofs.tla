--------------------------- MODULE Executor_proofs ---------------------------
(***************************************************************************)
(* What one command leaves behind, for any number of plugins and whatever  *)
(* fails, dies or panics: the processes of its plugins and its lock file.  *)
(***************************************************************************)
EXTENDS Executor, TLAPS

\* Plugins are numbers, and the place of the secrets plugin is one of them or none.
LEMMA Numbers == N \in Nat /\ Plugins \subseteq Nat /\ SecretsPlugin \in Plugins \cup {0}
  BY ExecutorAssumption DEF Plugins

\* The steps that load and reload the project.
Loads == Preload \/ Find \/ FindFails \/ GetSecrets \/ GetSecretsFails \/ Reload \/ ReloadFails

\* The steps between the command and the clean-up.
Finishes == RunEnds \/ Panics \/ SaveLock \/ SaveLockFails

\* The steps of the clean-up.
Cleans == StopNothing \/ Stop \/ Waited \/ WaitFails \/ AllStopped \/ StopServer

\* The steps of the calls, the processes and the users of one plugin.
Serves(p) ==
    \/ Call(p) \/ CallDetached(p) \/ Connect(p) \/ Start(p) \/ Answer(p) \/ CallFails(p)
    \/ Die(p) \/ Prompt(p) \/ Reply(p) \/ Terminates(p)

-----------------------------------------------------------------------------
(* The inductive invariant *)

\* Loading a project starts no process; a command that needs it loads it or ends.
LEMMA LoadStep == IInv /\ Loads => IInv'
<1> SUFFICES ASSUME IInv, Loads PROVE IInv'
  OBVIOUS
<1> USE DEF IInv, TypeOK, Goto, PreRunFails, project, plugins, cleanup
<1>1. /\ UNCHANGED <<cmd, lock, client, call, failed, proc, prompt, next, waiting, again, temper,
                    canceled>>
      /\ pc \in {"preload", "find", "secrets", "reload"}
      /\ pc' \in {"find", "secrets", "reload", "run", "exit"}
      /\ cfg' \in {"none", "bare", "loaded"} /\ err' \in BOOLEAN /\ reason' \in {reason, "prerun"}
  BY DEF Loads, Preload, Find, FindFails, GetSecrets, GetSecretsFails, Reload, ReloadFails
<1>2. TypeOK'
  BY <1>1
<1>3. \A p \in Plugins : call[p] \notin Open \/ pc' \in {"secrets", "run"}
  BY <1>1 DEF Loads, Preload, Find, FindFails, GetSecrets, GetSecretsFails, Reload, ReloadFails,
     CallsInRun, NotYetUsed, Open
<1>4. NoBrokenCall'
  BY <1>1 DEF NoBrokenCall
<1>5. cfg = "loaded" => cfg' = "loaded" \/ pc = "preload"
  BY DEF Loads, Preload, Find, FindFails, GetSecrets, GetSecretsFails, Reload, ReloadFails
<1>6. CallsInRun'
  BY <1>1, <1>3, <1>5 DEF CallsInRun, NotYetUsed, Usable
<1>7. Loaded'
  BY <1>1 DEF Loaded, Loads, Preload, Find, FindFails, GetSecrets, GetSecretsFails, Reload,
     ReloadFails, SkipsProject, CommandKinds
<1>8. NotYetUsed'
  BY <1>1 DEF NotYetUsed, Loads, Preload, Find, FindFails, GetSecrets, GetSecretsFails, Reload,
     ReloadFails
<1>9. Cleaning'
  BY <1>1 DEF Cleaning, CallsInRun
<1> QED
  BY <1>2, <1>4, <1>6, <1>7, <1>8, <1>9

\* The command ends without a call under way, or the program does with all of them.
LEMMA FinishStep == IInv /\ Finishes => IInv'
<1> SUFFICES ASSUME IInv, Finishes PROVE IInv'
  OBVIOUS
<1> USE DEF IInv, TypeOK, Goto, project, plugins, cleanup
<1>1. /\ UNCHANGED <<cmd, cfg, err, client, failed, proc, prompt, next, waiting, temper, canceled>>
      /\ pc \in {"run", "post"} /\ pc' \in {"post", "clean", "exit"}
      /\ lock' \subseteq Plugins /\ again' \in BOOLEAN /\ reason' \in {reason, "panic"}
      /\ pc' = "post" => UNCHANGED again
  <2>1. CASE RunEnds
    BY <2>1 DEF RunEnds
  <2>2. CASE Panics
    BY <2>2 DEF Panics
  <2>3. CASE SaveLock
    BY <2>3 DEF SaveLock
  <2>4. CASE SaveLockFails
    BY <2>4 DEF SaveLockFails
  <2> QED
    BY <2>1, <2>2, <2>3, <2>4 DEF Finishes
<1>2. /\ call' \in [Plugins -> Open \cup {"none", "ok", "failed"}]
      /\ \A p \in Plugins : /\ call'[p] \notin Open
                            /\ call'[p] = call[p] \/ (call[p] \in Open /\ call'[p] = "failed")
  BY DEF Finishes, RunEnds, Panics, SaveLock, SaveLockFails, CallsInRun, Open
<1>3. TypeOK'
  BY <1>1, <1>2
<1>4. NoBrokenCall' /\ NotYetUsed'
  BY <1>1, <1>2 DEF NoBrokenCall, NotYetUsed
<1>5. CallsInRun'
  BY <1>1, <1>2 DEF CallsInRun, Usable, Open
<1>6. Loaded'
  BY <1>1 DEF Loaded, SkipsProject
<1>7. Cleaning'
  BY <1>1, Numbers DEF Cleaning, CallsInRun, Plugins
<1> QED
  BY <1>3, <1>4, <1>5, <1>6, <1>7

\* The clean-up goes from plugin to plugin, twice if saving the lock file failed.
LEMMA CleanStep == IInv /\ Cleans => IInv'
<1> SUFFICES ASSUME IInv, Cleans PROVE IInv'
  OBVIOUS
<1> USE DEF IInv, TypeOK, Goto, CleanedUp, project, plugins, cleanup
<1>1. /\ UNCHANGED <<cmd, cfg, err, lock, call, failed, proc, prompt, temper, canceled>>
      /\ pc \in {"clean", "server"} /\ pc' \in {"clean", "server", "exit"}
      /\ waiting' \in BOOLEAN /\ again' \in BOOLEAN /\ reason' \in {reason, "stop", "none"}
      /\ client' = client \/ (client' = [client EXCEPT ![next] = "stopped"] /\ Stop)
  BY DEF Cleans, StopNothing, Stop, Waited, WaitFails, AllStopped, StopServer
<1>2. next' \in 1..(N + 1)
  BY Numbers DEF Cleans, StopNothing, Stop, Waited, WaitFails, AllStopped, StopServer, Cleaning
<1>3. TypeOK'
  BY <1>1, <1>2
<1>4. NoBrokenCall' /\ NotYetUsed'
  BY <1>1 DEF NoBrokenCall, NotYetUsed, CallsInRun
<1>5. CallsInRun'
  BY <1>1 DEF CallsInRun, Usable, Open
<1>6. Loaded'
  BY <1>1 DEF Loaded, SkipsProject
<1>7. Cleaning'
  <2>1. CASE StopNothing
    BY <2>1, Numbers DEF StopNothing, Cleaning, Known, CallsInRun, Usable, Plugins, Dead
  <2>2. CASE Stop
    BY <2>2, Numbers DEF Stop, Cleaning, Plugins
  <2>3. CASE Waited
    BY <2>3, Numbers DEF Waited, Cleaning, Plugins, Dead
  <2>4. CASE WaitFails
    BY <2>4, Numbers DEF WaitFails, Cleaning, Plugins, Dead
  <2>5. CASE AllStopped
    BY <2>5, Numbers DEF AllStopped, Cleaning, Plugins
  <2>6. CASE StopServer
    BY <2>6, Numbers DEF StopServer, Cleaning, Plugins
  <2> QED
    BY <2>1, <2>2, <2>3, <2>4, <2>5, <2>6 DEF Cleans
<1> QED
  BY <1>3, <1>4, <1>5, <1>6, <1>7

\* A call starts a process at most once, and never on a client that is broken.
LEMMA ServeStep == ASSUME IInv, NEW p \in Plugins, Serves(p) PROVE IInv'
<1> USE DEF IInv, TypeOK, Fail, project, plugins, cleanup
<1>1. UNCHANGED <<cmd, pc, cfg, err, lock, temper, canceled, next, waiting, again, reason>>
  BY DEF Serves, Call, CallDetached, Connect, Spawn, SpawnFails, Handshake, HandshakeFails, Start, Answer,
     CallFails, Die, Prompt, Reply, Terminates
<1>2. Loaded'
  BY <1>1 DEF Loaded, SkipsProject
<1>3. CASE Call(p) \/ CallDetached(p)
  <2>1. /\ UNCHANGED <<client, failed, proc, prompt>>
        /\ \/ call' = [call EXCEPT ![p] = "active"]
           \/ call' = [call EXCEPT ![p] = "detached"] /\ client[p] = "started"
        /\ pc \in {"secrets", "run"} /\ (call[p] = "failed" => client[p] = "started") /\ Usable(p)
        /\ pc = "secrets" => p = SecretsPlugin
    BY <1>3 DEF Call, CallDetached, MayCall, Loaded, Usable
  <2> QED
    BY <1>1, <1>2, <2>1 DEF NoBrokenCall, CallsInRun, NotYetUsed, Cleaning, Usable, Open
<1>4. CASE Spawn(p)
  BY <1>1, <1>2, <1>4 DEF Spawn, NoBrokenCall, CallsInRun, NotYetUsed, Cleaning, Usable, Dead, Open
<1>5. CASE SpawnFails(p) \/ HandshakeFails(p) \/ CallFails(p)
  <2>1. /\ UNCHANGED <<proc, prompt>> /\ call[p] \in Open /\ failed' \in BOOLEAN
        /\ call' = [call EXCEPT ![p] = "failed"]
        /\ client[p] \notin {"broken", "stopped"}
        /\ \E c \in {"started", "broken"} :
              client' = [client EXCEPT ![p] = c] /\ (c = "started" => client[p] = "started")
    BY <1>5 DEF SpawnFails, HandshakeFails, CallFails, NoBrokenCall, Open
  <2> QED
    BY <1>1, <1>2, <2>1 DEF NoBrokenCall, CallsInRun, NotYetUsed, Cleaning, Usable, Open
<1>6. CASE Handshake(p) \/ Start(p) \/ Answer(p)
  <2>1. UNCHANGED <<failed, proc, prompt>> /\ call[p] \in Open
    BY <1>6 DEF Handshake, Start, Answer, Open
  <2> QED
    BY <1>1, <1>2, <1>6, <2>1 DEF Handshake, Start, Answer, NoBrokenCall, CallsInRun, NotYetUsed,
       Cleaning, Usable, Open
<1>7. CASE Die(p) \/ Terminates(p)
  <2>1. /\ UNCHANGED <<client, call, failed, prompt>> /\ proc[p] = "up"
        /\ \E end \in Dead : proc' = [proc EXCEPT ![p] = end]
    BY <1>7 DEF Die, Terminates, Dead
  <2> QED
    BY <1>1, <1>2, <2>1 DEF NoBrokenCall, CallsInRun, NotYetUsed, Cleaning, Usable, Dead
<1>8. CASE Prompt(p) \/ Reply(p)
  <2>1. UNCHANGED <<client, call, failed, proc>> /\ prompt' \subseteq Plugins
    BY <1>8 DEF Prompt, Reply
  <2> QED
    BY <1>1, <1>2, <2>1 DEF NoBrokenCall, CallsInRun, NotYetUsed, Cleaning, Usable
<1> QED
  BY <1>3, <1>4, <1>5, <1>6, <1>7, <1>8 DEF Serves, Connect

\* The inductive invariant: which calls, processes and clients there are in each
\* phase of a command.
THEOREM Invariant == Spec => []IInv
<1>1. Init => IInv
  <2> SUFFICES ASSUME Init PROVE IInv
    OBVIOUS
  <2>1. 1 \in 1..(N + 1)
    BY Numbers
  <2>2. TypeOK
    BY <2>1 DEF Init, TypeOK
  <2> QED
    BY <2>2, Numbers DEF Init, IInv, NoBrokenCall, CallsInRun, Loaded, NotYetUsed, Cleaning, Open
<1>2. IInv /\ [Next]_vars => IInv'
  <2> SUFFICES ASSUME IInv, [Next]_vars PROVE IInv'
    OBVIOUS
  <2>1. CASE Main
    BY <2>1, LoadStep, FinishStep, CleanStep DEF Main, Loads, Finishes, Cleans
  <2>4. CASE ReloadFails \/ Panics \/ SaveLockFails
    BY <2>4, LoadStep, FinishStep DEF Loads, Finishes
  <2>2. CASE Interrupt \/ UNCHANGED vars
    <3>1. /\ UNCHANGED <<project, plugins, cleanup, pc, temper, reason>>
          /\ canceled' \in BOOLEAN
      BY <2>2 DEF Interrupt, vars, IInv, TypeOK
    <3>2. TypeOK' /\ NoBrokenCall' /\ CallsInRun'
      BY <3>1 DEF IInv, TypeOK, NoBrokenCall, CallsInRun, Usable, project, plugins, cleanup
    <3>3. Loaded' /\ NotYetUsed' /\ Cleaning'
      BY <3>1 DEF IInv, Loaded, NotYetUsed, Cleaning, SkipsProject, project, plugins, cleanup
    <3> QED
      BY <3>2, <3>3 DEF IInv
  <2>3. ASSUME NEW p \in Plugins, Serves(p) PROVE IInv'
    BY <2>3, ServeStep
  <2> QED
    BY <2>1, <2>2, <2>3, <2>4 DEF Next, Serves
<1> QED
  BY <1>1, <1>2, PTL DEF Spec

-----------------------------------------------------------------------------
(* What a command leaves *)

\* At the end of a program the processes that are still up are those of LeftRunning,
\* and none ends or is started any more.
LEMMA LeftStep == IInv /\ LeftRunning /\ [Next]_vars => LeftRunning'
<1> SUFFICES ASSUME IInv, LeftRunning, [Next]_vars,
                    NEW p \in Plugins, pc' = "exit", proc'[p] = "up", cmd' # "init",
                    ~ (reason' = "prerun" /\ p = SecretsPlugin), reason' # "panic"
             PROVE  reason' = "stop" /\ \E q \in 1..(p - 1) : proc'[q] = "failed"
  BY DEF LeftRunning, Ended
<1> USE DEF IInv, TypeOK, Goto, PreRunFails, CleanedUp, project, plugins, cleanup, LeftRunning, Ended
<1>1. CASE Loads
  <2>1. /\ UNCHANGED proc /\ pc \in {"preload", "find", "secrets", "reload"}
        /\ reason' = "prerun"
    BY <1>1 DEF Loads, Preload, Find, FindFails, GetSecrets, GetSecretsFails, Reload, ReloadFails
  <2> QED
    BY <2>1 DEF NotYetUsed
<1>2. CASE Finishes
  BY <1>2 DEF Finishes, RunEnds, Panics, SaveLock, SaveLockFails
<1>3. CASE WaitFails
  <2>1. /\ UNCHANGED <<proc, cmd>> /\ reason' = "stop" /\ pc = "clean"
        /\ waiting = TRUE /\ proc[next] = "failed"
    BY <1>3 DEF WaitFails
  <2>2. next \in Plugins /\ p # next /\ ~ (p < next)
    BY <2>1, Numbers DEF Cleaning, Plugins
  <2>3. next \in 1..(p - 1)
    BY <2>2, Numbers DEF Plugins
  <2> QED
    BY <2>1, <2>3
<1>4. CASE StopServer
  <2>1. /\ UNCHANGED <<proc, cmd>> /\ pc = "server"
    BY <1>4 DEF StopServer
  <2>2. p < next
    BY <2>1, Numbers DEF Cleaning, Plugins
  <2> QED
    BY <2>1, <2>2 DEF Cleaning
<1>5. CASE StopNothing \/ Stop \/ Waited \/ AllStopped
  BY <1>5 DEF StopNothing, Stop, Waited, AllStopped
<1>6. ASSUME NEW q \in Plugins, Serves(q)
      PROVE  reason' = "stop" /\ \E r \in 1..(p - 1) : proc'[r] = "failed"
  <2>1. UNCHANGED <<cmd, pc, reason>>
    BY <1>6 DEF Serves, Call, CallDetached, Connect, Spawn, SpawnFails, Handshake, HandshakeFails, Start, Answer,
       CallFails, Fail, Die, Prompt, Reply, Terminates
  <2>2. UNCHANGED proc
    <3>1. call[q] \notin Open /\ ~waiting
      BY <2>1 DEF CallsInRun, Cleaning
    <3> QED
      BY <1>6, <2>1, <3>1 DEF Serves, Call, CallDetached, Connect, Spawn, SpawnFails, Handshake, HandshakeFails,
         Start, Answer, CallFails, Fail, Die, Prompt, Reply, Terminates, Open
  <2> QED
    BY <2>1, <2>2
<1>7. CASE Interrupt \/ UNCHANGED vars
  BY <1>7 DEF Interrupt, vars
<1> QED
  BY <1>1, <1>2, <1>3, <1>4, <1>5, <1>6, <1>7 DEF Next, Main, Loads, Finishes, Serves

\* A plugin's process outlives the program only after `init', after a failure
\* before the command, after a panic, or behind a plugin that did not end well.
THEOREM ProcessesEnd == Spec => []LeftRunning
<1>1. Init => LeftRunning
  BY DEF Init, LeftRunning, Ended
<1>2. IInv /\ LeftRunning /\ [Next]_vars => LeftRunning'
  BY LeftStep
<1> QED
  BY <1>1, <1>2, Invariant, PTL DEF Spec

\* A plugin leaves the lock file only with a command that needs no project, after
\* the plugins could not be loaded.
THEOREM LockFileKept == Spec => LockKept
<1> DEFINE Keeps == lock \subseteq lock' \/ (SkipsProject(cmd) /\ cfg = "bare" /\ lock' = {})
<1>1. IInv /\ [Next]_vars => [Keeps]_vars
  <2> SUFFICES ASSUME IInv, Next PROVE Keeps
    OBVIOUS
  <2> USE DEF IInv, TypeOK, Goto, project, plugins, cleanup
  <2>1. CASE SaveLock
    <3>1. SkipsProject(cmd) \/ cfg = "loaded"
      BY <2>1 DEF SaveLock, Loaded
    <3>2. lock' = IF cfg = "none" THEN lock ELSE IF cfg = "loaded" THEN Plugins ELSE {}
      BY <2>1 DEF SaveLock
    <3> QED
      BY <3>1, <3>2
  <2>2. CASE ~SaveLock
    <3>1. CASE Main \/ ReloadFails \/ Panics \/ SaveLockFails \/ Interrupt
      BY <2>2, <3>1 DEF Main, Preload, Find, FindFails, GetSecrets, GetSecretsFails, Reload,
         ReloadFails, PreRunFails, RunEnds, Panics, SaveLockFails, StopNothing, Stop, Waited,
         WaitFails, AllStopped, StopServer, CleanedUp, Interrupt
    <3>2. ASSUME NEW p \in Plugins, Serves(p) PROVE Keeps
      BY <3>2 DEF Serves, Call, CallDetached, Connect, Spawn, SpawnFails, Handshake, HandshakeFails,
         Fail, Start, Answer, CallFails, Die, Prompt, Reply, Terminates
    <3> QED
      BY <3>1, <3>2 DEF Next, Serves
  <2> QED
    BY <2>1, <2>2
<1> QED
  BY <1>1, Invariant, PTL DEF Spec, LockKept, Keeps
=============================================================================
