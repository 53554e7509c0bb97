------------------------------ MODULE Executor ------------------------------
(***************************************************************************)
(* The life of one `ok' command: Executor.Execute of cmd/executor.go, which *)
(* loads the project twice around the secrets, runs the command, saves the *)
(* lock file and cleans up, with the processes of the plugins that the     *)
(* clients of pkg/plugins/client start and stop, and the host server of    *)
(* pkg/server that the plugins ask for the user's input.                   *)
(***************************************************************************)
EXTENDS Integers

CONSTANTS
    N,              \* the number of plugins; they are numbered as in the project file
    SecretsPlugin,  \* the plugin that keeps the secrets, 0 if there is none
    Commands,       \* a subset of CommandKinds
    Tempers,        \* a subset of {"kind", "mute", "deaf"}
    Faults          \* a subset of FaultKinds

Plugins == 1..N

\* By their annotations: `version' (and completion) load no project, nor does
\* `init', which loads plugins of its own; `logs' loads its essential keys;
\* `deploy' (and run, status and the commands of plugins) loads secrets first.
CommandKinds == {"version", "init", "logs", "deploy"}
SkipsProject(c) == c \in {"version", "init"}

FaultKinds == {"load", "check", "call", "die", "post", "panic"}

ASSUME ExecutorAssumption ==
    /\ N \in Nat /\ SecretsPlugin \in Plugins \cup {0}
    /\ Commands \subseteq CommandKinds
    /\ Tempers \subseteq {"kind", "mute", "deaf"}
    /\ Faults \subseteq FaultKinds

VARIABLES
    cmd, pc,
    cfg,       \* e.cfg: none, its plugins are not loaded, or loaded
    err,       \* configPreloadErr
    lock,      \* the plugins in the lock file
    temper,    \* a mute plugin never shakes hands, a deaf one ignores SIGTERM
    client,    \* what sync.Once and the connection of a client have come to
    call,      \* the call of the client that is under way, or was the last
    failed,    \* a call of the command has failed
    proc,      \* the process of a plugin
    prompt,    \* the plugins for which the host server asks the user
    canceled,  \* the context: main cancels it on the first signal
    next,      \* cleanupProject: the plugin to stop
    waiting,   \* whether Stop is in cmd.Wait
    again,     \* whether another cleanup follows, after saveLockfile has failed
    reason     \* what the end of the program left out

project == <<cmd, cfg, err, lock>>
plugins == <<client, call, failed, proc, prompt>>
cleanup == <<next, waiting, again>>
vars == <<project, plugins, cleanup, pc, temper, canceled, reason>>

Dead == {"exited", "failed"}

\* A call that is under way, made with the context of the command or with one of its own.
Open == {"active", "detached"}

TypeOK ==
    /\ cmd \in Commands
    /\ pc \in {"preload", "find", "secrets", "reload", "run", "post", "clean", "server", "exit"}
    /\ cfg \in {"none", "bare", "loaded"} /\ err \in BOOLEAN
    /\ lock \subseteq Plugins
    /\ temper \in [Plugins -> Tempers]
    /\ client \in [Plugins -> {"new", "spawned", "connected", "started", "broken", "stopped"}]
    /\ call \in [Plugins -> Open \cup {"none", "ok", "failed"}] /\ failed \in BOOLEAN
    /\ proc \in [Plugins -> Dead \cup {"none", "up"}]
    /\ prompt \subseteq Plugins
    /\ canceled \in BOOLEAN
    /\ next \in 1..(N + 1) /\ waiting \in BOOLEAN /\ again \in BOOLEAN
    /\ reason \in {"none", "prerun", "panic", "stop"}

Init ==
    /\ cmd \in Commands /\ pc = "preload"
    /\ cfg = "none" /\ err = FALSE
    /\ lock \in SUBSET Plugins
    /\ temper \in [Plugins -> Tempers]
    /\ client = [p \in Plugins |-> "new"]
    /\ call = [p \in Plugins |-> "none"] /\ failed = FALSE
    /\ proc = [p \in Plugins |-> "none"]
    /\ prompt = {} /\ canceled = FALSE
    /\ next = 1 /\ waiting = FALSE /\ again = FALSE
    /\ reason = "none"

Goto(from, to) == pc = from /\ pc' = to

\* Execute returns without cleanupProject; main ends the process.
PreRunFails(from) ==
    /\ Goto(from, "exit") /\ reason' = "prerun"
    /\ UNCHANGED <<project, plugins, cleanup, temper, canceled>>

-----------------------------------------------------------------------------
(* commandPreRun *)

\* loadProject with the essential keys.  e.cfg is set before the plugins are
\* loaded, and stays when that or FullCheck fails.
Preload ==
    /\ Goto("preload", "find")
    /\ \/ cfg' = "loaded" /\ err' = FALSE
       \/ "load" \in Faults /\ cfg' \in {"none", "bare"} /\ err' = TRUE
       \/ "check" \in Faults /\ cfg' = "loaded" /\ err' = TRUE
    /\ UNCHANGED <<cmd, lock, plugins, cleanup, temper, canceled, reason>>

\* The errors of the preload matter only to commands that need the project.
Find ==
    /\ SkipsProject(cmd) \/ ~err
    /\ Goto("find", IF SkipsProject(cmd) THEN "run"
                    ELSE IF cmd = "deploy" /\ SecretsPlugin # 0 THEN "secrets" ELSE "reload")
    /\ UNCHANGED <<project, plugins, cleanup, temper, canceled, reason>>

\* addPluginsCommands rejects a flag, rootCmd.Find the command, or the preload failed.
FindFails ==
    /\ \/ ~SkipsProject(cmd) /\ err
       \/ cfg = "loaded" /\ "check" \in Faults
    /\ PreRunFails("find")

GetSecrets ==
    /\ pc = "secrets" /\ call[SecretsPlugin] = "ok"
    /\ Goto("secrets", "reload")
    /\ UNCHANGED <<project, plugins, cleanup, temper, canceled, reason>>

GetSecretsFails ==
    /\ pc = "secrets" /\ call[SecretsPlugin] = "failed"
    /\ PreRunFails("secrets")

\* Mutant: the second configuration does not take the plugins of the first.
MutReload ==
    /\ Goto("reload", "run") /\ cfg' = "bare"
    /\ UNCHANGED <<cmd, err, lock, plugins, cleanup, temper, canceled, reason>>

\* loadProject in full, with the plugins that are already loaded.
Reload ==
    /\ Goto("reload", "run") /\ cfg' = "loaded"
    /\ UNCHANGED <<cmd, err, lock, plugins, cleanup, temper, canceled, reason>>

ReloadFails == "check" \in Faults /\ PreRunFails("reload")

-----------------------------------------------------------------------------
(* The client of a plugin *)

Usable(p) == cmd = "init" \/ cfg = "loaded"

\* Mutant: a command goes on with a plugin that it could not start.
MutMayCall(p) == call[p] \notin Open

\* A command returns when a plugin cannot be started; a plugin that is started it may
\* call again when a call has failed: to release locks, to save, for the next group.
MayCall(p) == call[p] \in {"none", "ok"} \/ (call[p] = "failed" /\ client[p] = "started")

\* A call of any service of the plugin, which goes through Start.
Call(p) ==
    /\ \/ pc = "run" /\ cmd # "version" /\ Usable(p) /\ MayCall(p)
       \/ pc = "secrets" /\ p = SecretsPlugin /\ call[p] = "none"
    /\ call' = [call EXCEPT ![p] = "active"]
    /\ UNCHANGED <<project, client, failed, proc, prompt, cleanup, pc, temper, canceled, reason>>

\* A deployment applies, and reads the state to save it, with context.Background().
CallDetached(p) ==
    /\ pc = "run" /\ cmd = "deploy" /\ Usable(p) /\ MayCall(p) /\ client[p] = "started"
    /\ call' = [call EXCEPT ![p] = "detached"]
    /\ UNCHANGED <<project, client, failed, proc, prompt, cleanup, pc, temper, canceled, reason>>

\* Client.init starts the process and waits for a line, whatever the context says.
Spawn(p) ==
    /\ call[p] = "active" /\ client[p] = "new"
    /\ client' = [client EXCEPT ![p] = "spawned"]
    /\ proc' = [proc EXCEPT ![p] = "up"]
    /\ UNCHANGED <<project, call, failed, prompt, cleanup, pc, temper, canceled, reason>>

\* Init and Start keep no error: the next caller would go on with what there is.
Fail(p) ==
    /\ call' = [call EXCEPT ![p] = "failed"]
    /\ client' = [client EXCEPT ![p] = IF @ = "started" THEN @ ELSE "broken"]
    /\ failed' = (failed \/ pc = "run")
    /\ UNCHANGED <<project, proc, prompt, cleanup, pc, temper, canceled, reason>>

SpawnFails(p) == call[p] = "active" /\ client[p] = "new" /\ "call" \in Faults /\ Fail(p)

Handshake(p) ==
    /\ call[p] = "active" /\ client[p] = "spawned" /\ temper[p] # "mute" /\ proc[p] = "up"
    /\ client' = [client EXCEPT ![p] = "connected"]
    /\ UNCHANGED <<project, call, failed, proc, prompt, cleanup, pc, temper, canceled, reason>>

\* The process ends before its line is complete, or the line is wrong.
HandshakeFails(p) ==
    /\ call[p] = "active" /\ client[p] = "spawned" /\ temper[p] # "mute"
    /\ proc[p] \in Dead \/ "call" \in Faults
    /\ Fail(p)

\* The Init and the Start request.
Start(p) ==
    /\ call[p] = "active" /\ client[p] = "connected" /\ proc[p] = "up"
    /\ client' = [client EXCEPT ![p] = "started"]
    /\ UNCHANGED <<project, call, failed, proc, prompt, cleanup, pc, temper, canceled, reason>>

Answer(p) ==
    /\ call[p] \in Open /\ client[p] = "started" /\ proc[p] = "up" /\ p \notin prompt
    /\ call' = [call EXCEPT ![p] = "ok"]
    /\ UNCHANGED <<project, client, failed, proc, prompt, cleanup, pc, temper, canceled, reason>>

\* Mutant: no request is made with the context of the command.
MutGivenUp(p) == proc[p] \in Dead

\* gRPC ends a request when its context is canceled or the connection is lost.
GivenUp(p) == (canceled /\ call[p] = "active") \/ proc[p] \in Dead

CallFails(p) ==
    /\ call[p] \in Open /\ client[p] \in {"connected", "started"}
    /\ GivenUp(p) \/ "call" \in Faults
    /\ Fail(p)

Die(p) ==
    /\ proc[p] = "up" /\ "die" \in Faults /\ pc # "exit"
    /\ proc' = [proc EXCEPT ![p] = "failed"]
    /\ UNCHANGED <<project, client, call, failed, prompt, cleanup, pc, temper, canceled, reason>>

\* Server.PromptConfirmation, PromptInput and PromptSelect, asked for by a plugin.
Prompt(p) ==
    /\ call[p] \in Open /\ client[p] \in {"connected", "started"}
    /\ proc[p] = "up" /\ p \notin prompt
    /\ prompt' = prompt \cup {p}
    /\ UNCHANGED <<project, client, call, failed, proc, cleanup, pc, temper, canceled, reason>>

\* The user answers, sooner or later or never.
Reply(p) ==
    /\ p \in prompt /\ pc # "exit"
    /\ prompt' = prompt \ {p}
    /\ UNCHANGED <<project, client, call, failed, proc, cleanup, pc, temper, canceled, reason>>

-----------------------------------------------------------------------------
(* The command, and the end *)

\* The goroutines of the command are waited for.  Logs and Command take a
\* canceled request for a success.
RunEnds ==
    /\ \A p \in Plugins : call[p] \notin Open
    /\ \/ (canceled \/ ~failed) /\ Goto("run", "post")
       \/ Goto("run", "clean")
    /\ UNCHANGED <<project, plugins, cleanup, temper, canceled, reason>>

\* main recovers and exits; the calls that are under way end with the program.
Panics ==
    /\ "panic" \in Faults /\ Goto("run", "exit") /\ reason' = "panic"
    /\ call' = [p \in Plugins |-> IF call[p] \in Open THEN "failed" ELSE call[p]]
    /\ UNCHANGED <<project, client, failed, proc, prompt, cleanup, temper, canceled>>

\* PersistentPostRunE and saveLockfile.
SaveLock ==
    /\ Goto("post", "clean")
    /\ lock' = IF cfg = "none" THEN lock ELSE IF cfg = "loaded" THEN Plugins ELSE {}
    /\ UNCHANGED <<cmd, cfg, err, plugins, cleanup, temper, canceled, reason>>

\* It cleans up itself, and Execute does so once more.
SaveLockFails ==
    /\ cfg # "none" /\ "post" \in Faults /\ Goto("post", "clean")
    /\ again' = TRUE
    /\ UNCHANGED <<project, plugins, next, waiting, temper, canceled, reason>>

\* The clients that cleanupProject knows: those of `init' are not among them.
Known(p) == cfg = "loaded" /\ cmd # "init" /\ client[p] # "stopped"

\* Mutant: Stop reports a plugin that was never started.
MutStopNothing ==
    /\ pc = "clean" /\ ~waiting /\ next <= N
    /\ ~Known(next) \/ proc[next] = "none"
    /\ IF Known(next) THEN pc' = "exit" /\ reason' = "stop" /\ UNCHANGED next
       ELSE next' = next + 1 /\ UNCHANGED <<pc, reason>>
    /\ UNCHANGED <<project, plugins, waiting, again, temper, canceled>>

\* Plugin.Stop where there is no process.
StopNothing ==
    /\ pc = "clean" /\ ~waiting /\ next <= N
    /\ ~Known(next) \/ proc[next] = "none"
    /\ next' = next + 1
    /\ UNCHANGED <<project, plugins, waiting, again, pc, temper, canceled, reason>>

\* Client.Stop forgets the process, signals it, and waits for its end.
Stop ==
    /\ pc = "clean" /\ ~waiting /\ next <= N
    /\ Known(next) /\ proc[next] # "none"
    /\ waiting' = TRUE
    /\ client' = [client EXCEPT ![next] = "stopped"]
    /\ UNCHANGED <<project, call, failed, proc, prompt, next, again, pc, temper, canceled, reason>>

\* A plugin that does not handle SIGTERM is killed by it.
Terminates(p) ==
    /\ waiting /\ next = p /\ proc[p] = "up" /\ temper[p] # "deaf"
    /\ \E end \in Dead : proc' = [proc EXCEPT ![p] = end]
    /\ UNCHANGED <<project, client, call, failed, prompt, cleanup, pc, temper, canceled, reason>>

Waited ==
    /\ pc = "clean" /\ waiting /\ proc[next] = "exited"
    /\ waiting' = FALSE /\ next' = next + 1
    /\ UNCHANGED <<project, plugins, again, pc, temper, canceled, reason>>

\* The end of cleanupProject.
CleanedUp(why) ==
    /\ waiting' = FALSE /\ again' = FALSE
    /\ IF again THEN pc' = "clean" /\ next' = 1 /\ UNCHANGED reason
       ELSE pc' = "exit" /\ reason' = why /\ UNCHANGED next
    /\ UNCHANGED <<project, plugins, temper, canceled>>

\* Any other end is the error of Stop, and of cleanupProject.
WaitFails ==
    /\ pc = "clean" /\ waiting /\ proc[next] = "failed"
    /\ CleanedUp("stop")

AllStopped ==
    /\ next = N + 1 /\ Goto("clean", "server")
    /\ UNCHANGED <<project, plugins, cleanup, temper, canceled, reason>>

\* GracefulStop waits for the requests that are being served.
StopServer ==
    /\ pc = "server" /\ prompt = {}
    /\ CleanedUp("none")

\* The first signal cancels the context; nobody reads the later ones.
Interrupt ==
    /\ ~canceled /\ pc # "exit"
    /\ canceled' = TRUE
    /\ UNCHANGED <<project, plugins, cleanup, pc, temper, reason>>

Main ==
    \/ Preload \/ Find \/ FindFails \/ GetSecrets \/ GetSecretsFails \/ Reload
    \/ RunEnds \/ SaveLock
    \/ StopNothing \/ Stop \/ Waited \/ WaitFails \/ AllStopped \/ StopServer

Connect(p) == Spawn(p) \/ SpawnFails(p) \/ Handshake(p) \/ HandshakeFails(p)

Next ==
    \/ Main \/ ReloadFails \/ Panics \/ SaveLockFails \/ Interrupt
    \/ \E p \in Plugins :
          \/ Call(p) \/ CallDetached(p) \/ Connect(p) \/ Start(p) \/ Answer(p) \/ CallFails(p)
          \/ Die(p) \/ Prompt(p) \/ Reply(p) \/ Terminates(p)

Spec == Init /\ [][Next]_vars

\* The program goes on, and no command calls plugins for ever; a plugin that is not
\* mute shakes hands and one that is not deaf ends on SIGTERM; gRPC gives up a request
\* whose context is canceled.  Nothing makes a plugin answer, a user reply, or a step
\* fail.
FairSpec ==
    /\ Spec /\ WF_vars(Main)
    /\ <>[][\A p \in Plugins : ~Call(p) /\ ~CallDetached(p)]_vars
    /\ WF_vars(Call(SecretsPlugin) /\ pc = "secrets")
    /\ \A p \in Plugins :
          /\ WF_vars(Connect(p))
          /\ WF_vars(GivenUp(p) /\ CallFails(p))
          /\ WF_vars(Terminates(p))

-----------------------------------------------------------------------------
(* Properties *)

Ended == pc = "exit"

\* No call goes on with a client whose Init or Start has failed, although
\* sync.Once keeps no error for it; and none is under way once cleaning up begins.
NoBrokenCall ==
    \A p \in Plugins : call[p] \in Open =>
        client[p] \notin {"broken", "stopped"} /\ pc \notin {"clean", "server"}

\* Calls are made by the secrets and the command, on plugins that are loaded; a
\* client that is broken has failed its caller, and is stopped only at the end.
CallsInRun ==
    \A p \in Plugins :
        /\ call[p] \in Open => pc \in {"secrets", "run"}
        /\ call[p] = "detached" => client[p] = "started"
        /\ client[p] = "broken" => call[p] = "failed"
        /\ client[p] = "stopped" => pc \in {"clean", "server", "exit"}
        /\ call[p] # "none" \/ proc[p] # "none" => Usable(p)

\* A command that needs the project goes on only with its plugins loaded.
Loaded ==
    /\ pc = "find" => err \/ cfg = "loaded"
    /\ pc \in {"secrets", "reload"} => ~SkipsProject(cmd)
    /\ pc = "secrets" => SecretsPlugin # 0
    /\ pc \notin {"preload", "find", "exit"} => SkipsProject(cmd) \/ cfg = "loaded"

\* Before the command runs, only the plugin of the secrets is used.
NotYetUsed ==
    \A p \in Plugins :
        \/ pc \in {"preload", "find"}
        \/ pc \in {"secrets", "reload"} /\ p # SecretsPlugin
        => call[p] = "none" /\ client[p] = "new" /\ proc[p] = "none"

\* The clean-up leaves no process behind it that it knows.
Cleaning ==
    /\ pc \notin {"clean", "server", "exit"} => next = 1 /\ ~again
    /\ waiting => pc = "clean" /\ next <= N /\ proc[next] # "none"
    /\ pc = "server" => next = N + 1
    /\ \A p \in Plugins :
          /\ client[p] = "stopped" => proc[p] \in Dead \/ (waiting /\ next = p)
          /\ pc \in {"clean", "server"} /\ p < next /\ proc[p] = "up" => cmd = "init"

\* The inductive invariant.
IInv == TypeOK /\ NoBrokenCall /\ CallsInRun /\ Loaded /\ NotYetUsed /\ Cleaning

\* A plugin's process outlives the program only if `init' has started it, if it
\* served the secrets and what came before the command failed, after a panic, or
\* if a plugin before it in the project did not end well, on SIGTERM or earlier.
LeftRunning ==
    \A p \in Plugins : Ended /\ proc[p] = "up" =>
        \/ cmd = "init"
        \/ reason = "prerun" /\ p = SecretsPlugin
        \/ reason = "panic"
        \/ reason = "stop" /\ \E q \in 1..(p - 1) : proc[q] = "failed"

\* The lock file loses plugins only to a command that needs no project, when the
\* plugins could not be loaded: that one empties it.
LockKept ==
    [][lock \subseteq lock' \/ (SkipsProject(cmd) /\ cfg = "bare" /\ lock' = {})]_vars

\* What keeps an interrupted program: a plugin that does not shake hands, an apply (or
\* a state to save) that a live plugin does not answer, a plugin that does not end on
\* SIGTERM, or a question nobody answers.
Stuck ==
    \/ \E p \in Plugins : call[p] = "detached" /\ proc[p] = "up"
    \/ \E p \in Plugins : client[p] = "spawned" /\ temper[p] = "mute"
    \/ pc = "clean" /\ waiting /\ temper[next] = "deaf"
    \/ pc = "server" /\ prompt # {}

\* From some time after a signal on, the program has ended or is held by these.
EndsWhenInterrupted == <>[](canceled => Ended \/ Stuck)
=============================================================================
