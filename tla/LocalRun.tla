------------------------------ MODULE LocalRun ------------------------------
(***************************************************************************)
(* `ok run': pkg/actions/run.go with run/local.go, run/plugin.go and       *)
(* client/run.go.  Run chooses ports, starts the plugins of dependencies   *)
(* and apps and the local apps, and waits until all is up, until something *)
(* ends, or until the user interrupts.  One goroutine waits for each group *)
(* of what was started (and one for the HTTP server); they share the       *)
(* variable err, a channel for one error and a wait group.  The plugins of *)
(* one group share a channel, which each of their streams closes.          *)
(***************************************************************************)
EXTENDS Integers, Sequences, FiniteSets

CONSTANTS
    AppIds, DepIds, Plugins,
    Projects,     \* what may be run: see ProjectType
    ListenPort,
    Faults        \* a subset of FaultKinds

Groups == {"deps", "apps"}
FaultKinds == {"hosts", "start", "mute", "empty", "exit", "stream", "odd", "listen"}
Ids == AppIds \cup DepIds
Streams == Groups \X Plugins

\* run.port of each app and dependency (0 if not set), the apps whose command is
\* run directly, the run plugins that are called for each group, and --hosts-routing.
ProjectType ==
    [fixed : [Ids -> Nat], local : SUBSET AppIds, calls : [Groups -> SUBSET Plugins],
     routing : BOOLEAN]

ASSUME RunAssumption ==
    /\ AppIds \cap DepIds = {}
    /\ Projects \subseteq ProjectType
    /\ \A pr \in Projects : pr.local # {} \/ \E g \in Groups : pr.calls[g] # {}  \* or "nothing to run"
    /\ ListenPort \in Nat \ {0}
    /\ Faults \subseteq FaultKinds

VARIABLES
    pc,          \* where the main goroutine is
    project,     \* what is run
    port,        \* the port each app and dependency gets
    lastPort,    \* the port grabPort looks at
    hosts,       \* whether the entries of this run are in the hosts file
    asked,       \* the user has interrupted
    ctx,         \* the state of runnerCtx
    proc,        \* the processes of local apps
    stream,      \* the goroutines that read the plugins' streams
    broke,       \* history: the streams that ended by themselves
    odd,         \* history: the streams that sent what is neither a start nor output
    sent, closed,\* the channel of a group: what it holds; is closed
    seen,        \* what the goroutine that watches a plugin has read from it
    waiter,      \* the goroutines of start
    due,         \* those that have not called wg.Done
    err,         \* the variable of start
    errCh,       \* its channel, of capacity 1
    result       \* what start, and then Run, returns

ports == <<project, port, lastPort>>
shared == <<err, errCh, due, waiter>>
plugs == <<stream, broke, odd, sent, closed, seen>>
vars == <<pc, ports, hosts, asked, ctx, proc, plugs, shared, result>>

Local == project.local
Routing == project.routing
StreamsOf(g) == {<<g, p>> : p \in project.calls[g]}

\* The goroutines that start waits for.
Waiters ==
    {g \in Groups : project.calls[g] # {}} \cup (IF Local # {} THEN {"local"} ELSE {})
        \cup (IF Routing THEN {"http"} ELSE {})

Errors == {"nil", "error", "canceled"}
StreamStates ==
    {"none", "mute", "absent", "open", "failed", "odd", "ending", "ended"}

TypeOK ==
    /\ pc \in {"appPorts", "depPorts", "hosts", "starting", "health", "checked", "failing",
               "up", "returned", "joining", "ended", "crashed"}
    /\ project \in Projects /\ port \in [Ids -> Nat] /\ lastPort \in Nat
    /\ hosts \in {"without", "with", "unknown"} /\ asked \in BOOLEAN /\ ctx \in {"live", "canceled"}
    /\ proc \in [AppIds -> {"none", "running", "exited"}]
    /\ stream \in [Streams -> StreamStates]
    /\ broke \subseteq Streams /\ odd \subseteq Streams
    /\ sent \in [Groups -> {"none", "nil", "error"}] /\ closed \in [Groups -> BOOLEAN]
    /\ seen \in [Streams -> {"none", "waiting", "nil", "error"}]
    /\ waiter \in [Groups \cup {"local", "http"} -> {"none", "waiting", "assigned", "sending", "finished"}]
    /\ due \subseteq Waiters
    /\ err \in Errors /\ result \in Errors
    /\ errCh \in Seq(Errors) /\ Len(errCh) <= 1

Init ==
    /\ pc = "appPorts"
    /\ project \in Projects /\ port = [i \in Ids |-> 0] /\ lastPort = ListenPort + 1
    /\ hosts = "without" /\ asked = FALSE /\ ctx = "live"
    /\ proc = [a \in AppIds |-> "none"]
    /\ stream = [s \in Streams |-> "none"] /\ broke = {} /\ odd = {}
    /\ sent = [g \in Groups |-> "none"] /\ closed = [g \in Groups |-> FALSE]
    /\ seen = [s \in Streams |-> "none"]
    /\ waiter = [w \in Groups \cup {"local", "http"} |-> "none"] /\ due = {}
    /\ err = "nil" /\ errCh = <<>> /\ result = "nil"

\* When Run has returned, or the process has panicked, its goroutines are gone.
Alive == pc \notin {"ended", "crashed"}

-----------------------------------------------------------------------------
(* prepareRun *)

\* Mutant: the map of ports is not filled by apps with a fixed port.
MutUsed == {port[i] : i \in {j \in Ids : project.fixed[j] = 0}} \ {0}

Used == {port[i] : i \in Ids} \ {0}

\* The apps, then the dependencies, that have no port yet.
Phase == IF pc = "appPorts" THEN AppIds ELSE IF pc = "depPorts" THEN DepIds ELSE {}
Portless == {i \in Phase : port[i] = 0}

\* The first of two loops reserves the ports the project names.
Reserve(i) ==
    /\ i \in Portless /\ project.fixed[i] # 0 /\ project.fixed[i] \notin Used
    /\ port' = [port EXCEPT ![i] = project.fixed[i]]
    /\ UNCHANGED <<pc, project, lastPort, hosts, asked, ctx, proc, plugs, shared, result>>

PortTaken(i) ==
    /\ i \in Portless /\ project.fixed[i] \in Used
    /\ pc' = "ended" /\ result' = "error"
    /\ UNCHANGED <<ports, hosts, asked, ctx, proc, plugs, shared>>

\* The second gives the others the first port that is free.
Probe ==
    /\ Portless # {} /\ \A i \in Portless : project.fixed[i] = 0
    /\ lastPort \in Used
    /\ lastPort' = lastPort + 1
    /\ UNCHANGED <<pc, project, port, hosts, asked, ctx, proc, plugs, shared, result>>

Grab(i) ==
    /\ i \in Portless /\ \A j \in Portless : project.fixed[j] = 0
    /\ lastPort \notin Used
    /\ port' = [port EXCEPT ![i] = lastPort]
    /\ lastPort' = ListenPort + 1
    /\ UNCHANGED <<pc, project, hosts, asked, ctx, proc, plugs, shared, result>>

PortsChosen ==
    /\ pc \in {"appPorts", "depPorts"} /\ Portless = {}
    /\ pc' = IF pc = "appPorts" THEN "depPorts" ELSE "hosts"
    /\ UNCHANGED <<ports, hosts, asked, ctx, proc, plugs, shared, result>>

-----------------------------------------------------------------------------
(* start, until everything is started *)

\* start returns r; its context is canceled by a deferred call.
Return(r) == pc' = "returned" /\ result' = r /\ ctx' = "canceled"

AddHosts ==
    /\ pc = "hosts"
    /\ pc' = "starting" /\ hosts' = IF Routing THEN "with" ELSE "without"
    /\ UNCHANGED <<ports, asked, ctx, proc, plugs, shared, result>>

\* A file that cannot be saved may have been written all the same.
AddHostsFails ==
    /\ pc = "hosts" /\ Routing /\ "hosts" \in Faults
    /\ Return("error")
    /\ hosts' = "unknown"
    /\ UNCHANGED <<ports, asked, proc, plugs, shared>>

Unstarted(g) == {s \in StreamsOf(g) : stream[s] \in {"none", "mute"}}

\* main reads the handshake of a plugin it has started, without a limit and
\* whatever the context is.
Mute == pc = "starting" /\ \E s \in Streams : stream[s] = "mute"

\* A dependency's plugin has ended its stream before it has started: main reads the
\* variables of a response that is nil.
NoVars == Unstarted("deps") = {} /\ \E s \in StreamsOf("deps") : stream[s] = "absent"

\* ThroughPlugin is about to call Client.Run for stream s.
Starts(s) ==
    /\ pc = "starting" /\ ~Mute /\ ~NoVars
    /\ stream[s] = "none" /\ s \in Unstarted(s[1])
    /\ s[1] = "apps" => Unstarted("deps") = {}

\* The plugin has answered that it runs; two goroutines follow it.
StartPlugin(s) ==
    /\ Starts(s)
    /\ stream' = [stream EXCEPT ![s] = "open"]
    /\ seen' = [seen EXCEPT ![s] = "waiting"]
    /\ UNCHANGED <<pc, ports, hosts, asked, ctx, proc, broke, odd, sent, closed, shared, result>>

\* The stream ends before the plugin has answered: mapError takes io.EOF for success,
\* and there is only the goroutine that waits for an error.
StartEmpty(s) ==
    /\ Starts(s) /\ "empty" \in Faults
    /\ stream' = [stream EXCEPT ![s] = "absent"]
    /\ seen' = [seen EXCEPT ![s] = "waiting"]
    /\ UNCHANGED <<pc, ports, hosts, asked, ctx, proc, broke, odd, sent, closed, shared, result>>

\* The plugin's first start: it runs, and does not say where.
StartMute(s) ==
    /\ Starts(s) /\ "mute" \in Faults
    /\ \A t \in Streams : t[2] = s[2] => stream[t] = "none"
    /\ stream' = [stream EXCEPT ![s] = "mute"]
    /\ UNCHANGED <<pc, ports, hosts, asked, ctx, proc, broke, odd, sent, closed, seen, shared, result>>

\* It speaks after all,
Handshake(s) ==
    /\ Mute /\ stream[s] = "mute"
    /\ stream' = [stream EXCEPT ![s] = "open"]
    /\ seen' = [seen EXCEPT ![s] = "waiting"]
    /\ UNCHANGED <<pc, ports, hosts, asked, ctx, proc, broke, odd, sent, closed, shared, result>>

\* or ends.
HandshakeFails ==
    /\ Mute
    /\ Return("error")
    /\ UNCHANGED <<ports, hosts, asked, proc, plugs, shared>>

VarsPanic ==
    /\ pc = "starting" /\ NoVars
    /\ pc' = "crashed"
    /\ UNCHANGED <<ports, hosts, asked, ctx, proc, plugs, shared, result>>

StartLocal(a) ==
    /\ pc = "starting" /\ proc[a] = "none" /\ ~NoVars
    /\ \A g \in Groups : Unstarted(g) = {}
    /\ proc' = [proc EXCEPT ![a] = "running"]
    /\ UNCHANGED <<pc, ports, hosts, asked, ctx, plugs, shared, result>>

Started ==
    /\ \A g \in Groups : Unstarted(g) = {}
    /\ \A a \in Local : proc[a] # "none"

\* A plugin or a command does not start, or a variable of an app has no value.
StartFails ==
    /\ pc = "starting" /\ ~Started /\ ~Mute /\ ~NoVars
    /\ "start" \in Faults \/ ctx = "canceled"
    /\ Return("error")
    /\ UNCHANGED <<ports, hosts, asked, proc, plugs, shared>>

StartWaiters ==
    /\ pc = "starting" /\ Started /\ ~NoVars
    /\ waiter' = [w \in DOMAIN waiter |-> IF w \in Waiters THEN "waiting" ELSE "none"]
    /\ due' = Waiters
    /\ pc' = "health"
    /\ UNCHANGED <<ports, hosts, asked, ctx, proc, plugs, err, errCh, result>>

-----------------------------------------------------------------------------
(* Processes, and the streams of plugins *)

\* Ctrl-C: the context of the command is canceled.
Interrupt ==
    /\ Alive /\ ~asked
    /\ asked' = TRUE /\ ctx' = "canceled"
    /\ UNCHANGED <<pc, ports, hosts, proc, plugs, shared, result>>

AppExits(a) ==
    /\ Alive /\ proc[a] = "running" /\ "exit" \in Faults
    /\ proc' = [proc EXCEPT ![a] = "exited"]
    /\ UNCHANGED <<pc, ports, hosts, asked, ctx, plugs, shared, result>>

\* LocalRunResult.Stop, which only a group that was started as a whole has.
StopApp(a) ==
    /\ Alive /\ ctx = "canceled" /\ proc[a] = "running" /\ due # {}
    /\ proc' = [proc EXCEPT ![a] = "exited"]
    /\ UNCHANGED <<pc, ports, hosts, asked, ctx, plugs, shared, result>>

\* Recv fails while the context is live.
StreamBreaks(s) ==
    /\ Alive /\ stream[s] = "open" /\ ctx = "live" /\ "stream" \in Faults
    /\ stream' = [stream EXCEPT ![s] = "failed"]
    /\ broke' = broke \cup {s}
    /\ UNCHANGED <<pc, ports, hosts, asked, ctx, proc, odd, sent, closed, seen, shared, result>>

\* Recv returns what is not output.
StreamOdd(s) ==
    /\ Alive /\ stream[s] = "open" /\ "odd" \in Faults
    /\ stream' = [stream EXCEPT ![s] = "odd"]
    /\ odd' = odd \cup {s}
    /\ UNCHANGED <<pc, ports, hosts, asked, ctx, proc, broke, sent, closed, seen, shared, result>>

\* Mutant: the reader does not look at the context when Recv fails.
MutStreamCanceled(s) ==
    /\ Alive /\ stream[s] = "open" /\ ctx = "canceled"
    /\ stream' = [stream EXCEPT ![s] = "failed"]
    /\ UNCHANGED <<pc, ports, hosts, asked, ctx, proc, broke, odd, sent, closed, seen, shared, result>>

StreamCanceled(s) ==
    /\ Alive /\ stream[s] = "open" /\ ctx = "canceled"
    /\ stream' = [stream EXCEPT ![s] = "ending"]
    /\ UNCHANGED <<pc, ports, hosts, asked, ctx, proc, broke, odd, sent, closed, seen, shared, result>>

\* Of an unexpected response, merry.Prepend makes an error out of none, which is nil.
SendStreamError(s) ==
    /\ Alive /\ stream[s] \in {"failed", "odd"} /\ sent[s[1]] = "none" /\ ~closed[s[1]]
    /\ stream' = [stream EXCEPT ![s] = "ending"]
    /\ sent' = [sent EXCEPT ![s[1]] = IF stream[s] = "failed" THEN "error" ELSE "nil"]
    /\ UNCHANGED <<pc, ports, hosts, asked, ctx, proc, broke, odd, closed, seen, shared, result>>

CloseStream(s) ==
    /\ Alive /\ stream[s] = "ending" /\ ~closed[s[1]]
    /\ stream' = [stream EXCEPT ![s] = "ended"]
    /\ closed' = [closed EXCEPT ![s[1]] = TRUE]
    /\ UNCHANGED <<pc, ports, hosts, asked, ctx, proc, broke, odd, sent, seen, shared, result>>

\* Output, an error, or the end of a second stream of the group: its channels
\* are closed already, and the process panics.
ClosedTwice(s) ==
    /\ Alive /\ stream[s] \in {"open", "failed", "odd", "ending"} /\ closed[s[1]]
    /\ pc' = "crashed"
    /\ UNCHANGED <<ports, hosts, asked, ctx, proc, plugs, shared, result>>

\* Any watcher of the group may get what was sent; a closed channel gives nil.
Watch(s) ==
    /\ Alive /\ seen[s] = "waiting"
    /\ sent[s[1]] # "none" \/ closed[s[1]]
    /\ seen' = [seen EXCEPT ![s] = IF sent[s[1]] = "error" THEN "error" ELSE "nil"]
    /\ sent' = [sent EXCEPT ![s[1]] = "none"]
    /\ UNCHANGED <<pc, ports, hosts, asked, ctx, proc, stream, broke, odd, closed, shared, result>>

-----------------------------------------------------------------------------
(* The waiting goroutines of start *)

SeenIn(g) == {seen[s] : s \in StreamsOf(g)}

\* What the Wait of a group can return now.  The server ends with the context,
ServerResults ==
    IF ctx = "live" THEN {} ELSE IF "listen" \in Faults THEN {"nil", "error"} ELSE {"nil"}

\* the local apps with the first of them,
LocalResults == IF \E a \in Local : proc[a] = "exited" THEN {"error"} ELSE {}

\* and a group of plugins with its first error.
PluginResults(g) ==
    IF "error" \in SeenIn(g) THEN {"error"} ELSE IF SeenIn(g) = {"nil"} THEN {"nil"} ELSE {}

\* Mutant: an app that exits by itself has not failed, and a group returns what
\* the first of its plugins says.
MutWaitResults(w) ==
    IF w = "local" THEN IF LocalResults # {} THEN {"nil", "error"} ELSE {}
    ELSE IF w = "http" THEN ServerResults ELSE SeenIn(w) \cap {"nil", "error"}

WaitResults(w) ==
    IF w = "local" THEN LocalResults ELSE IF w = "http" THEN ServerResults ELSE PluginResults(w)

\* The goroutine of the server calls wg.Done before it looks at err.
Assign(w) ==
    /\ Alive /\ waiter[w] = "waiting"
    /\ err' \in WaitResults(w)
    /\ waiter' = [waiter EXCEPT ![w] = "assigned"]
    /\ due' = due \ ({w} \cap {"http"})
    /\ UNCHANGED <<pc, ports, hosts, asked, ctx, proc, plugs, errCh, result>>

\* err is read again: another goroutine may have written it.
Check(w) ==
    /\ Alive /\ waiter[w] = "assigned"
    /\ IF err = "nil"
       THEN /\ waiter' = [waiter EXCEPT ![w] = "finished"] /\ due' = due \ {w}
            /\ UNCHANGED ctx
       ELSE /\ waiter' = [waiter EXCEPT ![w] = "sending"] /\ ctx' = "canceled"
            /\ UNCHANGED due
    /\ UNCHANGED <<pc, ports, hosts, asked, proc, plugs, err, errCh, result>>

\* Mutant: the sender waits for a reader.
MutSend(w) ==
    /\ Alive /\ waiter[w] = "sending" /\ pc = "up"
    /\ errCh = <<>>
    /\ errCh' = <<err>>
    /\ waiter' = [waiter EXCEPT ![w] = "finished"] /\ due' = due \ {w}
    /\ UNCHANGED <<pc, ports, hosts, asked, ctx, proc, plugs, err, result>>

\* Blocks while the channel is full.
Send(w) ==
    /\ Alive /\ waiter[w] = "sending" /\ errCh = <<>>
    /\ errCh' = <<err>>
    /\ waiter' = [waiter EXCEPT ![w] = "finished"] /\ due' = due \ {w}
    /\ UNCHANGED <<pc, ports, hosts, asked, ctx, proc, plugs, err, result>>

-----------------------------------------------------------------------------
(* start, once everything is started, and the end of Run *)

\* waitAll: every app has answered (it may have ended since).
AllUp ==
    /\ pc = "health"
    /\ pc' = "checked" /\ err' = "nil"
    /\ UNCHANGED <<ports, hosts, asked, ctx, proc, plugs, errCh, due, waiter, result>>

HealthCanceled ==
    /\ pc = "health" /\ ctx = "canceled"
    /\ pc' = "checked" /\ err' = "canceled"
    /\ UNCHANGED <<ports, hosts, asked, ctx, proc, plugs, errCh, due, waiter, result>>

CheckHealth ==
    /\ pc = "checked"
    /\ pc' = IF err = "nil" THEN "up" ELSE "failing"
    /\ UNCHANGED <<ports, hosts, asked, ctx, proc, plugs, shared, result>>

\* The channel is read once, and without waiting.
Fail ==
    /\ pc = "failing"
    /\ Return(IF errCh = <<>> THEN err ELSE Head(errCh))
    /\ errCh' = <<>>
    /\ UNCHANGED <<ports, hosts, asked, proc, plugs, err, due, waiter>>

Stop ==
    /\ pc = "up" /\ ctx = "canceled"
    /\ Return(IF errCh = <<>> THEN "nil" ELSE Head(errCh))
    /\ errCh' = <<>>
    /\ UNCHANGED <<ports, hosts, asked, proc, plugs, err, due, waiter>>

\* The entries are removed, if all of them were saved: a file whose save fails may have
\* been written or not.
Restored == hosts' = IF hosts = "unknown" THEN hosts ELSE "without"

\* Mutant: the hosts file is restored when everything has ended.
MutCleanup ==
    /\ pc = "returned" /\ due = {}
    /\ pc' = "joining" /\ Restored
    /\ UNCHANGED <<ports, asked, ctx, proc, plugs, shared, result>>

Cleanup ==
    /\ pc = "returned"
    /\ pc' = "joining" /\ Restored
    /\ UNCHANGED <<ports, asked, ctx, proc, plugs, shared, result>>

CleanupFails ==
    /\ pc = "returned" /\ hosts = "with" /\ "hosts" \in Faults
    /\ pc' = "joining" /\ hosts' = "unknown"
    /\ UNCHANGED <<ports, asked, ctx, proc, plugs, shared, result>>

\* wg.Wait; that the context was canceled is not an error, and the error of cleanup
\* counts if there is no other.
Join ==
    /\ pc = "joining" /\ due = {}
    /\ pc' = "ended"
    /\ result' = IF result = "canceled" THEN "nil"
                 ELSE IF result = "nil" /\ hosts = "unknown" THEN "error" ELSE result
    /\ UNCHANGED <<ports, hosts, asked, ctx, proc, plugs, shared>>

Ports == Probe \/ PortsChosen \/ \E i \in Ids : Reserve(i) \/ PortTaken(i) \/ Grab(i)

Main ==
    \/ AddHosts \/ AddHostsFails \/ StartFails \/ StartWaiters
    \/ \E s \in Streams : StartPlugin(s)
    \/ \E a \in Local : StartLocal(a)
    \/ VarsPanic \/ HealthCanceled \/ CheckHealth \/ Fail \/ Stop
    \/ Cleanup \/ Join

\* What the goroutines do.
Goroutine ==
    \/ \E a \in Local : StopApp(a)
    \/ \E s \in Streams : StreamCanceled(s) \/ SendStreamError(s) \/ CloseStream(s)
                            \/ ClosedTwice(s) \/ Watch(s)
    \/ \E w \in Waiters : Assign(w) \/ Check(w) \/ Send(w)

Next ==
    \/ Ports \/ Main \/ Goroutine \/ AllUp \/ Interrupt
    \/ \E a \in Local : AppExits(a)
    \/ \E s \in Streams : \/ StartEmpty(s) \/ StartMute(s) \/ Handshake(s)
                          \/ StreamBreaks(s) \/ StreamOdd(s)
    \/ HandshakeFails \/ CleanupFails

Spec == Init /\ [][Next]_vars

\* Every goroutine is scheduled, and what is stopped stops.  Nothing is assumed of
\* apps (they may never come up), of a mute plugin, of failures and of the user.
FairSpec == Spec /\ WF_vars(Ports \/ Main) /\ WF_vars(Goroutine)

-----------------------------------------------------------------------------
(* Properties *)

\* Two apps or dependencies never get the same port, fixed or not.
PortsDistinct ==
    \A i, j \in Ids : i # j /\ port[i] # 0 => port[i] # port[j]

\* What a stream has come to: only the plugins of the project have one, and while the
\* context is live a stream ends only by itself.
StreamsAgree ==
    \A s \in Streams :
        /\ stream[s] # "none" => s \in StreamsOf(s[1])
        /\ stream[s] \in {"none", "mute"} => seen[s] = "none"
        /\ stream[s] = "failed" => s \in broke
        /\ stream[s] = "odd" => s \in odd
        /\ s \in broke => stream[s] \in {"failed", "ending", "ended"}
        /\ ctx = "live" /\ stream[s] \in {"ending", "ended"} => s \in broke \cup odd

\* Some watcher of g has read the error of a stream.
ErrorSeen(g) == \E s \in StreamsOf(g) : seen[s] = "error"

\* The channel of a group: the error of a stream is in it, or a watcher has it; and
\* unless a stream was odd no watcher reads nil before.
ErrorsKept ==
    \A g \in Groups :
        /\ sent[g] = "error" \/ ErrorSeen(g) => broke \cap StreamsOf(g) # {}
        /\ sent[g] = "nil" => odd \cap StreamsOf(g) # {}
        /\ closed[g] => \E s \in StreamsOf(g) : stream[s] = "ended"
        /\ \A s \in StreamsOf(g) :
              /\ seen[s] = "nil" =>
                    (closed[g] /\ sent[g] = "none") \/ odd \cap StreamsOf(g) # {}
              /\ s \in broke /\ stream[s] # "failed" => sent[g] = "error" \/ ErrorSeen(g)

\* While main waits for the apps to be up, whatever has ended has ended with an error,
\* unless a stream was odd.
NoneFinished ==
    pc = "health" /\ ctx = "live" /\ odd = {} =>
        \A w \in Waiters : waiter[w] = "waiting" \/ (waiter[w] = "assigned" /\ err = "error")

\* prepareRun gives every app and dependency a port of its own; the channel that the
\* plugins of a group share loses no error, and unless a stream was odd, what ends early
\* is not taken for a success.
IInv == TypeOK /\ PortsDistinct /\ StreamsAgree /\ ErrorsKept /\ NoneFinished

\* A group of plugins ends with an error only if one of its streams ended by itself,
\* not because of the shutdown; and whichever watcher got the error that a stream has
\* sent, the group does not end without it, unless a stream of the group was odd.
GroupErrorsAreReal ==
    \A g \in Groups \cap Waiters :
        LET broken == broke \cap StreamsOf(g) IN
        /\ "error" \in WaitResults(g) => broken # {}
        /\ "nil" \in WaitResults(g) =>
              odd \cap StreamsOf(g) # {} \/ \A s \in broken : stream[s] = "failed"

\* As long as main waits for the apps to be up, whatever ends stops the run: no
\* goroutine loses its error to another.  The nil that an odd stream sends ends its
\* group as a success, and, as err is shared, may hide the error of another group.
FailureStopsStart ==
    pc = "health" /\ ctx = "live" /\ odd = {} => \A w \in Waiters : waiter[w] # "finished"

\* After an interrupt the hosts file is restored, even if the shutdown hangs, unless it
\* cannot be saved; a panic or a plugin that stays mute leaves it as it is.
HostsRestored == asked ~> (hosts # "with" \/ pc = "crashed" \/ []Mute)

\* A second error is to be sent, and nobody is left to read the first.
TwoReports == errCh # <<>> /\ \E w \in due : waiter[w] = "sending"

\* No plugin of a group has a stream that would close the channel of the group.
Unanswered == \E g \in Groups \cap due : \A s \in StreamsOf(g) : stream[s] = "absent"

\* An interrupted run ends, unless two goroutines report an error, or a plugin ended its
\* stream before it started, or is mute.
EndsUnlessStuck == asked ~> (~Alive \/ [](TwoReports \/ Unanswered \/ Mute))
=============================================================================
