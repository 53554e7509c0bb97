--------------------------- MODULE LocalRun_proofs ---------------------------
(***************************************************************************)
(* The ports and the errors of LocalRun, for any project, any number of    *)
(* apps, dependencies and plugins, and any failures.                       *)
(***************************************************************************)
EXTENDS LocalRun, TLAPS

-----------------------------------------------------------------------------
(* The steps of a plugin and of the goroutines that read its stream. *)
PluginStep(s) ==
    \/ StartPlugin(s) \/ StartEmpty(s) \/ StartMute(s) \/ Handshake(s)
    \/ StreamBreaks(s) \/ StreamOdd(s) \/ StreamCanceled(s) \/ SendStreamError(s)
    \/ CloseStream(s) \/ Watch(s)

\* They change only what is known of the streams.
LEMMA PluginsOnly ==
    ASSUME NEW s \in Streams, PluginStep(s)
    PROVE  /\ UNCHANGED <<pc, project, port, lastPort, hosts, asked, ctx, proc, err, errCh, due, waiter,
                         result>>
           /\ broke \subseteq broke' /\ odd \subseteq odd'
BY DEF PluginStep, StartPlugin, StartEmpty, StartMute, Handshake, StreamBreaks, StreamOdd,
   StreamCanceled, SendStreamError, CloseStream, Watch, ports, shared

\* The other steps leave that alone.
LEMMA OthersKeep ==
    ASSUME [Next]_vars, \A s \in Streams : ~PluginStep(s)
    PROVE  UNCHANGED <<project, plugs>>
BY DEF PluginStep, vars, ports, plugs, Next, Ports, Main, Goroutine, Reserve, PortTaken, Probe, Grab,
   PortsChosen, AddHosts, AddHostsFails, HandshakeFails, VarsPanic, StartLocal, StartFails,
   StartWaiters, Interrupt, AppExits, StopApp, ClosedTwice, Assign, Check, Send, AllUp,
   HealthCanceled, CheckHealth, Fail, Stop, Cleanup, CleanupFails, Join

-----------------------------------------------------------------------------
(* Types *)

\* A stream belongs to one group; what start waits for is a group or has a name of
\* its own.
LEMMA StreamsOfGroups ==
    ASSUME TypeOK
    PROVE  /\ \A g \in Groups : StreamsOf(g) \subseteq Streams
           /\ \A g \in Groups : \A s \in StreamsOf(g) : s[1] = g
           /\ \A s \in Streams : s[1] \in Groups
           /\ Waiters \subseteq Groups \cup {"local", "http"} /\ Local \subseteq AppIds
<1>1. project.local \subseteq AppIds /\ project.calls \in [Groups -> SUBSET Plugins]
  BY RunAssumption DEF TypeOK, ProjectType
<1> QED
  BY <1>1 DEF StreamsOf, Streams, Waiters, Local

\* A group ends with what its watchers have read; nothing else ends with "canceled".
LEMMA WaitTypes ==
    ASSUME NEW w
    PROVE  /\ WaitResults(w) \subseteq {"nil", "error"}
           /\ w \in Groups => WaitResults(w) = PluginResults(w)
BY DEF WaitResults, LocalResults, ServerResults, PluginResults, Groups

LEMMA TypeInit == Init => TypeOK
<1> SUFFICES ASSUME Init PROVE TypeOK
  OBVIOUS
<1>1. errCh \in Seq(Errors) /\ Len(errCh) <= 1
  BY DEF Init
<1>2. lastPort \in Nat /\ port \in [Ids -> Nat] /\ due \subseteq Waiters /\ project \in Projects
  BY RunAssumption DEF Init
<1>3. /\ pc \in {"appPorts", "depPorts", "hosts", "starting", "health", "checked", "failing",
               "up", "returned", "joining", "ended", "crashed"}
      /\ hosts \in {"without", "with", "unknown"} /\ asked \in BOOLEAN
      /\ ctx \in {"live", "canceled"}
      /\ err \in Errors /\ result \in Errors /\ broke \subseteq Streams /\ odd \subseteq Streams
  BY DEF Init, Errors
<1>4. /\ proc \in [AppIds -> {"none", "running", "exited"}]
      /\ stream \in [Streams -> StreamStates]
      /\ sent \in [Groups -> {"none", "nil", "error"}] /\ closed \in [Groups -> BOOLEAN]
      /\ seen \in [Streams -> {"none", "waiting", "nil", "error"}]
      /\ waiter \in [Groups \cup {"local", "http"} -> {"none", "waiting", "assigned", "sending", "finished"}]
  BY DEF Init, StreamStates
<1> QED
  BY <1>1, <1>2, <1>3, <1>4 DEF TypeOK

\* Every variable of a local run keeps its type.
LEMMA TypeStep == TypeOK /\ [Next]_vars => TypeOK'
<1> SUFFICES ASSUME TypeOK, [Next]_vars PROVE TypeOK'
  OBVIOUS
<1>0. /\ Local \subseteq AppIds /\ Waiters \subseteq Groups \cup {"local", "http"}
      /\ ListenPort \in Nat /\ project \in ProjectType /\ \A s \in Streams : s[1] \in Groups
  BY StreamsOfGroups, RunAssumption DEF TypeOK
<1>a. {"nil", "error", "canceled"} \subseteq Errors
  BY DEF Errors
<1> USE <1>0, <1>a DEF TypeOK, ports, shared, plugs, Return
<1>1. UNCHANGED <<project, Waiters>>
  BY PluginsOnly, OthersKeep DEF Waiters, Local, Routing
<1>2. CASE Ports
  <2>1. \A i \in Ids : project.fixed[i] \in Nat
    BY DEF ProjectType
  <2>2. CASE Probe \/ PortsChosen
    BY <1>1, <2>2 DEF Probe, PortsChosen
  <2>3. ASSUME NEW i \in Ids, Reserve(i) \/ Grab(i) PROVE TypeOK'
    <3>1. lastPort' \in Nat /\ \E n \in Nat : port' = [port EXCEPT ![i] = n]
      <4>1. CASE Reserve(i)
        BY <2>1, <4>1 DEF Reserve
      <4>2. CASE Grab(i)
        <5>1. lastPort' = ListenPort + 1 /\ port' = [port EXCEPT ![i] = lastPort]
          BY <4>2 DEF Grab
        <5>2. lastPort \in Nat /\ lastPort' \in Nat
          BY <5>1
        <5> QED
          BY <5>1, <5>2
      <4> QED
        BY <2>3, <4>1, <4>2
    <3>3. port' \in [Ids -> Nat]
      BY <3>1
    <3>2. UNCHANGED <<pc, project, hosts, asked, ctx, proc, plugs, shared, result>>
      BY <2>3 DEF Reserve, Grab
    <3> QED
      BY <1>1, <3>1, <3>2, <3>3
  <2>4. ASSUME NEW i \in Ids, PortTaken(i) PROVE TypeOK'
    BY <1>1, <2>4 DEF PortTaken
  <2> QED
    BY <1>2, <2>2, <2>3, <2>4 DEF Ports
<1>3. CASE AddHosts \/ AddHostsFails \/ StartFails \/ StartWaiters \/ HandshakeFails \/ VarsPanic
  BY <1>1, <1>3, RunAssumption
     DEF AddHosts, AddHostsFails, StartFails, StartWaiters, HandshakeFails, VarsPanic
<1>5. CASE \E a \in Local : StartLocal(a) \/ StopApp(a) \/ AppExits(a)
  BY <1>1, <1>5 DEF StartLocal, StopApp, AppExits
<1>6. CASE HealthCanceled \/ CheckHealth \/ Cleanup \/ CleanupFails \/ Join \/ AllUp \/ Interrupt
  <2>1. CASE HealthCanceled \/ AllUp \/ Interrupt
    BY <1>1, <2>1 DEF HealthCanceled, AllUp, Interrupt
  <2>2. CASE CheckHealth \/ Cleanup \/ CleanupFails
    BY <1>1, <2>2 DEF CheckHealth, Cleanup, CleanupFails, Restored
  <2>3. CASE Join
    BY <1>1, <2>3 DEF Join
  <2> QED
    BY <1>6, <2>1, <2>2, <2>3
<1>7. CASE Fail \/ Stop
  <2>1. errCh # <<>> => Head(errCh) \in Errors
    OBVIOUS
  <2>2. CASE Fail
    BY <1>1, <2>1, <2>2 DEF Fail
  <2>3. CASE Stop
    BY <1>1, <2>1, <2>3 DEF Stop
  <2> QED
    BY <1>7, <2>2, <2>3
<1>8. ASSUME NEW s \in Streams, PluginStep(s) \/ ClosedTwice(s) PROVE TypeOK'
  <2>0. {"mute", "absent", "open", "failed", "odd", "ending", "ended"} \subseteq StreamStates
    BY DEF StreamStates
  <2>1. CASE StreamCanceled(s) \/ StreamBreaks(s) \/ StreamOdd(s) \/ ClosedTwice(s)
    BY <1>1, <2>0, <2>1 DEF StreamCanceled, StreamBreaks, StreamOdd, ClosedTwice
  <2>5. CASE StartPlugin(s) \/ StartEmpty(s)
    BY SMTT(30), <1>1, <2>0, <2>5 DEF StartPlugin, StartEmpty
  <2>6. CASE StartMute(s) \/ Handshake(s)
    BY <1>1, <2>0, <2>6 DEF StartMute, Handshake
  <2>2. CASE SendStreamError(s)
    BY <1>1, <2>0, <2>2 DEF SendStreamError
  <2>3. CASE CloseStream(s)
    BY <1>1, <2>0, <2>3 DEF CloseStream
  <2>4. CASE Watch(s)
    BY <1>1, <2>4 DEF Watch
  <2> QED
    BY <1>8, <2>1, <2>2, <2>3, <2>4, <2>5, <2>6 DEF PluginStep
<1>9. ASSUME NEW w \in Waiters, Assign(w) \/ Check(w) \/ Send(w) PROVE TypeOK'
  <2>1. WaitResults(w) \subseteq Errors
    BY WaitTypes, <1>a
  <2>2. CASE Assign(w)
    BY <1>1, <2>1, <2>2 DEF Assign
  <2>3. CASE Check(w)
    BY <1>1, <2>3 DEF Check
  <2>4. CASE Send(w)
    <3>1. errCh' = <<err>> /\ err \in Errors
      BY <2>4 DEF Send
    <3>2. errCh' \in Seq(Errors) /\ Len(errCh') <= 1
      BY <3>1
    <3> QED
      BY <1>1, <2>4, <3>2 DEF Send
  <2> QED
    BY <1>9, <2>2, <2>3, <2>4
<1>10. CASE UNCHANGED vars
  BY <1>1, <1>10 DEF vars
<1> QED
  BY <1>2, <1>3, <1>5, <1>6, <1>7, <1>8, <1>9, <1>10 DEF Next, Main, Goroutine, PluginStep

-----------------------------------------------------------------------------
(* Ports *)

\* A port is given only if nobody has it yet, by grabPort or as run.port.
LEMMA PortStep == TypeOK /\ PortsDistinct /\ [Next]_vars => PortsDistinct'
<1> SUFFICES ASSUME TypeOK, PortsDistinct, [Next]_vars PROVE PortsDistinct'
  OBVIOUS
<1>1. CASE UNCHANGED port
  BY <1>1 DEF PortsDistinct
<1>2. ASSUME NEW i \in Ids, Reserve(i) \/ Grab(i) PROVE PortsDistinct'
  <2>1. PICK n : n \notin Used /\ port' = [port EXCEPT ![i] = n]
    BY <1>2 DEF Reserve, Grab
  <2> QED
    BY <2>1 DEF PortsDistinct, Used, TypeOK
<1> QED
  BY <1>1, <1>2, PluginsOnly
     DEF vars, ports, Next, Ports, Main, Goroutine, PluginStep, PortTaken, Probe, PortsChosen, AddHosts,
     AddHostsFails, HandshakeFails, VarsPanic, StartLocal, StartFails, StartWaiters, Interrupt,
     AppExits, StopApp, ClosedTwice, Assign, Check, Send, AllUp, HealthCanceled, CheckHealth, Fail,
     Stop, Cleanup, CleanupFails, Join

-----------------------------------------------------------------------------
(* Streams, and the channel of a group *)

\* What does not read or write the streams does not disturb what is known of them.
LEMMA PlugsKept ==
    ASSUME StreamsAgree, ErrorsKept, UNCHANGED <<project, plugs>>, ctx' = "live" => ctx = "live"
    PROVE  StreamsAgree' /\ ErrorsKept'
<1>1. StreamsAgree'
  BY DEF StreamsAgree, StreamsOf, plugs
<1>2. ErrorsKept'
  BY DEF ErrorsKept, ErrorSeen, StreamsOf, plugs
<1> QED
  BY <1>1, <1>2

\* A stream that has started, failed, or ended agrees with what is known of it.
LEMMA StreamStep ==
    ASSUME TypeOK, StreamsAgree, NEW s \in Streams, PluginStep(s)
    PROVE  StreamsAgree'
<1> USE DEF TypeOK, StreamsAgree
<1>1. project' = project /\ ctx' = ctx /\ \A g : StreamsOf(g)' = StreamsOf(g)
  BY PluginsOnly DEF StreamsOf
<1>2. CASE StartPlugin(s) \/ StartEmpty(s) \/ StartMute(s)
  BY <1>1, <1>2 DEF StartPlugin, StartEmpty, StartMute, Starts, Unstarted
<1>3. CASE Handshake(s)
  BY <1>1, <1>3 DEF Handshake
<1>4. CASE StreamBreaks(s) \/ StreamOdd(s)
  BY <1>1, <1>4 DEF StreamBreaks, StreamOdd
<1>5. CASE StreamCanceled(s) \/ SendStreamError(s) \/ CloseStream(s)
  BY <1>1, <1>5 DEF StreamCanceled, SendStreamError, CloseStream
<1>6. CASE Watch(s)
  BY <1>1, <1>6 DEF Watch
<1> QED
  BY <1>2, <1>3, <1>4, <1>5, <1>6 DEF PluginStep

\* The error a stream sends is in the channel until one watcher has read it, and the
\* channel is closed after that.
LEMMA ChannelStep ==
    ASSUME TypeOK, StreamsAgree, ErrorsKept, NEW s \in Streams, PluginStep(s)
    PROVE  ErrorsKept'
<1> USE DEF TypeOK
<1>1. /\ \A g \in Groups : StreamsOf(g)' = StreamsOf(g) /\ StreamsOf(g) \subseteq Streams
      /\ \A g \in Groups : \A t \in StreamsOf(g) : t[1] = g
      /\ s[1] \in Groups
  BY StreamsOfGroups, PluginsOnly DEF StreamsOf
<1>2. CASE StartPlugin(s) \/ StartEmpty(s) \/ StartMute(s) \/ Handshake(s)
  <2>1. /\ stream[s] \in {"none", "mute"} /\ seen[s] = "none" /\ s \notin broke
        /\ stream' = [stream EXCEPT ![s] = stream'[s]] /\ stream'[s] \in {"mute", "absent", "open"}
        /\ seen' = [seen EXCEPT ![s] = seen'[s]] /\ seen'[s] \in {"none", "waiting"}
        /\ UNCHANGED <<broke, odd, sent, closed>>
    <3>1. CASE StartPlugin(s)
      BY <3>1 DEF StartPlugin, Starts, StreamsAgree
    <3>2. CASE StartEmpty(s)
      BY <3>2 DEF StartEmpty, Starts, StreamsAgree
    <3>3. CASE StartMute(s)
      BY <3>3 DEF StartMute, Starts, StreamsAgree
    <3>4. CASE Handshake(s)
      BY <3>4 DEF Handshake, StreamsAgree
    <3> QED
      BY <1>2, <3>1, <3>2, <3>3, <3>4
  <2>2. \A g \in Groups : ErrorSeen(g)' <=> ErrorSeen(g)
    BY <1>1, <2>1 DEF ErrorSeen
  <2> QED
    BY <1>1, <2>1, <2>2 DEF ErrorsKept
<1>3. CASE StreamBreaks(s)
  <2>1. /\ stream[s] = "open" /\ stream' = [stream EXCEPT ![s] = "failed"] /\ broke' = broke \cup {s}
        /\ UNCHANGED <<odd, seen, sent, closed>>
    BY <1>3 DEF StreamBreaks
  <2>2. \A g \in Groups : ErrorSeen(g)' <=> ErrorSeen(g)
    BY <1>1, <2>1 DEF ErrorSeen
  <2> QED
    BY <1>1, <2>1, <2>2 DEF ErrorsKept
<1>4. CASE StreamOdd(s)
  <2>1. /\ stream[s] = "open" /\ s \notin broke /\ stream' = [stream EXCEPT ![s] = "odd"]
        /\ odd' = odd \cup {s} /\ UNCHANGED <<broke, seen, sent, closed>>
    BY <1>4 DEF StreamOdd, StreamsAgree
  <2>2. \A g \in Groups : ErrorSeen(g)' <=> ErrorSeen(g)
    BY <1>1, <2>1 DEF ErrorSeen
  <2> QED
    BY <1>1, <2>1, <2>2 DEF ErrorsKept
<1>5. CASE StreamCanceled(s)
  <2>1. /\ stream[s] = "open" /\ s \notin broke /\ stream' = [stream EXCEPT ![s] = "ending"]
        /\ UNCHANGED <<broke, odd, seen, sent, closed>>
    BY <1>5 DEF StreamCanceled, StreamsAgree
  <2>2. \A g \in Groups : ErrorSeen(g)' <=> ErrorSeen(g)
    BY <1>1, <2>1 DEF ErrorSeen
  <2> QED
    BY <1>1, <2>1, <2>2 DEF ErrorsKept
<1>6. CASE SendStreamError(s) /\ stream[s] = "failed"
  <2>1. /\ s \in broke /\ s \in StreamsOf(s[1]) /\ ~closed[s[1]] /\ sent[s[1]] = "none"
        /\ stream' = [stream EXCEPT ![s] = "ending"] /\ sent' = [sent EXCEPT ![s[1]] = "error"]
        /\ UNCHANGED <<broke, odd, seen, closed>>
    BY <1>6 DEF SendStreamError, StreamsAgree
  <2>2. \A g \in Groups : ErrorSeen(g)' <=> ErrorSeen(g)
    BY <1>1, <2>1 DEF ErrorSeen
  <2> QED
    BY <1>1, <2>1, <2>2, <1>6 DEF ErrorsKept
<1>7. CASE SendStreamError(s) /\ stream[s] = "odd"
  <2>1. /\ s \in odd /\ s \notin broke /\ s \in StreamsOf(s[1]) /\ sent[s[1]] = "none"
        /\ stream' = [stream EXCEPT ![s] = "ending"] /\ sent' = [sent EXCEPT ![s[1]] = "nil"]
        /\ UNCHANGED <<broke, odd, seen, closed>>
    BY <1>7 DEF SendStreamError, StreamsAgree
  <2>2. \A g \in Groups : ErrorSeen(g)' <=> ErrorSeen(g)
    BY <1>1, <2>1 DEF ErrorSeen
  <2> QED
    BY <1>1, <2>1, <2>2, <1>7 DEF ErrorsKept
<1>8. CASE CloseStream(s)
  <2>1. /\ stream[s] = "ending" /\ s \in StreamsOf(s[1])
        /\ stream' = [stream EXCEPT ![s] = "ended"] /\ closed' = [closed EXCEPT ![s[1]] = TRUE]
        /\ UNCHANGED <<broke, odd, seen, sent>>
    BY <1>8 DEF CloseStream, StreamsAgree
  <2>2. \A g \in Groups : ErrorSeen(g)' <=> ErrorSeen(g)
    BY <1>1, <2>1 DEF ErrorSeen
  <2> QED
    BY <1>1, <2>1, <2>2 DEF ErrorsKept
<1>9. CASE Watch(s)
  <2>1. /\ seen[s] = "waiting" /\ s \in StreamsOf(s[1]) /\ (sent[s[1]] # "none" \/ closed[s[1]])
        /\ seen' = [seen EXCEPT ![s] = IF sent[s[1]] = "error" THEN "error" ELSE "nil"]
        /\ sent' = [sent EXCEPT ![s[1]] = "none"]
        /\ UNCHANGED <<broke, odd, stream, closed>>
    BY <1>9 DEF Watch, StreamsAgree
  <2>2. ASSUME NEW g \in Groups
        PROVE  ErrorSeen(g)' <=> ErrorSeen(g) \/ (g = s[1] /\ sent[g] = "error")
    <3>1. ErrorSeen(g)' <=> \E t \in StreamsOf(g) : seen'[t] = "error"
      BY <1>1 DEF ErrorSeen
    <3>2. \A t \in StreamsOf(g) : t # s => seen'[t] = seen[t]
      BY <1>1, <2>1
    <3>3. seen'[s] = "error" <=> sent[s[1]] = "error"
      BY <2>1
    <3>4. s \in StreamsOf(g) <=> g = s[1]
      BY <1>1, <2>1
    <3> QED
      BY <2>1, <3>1, <3>2, <3>3, <3>4 DEF ErrorSeen
  <2>3. \A g \in Groups : \A t \in StreamsOf(g) :
           seen'[t] = "nil" => (closed[g] /\ sent'[g] = "none") \/ odd \cap StreamsOf(g) # {}
    BY <1>1, <2>1 DEF ErrorsKept
  <2> QED
    BY <1>1, <2>1, <2>2, <2>3 DEF ErrorsKept
<1> QED
  BY <1>2, <1>3, <1>4, <1>5, <1>6, <1>7, <1>8, <1>9 DEF PluginStep, SendStreamError

\* While the context is live a group cannot end without an error, unless a stream was odd.
LEMMA LiveGroupsFail ==
    ASSUME TypeOK, StreamsAgree, ErrorsKept, ctx = "live", odd = {}, NEW w \in Waiters
    PROVE  WaitResults(w) \subseteq {"error"}
<1>1. CASE w \in Groups
  <2>1. StreamsOf(w) # {}
    BY <1>1 DEF Waiters, StreamsOf, Groups
  <2>2. SeenIn(w) # {"nil"}
    <3> SUFFICES ASSUME \A t \in StreamsOf(w) : seen[t] = "nil" PROVE FALSE
      BY <2>1 DEF SeenIn
    <3>1. closed[w] /\ sent[w] = "none" /\ ~ErrorSeen(w)
      BY <1>1, <2>1 DEF ErrorsKept, ErrorSeen
    <3>2. PICK t \in StreamsOf(w) : stream[t] = "ended"
      BY <1>1, <3>1 DEF ErrorsKept
    <3>3. t \in broke
      BY <1>1, <3>2, StreamsOfGroups DEF StreamsAgree
    <3> QED
      BY <1>1, <3>1, <3>2, <3>3 DEF ErrorsKept
  <2> QED
    BY <1>1, <2>2, WaitTypes DEF PluginResults
<1>2. CASE w \notin Groups
  BY <1>2 DEF Waiters, WaitResults, LocalResults, ServerResults
<1> QED
  BY <1>1, <1>2

-----------------------------------------------------------------------------
(* The invariant *)

LEMMA RunInit == Init => IInv
<1> SUFFICES ASSUME Init PROVE IInv
  OBVIOUS
<1>1. TypeOK
  BY TypeInit
<1>2. PortsDistinct /\ NoneFinished
  BY DEF Init, PortsDistinct, NoneFinished
<1>3. StreamsAgree
  BY DEF Init, StreamsAgree
<1>4. ErrorsKept
  BY <1>1, StreamsOfGroups DEF Init, ErrorsKept, ErrorSeen
<1> QED
  BY <1>1, <1>2, <1>3, <1>4 DEF IInv

\* A step of main, of a goroutine, of a plugin, an app or the user keeps it.
LEMMA RunStep == IInv /\ [Next]_vars => IInv'
<1> SUFFICES ASSUME IInv, [Next]_vars PROVE (StreamsAgree /\ ErrorsKept /\ NoneFinished)'
  BY TypeStep, PortStep DEF IInv
<1> DEFINE Good == (StreamsAgree /\ ErrorsKept /\ NoneFinished)'
<1> USE DEF IInv, ports, shared, Return
<1>0. ASSUME UNCHANGED <<project, waiter, err>>, pc' = "health" => pc = "health",
             ctx' = "live" => ctx = "live", odd \subseteq odd'
      PROVE  NoneFinished'
  BY <1>0 DEF NoneFinished, Waiters, Local, Routing
<1>1. ASSUME NEW s \in Streams, PluginStep(s) PROVE Good
  <2>1. UNCHANGED <<project, waiter, err, pc, ctx>> /\ odd \subseteq odd'
    BY <1>1, PluginsOnly
  <2> QED
    BY <1>0, <1>1, <2>1, StreamStep, ChannelStep
<1>2. CASE StartWaiters
  <2>1. UNCHANGED <<project, plugs, ctx>> /\ Waiters' = Waiters
    BY <1>2 DEF StartWaiters, Waiters, Local, Routing
  <2>2. NoneFinished'
    BY <1>2, <2>1, StreamsOfGroups DEF StartWaiters, NoneFinished, TypeOK
  <2> QED
    BY <2>1, <2>2, PlugsKept
<1>3. ASSUME NEW w \in Waiters, Assign(w) \/ Check(w) \/ Send(w) PROVE Good
  <2>1. /\ UNCHANGED <<project, plugs, pc>> /\ Waiters' = Waiters /\ (ctx' = "live" => ctx = "live")
        /\ Waiters \subseteq DOMAIN waiter
    BY <1>3, StreamsOfGroups DEF Assign, Check, Send, Waiters, Local, Routing, TypeOK
  <2>2. ASSUME Assign(w) PROVE NoneFinished'
    <3>1. odd' = {} => odd = {}
      BY <2>1 DEF plugs
    <3> QED
      BY <2>1, <2>2, <3>1, LiveGroupsFail DEF Assign, NoneFinished, TypeOK
  <2>3. ASSUME Check(w) PROVE NoneFinished'
    BY <2>1, <2>3 DEF Check, NoneFinished, TypeOK, plugs
  <2>4. ASSUME Send(w) PROVE NoneFinished'
    BY <2>1, <2>4 DEF Send, NoneFinished, TypeOK, plugs
  <2> QED
    BY <1>3, <2>1, <2>2, <2>3, <2>4, PlugsKept
<1>4. CASE AllUp \/ HealthCanceled
  BY <1>4, PlugsKept DEF AllUp, HealthCanceled, NoneFinished
<1>5. CASE \/ Ports \/ AddHosts \/ AddHostsFails \/ StartFails \/ HandshakeFails \/ VarsPanic
           \/ \E a \in Local : StartLocal(a) \/ StopApp(a) \/ AppExits(a)
  BY <1>0, <1>5, PlugsKept DEF Ports, Reserve, PortTaken, Probe, Grab, PortsChosen, AddHosts,
     AddHostsFails, StartFails, HandshakeFails, VarsPanic, StartLocal, StopApp, AppExits, plugs
<1>6. CASE \/ CheckHealth \/ Fail \/ Stop \/ Cleanup \/ CleanupFails \/ Join \/ Interrupt
           \/ \E s \in Streams : ClosedTwice(s)
  BY <1>0, <1>6, PlugsKept
     DEF CheckHealth, Fail, Stop, Cleanup, CleanupFails, Join, Interrupt, ClosedTwice, plugs
<1>7. CASE UNCHANGED vars
  BY <1>0, <1>7, PlugsKept DEF vars, plugs
<1> QED
  BY <1>1, <1>2, <1>3, <1>4, <1>5, <1>6, <1>7 DEF Next, Main, Goroutine, PluginStep

\* Every app and dependency has a port of its own, the channels of the plugins lose no
\* error, and a nil is read from one only when it is closed or a stream of the group was
\* odd, for every project, all failures and every interleaving.
THEOREM Invariant == Spec => []IInv
BY RunInit, RunStep, PTL DEF Spec

\* A group of plugins fails only if one of its streams has ended by itself, and ends
\* well in spite of a sent error only if another stream of it was odd, however many
\* plugins share the channel.
THEOREM GroupErrors == Spec => []GroupErrorsAreReal
<1>1. IInv => GroupErrorsAreReal
  <2> SUFFICES ASSUME IInv, NEW g \in Groups, g \in Waiters
               PROVE  /\ "error" \in WaitResults(g) => broke \cap StreamsOf(g) # {}
                      /\ "nil" \in WaitResults(g) =>
                            \/ odd \cap StreamsOf(g) # {}
                            \/ \A s \in broke \cap StreamsOf(g) : stream[s] = "failed"
    BY DEF GroupErrorsAreReal
  <2>1. WaitResults(g) = PluginResults(g)
    BY WaitTypes
  <2>2. "error" \in PluginResults(g) => ErrorSeen(g)
    BY DEF PluginResults, SeenIn, ErrorSeen
  <2>3. "nil" \in PluginResults(g) => StreamsOf(g) # {} /\ \A s \in StreamsOf(g) : seen[s] = "nil"
    BY DEF PluginResults, SeenIn
  <2> QED
    BY <2>1, <2>2, <2>3 DEF IInv, ErrorsKept, ErrorSeen
<1> QED
  BY <1>1, Invariant, PTL

\* While main waits for the apps to be up, nothing that ends is taken for a success,
\* unless a stream was odd: whatever ends stops the run.
THEOREM EarlyEndsStop == Spec => []FailureStopsStart
<1>1. IInv => FailureStopsStart
  BY DEF IInv, NoneFinished, FailureStopsStart
<1> QED
  BY <1>1, Invariant, PTL
-----------------------------------------------------------------------------
(* What wg.Wait can hang on *)

\* The guards of StopApp; of StreamCanceled, SendStreamError, CloseStream, ClosedTwice
\* and Watch; and of Assign, Check and Send.
CanMove ==
    \/ \E a \in Local : proc[a] = "running" /\ ctx = "canceled" /\ due # {}
    \/ \E s \in Streams :
          \/ stream[s] = "open" /\ (ctx = "canceled" \/ closed[s[1]])
          \/ stream[s] \in {"failed", "odd"} /\ (closed[s[1]] \/ sent[s[1]] = "none")
          \/ stream[s] = "ending"
          \/ seen[s] = "waiting" /\ (sent[s[1]] # "none" \/ closed[s[1]])
    \/ \E w \in Waiters :
          \/ waiter[w] = "waiting" /\ WaitResults(w) # {}
          \/ waiter[w] = "assigned"
          \/ waiter[w] = "sending" /\ errCh = <<>>

\* A goroutine is counted by wg until it has ended, all it waits for was started, and
\* a reader leaves its channel closed.
Tracked ==
    /\ due # {} => Started
    /\ pc \in {"returned", "joining"} => ctx = "canceled"
    /\ \A w \in due : waiter[w] \in {"waiting", "assigned", "sending"}
    /\ \A s \in Streams :
          /\ stream[s] \notin {"none", "mute"} => seen[s] # "none"
          /\ stream[s] = "ended" => closed[s[1]]

LEMMA TrackedInit == Init => Tracked
BY DEF Init, Tracked

\* What was started stays started.
LEMMA StartedStays ==
    ASSUME UNCHANGED project,
           \A s \in Streams : stream'[s] \in {"none", "mute"} => stream[s] \in {"none", "mute"},
           \A a \in Local : proc'[a] = "none" => proc[a] = "none",
           TypeOK, Started
    PROVE  Started'
BY StreamsOfGroups DEF Started, Unstarted, StreamsOf, Local

LEMMA TrackedStep == TypeOK /\ Tracked /\ [Next]_vars => Tracked'
<1> SUFFICES ASSUME TypeOK, Tracked, [Next]_vars PROVE Tracked'
  OBVIOUS
<1>0. /\ Local \subseteq AppIds /\ Waiters \subseteq Groups \cup {"local", "http"}
      /\ due \subseteq Waiters /\ \A s \in Streams : s[1] \in Groups
  BY StreamsOfGroups DEF TypeOK
<1> USE DEF ports, shared, plugs, Return
<1>1. ASSUME UNCHANGED <<project, stream, seen, closed, proc, due, waiter>>,
             pc' \in {"returned", "joining"} => ctx' = "canceled"
      PROVE  Tracked'
  BY <1>1 DEF Tracked, Started, Unstarted, StreamsOf, Local
<1>2. CASE \/ Ports \/ AddHosts \/ AddHostsFails \/ StartFails \/ HealthCanceled \/ AllUp
           \/ HandshakeFails \/ VarsPanic
           \/ CheckHealth \/ Fail \/ Stop \/ Cleanup \/ CleanupFails \/ Join \/ Interrupt
           \/ (\E s \in Streams : ClosedTwice(s)) \/ UNCHANGED vars
  <2>1. CASE \/ AddHosts \/ AddHostsFails \/ StartFails \/ HealthCanceled \/ AllUp
             \/ HandshakeFails \/ VarsPanic
             \/ CheckHealth \/ Fail \/ Stop \/ Cleanup \/ CleanupFails \/ Join \/ Interrupt
    BY <1>1, <2>1 DEF Tracked, AddHosts, AddHostsFails, StartFails, HealthCanceled, AllUp,
       HandshakeFails, VarsPanic, CheckHealth, Fail, Stop, Cleanup, CleanupFails, Join, Interrupt
  <2>2. CASE Ports
    BY <1>1, <2>2 DEF Tracked, Ports, Reserve, PortTaken, Probe, Grab, PortsChosen
  <2>3. CASE (\E s \in Streams : ClosedTwice(s)) \/ UNCHANGED vars
    BY <1>1, <2>3 DEF Tracked, ClosedTwice, vars
  <2> QED
    BY <1>2, <2>1, <2>2, <2>3
<1>3. CASE StartWaiters
  <2>1. Started' /\ due' = Waiters /\ \A w \in Waiters : waiter'[w] = "waiting"
    BY <1>0, <1>3 DEF StartWaiters, Started, Unstarted, StreamsOf, Local, TypeOK
  <2>2. UNCHANGED <<stream, seen, closed>> /\ pc' = "health"
    BY <1>3 DEF StartWaiters
  <2> QED
    BY <2>1, <2>2 DEF Tracked
<1>4. ASSUME NEW a \in Local, StartLocal(a) \/ StopApp(a) \/ AppExits(a) PROVE Tracked'
  <2>1. /\ UNCHANGED <<project, stream, seen, closed, due, waiter, pc, ctx>>
        /\ \A b \in Local : proc'[b] = "none" => proc[b] = "none"
    BY <1>0, <1>4 DEF StartLocal, StopApp, AppExits, TypeOK
  <2> QED
    BY <2>1, StartedStays DEF Tracked
<1>5. ASSUME NEW s \in Streams, PluginStep(s) PROVE Tracked'
  <2>1. UNCHANGED <<project, proc, due, waiter, pc, ctx>>
    BY <1>5, PluginsOnly
  <2>2. CASE StartPlugin(s) \/ StartEmpty(s) \/ StartMute(s) \/ Handshake(s)
    <3>1. /\ stream[s] \in {"none", "mute"} /\ stream' = [stream EXCEPT ![s] = stream'[s]]
          /\ stream'[s] \in {"mute", "absent", "open"}
          /\ seen' = [seen EXCEPT ![s] = seen'[s]] /\ (stream'[s] # "mute" => seen'[s] = "waiting")
          /\ UNCHANGED closed
      <4>1. CASE StartPlugin(s)
        BY <4>1 DEF StartPlugin, Starts, TypeOK
      <4>2. CASE StartEmpty(s)
        BY <4>2 DEF StartEmpty, Starts, TypeOK
      <4>3. CASE StartMute(s)
        BY <4>3 DEF StartMute, Starts, TypeOK
      <4>4. CASE Handshake(s)
        BY <4>4 DEF Handshake, TypeOK
      <4> QED
        BY <2>2, <4>1, <4>2, <4>3, <4>4
    <3>2. /\ \A t \in Streams : stream'[t] \in {"none", "mute"} => stream[t] \in {"none", "mute"}
          /\ \A t \in Streams : stream'[t] \notin {"none", "mute"} => seen'[t] # "none"
          /\ \A t \in Streams : stream'[t] = "ended" => closed'[t[1]]
      BY <3>1 DEF Tracked, TypeOK
    <3> QED
      BY <2>1, <3>2, StartedStays DEF Tracked
  <2>3. CASE \/ StreamBreaks(s) \/ StreamOdd(s) \/ StreamCanceled(s) \/ SendStreamError(s)
             \/ CloseStream(s) \/ Watch(s)
    <3>1. \A t \in Streams : stream'[t] \in {"none", "mute"} => stream[t] \in {"none", "mute"}
      BY <2>3 DEF StreamBreaks, StreamOdd, StreamCanceled, SendStreamError, CloseStream, Watch, TypeOK
    <3>2. \A t \in Streams : stream'[t] \notin {"none", "mute"} => seen'[t] # "none"
      BY <2>3 DEF Tracked, StreamBreaks, StreamOdd, StreamCanceled, SendStreamError, CloseStream,
         Watch, TypeOK
    <3>3. \A t \in Streams : stream'[t] = "ended" => closed'[t[1]]
      BY <1>0, <2>3 DEF Tracked, StreamBreaks, StreamOdd, StreamCanceled, SendStreamError,
         CloseStream, Watch, TypeOK
    <3> QED
      BY <2>1, <3>1, <3>2, <3>3, StartedStays DEF Tracked
  <2> QED
    BY <1>5, <2>2, <2>3 DEF PluginStep
<1>6. ASSUME NEW w \in Waiters, Assign(w) \/ Check(w) \/ Send(w) PROVE Tracked'
  <2>1. /\ UNCHANGED <<project, proc, stream, seen, closed, pc>>
        /\ (ctx = "canceled" => ctx' = "canceled")
    BY <1>6 DEF Assign, Check, Send
  <2>2. \A v \in due' : waiter'[v] \in {"waiting", "assigned", "sending"} /\ v \in due
    BY <1>0, <1>6 DEF Tracked, Assign, Check, Send, TypeOK
  <2> QED
    BY <2>1, <2>2, StartedStays DEF Tracked
<1> QED
  BY <1>2, <1>3, <1>4, <1>5, <1>6 DEF Next, Main, Goroutine, PluginStep

\* The watchers and readers of a group end once the context is canceled: as long as
\* the group has no result, one of them can go on, unless no stream was answered.
LEMMA GroupsEnd ==
    ASSUME TypeOK, StreamsAgree, Tracked, NEW g \in Groups \cap Waiters,
           g \in due, ctx = "canceled", PluginResults(g) = {},
           \E s \in StreamsOf(g) : stream[s] # "absent"
    PROVE  \E s \in StreamsOf(g) :
              \/ stream[s] \in {"open", "ending"}
              \/ stream[s] \in {"failed", "odd"} /\ sent[g] = "none"
              \/ seen[s] = "waiting" /\ (sent[g] # "none" \/ closed[g])
<1>1. \A s \in StreamsOf(g) : s \in Streams /\ s[1] = g /\ stream[s] \notin {"none", "mute"}
  BY StreamsOfGroups DEF Tracked, Started, Unstarted
<1>2. PICK u \in StreamsOf(g) : seen[u] = "waiting"
  <2>1. \A s \in StreamsOf(g) : seen[s] \in {"waiting", "nil", "error"}
    BY <1>1 DEF Tracked, TypeOK
  <2>2. StreamsOf(g) # {}
    BY DEF Waiters, StreamsOf, Groups
  <2>3. SeenIn(g) # {"nil"} /\ "error" \notin SeenIn(g)
    BY DEF PluginResults
  <2> QED
    BY <2>1, <2>2, <2>3 DEF SeenIn
<1>3. CASE sent[g] # "none" \/ closed[g]
  BY <1>2, <1>3
<1>4. CASE sent[g] = "none" /\ ~closed[g]
  <2>1. PICK s \in StreamsOf(g) : stream[s] # "absent"
    OBVIOUS
  <2>2. stream[s] \in {"open", "failed", "odd", "ending", "ended"}
    BY <1>1, <2>1 DEF TypeOK, StreamStates
  <2>3. stream[s] # "ended"
    BY <1>1, <1>4 DEF Tracked
  <2> QED
    BY <1>4, <2>1, <2>2, <2>3
<1> QED
  BY <1>3, <1>4

\* While main waits for its goroutines, one of them can always go on, for every
\* project, all failures and all interleavings, but for two causes: two of them report
\* an error, and the second blocks on the channel of capacity 1 that nobody reads any
\* more; or no plugin of a group has answered, and nobody closes the group's channel.
THEOREM OnlyKnownCausesBlock ==
    Spec => [](pc = "joining" /\ due # {} /\ ~TwoReports /\ ~Unanswered => CanMove)
<1>1. IInv /\ Tracked => (pc = "joining" /\ due # {} /\ ~TwoReports /\ ~Unanswered => CanMove)
  <2> SUFFICES ASSUME IInv, Tracked, pc = "joining", ~TwoReports, ~Unanswered, NEW w \in due
               PROVE  CanMove
    OBVIOUS
  <2>1. ctx = "canceled" /\ w \in Waiters /\ waiter[w] \in {"waiting", "assigned", "sending"}
    BY DEF Tracked, IInv, TypeOK
  <2>2. CASE waiter[w] \in {"assigned", "sending"}
    BY <2>1, <2>2 DEF TwoReports, CanMove
  <2>3. CASE waiter[w] = "waiting" /\ WaitResults(w) # {}
    BY <2>1, <2>3 DEF CanMove
  <2>4. CASE waiter[w] = "waiting" /\ WaitResults(w) = {}
    <3>1. w # "http"
      BY <2>1, <2>4 DEF WaitResults, ServerResults
    <3>2. CASE w = "local"
      <4>1. PICK a \in Local : TRUE
        BY <2>1, <3>2 DEF Waiters, Groups
      <4>2. proc[a] = "running"
        BY <2>4, <3>2, StreamsOfGroups
           DEF WaitResults, LocalResults, Tracked, Started, IInv, TypeOK
      <4> QED
        BY <2>1, <4>2 DEF CanMove
    <3>3. CASE w \in Groups
      <4>1. PICK s \in StreamsOf(w) :
                \/ stream[s] \in {"open", "ending"}
                \/ stream[s] \in {"failed", "odd"} /\ sent[w] = "none"
                \/ seen[s] = "waiting" /\ (sent[w] # "none" \/ closed[w])
        BY <2>1, <2>4, <3>3, WaitTypes, GroupsEnd DEF IInv, Unanswered
      <4>2. s \in Streams /\ s[1] = w
        BY <3>3, StreamsOfGroups DEF IInv
      <4> QED
        BY <2>1, <4>1, <4>2 DEF CanMove
    <3> QED
      BY <2>1, <3>1, <3>2, <3>3 DEF Waiters
  <2> QED
    BY <2>1, <2>2, <2>3, <2>4
<1>2. IInv /\ Tracked /\ [Next]_vars => Tracked'
  BY TrackedStep DEF IInv
<1> QED
  BY <1>1, <1>2, TrackedInit, Invariant, PTL DEF Spec
=============================================================================
