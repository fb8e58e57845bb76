---------------------------- MODULE LifecycleProofs ----------------------------
(***************************************************************************)
(* Proofs about hooks and daemons, for every number of hooks and daemons   *)
(* and with crashes at any step, when the editor waits for a hook before   *)
(* it fires the next and a daemon starts and answers in time.              *)
(***************************************************************************)
EXTENDS HookLifecycle, FiniteSetTheorems, TLAPS

Sequential == ~Concurrent /\ ~Slow /\ ~Signals

(* What somebody else does to what hooks and daemons share: the state file
   is there, or a request of the MCP server is queued or taken.            *)
Outside ==
  \/ saved' = TRUE
     /\ UNCHANGED <<editorVars, files, hookVars, daemonVars>>
  \/ /\ Reachable
     /\ queue' = [queue EXCEPT ![files["sock"]] = Append(@, Mcp)]
     /\ UNCHANGED <<editorVars, files, saved, hookVars, dpc, booted, counted>>
  \/ \E d \in Daemon :
       /\ dpc[d] = "serve" /\ queue[d] # <<>> /\ Head(queue[d]) = Mcp
       /\ queue' = [queue EXCEPT ![d] = Tail(@)]
       /\ UNCHANGED <<editorVars, files, saved, hookVars, dpc, booted, counted>>

Step == Next \/ Outside

-----------------------------------------------------------------------------
(* The inductive invariant, in parts. *)
Types ==
  /\ open \in BOOLEAN /\ saved \in BOOLEAN
  /\ files \in [File -> Daemon \cup {NoOne}]
  /\ hpc \in [Hook -> HookPc]
  /\ event \in [Hook -> Event]
  /\ child \in [Hook -> Daemon \cup {NoOne}]
  /\ got \in [Hook -> {"none", "answer", "open"}]
  /\ dpc \in [Daemon -> DaemonPc]
  /\ queue \in [Daemon -> Seq(Hook \cup {Mcp})]
  /\ booted \in [Daemon -> BOOLEAN]
  /\ counted \in [Daemon -> Nat]

AtWork(h)    == hpc[h] \notin {"idle", "done"}
Replacing(h) == hpc[h] \in {"rm sock", "rm pid", "rm ready", "spawn"}

Starting(d) == dpc[d] \in {"rm sock", "rm pid", "rm ready", "bind", "write pid", "write ready"}

(* From its start until its pid file is gone. *)
Present(d) == Starting(d) \/ dpc[d] \in {"serve", "close", "rm sock!", "rm pid!"}

(* One hook at a time; it knows what it was fired for. *)
OneHook ==
  /\ \A g, h \in Hook : AtWork(g) /\ AtWork(h) => g = h
  /\ \A h \in Hook : AtWork(h) => (event[h] = "stop" <=> ~open)
  /\ \A h \in Hook :
       /\ hpc[h] = "forget" => event[h] = "stop"
       /\ hpc[h] \notin {"forget", "done"} => got[h] = "none"
       /\ hpc[h] = "wait" => child[h] \in Daemon /\ dpc[child[h]] # "unborn"

(* One daemon at a time; the hook that spawned it waits while it starts, and
   a hook that replaces a daemon replaces none that is present.            *)
OneDaemon ==
  /\ \A c, d \in Daemon : Present(c) /\ Present(d) => c = d
  /\ \A d \in Daemon : Starting(d) => \E h \in Hook : hpc[h] = "wait" /\ child[h] = d
  /\ \A h \in Hook : Replacing(h) => \A d \in Daemon : ~Present(d)
  /\ \A d \in Daemon : dpc[d] \notin {"term sock", "term pid", "term ready"}

(* Whose the files are. *)
Owners ==
  /\ \A f \in File : files[f] # NoOne => dpc[files[f]] # "unborn"
  /\ \A d \in Daemon :
       /\ dpc[d] \in {"rm pid", "rm ready", "bind"} => files["sock"] = NoOne
       /\ dpc[d] = "write pid" => files["sock"] = d
       /\ dpc[d] \in {"write ready", "serve", "close", "rm sock!"} =>
            files["sock"] = d /\ files["pid"] = d
       /\ dpc[d] = "rm pid!" => files["pid"] = d
       /\ Starting(d) => files["ready"] = NoOne
  /\ \A h \in Hook : hpc[h] = "spawn" => files["ready"] = NoOne

Control == Types /\ OneHook /\ OneDaemon /\ Owners

(* A request that is queued is that of a hook that waits for its answer, and
   it is queued once, with a daemon that listens.                          *)
Among(c, q) == \E i \in DOMAIN q : q[i] = c
Once(c, q)  == \A i, j \in DOMAIN q : q[i] = c /\ q[j] = c => i = j

InQueue(c, d) == Among(c, queue[d])

Served == {h \in Hook : hpc[h] = "done"}

Queues ==
  /\ \A d \in Daemon : queue[d] # <<>> => Listening(d)
  /\ \A d \in Daemon, h \in Hook : InQueue(h, d) => hpc[h] = "reply"
  /\ \A d \in Daemon, h \in Hook : Once(h, queue[d])
  /\ \A d \in Daemon : counted[d] <= Cardinality(Served)
  /\ \A d \in Daemon : dpc[d] = "unborn" \/ Starting(d) => counted[d] = 0

(* As long as no daemon has left: one serves whenever a hook relies on it,
   the first one is spawned by the first hook, and if it has an engine it
   has counted every action it answered.                                   *)
NoneLeft == \A d \in Daemon : dpc[d] \notin Leaving

Rules ==
  /\ \A h \in Hook : got[h] # "open" /\ hpc[h] # "forget"
  /\ \A h \in Hook : hpc[h] = "send" \/ (hpc[h] = "probe" /\ event[h] # "sessionStart")
                       => \E d \in Daemon : Serving(d)
  /\ open /\ (\A h \in Hook : ~AtWork(h)) => \E d \in Daemon : Serving(d)
  /\ \A h \in Hook : hpc[h] = "reply" => \E d \in Daemon : Serving(d) /\ InQueue(h, d)
  /\ \A h \in Hook : Replacing(h) \/ hpc[h] \in {"save", "wait"} => event[h] = "sessionStart"
  /\ \A h \in Hook : AtWork(h) /\ event[h] = "sessionStart" => Answered = {}
  /\ ~open /\ (\A h \in Hook : ~AtWork(h)) => Answered = {}
  /\ \A d \in Daemon : Serving(d) => files["ready"] = d
  /\ \A d \in Daemon : Serving(d) /\ booted[d] => counted[d] = Cardinality(Answered)

Governed == NoneLeft => Rules

Life == Control /\ Queues /\ Governed

-----------------------------------------------------------------------------
(* A daemon is not the absence of one. *)
LEMMA DaemonIsSome == NoOne \notin Daemon
<1>1. \A n : NoOne \notin 1..n
  BY DEF NoOne
<1> QED
  BY <1>1, LifecycleAssumption

(* What the editor fires is an event. *)
LEMMA FiredIsEvent == Fired \subseteq Event
BY LifecycleAssumption

(* What the first request of a queue that is not the MCP server's is. *)
LEMMA HeadIsHook ==
  ASSUME Types, NEW d \in Daemon, queue[d] # <<>>, Head(queue[d]) # Mcp
  PROVE  /\ Head(queue[d]) \in Hook /\ Tail(queue[d]) \in Seq(Hook \cup {Mcp})
         /\ InQueue(Head(queue[d]), d)
<1>1. queue[d] \in Seq(Hook \cup {Mcp})
  BY DEF Types
<1>2. Head(queue[d]) = queue[d][1] /\ 1 \in DOMAIN queue[d]
  BY <1>1
<1> QED
  BY <1>1, <1>2 DEF InQueue, Among

(* Files, places and queues keep their types. *)
LEMMA TypesStep == Types /\ [Step]_vars => Types'
<1> SUFFICES ASSUME Types, [Step]_vars PROVE Types'
  OBVIOUS
<1> USE DEF Types
<1>1. ASSUME NEW h \in Hook, NEW e \in Event, Fire(h, e) PROVE Types'
  BY <1>1 DEF Fire, Goto, daemonVars, Event, HookPc
<1>2. ASSUME NEW h \in Hook, Save(h) \/ Forget(h) PROVE Types'
  BY <1>2 DEF Save, Forget, Goto, editorVars, daemonVars, HookPc
<1>3. ASSUME NEW h \in Hook, Probe(h) PROVE Types'
  BY <1>3 DEF Probe, Goto, Answer, editorVars, daemonVars, HookPc
<1>4. ASSUME NEW h \in Hook, Remove(h) PROVE Types'
  <2>1. hpc' \in [Hook -> HookPc] /\ UNCHANGED <<editorVars, daemonVars, saved, child, got>>
    BY <1>4 DEF Remove, Goto, HookPc
  <2>2. files' \in [File -> Daemon \cup {NoOne}]
    BY <1>4 DEF Remove, Unlink
  <2> QED
    BY <2>1, <2>2 DEF editorVars, daemonVars
<1>5. ASSUME NEW h \in Hook, Spawn(h) PROVE Types'
  <2>1. hpc' \in [Hook -> HookPc] /\ UNCHANGED <<editorVars, files, saved, got, queue, counted>>
    BY <1>5 DEF Spawn, Goto, HookPc
  <2>2. PICK d \in Daemon : /\ child' = [child EXCEPT ![h] = d] /\ dpc' = [dpc EXCEPT ![d] = "rm sock"]
                            /\ \E b \in BOOLEAN : booted' = [booted EXCEPT ![d] = b]
    BY <1>5 DEF Spawn, DGoto
  <2>3. child' \in [Hook -> Daemon \cup {NoOne}]
    BY <2>2
  <2>4. dpc' \in [Daemon -> DaemonPc]
    BY <2>2 DEF DaemonPc
  <2>5. booted' \in [Daemon -> BOOLEAN]
    BY <2>2
  <2> QED
    BY <2>1, <2>3, <2>4, <2>5 DEF editorVars
<1>6. ASSUME NEW h \in Hook, Await(h) PROVE Types'
  BY <1>6 DEF Await, Goto, Answer, editorVars, daemonVars, HookPc
<1>7. ASSUME NEW h \in Hook, GiveUp(h) PROVE Types'
  <2>1. After(h) \in HookPc
    BY DEF After, HookPc
  <2> QED
    BY <1>7, <2>1 DEF GiveUp, Goto, Answer, editorVars, daemonVars
<1>8. ASSUME NEW h \in Hook, Send(h) PROVE Types'
  <2>1. After(h) \in HookPc /\ "reply" \in HookPc
    BY DEF After, HookPc
  <2>2. hpc' \in [Hook -> HookPc] /\ got' \in [Hook -> {"none", "answer", "open"}]
    BY <1>8, <2>1 DEF Send, Goto, Answer
  <2>3. queue' \in [Daemon -> Seq(Hook \cup {Mcp})]
    <3>1. CASE Reachable
      <4>1. files["sock"] \in Daemon
        BY <3>1 DEF Reachable, Listening
      <4>2. Append(queue[files["sock"]], h) \in Seq(Hook \cup {Mcp})
        BY <4>1
      <4> QED
        BY <1>8, <3>1, <4>1, <4>2 DEF Send
    <3> QED
      BY <1>8, <3>1 DEF Send
  <2>4. UNCHANGED <<editorVars, files, saved, child, dpc, booted, counted>>
    BY <1>8 DEF Send
  <2> QED
    BY <2>2, <2>3, <2>4 DEF editorVars
<1>9. ASSUME NEW d \in Daemon, Cleanup(d) \/ Bind(d) \/ Announce(d) PROVE Types'
  <2>1. files' \in [File -> Daemon \cup {NoOne}]
    BY <1>9 DEF Cleanup, Bind, Announce, Unlink, Make
  <2>2. dpc' \in [Daemon -> DaemonPc]
    BY <1>9 DEF Cleanup, Bind, Announce, DGoto, DaemonPc
  <2>3. UNCHANGED <<editorVars, saved, hookVars, queue, booted, counted>>
    BY <1>9 DEF Cleanup, Bind, Announce
  <2> QED
    BY <2>1, <2>2, <2>3 DEF editorVars, hookVars
<1>10. ASSUME NEW d \in Daemon, Serve(d) PROVE Types'
  <2> DEFINE h == Head(queue[d])
  <2>1. h \in Hook /\ Tail(queue[d]) \in Seq(Hook \cup {Mcp})
    BY <1>10, HeadIsHook DEF Serve
  <2>2. queue' = [queue EXCEPT ![d] = Tail(@)]
    BY <1>10 DEF Serve
  <2>3. queue' \in [Daemon -> Seq(Hook \cup {Mcp})]
    BY <2>1, <2>2
  <2>4. booted' \in [Daemon -> BOOLEAN] /\ counted' \in [Daemon -> Nat]
    <3>1. Handle(d, event[h])
      BY <1>10 DEF Serve
    <3> HIDE DEF h
    <3>2. booted' = booted \/ booted' = [booted EXCEPT ![d] = TRUE]
      BY <3>1 DEF Handle
    <3>3. booted' \in [Daemon -> BOOLEAN]
      BY <3>2
    <3>4. \/ counted' = counted
          \/ counted' = [counted EXCEPT ![d] = 0]
          \/ counted' = [counted EXCEPT ![d] = @ + 1]
      BY <3>1 DEF Handle
    <3>5. counted' \in [Daemon -> Nat]
      <4>1. counted \in [Daemon -> Nat] /\ counted[d] \in Nat
        OBVIOUS
      <4> HIDE DEF Types
      <4>2. 0 \in Nat /\ counted[d] + 1 \in Nat
        BY <4>1
      <4> QED
        BY <3>4, <4>1, <4>2
    <3> QED
      BY <3>3, <3>5
  <2>5. hpc' \in [Hook -> HookPc] /\ got' \in [Hook -> {"none", "answer", "open"}]
        /\ dpc' \in [Daemon -> DaemonPc]
    BY <1>10, <2>1 DEF Serve, Answer, After, Goto, DGoto, HookPc, DaemonPc
  <2> QED
    BY <1>10, <2>3, <2>4, <2>5 DEF Serve, editorVars
<1>11. ASSUME NEW d \in Daemon, Idle(d) \/ Signal(d) \/ Close(d) \/ Crash(d) PROVE Types'
  <2>1. <<>> \in Seq(Hook \cup {Mcp})
    OBVIOUS
  <2>2. queue' \in [Daemon -> Seq(Hook \cup {Mcp})]
    BY <1>11, <2>1 DEF Idle, Signal, Close, Crash, Blank
  <2>3. dpc' \in [Daemon -> DaemonPc]
    BY <1>11 DEF Idle, Signal, Close, Crash, DGoto, DaemonPc
  <2>4. booted' \in [Daemon -> BOOLEAN] /\ counted' \in [Daemon -> Nat]
    <3>1. booted' = booted \/ booted' = [booted EXCEPT ![d] = FALSE]
      BY <1>11 DEF Idle, Signal, Close, Crash, Blank
    <3>2. counted' = counted \/ counted' = [counted EXCEPT ![d] = 0]
      BY <1>11 DEF Idle, Signal, Close, Crash, Blank
    <3>3. booted' \in [Daemon -> BOOLEAN]
      BY <3>1
    <3>4. counted' \in [Daemon -> Nat]
      BY <3>2
    <3> QED
      BY <3>3, <3>4
  <2> QED
    BY <1>11, <2>2, <2>3, <2>4 DEF Idle, Signal, Close, Crash, editorVars, hookVars
<1>12. CASE Outside
  <2>1. ASSUME Reachable, queue' = [queue EXCEPT ![files["sock"]] = Append(@, Mcp)],
               UNCHANGED <<editorVars, files, saved, hookVars, dpc, booted, counted>>
        PROVE  Types'
    <3>1. files["sock"] \in Daemon
      BY <2>1 DEF Reachable, Listening
    <3>2. Append(queue[files["sock"]], Mcp) \in Seq(Hook \cup {Mcp})
      BY <3>1
    <3> QED
      BY <2>1, <3>1, <3>2 DEF editorVars, hookVars
  <2>2. ASSUME NEW d \in Daemon, queue[d] # <<>>, queue' = [queue EXCEPT ![d] = Tail(@)],
               UNCHANGED <<editorVars, files, saved, hookVars, dpc, booted, counted>>
        PROVE  Types'
    BY <2>2 DEF editorVars, hookVars
  <2> QED
    BY <1>12, <2>1, <2>2 DEF Outside, editorVars, hookVars, daemonVars
<1>13. CASE UNCHANGED vars
  BY <1>13 DEF vars, editorVars, hookVars, daemonVars
<1> QED
  BY <1>1, <1>2, <1>3, <1>4, <1>5, <1>6, <1>7, <1>8, <1>9, <1>10, <1>11, <1>12, <1>13,
     FiredIsEvent
  DEF Step, Next, HookStep, DaemonStep

-----------------------------------------------------------------------------
(* A step of a hook moves that hook; what else it touches is in the lemmas
   that need it.                                                           *)
LEMMA HookMoves ==
  ASSUME NEW h \in Hook, HookStep(h)
  PROVE  /\ AtWork(h) /\ UNCHANGED <<open, event>>
         /\ \E pc \in HookPc : hpc' = [hpc EXCEPT ![h] = pc]
<1>1. AtWork(h)
  BY DEF HookStep, AtWork, Save, Probe, Remove, Spawn, Await, Send, GiveUp, Forget
<1>2. UNCHANGED <<open, event>>
  BY DEF HookStep, Save, Probe, Remove, Spawn, Await, Send, GiveUp, Forget, editorVars
<1>3. Save(h) \/ Probe(h) \/ Remove(h) \/ Spawn(h) => \E pc \in HookPc : hpc' = [hpc EXCEPT ![h] = pc]
  BY DEF Save, Probe, Remove, Spawn, Goto, Answer, HookPc
<1>4. Await(h) \/ Send(h) \/ GiveUp(h) \/ Forget(h) => \E pc \in HookPc : hpc' = [hpc EXCEPT ![h] = pc]
  <2>1. After(h) \in HookPc /\ {"done", "send", "reply"} \subseteq HookPc
    BY DEF After, HookPc
  <2> QED
    BY <2>1 DEF Await, Send, GiveUp, Forget, Goto, Answer
<1> QED
  BY <1>1, <1>2, <1>3, <1>4 DEF HookStep

(* Of the hooks, a step of a daemon moves at most the one it answers. *)
LEMMA ServeAnswers ==
  ASSUME Types, NEW d \in Daemon, Serve(d)
  PROVE  LET h == Head(queue[d])
         IN  /\ h \in Hook /\ UNCHANGED <<open, event, saved, files, child>>
             /\ Handle(d, event[h]) /\ queue' = [queue EXCEPT ![d] = Tail(@)]
             /\ \/ hpc[h] # "reply" /\ UNCHANGED <<hpc, got, dpc>>
                \/ /\ hpc[h] = "reply"
                   /\ hpc' = [hpc EXCEPT ![h] = After(h)]
                   /\ got' = [got EXCEPT ![h] = "answer"]
                   /\ IF event[h] = "stop" THEN dpc' = [dpc EXCEPT ![d] = "close"]
                      ELSE dpc' = dpc
BY HeadIsHook DEF Serve, Answer, Goto, DGoto, editorVars

(* The other steps of the daemons leave the hooks alone; of what a daemon
   knows, nothing is left when it closes its socket or dies.               *)
LEMMA DaemonMoves ==
  ASSUME Types, NEW d \in Daemon, Cleanup(d) \/ Bind(d) \/ Announce(d) \/ Idle(d)
                                  \/ Close(d) \/ Signal(d) \/ Crash(d)
  PROVE  /\ UNCHANGED <<open, event, saved, hpc, child, got>>
         /\ \A c \in Daemon : c # d => /\ dpc'[c] = dpc[c] /\ queue'[c] = queue[c]
                                       /\ counted'[c] = counted[c]
         /\ IF Close(d) \/ Crash(d) THEN queue'[d] = <<>> /\ counted'[d] = 0
            ELSE UNCHANGED <<queue, booted, counted>>
<1>1. UNCHANGED <<open, event, saved, hpc, child, got>>
  BY DEF Cleanup, Bind, Announce, Idle, Close, Signal, Crash, editorVars, hookVars
<1>2. \E pc \in DaemonPc : dpc' = [dpc EXCEPT ![d] = pc]
  BY DEF Cleanup, Bind, Announce, Idle, Close, Signal, Crash, DGoto, DaemonPc
<1>3. IF Close(d) \/ Crash(d)
      THEN queue' = [queue EXCEPT ![d] = <<>>] /\ counted' = [counted EXCEPT ![d] = 0]
      ELSE UNCHANGED <<queue, booted, counted>>
  <2>1. CASE Close(d) \/ Crash(d)
    BY <2>1 DEF Close, Crash, Blank
  <2>2. CASE ~(Close(d) \/ Crash(d))
    BY <2>2 DEF Cleanup, Bind, Announce, Idle, Signal
  <2> QED
    BY <2>1, <2>2
<1> QED
  BY <1>1, <1>2, <1>3 DEF Types

(* One hook at a time. *)
LEMMA OneHookStep ==
  ASSUME Sequential, Control, Types', [Step]_vars
  PROVE  OneHook'
<1> USE DEF Control
<1>1. ASSUME NEW h \in Hook, NEW e \in Event, Fire(h, e) PROVE OneHook'
  <2>1. /\ hpc[h] = "idle" /\ \A g \in Hook : ~AtWork(g)
        /\ \A g \in Hook : g # h => hpc'[g] = hpc[g] /\ event'[g] = event[g]
        /\ event'[h] = e /\ (e = "stop" <=> ~open')
        /\ hpc'[h] \in {"save", "probe", "send"}
        /\ UNCHANGED <<got, child, dpc>>
    BY <1>1 DEF Fire, Goto, Event, Sequential, AtWork, Types, daemonVars
  <2> QED
    BY <2>1 DEF OneHook, AtWork
<1>2. ASSUME NEW h \in Hook, HookStep(h) PROVE OneHook'
  <2>1. /\ AtWork(h) /\ UNCHANGED <<open, event>>
        /\ \A g \in Hook : g # h => hpc'[g] = hpc[g]
    BY <1>2, HookMoves DEF Types
  <2>2. \A g \in Hook : g # h => got'[g] = got[g] /\ child'[g] = child[g]
    <3>1. \/ got' = got \/ \E x : got' = [got EXCEPT ![h] = x]
      BY <1>2 DEF HookStep, Save, Probe, Remove, Spawn, Await, Send, GiveUp, Forget, Answer
    <3>2. \/ child' = child \/ \E x : child' = [child EXCEPT ![h] = x]
      BY <1>2 DEF HookStep, Save, Probe, Remove, Spawn, Await, Send, GiveUp, Forget, Answer
    <3> QED
      BY <3>1, <3>2 DEF Types
  <2>3. \A d \in Daemon : dpc'[d] = dpc[d] \/ dpc'[d] # "unborn"
    BY <1>2 DEF HookStep, Save, Probe, Remove, Spawn, Await, Send, GiveUp, Forget, DGoto, daemonVars, Types
  <2>4. hpc'[h] = "forget" => event[h] = "stop"
    BY <1>2 DEF HookStep, Save, Probe, Remove, Spawn, Await, Send, GiveUp, Forget, Answer, Goto, After, Types
  <2>5. hpc'[h] \notin {"forget", "done"} => got'[h] = "none"
    <3>1. hpc'[h] \notin {"forget", "done"} => got'[h] = got[h]
      BY <1>2 DEF HookStep, Save, Probe, Remove, Spawn, Await, Send, GiveUp, Forget, Answer, Goto, After, Types
    <3>2. hpc'[h] \notin {"forget", "done"} => hpc[h] \notin {"forget", "done"}
      BY <1>2 DEF HookStep, Save, Probe, Remove, Spawn, Await, Send, GiveUp, Forget, Answer, Goto, After, Types
    <3> QED
      BY <3>1, <3>2 DEF OneHook
  <2>6. hpc'[h] = "wait" => child'[h] \in Daemon /\ dpc'[child'[h]] # "unborn"
    <3>1. hpc'[h] = "wait" => Spawn(h)
      BY <1>2 DEF HookStep, Save, Probe, Remove, Await, Send, GiveUp, Forget, Answer, Goto, After, Types
    <3> QED
      BY <3>1 DEF Spawn, DGoto, Types
  <2> QED
    BY <2>1, <2>2, <2>3, <2>4, <2>5, <2>6 DEF OneHook, AtWork
<1>3. ASSUME NEW d \in Daemon, Serve(d) PROVE OneHook'
  <2> DEFINE h == Head(queue[d])
  <2>1. /\ h \in Hook /\ UNCHANGED <<open, event, child>>
        /\ \/ UNCHANGED <<hpc, got, dpc>>
           \/ /\ hpc[h] = "reply"
              /\ hpc' = [hpc EXCEPT ![h] = After(h)]
              /\ got' = [got EXCEPT ![h] = "answer"]
              /\ dpc' = dpc \/ dpc' = [dpc EXCEPT ![d] = "close"]
    BY <1>3, ServeAnswers
  <2> HIDE DEF h
  <2>2. CASE UNCHANGED <<hpc, got, dpc>>
    BY <2>1, <2>2 DEF OneHook, AtWork
  <2>3. CASE hpc[h] = "reply" /\ hpc' = [hpc EXCEPT ![h] = After(h)]
    <3>1. /\ AtWork(h) /\ hpc'[h] = After(h)
          /\ \A g \in Hook : g # h => hpc'[g] = hpc[g] /\ got'[g] = got[g]
      BY <2>1, <2>3 DEF AtWork, Types
    <3>2. \A c \in Daemon : dpc'[c] = dpc[c] \/ dpc'[c] # "unborn"
      BY <2>1, <2>3 DEF Types
    <3>3. After(h) \in {"forget", "done"} /\ (After(h) = "forget" => event[h] = "stop")
      BY DEF After
    <3> QED
      BY <2>1, <3>1, <3>2, <3>3 DEF OneHook, AtWork
  <2> QED
    BY <2>1, <2>2, <2>3
<1>4. ASSUME NEW d \in Daemon, Cleanup(d) \/ Bind(d) \/ Announce(d) \/ Idle(d) \/ Close(d)
                               \/ Signal(d) \/ Crash(d)
      PROVE  OneHook'
  <2>1. UNCHANGED <<open, event, hpc, child, got>>
    BY <1>4, DaemonMoves
  <2>2. \A c \in Daemon : dpc'[c] = dpc[c] \/ dpc'[c] # "unborn"
    BY <1>4 DEF Cleanup, Bind, Announce, Idle, Close, Signal, Crash, DGoto, Types
  <2> QED
    BY <2>1, <2>2 DEF OneHook, AtWork
<1>5. CASE Outside \/ UNCHANGED vars
  BY <1>5 DEF Outside, vars, editorVars, hookVars, daemonVars, OneHook, AtWork
<1> QED
  BY <1>1, <1>2, <1>3, <1>4, <1>5, FiredIsEvent DEF Step, Next, DaemonStep

(* While a daemon starts, no hook can take a step: the one that spawned it
   waits until it serves or is dead.                                       *)
LEMMA HooksAwaitStart ==
  ASSUME Sequential, Control, NEW h \in Hook, HookStep(h), NEW d \in Daemon
  PROVE  ~Starting(d)
<1> USE DEF Control
<1> SUFFICES ASSUME Starting(d) PROVE FALSE
  OBVIOUS
<1>1. PICK g \in Hook : hpc[g] = "wait" /\ child[g] = d
  BY DEF OneDaemon
<1>2. g = h
  BY <1>1, HookMoves DEF OneHook, AtWork
<1>3. files["ready"] = NoOne
  BY DEF Owners
<1>4. Await(h)
  BY <1>1, <1>2 DEF HookStep, Save, Probe, Remove, Spawn, Send, GiveUp, Forget
<1>5. dpc[d] \in {"serve", "gone", "dead"}
  BY <1>1, <1>2, <1>3, <1>4 DEF Await, Sequential
<1> QED
  BY <1>5 DEF Starting

(* A daemon that is not yet starting is started by a hook, never by itself,
   and one that has gone does not come back.                               *)
LEMMA DaemonsOnlyLeave ==
  ASSUME Sequential, Control, NEW d \in Daemon, DaemonStep(d) \/ Signal(d) \/ Crash(d), NEW c \in Daemon
  PROVE  /\ Starting(c)' => Starting(c)
         /\ Present(c)' => Present(c)
         /\ dpc'[c] \notin {"term sock", "term pid", "term ready"}
<1>0. Types /\ dpc[c] \notin {"term sock", "term pid", "term ready"}
      /\ dpc[d] \notin {"term sock", "term pid", "term ready"}
  BY DEF Control, OneDaemon
<1>1. CASE Serve(d)
  <2>1. dpc' = dpc \/ dpc' = [dpc EXCEPT ![d] = "close"]
    BY <1>0, <1>1, ServeAnswers
  <2>2. dpc[d] = "serve"
    BY <1>1 DEF Serve
  <2> QED
    BY <1>0, <2>1, <2>2 DEF Types, Starting, Present
<1>2. CASE Cleanup(d)
  BY <1>0, <1>2 DEF Cleanup, DGoto, Types, Starting, Present
<1>3. CASE Bind(d) \/ Announce(d)
  BY <1>0, <1>3 DEF Bind, Announce, DGoto, Types, Starting, Present
<1>4. CASE Idle(d) \/ Close(d) \/ Signal(d) \/ Crash(d)
  BY <1>0, <1>4 DEF Sequential, Idle, Close, Signal, Crash, DGoto, Types, Starting, Present
<1> QED
  BY <1>1, <1>2, <1>3, <1>4 DEF DaemonStep

(* One daemon at a time. *)
LEMMA OneDaemonStep ==
  ASSUME Sequential, Control, Types', OneHook', [Step]_vars
  PROVE  OneDaemon'
<1>0. Types /\ OneHook /\ OneDaemon /\ Owners
  BY DEF Control
<1>1. ASSUME NEW h \in Hook, NEW e \in Event, Fire(h, e) PROVE OneDaemon'
  <2>1. /\ \A g \in Hook : ~AtWork(g)
        /\ UNCHANGED <<dpc, child>>
        /\ \A g \in Hook : ~Replacing(g)'
    BY <1>0, <1>1 DEF Fire, Goto, Event, Sequential, AtWork, Replacing, Types, daemonVars
  <2>2. \A d \in Daemon : ~Starting(d)
    BY <1>0, <2>1 DEF OneDaemon, AtWork
  <2> QED
    BY <1>0, <2>1, <2>2 DEF OneDaemon, Starting, Present
<1>2. ASSUME NEW h \in Hook, HookStep(h), ~Spawn(h) PROVE OneDaemon'
  <2>1. dpc' = dpc
    BY <1>2 DEF HookStep, Save, Probe, Remove, Await, Send, GiveUp, Forget, daemonVars
  <2>2. \A d \in Daemon : ~Starting(d)
    BY <1>2, HooksAwaitStart
  <2>3. ASSUME NEW g \in Hook, Replacing(g)', NEW d \in Daemon PROVE ~Present(d)
    <3>1. AtWork(h) /\ (g # h => hpc'[g] = hpc[g])
      BY <1>0, <1>2, HookMoves DEF Types
    <3>2. g = h
      BY <1>0, <2>3, <3>1 DEF OneHook, AtWork, Replacing
    <3>3. Remove(h) \/ Probe(h)
      BY <1>0, <1>2, <2>3, <3>2 DEF HookStep, Save, Await, Send, GiveUp, Forget, Goto, Answer,
         After, Replacing, Types
    <3>4. CASE Remove(h)
      BY <1>0, <3>4 DEF Remove, OneDaemon, Replacing
    <3>5. CASE Probe(h)
      <4>1. ~DaemonAlive
        BY <1>0, <2>3, <3>2, <3>5 DEF Probe, Goto, Replacing, Types
      <4>2. Present(d) => files["pid"] = d /\ Alive(d)
        BY <1>0, <2>2 DEF Present, Owners, Alive
      <4> QED
        BY <4>1, <4>2, DaemonIsSome DEF DaemonAlive
    <3> QED
      BY <3>3, <3>4, <3>5
  <2> QED
    BY <1>0, <2>1, <2>2, <2>3 DEF OneDaemon, Starting, Present
<1>3. ASSUME NEW h \in Hook, Spawn(h) PROVE OneDaemon'
  <2>1. \A d \in Daemon : ~Present(d)
    BY <1>0, <1>3 DEF Spawn, OneDaemon, Replacing
  <2>2. PICK d \in Daemon : child' = [child EXCEPT ![h] = d] /\ dpc' = [dpc EXCEPT ![d] = "rm sock"]
    BY <1>3 DEF Spawn, DGoto
  <2>3. hpc' = [hpc EXCEPT ![h] = "wait"] /\ hpc[h] = "spawn"
    BY <1>3 DEF Spawn, Goto
  <2>4. \A c \in Daemon : Present(c)' => c = d
    BY <1>0, <2>1, <2>2 DEF Present, Starting, Types
  <2>5. hpc'[h] = "wait" /\ child'[h] = d
    BY <1>0, <2>2, <2>3 DEF Types
  <2>6. \A g \in Hook : ~Replacing(g)'
    <3>1. \A g \in Hook : g # h => ~AtWork(g)
      BY <1>0, <2>3 DEF OneHook, AtWork
    <3>2. \A g \in Hook : g # h => hpc'[g] = hpc[g]
      BY <1>0, <2>3 DEF Types
    <3> QED
      BY <2>5, <3>1, <3>2 DEF AtWork, Replacing
  <2>7. \A c \in Daemon : dpc'[c] \notin {"term sock", "term pid", "term ready"}
    <3>1. \A c \in Daemon : dpc'[c] = IF c = d THEN "rm sock" ELSE dpc[c]
      BY <1>0, <2>2 DEF Types
    <3> QED
      BY <1>0, <3>1 DEF OneDaemon
  <2>8. \A c \in Daemon : Starting(c)' => c = d
    BY <2>4 DEF Present
  <2>9. \A c \in Daemon : Starting(c)' => \E g \in Hook : hpc'[g] = "wait" /\ child'[g] = c
    BY <2>5, <2>8
  <2> QED
    BY <2>4, <2>6, <2>7, <2>9 DEF OneDaemon
<1>4. ASSUME NEW d \in Daemon, DaemonStep(d) \/ Signal(d) \/ Crash(d) PROVE OneDaemon'
  <2>1. /\ \A h \in Hook : Replacing(h)' => Replacing(h)
        /\ \A h \in Hook : hpc[h] = "wait" => hpc'[h] = "wait" /\ child'[h] = child[h]
    <3>1. CASE Serve(d)
      <4> DEFINE k == Head(queue[d])
      <4>1. /\ k \in Hook /\ child' = child
            /\ hpc' = hpc \/ (hpc[k] = "reply" /\ hpc' = [hpc EXCEPT ![k] = After(k)])
        BY <1>0, <3>1, ServeAnswers
      <4> HIDE DEF k
      <4>2. After(k) \in {"forget", "done"}
        BY DEF After
      <4> QED
        BY <1>0, <4>1, <4>2 DEF Replacing, Types
    <3>2. CASE ~Serve(d)
      BY <1>0, <1>4, <3>2, DaemonMoves DEF DaemonStep, Replacing
    <3> QED
      BY <3>1, <3>2
  <2>2. \A c \in Daemon : /\ Starting(c)' => Starting(c)
                          /\ Present(c)' => Present(c)
                          /\ dpc'[c] \notin {"term sock", "term pid", "term ready"}
    BY <1>4, DaemonsOnlyLeave
  <2>3. \A c, e \in Daemon : Present(c)' /\ Present(e)' => c = e
    BY <1>0, <2>2 DEF OneDaemon
  <2>4. ASSUME NEW c \in Daemon, Starting(c)'
        PROVE  \E h \in Hook : hpc'[h] = "wait" /\ child'[h] = c
    <3>1. PICK h \in Hook : hpc[h] = "wait" /\ child[h] = c
      BY <1>0, <2>2, <2>4 DEF OneDaemon
    <3> QED
      BY <2>1, <3>1
  <2>5. \A h \in Hook : Replacing(h)' => \A c \in Daemon : ~Present(c)'
    BY <1>0, <2>1, <2>2 DEF OneDaemon
  <2> QED
    BY <2>2, <2>3, <2>4, <2>5 DEF OneDaemon
<1>5. CASE Outside \/ UNCHANGED vars
  <2>1. UNCHANGED <<hpc, child, dpc>>
    BY <1>5 DEF Outside, vars, hookVars, daemonVars
  <2>2. /\ \A c \in Daemon : (Starting(c)' <=> Starting(c)) /\ (Present(c)' <=> Present(c))
        /\ \A h \in Hook : Replacing(h)' <=> Replacing(h)
    BY <2>1 DEF Present, Starting, Replacing
  <2> QED
    BY <1>0, <2>1, <2>2 DEF OneDaemon
<1> QED
  BY <1>1, <1>2, <1>3, <1>4, <1>5, FiredIsEvent DEF Step, Next

(* The files are those of the daemon that is present. *)
LEMMA OwnersStep ==
  ASSUME Sequential, Control, Types', [Step]_vars
  PROVE  Owners'
<1>0. Types /\ OneHook /\ OneDaemon /\ Owners
  BY DEF Control
<1>1. ASSUME UNCHANGED <<files, dpc>>, \A h \in Hook : hpc'[h] = "spawn" => hpc[h] = "spawn"
      PROVE  Owners'
  BY <1>0, <1>1 DEF Owners, Starting
<1>2. ASSUME NEW h \in Hook, NEW e \in Event, Fire(h, e) PROVE Owners'
  BY <1>0, <1>1, <1>2 DEF Fire, Goto, Event, Types, daemonVars
<1>3. ASSUME NEW h \in Hook, HookStep(h), ~Spawn(h), ~Remove(h) PROVE Owners'
  <2>1. UNCHANGED <<files, dpc>>
    BY <1>3 DEF HookStep, Save, Probe, Await, Send, GiveUp, Forget, daemonVars
  <2>2. \A g \in Hook : hpc'[g] = "spawn" => hpc[g] = "spawn"
    BY <1>0, <1>3 DEF HookStep, Save, Probe, Await, Send, GiveUp, Forget, Goto, Answer, After, Types
  <2> QED
    BY <1>1, <2>1, <2>2
<1>4. ASSUME NEW h \in Hook, Remove(h) PROVE Owners'
  <2>1. \A d \in Daemon : ~Present(d)
    BY <1>0, <1>4 DEF Remove, OneDaemon, Replacing
  <2>2. dpc' = dpc /\ \A f \in File : files'[f] = files[f] \/ files'[f] = NoOne
    BY <1>0, <1>4 DEF Remove, Unlink, Types, daemonVars
  <2>3. \A g \in Hook : hpc'[g] = "spawn" => files'["ready"] = NoOne
    <3>1. \A g \in Hook : g # h => hpc'[g] = hpc[g] /\ ~AtWork(g)
      BY <1>0, <1>4 DEF Remove, Goto, Types, OneHook, AtWork
    <3>2. hpc'[h] = "spawn" => files'["ready"] = NoOne
      BY <1>0, <1>4 DEF Remove, Unlink, Goto, Types, File
    <3> QED
      BY <3>1, <3>2 DEF AtWork
  <2> QED
    BY <1>0, <2>1, <2>2, <2>3 DEF Owners, Present, Starting
<1>5. ASSUME NEW h \in Hook, Spawn(h) PROVE Owners'
  <2>1. \A d \in Daemon : ~Present(d)
    BY <1>0, <1>5 DEF Spawn, OneDaemon, Replacing
  <2>2. PICK d \in Daemon : dpc' = [dpc EXCEPT ![d] = "rm sock"]
    BY <1>5 DEF Spawn, DGoto
  <2>3. files' = files /\ files["ready"] = NoOne /\ hpc' = [hpc EXCEPT ![h] = "wait"]
    BY <1>0, <1>5 DEF Spawn, Goto, Owners
  <2>4. \A c \in Daemon : c # d => dpc'[c] = dpc[c]
    BY <1>0, <2>2 DEF Types
  <2>5. dpc'[d] = "rm sock"
    BY <1>0, <2>2 DEF Types
  <2>6. \A f \in File : files[f] # NoOne => files[f] \in Daemon
    BY <1>0 DEF Types
  <2> QED
    BY <1>0, <2>1, <2>3, <2>4, <2>5, <2>6 DEF Owners, Present, Starting
<1>6. ASSUME NEW d \in Daemon, Serve(d) PROVE Owners'
  <2>1. /\ files' = files
        /\ dpc' = dpc \/ dpc' = [dpc EXCEPT ![d] = "close"]
        /\ \A g \in Hook : hpc'[g] = "spawn" => hpc[g] = "spawn"
    BY <1>0, <1>6, ServeAnswers DEF After, Types
  <2>2. dpc[d] = "serve"
    BY <1>6 DEF Serve
  <2>3. \A c \in Daemon : dpc'[c] = dpc[c] \/ (c = d /\ dpc'[c] = "close")
    BY <1>0, <2>1 DEF Types
  <2>4. \A f \in File : files[f] # NoOne => files[f] \in Daemon
    BY <1>0 DEF Types
  <2> QED
    <3>1. \A f \in File : files'[f] # NoOne => dpc'[files'[f]] # "unborn"
      BY <1>0, <2>1, <2>3, <2>4 DEF Owners
    <3>2. \A c \in Daemon : c # d => dpc'[c] = dpc[c]
      BY <2>3
    <3>3. dpc'[d] \in {"serve", "close"} /\ files["sock"] = d /\ files["pid"] = d
      BY <1>0, <2>2, <2>3 DEF Owners
    <3> QED
      BY <1>0, <2>1, <3>1, <3>2, <3>3 DEF Owners, Starting
<1>7. ASSUME NEW d \in Daemon, Cleanup(d) \/ Bind(d) \/ Announce(d) \/ Idle(d) \/ Close(d)
                               \/ Signal(d) \/ Crash(d)
      PROVE  Owners'
  <2>1. hpc' = hpc /\ \A c \in Daemon : c # d => dpc'[c] = dpc[c]
    BY <1>0, <1>7, DaemonMoves
  <2>2. /\ dpc'[d] # "unborn" /\ dpc[d] \notin {"term sock", "term pid", "term ready"}
        /\ dpc[d] # "unborn"
    <3>1. dpc[d] \notin {"term sock", "term pid", "term ready"}
      BY <1>0 DEF OneDaemon
    <3>2. dpc[d] # "unborn"
      BY <1>7 DEF Cleanup, Bind, Announce, Idle, Close, Signal, Crash, Alive
    <3>3. dpc'[d] # "unborn"
      BY <1>0, <1>7 DEF Cleanup, Bind, Announce, Idle, Close, Signal, Crash, DGoto, Types
    <3> QED
      BY <3>1, <3>2, <3>3
  <2>3. \A f \in File : files'[f] \in {files[f], NoOne, d}
    BY <1>0, <1>7 DEF Cleanup, Bind, Announce, Idle, Close, Signal, Crash, Make, Unlink, Types
  <2>4. \A f \in File : files'[f] # NoOne => dpc'[files'[f]] # "unborn"
    BY <1>0, <2>1, <2>2, <2>3 DEF Owners, Types
  <2>5. CASE ~Present(d)
    <3>1. \/ files' = files
          \/ files' = [files EXCEPT !["ready"] = NoOne]
      BY <1>7, <2>2, <2>5 DEF Cleanup, Bind, Announce, Idle, Close, Signal, Crash, Unlink, Present, Starting
    <3>2. ~Present(d)'
      BY <1>0, <1>7, <2>2, <2>5 DEF Cleanup, Bind, Announce, Idle, Close, Signal, Crash, DGoto, Types,
         Present, Starting
    <3>3. /\ files'["sock"] = files["sock"] /\ files'["pid"] = files["pid"]
          /\ files'["ready"] \in {files["ready"], NoOne}
      BY <1>0, <3>1 DEF Types, File
    <3> QED
      BY <1>0, <2>1, <2>4, <3>2, <3>3 DEF Owners, Present, Starting
  <2>6. CASE Present(d)
    <3>1. \A c \in Daemon : c # d => ~Present(c) /\ ~Present(c)'
      BY <1>0, <2>1, <2>6 DEF OneDaemon, Present, Starting
    <3>2. \A h \in Hook : hpc'[h] # "spawn"
      BY <1>0, <2>1, <2>6 DEF OneDaemon, Replacing
    <3>3. /\ dpc'[d] \in {"rm pid", "rm ready", "bind"} => files'["sock"] = NoOne
          /\ dpc'[d] = "write pid" => files'["sock"] = d
          /\ dpc'[d] \in {"write ready", "serve", "close", "rm sock!"} =>
               files'["sock"] = d /\ files'["pid"] = d
          /\ dpc'[d] = "rm pid!" => files'["pid"] = d
          /\ Starting(d)' => files'["ready"] = NoOne
      <4>1. CASE Cleanup(d)
        <5>1. /\ dpc[d] \in {"rm pid", "rm ready"} => files["sock"] = NoOne
              /\ dpc[d] = "rm sock!" => files["pid"] = d
              /\ Starting(d) => files["ready"] = NoOne
          BY <1>0 DEF Owners
        <5>2. dpc[d] = "rm sock" => dpc'[d] = "rm pid" /\ files' = [files EXCEPT !["sock"] = NoOne]
          BY <1>0, <4>1 DEF Cleanup, DGoto, Unlink, Types
        <5>3. dpc[d] = "rm pid" => dpc'[d] = "rm ready" /\ files' = [files EXCEPT !["pid"] = NoOne]
          BY <1>0, <4>1 DEF Cleanup, DGoto, Unlink, Types
        <5>4. dpc[d] = "rm ready" => dpc'[d] = "bind" /\ files' = [files EXCEPT !["ready"] = NoOne]
          BY <1>0, <4>1 DEF Cleanup, DGoto, Unlink, Types
        <5>5. dpc[d] = "rm sock!" => dpc'[d] = "rm pid!" /\ files' = [files EXCEPT !["sock"] = NoOne]
          BY <1>0, <4>1 DEF Cleanup, DGoto, Unlink, Types
        <5>6. dpc[d] \in {"rm pid!", "rm ready!"} => dpc'[d] \in {"rm ready!", "gone"}
          BY <1>0, <4>1 DEF Cleanup, DGoto, Types
        <5>7. dpc[d] \in {"rm sock", "rm pid", "rm ready", "rm sock!", "rm pid!", "rm ready!"}
          BY <2>2, <4>1 DEF Cleanup
        <5>8. \A f, g \in File : [files EXCEPT ![f] = NoOne][g] = IF f = g THEN NoOne ELSE files[g]
          BY <1>0 DEF Types
        <5>9. {"sock", "pid", "ready"} = File
          BY DEF File
        <5>10. CASE dpc[d] \in {"rm sock", "rm pid", "rm ready"}
          BY <5>1, <5>2, <5>3, <5>4, <5>8, <5>9, <5>10 DEF Starting
        <5>11. CASE dpc[d] \in {"rm sock!", "rm pid!", "rm ready!"}
          BY <5>1, <5>5, <5>6, <5>8, <5>9, <5>11 DEF Starting
        <5> QED
          BY <5>7, <5>10, <5>11
      <4>2. CASE Bind(d) \/ Announce(d)
        <5>1. dpc'[d] \in {"write pid", "rm sock!", "write ready", "serve"}
          BY <1>0, <4>2 DEF Bind, Announce, DGoto, Types
        <5>2. dpc'[d] # "rm sock!"
          BY <1>0, <4>2, <5>1 DEF Bind, Announce, DGoto, Owners, Types
        <5>3. dpc'[d] = "write pid" => dpc[d] = "bind" /\ files' = [files EXCEPT !["sock"] = d]
          BY <1>0, <4>2 DEF Bind, Announce, DGoto, Make, Types
        <5>4. dpc'[d] = "write ready" => dpc[d] = "write pid" /\ files' = [files EXCEPT !["pid"] = d]
          BY <1>0, <4>2 DEF Bind, Announce, DGoto, Make, Types
        <5>5. dpc'[d] = "serve" => dpc[d] = "write ready" /\ files' = [files EXCEPT !["ready"] = d]
          BY <1>0, <4>2 DEF Bind, Announce, DGoto, Make, Types
        <5>6. /\ dpc[d] = "write pid" => files["sock"] = d
              /\ dpc[d] = "write ready" => files["sock"] = d /\ files["pid"] = d
              /\ Starting(d) => files["ready"] = NoOne
          BY <1>0 DEF Owners
        <5>7. \A f, g \in File : [files EXCEPT ![f] = d][g] = IF f = g THEN d ELSE files[g]
          BY <1>0 DEF Types
        <5>8. {"sock", "pid", "ready"} = File
          BY DEF File
        <5> QED
          BY <5>1, <5>2, <5>3, <5>4, <5>5, <5>6, <5>7, <5>8 DEF Starting
      <4>3. CASE Idle(d) \/ Close(d) \/ Signal(d) \/ Crash(d)
        <5>1. /\ \/ dpc[d] = "serve" /\ dpc'[d] = "close"
                 \/ dpc[d] = "close" /\ dpc'[d] = "rm sock!"
                 \/ dpc'[d] = "dead"
              /\ files' = files
          BY <1>0, <4>3 DEF Idle, Close, Signal, Crash, Sequential, DGoto, Types
        <5>2. dpc[d] \in {"serve", "close"} => files["sock"] = d /\ files["pid"] = d
          BY <1>0 DEF Owners
        <5> QED
          BY <5>1, <5>2 DEF Starting
      <4> QED
        BY <1>7, <4>1, <4>2, <4>3
    <3> QED
      BY <2>4, <3>1, <3>2, <3>3 DEF Owners, Present, Starting
  <2> QED
    BY <2>5, <2>6
<1>8. CASE Outside \/ UNCHANGED vars
  BY <1>1, <1>8 DEF Outside, vars, editorVars, hookVars, daemonVars
<1> QED
  BY <1>2, <1>3, <1>4, <1>5, <1>6, <1>7, <1>8, FiredIsEvent DEF Step, Next, DaemonStep

(* Files, places and the turns of hooks and daemons: an inductive invariant
   of the lifecycle and of whatever else takes steps beside it.            *)
LEMMA ControlStep == Sequential /\ Control /\ [Step]_vars => Control'
<1> SUFFICES ASSUME Sequential, Control, [Step]_vars PROVE Control'
  OBVIOUS
<1>1. Types'
  BY TypesStep DEF Control
<1>2. OneHook'
  BY <1>1, OneHookStep
<1>3. OneDaemon'
  BY <1>1, <1>2, OneDaemonStep
<1>4. Owners'
  BY <1>1, OwnersStep
<1> QED
  BY <1>1, <1>2, <1>3, <1>4 DEF Control

(* It holds when no hook has been fired and no daemon spawned. *)
LEMMA InitControl == Init => Control
<1> SUFFICES ASSUME Init PROVE Control
  OBVIOUS
<1>1. Types
  <2>1. <<>> \in Seq(Hook \cup {Mcp})
    OBVIOUS
  <2>2. queue \in [Daemon -> Seq(Hook \cup {Mcp})]
    BY <2>1 DEF Init
  <2> QED
    BY <2>2 DEF Init, Types, HookPc, DaemonPc, Event
<1>2. OneHook /\ OneDaemon /\ Owners
  BY DEF Init, OneHook, OneDaemon, Owners, AtWork, Replacing, Present, Starting
<1> QED
  BY <1>1, <1>2 DEF Control

(* What the invariant says of the daemon that listens. *)
LEMMA ControlServes == Control => OneServer /\ ServerIsReachable
<1> SUFFICES ASSUME Control PROVE OneServer /\ ServerIsReachable
  OBVIOUS
<1>1. \A d \in Daemon : Listening(d) => Present(d)
  BY DEF Control, OneDaemon, Listening, Present, Starting
<1>2. OneServer
  BY <1>1 DEF OneServer, Control, OneDaemon
<1>3. ServerIsReachable
  BY DEF ServerIsReachable, Serving, Control, Owners
<1> QED
  BY <1>2, <1>3

-----------------------------------------------------------------------------
(* Who is in a queue after a request is appended to it, *)
LEMMA QueueAppend ==
  ASSUME NEW S, NEW q \in Seq(S), NEW x \in S, NEW c
  PROVE  /\ Among(c, Append(q, x)) <=> Among(c, q) \/ c = x
         /\ Once(c, q) /\ (c = x => ~Among(x, q)) => Once(c, Append(q, x))
         /\ Append(q, x) # <<>>
<1>1. /\ DOMAIN q = 1..Len(q) /\ DOMAIN Append(q, x) = 1..Len(q)+1 /\ Len(q) \in Nat
      /\ \A i \in 1..Len(q) : Append(q, x)[i] = q[i]
      /\ Append(q, x)[Len(q)+1] = x
  OBVIOUS
<1>2. \A i \in 1..Len(q)+1 : i = Len(q)+1 \/ i \in 1..Len(q)
  BY <1>1
<1>3. Len(q)+1 \in 1..Len(q)+1 /\ 1..Len(q) \subseteq 1..Len(q)+1
  BY <1>1
<1> HIDE <1>1
<1> DEFINE n == Len(q)
           D == 1..Len(q)
           E == 1..Len(q)+1
           a == Append(q, x)
           m == Len(q)+1
<1>4. /\ DOMAIN q = D /\ DOMAIN a = E /\ (\A i \in D : a[i] = q[i]) /\ a[m] = x
      /\ (\A i \in E : i = m \/ i \in D) /\ m \in E /\ D \subseteq E
  BY <1>1, <1>2, <1>3
<1>5. Append(q, x) # <<>>
  <2>1. DOMAIN <<>> = {}
    OBVIOUS
  <2>2. m \in DOMAIN Append(q, x)
    BY <1>1, <1>3
  <2> QED
    BY <2>1, <2>2
<1> HIDE DEF D, E, a, m
<1>6. Among(c, a) <=> Among(c, q) \/ c = x
  BY <1>4 DEF Among
<1>7. Once(c, q) /\ (c = x => ~Among(x, q)) => Once(c, a)
  BY <1>4 DEF Among, Once
<1> QED
  BY <1>5, <1>6, <1>7 DEF a

(* and after its first request is taken. *)
LEMMA QueueTail ==
  ASSUME NEW S, NEW q \in Seq(S), q # <<>>, NEW c
  PROVE  /\ Among(c, Tail(q)) => Among(c, q)
         /\ Among(c, q) => Among(c, Tail(q)) \/ c = Head(q)
         /\ Once(c, q) => Once(c, Tail(q))
         /\ Once(Head(q), q) => ~Among(Head(q), Tail(q))
         /\ Among(Head(q), q)
<1>1. /\ DOMAIN q = 1..Len(q) /\ DOMAIN Tail(q) = 1..Len(q)-1 /\ Len(q) \in Nat \ {0}
      /\ \A i \in 1..Len(q)-1 : Tail(q)[i] = q[i+1]
      /\ Head(q) = q[1]
  OBVIOUS
<1>2. /\ \A i \in 1..Len(q)-1 : i+1 \in 1..Len(q) /\ i+1 # 1
      /\ \A i \in 1..Len(q) : i = 1 \/ \E j \in 1..Len(q)-1 : i = j+1
      /\ \A i, j \in 1..Len(q)-1 : i+1 = j+1 => i = j
      /\ 1 \in 1..Len(q)
  <2>1. \A i \in 1..Len(q) : i = 1 \/ (i-1 \in 1..Len(q)-1 /\ i = (i-1)+1)
    BY <1>1
  <2> QED
    BY <1>1, <2>1
<1>3. Among(c, Tail(q)) => Among(c, q)
  BY <1>1, <1>2 DEF Among
<1>4. Among(c, q) => Among(c, Tail(q)) \/ c = Head(q)
  <2> SUFFICES ASSUME NEW i \in 1..Len(q), q[i] = c PROVE Among(c, Tail(q)) \/ c = Head(q)
    BY <1>1 DEF Among
  <2>1. CASE i = 1
    BY <1>1, <2>1
  <2>2. ASSUME NEW j \in 1..Len(q)-1, i = j+1 PROVE Among(c, Tail(q))
    BY <1>1, <2>2 DEF Among
  <2> QED
    BY <1>2, <2>1, <2>2
<1>5. Once(c, q) => Once(c, Tail(q))
  BY <1>1, <1>2 DEF Once
<1>6. Once(Head(q), q) => ~Among(Head(q), Tail(q))
  BY <1>1, <1>2 DEF Once, Among
<1>7. Among(Head(q), q)
  BY <1>1, <1>2 DEF Among
<1> QED
  BY <1>3, <1>4, <1>5, <1>6, <1>7

(* Nobody is in an empty queue. *)
LEMMA QueueEmpty == \A c : ~Among(c, <<>>) /\ Once(c, <<>>)
BY DEF Among, Once

-----------------------------------------------------------------------------
(* Hooks that are done stay done, and are finitely many. *)
LEMMA ServedGrows ==
  ASSUME Sequential, Control, Types', [Step]_vars
  PROVE  /\ IsFiniteSet(Served) /\ IsFiniteSet(Served') /\ IsFiniteSet(Answered)
         /\ Cardinality(Served) \in Nat /\ Cardinality(Served') \in Nat
         /\ Cardinality(Served') <= Cardinality(Hook)
         /\ Served \subseteq Served' /\ Cardinality(Served) <= Cardinality(Served')
<1>0. Types /\ OneHook
  BY DEF Control
<1>1. Served \subseteq Hook /\ Served' \subseteq Hook /\ Answered \subseteq Hook
  BY DEF Served, Answered
<1>2. /\ IsFiniteSet(Served) /\ IsFiniteSet(Served') /\ IsFiniteSet(Answered)
      /\ Cardinality(Served) \in Nat /\ Cardinality(Served') \in Nat
      /\ Cardinality(Served') <= Cardinality(Hook)
  BY <1>1, FS_Subset, FS_CardinalityType, LifecycleAssumption
<1>3. ASSUME NEW g \in Hook, hpc[g] = "done" PROVE hpc'[g] = "done"
  <2>1. ASSUME NEW h \in Hook, NEW e \in Event, Fire(h, e) PROVE hpc'[g] = "done"
    BY <1>0, <1>3, <2>1 DEF Fire, Goto, Types
  <2>2. ASSUME NEW h \in Hook, HookStep(h) PROVE hpc'[g] = "done"
    BY <1>0, <1>3, <2>2, HookMoves DEF AtWork, Types
  <2>3. ASSUME NEW d \in Daemon, DaemonStep(d) \/ Signal(d) \/ Crash(d) PROVE hpc'[g] = "done"
    <3>1. CASE Serve(d)
      BY <1>0, <1>3, <3>1, ServeAnswers DEF Types
    <3>2. CASE ~Serve(d)
      BY <1>0, <1>3, <2>3, <3>2, DaemonMoves DEF DaemonStep
    <3> QED
      BY <3>1, <3>2
  <2>4. CASE Outside \/ UNCHANGED vars
    BY <1>3, <2>4 DEF Outside, vars, hookVars
  <2> QED
    BY <2>1, <2>2, <2>3, <2>4, FiredIsEvent DEF Step, Next
<1>4. Served \subseteq Served'
  BY <1>3 DEF Served
<1> QED
  BY <1>2, <1>4, FS_Subset

(* The queues hold the requests that are waited for, each once. *)
LEMMA QueuesStep ==
  ASSUME Sequential, Control, Control', Queues, [Step]_vars
  PROVE  Queues'
<1>0. Types /\ Types' /\ OneHook /\ OneDaemon /\ OneServer /\ Queues
  BY ControlServes DEF Control
<1>a. Cardinality(Served) \in Nat /\ Cardinality(Served') \in Nat /\ Cardinality(Served) <= Cardinality(Served')
  BY <1>0, ServedGrows
<1>b. \A d \in Daemon : counted[d] \in Nat /\ counted'[d] \in Nat /\ queue[d] \in Seq(Hook \cup {Mcp})
  BY <1>0 DEF Types
<1>1. ASSUME UNCHANGED <<queue, counted>>,
             \A d \in Daemon : queue[d] # <<>> /\ Listening(d) => Listening(d)',
             \A h \in Hook, d \in Daemon : InQueue(h, d) => hpc'[h] = "reply",
             \A d \in Daemon : dpc'[d] = "unborn" \/ Starting(d)' => dpc[d] = "unborn" \/ Starting(d)
      PROVE  Queues'
  <2>1. \A d \in Daemon : queue'[d] # <<>> => Listening(d)'
    BY <1>0, <1>1 DEF Queues
  <2>2. \A d \in Daemon, h \in Hook : InQueue(h, d)' => hpc'[h] = "reply"
    BY <1>1 DEF InQueue
  <2>3. \A d \in Daemon, h \in Hook : Once(h, queue'[d])
    BY <1>0, <1>1 DEF Queues
  <2>4. \A d \in Daemon : counted'[d] <= Cardinality(Served')
    BY <1>0, <1>a, <1>b, <1>1 DEF Queues
  <2>5. \A d \in Daemon : dpc'[d] = "unborn" \/ Starting(d)' => counted'[d] = 0
    BY <1>0, <1>1 DEF Queues
  <2> QED
    BY <2>1, <2>2, <2>3, <2>4, <2>5 DEF Queues
<1>2. ASSUME NEW h \in Hook, NEW e \in Event, Fire(h, e) PROVE Queues'
  <2>1. UNCHANGED <<dpc, queue, counted>>
    BY <1>2 DEF Fire, daemonVars
  <2>2. \A g \in Hook : hpc[g] = "reply" => hpc'[g] = "reply"
    BY <1>0, <1>2 DEF Fire, Goto, Types
  <2> QED
    BY <1>0, <1>1, <2>1, <2>2 DEF Queues, Listening, Starting
<1>3. ASSUME NEW h \in Hook, HookStep(h), ~Spawn(h), ~Send(h) PROVE Queues'
  <2>1. UNCHANGED <<dpc, queue, counted>>
    BY <1>3 DEF HookStep, Save, Probe, Remove, Await, GiveUp, Forget, daemonVars
  <2>2. \A d \in Daemon : ~InQueue(h, d)
    <3>1. CASE GiveUp(h)
      <4>1. ~Pending(h)
        BY <3>1 DEF GiveUp, Sequential
      <4>2. ASSUME NEW d \in Daemon, InQueue(h, d) PROVE FALSE
        <5>1. Listening(d)
          BY <1>0, <4>2, QueueEmpty DEF Queues, InQueue
        <5> QED
          BY <4>1, <4>2, <5>1 DEF Pending, InQueue, Among
      <4> QED
        BY <4>2
    <3>2. CASE hpc[h] # "reply"
      BY <1>0, <3>2 DEF Queues
    <3> QED
      BY <1>3, <3>1, <3>2 DEF HookStep, Save, Probe, Remove, Await, Forget
  <2>3. \A g \in Hook : g # h => hpc'[g] = hpc[g]
    BY <1>0, <1>3, HookMoves DEF Types
  <2>4. \A g \in Hook, d \in Daemon : InQueue(g, d) => hpc'[g] = "reply"
    BY <1>0, <2>2, <2>3 DEF Queues
  <2> QED
    BY <1>1, <2>1, <2>4 DEF Listening, Starting
<1>4. ASSUME NEW h \in Hook, Spawn(h) PROVE Queues'
  <2>1. UNCHANGED <<queue, counted>> /\ hpc[h] = "spawn" /\ hpc' = [hpc EXCEPT ![h] = "wait"]
    BY <1>4 DEF Spawn, Goto
  <2>2. PICK d \in Daemon : dpc[d] = "unborn" /\ dpc' = [dpc EXCEPT ![d] = "rm sock"]
    BY <1>4 DEF Spawn, DGoto
  <2>3. dpc'[d] = "rm sock" /\ \A c \in Daemon : c # d => dpc'[c] = dpc[c]
    BY <1>0, <2>2 DEF Types
  <2>4. \A g \in Hook : hpc[g] = "reply" => hpc'[g] = "reply"
    BY <1>0, <2>1 DEF Types
  <2> QED
    <3>1. \A c \in Daemon : queue'[c] # <<>> => Listening(c)'
      BY <1>0, <2>1, <2>2, <2>3 DEF Queues, Listening
    <3>2. \A c \in Daemon, g \in Hook : /\ InQueue(g, c)' => hpc'[g] = "reply"
                                        /\ Once(g, queue'[c])
      BY <1>0, <2>1, <2>4 DEF Queues, InQueue
    <3>3. \A c \in Daemon : dpc'[c] = "unborn" \/ Starting(c)' => counted'[c] = 0
      BY <1>0, <2>1, <2>2, <2>3 DEF Queues, Starting
    <3>4. \A c \in Daemon : counted'[c] <= Cardinality(Served')
      BY <1>0, <1>a, <1>b, <2>1 DEF Queues
    <3> QED
      BY <3>1, <3>2, <3>3, <3>4 DEF Queues
<1>5. ASSUME NEW h \in Hook, Send(h) PROVE Queues'
  <2>1. hpc[h] = "send" /\ UNCHANGED <<dpc, booted, counted>>
    BY <1>5 DEF Send
  <2>2. \A d \in Daemon : ~InQueue(h, d)
    BY <1>0, <2>1 DEF Queues
  <2>3. \A g \in Hook : g # h => hpc'[g] = hpc[g]
    BY <1>0, <1>5 DEF Send, Goto, Answer, Types
  <2>4. CASE ~Reachable
    <3>1. queue' = queue
      BY <1>5, <2>4 DEF Send
    <3>2. \A g \in Hook, d \in Daemon : InQueue(g, d) => hpc'[g] = "reply"
      BY <1>0, <2>2, <2>3 DEF Queues
    <3> QED
      BY <1>1, <2>1, <3>1, <3>2 DEF Listening, Starting
  <2>5. CASE Reachable
    <3> DEFINE s == files["sock"]
    <3>1. s \in Daemon /\ Listening(s)
      BY <2>5 DEF Reachable, Listening
    <3>2. queue' = [queue EXCEPT ![s] = Append(@, h)] /\ hpc' = [hpc EXCEPT ![h] = "reply"]
      BY <1>5, <2>5 DEF Send, Goto
    <3> HIDE DEF s
    <3>3. /\ queue'[s] = Append(queue[s], h)
          /\ \A d \in Daemon : d # s => queue'[d] = queue[d]
          /\ hpc'[h] = "reply"
      BY <1>0, <3>1, <3>2 DEF Types
    <3>4. \A g \in Hook : /\ Among(g, queue'[s]) => Among(g, queue[s]) \/ g = h
                          /\ Once(g, queue'[s])
      BY <1>0, <1>b, <2>2, <3>1, <3>3, QueueAppend DEF Queues, InQueue
    <3>5. \A d \in Daemon : queue'[d] # <<>> => Listening(d)'
      BY <1>0, <2>1, <3>1, <3>3 DEF Queues, Listening
    <3>6. \A d \in Daemon, g \in Hook : InQueue(g, d)' => hpc'[g] = "reply"
      BY <1>0, <2>3, <3>3, <3>4 DEF Queues, InQueue
    <3>7. \A d \in Daemon, g \in Hook : Once(g, queue'[d])
      BY <1>0, <3>3, <3>4 DEF Queues
    <3>8. \A d \in Daemon : counted'[d] <= Cardinality(Served')
      BY <1>0, <1>a, <1>b, <2>1 DEF Queues
    <3>9. \A d \in Daemon : dpc'[d] = "unborn" \/ Starting(d)' => counted'[d] = 0
      BY <1>0, <2>1 DEF Queues, Starting
    <3> QED
      BY <3>5, <3>6, <3>7, <3>8, <3>9 DEF Queues
  <2> QED
    BY <2>4, <2>5
<1>6. ASSUME NEW d \in Daemon, Cleanup(d) \/ Bind(d) \/ Announce(d) \/ Idle(d) \/ Signal(d) PROVE Queues'
  <2>1. UNCHANGED <<hpc, queue, counted>> /\ \A c \in Daemon : c # d => dpc'[c] = dpc[c]
    <3>1. UNCHANGED hpc /\ \A c \in Daemon : c # d => dpc'[c] = dpc[c]
      BY <1>0, <1>6, DaemonMoves
    <3> QED
      BY <1>6, <3>1 DEF Cleanup, Bind, Announce, Idle, Signal
  <2>2. Listening(d) => Listening(d)'
    <3>1. dpc[d] \notin {"term sock", "term pid", "term ready"}
      BY <1>0 DEF OneDaemon
    <3>2. CASE Cleanup(d)
      BY <3>1, <3>2 DEF Cleanup, Listening
    <3>3. CASE Bind(d) \/ Announce(d) \/ Idle(d)
      BY <1>0, <3>3 DEF Bind, Announce, Idle, DGoto, Listening, Types
    <3> QED
      BY <1>6, <3>2, <3>3 DEF Signal, Sequential
  <2>3. dpc'[d] = "unborn" \/ Starting(d)' => dpc[d] = "unborn" \/ Starting(d)
    BY <1>0, <1>6 DEF Cleanup, Bind, Announce, Idle, Signal, DGoto, Starting, Types
  <2>4. \A h \in Hook, c \in Daemon : InQueue(h, c) => hpc'[h] = "reply"
    BY <1>0, <2>1 DEF Queues
  <2> QED
    BY <1>1, <2>1, <2>2, <2>3, <2>4 DEF Listening, Starting
<1>7. ASSUME NEW d \in Daemon, Close(d) \/ Crash(d) PROVE Queues'
  <2>1. UNCHANGED hpc /\ \A c \in Daemon : c # d => /\ dpc'[c] = dpc[c] /\ queue'[c] = queue[c]
                                                 /\ counted'[c] = counted[c]
    BY <1>0, <1>7, DaemonMoves
  <2>2. queue'[d] = <<>> /\ counted'[d] = 0
    BY <1>0, <1>7, DaemonMoves
  <2>3. dpc'[d] \in {"rm sock!", "dead"}
    BY <1>0, <1>7 DEF Close, Crash, DGoto, Types
  <2>4. \A c \in Daemon : queue'[c] # <<>> => Listening(c)'
    BY <1>0, <2>1, <2>2 DEF Queues, Listening
  <2>5. \A c \in Daemon, g \in Hook : InQueue(g, c)' => hpc'[g] = "reply"
    BY <1>0, <2>1, <2>2, QueueEmpty DEF Queues, InQueue
  <2>6. \A c \in Daemon, g \in Hook : Once(g, queue'[c])
    BY <1>0, <2>1, <2>2, QueueEmpty DEF Queues
  <2>7. \A c \in Daemon : counted'[c] <= Cardinality(Served')
    <3>1. Served' = Served
      BY <2>1 DEF Served
    <3> QED
      BY <1>0, <1>a, <1>b, <2>1, <2>2, <3>1 DEF Queues
  <2>8. \A c \in Daemon : dpc'[c] = "unborn" \/ Starting(c)' => counted'[c] = 0
    BY <1>0, <2>1, <2>2 DEF Queues, Starting
  <2> QED
    BY <2>4, <2>5, <2>6, <2>7, <2>8 DEF Queues
<1>8. ASSUME NEW d \in Daemon, Serve(d) PROVE Queues'
  <2> DEFINE h == Head(queue[d])
  <2>1. dpc[d] = "serve" /\ queue[d] # <<>> /\ h \in Hook /\ InQueue(h, d)
    BY <1>0, <1>8, HeadIsHook DEF Serve
  <2>2. hpc[h] = "reply" /\ Once(h, queue[d])
    BY <1>0, <2>1 DEF Queues
  <2>3. /\ hpc' = [hpc EXCEPT ![h] = After(h)]
        /\ dpc' = dpc \/ dpc' = [dpc EXCEPT ![d] = "close"]
        /\ event[h] # "stop" => hpc'[h] = "done"
    BY <1>0, <1>8, <2>1, <2>2, ServeAnswers DEF Types, After
  <2>4. queue' = [queue EXCEPT ![d] = Tail(@)] /\ Handle(d, event[h])
    BY <1>0, <1>8, ServeAnswers
  <2> HIDE DEF h
  <2>5. \/ counted' = counted
        \/ counted' = [counted EXCEPT ![d] = 0]
        \/ event[h] = "act" /\ counted' = [counted EXCEPT ![d] = @ + 1]
    BY <2>4 DEF Handle
  <2>6. /\ queue'[d] = Tail(queue[d])
        /\ \A c \in Daemon : c # d => queue'[c] = queue[c] /\ counted'[c] = counted[c] /\ dpc'[c] = dpc[c]
        /\ dpc'[d] \in {"serve", "close"}
        /\ \A g \in Hook : g # h => hpc'[g] = hpc[g]
    BY <1>0, <2>1, <2>3, <2>4, <2>5 DEF Types
  <2>7. \A g : /\ Among(g, queue'[d]) => Among(g, queue[d]) /\ g # h
               /\ Once(g, queue[d]) => Once(g, queue'[d])
    BY <1>b, <2>1, <2>2, <2>6, QueueTail DEF h
  <2>8. \A c \in Daemon : c # d => ~InQueue(h, c)
    <3>1. \A c \in Daemon : queue[c] # <<>> => c = d
      BY <1>0, <2>1 DEF Queues, OneServer
    <3> QED
      BY <3>1, QueueEmpty DEF InQueue
  <2>9. \A c \in Daemon : queue'[c] # <<>> => Listening(c)'
    BY <1>0, <2>1, <2>6 DEF Queues, Listening
  <2>10. \A c \in Daemon, g \in Hook : InQueue(g, c)' => hpc'[g] = "reply"
    BY <1>0, <2>6, <2>7, <2>8 DEF Queues, InQueue
  <2>11. \A c \in Daemon, g \in Hook : Once(g, queue'[c])
    BY <1>0, <2>6, <2>7 DEF Queues
  <2>12. counted'[d] <= Cardinality(Served')
    <3>1. CASE counted' = [counted EXCEPT ![d] = 0]
      BY <1>0, <1>a, <3>1 DEF Types
    <3>2. CASE counted' = counted
      BY <1>0, <1>a, <1>b, <3>2 DEF Queues
    <3>3. CASE event[h] = "act" /\ counted' = [counted EXCEPT ![d] = @ + 1]
      <4>1. counted'[d] = counted[d] + 1
        BY <1>0, <3>3 DEF Types
      <4>2. h \notin Served /\ h \in Served'
        BY <2>1, <2>2, <2>3, <3>3 DEF Served
      <4>3. Served \subseteq Served' /\ IsFiniteSet(Served) /\ IsFiniteSet(Served')
        BY <1>0, ServedGrows
      <4>4. Cardinality(Served \cup {h}) = Cardinality(Served) + 1
        BY <4>2, <4>3, FS_AddElement
      <4>5. Cardinality(Served \cup {h}) <= Cardinality(Served')
        <5>1. Served \cup {h} \subseteq Served'
          BY <4>2, <4>3
        <5> QED
          BY <4>3, <5>1, FS_Subset
      <4>6. counted[d] <= Cardinality(Served)
        BY <1>0 DEF Queues
      <4> QED
        BY <1>a, <1>b, <4>1, <4>4, <4>5, <4>6
    <3> QED
      BY <2>5, <3>1, <3>2, <3>3
  <2>13. \A c \in Daemon : counted'[c] <= Cardinality(Served')
    <3>1. \A c \in Daemon : counted[c] <= Cardinality(Served)
      BY <1>0 DEF Queues
    <3>2. ASSUME NEW c \in Daemon, c # d PROVE counted'[c] <= Cardinality(Served')
      <4>1. counted'[c] = counted[c] /\ counted[c] <= Cardinality(Served)
        BY <2>6, <3>1, <3>2
      <4> QED
        BY <1>a, <1>b, <4>1
    <3> QED
      BY <2>12, <3>2
  <2>14. \A c \in Daemon : dpc'[c] = "unborn" \/ Starting(c)' => counted'[c] = 0
    BY <1>0, <2>6 DEF Queues, Starting
  <2> QED
    BY <2>9, <2>10, <2>11, <2>13, <2>14 DEF Queues
<1>9. CASE Outside
  <2>1. CASE saved' = TRUE /\ UNCHANGED <<editorVars, files, hookVars, daemonVars>>
    <3>1. UNCHANGED <<queue, counted, hpc, dpc>>
      BY <2>1 DEF hookVars, daemonVars
    <3> QED
      BY <1>0, <1>1, <3>1 DEF Queues, Listening, Starting
  <2>2. ASSUME UNCHANGED <<hpc, dpc, booted, counted>>,
               \A d \in Daemon : queue'[d] # <<>> => Listening(d),
               \A d \in Daemon, g \in Hook : /\ Among(g, queue'[d]) => Among(g, queue[d])
                                             /\ Once(g, queue'[d])
        PROVE  Queues'
    <3>1. Served' = Served
      BY <2>2 DEF Served
    <3> QED
      BY <1>0, <2>2, <3>1 DEF Queues, InQueue, Listening, Starting
  <2>3. CASE /\ Reachable
             /\ queue' = [queue EXCEPT ![files["sock"]] = Append(@, Mcp)]
             /\ UNCHANGED <<editorVars, files, saved, hookVars, dpc, booted, counted>>
    <3> DEFINE s == files["sock"]
    <3>1. s \in Daemon /\ Listening(s)
      BY <2>3 DEF Reachable, Listening
    <3>2. queue' = [queue EXCEPT ![s] = Append(@, Mcp)] /\ UNCHANGED <<hpc, dpc, booted, counted>>
      BY <2>3 DEF hookVars
    <3> HIDE DEF s
    <3>3. queue'[s] = Append(queue[s], Mcp) /\ \A d \in Daemon : d # s => queue'[d] = queue[d]
      BY <1>0, <3>1, <3>2 DEF Types
    <3>4. \A g \in Hook : g # Mcp
      BY LifecycleAssumption
    <3>5. ASSUME NEW g \in Hook
          PROVE  /\ Among(g, queue'[s]) => Among(g, queue[s])
                 /\ Once(g, queue'[s])
      <4>1. Among(g, queue'[s]) => Among(g, queue[s])
        BY <1>b, <3>1, <3>3, <3>4, QueueAppend
      <4>2. Once(g, queue[s])
        BY <1>0, <3>1 DEF Queues
      <4> QED
        BY <1>b, <3>1, <3>3, <3>4, <4>1, <4>2, QueueAppend
    <3>6. \A d \in Daemon : queue'[d] # <<>> => Listening(d)
      BY <1>0, <3>1, <3>3 DEF Queues
    <3>7. \A d \in Daemon, g \in Hook : /\ Among(g, queue'[d]) => Among(g, queue[d])
                                        /\ Once(g, queue'[d])
      BY <1>0, <3>3, <3>5 DEF Queues
    <3> QED
      BY <2>2, <3>2, <3>6, <3>7
  <2>4. ASSUME NEW d \in Daemon, dpc[d] = "serve", queue[d] # <<>>,
               queue' = [queue EXCEPT ![d] = Tail(@)],
               UNCHANGED <<editorVars, files, saved, hookVars, dpc, booted, counted>>
        PROVE  Queues'
    <3>1. queue'[d] = Tail(queue[d]) /\ \A c \in Daemon : c # d => queue'[c] = queue[c]
      BY <1>0, <2>4 DEF Types
    <3>2. \A g \in Hook : /\ Among(g, queue'[d]) => Among(g, queue[d])
                          /\ Once(g, queue'[d])
      BY <1>0, <1>b, <2>4, <3>1, QueueTail DEF Queues
    <3>3. \A c \in Daemon : queue'[c] # <<>> => Listening(c)
      BY <1>0, <2>4, <3>1 DEF Queues, Listening
    <3>4. \A c \in Daemon, g \in Hook : /\ Among(g, queue'[c]) => Among(g, queue[c])
                                        /\ Once(g, queue'[c])
      BY <1>0, <3>1, <3>2 DEF Queues
    <3>5. UNCHANGED <<hpc, dpc, booted, counted>>
      BY <2>4 DEF hookVars
    <3> QED
      BY <2>2, <3>3, <3>4, <3>5
  <2> QED
    BY <1>9, <2>1, <2>3, <2>4 DEF Outside
<1>10. CASE UNCHANGED vars
  BY <1>0, <1>1, <1>10 DEF vars, hookVars, daemonVars, Queues, Listening, Starting
<1> QED
  BY <1>2, <1>3, <1>4, <1>5, <1>6, <1>7, <1>8, <1>9, <1>10, FiredIsEvent DEF Step, Next, DaemonStep

-----------------------------------------------------------------------------
(* A daemon that has left or died does not come back. *)
LEMMA LeftForGood ==
  ASSUME Types, [Step]_vars, NoneLeft'
  PROVE  NoneLeft
<1> SUFFICES ASSUME NEW c \in Daemon, dpc[c] \in Leaving PROVE dpc'[c] \in Leaving
  BY DEF NoneLeft
<1> USE DEF Types
<1>1. ASSUME NEW h \in Hook, HookStep(h) \/ \E e \in Event : Fire(h, e) PROVE dpc'[c] \in Leaving
  <2>1. CASE Spawn(h)
    BY <2>1 DEF Spawn, DGoto, Leaving
  <2>2. CASE ~Spawn(h)
    BY <1>1, <2>2 DEF HookStep, Fire, Save, Probe, Remove, Await, Send, GiveUp, Forget, daemonVars
  <2> QED
    BY <2>1, <2>2
<1>2. ASSUME NEW d \in Daemon, DaemonStep(d) \/ Signal(d) \/ Crash(d) PROVE dpc'[c] \in Leaving
  <2>1. CASE Serve(d)
    <3>1. dpc' = dpc \/ dpc' = [dpc EXCEPT ![d] = "close"]
      BY <2>1, ServeAnswers
    <3> QED
      BY <3>1 DEF Leaving
  <2>2. CASE Cleanup(d)
    BY <2>2 DEF Cleanup, DGoto, Leaving
  <2>3. CASE Bind(d) \/ Announce(d) \/ Idle(d) \/ Close(d) \/ Signal(d) \/ Crash(d)
    BY <2>3 DEF Bind, Announce, Idle, Close, Signal, Crash, DGoto, Leaving
  <2> QED
    BY <1>2, <2>1, <2>2, <2>3 DEF DaemonStep
<1>3. CASE Outside \/ UNCHANGED vars
  BY <1>3 DEF Outside, vars, daemonVars
<1> QED
  BY <1>1, <1>2, <1>3, FiredIsEvent DEF Step, Next

(* As long as no daemon has left, the hook at work finds the one that serves
   at every step, and a daemon with an engine counts what it answers.      *)
LEMMA RulesForHooks ==
  ASSUME Sequential, Control, Control', Queues, NoneLeft, Rules,
         NEW h \in Hook, HookStep(h) \/ \E e \in Event : Fire(h, e)
  PROVE  Rules'
<1>0. Types /\ Types' /\ OneHook /\ OneDaemon /\ Owners /\ OneServer /\ ServerIsReachable
  BY ControlServes DEF Control
<1>1. ASSUME AtWork(h)', UNCHANGED got,
             \A g \in Hook : g # h => ~AtWork(g)',
             \A d \in Daemon : Serving(d)' <=> Serving(d),
             \A d \in Daemon : Serving(d) => /\ files'["ready"] = files["ready"]
                                             /\ booted'[d] = booted[d] /\ counted'[d] = counted[d],
             Answered' = Answered, event'[h] = "sessionStart" => Answered = {},
             hpc'[h] # "forget",
             hpc'[h] = "send" \/ (hpc'[h] = "probe" /\ event'[h] # "sessionStart") => \E d \in Daemon : Serving(d),
             hpc'[h] = "reply" => \E d \in Daemon : Serving(d) /\ InQueue(h, d)',
             Replacing(h)' \/ hpc'[h] \in {"save", "wait"} => event'[h] = "sessionStart"
      PROVE  Rules'
  <2>1. \A g \in Hook : g # h => hpc'[g] \in {"idle", "done"}
    BY <1>1 DEF AtWork
  <2>2. \A g \in Hook : got'[g] # "open" /\ hpc'[g] # "forget"
    BY <1>1, <2>1 DEF Rules
  <2>3. \A g \in Hook : hpc'[g] = "send" \/ (hpc'[g] = "probe" /\ event'[g] # "sessionStart")
                       => \E d \in Daemon : Serving(d)'
    BY <1>1, <2>1
  <2>4. \A g \in Hook : hpc'[g] = "reply" => \E d \in Daemon : Serving(d)' /\ InQueue(g, d)'
    BY <1>1, <2>1
  <2>5. \A g \in Hook : Replacing(g)' \/ hpc'[g] \in {"save", "wait"} => event'[g] = "sessionStart"
    BY <1>1, <2>1 DEF Replacing
  <2>6. \A g \in Hook : AtWork(g)' /\ event'[g] = "sessionStart" => Answered' = {}
    BY <1>1
  <2>7. \A d \in Daemon : Serving(d)' => /\ files'["ready"] = d
                                         /\ (booted'[d] => counted'[d] = Cardinality(Answered'))
    BY <1>1 DEF Rules
  <2> QED
    BY <1>1, <2>2, <2>3, <2>4, <2>5, <2>6, <2>7 DEF Rules
<1>2. ASSUME NEW e \in Event, Fire(h, e) PROVE Rules'
  <2>1. /\ \A g \in Hook : ~AtWork(g)
        /\ hpc[h] = "idle" /\ open = (e # "sessionStart")
        /\ UNCHANGED <<files, got, dpc, queue, booted, counted>>
    BY <1>2 DEF Fire, Sequential, AtWork, daemonVars
  <2>2. /\ event'[h] = e /\ \A g \in Hook : g # h => hpc'[g] = hpc[g] /\ event'[g] = event[g]
        /\ e = "sessionStart" => hpc'[h] = "save"
        /\ e \in {"act", "note"} => hpc'[h] = "probe"
        /\ e = "stop" => hpc'[h] = "send"
    BY <1>0, <1>2 DEF Fire, Goto, Event, Types
  <2>3. got[h] = "none"
    BY <1>0, <2>1 DEF OneHook
  <2>4. Answered' = Answered
    BY <2>1, <2>2, <2>3 DEF Answered
  <2>5. e = "sessionStart" => Answered = {}
    BY <2>1 DEF Rules
  <2>6. e # "sessionStart" => \E d \in Daemon : Serving(d)
    BY <2>1 DEF Rules
  <2>7. e \in {"sessionStart", "act", "note", "stop"}
    BY DEF Event
  <2>8. /\ AtWork(h)' /\ ~Replacing(h)' /\ hpc'[h] \in {"save", "probe", "send"}
        /\ \A g \in Hook : g # h => ~AtWork(g)'
    BY <2>1, <2>2, <2>7 DEF AtWork, Replacing
  <2> QED
    BY <1>1, <2>1, <2>2, <2>4, <2>5, <2>6, <2>7, <2>8 DEF Serving
<1>3. CASE HookStep(h)
  <2>1. /\ AtWork(h) /\ UNCHANGED <<open, event>>
        /\ \A g \in Hook : g # h => hpc'[g] = hpc[g] /\ ~AtWork(g) /\ ~AtWork(g)'
    BY <1>0, <1>3, HookMoves DEF OneHook, AtWork, Types
  <2>2. \A d \in Daemon : ~Starting(d)
    BY <1>3, HooksAwaitStart
  <2>3. ASSUME NEW d \in Daemon, Alive(d) PROVE Serving(d)
    BY <1>0, <2>2, <2>3 DEF NoneLeft, Leaving, Alive, Starting, Serving, Types, DaemonPc
  <2>4. event[h] = "sessionStart" => Answered = {}
    BY <2>1 DEF Rules
  <2>5. ASSUME UNCHANGED <<got, files, dpc, booted, counted>>, AtWork(h)', hpc'[h] # "forget",
               hpc'[h] = "send" \/ (hpc'[h] = "probe" /\ event[h] # "sessionStart")
                 => \E d \in Daemon : Serving(d),
               hpc'[h] = "reply" => \E d \in Daemon : Serving(d) /\ InQueue(h, d)',
               Replacing(h)' \/ hpc'[h] \in {"save", "wait"} => event[h] = "sessionStart"
        PROVE  Rules'
    <3>1. Answered' = Answered
      BY <2>1, <2>5 DEF Answered
    <3> QED
      BY <1>1, <2>1, <2>4, <2>5, <3>1 DEF Serving
  <2>6. CASE Save(h)
    <3>1. UNCHANGED <<got, files, dpc, booted, counted>> /\ hpc'[h] = "probe" /\ hpc[h] = "save"
      BY <1>0, <2>6 DEF Save, Goto, Types, daemonVars
    <3>2. event[h] = "sessionStart"
      BY <3>1 DEF Rules
    <3> QED
      BY <2>5, <3>1, <3>2 DEF AtWork, Replacing
  <2>7. CASE Probe(h)
    <3>1. UNCHANGED <<files, dpc, booted, counted>> /\ hpc[h] = "probe"
      BY <2>7 DEF Probe, daemonVars
    <3>2. CASE DaemonAlive
      <4>1. got' = got /\ hpc'[h] = "send"
        BY <1>0, <2>7, <3>2 DEF Probe, Goto, Types
      <4>2. \E d \in Daemon : Serving(d)
        BY <2>3, <3>2 DEF DaemonAlive, Alive
      <4> QED
        BY <2>5, <3>1, <4>1, <4>2 DEF AtWork, Replacing
    <3>3. CASE ~DaemonAlive
      <4>1. event[h] = "sessionStart"
        <5>1. SUFFICES ASSUME NEW d \in Daemon, Serving(d) PROVE DaemonAlive
          BY <3>1, <3>3, <5>1 DEF Rules
        <5> QED
          BY <1>0, <5>1, DaemonIsSome DEF ServerIsReachable, DaemonAlive, Alive, Serving
      <4>2. got' = got /\ hpc'[h] = "rm sock"
        BY <1>0, <2>7, <3>3, <4>1 DEF Probe, Goto, Types
      <4> QED
        BY <2>5, <3>1, <4>1, <4>2 DEF AtWork, Replacing
    <3> QED
      BY <3>2, <3>3
  <2>8. CASE Remove(h)
    <3>1. /\ UNCHANGED <<got, dpc, booted, counted>> /\ Replacing(h)
          /\ hpc'[h] \in {"rm pid", "rm ready", "spawn"}
      BY <1>0, <2>8 DEF Remove, Goto, Replacing, Types, daemonVars
    <3>2. event[h] = "sessionStart"
      BY <3>1 DEF Rules
    <3>3. \A d \in Daemon : ~Serving(d)
      BY <1>0, <3>1 DEF OneDaemon, Present, Serving
    <3>4. Answered' = Answered
      BY <2>1, <3>1 DEF Answered
    <3>5. AtWork(h)'
      BY <3>1 DEF AtWork
    <3>6. \A d \in Daemon : ~Serving(d)'
      BY <3>1, <3>3 DEF Serving
    <3> QED
      BY <1>1, <2>1, <2>4, <3>1, <3>2, <3>3, <3>4, <3>5, <3>6
  <2>9. CASE Spawn(h)
    <3>1. /\ UNCHANGED <<got, files, counted>> /\ Replacing(h) /\ hpc'[h] = "wait"
      BY <1>0, <2>9 DEF Spawn, Goto, Replacing, Types
    <3>2. event[h] = "sessionStart"
      BY <3>1 DEF Rules
    <3>3. \A d \in Daemon : /\ Serving(d)' <=> Serving(d)
                            /\ Serving(d) => booted'[d] = booted[d]
      <4>1. PICK d \in Daemon : /\ dpc[d] = "unborn" /\ dpc' = [dpc EXCEPT ![d] = "rm sock"]
                                /\ \E b \in BOOLEAN : booted' = [booted EXCEPT ![d] = b]
        BY <2>9 DEF Spawn, DGoto
      <4>2. \A c \in Daemon : c # d => dpc'[c] = dpc[c] /\ booted'[c] = booted[c]
        BY <1>0, <4>1 DEF Types
      <4>3. ~Serving(d) /\ ~Serving(d)'
        BY <1>0, <4>1 DEF Serving, Types
      <4> QED
        BY <4>2, <4>3 DEF Serving
    <3>4. Answered' = Answered
      BY <2>1, <3>1 DEF Answered
    <3>5. AtWork(h)' /\ hpc'[h] \notin {"forget", "send", "probe", "reply"}
      BY <3>1 DEF AtWork
    <3>6. \A d \in Daemon : Serving(d) => /\ files'["ready"] = files["ready"]
                                          /\ booted'[d] = booted[d] /\ counted'[d] = counted[d]
      BY <3>1, <3>3
    <3>7. \A d \in Daemon : Serving(d)' <=> Serving(d)
      BY <3>3
    <3> QED
      BY <1>1, <2>1, <2>4, <3>1, <3>2, <3>4, <3>5, <3>6, <3>7
  <2>10. CASE Await(h)
    <3>1. UNCHANGED <<files, dpc, booted, counted>> /\ hpc[h] = "wait"
      BY <2>10 DEF Await, daemonVars
    <3>2. Serving(child[h])
      <4>1. child[h] \in Daemon /\ dpc[child[h]] # "unborn"
        BY <1>0, <3>1 DEF OneHook
      <4>2. Alive(child[h])
        BY <4>1 DEF NoneLeft, Leaving, Alive
      <4> QED
        BY <2>3, <4>1, <4>2
    <3>3. files["ready"] # NoOne /\ files["sock"] # NoOne
      BY <1>0, <3>2, DaemonIsSome DEF Rules, ServerIsReachable, Serving
    <3>4. got' = got /\ hpc'[h] = "send"
      BY <1>0, <2>10, <3>3 DEF Await, Goto, Types
    <3>5. \E d \in Daemon : Serving(d)
      BY <3>2 DEF Serving
    <3> QED
      BY <2>5, <3>1, <3>4, <3>5 DEF AtWork, Replacing
  <2>11. CASE Send(h)
    <3>1. UNCHANGED <<files, dpc, booted, counted>> /\ hpc[h] = "send"
      BY <2>11 DEF Send
    <3>2. PICK d \in Daemon : Serving(d)
      BY <3>1 DEF Rules
    <3>3. files["sock"] = d /\ Reachable
      BY <1>0, <3>2, DaemonIsSome DEF ServerIsReachable, Reachable, Listening, Serving
    <3>4. got' = got /\ hpc'[h] = "reply" /\ queue' = [queue EXCEPT ![d] = Append(@, h)]
      BY <1>0, <2>11, <3>3 DEF Send, Goto, Types
    <3>5. queue'[d] = Append(queue[d], h) /\ queue[d] \in Seq(Hook \cup {Mcp})
      BY <1>0, <3>4 DEF Types
    <3>6. InQueue(h, d)'
      BY <3>5, QueueAppend DEF InQueue
    <3> QED
      BY <2>5, <3>1, <3>2, <3>4, <3>6 DEF AtWork, Replacing
  <2>12. ~GiveUp(h)
    <3> SUFFICES ASSUME GiveUp(h) PROVE FALSE
      OBVIOUS
    <3>1. PICK d \in Daemon : Serving(d) /\ InQueue(h, d)
      BY DEF GiveUp, Rules
    <3>2. Pending(h)
      BY <3>1 DEF Pending, Serving, Listening, InQueue, Among
    <3> QED
      BY <3>2 DEF GiveUp, Sequential
  <2>13. ~Forget(h)
    BY DEF Forget, Rules
  <2> QED
    BY <1>3, <2>6, <2>7, <2>8, <2>9, <2>10, <2>11, <2>12, <2>13 DEF HookStep
<1> QED
  BY <1>2, <1>3

(* The same for the steps of the daemons and of others. *)
LEMMA RulesForDaemons ==
  ASSUME Sequential, Control, Control', Queues, NoneLeft, NoneLeft', Rules,
         \/ \E d \in Daemon : DaemonStep(d) \/ Signal(d) \/ Crash(d)
         \/ Outside
  PROVE  Rules'
<1>0. Types /\ Types' /\ OneHook /\ OneDaemon /\ Owners /\ OneServer /\ ServerIsReachable
  BY ControlServes DEF Control
<1>1. ASSUME NEW d \in Daemon, Cleanup(d) \/ Bind(d) \/ Announce(d) PROVE Rules'
  <2>1. /\ UNCHANGED <<open, event, hpc, got, counted>>
        /\ \A c \in Daemon : c # d => dpc'[c] = dpc[c]
    <3>1. UNCHANGED counted
      BY <1>1 DEF Cleanup, Bind, Announce
    <3> QED
      BY <1>0, <1>1, <3>1, DaemonMoves
  <2>2. Starting(d)
    BY <1>0, <1>1 DEF Cleanup, Bind, Announce, NoneLeft, Leaving, Starting
  <2>3. PICK h \in Hook : hpc[h] = "wait"
    BY <1>0, <2>2 DEF OneDaemon
  <2>4. \A g \in Hook : g # h => ~AtWork(g)
    BY <1>0, <2>3 DEF OneHook, AtWork
  <2>5. Answered = {} /\ Answered' = Answered
    BY <2>1, <2>3 DEF Rules, Answered, AtWork
  <2>6. \A c \in Daemon : Serving(c)' => c = d
    <3>1. \A c \in Daemon : Present(c) => c = d
      BY <1>0, <2>2 DEF OneDaemon, Present
    <3>2. \A c \in Daemon : Serving(c)' /\ c # d => Present(c)
      BY <2>1 DEF Serving, Present
    <3> QED
      BY <3>1, <3>2 DEF Serving
  <2>7. Serving(d)' => files'["ready"] = d /\ counted'[d] = Cardinality(Answered')
    <3> SUFFICES ASSUME Serving(d)' PROVE files'["ready"] = d /\ counted'[d] = Cardinality(Answered')
      OBVIOUS
    <3>1. ~Cleanup(d) /\ ~Bind(d)
      BY <1>0 DEF Cleanup, Bind, DGoto, Serving, Types
    <3>2. files'["ready"] = d
      BY <1>0, <1>1, <3>1 DEF Announce, Make, DGoto, Serving, Types, File
    <3>3. counted'[d] = 0
      BY <2>1, <2>2 DEF Queues
    <3> QED
      BY <2>5, <3>2, <3>3, FS_EmptySet
  <2>8. \A g \in Hook : hpc'[g] \notin {"send", "probe", "reply"}
    BY <2>1, <2>3, <2>4 DEF AtWork
  <2>9. AtWork(h)'
    BY <2>1, <2>3 DEF AtWork
  <2>10. \A g \in Hook : Replacing(g)' \/ hpc'[g] \in {"save", "wait"} => event'[g] = "sessionStart"
    BY <2>1 DEF Rules, Replacing
  <2>11. \A g \in Hook : got'[g] # "open" /\ hpc'[g] # "forget"
    BY <2>1 DEF Rules
  <2>12. \A c \in Daemon : Serving(c)' => files'["ready"] = c /\ counted'[c] = Cardinality(Answered')
    BY <2>6, <2>7
  <2> QED
    BY <2>5, <2>8, <2>9, <2>10, <2>11, <2>12 DEF Rules
<1>2. ASSUME NEW d \in Daemon, Serve(d) PROVE Rules'
  <2> DEFINE h == Head(queue[d])
  <2>1. dpc[d] = "serve" /\ h \in Hook /\ InQueue(h, d)
    BY <1>0, <1>2, HeadIsHook DEF Serve
  <2>2. hpc[h] = "reply"
    BY <1>0, <2>1 DEF Queues
  <2>3. /\ UNCHANGED <<open, event, files>>
        /\ hpc' = [hpc EXCEPT ![h] = After(h)] /\ got' = [got EXCEPT ![h] = "answer"]
        /\ IF event[h] = "stop" THEN dpc' = [dpc EXCEPT ![d] = "close"] ELSE dpc' = dpc
    BY <1>0, <1>2, <2>2, ServeAnswers
  <2>4. Handle(d, event[h])
    BY <1>0, <1>2, ServeAnswers
  <2> HIDE DEF h
  <2>5. event[h] \in {"sessionStart", "act", "note"} /\ dpc' = dpc
    <3>1. dpc'[d] # "close"
      BY DEF NoneLeft, Leaving
    <3>2. event[h] # "stop"
      BY <1>0, <2>3, <3>1 DEF Types
    <3> QED
      BY <1>0, <2>1, <2>3, <3>2 DEF Types, Event
  <2>6. /\ hpc'[h] = "done" /\ got'[h] = "answer"
        /\ \A g \in Hook : g # h => hpc'[g] = hpc[g] /\ got'[g] = got[g]
    BY <1>0, <2>1, <2>3, <2>5 DEF After, Types
  <2>7. open
    BY <1>0, <2>1, <2>2, <2>5 DEF OneHook, AtWork
  <2>8. \A g \in Hook : ~AtWork(g)'
    BY <1>0, <2>1, <2>2, <2>6 DEF OneHook, AtWork
  <2>9. got[h] = "none"
    BY <1>0, <2>1, <2>2 DEF OneHook
  <2>10. Serving(d)' /\ \A c \in Daemon : Serving(c)' => c = d
    BY <1>0, <2>1, <2>5 DEF OneServer, Listening, Serving
  <2>11. files'["ready"] = d /\ (booted[d] => counted[d] = Cardinality(Answered))
    BY <2>1, <2>3 DEF Rules, Serving
  <2>12. booted'[d] => counted'[d] = Cardinality(Answered')
    <3>1. CASE event[h] # "act"
      <4>1. Answered' = Answered
        BY <2>3, <2>6, <2>9, <3>1 DEF Answered
      <4>2. CASE UNCHANGED <<booted, counted>>
        BY <2>11, <4>1, <4>2
      <4>3. CASE event[h] = "sessionStart" /\ counted' = [counted EXCEPT ![d] = 0]
        <5>1. Answered = {}
          BY <2>1, <2>2, <4>3 DEF Rules, AtWork
        <5>2. counted'[d] = 0
          BY <1>0, <4>3 DEF Types
        <5> QED
          BY <4>1, <5>1, <5>2, FS_EmptySet
      <4> QED
        BY <2>4, <3>1, <4>2, <4>3 DEF Handle
    <3>2. CASE event[h] = "act"
      <4>1. Answered' = Answered \cup {h} /\ h \notin Answered
        BY <2>1, <2>3, <2>6, <2>9, <3>2 DEF Answered
      <4>2. IsFiniteSet(Answered)
        BY FS_Subset, LifecycleAssumption DEF Answered
      <4>3. Cardinality(Answered') = Cardinality(Answered) + 1
        BY <4>1, <4>2, FS_AddElement
      <4>4. booted' = booted /\ (booted[d] => counted' = [counted EXCEPT ![d] = @ + 1])
        BY <2>4, <3>2 DEF Handle
      <4>5. booted[d] => counted'[d] = counted[d] + 1
        BY <1>0, <4>4 DEF Types
      <4> QED
        BY <2>11, <4>3, <4>4, <4>5
    <3> QED
      BY <3>1, <3>2
  <2>13. \A g \in Hook : got'[g] # "open" /\ hpc'[g] # "forget"
    BY <2>6 DEF Rules
  <2>14. \A g \in Hook : hpc'[g] \in {"idle", "done"}
    BY <2>8 DEF AtWork
  <2>15. open'
    BY <2>3, <2>7
  <2>16. \A c \in Daemon : Serving(c)' => /\ files'["ready"] = c
                                          /\ (booted'[c] => counted'[c] = Cardinality(Answered'))
    BY <2>10, <2>11, <2>12
  <2>17. \A g \in Hook : /\ hpc'[g] \notin {"send", "probe", "reply", "save", "wait"}
                         /\ ~Replacing(g)'
    BY <2>14 DEF Replacing
  <2> QED
    BY <2>8, <2>10, <2>13, <2>15, <2>16, <2>17 DEF Rules
<1>3. ASSUME NEW d \in Daemon, Idle(d) \/ Close(d) \/ Signal(d) \/ Crash(d) PROVE FALSE
  <2>1. dpc'[d] \in Leaving
    BY <1>0, <1>3 DEF Idle, Close, Signal, Crash, DGoto, Leaving, Types
  <2> QED
    BY <2>1 DEF NoneLeft
<1>4. CASE Outside
  <2>1. UNCHANGED <<open, event, files, hpc, got, dpc, booted, counted>>
    BY <1>4 DEF Outside, editorVars, hookVars, daemonVars
  <2>2. \A h \in Hook, d \in Daemon : InQueue(h, d) => InQueue(h, d)'
    <3>1. CASE saved' = TRUE /\ UNCHANGED <<editorVars, files, hookVars, daemonVars>>
      BY <3>1 DEF daemonVars, InQueue
    <3>2. CASE Reachable /\ queue' = [queue EXCEPT ![files["sock"]] = Append(@, Mcp)]
      <4> DEFINE s == files["sock"]
      <4>1. s \in Daemon /\ queue' = [queue EXCEPT ![s] = Append(@, Mcp)]
        BY <3>2 DEF Reachable, Listening
      <4> HIDE DEF s
      <4>2. /\ queue'[s] = Append(queue[s], Mcp) /\ queue[s] \in Seq(Hook \cup {Mcp})
            /\ \A c \in Daemon : c # s => queue'[c] = queue[c]
        BY <1>0, <4>1 DEF Types
      <4>3. \A h : Among(h, queue[s]) => Among(h, queue'[s])
        BY <4>2, QueueAppend
      <4> QED
        BY <4>2, <4>3 DEF InQueue
    <3>3. ASSUME NEW d \in Daemon, queue[d] # <<>>, Head(queue[d]) = Mcp,
                 queue' = [queue EXCEPT ![d] = Tail(@)]
          PROVE  \A h \in Hook, c \in Daemon : InQueue(h, c) => InQueue(h, c)'
      <4>1. /\ queue'[d] = Tail(queue[d]) /\ queue[d] \in Seq(Hook \cup {Mcp})
            /\ \A c \in Daemon : c # d => queue'[c] = queue[c]
        BY <1>0, <3>3 DEF Types
      <4>2. \A h \in Hook : h # Mcp
        BY LifecycleAssumption
      <4>3. \A h \in Hook : Among(h, queue[d]) => Among(h, queue'[d])
        BY <3>3, <4>1, <4>2, QueueTail
      <4> QED
        BY <4>1, <4>3 DEF InQueue
    <3> QED
      BY <1>4, <3>1, <3>2, <3>3 DEF Outside
  <2>3. Answered' = Answered /\ \A d \in Daemon : Serving(d)' <=> Serving(d)
    BY <2>1 DEF Answered, Serving
  <2>4. \A h \in Hook : (AtWork(h)' <=> AtWork(h)) /\ (Replacing(h)' <=> Replacing(h))
    BY <2>1 DEF AtWork, Replacing
  <2> QED
    BY <2>1, <2>2, <2>3, <2>4 DEF Rules
<1> QED
  BY <1>1, <1>2, <1>3, <1>4 DEF DaemonStep

(* The whole of it, inductive beside whatever else takes steps; *)
LEMMA LifeStep == Sequential /\ Life /\ [Step]_vars => Life'
<1> SUFFICES ASSUME Sequential, Life, [Step]_vars PROVE Life'
  OBVIOUS
<1>1. Control'
  BY ControlStep DEF Life
<1>2. Queues'
  BY <1>1, QueuesStep DEF Life
<1>3. Governed'
  <2> SUFFICES ASSUME NoneLeft' PROVE Rules'
    BY DEF Governed
  <2>1. NoneLeft /\ Rules
    BY LeftForGood DEF Life, Control, Governed
  <2>2. CASE UNCHANGED vars
    BY <2>1, <2>2 DEF vars, editorVars, hookVars, daemonVars, Rules, AtWork, Replacing, Answered, Serving, InQueue
  <2> QED
    BY <1>1, <2>1, <2>2, RulesForHooks, RulesForDaemons, FiredIsEvent DEF Life, Step, Next
<1> QED
  BY <1>1, <1>2, <1>3 DEF Life

(* it holds at the start, *)
LEMMA InitLife == Init => Life
<1> SUFFICES ASSUME Init PROVE Life
  OBVIOUS
<1>1. Served = {} /\ Answered = {}
  BY DEF Init, Served, Answered
<1>2. Queues
  BY <1>1, QueueEmpty, FS_EmptySet DEF Init, Queues, InQueue
<1>3. Rules
  BY <1>1 DEF Init, Rules, Replacing, AtWork, Serving
<1> QED
  BY <1>2, <1>3, InitControl DEF Life, Governed

(* and it is what a reader is told. *)
LEMMA LifeShows == Life => HTypeOK /\ OneServer /\ ServerIsReachable /\ GovernedWhileUp
<1> SUFFICES ASSUME Life PROVE HTypeOK /\ OneServer /\ ServerIsReachable /\ GovernedWhileUp
  OBVIOUS
<1>1. OneServer /\ ServerIsReachable
  BY ControlServes DEF Life
<1>2. GovernedWhileUp
  BY DEF Life, Governed, NoneLeft, Rules, GovernedWhileUp
<1>3. HTypeOK
  <2>1. Cardinality(Served) \in Nat /\ Cardinality(Served) <= Cardinality(Hook) /\ Cardinality(Hook) \in Nat
    BY FS_Subset, FS_CardinalityType, LifecycleAssumption DEF Served
  <2>2. \A d \in Daemon : counted[d] \in Nat /\ counted[d] <= Cardinality(Served)
    BY DEF Life, Control, Types, Queues
  <2>3. \A d \in Daemon : counted[d] \in 0..Cardinality(Hook)
    BY <2>1, <2>2
  <2>4. counted \in [Daemon -> 0..Cardinality(Hook)]
    BY <2>3 DEF Life, Control, Types
  <2> QED
    BY <2>4 DEF Life, Control, Types, Owners, HTypeOK
<1> QED
  BY <1>1, <1>2, <1>3

-----------------------------------------------------------------------------
(* With any number of hooks and daemons, and with crashes at any step: files
   and processes keep their types, one daemon listens, the socket and the pid
   file lead to it (spawn_daemon, main's cleanup and bind), and as long as
   none has left no hook fails open and no action is answered past the
   engine of a daemon that has one (a daemon whose initialize() raised
   answers allow and counts nothing).                                      *)
THEOREM LifecycleHolds ==
  ASSUME Sequential
  PROVE  Spec => [](HTypeOK /\ OneServer /\ ServerIsReachable /\ GovernedWhileUp)
<1>1. Init => Life
  BY InitLife
<1>2. Life /\ [Next]_vars => Life'
  BY LifeStep DEF Step
<1>3. Life => HTypeOK /\ OneServer /\ ServerIsReachable /\ GovernedWhileUp
  BY LifeShows
<1> QED
  BY <1>1, <1>2, <1>3, PTL DEF Spec

=============================================================================
