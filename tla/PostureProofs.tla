----------------------------- MODULE PostureProofs -----------------------------
(***************************************************************************)
(* Proofs about a posture that is changed while the session goes on        *)
(* (PostureSync): to the hooks and the daemons the MCP server is somebody  *)
(* who takes steps beside them, so what LifecycleProofs proves holds of    *)
(* them still; and the posture asked for is followed from the tool call to *)
(* the state file, through the payload of a respawn, to the daemon.        *)
(***************************************************************************)
EXTENDS PostureSync, LifecycleProofs

(* A daemon that has, or is about to have, requests to serve: it will serve
   with what it has now.                                                   *)
Up(d) == Starting(d) \/ dpc[d] = "serve"

(* It could parse its payload, and when it has an engine that is governed by
   the posture that is wanted.                                             *)
Follows(d) == held[d] # NoPosture /\ (booted[d] => held[d] = wanted)

(* The inductive invariant, in parts: types; *)
SyncTypes ==
  /\ content \in Posture \union {Torn}
  /\ writing \subseteq Hook \union {Mcp}
  /\ payload \in Posture \union {Torn}
  /\ held \in [Daemon -> Posture \union {NoPosture}]
  /\ mpc \in McpPc
  /\ asked \in Posture /\ wanted \in Posture
  /\ overlap \in BOOLEAN

(* who may hold the state file open and who may be queued, and that a tool call
   that overlaps a hook is known to;                                       *)
Turns ==
  /\ \A h \in Hook : h \in writing => hpc[h] = "save"
  /\ Mcp \in writing => mpc = "write"
  /\ \A d \in Daemon : InQueue(Mcp, d) => mpc = "reply"
  /\ \A d \in Daemon : Once(Mcp, queue[d])
  /\ ~overlap => mpc = "idle" \/ ~HooksBusy

(* where the posture is: when nobody is at work, *)
Settled == saved /\ content = wanted /\ \A d \in Daemon : Up(d) => Follows(d)

(* while a hook is, *)
InHand(h) ==
  /\ event[h] = "sessionStart" => wanted = Standard
  /\ hpc[h] = "save" => /\ event[h] = "sessionStart" /\ payload = wanted
                        /\ h \in writing => saved /\ content = Torn
  /\ hpc[h] # "save" => saved /\ content = wanted
  /\ hpc[h] = "probe" /\ event[h] = "sessionStart" => payload = wanted
  /\ Replacing(h) => payload = wanted
  /\ hpc[h] = "wait" \/ event[h] \in {"act", "note"} => \A d \in Daemon : Up(d) => Follows(d)
  /\ hpc[h] = "reply" => \A d \in Daemon : Serving(d) => Follows(d) \/ InQueue(h, d)

(* while a tool call is, *)
Told ==
  /\ wanted = asked /\ saved
  /\ \A d \in Daemon : Up(d) => held[d] \in Posture
  /\ mpc \in {"read", "open"} => content \in Posture
  /\ mpc = "write" => content = Torn /\ Mcp \in writing
  /\ mpc \in {"send", "reply"} => content = asked
  /\ mpc = "reply" => \A d \in Daemon : Serving(d) => Follows(d) \/ InQueue(Mcp, d)

(* and in each of the three. *)
Followed ==
  open /\ ~overlap =>
    IF mpc # "idle" THEN Told
    ELSE IF HooksBusy THEN \A h \in Hook : Busy(h) => InHand(h)
    ELSE Settled

PostureInv == SyncTypes /\ Turns /\ Followed

-----------------------------------------------------------------------------
(* Hooks are fired one at a time here and daemons answer in time. *)
LEMMA SyncIsSequential == Sequential
BY SyncAssumption DEF Sequential

(* Whatever the tool calls do, to hooks and daemons it is a step of theirs, a
   write of the state file, or a request queued or taken.                  *)
LEMMA SyncIsStep == [SyncNext]_allVars => [Step]_vars
<1> SUFFICES ASSUME [SyncNext]_allVars PROVE [Step]_vars
  OBVIOUS
<1>1. ASSUME NEW h \in Hook,
             \/ \E e \in Fired : FireEvent(h, e)
             \/ SaveState(h) \/ ProbeState(h) \/ SpawnWith(h) \/ ForgetState(h)
      PROVE  Next
  BY <1>1 DEF FireEvent, SaveState, ProbeState, SpawnWith, ForgetState, Next, HookStep
<1>2. ASSUME NEW h \in Hook, OpenState(h) PROVE Outside
  BY <1>2 DEF OpenState, Outside
<1>3. ASSUME NEW d \in Daemon, ServeHook(d) PROVE Next
  BY <1>3 DEF ServeHook, Next, DaemonStep
<1>4. ASSUME NEW d \in Daemon, ServeUpdate(d) PROVE Outside
  BY <1>4 DEF ServeUpdate, Outside
<1>5. CASE OtherSteps \/ \E d \in Daemon : Leave(d)
  BY <1>5 DEF OtherSteps, Leave, Next, HookStep, DaemonStep, Step
<1>6. CASE (\E q \in Posture : UpdatePosture(q)) \/ ReadState \/ WriteState \/ Unreachable
  <2>1. vars' = vars
    BY <1>6 DEF UpdatePosture, ReadState, WriteState, Unreachable
  <2> QED
    BY <2>1
<1>7. CASE OpenForUpdate
  BY <1>7 DEF OpenForUpdate, Outside, Step
<1>8. CASE SendUpdate
  <2>1. CASE Reachable
    BY <1>8, <2>1 DEF SendUpdate, Outside, Step
  <2>2. CASE ~Reachable
    <3>1. vars' = vars
      BY <1>8, <2>2 DEF SendUpdate, vars, daemonVars
    <3> QED
      BY <3>1
  <2> QED
    BY <2>1, <2>2
<1>9. CASE UNCHANGED allVars
  <2>1. vars' = vars
    BY <1>9 DEF allVars
  <2> QED
    BY <2>1
<1> QED
  BY <1>1, <1>2, <1>3, <1>4, <1>5, <1>6, <1>7, <1>8, <1>9 DEF SyncNext, Step

(* Postures stay postures. *)
LEMMA SyncTypesStep == SyncTypes /\ [SyncNext]_allVars => SyncTypes'
<1> SUFFICES ASSUME SyncTypes, [SyncNext]_allVars PROVE SyncTypes'
  OBVIOUS
<1> USE DEF SyncTypes
<1>0. \A p \in Posture \union {Torn} : Written(p) \subseteq Posture \union {Torn}
  BY DEF Written
<1>1. ASSUME NEW h \in Hook, NEW e \in Event, FireEvent(h, e) PROVE SyncTypes'
  BY <1>1, SyncAssumption DEF FireEvent, mcpVars
<1>2. ASSUME NEW h \in Hook, OpenState(h) \/ ForgetState(h) PROVE SyncTypes'
  BY <1>2 DEF OpenState, ForgetState, mcpVars, history
<1>3. ASSUME NEW h \in Hook, SaveState(h) PROVE SyncTypes'
  BY <1>0, <1>3 DEF SaveState, mcpVars, history
<1>4. ASSUME NEW h \in Hook, ProbeState(h) PROVE SyncTypes'
  BY <1>4 DEF ProbeState, mcpVars, history
<1>5. ASSUME NEW h \in Hook, SpawnWith(h) PROVE SyncTypes'
  BY <1>5 DEF SpawnWith, mcpVars, history
<1>6. ASSUME NEW d \in Daemon, ServeHook(d) PROVE SyncTypes'
  BY <1>6, SyncAssumption DEF ServeHook, mcpVars, history
<1>7. ASSUME NEW d \in Daemon, ServeUpdate(d) PROVE SyncTypes'
  BY <1>7 DEF ServeUpdate, history, MGoto, McpPc
<1>8. CASE OtherSteps \/ UNCHANGED allVars
  BY <1>8 DEF OtherSteps, allVars, syncVars, mcpVars, history
<1>13. ASSUME NEW d \in Daemon, Leave(d) PROVE SyncTypes'
  BY <1>13 DEF Leave, mcpVars, history
<1>9. ASSUME NEW q \in Posture, UpdatePosture(q) PROVE SyncTypes'
  <2>1. overlap' \in BOOLEAN
    BY <1>9 DEF UpdatePosture
  <2> QED
    BY <1>9, <2>1 DEF UpdatePosture, MGoto, McpPc
<1>10. CASE ReadState \/ Unreachable
  BY <1>10 DEF ReadState, Unreachable, MGoto, McpPc, history
<1>11. CASE OpenForUpdate \/ SendUpdate
  BY <1>11 DEF OpenForUpdate, SendUpdate, MGoto, McpPc, history
<1>12. CASE WriteState
  BY <1>0, <1>12 DEF WriteState, MGoto, McpPc, history
<1> QED
  BY <1>1, <1>2, <1>3, <1>4, <1>5, <1>6, <1>7, <1>8, <1>9, <1>10, <1>11, <1>12, <1>13,
     FiredIsEvent
  DEF SyncNext

(* The lifecycle invariant holds beside the tool calls. *)
LEMMA LifeBeside == SyncSpec => []Life
<1>1. SyncInit => Life
  BY InitLife DEF SyncInit
<1>2. Life /\ [SyncNext]_allVars => Life'
  BY SyncIsSequential, SyncIsStep, LifeStep
<1> QED
  BY <1>1, <1>2, PTL DEF SyncSpec

(* So do the types of what the tool calls read and write. *)
LEMMA SyncTypesHold == SyncSpec => []SyncTypes
<1>1. SyncInit => SyncTypes
  BY SyncAssumption DEF SyncInit, SyncTypes, McpPc
<1> QED
  BY <1>1, SyncTypesStep, PTL DEF SyncSpec

-----------------------------------------------------------------------------
(* The steps of the daemons that serve nothing, and what they do to postures. *)
Quiet(d) ==
  \/ (Cleanup(d) \/ Bind(d) \/ Announce(d) \/ Idle(d)) /\ UNCHANGED syncVars
  \/ Leave(d)

(* A daemon that is up after them was up before, with what it has now; one that
   serves and did not start in this step has the queue it had.             *)
LEMMA UpOnlyLeaves ==
  ASSUME Control, SyncTypes, NEW d \in Daemon, Quiet(d), NEW c \in Daemon
  PROVE  /\ Up(c)' => Up(c) /\ held'[c] = held[c] /\ booted'[c] = booted[c]
         /\ Serving(c)' => Starting(c) \/ (Serving(c) /\ queue'[c] = queue[c])
<1>0. Types
  BY DEF Control
<1>1. CASE (Cleanup(d) \/ Bind(d) \/ Announce(d) \/ Idle(d)) /\ UNCHANGED syncVars
  <2>1. UNCHANGED <<queue, booted, held>> /\ (c # d => dpc'[c] = dpc[c])
    BY <1>0, <1>1, DaemonMoves DEF Cleanup, Bind, Announce, Idle, syncVars
  <2>2. CASE c # d
    BY <2>1, <2>2 DEF Up, Starting, Serving
  <2>3. CASE c = d /\ Cleanup(d)
    BY <1>0, <2>1, <2>3 DEF Cleanup, DGoto, Up, Starting, Serving, Types
  <2>4. CASE c = d /\ (Bind(d) \/ Announce(d))
    BY <1>0, <2>1, <2>4 DEF Bind, Announce, DGoto, Up, Starting, Serving, Types
  <2>5. CASE c = d /\ Idle(d)
    BY <1>0, <2>1, <2>5 DEF Idle, DGoto, Up, Starting, Serving, Types
  <2>6. /\ Up(c)' => Up(c)
        /\ Serving(c)' => Starting(c) \/ (Serving(c) /\ queue'[c] = queue[c])
    BY <1>1, <2>2, <2>3, <2>4, <2>5
  <2> QED
    BY <2>1, <2>6
<1>2. CASE Leave(d)
  <2>1. dpc'[d] \in {"rm sock!", "dead"}
    BY <1>0, <1>2 DEF Leave, Close, Crash, DGoto, Types
  <2>2. CASE c = d
    BY <2>1, <2>2 DEF Up, Starting, Serving
  <2>3. CASE c # d
    <3>1. dpc'[c] = dpc[c] /\ queue'[c] = queue[c]
      BY <1>0, <1>2, <2>3, DaemonMoves DEF Leave
    <3>2. booted'[c] = booted[c]
      BY <1>0, <1>2, <2>3 DEF Leave, Close, Crash, Blank, Types
    <3>3. held'[c] = held[c]
      BY <1>2, <2>3 DEF Leave, SyncTypes
    <3> QED
      BY <3>1, <3>2, <3>3 DEF Up, Starting, Serving
  <2> QED
    BY <2>2, <2>3
<1> QED
  BY <1>1, <1>2 DEF Quiet

(* Whose turn it is: who may hold the state file, who may be queued, and that
   without an overlap either no hook or no tool call is at work.           *)
LEMMA TurnsStep ==
  ASSUME Life, Life', Turns, SyncTypes, [SyncNext]_allVars
  PROVE  Turns'
<1>0. Types /\ Types' /\ OneHook /\ OneDaemon /\ OneServer /\ Queues /\ Sequential
  BY ControlServes, SyncIsSequential DEF Life, Control
<1>a. \A h \in Hook : h # Mcp
  BY LifecycleAssumption
<1>b. \A d \in Daemon : queue[d] \in Seq(Hook \cup {Mcp})
  BY <1>0 DEF Types
<1>1. ASSUME \A h \in Hook : h \in writing' => hpc'[h] = "save",
             Mcp \in writing' => Mcp \in writing,
             UNCHANGED <<mpc, overlap>>,
             \A d \in Daemon : /\ Among(Mcp, queue'[d]) => Among(Mcp, queue[d])
                               /\ Once(Mcp, queue[d]) => Once(Mcp, queue'[d]),
             HooksBusy' => HooksBusy
      PROVE  Turns'
  BY <1>1 DEF Turns, InQueue
<1>2. ASSUME NEW h \in Hook, NEW e \in Event, FireEvent(h, e) PROVE Turns'
  <2>1. /\ UNCHANGED <<writing, queue, mpc>> /\ hpc[h] = "idle"
        /\ overlap' = (mpc # "idle" \/ (overlap /\ e # "sessionStart"))
    BY <1>2 DEF FireEvent, Fire, daemonVars, mcpVars
  <2>2. \A g \in Hook : g # h => hpc'[g] = hpc[g]
    BY <1>0, <1>2 DEF FireEvent, Fire, Goto, Types
  <2>3. \A g \in Hook : g \in writing' => hpc'[g] = "save"
    BY <2>1, <2>2 DEF Turns
  <2> QED
    BY <2>1, <2>3 DEF Turns, InQueue
<1>3. ASSUME NEW h \in Hook, HookStep(h), UNCHANGED <<mpc, overlap>>,
             writing' \subseteq writing, hpc[h] = "save" => h \notin writing'
      PROVE  Turns'
  <2>1. AtWork(h) /\ \A g \in Hook : g # h => hpc'[g] = hpc[g]
    BY <1>0, <1>3, HookMoves DEF Types
  <2>2. HooksBusy
    BY <2>1 DEF HooksBusy, Busy, AtWork
  <2>3. \A g \in Hook : g \in writing' => hpc'[g] = "save"
    BY <1>3, <2>1 DEF Turns
  <2>4. \A d \in Daemon : /\ Among(Mcp, queue'[d]) => Among(Mcp, queue[d])
                          /\ Once(Mcp, queue[d]) => Once(Mcp, queue'[d])
    <3>1. CASE queue' = queue
      BY <3>1
    <3>2. CASE Send(h) /\ Reachable
      <4> DEFINE s == files["sock"]
      <4>1. s \in Daemon /\ queue' = [queue EXCEPT ![s] = Append(@, h)]
        BY <3>2 DEF Send, Reachable, Listening
      <4> HIDE DEF s
      <4>2. queue'[s] = Append(queue[s], h) /\ \A d \in Daemon : d # s => queue'[d] = queue[d]
        BY <1>0, <4>1 DEF Types
      <4>3. /\ Among(Mcp, queue'[s]) => Among(Mcp, queue[s])
            /\ Once(Mcp, queue[s]) => Once(Mcp, queue'[s])
        BY <1>a, <1>b, <4>1, <4>2, QueueAppend
      <4> QED
        BY <4>2, <4>3
    <3> QED
      BY <1>3, <3>1, <3>2 DEF HookStep, Save, Probe, Remove, Spawn, Await, Send, GiveUp, Forget, daemonVars
  <2> QED
    BY <1>1, <1>3, <2>2, <2>3, <2>4
<1>4. ASSUME NEW h \in Hook, SaveState(h) \/ ProbeState(h) \/ SpawnWith(h) \/ ForgetState(h) PROVE Turns'
  <2>1. HookStep(h) /\ UNCHANGED <<mpc, overlap>>
    BY <1>4 DEF SaveState, ProbeState, SpawnWith, ForgetState, HookStep, mcpVars, history
  <2>2. writing' \subseteq writing /\ (hpc[h] = "save" => h \notin writing')
    BY <1>4 DEF SaveState, ProbeState, SpawnWith, ForgetState, Probe, Spawn, Forget
  <2> QED
    BY <1>3, <2>1, <2>2
<1>5. ASSUME NEW h \in Hook, Remove(h) \/ Await(h) \/ Send(h) \/ GiveUp(h), UNCHANGED syncVars PROVE Turns'
  <2>1. HookStep(h) /\ UNCHANGED <<mpc, overlap, writing>> /\ hpc[h] # "save"
    BY <1>5 DEF HookStep, Remove, Await, Send, GiveUp, syncVars, mcpVars, history
  <2> QED
    BY <1>3, <2>1
<1>6. ASSUME NEW h \in Hook, OpenState(h) PROVE Turns'
  <2>1. /\ UNCHANGED <<hpc, queue, mpc, overlap>> /\ hpc[h] = "save"
        /\ writing' = writing \union {h}
    BY <1>6 DEF OpenState, hookVars, daemonVars, mcpVars, history
  <2> QED
    BY <1>1, <1>a, <2>1 DEF Turns, HooksBusy, Busy
<1>7. ASSUME NEW d \in Daemon, ServeHook(d) PROVE Turns'
  <2> DEFINE h == Head(queue[d])
  <2>1. Serve(d) /\ UNCHANGED <<mpc, overlap, writing>>
    BY <1>7 DEF ServeHook, mcpVars, history
  <2>2. h \in Hook /\ queue[d] # <<>> /\ InQueue(h, d) /\ hpc' = [hpc EXCEPT ![h] = After(h)] /\ hpc[h] = "reply"
    BY <1>0, <2>1, HeadIsHook, ServeAnswers DEF Queues, Serve
  <2> HIDE DEF h
  <2>3. \A g \in Hook : g # h => hpc'[g] = hpc[g]
    BY <1>0, <2>2 DEF Types
  <2>4. HooksBusy
    BY <2>2 DEF HooksBusy, Busy
  <2>5. \A g \in Hook : g \in writing' => hpc'[g] = "save"
    BY <2>1, <2>2, <2>3 DEF Turns
  <2>6. queue'[d] = Tail(queue[d]) /\ \A c \in Daemon : c # d => queue'[c] = queue[c]
    BY <1>0, <2>1 DEF Serve, Types
  <2>7. \A c \in Daemon : /\ Among(Mcp, queue'[c]) => Among(Mcp, queue[c])
                          /\ Once(Mcp, queue[c]) => Once(Mcp, queue'[c])
    BY <1>b, <2>2, <2>6, QueueTail
  <2> QED
    BY <1>1, <2>1, <2>4, <2>5, <2>7
<1>8. ASSUME NEW d \in Daemon, Quiet(d) PROVE Turns'
  <2>1. hpc' = hpc /\ UNCHANGED <<mpc, overlap, writing>>
    BY <1>0, <1>8, DaemonMoves DEF Quiet, Leave, syncVars, mcpVars, history
  <2>2. \A c \in Daemon : queue'[c] = queue[c] \/ queue'[c] = <<>>
    BY <1>0, <1>8, DaemonMoves DEF Quiet, Leave
  <2>3. \A c \in Daemon : /\ Among(Mcp, queue'[c]) => Among(Mcp, queue[c])
                          /\ Once(Mcp, queue[c]) => Once(Mcp, queue'[c])
    BY <2>2, QueueEmpty
  <2> QED
    BY <1>1, <2>1, <2>3 DEF Turns, HooksBusy, Busy
<1>9. ASSUME NEW q \in Posture, UpdatePosture(q) PROVE Turns'
  <2>1. /\ UNCHANGED <<hpc, queue, writing>> /\ mpc = "idle"
        /\ overlap' = (overlap \/ HooksBusy)
    BY <1>9 DEF UpdatePosture, vars, hookVars, daemonVars
  <2>2. HooksBusy' <=> HooksBusy
    BY <2>1 DEF HooksBusy, Busy
  <2> QED
    BY <2>1, <2>2 DEF Turns, InQueue
<1>10. ASSUME UNCHANGED <<hpc, overlap>>, mpc # "idle", writing' \subseteq writing \union {Mcp},
              Mcp \in writing' => mpc' = "write",
              \A d \in Daemon : /\ Among(Mcp, queue'[d]) => mpc' = "reply"
                                /\ Once(Mcp, queue'[d])
       PROVE  Turns'
  <2>1. HooksBusy' <=> HooksBusy
    BY <1>10 DEF HooksBusy, Busy
  <2>2. \A g \in Hook : g \in writing' => hpc'[g] = "save"
    BY <1>a, <1>10 DEF Turns
  <2> QED
    BY <1>10, <2>1, <2>2 DEF Turns, InQueue
<1>11. CASE ReadState \/ WriteState
  <2>1. UNCHANGED <<hpc, queue, overlap>> /\ mpc \in {"read", "write"} /\ writing' \subseteq writing
    BY <1>11 DEF ReadState, WriteState, vars, hookVars, daemonVars, history
  <2>2. Mcp \notin writing'
    BY <1>11 DEF ReadState, WriteState, Turns
  <2>3. \A d \in Daemon : ~Among(Mcp, queue'[d]) /\ Once(Mcp, queue'[d])
    BY <2>1 DEF Turns, InQueue
  <2> QED
    BY <1>10, <2>1, <2>2, <2>3
<1>12. CASE OpenForUpdate
  <2>1. UNCHANGED <<hpc, queue, overlap>> /\ mpc = "open" /\ mpc' = "write" /\ writing' = writing \union {Mcp}
    BY <1>12 DEF OpenForUpdate, hookVars, daemonVars, history, MGoto
  <2>2. \A d \in Daemon : ~Among(Mcp, queue'[d]) /\ Once(Mcp, queue'[d])
    BY <2>1 DEF Turns, InQueue
  <2> QED
    BY <1>10, <2>1, <2>2
<1>13. CASE SendUpdate
  <2>1. UNCHANGED <<hpc, writing, overlap>> /\ mpc = "send" /\ Mcp \notin writing
    BY <1>13 DEF SendUpdate, hookVars, history, Turns
  <2>2. \A d \in Daemon : ~Among(Mcp, queue[d]) /\ Once(Mcp, queue[d])
    BY <2>1 DEF Turns, InQueue
  <2>3. CASE ~Reachable
    BY <1>10, <1>13, <2>1, <2>2, <2>3 DEF SendUpdate
  <2>4. CASE Reachable
    <3> DEFINE s == files["sock"]
    <3>1. s \in Daemon /\ queue' = [queue EXCEPT ![s] = Append(@, Mcp)] /\ mpc' = "reply"
      BY <1>13, <2>4 DEF SendUpdate, Reachable, Listening, MGoto
    <3> HIDE DEF s
    <3>2. queue'[s] = Append(queue[s], Mcp) /\ \A d \in Daemon : d # s => queue'[d] = queue[d]
      BY <1>0, <3>1 DEF Types
    <3>3. Once(Mcp, queue'[s])
      BY <1>b, <2>2, <3>1, <3>2, QueueAppend
    <3>4. \A d \in Daemon : Once(Mcp, queue'[d])
      BY <2>2, <3>2, <3>3
    <3> QED
      BY <1>10, <2>1, <3>1, <3>4
  <2> QED
    BY <2>3, <2>4
<1>14. ASSUME NEW d \in Daemon, ServeUpdate(d) PROVE Turns'
  <2>1. /\ UNCHANGED <<hpc, writing, overlap>> /\ dpc[d] = "serve" /\ queue[d] # <<>> /\ Head(queue[d]) = Mcp
        /\ queue' = [queue EXCEPT ![d] = Tail(@)] /\ mpc' = "idle"
    BY <1>14 DEF ServeUpdate, hookVars, history, MGoto
  <2>2. queue'[d] = Tail(queue[d]) /\ \A c \in Daemon : c # d => queue'[c] = queue[c]
    BY <1>0, <2>1 DEF Types
  <2>3. mpc = "reply" /\ Mcp \notin writing /\ \A c \in Daemon : Once(Mcp, queue[c])
    BY <1>b, <2>1, QueueTail DEF Turns, InQueue
  <2>4. ~Among(Mcp, queue'[d]) /\ Once(Mcp, queue'[d])
    BY <1>b, <2>1, <2>2, <2>3, QueueTail
  <2>5. \A c \in Daemon : c # d => queue[c] = <<>>
    BY <1>0, <2>1 DEF Queues, OneServer, Listening
  <2>6. \A c \in Daemon : ~Among(Mcp, queue'[c]) /\ Once(Mcp, queue'[c])
    BY <2>2, <2>4, <2>5, QueueEmpty
  <2> QED
    BY <1>10, <2>1, <2>3, <2>6
<1>15. CASE Unreachable
  <2>1. UNCHANGED <<hpc, queue, writing, overlap>> /\ mpc = "reply" /\ ~Pending(Mcp)
    BY <1>15 DEF Unreachable, vars, hookVars, daemonVars, history
  <2>2. ASSUME NEW d \in Daemon PROVE ~Among(Mcp, queue[d])
    <3>1. queue[d] # <<>> => Listening(d)
      BY <1>0 DEF Queues
    <3> QED
      BY <2>1, <3>1, QueueEmpty DEF Pending, Among
  <2>3. Mcp \notin writing /\ \A d \in Daemon : Once(Mcp, queue[d])
    BY <2>1 DEF Turns
  <2> QED
    BY <1>10, <2>1, <2>2, <2>3
<1>16. CASE UNCHANGED allVars
  <2>1. UNCHANGED <<hpc, queue, writing, mpc, overlap>>
    BY <1>16 DEF allVars, vars, hookVars, daemonVars, syncVars, mcpVars, history
  <2> QED
    BY <1>1, <2>1 DEF Turns, HooksBusy, Busy
<1> QED
  BY <1>2, <1>4, <1>5, <1>6, <1>7, <1>8, <1>9, <1>11, <1>12, <1>13, <1>14, <1>15, <1>16, FiredIsEvent
  DEF SyncNext, OtherSteps, Quiet

-----------------------------------------------------------------------------
(* The hook at work hands the posture on: to the state file, to the payload of
   the daemon it spawns, or to the daemon that serves it.                  *)
LEMMA FollowedByHooks ==
  ASSUME Life, Life', Turns, Turns', SyncTypes, SyncTypes', Followed, open', ~overlap',
         NEW h \in Hook,
         \/ \E e \in Event : FireEvent(h, e)
         \/ OpenState(h) \/ SaveState(h) \/ ProbeState(h) \/ SpawnWith(h) \/ ForgetState(h)
         \/ (Remove(h) \/ Await(h) \/ Send(h) \/ GiveUp(h)) /\ UNCHANGED syncVars
  PROVE  Followed'
<1>0. /\ Types /\ Types' /\ OneHook /\ OneDaemon /\ OneServer /\ ServerIsReachable /\ Queues /\ Sequential
      /\ Control
  BY ControlServes, SyncIsSequential DEF Life, Control
<1>1. ASSUME mpc' = "idle", InHand(h)', \A g \in Hook : g # h => ~Busy(g)', Busy(h)' PROVE Followed'
  <2>1. HooksBusy' /\ \A g \in Hook : Busy(g)' => InHand(g)'
    BY <1>1 DEF HooksBusy
  <2> QED
    BY <1>1, <2>1 DEF Followed
<1>2. ASSUME NEW e \in Event, FireEvent(h, e) PROVE Followed'
  <2>1. /\ \A g \in Hook : ~Busy(g)
        /\ hpc[h] = "idle" /\ open = (e # "sessionStart") /\ open' = (e # "stop")
        /\ UNCHANGED <<files, saved, dpc, queue, booted, content, writing, held, mpc>>
        /\ overlap' = (mpc # "idle" \/ (overlap /\ e # "sessionStart"))
        /\ IF e = "sessionStart" THEN wanted' = Standard /\ payload' = Standard
           ELSE UNCHANGED <<wanted, payload>>
    BY <1>0, <1>2 DEF FireEvent, Fire, Sequential, Busy, daemonVars, mcpVars
  <2>2. /\ event'[h] = e /\ \A g \in Hook : g # h => hpc'[g] = hpc[g]
        /\ e = "sessionStart" => hpc'[h] = "save"
        /\ e \in {"act", "note"} => hpc'[h] = "probe"
    BY <1>0, <1>2 DEF FireEvent, Fire, Goto, Event, Types
  <2>3. mpc' = "idle" /\ mpc = "idle" /\ e \in {"sessionStart", "act", "note"}
    BY <2>1 DEF Event
  <2>4. Busy(h)' /\ \A g \in Hook : g # h => ~Busy(g)'
    BY <2>1, <2>2, <2>3 DEF Busy
  <2>5. CASE e = "sessionStart"
    <3>1. h \notin writing'
      BY <2>1 DEF Turns
    <3>2. InHand(h)'
      BY <2>1, <2>2, <2>5, <3>1 DEF InHand, Replacing
    <3> QED
      BY <1>1, <2>3, <2>4, <3>2
  <2>6. CASE e \in {"act", "note"}
    <3>1. Settled
      BY <2>1, <2>3, <2>6 DEF Followed, HooksBusy
    <3>2. InHand(h)'
      BY <2>1, <2>2, <2>6, <3>1 DEF InHand, Replacing, Settled, Up, Starting, Follows
    <3> QED
      BY <1>1, <2>3, <2>4, <3>2
  <2> QED
    BY <2>3, <2>5, <2>6
<1>3. ASSUME HookStep(h) \/ OpenState(h), UNCHANGED <<mpc, overlap, wanted>>,
             \/ OpenState(h) \/ SaveState(h) \/ ProbeState(h) \/ SpawnWith(h) \/ ForgetState(h)
             \/ (Remove(h) \/ Await(h) \/ Send(h) \/ GiveUp(h)) /\ UNCHANGED syncVars
      PROVE  Followed'
  <2>1. AtWork(h) /\ UNCHANGED <<open, event>>
        /\ \A g \in Hook : g # h => hpc'[g] = hpc[g] /\ ~Busy(g) /\ ~Busy(g)'
    <3>1. AtWork(h) /\ UNCHANGED <<open, event>> /\ \A g \in Hook : g # h => hpc'[g] = hpc[g]
      <4>1. CASE HookStep(h)
        BY <1>0, <4>1, HookMoves DEF Types
      <4>2. CASE OpenState(h)
        BY <4>2 DEF OpenState, AtWork, editorVars, hookVars
      <4> QED
        BY <1>3, <4>1, <4>2
    <3> QED
      BY <1>0, <3>1 DEF OneHook, AtWork, Busy
  <2>2. HooksBusy /\ mpc = "idle" /\ mpc' = "idle" /\ InHand(h)
    BY <1>3, <2>1 DEF HooksBusy, Busy, AtWork, Turns, Followed
  <2>3. event[h] \in {"sessionStart", "act", "note"}
    BY <1>0, <2>1 DEF OneHook, Types, Event
  <2>4. HookStep(h) => \A d \in Daemon : ~Starting(d)
    BY <1>0, HooksAwaitStart
  <2>5. ASSUME Settled', ~Busy(h)' PROVE Followed'
    BY <2>1, <2>2, <2>5 DEF Followed, HooksBusy
  <2>6. ASSUME InHand(h)', Busy(h)' PROVE Followed'
    BY <1>1, <2>1, <2>2, <2>6
  <2>7. CASE OpenState(h)
    <3>1. /\ hpc'[h] = hpc[h] /\ hpc[h] = "save" /\ saved' = TRUE /\ content' = Torn
          /\ UNCHANGED <<dpc, booted, payload, held>>
      BY <2>7 DEF OpenState, hookVars, daemonVars
    <3>2. InHand(h)' /\ Busy(h)'
      BY <1>3, <2>1, <2>2, <2>3, <3>1 DEF InHand, Replacing, Busy, Follows
    <3> QED
      BY <2>6, <3>2
  <2>8. CASE SaveState(h)
    <3>1. /\ hpc[h] = "save" /\ hpc'[h] = "probe" /\ saved' = TRUE /\ h \in writing
          /\ content' \in Written(payload) /\ UNCHANGED <<dpc, booted, payload, held>>
      BY <1>0, <2>8 DEF SaveState, Save, Goto, daemonVars, Types
    <3>2. event[h] = "sessionStart" /\ payload = wanted /\ content = Torn
      BY <2>2, <3>1 DEF InHand
    <3>3. content' = wanted
      BY <3>1, <3>2 DEF Written
    <3>4. wanted = Standard
      BY <2>2, <3>2 DEF InHand
    <3>5. InHand(h)' /\ Busy(h)'
      BY <1>3, <2>1, <3>1, <3>2, <3>3, <3>4 DEF InHand, Replacing, Busy, Follows
    <3> QED
      BY <2>6, <3>5
  <2>9. CASE ProbeState(h)
    <3>1. /\ hpc[h] = "probe" /\ UNCHANGED <<saved, content, dpc, booted, held>>
          /\ payload' = IF hpc'[h] = "rm sock" /\ event[h] # "sessionStart" THEN content ELSE payload
          /\ hpc'[h] \in {"send", "rm sock"} \/ (~saved /\ event[h] # "sessionStart")
      BY <1>0, <2>9 DEF ProbeState, Probe, Goto, Answer, daemonVars, Types
    <3>2. saved /\ content = wanted
      BY <2>2, <3>1 DEF InHand
    <3>3. hpc'[h] \in {"send", "rm sock"}
      BY <3>1, <3>2
    <3>4. hpc'[h] = "rm sock" => payload' = wanted
      BY <2>2, <3>1, <3>2 DEF InHand
    <3>5. event[h] \in {"act", "note"} => \A d \in Daemon : Up(d)' => Follows(d)'
      BY <1>3, <2>2, <3>1 DEF InHand, Up, Starting, Follows
    <3>6. event[h] = "sessionStart" => wanted' = Standard
      BY <1>3, <2>2 DEF InHand
    <3>7. InHand(h)' /\ Busy(h)'
      BY <1>3, <2>1, <3>1, <3>2, <3>3, <3>4, <3>5, <3>6 DEF InHand, Replacing, Busy, Follows
    <3> QED
      BY <2>6, <3>7
  <2>10. CASE Remove(h) /\ UNCHANGED syncVars
    <3>1. /\ Replacing(h) /\ Replacing(h)' /\ UNCHANGED <<saved, content, payload, dpc, booted, held>>
      BY <1>0, <2>10 DEF Remove, Replacing, Goto, daemonVars, syncVars, Types
    <3>2. hpc[h] # "save" /\ hpc'[h] \notin {"save", "probe", "wait", "reply", "idle", "done"}
      BY <3>1 DEF Replacing
    <3>3. InHand(h)' /\ Busy(h)'
      BY <1>3, <2>1, <2>2, <3>1, <3>2 DEF InHand, Busy, Up, Starting, Follows
    <3> QED
      BY <2>6, <3>3
  <2>11. CASE SpawnWith(h)
    <3>1. /\ hpc[h] = "spawn" /\ hpc'[h] = "wait" /\ UNCHANGED <<saved, content, payload>>
      BY <1>0, <2>11 DEF SpawnWith, Spawn, Goto, Types
    <3>2. PICK d \in Daemon : child' = [child EXCEPT ![h] = d] /\ dpc' = [dpc EXCEPT ![d] = "rm sock"]
      BY <2>11 DEF SpawnWith, Spawn, DGoto
    <3>3. child'[h] = d
      BY <1>0, <3>2 DEF Types
    <3>4. payload = wanted /\ payload # Torn /\ saved /\ content = wanted
      BY <2>2, <3>1, SyncAssumption DEF InHand, Replacing, SyncTypes
    <3>5. held' = [held EXCEPT ![d] = wanted]
      BY <2>11, <3>3, <3>4 DEF SpawnWith
    <3>6. \A c \in Daemon : ~Up(c)
      BY <1>0, <3>1 DEF OneDaemon, Replacing, Present, Up
    <3>7. \A c \in Daemon : c # d => ~Up(c)'
      BY <1>0, <3>2, <3>6 DEF Types, Up, Starting
    <3>8. held'[d] = wanted
      BY <3>5 DEF SyncTypes
    <3>9. \A c \in Daemon : Up(c)' => Follows(c)'
      <4>1. wanted \in Posture /\ wanted # NoPosture
        BY SyncAssumption DEF SyncTypes
      <4>2. Follows(d)'
        BY <1>3, <3>8, <4>1 DEF Follows
      <4> QED
        BY <3>7, <4>2
    <3>10. InHand(h)' /\ Busy(h)'
      BY <1>3, <2>1, <2>2, <3>1, <3>4, <3>9 DEF InHand, Replacing, Busy, Follows
    <3> QED
      BY <2>6, <3>10
  <2>12. CASE Await(h) /\ UNCHANGED syncVars
    <3>1. /\ hpc[h] = "wait" /\ hpc'[h] \in {"send", "done"}
          /\ UNCHANGED <<saved, content, payload, dpc, booted, held>>
      BY <1>0, <2>12 DEF Await, Goto, Answer, daemonVars, syncVars, Types
    <3>2. saved /\ content = wanted /\ \A d \in Daemon : Up(d)' => Follows(d)
      BY <2>2, <3>1 DEF InHand, Up, Starting, Follows
    <3>3. CASE hpc'[h] = "send"
      <4>1. InHand(h)' /\ Busy(h)'
        BY <1>3, <2>1, <2>2, <3>1, <3>2, <3>3 DEF InHand, Replacing, Busy, Follows
      <4> QED
        BY <2>6, <4>1
    <3>4. CASE hpc'[h] = "done"
      BY <1>3, <2>5, <3>1, <3>2, <3>4 DEF Settled, Busy, Follows
    <3> QED
      BY <3>1, <3>3, <3>4
  <2>13. CASE Send(h) /\ UNCHANGED syncVars
    <3>1. hpc[h] = "send" /\ UNCHANGED <<saved, content, payload, dpc, booted, held>>
      BY <2>13 DEF Send, syncVars
    <3>2. saved /\ content = wanted
      BY <2>2, <3>1 DEF InHand
    <3>3. \A d \in Daemon : Serving(d) => files["sock"] = d /\ Reachable
      BY <1>0, DaemonIsSome DEF ServerIsReachable, Reachable, Listening, Serving
    <3>4. CASE Reachable
      <4> DEFINE s == files["sock"]
      <4>1. hpc'[h] = "reply" /\ queue' = [queue EXCEPT ![s] = Append(@, h)] /\ s \in Daemon
        BY <1>0, <2>13, <3>4 DEF Send, Goto, Types, Reachable, Listening
      <4>2. queue'[s] = Append(queue[s], h) /\ queue[s] \in Seq(Hook \cup {Mcp})
        BY <1>0, <4>1 DEF Types
      <4>3. Among(h, queue'[s])
        BY <4>1, <4>2, QueueAppend
      <4>4. \A d \in Daemon : Serving(d)' => InQueue(h, d)'
        BY <3>1, <3>3, <4>3 DEF Serving, InQueue
      <4>5. event[h] \in {"act", "note"} => \A d \in Daemon : Up(d)' => Follows(d)'
        BY <1>3, <2>2, <3>1 DEF InHand, Up, Starting, Follows
      <4>6. event[h] = "sessionStart" => wanted' = Standard
        BY <1>3, <2>2 DEF InHand
      <4> HIDE DEF s
      <4>7. InHand(h)' /\ Busy(h)'
        BY <1>3, <2>1, <3>1, <3>2, <4>1, <4>4, <4>5, <4>6 DEF InHand, Replacing, Busy, Follows
      <4> QED
        BY <2>6, <4>7
    <3>5. CASE ~Reachable
      <4>1. hpc'[h] = "done"
        BY <1>0, <2>3, <2>13, <3>5 DEF Send, Answer, Goto, After, Types
      <4>2. \A d \in Daemon : ~Up(d)'
        BY <2>4, <2>13, <3>1, <3>3, <3>5 DEF HookStep, Up, Serving, Starting
      <4>3. Settled' /\ ~Busy(h)'
        BY <1>3, <3>1, <3>2, <4>1, <4>2 DEF Settled, Busy, Follows
      <4> QED
        BY <2>5, <4>3
    <3> QED
      BY <3>4, <3>5
  <2>14. CASE GiveUp(h) /\ UNCHANGED syncVars
    <3>1. /\ hpc[h] = "reply" /\ hpc'[h] = "done" /\ ~Pending(h)
          /\ UNCHANGED <<saved, content, payload, dpc, booted, held>>
      BY <1>0, <2>3, <2>14 DEF GiveUp, Answer, Goto, After, Types, Sequential, daemonVars, syncVars
    <3>2. \A d \in Daemon : Serving(d) => ~InQueue(h, d)
      BY <3>1 DEF Pending, Serving, Listening, InQueue, Among
    <3>3. saved /\ content = wanted /\ \A d \in Daemon : Serving(d) => Follows(d)
      BY <2>2, <3>1, <3>2 DEF InHand
    <3>4. \A d \in Daemon : Up(d)' => Serving(d)
      BY <2>4, <2>14, <3>1 DEF HookStep, Up, Starting, Serving
    <3>5. Settled' /\ ~Busy(h)'
      BY <1>3, <3>1, <3>3, <3>4 DEF Settled, Busy, Follows
    <3> QED
      BY <2>5, <3>5
  <2>15. ~ForgetState(h)
    BY <1>0, <2>3 DEF ForgetState, Forget, OneHook
  <2> QED
    BY <1>3, <2>7, <2>8, <2>9, <2>10, <2>11, <2>12, <2>13, <2>14, <2>15
<1>4. ASSUME OpenState(h) \/ SaveState(h) \/ ProbeState(h) \/ SpawnWith(h) \/ ForgetState(h)
      PROVE  (HookStep(h) \/ OpenState(h)) /\ UNCHANGED <<mpc, overlap, wanted>>
  BY <1>4 DEF OpenState, SaveState, ProbeState, SpawnWith, ForgetState, HookStep, mcpVars, history
<1>5. ASSUME Remove(h) \/ Await(h) \/ Send(h) \/ GiveUp(h), UNCHANGED syncVars
      PROVE  HookStep(h) /\ UNCHANGED <<mpc, overlap, wanted>>
  BY <1>5 DEF HookStep, syncVars, mcpVars, history
<1> QED
  BY <1>2, <1>3, <1>4, <1>5

(* A daemon keeps the posture it has, or takes the one it is told; a hook that is
   answered leaves what it handed on.                                      *)
LEMMA FollowedByDaemons ==
  ASSUME Life, Life', Turns, Turns', SyncTypes, SyncTypes', Followed, open', ~overlap',
         NEW d \in Daemon,
         ServeHook(d) \/ Quiet(d)
  PROVE  Followed'
<1>0. /\ Types /\ Types' /\ OneHook /\ OneDaemon /\ OneServer /\ Queues /\ Control
  BY ControlServes DEF Life, Control
<1>1. CASE ServeHook(d)
  <2> DEFINE h == Head(queue[d])
  <2>1. /\ Serve(d) /\ UNCHANGED <<content, writing, payload, mpc, wanted, overlap>>
        /\ held' = IF event[h] = "sessionStart" THEN [held EXCEPT ![d] = Standard] ELSE held
    BY <1>1 DEF ServeHook, mcpVars, history
  <2>2. /\ h \in Hook /\ hpc[h] = "reply" /\ hpc' = [hpc EXCEPT ![h] = After(h)] /\ UNCHANGED <<open, event, saved>>
        /\ IF event[h] = "stop" THEN dpc' = [dpc EXCEPT ![d] = "close"] ELSE dpc' = dpc
        /\ Handle(d, event[h])
    BY <1>0, <2>1, HeadIsHook, ServeAnswers DEF Queues, Serve
  <2> HIDE DEF h
  <2>3. event[h] \in {"sessionStart", "act", "note"}
    BY <1>0, <2>2 DEF OneHook, AtWork, Types, Event
  <2>4. /\ dpc' = dpc /\ dpc[d] = "serve" /\ hpc'[h] = "done"
        /\ \A g \in Hook : g # h => hpc'[g] = hpc[g]
    BY <1>0, <2>1, <2>2, <2>3 DEF Serve, After, Types
  <2>5. \A g \in Hook : ~Busy(g)'
    BY <1>0, <2>2, <2>4 DEF OneHook, AtWork, Busy
  <2>6. HooksBusy /\ mpc = "idle" /\ InHand(h)
    BY <2>1, <2>2 DEF HooksBusy, Busy, Turns, Followed
  <2>7. saved /\ content = wanted
    BY <2>2, <2>6 DEF InHand
  <2>8. \A c \in Daemon : Up(c)' => c = d
    <3>1. \A c \in Daemon : Up(c)' => Up(c) /\ ~Starting(c)
      BY <1>0, <2>2, <2>4 DEF OneDaemon, OneHook, AtWork, Up, Starting
    <3> QED
      BY <1>0, <2>4, <3>1 DEF OneServer, Listening, Up
  <2>9. Follows(d)'
    <3>1. CASE event[h] = "sessionStart"
      <4>1. held'[d] = wanted /\ wanted # NoPosture
        BY <2>1, <2>6, <3>1, SyncAssumption DEF InHand, SyncTypes
      <4> QED
        BY <2>1, <4>1 DEF Follows
    <3>2. CASE event[h] \in {"act", "note"}
      <4>1. held' = held /\ booted' = booted
        BY <2>1, <2>2, <3>2 DEF Handle
      <4>2. Follows(d)
        BY <2>4, <2>6, <3>2 DEF InHand, Up
      <4> QED
        BY <2>1, <4>1, <4>2 DEF Follows
    <3> QED
      BY <2>3, <3>1, <3>2
  <2>10. Settled'
    BY <2>1, <2>2, <2>7, <2>8, <2>9 DEF Settled
  <2> QED
    BY <2>1, <2>5, <2>6, <2>10 DEF Followed, HooksBusy
<1>2. CASE Quiet(d)
  <2>1. UNCHANGED <<open, event, saved, hpc, content, writing, payload, mpc, asked, wanted, overlap>>
    BY <1>0, <1>2, DaemonMoves DEF Quiet, Leave, syncVars, mcpVars, history
  <2>a. \A c \in Daemon : /\ Up(c)' => Up(c) /\ held'[c] = held[c] /\ booted'[c] = booted[c]
                          /\ Serving(c)' => Starting(c) \/ (Serving(c) /\ queue'[c] = queue[c])
    BY <1>0, <1>2, UpOnlyLeaves
  <2>2. \A c \in Daemon : /\ Up(c)' => Up(c) /\ held'[c] = held[c] /\ (Follows(c)' <=> Follows(c))
                          /\ Serving(c)' => Starting(c) \/ (Serving(c) /\ queue'[c] = queue[c])
                          /\ Serving(c)' => Up(c)'
    BY <2>1, <2>a DEF Follows, Serving, Up
  <2>3. HooksBusy' <=> HooksBusy
    BY <2>1 DEF HooksBusy, Busy
  <2>4. \A c \in Daemon : Starting(c) => \E g \in Hook : hpc[g] = "wait"
    BY <1>0 DEF OneDaemon
  <2>5. CASE mpc # "idle"
    <3>1. Told
      BY <2>1, <2>5 DEF Followed
    <3>2. \A c \in Daemon : ~Starting(c)
      BY <2>1, <2>4, <2>5 DEF Turns, HooksBusy, Busy
    <3>3. mpc = "reply" => \A c \in Daemon : Serving(c)' => Follows(c)' \/ InQueue(Mcp, c)'
      BY <2>2, <3>1, <3>2 DEF Told, InQueue
    <3>4. Told'
      BY <2>1, <2>2, <3>1, <3>3 DEF Told, Follows
    <3> QED
      BY <2>1, <2>5, <3>4 DEF Followed
  <2>6. CASE mpc = "idle" /\ HooksBusy
    <3>1. ASSUME NEW g \in Hook, Busy(g)' PROVE InHand(g)'
      <4>1. InHand(g) /\ AtWork(g)
        BY <2>1, <2>6, <3>1 DEF Followed, Busy, AtWork
      <4>2. hpc[g] = "reply" => \A c \in Daemon : Serving(c)' => Follows(c)' \/ InQueue(g, c)'
        <5>1. hpc[g] = "reply" => \A c \in Daemon : ~Starting(c)
          BY <1>0, <2>4, <4>1 DEF OneHook, AtWork
        <5> QED
          BY <2>2, <4>1, <5>1 DEF InHand, InQueue
      <4>3. (hpc[g] = "wait" \/ event[g] \in {"act", "note"}) => \A c \in Daemon : Up(c)' => Follows(c)'
        BY <2>2, <4>1 DEF InHand
      <4> QED
        BY <2>1, <4>1, <4>2, <4>3 DEF InHand, Replacing
    <3> QED
      BY <2>1, <2>3, <2>6, <3>1 DEF Followed
  <2>7. CASE mpc = "idle" /\ ~HooksBusy
    <3>1. Settled'
      BY <2>1, <2>2, <2>7 DEF Followed, Settled
    <3> QED
      BY <2>1, <2>3, <2>7, <3>1 DEF Followed
  <2> QED
    BY <2>5, <2>6, <2>7
<1> QED
  BY <1>1, <1>2

(* Undisturbed, a tool call leaves the posture in the state file and with the
   daemon that serves.                                                     *)
LEMMA FollowedByTools ==
  ASSUME Life, Life', Turns, Turns', SyncTypes, SyncTypes', Followed, open', ~overlap',
         \/ \E q \in Posture : UpdatePosture(q)
         \/ ReadState \/ OpenForUpdate \/ WriteState \/ SendUpdate \/ Unreachable
         \/ \E d \in Daemon : ServeUpdate(d)
  PROVE  Followed'
<1>0. /\ Types /\ Types' /\ OneDaemon /\ OneServer /\ ServerIsReachable
  BY ControlServes DEF Life, Control
<1>1. UNCHANGED <<open, hpc, dpc, booted>>
  BY DEF UpdatePosture, ReadState, OpenForUpdate, WriteState, SendUpdate, Unreachable, ServeUpdate,
     vars, editorVars, hookVars, daemonVars
<1>2. /\ HooksBusy' <=> HooksBusy
      /\ \A c \in Daemon : (Up(c)' <=> Up(c)) /\ (Serving(c)' <=> Serving(c))
  BY <1>1 DEF HooksBusy, Busy, Up, Starting, Serving
<1>3. ~HooksBusy => \A c \in Daemon : ~Starting(c)
  BY <1>0 DEF OneDaemon, HooksBusy, Busy
<1>4. \A p \in Posture : p # Torn /\ p # NoPosture
  BY SyncAssumption
<1>5. ASSUME NEW q \in Posture, UpdatePosture(q) PROVE Followed'
  <2>1. /\ mpc = "idle" /\ mpc' = "read" /\ asked' = q /\ wanted' = q
        /\ overlap' = (overlap \/ HooksBusy) /\ UNCHANGED <<saved, content, held>>
    BY <1>1, <1>5 DEF UpdatePosture, MGoto, vars
  <2>2. Settled
    BY <1>1, <2>1 DEF Followed
  <2>3. Told'
    BY <1>2, <2>1, <2>2 DEF Settled, Told, SyncTypes, Follows
  <2> QED
    BY <2>1, <2>3 DEF Followed
<1>6. ASSUME mpc # "idle", ~overlap PROVE Told /\ ~HooksBusy
  BY <1>1, <1>6 DEF Followed, Turns
<1>7. ASSUME Told', mpc' # "idle" PROVE Followed'
  BY <1>7 DEF Followed
<1>8. ASSUME Settled', ~HooksBusy, mpc' = "idle" PROVE Followed'
  BY <1>2, <1>8 DEF Followed
<1>9. CASE ReadState
  <2>1. /\ mpc = "read" /\ mpc' = IF saved /\ content # Torn THEN "open" ELSE "send"
        /\ UNCHANGED <<saved, content, writing, held, asked, wanted, overlap>>
    BY <1>9 DEF ReadState, MGoto, vars, history
  <2>2. Told /\ content \in Posture
    BY <1>6, <2>1 DEF Told
  <2>3. mpc' = "open"
    BY <1>4, <2>1, <2>2 DEF Told, Follows
  <2>4. Told'
    BY <1>2, <2>1, <2>2, <2>3 DEF Told, Follows
  <2> QED
    BY <1>7, <2>3, <2>4
<1>10. CASE OpenForUpdate
  <2>1. /\ mpc = "open" /\ mpc' = "write" /\ saved' = TRUE /\ content' = Torn /\ Mcp \in writing'
        /\ UNCHANGED <<held, asked, wanted, overlap>>
    BY <1>10 DEF OpenForUpdate, MGoto, history
  <2>2. Told'
    BY <1>2, <1>6, <2>1 DEF Told, Follows
  <2> QED
    BY <1>7, <2>1, <2>2
<1>11. CASE WriteState
  <2>1. /\ mpc = "write" /\ mpc' = "send"
        /\ content' \in IF Mcp \in writing THEN Written(asked) ELSE {content}
        /\ UNCHANGED <<saved, held, asked, wanted, overlap>>
    BY <1>11 DEF WriteState, MGoto, vars, history
  <2>2. Told /\ content' = asked
    BY <1>6, <2>1 DEF Told, Written
  <2>3. Told'
    BY <1>2, <2>1, <2>2 DEF Told, Follows
  <2> QED
    BY <1>7, <2>1, <2>3
<1>12. CASE SendUpdate
  <2>1. mpc = "send" /\ UNCHANGED <<files, saved, content, held, asked, wanted, overlap>>
    BY <1>12 DEF SendUpdate, history
  <2>2. Told /\ ~HooksBusy /\ content = asked
    BY <1>6, <2>1 DEF Told
  <2>3. \A c \in Daemon : Serving(c) => files["sock"] = c /\ Reachable
    BY <1>0, DaemonIsSome DEF ServerIsReachable, Reachable, Listening, Serving
  <2>4. CASE Reachable
    <3> DEFINE s == files["sock"]
    <3>1. s \in Daemon /\ queue' = [queue EXCEPT ![s] = Append(@, Mcp)] /\ mpc' = "reply"
      BY <1>12, <2>4 DEF SendUpdate, Reachable, Listening, MGoto
    <3>2. queue'[s] = Append(queue[s], Mcp) /\ queue[s] \in Seq(Hook \cup {Mcp})
      BY <1>0, <3>1 DEF Types
    <3>3. Among(Mcp, queue'[s])
      BY <3>1, <3>2, QueueAppend
    <3>4. \A c \in Daemon : Serving(c)' => InQueue(Mcp, c)'
      BY <1>2, <2>3, <3>3 DEF InQueue
    <3> HIDE DEF s
    <3>5. Told'
      BY <1>2, <2>1, <2>2, <3>1, <3>4 DEF Told, Follows
    <3> QED
      BY <1>7, <3>1, <3>5
  <2>5. CASE ~Reachable
    <3>1. mpc' = "idle" /\ \A c \in Daemon : ~Up(c)'
      BY <1>2, <1>3, <1>12, <2>2, <2>3, <2>5 DEF SendUpdate, MGoto, Up, Serving
    <3>2. Settled'
      BY <2>1, <2>2, <3>1 DEF Settled, Told, Follows
    <3> QED
      BY <1>8, <2>2, <3>1, <3>2
  <2> QED
    BY <2>4, <2>5
<1>13. ASSUME NEW d \in Daemon, ServeUpdate(d) PROVE Followed'
  <2>1. /\ dpc[d] = "serve" /\ queue[d] # <<>> /\ Head(queue[d]) = Mcp /\ mpc' = "idle"
        /\ held' = IF booted[d] THEN [held EXCEPT ![d] = asked] ELSE held
        /\ UNCHANGED <<saved, content, wanted, overlap>>
    BY <1>13 DEF ServeUpdate, MGoto, history
  <2>2. mpc = "reply"
    <3>1. queue[d] \in Seq(Hook \cup {Mcp})
      BY <1>0 DEF Types
    <3>2. InQueue(Mcp, d)
      BY <2>1, <3>1, QueueTail DEF InQueue
    <3> QED
      BY <3>2 DEF Turns
  <2>3. Told /\ ~HooksBusy /\ content = asked /\ wanted = asked
    BY <1>6, <2>1, <2>2 DEF Told
  <2>4. held[d] \in Posture /\ held[d] # NoPosture
    BY <1>4, <2>1, <2>3 DEF Told, Up
  <2>5. Follows(d)'
    <3>1. held'[d] = IF booted[d] THEN asked ELSE held[d]
      BY <2>1 DEF SyncTypes
    <3>2. asked # NoPosture
      BY <1>4 DEF SyncTypes
    <3> QED
      BY <1>1, <2>1, <2>3, <2>4, <3>1, <3>2 DEF Follows
  <2>6. \A c \in Daemon : Up(c)' => c = d
    BY <1>0, <1>2, <1>3, <2>1, <2>3 DEF Up, OneServer, Listening
  <2>7. Settled'
    BY <2>1, <2>3, <2>5, <2>6 DEF Settled, Told, Follows
  <2> QED
    BY <1>8, <2>1, <2>3, <2>7
<1>14. CASE Unreachable
  <2>1. /\ mpc = "reply" /\ ~Pending(Mcp) /\ mpc' = "idle"
        /\ UNCHANGED <<saved, content, held, wanted, overlap>>
    BY <1>14 DEF Unreachable, MGoto, vars, history
  <2>2. Told /\ ~HooksBusy /\ content = wanted /\ wanted = asked
    BY <1>6, <2>1 DEF Told
  <2>3. \A c \in Daemon : Serving(c) => ~InQueue(Mcp, c)
    BY <2>1 DEF Pending, Serving, Listening, InQueue, Among
  <2>4. \A c \in Daemon : Up(c)' => Serving(c)
    BY <1>2, <1>3, <2>2 DEF Up, Serving
  <2>5. Settled'
    BY <1>1, <2>1, <2>2, <2>3, <2>4 DEF Settled, Told, Follows
  <2> QED
    BY <1>8, <2>1, <2>2, <2>5
<1> QED
  BY <1>5, <1>9, <1>10, <1>11, <1>12, <1>13, <1>14

(* The whole invariant is inductive beside that of the lifecycle. *)
LEMMA PostureStep == Life /\ Life' /\ PostureInv /\ [SyncNext]_allVars => PostureInv'
<1> SUFFICES ASSUME Life, Life', PostureInv, [SyncNext]_allVars PROVE PostureInv'
  OBVIOUS
<1>1. SyncTypes'
  BY SyncTypesStep DEF PostureInv
<1>2. Turns'
  BY TurnsStep DEF PostureInv
<1>3. Followed'
  <2> SUFFICES ASSUME open', ~overlap' PROVE Followed'
    BY DEF Followed
  <2>1. CASE UNCHANGED allVars
    <3>1. UNCHANGED <<open, event, saved, hpc, dpc, queue, booted, content, writing, payload, held, mpc, asked, wanted, overlap>>
      BY <2>1 DEF allVars, vars, editorVars, hookVars, daemonVars, syncVars, mcpVars, history
    <3>2. /\ Told' <=> Told
          /\ Settled' <=> Settled
          /\ HooksBusy' <=> HooksBusy
      BY <3>1 DEF Told, Settled, HooksBusy, Busy, Up, Starting, Serving, InQueue, Follows
    <3>3. \A h \in Hook : (Busy(h)' <=> Busy(h)) /\ (InHand(h)' <=> InHand(h))
      BY <3>1 DEF InHand, Replacing, Busy, Up, Starting, Serving, InQueue, Follows
    <3> QED
      BY <3>1, <3>2, <3>3 DEF Followed, PostureInv
  <2>2. CASE SyncNext
    BY <1>1, <1>2, <2>2, FollowedByHooks, FollowedByDaemons, FollowedByTools, FiredIsEvent
    DEF SyncNext, OtherSteps, Quiet, PostureInv
  <2> QED
    BY <2>1, <2>2
<1> QED
  BY <1>1, <1>2, <1>3 DEF PostureInv

(* It holds in every state of the system. *)
LEMMA PostureHolds == SyncSpec => []PostureInv
<1>1. SyncInit => PostureInv
  <2> SUFFICES ASSUME SyncInit PROVE PostureInv
    OBVIOUS
  <2>1. Turns
    BY QueueEmpty DEF SyncInit, Init, Turns, InQueue
  <2>2. SyncTypes
    BY SyncAssumption DEF SyncInit, SyncTypes, McpPc
  <2> QED
    BY <2>1, <2>2 DEF SyncInit, Init, Followed, PostureInv
<1> QED
  BY <1>1, LifeBeside, PostureStep, PTL DEF SyncSpec

-----------------------------------------------------------------------------
(* Type correctness of the lifecycle with the tool calls: a file names a daemon
   that was spawned, no daemon counts more actions than hooks were fired, and
   what is in the state file, a payload or a daemon is a posture.          *)
THEOREM SyncTypeCorrect == SyncSpec => []SyncTypeOK
<1>1. Life /\ SyncTypes => SyncTypeOK
  BY LifeShows DEF SyncTypes, SyncTypeOK
<1> QED
  BY <1>1, LifeBeside, SyncTypesHold, PTL

(* At most one daemon of a working directory listens, through crashes, idle
   exits, respawns and tool calls (spawn_daemon, main's cleanup and bind). *)
THEOREM OneServerAtATime == SyncSpec => []OneServer
BY LifeBeside, LifeShows, PTL

(* The daemon in its accept loop is the one the socket and the pid file name:
   no other process's cleanup takes its files away.                        *)
THEOREM ServerStaysReachable == SyncSpec => []ServerIsReachable
BY LifeBeside, LifeShows, PTL

(* As long as no daemon has left or died, no hook fails open, and the daemon that
   serves, when it has an engine, has counted every action a hook has its
   answer to.  A daemon whose initialize() raised has none: it answers allow
   and counts nothing.                                                     *)
THEOREM GovernedUntilOneLeaves == SyncSpec => []GovernedWhileUp
BY LifeBeside, LifeShows, PTL

(* The posture asked for last holds for the rest of the session, whatever
   daemons crash, leave and are respawned, unless a tool call overlapped a
   hook (handle_viveka_update_posture against respawn_daemon).             *)
THEOREM PostureFollowsTheSession == SyncSpec => []PostureTakesEffect
<1>1. PostureInv => PostureTakesEffect
  BY DEF PostureInv, Followed, Settled, Up, Serving, Follows, PostureTakesEffect
<1> QED
  BY <1>1, PostureHolds, PTL

=============================================================================
