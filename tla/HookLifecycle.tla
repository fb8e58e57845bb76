---------------------------- MODULE HookLifecycle ----------------------------
(***************************************************************************)
(* The hook client (scripts/viveka-hook.sh) and the life of the daemon     *)
(* processes it spawns (main, cleanup and the accept loop of               *)
(* scripts/viveka-daemon.py), over the four files they share: socket, pid  *)
(* and ready file, and the saved state of the session.                     *)
(*                                                                         *)
(* Hooks and daemons are processes; one step is one probe, one file        *)
(* operation, one connection or one request served.  A file holds the      *)
(* daemon that made it, or NoOne when it does not exist.  Timers are not   *)
(* modelled as clocks: a wait may end by timeout when the other side is    *)
(* slow (Slow) or can no longer answer.                                    *)
(***************************************************************************)
EXTENDS Naturals, Sequences, FiniteSets

CONSTANTS
  Hook,        \* hook processes; each serves one editor event
  Mcp,         \* the MCP server, whose requests a daemon queues as well
  Daemon,      \* daemon processes that can be spawned, 1..n
  Fired,       \* the kinds of event the editor fires
  Concurrent,  \* may the editor fire an event while a hook runs?
  Slow,        \* can starting or answering take longer than the waits?
  Raises,      \* can initialize() raise, over a pack it cannot read?
  Crashes,     \* can a daemon die without cleaning up?
  Signals      \* is a daemon sent SIGTERM or SIGINT?

(* An act is an input with an action to judge; a note is any other one: the
   report of an edit, or an input from which no action is read.            *)
Event  == {"sessionStart", "act", "note", "stop"}

ASSUME LifecycleAssumption ==
  /\ Daemon = 1..Cardinality(Daemon) /\ IsFiniteSet(Daemon)
  /\ Fired \subseteq Event /\ Raises \in BOOLEAN
  /\ Concurrent \in BOOLEAN /\ Slow \in BOOLEAN /\ Crashes \in BOOLEAN
  /\ Signals \in BOOLEAN
  /\ IsFiniteSet(Hook) /\ Mcp \notin Hook

NoOne  == 0
File   == {"sock", "pid", "ready"}
HookPc == {"idle", "save", "probe", "rm sock", "rm pid", "rm ready", "spawn",
           "wait", "send", "reply", "forget", "done"}
DaemonPc == {"unborn", "rm sock", "rm pid", "rm ready", "bind", "write pid",
             "write ready", "serve", "term sock", "term pid", "term ready", "close",
             "rm sock!", "rm pid!", "rm ready!", "gone", "dead"}

VARIABLES
  open,     \* does the editor have a session open?
  files,    \* who made the socket, the pid and the ready file
  saved,    \* does the state file exist?
  hpc, event,
  child,    \* the daemon a hook spawned
  got,      \* what a hook gave the editor: "none", the daemon's "answer", or
            \* "open" when it failed open
  dpc,
  queue,    \* whose requests a daemon has not served yet
  booted,   \* has a daemon an engine, that of an initialize() that returned?
  counted   \* actions in the session a daemon holds

editorVars == <<open, event>>
hookVars   == <<hpc, child, got>>
daemonVars == <<dpc, queue, booted, counted>>
vars == <<editorVars, files, saved, hookVars, daemonVars>>

Alive(d)     == d \in Daemon /\ dpc[d] \notin {"unborn", "gone", "dead"}
Listening(d) ==
  d \in Daemon /\ dpc[d] \in {"write pid", "write ready", "serve", "term sock",
                            "term pid", "term ready", "close"}
DaemonAlive  == files["pid"] # NoOne /\ Alive(files["pid"])
Reachable    == files["sock"] # NoOne /\ Listening(files["sock"])

Goto(h, pc)      == hpc' = [hpc EXCEPT ![h] = pc]
DGoto(d, pc)     == dpc' = [dpc EXCEPT ![d] = pc]
Make(f, d)       == files' = [files EXCEPT ![f] = d]
Unlink(f)        == files' = [files EXCEPT ![f] = NoOne]

-----------------------------------------------------------------------------
(* The editor fires an event: one session at a time, actions in a session.  *)
Fire(h, e) ==
  /\ hpc[h] = "idle"
  /\ Concurrent \/ \A g \in Hook : hpc[g] \in {"idle", "done"}
  /\ open = (e # "sessionStart")
  /\ open' = (e # "stop")
  /\ event' = [event EXCEPT ![h] = e]
  /\ Goto(h, CASE e = "sessionStart" -> "save"
               [] e \in {"act", "note"} -> "probe"
               [] e = "stop"         -> "send")
  /\ UNCHANGED <<files, saved, child, got, daemonVars>>

(* echo "$payload" > "$STATE_FILE" *)
Save(h) ==
  /\ hpc[h] = "save"
  /\ saved' = TRUE
  /\ Goto(h, "probe")
  /\ UNCHANGED <<editorVars, files, child, got, daemonVars>>

Answer(h, g, pc) ==
  /\ got' = [got EXCEPT ![h] = g]
  /\ Goto(h, pc)

(* Every hook but stop ends with its answer; stop removes the state file.   *)
After(h) == IF event[h] = "stop" THEN "forget" ELSE "done"

(* Mutant: an action has its hook respawn without a look at the pid file. *)
Probe_NoPid(h) ==
  /\ hpc[h] = "probe"
  /\ IF DaemonAlive /\ event[h] # "act" THEN Goto(h, "send") ELSE Goto(h, "rm sock")
  /\ UNCHANGED <<editorVars, files, saved, child, got, daemonVars>>

(* daemon_alive, and the choice made on it. *)
Probe(h) ==
  /\ hpc[h] = "probe"
  /\ IF DaemonAlive THEN Goto(h, "send") /\ UNCHANGED got
     ELSE IF event[h] = "sessionStart" \/ saved
     THEN Goto(h, "rm sock") /\ UNCHANGED got
     ELSE Answer(h, "open", "done")
  /\ UNCHANGED <<editorVars, files, saved, child, daemonVars>>

(* rm -f "$SOCKET_PATH" "$PID_FILE" "$READY_FILE" *)
Remove(h) ==
  /\ \/ hpc[h] = "rm sock"  /\ Unlink("sock")  /\ Goto(h, "rm pid")
     \/ hpc[h] = "rm pid"   /\ Unlink("pid")   /\ Goto(h, "rm ready")
     \/ hpc[h] = "rm ready" /\ Unlink("ready") /\ Goto(h, "spawn")
  /\ UNCHANGED <<editorVars, saved, child, got, daemonVars>>

(* python3 "$DAEMON_SCRIPT" ... &.  The daemon initializes from the payload
   it is given before anybody can reach it; when initialize() raises, main
   swallows it and the daemon goes on to serve without an engine.          *)
Spawn(h) ==
  /\ hpc[h] = "spawn"
  /\ \E d \in Daemon :
       /\ dpc[d] = "unborn"
       /\ \A c \in Daemon : c < d => dpc[c] # "unborn"
       /\ child' = [child EXCEPT ![h] = d]
       /\ DGoto(d, "rm sock")
       /\ \E b \in BOOLEAN :
            /\ b \/ Raises
            /\ booted' = [booted EXCEPT ![d] = b]
  /\ Goto(h, "wait")
  /\ UNCHANGED <<editorVars, files, saved, got, queue, counted>>

(* Mutant: the request is sent without waiting for the daemon. *)
Await_AtOnce(h) ==
  /\ hpc[h] = "wait"
  /\ Goto(h, "send")
  /\ UNCHANGED <<editorVars, files, saved, child, got, daemonVars>>

(* Mutant: no deadline. *)
Await_Forever(h) ==
  /\ hpc[h] = "wait"
  /\ files["ready"] # NoOne /\ files["sock"] # NoOne
  /\ Goto(h, "send")
  /\ UNCHANGED <<editorVars, files, saved, child, got, daemonVars>>

(* The ready file and the socket are polled for five seconds; the files     *)
(* need not be those of the daemon spawned here.                            *)
Await(h) ==
  /\ hpc[h] = "wait"
  /\ \/ /\ files["ready"] # NoOne /\ files["sock"] # NoOne
        /\ Goto(h, "send")
        /\ UNCHANGED got
     \/ /\ Slow \/ dpc[child[h]] \in {"serve", "gone", "dead"}
        /\ ~(files["ready"] # NoOne /\ files["sock"] # NoOne)
        /\ Answer(h, "open", "done")
  /\ UNCHANGED <<editorVars, files, saved, child, daemonVars>>

(* nc connects, or fails at once. *)
Send(h) ==
  /\ hpc[h] = "send"
  /\ IF Reachable
     THEN /\ queue' = [queue EXCEPT ![files["sock"]] = Append(@, h)]
          /\ Goto(h, "reply")
          /\ UNCHANGED got
     ELSE Answer(h, "open", After(h)) /\ UNCHANGED queue
  /\ UNCHANGED <<editorVars, files, saved, child, dpc, booted, counted>>

Pending(c) == \E d \in Daemon : Listening(d) /\ c \in {queue[d][i] : i \in DOMAIN queue[d]}

(* nc -w 3 gives up, or the daemon closed the connection unanswered.  The   *)
(* request stays with the daemon.                                           *)
GiveUp(h) ==
  /\ hpc[h] = "reply"
  /\ Slow \/ ~Pending(h)
  /\ Answer(h, "open", After(h))
  /\ UNCHANGED <<editorVars, files, saved, child, daemonVars>>

(* rm -f "$STATE_FILE" *)
Forget(h) ==
  /\ hpc[h] = "forget"
  /\ saved' = FALSE
  /\ Goto(h, "done")
  /\ UNCHANGED <<editorVars, files, child, got, daemonVars>>

HookStep(h) ==
  Save(h) \/ Probe(h) \/ Remove(h) \/ Spawn(h) \/ Await(h) \/ Send(h)
    \/ GiveUp(h) \/ Forget(h)

-----------------------------------------------------------------------------
(* Mutant: the pid file goes before the socket. *)
Cleanup_PidFirst(d) ==
  /\ \/ dpc[d] = "rm sock"   /\ Unlink("pid")   /\ DGoto(d, "rm pid")
     \/ dpc[d] = "rm pid"    /\ Unlink("sock")  /\ DGoto(d, "rm ready")
     \/ dpc[d] = "rm ready"  /\ Unlink("ready") /\ DGoto(d, "bind")
     \/ dpc[d] = "rm sock!"  /\ Unlink("pid")   /\ DGoto(d, "rm pid!")
     \/ dpc[d] = "rm pid!"   /\ Unlink("sock")  /\ DGoto(d, "rm ready!")
     \/ dpc[d] = "rm ready!" /\ Unlink("ready") /\ DGoto(d, "gone")
  /\ UNCHANGED <<editorVars, saved, hookVars, queue, booted, counted>>

(* cleanup(), at the start of main, in the signal handler and after the     *)
(* last request; a signal leaves the loop through main's finally, so the    *)
(* files are removed twice.                                                 *)
Cleanup(d) ==
  /\ \/ dpc[d] = "rm sock"    /\ Unlink("sock")  /\ DGoto(d, "rm pid")
     \/ dpc[d] = "rm pid"     /\ Unlink("pid")   /\ DGoto(d, "rm ready")
     \/ dpc[d] = "rm ready"   /\ Unlink("ready") /\ DGoto(d, "bind")
     \/ dpc[d] = "term sock"  /\ Unlink("sock")  /\ DGoto(d, "term pid")
     \/ dpc[d] = "term pid"   /\ Unlink("pid")   /\ DGoto(d, "term ready")
     \/ dpc[d] = "term ready" /\ Unlink("ready") /\ DGoto(d, "close")
     \/ dpc[d] = "rm sock!"  /\ Unlink("sock")  /\ DGoto(d, "rm pid!")
     \/ dpc[d] = "rm pid!"   /\ Unlink("pid")   /\ DGoto(d, "rm ready!")
     \/ dpc[d] = "rm ready!" /\ Unlink("ready") /\ DGoto(d, "gone")
  /\ UNCHANGED <<editorVars, saved, hookVars, queue, booted, counted>>

(* bind and listen.  A socket that exists makes bind raise, and the handler *)
(* at the end of the script cleans up whatever is there.                    *)
Bind(d) ==
  /\ dpc[d] = "bind"
  /\ IF files["sock"] = NoOne
     THEN Make("sock", d) /\ DGoto(d, "write pid")
     ELSE DGoto(d, "rm sock!") /\ UNCHANGED files
  /\ UNCHANGED <<editorVars, saved, hookVars, queue, booted, counted>>

Announce(d) ==
  /\ \/ dpc[d] = "write pid"   /\ Make("pid", d)   /\ DGoto(d, "write ready")
     \/ dpc[d] = "write ready" /\ Make("ready", d) /\ DGoto(d, "serve")
  /\ UNCHANGED <<editorVars, saved, hookVars, queue, booted, counted>>

(* What the session of a daemon counts after an event.  A sessionStart whose
   initialize() raises leaves engine and session as they are; without an
   engine an act is allowed and not counted.                               *)
Handle(d, e) ==
  \/ /\ e = "sessionStart"
     /\ booted'  = [booted EXCEPT ![d] = TRUE]
     /\ counted' = [counted EXCEPT ![d] = 0]
  \/ /\ e = "act" /\ booted[d]
     /\ counted' = [counted EXCEPT ![d] = @ + 1]
     /\ UNCHANGED booted
  \/ /\ e = "sessionStart" => Raises
     /\ e = "act" => ~booted[d]
     /\ UNCHANGED <<booted, counted>>

(* Mutant: a request that was answered stays in the queue. *)
Serve_Again(d) ==
  /\ dpc[d] = "serve"
  /\ queue[d] # <<>> /\ Head(queue[d]) # Mcp
  /\ counted' = [counted EXCEPT ![d] = @ + 1]
  /\ IF hpc[Head(queue[d])] = "reply"
     THEN Answer(Head(queue[d]), "answer", After(Head(queue[d])))
     ELSE UNCHANGED <<hpc, got>>
  /\ UNCHANGED <<editorVars, files, saved, child, dpc, queue, booted>>

(* A hook's connection is accepted, its request handled and answered, by the
   loop's own answer when the handler raised.  Stop leaves the loop only
   after its answer: when the hook is gone, sendall raises, the exception is
   swallowed and the loop goes on.                                         *)
Serve(d) ==
  /\ dpc[d] = "serve"
  /\ queue[d] # <<>> /\ Head(queue[d]) # Mcp
  /\ LET h == Head(queue[d])
     IN  /\ queue' = [queue EXCEPT ![d] = Tail(@)]
         /\ Handle(d, event[h])
         /\ IF hpc[h] = "reply"
            THEN /\ Answer(h, "answer", After(h))
                 /\ IF event[h] = "stop" THEN DGoto(d, "close") ELSE UNCHANGED dpc
            ELSE UNCHANGED <<hpc, got, dpc>>
  /\ UNCHANGED <<editorVars, files, saved, child>>

(* Mutant: the timeout goes round the loop instead of leaving it. *)
Idle_Continue(d) ==
  /\ dpc[d] = "serve"
  /\ queue[d] = <<>>
  /\ UNCHANGED vars

(* accept() timed out after five minutes without a request. *)
Idle(d) ==
  /\ dpc[d] = "serve"
  /\ queue[d] = <<>>
  /\ DGoto(d, "close")
  /\ UNCHANGED <<editorVars, files, saved, hookVars, queue, booted, counted>>

(* SIGTERM or SIGINT while the daemon waits for a connection. *)
Signal(d) ==
  /\ Signals
  /\ dpc[d] = "serve"
  /\ DGoto(d, "term sock")
  /\ UNCHANGED <<editorVars, files, saved, hookVars, queue, booted, counted>>

(* What was queued is lost, and nobody reaches what the process knew. *)
Blank(d) ==
  /\ queue'   = [queue EXCEPT ![d] = <<>>]
  /\ booted'  = [booted EXCEPT ![d] = FALSE]
  /\ counted' = [counted EXCEPT ![d] = 0]

(* sock.close(), before the files are removed. *)
Close(d) ==
  /\ dpc[d] = "close"
  /\ DGoto(d, "rm sock!")
  /\ Blank(d)
  /\ UNCHANGED <<editorVars, files, saved, hookVars>>

(* The process is killed: no checkpoint, and its files stay. *)
Crash(d) ==
  /\ Crashes
  /\ Alive(d)
  /\ DGoto(d, "dead")
  /\ Blank(d)
  /\ UNCHANGED <<editorVars, files, saved, hookVars>>

DaemonStep(d) == Cleanup(d) \/ Bind(d) \/ Announce(d) \/ Serve(d) \/ Idle(d) \/ Close(d)

-----------------------------------------------------------------------------
Init ==
  /\ open = FALSE
  /\ files = [f \in File |-> NoOne]
  /\ saved = FALSE
  /\ hpc = [h \in Hook |-> "idle"]
  /\ event = [h \in Hook |-> "act"]
  /\ child = [h \in Hook |-> NoOne]
  /\ got = [h \in Hook |-> "none"]
  /\ dpc = [d \in Daemon |-> "unborn"]
  /\ queue = [d \in Daemon |-> <<>>]
  /\ booted = [d \in Daemon |-> FALSE]
  /\ counted = [d \in Daemon |-> 0]

Next ==
  \/ \E h \in Hook : HookStep(h) \/ \E e \in Fired : Fire(h, e)
  \/ \E d \in Daemon : DaemonStep(d) \/ Signal(d) \/ Crash(d)

Spec == Init /\ [][Next]_vars

(* The waits of a hook and the accept of a daemon have timeouts, so each
   process that can go on does; nothing makes the editor fire events.      *)
FairSpec ==
  /\ Spec
  /\ \A h \in Hook : WF_vars(HookStep(h))
  /\ \A d \in Daemon : WF_vars(DaemonStep(d))

-----------------------------------------------------------------------------
Leaving == {"term sock", "term pid", "term ready", "close",
            "rm sock!", "rm pid!", "rm ready!", "gone", "dead"}
Serving(d) == d \in Daemon /\ dpc[d] = "serve"

(* Types; a file names a daemon that was spawned, and only hooks that wait  *)
(* or gave up are queued.                                                   *)
HTypeOK ==
  /\ open \in BOOLEAN /\ saved \in BOOLEAN
  /\ files \in [File -> Daemon \cup {NoOne}]
  /\ hpc \in [Hook -> HookPc]
  /\ event \in [Hook -> Event]
  /\ child \in [Hook -> Daemon \cup {NoOne}]
  /\ got \in [Hook -> {"none", "answer", "open"}]
  /\ dpc \in [Daemon -> DaemonPc]
  /\ booted \in [Daemon -> BOOLEAN]
  /\ counted \in [Daemon -> 0..Cardinality(Hook)]
  /\ \A d \in Daemon : queue[d] \in Seq(Hook \cup {Mcp})
  /\ \A f \in File : files[f] # NoOne => dpc[files[f]] # "unborn"

(* At most one daemon of a working directory accepts connections            *)
(* (spawn_daemon's test of daemon_alive, main's cleanup before bind).       *)
OneServer == \A c, d \in Daemon : Listening(c) /\ Listening(d) => c = d

(* A daemon in its accept loop is the one the socket and the pid file lead  *)
(* to: no other process's cleanup took its files away.                      *)
ServerIsReachable ==
  \A d \in Daemon : Serving(d) => files["sock"] = d /\ files["pid"] = d

(* As long as no daemon has left or died, no hook fails open, and a daemon  *)
(* that serves with an engine has counted every action a hook has its       *)
(* answer to: none was answered past the engine.  A daemon whose            *)
(* initialize() raised allows every action and counts none (evaluate).      *)
Answered == {h \in Hook : event[h] = "act" /\ got[h] = "answer"}
GovernedWhileUp ==
  (\A d \in Daemon : dpc[d] \notin Leaving) =>
    /\ \A h \in Hook : got[h] # "open"
    /\ \A d \in Daemon : Serving(d) /\ booted[d] => counted[d] = Cardinality(Answered)

(* Every hook the editor fires ends, whatever the daemon does: the editor   *)
(* is never left waiting (the deadlines of spawn_daemon and nc -w 3).       *)
HooksEnd == \A h \in Hook : hpc[h] # "idle" ~> hpc[h] = "done"

(* Abandoned daemons do not accumulate: once the editor fires no more,      *)
(* every process leaves (sock.settimeout(300)).                             *)
DaemonsLeave == <>[](\A d \in Daemon : ~Alive(d))

(* The hook is alone: no other one runs, and no daemon starts or leaves.    *)
Alone(h) ==
  /\ \A g \in Hook \ {h} : hpc[g] \in {"idle", "done"}
  /\ \A d \in Daemon : dpc[d] \in {"unborn", "serve", "gone", "dead"}

(* DeadSocketDetected: README.md:68, "hook script detects dead socket, attempts one respawn". *)
(* A hook that runs alone, when nobody listens on the socket, does not send *)
(* to it; it fails after two hooks have spawned daemons at once: the one    *)
(* that cannot bind removes the files of the other, which then writes its   *)
(* pid file and serves where nobody can reach it.                           *)
DeadSocketDetected ==
  [][\A h \in Hook :
       hpc[h] = "probe" /\ hpc'[h] = "send" /\ Alone(h) => Reachable]_vars

=============================================================================
