----------------------------- MODULE PostureSync -----------------------------
(***************************************************************************)
(* viveka_update_posture (mcp-server/server.py) beside the hooks and the   *)
(* daemons: the MCP server reads, changes and writes the state file that   *)
(* the hooks save at a session start, respawn a daemon from and remove at  *)
(* the end, and then tells the daemon that is reachable.  Of the file's    *)
(* contents, of the payload a daemon was given and of a daemon's state the *)
(* posture is kept.  A file opened for writing is empty until it is        *)
(* written, and a payload that cannot be parsed leaves the daemon without  *)
(* an engine.                                                              *)
(*                                                                         *)
(* Hooks run one at a time here and a daemon answers in time; tool calls   *)
(* may overlap the hooks.                                                  *)
(***************************************************************************)
EXTENDS HookLifecycle

CONSTANTS
  Posture,     \* the postures asked for
  Standard,    \* payload.get("posture", "standard")
  MaxUpdates   \* bound on calls of viveka_update_posture

Torn     == "torn"   \* empty or half written: not JSON
NoPosture == "no posture"

ASSUME SyncAssumption ==
  /\ Standard \in Posture
  /\ Torn \notin Posture /\ NoPosture \notin Posture
  /\ MaxUpdates \in Nat
  /\ Raises /\ ~Concurrent /\ ~Slow /\ ~Signals

McpPc    == {"idle", "read", "open", "write", "send", "reply"}

VARIABLES
  content,   \* the posture in the state file, when it exists
  writing,   \* who holds the file of that name open for writing
  payload,   \* the posture in the payload the hook at work has
  held,      \* the posture a daemon took last (self.posture), or that it
             \* has none because its payload could not be parsed
  mpc,
  asked,     \* the posture of the tool call
  updates,   \* tool calls so far
  wanted,    \* the posture the open session should have, a history variable
  overlap    \* did a tool call overlap a hook since a session started
             \* undisturbed?  a history variable

mcpVars  == <<mpc, asked, updates>>
history  == <<wanted, overlap>>
syncVars == <<content, writing, payload, held, mcpVars, history>>
allVars  == <<vars, syncVars>>

Busy(h)   == hpc[h] \notin {"idle", "done"}
HooksBusy == \E h \in Hook : Busy(h)

(* What a write leaves in the file: when somebody else has written since   *)
(* the file was emptied, the two texts may overlay each other.             *)
Written(p) == IF content = Torn THEN {p} ELSE {p, Torn}

-----------------------------------------------------------------------------
(* Steps of the hooks and the daemons, with what they do to the contents.  *)

FireEvent(h, e) ==
  /\ Fire(h, e)
  /\ IF e = "sessionStart"
     THEN wanted' = Standard /\ payload' = Standard
     ELSE UNCHANGED <<wanted, payload>>
  /\ overlap' = (mpc # "idle" \/ (overlap /\ e # "sessionStart"))
  /\ UNCHANGED <<content, writing, held, mcpVars>>

(* The shell opens the file for echo, *)
OpenState(h) ==
  /\ hpc[h] = "save" /\ h \notin writing
  /\ saved' = TRUE /\ content' = Torn
  /\ writing' = writing \union {h}
  /\ UNCHANGED <<editorVars, files, hookVars, daemonVars, payload, held,
                 mcpVars, history>>

(* and echo writes it. *)
SaveState(h) ==
  /\ h \in writing
  /\ Save(h)
  /\ content' \in Written(payload)
  /\ writing' = writing \ {h}
  /\ UNCHANGED <<payload, held, mcpVars, history>>

(* daemon_alive and, to respawn, the cat of the state file. *)
ProbeState(h) ==
  /\ Probe(h)
  /\ payload' = IF hpc'[h] = "rm sock" /\ event[h] # "sessionStart"
                THEN content ELSE payload
  /\ UNCHANGED <<content, writing, held, mcpVars, history>>

(* The posture is the first thing initialize() sets; a payload that cannot *)
(* be parsed does not get there.                                           *)
SpawnWith(h) ==
  /\ Spawn(h)
  /\ payload = Torn => ~booted'[child'[h]]
  /\ held' = [held EXCEPT ![child'[h]] =
                  IF payload = Torn THEN NoPosture ELSE payload]
  /\ UNCHANGED <<content, writing, payload, mcpVars, history>>

(* Who has the file open goes on writing to a file without a name. *)
ForgetState(h) ==
  /\ Forget(h)
  /\ content' = Torn /\ writing' = {}
  /\ UNCHANGED <<payload, held, mcpVars, history>>

(* A sessionStart sets the posture of the hook's own payload, whether or   *)
(* not initialize() then raises.                                           *)
ServeHook(d) ==
  /\ Serve(d)
  /\ held' = IF event[Head(queue[d])] = "sessionStart"
               THEN [held EXCEPT ![d] = Standard] ELSE held
  /\ UNCHANGED <<content, writing, payload, mcpVars, history>>

(* The state file outlives the daemon. *)
Leave(d) ==
  /\ Close(d) \/ Crash(d)
  /\ held' = [held EXCEPT ![d] = NoPosture]
  /\ UNCHANGED <<content, writing, payload, mcpVars, history>>

OtherSteps ==
  /\ \/ \E h \in Hook : Remove(h) \/ Await(h) \/ Send(h) \/ GiveUp(h)
     \/ \E d \in Daemon : Cleanup(d) \/ Bind(d) \/ Announce(d) \/ Idle(d)
  /\ UNCHANGED syncVars

-----------------------------------------------------------------------------
(* handle_viveka_update_posture, one step per access to what is shared.    *)

MGoto(pc) == mpc' = pc

UpdatePosture(q) ==
  /\ mpc = "idle" /\ updates < MaxUpdates
  /\ MGoto("read")
  /\ asked' = q
  /\ updates' = updates + 1
  /\ wanted' = IF open THEN q ELSE wanted
  /\ overlap' = (overlap \/ HooksBusy)
  /\ UNCHANGED <<vars, content, writing, payload, held>>

(* A missing file is passed over, one that is not JSON makes the update of *)
(* the file fail; the daemon is told either way.                           *)
ReadState ==
  /\ mpc = "read"
  /\ MGoto(IF saved /\ content # Torn THEN "open" ELSE "send")
  /\ UNCHANGED <<vars, content, writing, payload, held, asked, updates, history>>

(* write_text empties the file, or makes it anew when it is gone by now. *)
OpenForUpdate ==
  /\ mpc = "open"
  /\ MGoto("write")
  /\ saved' = TRUE /\ content' = Torn
  /\ writing' = writing \union {Mcp}
  /\ UNCHANGED <<editorVars, files, hookVars, daemonVars, payload, held,
                 asked, updates, history>>

(* Mutant: what was read is written back. *)
WriteState_Unchanged ==
  /\ mpc = "write"
  /\ MGoto("send")
  /\ content' \in IF Mcp \in writing THEN Written(Standard) ELSE {content}
  /\ writing' = writing \ {Mcp}
  /\ UNCHANGED <<vars, payload, held, asked, updates, history>>

WriteState ==
  /\ mpc = "write"
  /\ MGoto("send")
  /\ content' \in IF Mcp \in writing THEN Written(asked) ELSE {content}
  /\ writing' = writing \ {Mcp}
  /\ UNCHANGED <<vars, payload, held, asked, updates, history>>

(* _send_to_daemon: connect to the socket, if there is one and somebody    *)
(* listens.                                                                *)
SendUpdate ==
  /\ mpc = "send"
  /\ IF Reachable
     THEN /\ queue' = [queue EXCEPT ![files["sock"]] = Append(@, Mcp)]
          /\ MGoto("reply")
     ELSE MGoto("idle") /\ UNCHANGED queue
  /\ UNCHANGED <<editorVars, files, saved, hookVars, dpc, booted, counted, content,
                 writing, payload, held, asked, updates, history>>

(* The daemon takes the posture, unless it has no engine (update_posture). *)
ServeUpdate(d) ==
  /\ dpc[d] = "serve"
  /\ queue[d] # <<>> /\ Head(queue[d]) = Mcp
  /\ queue' = [queue EXCEPT ![d] = Tail(@)]
  /\ held' = IF booted[d] THEN [held EXCEPT ![d] = asked] ELSE held
  /\ MGoto("idle")
  /\ UNCHANGED <<editorVars, files, saved, hookVars, dpc, booted, counted, content,
                 writing, payload, asked, updates, history>>

(* The connection was lost: "posture saved to state file only". *)
Unreachable ==
  /\ mpc = "reply" /\ ~Pending(Mcp)
  /\ MGoto("idle")
  /\ UNCHANGED <<vars, content, writing, payload, held, asked, updates, history>>

-----------------------------------------------------------------------------
SyncInit ==
  /\ Init
  /\ content = Torn /\ writing = {}
  /\ payload = Standard /\ wanted = Standard
  /\ held = [d \in Daemon |-> NoPosture]
  /\ mpc = "idle" /\ asked = Standard /\ updates = 0
  /\ overlap = FALSE

SyncNext ==
  \/ \E h \in Hook :
       \/ \E e \in Fired : FireEvent(h, e)
       \/ OpenState(h) \/ SaveState(h) \/ ProbeState(h) \/ SpawnWith(h) \/ ForgetState(h)
  \/ \E d \in Daemon : ServeHook(d) \/ ServeUpdate(d) \/ Leave(d)
  \/ OtherSteps
  \/ \E q \in Posture : UpdatePosture(q)
  \/ ReadState \/ OpenForUpdate \/ WriteState \/ SendUpdate \/ Unreachable

SyncSpec == SyncInit /\ [][SyncNext]_allVars

-----------------------------------------------------------------------------
SyncTypeOK ==
  /\ HTypeOK
  /\ content \in Posture \union {Torn}
  /\ writing \subseteq Hook \union {Mcp}
  /\ payload \in Posture \union {Torn}
  /\ held \in [Daemon -> Posture \union {NoPosture}]
  /\ mpc \in McpPc
  /\ asked \in Posture /\ wanted \in Posture
  /\ overlap \in BOOLEAN

(* PostureTakesEffect: the posture asked for last holds for the rest of the
   session, through crashes, idle exits and respawns of the daemon and
   whether or not it was reachable: the state file has it, a daemon that
   serves was given a payload it could parse, and when it has an engine the
   engine was set to it.  A tool call that overlapped a hook may lose it
   (handle_viveka_update_posture against respawn_daemon), and a daemon whose
   pack cannot be read has no engine to take it.                           *)
PostureTakesEffect ==
  open /\ ~overlap /\ mpc = "idle" /\ ~HooksBusy =>
    /\ saved /\ content = wanted
    /\ \A d \in Daemon :
         Serving(d) => /\ held[d] # NoPosture
                       /\ booted[d] => held[d] = wanted

=============================================================================
