# A TLA+ model of viveka

viveka governs a coding agent inside an editor: the editor fires hooks, a shell
script forwards each to a daemon, and the daemon runs the action through a
deterministic rule engine that answers allow, ask or deny. This directory models
that path, from the arithmetic of the rules to the races between hook and
daemon processes, checks it with TLC and proves its safety with TLAPS.
Paths below are relative to the repository; `tla/` stands beside it.

## 1. Inventory

| part | source | state it keeps | operations | what is hard, what makes it correct |
|---|---|---|---|---|
| Micro-decision engine | `runtime/viveka/micro.py`, `layers/scanner.py:137`, `models/core.py` | `SessionState`: decisions, retries per pattern, files, tools, tokens, undeclared assumptions, warnings, blocks; limits, mode, environment | `evaluate`, five `record_*`, `reset_stage_counters` | Seven rules read counters that earlier verdicts moved, and compare them before or after counting. Caps must hold over every order of calls; no rule may relax within a stage. |
| Governed session | `runtime/viveka/session.py` | trace of proposed actions, escalation count | `propose`, `record_completion`, forwarding `record_*` | The audit trace is a second account of what the engine counts; completions are matched by text. |
| Risk assessment | `layers/assessor.py` | none | `assign_risk_mode` | A sum of doubles against thresholds: must be monotone in risk. |
| Daemon, request handling | `scripts/viveka-daemon.py:93-592` | engine, session, posture, policy name | `sessionStart`, `preToolUse`, `beforeShellExecution`, `afterFileEdit`, `postureUpdate`, `stop`; idle timeout | Mode, limits and blocked paths are set piecewise by three handlers, in any order, and one of them can fail half-way. |
| Hook client, daemon life | `scripts/viveka-hook.sh`, `scripts/viveka-daemon.py:612-696`, `hooks/hooks.json` | socket, pid, ready and state file | spawn, respawn, send, cleanup, bind, announce, serve, leave | Processes that share files without locks; crashes, signals, timeouts on both sides. |
| Policy packs | `runtime/viveka/policies.py` | built-in table, YAML files | `get_policy`, `merge`, `merge_policies` | A pack must stay in force as long as it is said to; a merge must be at least as strict as its parts. |
| MCP server | `mcp-server/server.py` | session state file, memory files | `viveka_update_posture`, `viveka_check`, ... | Writes the state file the hook also writes; talks to the daemon behind the hook's back. |
| Stage contracts | `runtime/viveka/contracts.py` | counters of a stage, event queue | `check_stage`, `record_replan`, `drain_events`, `reset_for_stage` | A second gate in front of the session's: checks, proposals and completions of parallel calls interleave, a budget is read before a call and charged after it, replans and drains reset part of the counters. |
| Failure scenarios, readiness | `scenarios.py`, `readiness.py`, `models/core.py:299` | none | filter scenarios, score options, draw lessons | Pure functions, but three of them read the same situation apart from each other: what the mode lists, what the context suppresses, and whether the verdict says so must fit. |
| Text constraints, traces, harness | `constraints.py`, `trace.py`, `harness/` | files | heuristics on text, JSON I/O | No control of interest. |
| Git hooks | `githooks/pre-commit`, `githooks/pre-push` | none | file limit, force-push test | They are the second line behind a daemon that was told of the branch only once. |
| Kernel, packaging | `rules/`, `platforms/`, manifests | none | prompts, installer | No program state. |

How they interact. The editor starts one hook process per event. `sessionStart`
saves its payload in the state file, makes sure a daemon lives and sends it the
payload; other events do the same from the saved payload; `stop` sends and
removes the state file. The daemon is single-threaded: one connection, one
request, one answer. A handler calls the session, the session the engine, the
engine the scanner; `initialize` calls the assessor and the policies. The MCP
server connects to the same socket for posture updates and checks. Anything that
goes wrong between hook and daemon makes the hook answer "continue": it fails
open by design.

PROJECT.json lists the hazards, each at the line where it bites, with the
properties that would catch it and, where none does, why.

## 2. Modules

| module | extends | beside it | proofs |
|---|---|---|---|
| `MicroEngine` | | `ActionGate`, which it implements | `MicroEngineProofs` |
| `GovernedSession` | `MicroEngine` | | `SessionProofs` |
| `StagedSession` | `GovernedSession`, which it implements | | `StagedProofs` |
| `Daemon` | `GovernedSession` | an instance of `RiskAssessment` | `DaemonProofs` |
| `RiskAssessment` | | | `AssessmentProofs` |
| `Readiness` | `RiskAssessment` | | `AssessmentProofs` |
| `Policies` | `RiskAssessment` | | `PoliciesProofs` |
| `HookLifecycle` | | | `LifecycleProofs` |
| `PostureSync` | `HookLifecycle` | | `PostureProofs` |

The proofs of a component extend those of the component it extends (sessions, daemon,
lifecycle) and cite their lemmas.

**MicroEngine** models `micro.py` and the invariants of `scanner.py`. An action
string is a member of `Action`; what the code reads off its text are two
constants, `NormalForm` (the retry key of `_normalize_action`) and `Trait` (which
keyword lists match). `Check(1..7, a)` are the `_check_*` methods in the order
`evaluate` runs them; `Decide` is the reduction to one verdict; `Evaluate` is
the whole of `evaluate`, including the attempt that `_check_retry_loops` counts
on the way and `SessionState.record`. Two expectations on the keyword tables are
assumptions: every string has one normal form, and a protected-branch keyword is a
destructive one too. The list of decisions is kept as the history variables
`passed`, `allowed` and `last`. Tokens recorded by `record_tokens` go where the
code puts them, a counter no rule reads.

**ActionGate** is what the engine promises a caller who knows none of its rules:
a pattern gets through at most `cap` times a stage, at most `quota + 1` actions a
session, and what closed stays closed until the next stage, or for good.
`ImplementsGate` is the refinement, with `Closed` and `Worn` read off the counters.

**GovernedSession** extends the engine with the trace. `Propose` is
`GovernedSession.propose`, `RecordCompletion` finds the latest open record of
the text, as the code does. `Ask`, `Finish` and `Abandon` are the caller: it
carries out what may proceed, reports it or not, and may have several actions
under way, also several of one text (`running` counts them). `overlapped`
remembers whether it ever had.

**StagedSession** puts the toolkit of `contracts.py` in front of the session, as
the usage note of `GovernedToolkit` has it: `CheckStage` is `check_stage`, which
refuses and queues an event or grants and counts; `ProposeChecked` is the caller
going on to `session.propose`. What is granted and not proposed yet is `checked`, so
checks of parallel calls interleave with proposals, completions, `DrainEvents` and
`RecordReplan`, which tests nothing, as in the code: whether a replan is due is the
caller's question. `BeginStage` is a new contract with both resets (`FreshStage`, and
`reset_for_stage`, which clears events nobody drained); the caller begins it with no
call under way. `Return` charges a call to `tokens_used`, which the toolkit leaves
to the caller. `begun`, `taken`, `refusals` and `width` are history; `taken` has
only what the caller drained, and the two lists start anew with each stage. The calls of the session that record files, tools and tokens
are left out here; `MicroEngine` and `Daemon` have them.

**RiskAssessment** is `assign_risk_mode` in hundredths. The code adds doubles;
enumerating all 1152 situations in the code's order of additions shows nine
whose sum falls just short of a threshold the exact sum meets. They are listed
in `RoundedDown` and get the lower mode, as in the code.

**Readiness** takes a situation on to a readiness level: `Listed` is
`DEFAULT_SCENARIOS` of the mode `AssignRiskMode` gives, `Applicable` what
`filter_scenarios_for_context` leaves, `Scoped` whether the suppression log has an
entry; `TestOption` appends a `StressTestResult` with any set of failures, which
names its option or leaves the field at None, and `Level` and `Lessons` are
`assess_readiness` and `extract_failure_lessons`; the second skips results
without an option (`Named`), the first does not.
A fraction is compared by cross-multiplication; for ten scenarios or fewer that
is what the division of doubles gives. Degradation grades and sorts, and is left out.

**Policies** has the five built-in packs, `get_policy`, `PolicyPack.merge` (`Merge`)
and `merge_policies` as a machine that layers one name at a time (`Layer`).
Lists are sets; the free text of a constraint is a short name. The merge of
`intent` is the later pack's, so it depends on the order. `Enforced` is what
an engine makes of a pack, the table of its mode with the pack's overrides.

**Daemon** extends the session with the handlers. One handler is one step,
because the accept loop is sequential. `SessionStart` is `initialize`: pack
lookup from the payload or from `policy.yaml`, mode from the pack, else the
posture, else the score; limits and blocked lists; and the half-done state when
reading the pack raises. `written` is the checkpoint the last step wrote.
`Checkout` is the developer changing branches, which the daemon does not see until the next start.
`Shutdown` is a stop, the idle timeout or a signal between two requests.
`StopUnheard` is a stop whose hook has gone: the checkpoint is written, the
answer cannot be sent, the loop goes on. `ReportedMode` is the mode
`viveka_session_state` works out on its own in the MCP server.

**HookLifecycle** models hook and daemon processes at the grain of one file
operation, one probe, one connection or one request. A file holds the daemon that
made it. `hpc` and `dpc` are the program counters; `Probe` is `daemon_alive` with
the choice made on it, `Remove`/`Spawn`/`Await` are `spawn_daemon`, `Send`/`GiveUp`
are `nc -w 3`; `Cleanup`/`Bind`/`Announce`/`Serve`/`Idle`/`Signal`/`Close` are
`main`, with a bind that fails going to the cleanup at the end of the script and a
signal removing the files twice. A wait may time out when the other side is slow
(`Slow`) or cannot answer any more; time itself is not modelled.
The module abstracts a daemon to two things: whether it has an engine (`booted`) and
what its session has counted (`counted`); `Daemon` has the rest. `Spawn` is the
process with the `initialize` main calls before it binds: when that may
raise (`Raises`), the daemon goes on without an engine. `Handle` is what an event does:
a start resets the count or raises, an act is counted if there is an engine and
allowed uncounted if there is none, a note (a file edit, or an input without an action
string) is answered uncounted. `Blank` is the process gone. `Fired` says which of the four kinds of
event the editor fires.

**PostureSync** extends it with the state file's contents and the MCP server.
`held` is the posture a daemon took last, its `self.posture`.
Every step of a hook or daemon that touches the contents, the payload or `held` is
extended (`OpenState`, `SaveState`, `ProbeState`, `SpawnWith`, `ForgetState`,
`ServeHook`, `Leave`); the rest is `OtherSteps`. The tool call is
five steps, one per access: `ReadState`, `OpenForUpdate`, `WriteState`,
`SendUpdate`, and `ServeUpdate` on the daemon's side. A file opened for writing is
empty (`Torn`) until it is written, two writers may overlay each other, and a
daemon spawned from a torn payload has neither engine nor posture, as `main`
swallows the error; one whose pack cannot be read has the posture and no engine
(`Raises`), and an update leaves it as it is.
Hooks run one at a time here and daemons answer in time (`SyncAssumption`).

The `MC_*` modules give TLC the constants; `MC_Assessment` also holds the
small state machine that walks over situations, one factor at a time, tests
options in four of them and layers packs in one.
Operators whose comment begins with "Mutant" are plausible bugs of the
definition they stand before; the model never uses them. Each property is known
to fail when its mutant replaces the definition.

## 3. Runs

| run | bounds | shows |
|---|---|---|
| `engine` | 5 configurations (each mode but restricted, production with git denied, budget low and spent), 6 actions covering every trait, 4 decisions, 2 stages; limits 0-2 | `RetryCap`, `WarnCap`, `ActionCap`: what can get through. `NeverMilder`: within a stage no rule relaxes on any action. `ImplementsGate`. |
| `session` | 3 actions, 3 proposals, 2 contracts (without shell; with a budget one call overruns), 2 stages of 2 refusals and one replan, calls of 0 or 1 token | `TraceMatchesEngine`: trace and counters agree until a reset, and counters never exceed the trace after it. `CompletedProceeded`: a refused record is never marked done while actions do not overlap; `CompletionsEarned`: when they do, no text is marked more often than it was let through. `TraceIsHistory`: no record is lost or rewritten. `StageBoundsSession`: a stage puts to the session what its contract counts, no more. `BudgetOverrun`: by how much at most a stage overruns its tokens. `RefusalsReportedOnce`: within a stage each refusal is drained once, in order, and none of an earlier stage. `ComposesWithSession`: a session under contracts is a session. |
| `assessment` | all 1152 situations, all one-factor changes; in 4 situations up to 3 options with any outcome, named or not; up to 3 layers of the 5 built-in packs, 2 packs of a user, one hidden by a built-in name and one unknown name | `RiskNeverLowersMode`, rounding included; `IrreversibleProductionGuarded`; `RiskNeverNarrowsTesting`: more risk never means fewer scenarios; `UnscopedMeansUnfiltered`, `MoreOptionsNeverLower` and `FailureTeaches` on the verdict; `MergeIsStrictest`: in each field that has a strictest value the merge has the strictest of its layers in any order, against a definition that has no order; its intent is one of theirs. |
| `daemon` | 2 sessions of 6 payloads, 5 packs (with limits, with a blocked path or tool, broken, absent), 2 policy files, 4 postures, 3 actions | `PostureEnforced` (the mode), `PatternCapped` across the postures of a session, `PackBlocksHold`, `CountersMatchTrace` across restarts, `ShutdownKeepsTrace`. |
| `hooks` | 3 events (start, act, stop) in turn, 3 daemons, any start may raise, crashes and idle exits at any step, 2 posture updates at any time | `OneServer`, `ServerIsReachable`, `GovernedWhileUp`: while no daemon has left no hook fails open, and a daemon with an engine counts every action it answers. `PostureTakesEffect`: state file and serving engine have the posture asked for last, unless a tool call overlapped a hook. |
| `hooks_end` | 2 overlapping events (start, act, stop), slow daemons, crashes, signals | `HooksEnd`, `DaemonsLeave` under fairness. |
| `tokens`, `pack_limits`, `layers`, `check_tool`, `rivals`, `mode_told` | smallest instance that shows the finding | one counterexample each, section 6. |

Why the bounds are enough. Every limit of the engine is scaled to 0, 1 or 2, so
that four decisions pass each of them and a step beyond; the comparisons do not
depend on the size of the limits, and the proofs remove the bound. The `daemon`
limits let each mode differ from each other one; three actions reach the
checkpoint's own threshold, two sessions a restart. In `session` three calls may be
under way at once, one of them twice the same text, and a stage may meet its call
limit, its budget, its replans and the end of its events; one reset shows what
a stage carries over. Of readiness, three options are the least for which a
majority of failures has to meet in one scenario; the four situations have two,
three, four and five scenarios, two of them by suppression. In `hooks` each event
can at worst crash a daemon and spawn another, so three events leave a dead
daemon, a half-cleaned one and a successor at once; of two updates one may find
the daemon and one miss it. The two-process races of `hooks_end`
and `rivals` need two or three hooks; these two leave out starts that raise,
which change nothing of who runs, waits and owns a file. No run fires notes: a note
goes the way of an act and changes no count. `hooks` with notes has been run as
well, 2,924,043 states without a violation instead of 903,815, and the proofs
cover every `Fired`. `session` has the most states, 1,201,628. `MaxDecisions`, `MaxTokens`,
`MaxAssumptions`, `MaxStages`, `MaxSessions`, `MaxLayers`, `MaxRefusals`, `MaxSpend`,
`MaxReplans`, `MaxOptions`, `Assessed` and `MaxUpdates` are the only bounds in guards, besides the
number of hooks and daemons. Deadlock is not checked: a session
ends, editors stop firing events, and all bounds run out.

`hooks` fires events one at a time. That is an assumption on the editor, dropped in
`hooks_end` and `rivals`; what fails without it is a finding. Tool calls of the MCP
server may overlap hooks. `PostureTakesEffect` leaves out what follows such an
overlap: a hook that respawns a daemon between the read and the write of the file,
or while it is empty, gives it the old posture or no engine, and the model has
both. `hooks` also assumes
that a daemon starts and answers within the waits and is sent no signal; a
signal's second cleanup may hit a successor (hazards).

Fairness. `FairSpec` assumes weak fairness of each hook process and of each daemon
process, nothing of the editor, crashes or signals. The code justifies it: both
waits of a hook have deadlines (5 s, `nc -w 3`), a connection has a 5 s
timeout and `accept` one of 300 s, so a process that is scheduled always goes
on. `DaemonsLeave` holds because the editor of the model fires finitely many
events.

## 4. Proofs

`MicroEngineProofs` proves, for every `Action`, `Pattern`, `NormalForm`, `Trait`,
set of configurations and bound, from `ActionsAssumption`, `BoundsAssumption` and
`ConfigAssumption`:

| theorem | says |
|---|---|
| `TypeCorrect` | `Spec => []TypeOK` |
| `RetriesCapped`, `WarningsCapped`, `ActionsCapped` | the three caps |
| `VerdictsNeverMilder` | `Spec => NeverMilder` |
| `EngineImplementsGate` | `Spec => Gate!Spec` |

The caps are not inductive: `passed[p] <= max_retries` says nothing of how the next
attempt is judged. `SafetyInv` adds that what got through is among what was
counted (`passed[p] <= retries[p]`, `allowed <= action_count`). The argument then
turns on `LetThroughMeans`: a decision that lets an action through is a
maximum over seven rules (`MostSevereIsMax`, `DecideIsWorst`), so none of them
blocked or escalated, so the attempt counted was within the limit and the health
rule had not closed. Such a step raises `passed` to at most the attempt it
counted. Monotonicity goes over `Grown`: within a stage no counter
a rule reads shrinks (finiteness of the file and tool sets is part of `SafetyInv`
for their cardinalities), and each rule is monotone in it. The refinement maps an
evaluation to `Admit`, `AdmitRead` or `Refuse` and a reset to `NewStage`; all else
stutters.

`PoliciesProofs` proves `LayeringIsStrictest`, `LayerSpec => []MergeIsStrictest`, from
`PoliciesAssumption`: for every library of user packs and any number of layers. The
invariant adds the types and that nothing is layered before the first call, where
the code takes the pack as it is. The step rests on two lemmas, one for limits
(`LowestStep`) and one for ranked enumerations (`HighestStep`), each about one field
and one more pack; None (not set) is where they could have failed.

`SessionProofs` is about the session, from the engine's assumptions, and
`StagedProofs`, from these and `StageAssumption`, about the contracts before it:

| theorem | says |
|---|---|
| `SessionTypeCorrect`, `TraceKept`, `CompletionsAreEarned` | `SSpec => []SessionTypeOK`, `TraceIsHistory`, `[]CompletionsEarned` |
| `TraceMatches`, `CompletedHadProceeded` | `SSpec => []TraceMatchesEngine`, `[]CompletedProceeded` |
| `StagedIsSession` | `StagedSpec => ComposesWithSession` |
| `StagedTraceKept`, `StagedCompletionsEarned`, `StagedTraceMatches`, `StagedCompletedHadProceeded` | the same four under contracts, from the refinement |
| `StagedTypeCorrect` | `StagedSpec => []StagedTypeOK` |
| `StageBounded`, `RefusalsReported`, `BudgetOverrunBounded` | `StagedSpec => []StageBoundsSession`, `[]RefusalsReportedOnce`, `[]BudgetOverrun` |

- `CompletionsEarned` is not inductive: a completion needs something under way.
  `EarnedInv` adds that, per text, what is completed and what is under way are
  together no more than what was let through; a completion moves one from the second
  to the first (`FinishKeepsEarned`), a proposal that may proceed adds one on both
  sides (`AskKeepsEarned`). That `record_completion` finds a record at all rests on
  `HasGreatest`, from the well-foundedness of finite subsets.
- `CompletedProceeded` is about a completion that searches by text, backwards,
  without looking at outcomes. `OrderInv` says why that finds the right record while
  calls are made one at a time: what is under way is then the last record, open and
  let through (`Latest`). With overlap it would not be, which is why the property
  stops there and `CompletionsEarned` goes on.
- `TraceInv` counts the trace by kind of record (`Many`) and compares each counter
  to its kind: equal up to the first reset, no more than it afterwards. One more
  record adds one to the kinds it is of (`ManyAppended`); marking one changes none (`ManyCompleted`).
- `StageInv` has the types and the finiteness of what is checked, beside the two
  invariants it shows: what the contract counts is what was asked and what is on its
  way, and what was drained with what is queued is what the stage refused.
  `BudgetOverrun` needs a charge made in advance: `BudgetInv` says that what is
  spent, with `MaxSpend` for every call under way, is below the budget plus
  `MaxSpend` times the most calls there ever were. A check adds to the left only when
  the budget is not spent; a return turns a charge into a cost.

`DaemonProofs` is about the request handlers, from `DaemonAssumption` and the
engine's assumptions: any library of packs, payloads, files and number of sessions.

| theorem | says |
|---|---|
| `DaemonTypeCorrect` | `DSpec => []DaemonTypeOK` |
| `PatternsCapped` | `DSpec => []PatternCapped`: within a session; a start begins a new count |
| `PostureIsEnforced`, `PackBlocksAreKept` | `DSpec => []PostureEnforced` (of the mode, not the limits), `[]PackBlocksHold` |
| `DaemonCountsItsTrace`, `TraceSurvivesShutdown` | `DSpec => []CountersMatchTrace`, `ShutdownKeepsTrace` |

`CapInv` adds to the cap that the limit in force is always some mode's or some
pack's, and that what got through is among the attempts counted. `BuiltInv` adds
to the two invariants on the engine what `initialize` leaves: the pack applied
is a pack, and its paths and tools are in the engine, whatever posture update replaced
the limits. A start that raises half-way is the difficult case of both: it changes
the posture and the name but not the engine. `AccountInv` is `TraceInv` with the
stage at 0; it carries the session's argument over to an engine that is made
anew at each start.

`LifecycleProofs` and `PostureProofs` are about hooks and daemons, for every
number of them, with crashes and idle exits at any step:

| theorem | says |
|---|---|
| `LifecycleHolds` | when `Sequential`, `Spec => [](HTypeOK /\ OneServer /\ ServerIsReachable /\ GovernedWhileUp)` |
| `SyncTypeCorrect` | `SyncSpec => []SyncTypeOK` |
| `OneServerAtATime`, `ServerStaysReachable`, `GovernedUntilOneLeaves` | the same three with tool calls beside the hooks |
| `PostureFollowsTheSession` | `SyncSpec => []PostureTakesEffect` |

`Sequential` is `~Concurrent /\ ~Slow /\ ~Signals`: one hook at a time, daemons
that start and answer within the waits, no signal. `SyncAssumption` has the same
three. They are hypotheses on the editor and the machine, not on the code, and
the code needs them: with three hooks and three daemons and no crash, TLC finds
`OneServer` and `ServerIsReachable` violated as soon as any one of the three is
dropped, and `GovernedWhileUp` with the first or the second.

None of the three invariants is inductive. `Life` says who may be where:

- `Control`: at most one hook is at work and one daemon present (`OneHook`,
  `OneDaemon`), a daemon that starts has the hook that spawned it waiting for it, a
  hook that replaces a daemon replaces none that is present, and at each
  program counter of a daemon which of the three files are its own (`Owners`). The last is
  what a cleanup relies on: it removes files by name, not by owner.
- `Queues`: only a daemon that listens has requests, each that of a hook
  that waits for its answer, once; so no action is counted twice.
- `Governed`: as long as no daemon has left, a hook that is about to send has one
  serving, and the one serving has counted what it answered, if it has an
  engine (`Rules`). Before a daemon has left none is respawned, so it was
  spawned by the sessionStart, which no act preceded.

Each part is preserved on its own (`ControlStep`, `QueuesStep`, `RulesForHooks` and
`RulesForDaemons`). A step here is `Next` or `Outside`: somebody else writes the
state file or queues a request. That is all the MCP server can do to hooks
and daemons (`SyncIsStep`), so `Life` is an invariant of `SyncSpec` too and
nothing is proved twice. `PostureInv` then follows the posture: with nobody at
work it is in the state file and in the engine (`Settled`); while a hook is, in its
payload until it is written, and from there in the daemon it spawns (`InHand`);
while a tool call is, first in the file, then in a request, then in the engine
(`Told`). A daemon `Follows` it when it has taken it or has no engine to.
TLC finds no violation of `Life` and `PostureInv` on the instance of `hooks`
with notes (2,924,043 states), where their earlier, weaker forms were tried out too.

`AssessmentProofs` is about the state machine of `MC_Assessment`, so about what one
change of a situation, one more option and one more test do. It covers every situation,
any `MaxOptions` and any `Assessed`:

| theorem | says |
|---|---|
| `ProductionIsGuarded` | `Spec => []IrreversibleProductionGuarded` |
| `RiskierIsNeverRelaxed`, `RiskierIsTestedAsWidely` | `Spec => RiskNeverLowersMode`, `RiskNeverNarrowsTesting` |
| `NoStatementNoSuppression`, `FailureAlwaysTeaches` | `Spec => []UnscopedMeansUnfiltered`, `[]FailureTeaches` |
| `AnotherOptionNeverLowers` | `Spec => MoreOptionsNeverLower` |

`Tested` says that options are tested against the scenarios that apply and fail only
some of those. `ScoreRises` and `ModeRises` are the monotonicity of the score,
the nine roundings included; `SuppressesLess` that of the suppression rules.
`FailureTeaches` rests on a count: an option that does not survive fails more than two
fifths of its scenarios, so of three such options two meet in one
(`ThreeMeet`). The three have to be named: of results without their option the code
learns nothing, so the theorem counts `Named`, whatever nameless results there are
besides.

Model-checked only: `HooksEnd` and `DaemonsLeave`, since fairness and ENABLED are out
of the prover's reach; and the six findings, which are counterexamples. That
`RoundedDown` has the nine situations the doubles round is an enumeration
outside TLA+. Every safety property of every passing run is stated by a theorem.

## 5. Not modelled

- The text side: regular expressions, keyword tables and messages. `Trait` and
  `NormalForm` range over what they can yield; whether `rm` is in a list is a unit
  test's matter.
- `_load_user_policy` beyond its three outcomes; `check_constraints`, memory
  files, observation log, exports: they read state or append to files.
- `restricted` mode differs from guarded only in its limits table.
- Reuse of process ids, a second user, a full disk (checkpoints are then lost,
  silently, by design).
- A signal in the middle of a handler: `handle_signal` then writes a checkpoint of a
  half-handled request, at most one action counted and not in the trace. `Shutdown`
  and `Signal` are signals between two requests.
- What nobody drained before `reset_for_stage` is reported to nobody. The model does
  that, and no property is about it: nothing in the repository says it should not be.
- A daemon whose first `initialize()` raised allows everything and counts nothing until
  a sessionStart that succeeds. The model has it; `GovernedWhileUp` and
  `PostureTakesEffect` are about daemons with an engine.
- Of stages: results and warnings, which nothing in the repository fills in. Of
  readiness: the degradation.
- Of the MCP server: memory tools (files), the replies that only read, and the
  evaluation `viveka_check` does on its own when there is no daemon: a fresh engine
  per question, so with no memory of the session.
- Git hooks: guards without state over counts and ancestry that git computes. The
  daemon and they share nothing but the developer's repository. As read:
  `pre-commit` blocks above its limit, not at it, and under `set -o pipefail` a
  `policy.yaml` without `max_files_modified` ends it with an error.
- Text constraints, traces, harness, packaging and prompts: no state beyond a file.

## 6. Where code and documents part

With a run that shows it (PROJECT.json, `findings`):

1. `tokens`: recorded tokens never reach the budget the rules read
   (`micro.py:193`; `docs/how-viveka-governs.md:81`).
2. `pack_limits`: a posture update discards the limits of the policy pack
   (`viveka-daemon.py:231`; `README.md:30`).
3. `layers`: refactor-safe and data-migration layered allow 15 modified files where
   data-migration alone allows 8 (`policies.py:83`; its docstring at line 9).
4. `check_tool`: `viveka_check` is always answered "permit"
   (`server.py:287` and its docstring at 282).
5. `mode_told`: after exploratory and back to standard the session stays permissive,
   and `viveka_session_state` says standard (`viveka-daemon.py:227`; `CHANGES.md:68`).
6. `rivals`: two hooks at once spawn two daemons; the one whose bind fails removes the
   socket of the other, which serves on without it. A third hook, on its own, finds
   the process alive, sends to nobody and falls open; nothing is respawned until the
   idle timeout (`viveka-daemon.py:696`; `README.md:68`). `DeadSocketDetected` looks only
   at hooks that run alone, so the moment in which an overlapping hook has the
   files removed to respawn does not violate it.

Read while modelling, modelled as the code has it, without a run of their own:

- The third repeat is blocked only where `max_retries` is 2 or less; in standard
  mode the fourth is (`README.md:25`; `docs/how-viveka-governs.md:19` has the fourth).
- `PolicyPack.merge` says that the stricter value wins and that "'other' takes precedence
  for non-None values" (`policies.py:70`, 71). They differ whenever both packs set a
  field; the code follows the first, but for `intent`, where it follows the second.
- Scope drift never blocks, however large the overshoot (`README.md:26`).
- Other warnings of a warned action are not in its suggestions (`micro.py:173`).
- A protected branch alone gives the standard mode (`docs/how-viveka-governs.md:64`).
- After a checkout of main, a force push is not blocked by the daemon, which
  scans at a session start only (line 71 there).
- A second session start writes no checkpoint of the first (line 89).
- A stop whose hook has given up does not shut the daemon down (line 135).
- Learnings use a retry limit of three in every mode (`viveka-daemon.py:303`).
- Counters are lost on idle exit and respawn (line 85 of the same document).
- `viveka_update_posture` never switches policy packs (`README.md:138`).
- The limits listed for `data-migration` and `cleanup` at `README.md:144` are not
  the ones enforced: 8 files and one retry, and 15 files.

## 7. Plan

Done, in this order: MicroEngine, ActionGate and their proofs; GovernedSession;
RiskAssessment; Policies and its proofs; Daemon; HookLifecycle; PostureSync;
StagedSession, SessionProofs; Readiness; then the proofs of all the rest. The most
important behaviour came first: what gets through, then how the daemon drives it,
then whether there is a daemon, then what stands beside it.

What is left to model adds little state: the observation log and the memory file
of the learnings, and `viveka_check` without a daemon.

What is left to prove: that a daemon, between two starts, implements the session
of `GovernedSession`; that `PostureSync` implements `HookLifecycle` up to the
rewriting of the state file (`SyncIsStep` is its step, with `Outside` for what has
no counterpart); and `GovernedWhileUp` with signals, where TLC finds no
counterexample on that instance and `Life` does not hold as it stands.

## 8. Running it

    tlc -workers 2 -config MC_MicroEngine.cfg MC_MicroEngine.tla
    tlapm MicroEngineProofs.tla
    tlapm PoliciesProofs.tla
    tlapm SessionProofs.tla
    tlapm StagedProofs.tla
    tlapm DaemonProofs.tla
    tlapm LifecycleProofs.tla
    tlapm PostureProofs.tla
    tlapm AssessmentProofs.tla
