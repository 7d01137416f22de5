# A verification development of RSmicro

RSmicro is a soft PLC: ladder programs are compiled to a validated image, a
portable C runtime scans the image on a controller or in a simulator, and a
SCADA server reads, writes, alarms and records the controllers' tags.  This
directory holds TLA+ models of its parts, the TLC runs that check them on small
instances, and TLAPS proofs of what matters most for every instance.

## The system and its parts

| part | source | state | operations | what is hard |
|---|---|---|---|---|
| C runtime core | `runtime/core/src/rsm_runtime.c` | mode, tag table, forces, instruction state, code size, diagnostics, last fault; the arena all of it lies in | init, load, unload, set_mode, prescan, postscan, scan, write, force, reads, snapshot | faults in the middle of a scan, edges over restarts, widths of numbers and of sizes, forces over values |
| Native binding | `src/rsmicro/native/runtime.py`, `binding.py` | library handle, runtime object, lock, host callbacks | the C calls under an RLock | use after close, callbacks during a scan |
| Simulation worker | `src/rsmicro/native/simulation.py` | state, worker thread, stop event | start, stop, scan, set_mode, close | start/stop races, a fault seen late, two workers |
| SCADA alarms | `src/rsmicro/scada/alarms.py` | one alarm's state, pending timer, acknowledgement, journal | evaluate, acknowledge | delays, deadband, acknowledgement obligations |
| Tag registry | `src/rsmicro/scada/registry.py` | descriptors and values per controller, manifest UUIDs | replace_manifest, update, get, mark_controller_stale | values of an older program, stale quality |
| Controller supervisor | `src/rsmicro/scada/supervisor.py`, `controller.py` | connection state, client | run, stop | reconnects, a stop during a connect, awaits between steps |
| Routing | `src/rsmicro/scada/routing.py` | routes, values, qualities | configure, source_update, timeout | several awaits per update, calls that overlap, partial failure |
| Historian | `src/rsmicro/scada/historian.py` | bounded queue, writer task, database | enqueue, writer, close | overflow, shutdown sentinel inside a batch |
| SCADA service, web socket | `src/rsmicro/scada/service.py`, `websocket_server.py` | sessions, clients | write, force, subscribe | slow clients, rights |
| RSM Link client | `src/rsmicro/protocol/client.py`, `stream.py` | session state, pending requests, receiver task | connect, request, receive, close | late, lost, garbled answers, cancellations, end of stream, ids used again |
| RSM Link in C | `protocol/c/` | stream buffer and its fill | encode, decode, append, next, consume | frames cut by chunks, lengths that wrap, storage that is full |
| Linux node | `runtime/node/src/` | ring of commands | push, pop | wrap-around, full and empty |
| Legacy engine | `src/plc_ascii/engine.py` and its ports | variables, timers, forces | scan, solve | same logic in three copies |
| Legacy device runtime | `src/plc_runtime/`, `src/plc_ascii/remote.py` | chunked download, mode | protocol commands | late answers, interrupted downloads |
| Compiler, models, studio, IDE, GUI | the rest of `src/` | | pure functions and widgets | not stateful in the sense of this project |

The parts interact by calls (binding to C), by callbacks (HAL), by one worker
thread and one lock (simulation), by asyncio tasks (SCADA), and by frames (RSM
link).  `PROJECT.json` lists every part with its files, the hazards of the code
line by line, and the properties that are about each.

What makes each part correct:

* runtime core: a mode only changes as the lifecycle allows; a fault latches
  until the host clears it; a scan without a fault runs the whole image; outputs
  are written in RUN alone, and with the value the program and the forces give;
  edges, timers and counters count what happened and survive no restart; a scan
  called returns; the arena's arrays never overlap and never leave it, whatever
  the address, the size and the image;
* binding: the C core never looks at memory Python has replaced;
* simulator: one worker, calls serialized, a stop that returns and leaves no
  worker, a close after which nothing scans;
* alarms: a delay is a whole delay, an acknowledgement is of the state that was
  shown, an activation is shown until somebody acknowledges the alarm;
* routing: at no instant between two writes does the destination claim a good
  value that is not one, and a call that completes leaves it as the route says
  (kept by calls that overlap no other and have no poor reading, see `route_loss`);
* historian: every sample accepted is stored, counted as failed or counted as
  dropped, and close returns after that;
* link client: an answer reaches the request it is for, or nobody;
* link stream: what was sent comes out, in order and once, however it was cut;
* node: the ring is a queue;
* supervisor and registry: a runtime id is resolved to the tag of the program
  installed last (not always the one the controller runs, see `shutdown`); a lost controller comes back; a stop ends.

## Modules

The core of the system, one host at a time:

* `RsmImage` - program images as constants: types, operands, the validator,
  the branch pass, the rung table, the arena's size.  Every image a host may
  offer is a constant, so a run chooses small ones and the proofs quantify over
  all of them.  That only scalar tags are bound to endpoints is an assumption
  (`ImageAssumption`) which neither the compiler nor the validator enforces.
* `RsmRuntime` - the C runtime.  A host calls one function at a time, so every
  host call is one action that waits for phase `idle`.  `rsm_runtime_scan` is a
  sequence of actions (capture of each input, start and end of each rung, each
  instruction, each output, the closing diagnostics), because a device fault or
  an instruction fault may end it between any two.  `code_size`, which the C
  code changes while a rung runs, is the variable `codeEnd`.  DINTs wrap at
  `DintMin..DintMax`, microseconds are counted in `UsPerMs`, the counters of
  the diagnostics modulo `CounterMod`.
* `RsmLifecycle` - the lifecycle a host is promised, and the hub of the
  project: `RsmRuntime` implements it (`ImplementsLifecycle`), `RsmBinding`
  implements it (`KeepsLifecycle`), and `RsmSimulator`, whose threads share one
  runtime, calls it only as it allows (`RuntimeKeepsLifecycle`).
* `RsmReads` - the functions that only read, and the snapshot as the sequence
  of records it hands to its callbacks; `SnapshotShowsState` compares what a
  consumer can put together from it with what the reads answer.
* `RsmObserver` - adds history variables to `RsmRuntime` (when a timer was
  enabled, whether an edge instruction has run without power since it was
  initialised) and the properties that need them.  TimerNeverEarly is about a
  timer that one TON runs and that no RES resets in an earlier rung (`Alone`):
  two TONs on a timer count twice, and the finding `stale_slot` makes the
  second a real restriction.  The one-shots of OnlyRisesCount are those whose
  storage bit nobody else writes or forces (`OwnBit`).
* `RsmDocumented` - statements of the documents that the code does not keep.
* `MCRsmRuntime` - the images and values of the runs; `MCRsmObserver` - the same
  for the observed runtime.
* `RsmRuntimeProofs` - theorems about `RsmRuntime`; `RsmObserverProofs` - about
  `RsmObserver` and `RsmReads`.
* `RsmDirectory` - the image's directory of sections: the range checks of the
  validator, in which a sum of 32 bits may wrap, and the search for a section.
* `RsmLayout` - the layout of the arena: `load` aligns and places its arrays
  with checked additions in a `size_t` of `SizeMod` values, `rsm_required_arena`
  computes the size to ask for, and an instruction finds its state slot by the
  position it was compiled for.  `RsmRuntime` takes the result of all this for
  granted; here it is what is checked.  `RsmLayoutProofs` proves the layout and
  the directory.

Around the core:

* `RsmBinding` - `NativeRuntime`: the closed flag, the arena and its capacity,
  the image buffer and the program flag that Python keeps, beside what the C
  object points to.  Each method is an action; the method's early returns and
  the order in which it gives buffers up are kept.  `RsmBindingProofs` proves
  that they agree and that the binding implements `RsmLifecycle`.
* `RsmSimulator` - `NativeSimulator`: every client and worker is a thread
  with a program counter over the calls of `simulation.py`, the RLock, the
  RLock of the runtime under it, the stop event, the current worker and the
  state reported.  `Step(t)` is one thread's next statement.  A behaviour
  is `calm`, with no scan that outlasts a join and no subscriber that calls
  stop, or may have both.  `MCRsmSimulator` instantiates it,
  `RsmSimulatorProofs` proves the locking and what a single client gets.

The SCADA server's parts:

* `RsmAlarm` - one alarm of `AlarmEngine`: `Evaluate` with both of its moves,
  `Acknowledge`, the clock, and a view that shows an operator the state and
  version.  `RsmAlarmProofs` proves its three invariants.
* `RsmRouting` - one route: a call of `source_update` or `timeout` is a list
  of writes, and each write is a step that may fail.  The engine has no lock and
  the repository no caller of it yet, so any number of calls may be under way at
  once; the history variable `crossed` says which of them overlapped another.
  The route is taken to have its three companion tags (good, stale, bad) all
  configured; a missing one only drops its write.
* `RsmHistorian` - the bounded queue, the writer task and `close` on one event
  loop, with asyncio's rule that a task woken by an item only takes it when it
  runs.
* `RsmSupervisor` - the task of one controller from await to await, its part
  of the tag registry, and the shutdown of the service.  A cancellation is
  taken at an await or swallowed by an answer that is there already.  A
  controller that answers with another identity than the configured one is one
  that does not answer: both end in the same handler.
* `RsmScadaDocumented` - statements of the documents that the routes, the
  registry and the shutdown do not keep.  A history variable collects the
  promises a behaviour has broken, so that one counterexample refutes several.
* `RsmScadaProofs` - theorems about `RsmRouting`, `RsmHistorian` and
  `RsmSupervisor`, among them that ids resolve to the program installed last.

Communication:

* `RsmLinkClient` - one connection of `RsmLinkClient` in `client.py`: several
  requests, the receiver and `close`, each from await to await.  The node
  answers in any order, late, never, with garbage, several frames to a chunk,
  and may close or reset the connection; a close of a lost connection raises
  half-way.  Request ids wrap at `IdMod`.
* `RsmLinkStream` - `rsm_link_stream` of the C library: `append` of a chunk,
  `next` and `consume`, with the sizes of the decoder in words of `WordMod`.  A
  frame is its length and what the decoder can tell of its bytes.
* `RsmNodeQueue` - the ring of commands, with its indices and count, and
  `RsmFifo`, the bounded queue with a high-water mark that it implements
  (`ImplementsFifo`).
* `RsmLinkProofs` - the refinement of `RsmFifo`, that the stream is faithful,
  and that answers find their requests.

`MCRsmParts` - the SCADA parts, the communication parts, `RsmBinding` and
`RsmLayout` share nothing with each other, so one run explores each of the nine
with the rest at rest, chosen by `part`.

## Runs

| run | question | bounds |
|---|---|---|
| scan | modes, faults, forces, inputs, outputs, power, reads and termination over every order of host calls; the refinement of the lifecycle | 10 images (a counter, a sealed-in branch with a one-shot, branches in branches, a division, arithmetic, some that load refuses or that fault), after each load a scan, or one that faults and another, forces on one tag, DINT in -2..1 |
| history | timers, counters, one-shots over time | 7 images, 3 scans 1 or 3 half-milliseconds apart, one kind of device fault |
| sim | the simulator, calm and not | one client and its subscribers, two workers |
| parts | nine parts, each by itself | below |
| cut_image, stale_slot, force_sticks, sim_two, alarm_owed, route_loss, shutdown, malformed | a statement of the documents | the smallest instance that shows it |

Why the bounds are enough. *Scan*: a load is
followed by one scan, or by two of which a fault ends the first, with stops, recoveries, forces and writes of every kind between them, which is what
"a scan after a fault and a recovery" needs, and any number of programs follow
one another; the images are chosen so that every opcode group, every fault and
every kind of refusal the model tells apart occurs, and a DINT of four values
has both wraps, both zeros of a division and the negation that overflows.
Several scans without a fault are the subject of *history*.  *History*: three scans are a rise, its absence and
a second rise; the uneven gaps make elapsed times that are and are not whole
milliseconds. *Simulator*: two workers are what a restart needs (an old one
that may still run, a new one), and a third would only repeat it; OneWorker is
checked with one client (and its subscribers) because with two clients it
fails, which is the finding. *Parts*: the images come in four sizes around the
alignment allowance, so that a load reuses, replaces or refuses the arena; the
alarms are one for every kind of condition, with delays up to two ticks over
six, enough for a flicker, a relapse and a second activation; the route takes
up to four calls, two at a time, over two ticks, with good and poor readings:
enough for two calls that cross in every order of their writes and fail at any
of them, and for a call that repairs what they leave, inside and outside the
deadband and the interval; the queue holds three samples of five and a batch two, so
that it fills, drops, splits batches and meets the sentinel in every place; the
supervisor has two programs that share a tag under different ids, and one of
which has another tag under the other's id, and
reconnects for ever or gives up after the second failure; a ring of three wraps
around in every position of full and empty; streams of 7 and 12 bytes hold one
frame and more than one, a frame has 5 to 8 bytes, and words of 16 values let a
length wrap; three requests, the connect's own among them, over two ids, so
that an id comes back while an older request still has it; 24 arenas (bases off
and on alignment, sizes from too small to ample) against 48 shapes of image in
a `size_t` of 64 values, where sums wrap; and files whose directory has two
sections, empty, overlapping, beyond the end or wrapping in a word of 8.

What they show (the definitions are commented with what each is about):
a scan leaves the machine as the documents say except for the findings below;
a fault never tears a rung's end; no order of host calls leaves FAULTED for RUN;
what a consumer is shown is the whole of a runtime's state; no load that is
accepted puts one array over another; the simulator serializes everything but
its own start; an alarm's delay, version and first acknowledgement hold; a
route's call that crosses no other and has no poor reading keeps the interlocks
safe, and one that completes repairs what failed and crossed calls left; the historian
loses nothing it accepted and does not count; the supervisor returns from every
mixture of failures; an answer reaches its own request even when ids come back;
the C stream gives back what was sent, however it is cut, as far as the first
frame it cannot take; the node's ring is a queue.

In the run `parts` every action of every part occurs (TLC's statistics of each
part run alone). CHECK_DEADLOCK is FALSE where the bounds (scans, clock,
samples) or a close end a behaviour.

### Findings

* `cut_image` - a fault in the middle of a rung leaves `code_size` cut at that
  rung; after recovery later scans run only up to it (`rsm_runtime.c:169`).
* `stale_slot` - RES only finds state slots up to the end of its own rung
  (`rsm_runtime.c:136`): a TON in a later rung goes on counting from the time
  before the reset.
* `sim_two` - two starts make two workers (`simulation.py:35`).
* `alarm_owed` - after one acknowledgement an alarm never again owes one
  (`alarms.py:39`).
* `route_loss` - a poor reading is written before the interlocks are withdrawn
  (`routing.py:27`); a time-out that runs between the writes of an update gets
  its substitute permitted (`:28`); and a route whose writes fail half-way stays
  GOOD, or STALE, with its count of failures at 0 (`:38`).  The documents say
  that every intermediate state is safe and that partial failure makes the
  route bad.
* `shutdown` - a connection reset makes the supervisor's stop raise, and the
  historian is not closed (`service.py:43`); and before that, a controller whose
  program changes under its connection stays ONLINE with the runtime ids of the
  old program, as nobody looks at the heartbeat's answer (`supervisor.py:20`).
  RuntimeIdsCurrent, which holds, is about the program installed last.
* `force_sticks` - a scan hands `read_input` the effective value of an input, and
  a device without a reading for the endpoint leaves it there: the forced value
  becomes the input's underlying value and stays when the force is cleared
  (`rsm_runtime.c:168`, against ADR 0008).
* `malformed` - a frame that cannot be decoded ends the receiver of an RSM Link
  client: the pending requests are told, but the client stays CONNECTED and the
  connection open, so later requests are sent and each waits for its whole
  timeout (`client.py:24`).

Noticed while reading, without a run.  Core: the average scan time wraps when a
scan is shorter than the average (`rsm_runtime.c:171`); scans less than a
millisecond apart never advance a timer (`:134`); a fault leaves OTEs on in the
tag table (`:127`); an instruction between BRANCH_BEGIN and the first lane
passes the validator and faults when it is run, and a branch of 256 lanes is
refused as one of none (`:86`).  Binding and worker: `set_mode(FAULTED)` is
accepted by the runtime and then raises on the table of states
(`simulation.py:29`).  RSM Link client: the good frames before a malformed one in
the same chunk are lost with it (`client.py:22`); a payload that cannot be parsed
takes its request off the table without telling it (`:22-24`); an end of stream
clears the table without telling anybody (`:27`); the drain of a request lies
outside its time limit, and a failure there leaves its id behind (`:31`).  SCADA:
a supervisor that connects again replaces its client without closing it
(`supervisor.py:15`); an update with sequence 0 is never passed over
(`registry.py:34`).  Node: the program prints that safe outputs are applied and
has no runtime to apply them with (`main.c`).

## Fairness

* Core, `WF_vars(ScanStep)`: a scan is one C function on one thread; once called
  it goes on.  Nothing obliges the host to call anything.
* Simulator, weak fairness of every thread's `Step`: the operating system runs
  every thread that can run.  None is assumed between contenders for a lock, so
  no property relies on a lock being handed round.
* Historian and supervisor, weak fairness of the tasks: the event loop runs
  every task that is ready.  The controller, the connection and the callers of
  stop and enqueue are under no obligation; `BackOnline` asks for a controller
  that stays up, which is its hypothesis.

## What is proved

Every theorem is for all constants that satisfy the named assumption of the
module; the assumptions are what the decoder, the configuration or Python's
types guarantee, and TLC evaluates each one in the runs.

* `RsmRuntimeProofs`: `Inductive` is TypeOK, ScanOnlyWhileActive,
  CutAtRungBoundary, the place a scan is at (`ScanPlace`) and that between scans
  no code size is saved.  CutAtRungBoundary alone is not inductive: what the
  rung loop restores is the size it saved, so the saved size has to be a
  boundary too, and which rung is running has to agree with where the
  instruction pointer is.  From it: TypesHold, ScansRunOnlyWhileActive,
  CutsAreRungEnds, WholeImageRuns, FaultsLatch, OutputsChangeOnlyInRun, and
  RuntimeRefinesLifecycle (initial states and steps map to those of
  `RsmLifecycle`).  TypesHold covers every instruction, so it says that no DINT
  leaves its width whatever the width is.  Each of the next is inductive
  together with `Inductive`: ForceCountHolds (the forced tags are among the
  image's, hence finite, and each force or clear moves the cardinality as it
  moves the count), OutputsShowTags (only the end of the rungs leads to the
  outputs, and nothing but their writes happens there) and
  TimersAndCountersCohere (an invariant of one tag, kept by each of the seven
  ways to write to it; that an image loads with its flags clear, as the decoder
  does, is part of `ImageAssumption`).  InputsAreHeld is an action property: the
  operands that validation accepts name no input as a destination, and timers
  and counters are never inputs.  StoppingDeEnergizes needs that without a fault
  the pass over the coils covers the whole stream, which `Inductive` says.

  The branches a scan has open are compared with the validator's pass
  (ScansFollowValidation): `BranchesAgree` says that at every instruction the
  frames of the scan, open or between lanes, are the branches that
  `BranchScan` has open there.  The pass is a recursive function of the
  position; that such a function exists and what it is at each position follow
  from the least position at which it would fail (PassExists, BranchPass), in
  place of an induction.  PowerFlowsRight follows: a lane begins only in a
  frame that an enclosing lane opened.  RungsStayInside says that a rung runs
  between its own bounds and within the code it restores.
* `RsmObserverProofs`: what every kind of step does to tags and slots is stated
  once (StepKinds, ExecuteKinds) and used for both histories.  TimersNeverEarly
  rests on `TimersTrack`: a valid slot belongs to an enabled timer whose
  accumulator fits between the enablement and the slot's time, and in RUN and
  TEST a slot without a time belongs to a timer at rest.  RisesAreReal rests on
  `EdgesTrack`: in RUN and TEST an edge memory or a storage bit that is clear
  has been clear by a run without power or a reset, as far as the scans reach
  (`Reach`: the cut of the code, or what it will be restored to).  Beyond that,
  after a fault, a prescan does not set the bits, and no scan runs them either:
  RungsStayInside is what makes the invariant enough.  SnapshotsShowState
  says that the records determine the tables; it needs that these are functions
  throughout (`Tabular`) and that a composite value is told by its members.
* `RsmLayoutProofs`: `PlacedInv` says that an image that is loaded has a layout
  whose sums did not overflow, had room in its arena and lies where the layout
  places it.  The lemmas carry the arithmetic: the checked alignment and sum are
  the exact ones (Align8Exact, WithExact), and so the arrays of such an image
  follow one another, aligned, below the arena's end (PlacedApart, RoomInside).
  From them ArraysStayApart and RequiredIsEnough, for every address, size and
  width of size_t.
  The search for a slot's record is a recursive function of the span left to
  search.  SearchExists gives one that solves its equation, SearchEnds shows
  that every solution ends where the smaller slots end, by the least length of a
  span for which it would not, and StateForFinds that a slot finds its own
  record and no other.  LayoutIsSafe puts all of it together.
  EverySectionFound counts: a valid directory has as many entries as there are
  kinds and no kind twice, so every kind is there, and a map between finite sets
  of equal size that is one-to-one is onto.
* `RsmSimulatorProofs`: `Serialized` is types, that each thread's call fits
  where it stands, that each lock is held by exactly the thread between taking
  and leaving it, and that the diagnostics a scan returns are its own.  For any
  number of clients and workers; from it LifecycleKept.  For one client, any
  number of worker objects, subscribers that stop the simulator and joins that
  give up, `Alone` adds that a live worker is the current one, that a start in
  progress has found none, and that past the join of a stop there is none: from
  it OneWorkerForOneClient, StopsLeaveNoWorker and RunsAreReported.  The
  hypothesis of one client is needed: `sim_two` is its counterexample.
* `RsmBindingProofs`: `Owned` is types, the agreement of Python's buffers with
  the core's pointers, and that an object without a program rests in PROGRAM.
  From it BindingRefinesLifecycle.
* `RsmAlarmProofs`: VersionNamesState needs that no version shown lies ahead of
  the alarm's (`Versions`), ObligationShown that only an acknowledgement
  relieves an alarm that is about to return (`Owing`), and the action property
  DelaysKept that a pending alarm's deadline lies a whole delay after the
  evaluation that first found its condition (`Pending`).
* `RsmScadaProofs`: UncrossedCallsStaySafe and UncrossedCallsEndTrue hold for
  any number of calls at once, readings of any quality and any failures.  Their
  invariant `RouteInv` says that an uncrossed call under way is the only one,
  and for each list of writes it may still have to make what the destination and
  the route hold (`Progress`); of crossed calls it says only that their writes
  are of the destination's tags.  SamplesAccounted and CloseLosesNothing
  rest on `HistorianInv`: the queue and the samples stored grow in the order in
  which the samples were offered, every accepted sample is settled (stored,
  failed) or still queued and the settled ones come first, the accepted and the
  dropped ones add up to those offered, and past the join of a close the samples
  accepted before it are settled.  The end of a batch is found as
  the least position with a property, in place of an induction.
  RuntimeIdsCurrent is not inductive alone.  What is dropped on a new program is
  found through the tags, so every id the registry holds must be that of a tag
  (`IdsHaveTags`).  With it and the types, both RuntimeIdsCurrent and
  OnlineIsFresh hold for any number of programs, whatever tags they share.
* `RsmLinkProofs`: QueueImplementsFifo reads the ring from its first index
  (`View`) and shows that a push appends to that sequence and a pop takes its
  head, for every capacity; StreamIsFaithful that the bytes buffered begin where
  the frame after those handled begins, and that the stream refuses only what is
  malformed or exceeds its capacity;
  RequestsGetTheirAnswers that requests in the table have ids of their own and
  that an answer under way under an id is due to the request that holds it.

Every safety property of a passing run is so proved.  Only model-checked are
the liveness properties (ScanReturns, StopReturns, CloseEndsWorkers,
CloseReturns, BackOnline, StopEnds) and the liveness part of ImplementsLifecycle,
which are out of the prover's reach; and, by their nature, the violations of
the findings.

## What is not modelled

REAL values and their faults; time and overruns of the simulator; timestamps,
messages and listeners of the SCADA server; the bytes of RSM Link's frames, of
which the models keep the length, the id and whether they decode; routes without
some of their companion tags; the overflow and underflow bits of counters, which
the model sets but no property is about.  `PROJECT.json` gives the reason for
every part left out.

## Plan

1. The service's write and force paths over supervisor and registry (a state
   read before an await), and the web socket's slow clients.
2. Legacy remote session and device runtime (`plc_ascii/remote.py`,
   `plc_runtime/`): chunked download, commit, mode; the abstract protocol both
   implement.
3. Legacy engine (`plc_ascii/engine.py`) and its portable copies as pure
   functions of a scan, compared with each other over bounded programs.
4. The compiler's lowering, against `RsmImage`'s reference of a branch.
5. Proofs: what holds in place of the findings (which state a reset clears,
   what a scan runs after a fault), as theorems of the same models.

The runs and properties in use are near what one project can check in
reasonable time; the plan replaces `stale_slot` and the weaker properties of
`history` as it needs room.
