# Verification of mechanics-core

mechanics-core runs JavaScript jobs on a pool of worker threads. This directory
holds TLA+ models of it, the TLC configurations that check them on small
instances, and TLAPS proofs for every instance. Paths below are relative to
`src/src/internal/`.

## The system and its parts

| Part | State | Operations | Talks to |
|---|---|---|---|
| Pool calls (`pool/api.rs`, `pool/worker.rs`) | a deadline, a reply channel of capacity 1 and a cancellation flag per call | `run`, `run_nonblocking_enqueue`, `stats` | job queue, handle map, restart-blocked flag |
| Worker threads (`pool/shared.rs`) | a runtime, a shutdown channel and a ready channel per thread | startup, receive, cancellation check, run, early reply, panic report, exit event | job queue, reply channels, exit channel |
| Supervisor (`pool/api.rs`, `pool/shared.rs`) | the handle map, `closed`, `restart_blocked` | exit event, tick, `reconcile_workers`, `spawn_worker` | workers, restart guard |
| Construction and drop (`pool/constructor.rs`, `pool/drop_impl.rs`) | none of its own | `new` with its failures, `PoolConstructor::drop`, `MechanicsPool::drop` | all of the above |
| Restart guard (`pool/restart_guard.rs`) | a deque of timestamps | `allow_restart`, snapshot | supervisor, `stats` |
| Metrics (`pool/metrics.rs`) | gauges, counters, a busy count | `record_*`, `WorkerBusyGuard` | calls, workers |
| Event loop (`executor.rs`) | promise, generic, timer and async queues, deadline | enqueue, drain, wait, stop | script runtime |
| Script runtime (`runtime.rs`) | realm, hooks, limits | `run_source_with_early_reply`, cleanup | worker, event loop |
| Endpoint call (`http/endpoint/execute.rs`, `http/transport.rs`, `http/headers.rs`) | attempt, remaining budget | attempts, retry sleep, body limit, error classes | HTTP client |
| URL and URLSearchParams (`runtime/builtins/url.rs`) | a URL, a list of its own or a binding to a URL | the list's methods, the URL's setters | scripts |
| MIME (`runtime/builtins/mime.rs`) | none | `compose`, `parse` | scripts |
| Other builtins (`runtime/builtins/`, `runtime/buffer_like.rs`) | none | conversions over external crates, random values, logging | scripts |
| Configuration, jobs, errors (`pool/config.rs`, `job.rs`, `error.rs`) | none | range checks, serde | all |

What is hard about it: several threads remove and add handles of one map; the
supervisor acts on flags and counts it read earlier; a call's timeout races the
worker that takes its job and the reply it sends; a job can answer early and
fail later; workers are lost at any point and may be replaced only at a limited
rate; the pool may be dropped at any of these moments. Within a worker, the
event loop mixes timers, promises, in-flight requests and a deadline, and an
endpoint call spends one time budget over several attempts. The list behind
`url.searchParams` exists only as text between two calls, and a MIME message
must be found again in the text it was turned into.
`PROJECT.json` lists these hazards with the lines where they bite.

## Modules

- **WorkerPool** models calls, queue, workers, supervisor, construction and
  drop together, since the difficulties are in their interleaving. Every lock
  section, channel operation and atomic access that another thread can observe
  is a step.
- **RestartRate** is the restart guard as its user sees it, without a clock:
  how many attempts are remembered and how many of those have left the window.
  `WorkerPool` instantiates it.
- **RestartGuard** is the guard as written: timestamps, a deque and a clock. It
  implements `RestartRate` under the mapping `attempts <- Len(restarts)`,
  `expired <- Popped(restarts, now)`.
- **PoolMetrics** models the counters and gauges over the steps of the pool
  that record them, and only those.
- **EventLoop** is the job executor of `executor.rs`; **ScriptRuntime** extends
  it with `run_source_with_early_reply`. **JobRun** is what the worker thread
  relies on: at most one reply, and an outcome that says whether it was made.
  Its steps are those `WorkerPool` takes for the script of a job, and
  `ScriptRuntime` implements it.
- **EndpointTransport** is one attempt of an endpoint call, over the built-in
  HTTP client or one the embedder plugs in; **EndpointCall** extends it with
  the builtin, its options and the retry loop.
- **SearchParams** models `URL` and `URLSearchParams` with the query as text;
  **ParamList** is what they promise, operations on plain lists. The first
  implements the second.
- **MimeLines** models the encodings of a MIME message, on bytes and words;
  **MimeMultipart** extends it with compose and parse on trees of messages.
- The **MC** modules are those TLC runs.
- **WorkerPoolProofs** holds the type theorem of the pool and the proofs about
  threads, their handles and the drop; **WorkerPoolJobProofs** extends it with
  those about jobs. **PoolPartsProofs** holds the theorems about the restart
  guard and the metrics, **ScriptRuntimeProofs** those about a run and its
  timers, **EndpointCallProofs** those about an endpoint call,
  **SearchParamsProofs** those about `URLSearchParams`, **MimeLinesProofs** and
  **MimeMultipartProofs** those about MIME: the encodings, and messages with
  parts. `RestartGuard` calls its specification `GuardSpec`, so that one proof
  module can extend it and `PoolMetrics`.

### How WorkerPool corresponds to the code

A call and its job are one element of `Jobs`, because each call makes its own
job, reply channel and flag. `cpc` is the position of a call in `run` (`mode`
"run") or `run_nonblocking_enqueue` ("try"); `wpc` the position of each worker
in its closure; `sup` that of the supervisor; `spc` that of the one
`spawn_worker` call that can be in progress; `owner` that of the thread in
`new()` and later in `drop`. `map` is the key set of `shared.workers`.

- Reply channel: `reply[j]` has at most one element. A send waits while it is
  full and is dropped when the caller is gone (`SendReply`).
- Reaping is two steps, collecting ids under the read lock and removing them
  under the write lock (`ReconcileReap`/`ReconcileRemove`,
  `CallReap`/`CallRemove`). Joining finished handles is immediate.
- A script is a choice of outcomes: the main export replies Ok or an error and
  the worker goes on polling leftovers (`MainReplies`, `TailDone`), it ends
  without a main result (`MainNotReplied`), or it panics (`JobPanics`).
- Faults are panics in a job, in the loop outside the inner `catch_unwind`, a
  failed runtime initialisation, and threads that cannot be created. Panics
  unwind, as in the debug and test builds: the release profile aborts the
  process, after which no state is left to speak about.
- Time is a flag per call (`passed`) and `expired` of the guard. Which of
  `enqueue_timeout` and the remaining run budget is shorter is a free choice.
- `drop` takes `&mut self`, so `BeginDrop` waits until no call is in progress.
  The PoolClosed answer is therefore modelled and never taken.
- The failed `new()` drops the uncommitted `PoolConstructor`, whose steps are
  those of `MechanicsPool::drop` without a supervisor (`sup = "none"`).
- `shared` owns both ends of the job channel and of the exit channel, so the
  "disconnected" arms are unreachable and left out. A worker always sends on
  its ready channel before it ends, which leaves out "exited before startup
  completed" too.
- `runs` and `settled` are history variables: how often a job's source was
  started, and what its main export replied.

Left out of the actions: metrics, log lines, error texts, and the restart
reason, which only labels a counter.

### RestartGuard

`now` is the monotonic clock, which `Tick` advances. `AllowRestart` is
`allow_restart` with its pop loop (`Popped`, `Prune`). `admitted` is the history
of admitted timestamps and `answer` what the last call at this instant returned.

### EventLoop and ScriptRuntime

One thread runs them, so the interleaving is between the loop, the JavaScript it
calls and the clock. `pc` is the position in
`run_jobs_async_until_then_to_quiescence`, `rpc` the one in
`run_source_with_early_reply`, `call` the JavaScript being executed. While it
executes, it may enqueue jobs of every kind, cancel timers, settle the main or
the module's promise and reject promises, in any order, before it returns or
throws. Jobs of one kind are therefore interchangeable, and a queue is its
length; `generic_jobs` keeps its order because the errors of oversized timers
and of unknown jobs are queued there. Timers are counted per instant, cancelled
ones apart, since they stay in the map until the next drain. `due` and `batch`
are what a drain has taken and not called yet. Leaving the loop drops them and
the futures in flight (`Exit`).

The two loops of a run, `ctx.run_jobs()` after the module and the one that
watches main, are the same steps with `until` false and true. `Refuse` stands
for the three refusals before anything is installed. Instants are whole
milliseconds, as the code rounds them.

### EndpointCall and EndpointTransport

Calls share no mutable state, so one call is modelled. The clock counts half
milliseconds, which makes the truncation in `remaining_ms` visible. An attempt
goes through `fresh_transport` (which takes time, up to `MaxSetup`), the send,
the headers and the body; the network may answer or fail with any error of the
library at each, or stay silent until the timeout. A custom client may answer
anything its trait allows, at once or never, with bodies and lengths of its
choice. Endpoints are records of the settings the loop reads. A retry policy's
delay is any element of `RetryDelays`: its backoff formula belongs to
`mechanics-config`. The error after the loop, "attempts exhausted without terminal
response", has no action: `AttemptsBounded` says that the loop never ends that way.

### SearchParams

A URL is its query and the rest. A query is a sequence of tokens, each a
character or an escape. `lists` holds the pairs of the objects with a vector of
their own; for a URL it is a history variable, the list the script last left
there, which the code never stores. The form encoding is the `url` crate's,
written from how `url.rs` uses it: space and `+`, the separators, `%`, `?`, and
two letters that are no hexadecimal digits, so that `%` followed by letters is no
escape. `ParamList` states what each method must return by the places its pairs
come from; `SearchParams` computes it as the code does, pair by pair.

### MimeMultipart and MimeLines

In `MimeMultipart` a raw message is a sequence of lines, and a line knows which
boundary it contains. A script builds trees from leaves, some of which hold a
line of another multipart message, wraps them with or without a boundary of its
own, composes one and parses the result. The messages are a table, in which a
message names its parts by their indices and a part is older than what it is in,
so the code's recursion over a tree is a recursive function on indices. `Hash`
stands for the hash in a generated boundary. In `MimeLines` a byte is a symbol, a
header line the lengths of its words, and the widths 75, 76 and 78 are constants.
A loop over a text is a recursive function of the text that is left and, where
the code keeps one, of the column.

### PoolMetrics

Reading a value and publishing it are two steps wherever the code does not hold
a lock over both; `seen` is the value a thread has read and not yet published.
Where `WorkerPool` has many steps of no interest to the metrics, there is one.

## Runs

| Run | Instance | Shows |
|---|---|---|
| `pool_calls` | 2 calls, 1 worker, queue 1, 1 restart, 1 fault | types, and what callers are told: `AtMostOnce`, `RefusedLeavesNothing`, `MainReplyWins`, `NoStartAfterReturn` |
| `pool_workers` | 2 calls one after the other, 2 workers, 1 restart, 3 faults | threads and handles, which callers, supervisor and spawn add and remove at once: `BoundedWorkers`, `HandlesAccountedFor`, `CleanTeardown` |
| `pool_recovery` | 1 call, 1 worker, 1 restart, 2 faults, all fair | `PoolRecovers`, `DropCompletesWhenSeen` |
| `pool_queue` | 2 calls one after the other, 1 worker, 1 restart, 1 fault, callers fair | `EveryCallReturns`; `QueueDrains`, whose premise is that the pool's threads run too |
| `pool_drop` | 1 call, 1 worker, no fault, all fair | `DropCompletes` fails |
| `restart_guard` | window 2, maximum 2, clock to 9 | `RateBounded`, `RefusedOnlyWhenFull`, `DequeIsRecentHistory`, `ImplementsRate` |
| `restart_snapshot` | the same | `SnapshotCountsWindow` fails |
| `pool_metrics` | 3 calls, 2 workers and 1 replacement, queue 1 | `BusyCountsGuards`, `AcceptedOrCompleted`, `WorkersTotalIsExact` |
| `script_runtime` | 1 job of each kind queued, timers now or 2 later, deadline after 2, all fair | `CleanBetweenRuns`, `ReplyIsMainResult`, `QuietRunReplies`, `TimersInOrder`, `ImplementsJobRun`, `RunEnds` |
| `endpoint_call` | 13 endpoints, both clients, up to 3 attempts, silent network, all fair | `WaitsWithinBudget`, `AttemptsBounded`, `LimitIsExact`, `ContentTypeMatchesBody`, `OnlyTransientRetried`, `CallSettles` |
| `search_params` | 1 URL, 2 objects, lists of 2 pairs | `QueryHoldsList`, `ImplementsParamList`, `WritesLeaveCanonicalQuery` |
| `mime` | texts of 5 bytes, lines of 4, header lines of 6 words; trees of up to 5 messages, 3 parts each | `QpRoundTrips`, `LinesFit`, `HeaderValueRoundTrips`, `FoldKeepsWords`, `RoundTripsWhenClear`, `GeneratedBoundaryIsFree` |

**Bounds.** `MaxFaults` bounds the faults, `MaxSpawns` the worker ids handed
out, `MaxTime` the clock. `MaxSpawns` is large enough in every configuration
never to disable a spawn that is requested: no reachable state has a requested
spawn and `nextId = MaxSpawns`. Two calls on a queue of one are the smallest
instance in which a call waits, times out or is refused while another is
served. Three faults and two calls are what it takes for a caller to find a
finished thread in the map while restarts are blocked: a job kills its worker,
the replacement cannot be created, and the next one fails to start while the
second caller looks. Two workers are needed for a supervisor that counts one and
joins another. `pool_workers` has both, and pays for it with three restrictions:
one call is in progress at a time, no call runs into its deadline (concurrent
calls and deadlines are `pool_calls`' case), and one restart fits the window. It
drops the history variables from the state (`VIEW`; no step reads them).
`pool_queue` needs a second call because the first one's job is what the worker
dies of; its specification makes the calls one after the other, which restricts
only steps without fairness. Two faults with one restart in the window make the
guard refuse. Nine clock units are more than three windows, so timestamps leave,
stay at exactly one window's distance, and are followed by refusals. Calls are
interchangeable, so `pool_calls` and `pool_workers` use their symmetry; the runs
with liveness properties do not.

`MaxJobs` bounds the jobs of one kind a script keeps queued, not how many it
queues over a run: one of each is enough for every order of kinds. With three
instants a timer can be due now, later or beyond the clock. A run may begin twice
within `MaxInstant`, so what one leaves can be seen by the next. `MaxRejections`
bounds the counter. In `endpoint_call` `MaxInstant` stops the clock after the
longest finite deadline, `ClockMax` is where the code's `checked_add` fails, and
`MaxSize` bodies reach beyond the limit; the settings vary a few at a time, the
timeouts with three attempts and the others with at most two. Two objects on one
URL are the fewest with which one sees the other's change; names and values
include the separators, `+`, the space and the escape character, and an assigned
query has an empty name and an empty segment. `MaxPairs` bounds a list,
`MaxNodes` and `MaxParts` the trees: four messages nest a multipart in a multipart
with a sibling. The line widths are small so that short texts reach several lines
with a token ending before, at and after the edge. Three calls on two workers and
a queue of one fill the queue while both workers publish; ids beyond `Workers`
would repeat the replacement.

**Deadlock.** The pool runs do not check it: a dropped pool, or one that nobody
calls, has stopped. That nothing waits forever is stated by the liveness
properties instead. The guard's run does check it, and so do `script_runtime` and
`search_params`, which never stop. An endpoint call, a composed and parsed
message and a text at its bound have ended.

**Fairness.** Weak fairness for each thread (the operating system schedules it),
each worker's job included (execution limits stop a script), for the window and
for each call's deadline (clocks advance). None for calls, drops and faults.
A blocked `select` with several ready arms is one weakly fair step, no arm is
preferred; the properties hold without assuming that the arms take turns.
`pool_queue` assumes only that callers run; the fairness of the pool's threads
(`PoolFairness`) is a premise of `QueueDrains` alone. `script_runtime` assumes that
the loop's thread runs, that the clock advances and that a JavaScript call
returns, which the loop, recursion and stack limits are for; futures need not
complete. `endpoint_call` assumes that the worker polls its futures and that its
timers fire, and nothing of the network.

## Findings

1. **Drop may wait forever.** `reconcile_workers` reads `closed` once
   (`pool/shared.rs:353`). If drop marks the pool closed and signals the workers
   after that, the reconcile can find them finished, and spawn replacements
   that no one signals; drop then joins them without end. A tick of the
   supervisor at the wrong moment is enough. `pool_drop` finds the trace;
   `DropCompletesWhenSeen` shows that the drop does finish whenever the
   supervisor has not yet made its last check when the flag is set.
2. **`restart_attempts_in_window` counts attempts outside the window.** The
   snapshot is the deque's length, and only `allow_restart` prunes the deque.

### Observed while modelling

These are read off the code and the models; no run is kept for them.

- A settled main result can be lost. The loop looks at main only at the top of an
  iteration. A job that throws in the same drain, or the deadline passing between
  the result and the look, makes the run end as `MainNotReplied`, of which
  `runtime.rs:40` says that the script never produced a result. `QuietRunReplies`
  says when this cannot happen.
- Unhandled rejections are not fatal once the module is evaluated, although
  `docs/behavior.md:60` says so. The code's comment explains why.
- The error of an oversized timer cannot be caught. It is thrown by a job of the
  loop and ends the run, where the comment (`executor.rs:345`) and the changelog
  speak of a catchable `RangeError`.
- The gate before an attempt closes up to a millisecond early, because
  `remaining_ms` truncates (`http/endpoint/execute.rs:100-104`).
- A multipart message that is the only part of another gets its parent's boundary
  when neither has headers, and does not parse back
  (`runtime/builtins/mime.rs:533-587`); `RoundTripsWhenClear` excludes that case.
- The busy gauge and the queue-depth gauge can stay wrong until the next job,
  because a value is read and published in two steps (`pool/metrics.rs:103`,
  `pool/api.rs:255`). The count behind the busy gauge is right
  (`BusyCountsGuards`), and so is the total (`WorkersTotalIsExact`).
- `docs/behavior.md:367` gives 10 s as the default execution time and
  `job.rs:201-210` has 30 s; a folded continuation line may have 79 columns, since
  the space before it is not counted.

## Proofs

All theorems hold for every value of the constants that satisfies the named
assumptions: `Jobs` is finite (in `PoolMetrics`, `Calls` and `Workers`), counts and capacities are positive naturals
(`MechanicsPoolConfig::validate` refuses zero), bounds are naturals; delays,
sizes and timeouts are naturals, the clock stops before it overflows, and
endpoints are records of the right type with at least one attempt; URLs and
objects are different things, and the script's texts, of any length, are made of
the characters of the model. For MIME, a text is made of the bytes that have a
name, a quoted-printable line holds an escape (`QpWidth >= 3`), the other widths
are positive, and a message without parts has no multipart type; the hash is any
operator, and leaves, boundaries and word lengths are any sets.

- **TypeCorrect**: `Spec => []TypeOK`. `StateOK` is not inductive alone: that
  `missing` never becomes negative and `sid` is a worker's id needs `SpawnInv`,
  which says who is calling `spawn_worker` while one is in progress. The flags
  are treated apart from the rest.
- **JobsRunAtMostOnce, RefusedCallsLeaveNothing, MainReplyAlwaysWins,
  NothingStartsAfterReturn** rest on `JobInv`. Its first part (`PlaceInv`) says
  that a job is in one place: not both queued and held, queued once, held by
  one worker, and only by a worker that is working on it. Its second part
  (`ProgressInv`) says what has happened to a job in each place: nothing before
  it is queued, not started while queued or taken, not answered before its main
  export settled, and afterwards the channel or the result holds that first
  answer. Its third part (`GivenUpIsCanceled`) says that a call that returned
  while its job is still waiting has set the flag. The proof has a lemma for
  each way a step treats a job (stays, is queued, is taken, is answered, is
  released), and one step per action that cites them.
- **NoThreadDetached, WorkersBounded, DropLeavesNothing** rest on `HandleInv`, in
  three parts. `ThreadInv` is `HandlesAccountedFor` with what makes it
  inductive: ids are used once (`IdInv`), and whoever takes a handle out of the
  map for good knows that its thread has left the loop (`LeftInv`): a reap
  collected it as finished, its exit event was sent after the loop, or it
  reported a failed start. These are facts read earlier and used later, and
  they stay true because a thread never returns to its loop. `BudgetInv` says
  that the handles and the workers still to be started are together at most
  `WorkerCount`, where the thread being started counts as still to be started
  even when its handle is already in the map; this is why counting once and
  then spawning in a loop does not overshoot. `DropInv` orders the teardown: a
  drop begins without calls in progress, nothing is queued after the queue was
  drained, and the workers are joined after the supervisor has ended, so that
  nobody spawns one more. A worker whose handle is in the map, or with the
  `spawn_worker` call in progress, is in the budget; one that is being joined
  does not serve any more.
- **BusyCountExact, TotalsAgree, WorkersTotalExact** rest on `MetricsInv`: the
  types, with no `Canceled` reply in any channel because a job's flag is set by
  a call that returns at once; the busy counter as the number of workers between
  the two halves of the guard, and a worker in its loop always tracked
  (`BusyInv`); and the two other statements themselves. Each guard or call
  enters and leaves the set that is counted in the step that changes the number.
- **GuardTypes, RestartRateBounded, RefusalJustified, DequeTracksHistory** rest on `IInv`:
  timestamps are sorted and the deque is the tail of the admitted history. An
  admitted attempt then finds the one `MaxRestarts` places earlier already
  dropped, hence more than a window old.
- **GuardImplementsRate**: initial states map to initial states, a clock tick
  maps to `WindowElapses` or a stutter, and `allow_restart` to
  `RecordRestartAttempt`. This is what allows `WorkerPool` to use the clock-free
  guard.

- **NothingSurvivesRun, RunRepliesMainResult, RuntimeImplementsContract** rest on
  `RunInv`, in three parts. `ControlInv` ties the loop's position to the
  runtime's: which loop runs in which phase, and what may be executing there.
  `CleanInv` says what is already empty in each phase: outside a loop nothing is
  taken or in flight, before `Begin` and after `Cleanup` no queue holds anything.
  `ReplyInv` says that there is a reply exactly when the loop was stopped or the
  run is past it, and that it agrees with main. The refinement maps a run's
  phase and reply to `JobRun`'s stage; only `Begin`, `Refuse`, the two steps that
  reply, and `Cleanup` are not stutters.
- **QuietRunsReply** adds `SeenInv`: the loop of main watches it, has replied once
  it is stopped, and cannot run out of work with a settled main it has not
  replied for. It needs `GenericInv`, that only jobs and error jobs are queued,
  because the error a queued job throws is how the loop returns.
- **TimersFireInOrder** rests on `TimerInv`: every timer called is no later than
  one taken, and one taken no later than one in the map, because a script can
  only add timers at or after the present.
- **EndpointTypes, CallWaitsWithinBudget, CallAttemptsBounded, CallLimitIsExact,
  CallContentTypeMatches, CallOnlyTransientRetried** rest on `IInv`: the types;
  the requests sent so far against the attempt and the phase (`CountInv`); the
  timeout of an attempt against the time it was computed and the deadline
  (`BudgetInv`); class, cause and size of an answer against each other
  (`AnswerInv`); and the body against the endpoint's type (`BodyInv`).

- **RoundTrip**: parsing the encoding of a list gives the list. The library's
  induction theorems take an operator, which no installed prover can
  instantiate; here the property is a set (`NatSetInduction`, `SeqSetInduction`,
  from the least-number principle), and a recursive function is shown to exist,
  to be typed and to obey its equations from the function of one step
  (`RecursionExists`, `FoldOfFront`). The argument: a character is written as a
  token that is no separator and is read back as itself (`CharRoundTrip`), so a
  pair's segment has one `=` and no `&` (`SegmentParts`), so splitting the joined
  segments gives those segments (`SplitJoin`).
- **QueryAlwaysHoldsList, CanonicalWrites, ParamsImplementList** rest on
  `PairsInv`: the types, an object bound to nothing but its own list or a URL,
  and `QueryHoldsList`. A method that writes then finds the list of its object
  in its snapshot, and the rest is about lists: `retain` selects the places it
  keeps in their order (`RetainSelected`), and inserting each pair before the
  first place from which on all names are greater sorts and is stable
  (`SortPairsSorts`), because `Before` is a strict total order (`BeforeTotal`,
  `BeforeTransitive`).

- **QpAlwaysRoundTrips, LinesAlwaysFit, HeaderValuesAlwaysRoundTrip** are about
  pure functions of the text; the invariant, `LinesInv`, only says which texts a
  script can build. Every encoder and decoder is a recursive function, so its
  equations must be earned: a function on texts whose value depends on shorter
  texts only exists and is typed (`SolutionFound`,
  `TextSolutionFound`), and `QpEncodeFacts`, `QpDecodeFacts`, `WrapFacts` and
  their like derive the equations. Induction on the text follows
  (`TextInduction`). For the round trip the statement is about every column at
  once, since the column decides where a soft break goes. It must also cross
  `normalize_raw_message`, which turns the CR LF of a soft break into LF: a
  break is read as nothing in both forms, an escape starts with the one symbol
  that is never written as itself, and normalising touches neither. For the
  lengths, `Measures` describes the lines from a column on, and the encoder's
  counter is that column. An encoded word comes back because it holds no
  question mark (`WordTokensFacts`), so each of the three searches of
  `decode_encoded_words` stops at the delimiter that was written.
- **FoldAlwaysKeepsWords** and the last part of LinesAlwaysFit rest on `FoldInv`,
  the invariant of the loop of `fold_header_line`: the words on the lines so far
  are the first n in order; a current line of length 0 has only empty words, which
  is what `current.is_empty()` really tests; a line that is too long has one word
  that is not empty; and before the first break the length is the sum of the
  words and spaces, which is why a line that was found too long is folded, and one
  that fits is not.
- **GeneratedBoundariesAreFree** rests on `TreeInv`: the table is ordered, what is
  held is in it, and the raw text is what `render_message` makes of it. The code
  tries attempts without a bound; each line of the bodies rules out one attempt at
  most, and a sequence of N things names at most N of the numbers 0..N
  (`OneIsFree`), so an attempt no greater than the number of hashed lines is free.
- **ClearMessagesRoundTrip** rests on `TreeInv` too. The parser recurs on the
  sections it finds, and its equations hold because a section has fewer lines than
  the text it was cut from, whatever that text is (`SectionsOfText`,
  `SectionsShorter`), so that parsing has one solution (`ParsesExists`). Rendering
  has the frame of a message around its parts (`RenderFacts`). The loop of
  `multipart_sections` is followed line by line over this frame (`Runs`,
  `RunsParts`, `FramedSections`): a line of a part that is no marker of this
  boundary is kept, so the sections are the rendered parts. That no line of a part
  is one follows from `BoundariesClear`, for the lines of every message inside it.
  The theorem is then an induction on the age of a message (`LeafComesBack`,
  `PartsComeBack`).

The type invariants of `RestartGuard` and `EndpointCall` are proved and not
checked by a run. `LinesInv` and `TreeInv` say what the actions build; TLC agrees
with both on the instance of `mime`.

Every invariant and action property that a passing run checks is proved. Only
model-checked are the liveness properties, which need fairness and `ENABLED`.
`DropCompletes` and `SnapshotCountsWindow` do not hold (see Findings).

The proofs are checked with `tlapm`, a module at a time. The two MIME modules take
about ten minutes each; both begin with the few facts about induction and
sequences they need, because a prover's time grows with every lemma in its context.

## What could be added

`WorkerPool` could take its script steps from an instance of `JobRun`. The raw
text of `MimeMultipart`, a sequence of lines, could be joined with the bytes of
`MimeLines`, so that one theorem covers a body from its bytes to the parsed part.

## Not modelled

- The JavaScript engine, Tokio, the HTTP client, `url` and `mechanics-config` are
  libraries; they appear as choices, or as operators marked external.
- The codec builtins (base32, base64, hex, form encoding, HTML, `buffer_like.rs`),
  random values, UUIDs and the console: conversions by external crates, or
  values nothing can be compared with.
- Serde and range checks of jobs and configuration: plain records, whose
  guarantees are the assumptions on the constants.
- Of the endpoint call: URL slots, query and header texts, and the allowlist of
  exposed headers (`http/headers.rs`), an infallible filter.
- Of `URLSearchParams`: `has`, `size`, `toString`, `forEach` and the iterators, which
  only read; of `URL`, its constructor and getters.
- Of MIME: headers other than the two that decide the structure, names that
  differ in case, base64 words in headers, spaces next to a fold, and the refusal
  of text that is not ASCII under 7bit.
- Of the metrics: registration, the restart counter and the duration histogram.
- `http/endpoint/request.rs` is not part of the build.
