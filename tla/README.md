# Celestea Agent: a verification project

Celestea is an agent engine in TypeScript: a loop that talks to a language
model, executes the tools the model asks for and writes everything into an
append-only session log; a runtime that hosts many sessions in one process; and
a Studio server and a CLI that put both behind HTTP and a terminal. This
directory holds TLA+ models of the parts whose correctness depends on order,
interruption and failure, TLC configurations that check them on small
instances, and TLAPS proofs of what matters most.

## 1. Inventory

| Component | Code | State | Operations | Interacts with |
|---|---|---|---|---|
| session store | `packages/session/src` | the log `cli-main.jsonl` (rows), its rolled segments, the sidecar `checkpoint.json` (open turn, clean exit, lanes) | append, roll, clear, mark open, mark ended, mark clean, save lanes, recover | agent loop (rows), inbox (lanes), boot recovery, compaction |
| inbox | `packages/runtime/src/inbox.ts` | two lanes (next turn, next step) | push, drain, pending, restore | adapter (push), turn runner and loop (drain), store (persistence) |
| agent loop | `packages/agent-loop/src` | the turn's step counter, its retries and steering extensions, the log | run a turn, a step, a tool batch; abort; cut a repetition | model client, tools, inbox, log |
| turn runner and runtime | `packages/runtime/src/turn-runner.ts`, `runtime.ts`, `compose.ts` | busy flag, the running turn, released flag | run, cancel, join, stop, shutdown | loop, registry, ledger |
| session registry | `packages/runtime/src/session-registry.ts` | the live generations, their slot, pin, epoch and last use | ensure, begin and end a turn, invalidate, evict, release, sweep, shutdown | adapter, compose, auto-wake |
| compaction | `packages/runtime/src/compact`, `apps/studio/src/runtime/session-lifecycle.ts` | the log file it replaces and its backup | plan, summarise, replace, rebind | registry, store, model client |
| mailbox, auto-wake | `packages/workers/src/mailbox.ts`, `packages/runtime/src/autowake.ts`, `apps/studio/src/runtime/host-autowake.ts` | the host queue, the loop that watches it, its notification | send, poll, notify, wake, requeue, pause, migrate | workers, adapter, registry |
| workers | `packages/workers/src` | the worker table, the watchdog's clocks | spawn, message, finish, cancel, recover | mailbox, the host session |
| model client | `packages/llm/src` | a call's attempt and retry, the health of the targets | open, stream, retry, hand over, cool down | agent loop, ledger |
| tools | `packages/tools/src` | the code broker's call, process table, browser, sandbox | run, serve a sub-call, kill, collect | agent loop |
| questions | `apps/studio/src/question-registry.ts`, `user-questions.ts` | the pending questions, their timers, their rows | ask, answer, time out, list | tools, event stream, web client |
| event stream | `apps/studio/src/sse.ts` | a page's frames, counted by session | emit, drop a session's frames, deliver | web client |
| Studio | `apps/studio/src` | HTTP handlers, grants, stores on disk | routes | registry, tools |
| command line | `apps/cli/src` | none | parse, start Studio | Studio |
| web client | `apps/web/src` | browser state | views, question cards | Studio over HTTP and SSE |

The engine is one Node process. A synchronous section of JavaScript is never
interleaved, and the promise continuations it leaves run before any other
request, timer or socket is served: what really interleaves is what lies
between two awaits of different requests, and, as the data live on disk, a
crash between any two writes of one section. The models follow that rule: an
action is a synchronous section, or one disk write of it where a crash in
between matters.

How the parts meet. A request (a turn, a message, an activation, a removal)
reaches the *adapter*, which asks the *session registry* for the instance of
the session, composing one if need be. Composing reads the *log* and the
*checkpoint*. A turn takes a slot of the registry and runs on the instance's
*turn runner*, which drains the *lanes* and starts the *agent loop*; the loop
consults the *model client*, runs *tools* and appends rows to the log, whose
boundary rows update the checkpoint. A tool may run a program (*code broker*),
ask the user (*questions*, whose frames travel on the *event stream* to the
page) or spawn *workers*, whose turns run beside that of the session and whose
receipts come back through a *mailbox* that *auto-wakes* the session.
Configuration changes swap instances, room and time evict them, removals detach
them, a compaction replaces the log under them, a shutdown joins them.

What is hard, by part, and the property that makes it correct:

| Part | Hard behaviour | What makes it correct |
|---|---|---|
| session store | two generations with private copies of one sidecar; a crash between a row and its marker | the log reads as one sequence of turns; a turn without an end is explained by a crash; the open turn is named on disk |
| log files | a failed or short write, a roll, a clear in two steps, all against a compaction | a restart reads what was shown; what was written is read back or summarised; ids increase |
| lanes | the lane is saved empty before its messages are rows | each message is in one place, in order, and lost only out of the hands of a crashed turn |
| agent loop | a cancel at every await, tools that outlive their turn, steering at the moment of closing, retries against a budget | every request is well paired; a cancelled turn ends; what ended in `completed` is answered; a turn calls the model a bounded number of times |
| registry | three reasons to take an instance away (change, room, age), two to keep it (turn, workers), one to wait (removal) | slots match turns; work survives; both caps hold; a change arrives; a removal returns |
| workers | one table, several writers with old views, a crash, a process id that comes back | rows and verdicts stand; a working worker is not given up; an unattended row is settled |
| mailbox, auto-wake | receipts pending when the session is busy, swapped, or the turn cap is reached | no receipt is lost but with its mailbox, none is shown twice or out of order, the loop comes back for what waits |
| model client | time-outs, retries, a chain of targets, a cancel that it is not told of, health shared by all calls | nothing shown is shown again; every target tried is booked once; a benched target has failed; a cancelled call is released |
| code broker | a program that may do anything, a pump and a wall clock that race, sub-calls in flight at its death | the answer is what happened; effects end with the call; the call returns |
| questions | an answer races the time-out, a reload, a restart; its frame may be lost | an answer stays in its session; a pending question has a card; a card tells the truth |
| event stream | a page that reads slowly | the overflow of one session costs no other its frames and leaves a marker |

## 2. Modules

| Module | Models | Proofs |
|---|---|---|
| `DeliveryContract` | what a session promises about a message (abstract) | |
| `SessionDurability` | log, checkpoint, lanes, generations, boot, shutdown of one session; implements `DeliveryContract` | `SessionDurabilityProofs` |
| `SessionLogFile` | the files of the log and the compaction that replaces them | `SessionLogFileProofs` |
| `SessionRegistry` | the live instances of a process and all that competes for them | `SessionRegistryProofs` |
| `TurnProtocol` | what the rows of a turn promise to the model (abstract) | |
| `Projection` | from log rows to the messages of a request, as operators | `AgentLoopProofs` |
| `AgentLoop` | the turns of one session, over `Projection`; implements `TurnProtocol` | `AgentLoopProofs` |
| `WorkerTable` | the shared table of the background workers | `WorkerTableProofs` |
| `AutoWake` | receipts and messages on their way into the history of a session | `AutoWakeProofs` |
| `ModelClient` (`MCModelClient`) | the requests of calls to the model targets | `CallProofs` |
| `CodeBroker` | one call of `run_code` | `CallProofs` |
| `StudioBus` | the event stream of one page, as operators over its buckets | `QuestionsProofs` |
| `Questions` | pending questions, over `StudioBus`, up to the cards of a page | `QuestionsProofs` |

`SessionDurability` is `checkpoint.ts`, `persistent.ts` and the places that
write them. `log` and `sidecar` are the files; `store` is the copy a generation
holds; `retiring` is the copy a disposed generation is about to write in its
continuation. `phase` tells how far the synchronous section has got; the steps
of a turn are `BeginTurn` (turn-runner drain) - `InjectRow` - `OpenTurn` - `MarkOpen` -
`DrainStep` - `CallModel` - ... - `EndTurn` - `MarkEnded`, and `Crash` may come
between any two. Only turn boundaries and injected messages are rows: nothing
else is read back by the parts modelled here. `overtaken` remembers whether a
turn has ever started in the section that swapped its generation, before the
old one had written its copy: what the sidecar says is claimed up to then.

`SessionLogFile` takes the log apart: `current`, `rolled` and `precompact` are
the files, `gen` is the live generation with its in-memory mirror and its
descriptor, which may be that of a file a rewrite has unlinked (`gen.path`). A
row is the start or end of a turn and carries the turn's serial besides its id,
so that a row is recognised when a compaction has numbered it anew. A
compaction is four moments (evict, read, summary, replace), each a step of
`compaction[c]`; a write may fail or be cut short. `unsaved` are the rows of the
live generation that are in its memory only, `folded` the turns that a summary
stands for: it is asked for with the whole file that was read (`Told`), not
only with its complete turns. `stale` says that the log was cleared since a
compaction read it.

`SessionRegistry` is `session-registry.ts` with the adapter's requests. `entry`
is the map of instances with their slot; `running` and `workers` tell what the
*composed generation* of an instance does, so that losing the generation under
a slot is visible. The last-use times are kept as the order they induce
(`older`) and as what is past the TTL (`cold`). A removal is the one request
that waits: `removal` says for what.

`AgentLoop` is `loop.ts`: `pc` is the await the loop is at ("top" and "judge"
are moments inside a synchronous section, in which nobody else acts), `verdict`
the result of a step. Rows are a kind and the id of a call. The repetition
guard may convict at any time; the detector itself is not modelled. A crash
stands for what `SessionDurability` details: an open turn is closed at boot.

`WorkerTable` is `registry.ts` of the workers: `table` is the file, `view` what
each session's registry holds, `section` the position inside `closeLoop`, whose
writes (report, verdict, token, receipt) are actions with crashes in between.
`pid` is the process's id, which a successor may get again, as in a container.
A graceful exit is, for the table, a crash that finds no driver.

`AutoWake` is `autowake.ts` with both ends of the mailbox it watches. `queue` is
the host queue of the mailbox in force, `bound` the sessions whose loop listens
to it: a swap puts a new mailbox there, and a parked loop hears of nothing until
its timer. `Ensure`, `Evict` and `Rebuild` stand for the registry's reasons,
which `SessionRegistry` models; `gone` is what went with a purged mailbox.

`ModelClient` has one record of progress per call of `generate`: the plan of
targets, the attempt, the retries spent, what was shown to the loop and the
ledger rows. A cancel does not reach the client: the loop stops reading, and
`Goes` are the steps the abandoned generator still takes. `failures` and
`cooling` are the health that all calls share.

`CodeBroker` has two activities of one call: `pump` reads and serves the
program's lines, `main` waits, kills and answers. The program writes any line,
reads its replies or not, closes its stdout, forks, ends or is killed by the
kernel at any moment. Values and their byte budgets are left out.

`Questions` follows a question from the registry through the log's rows, the
bus and the page: `asks` are the questions in the order of asking, `buckets` the
frames under way, `cards`, `lists` and `posts` the page with its requests. Ids
are what the registry gives; the two clocks of a time-out, the server's and the
card's, are not related.

## 3. Runs

| Run | Question | Bounds, and why they are enough |
|---|---|---|
| `durability` | Do log, sidecar and lanes stay right over turns, swaps, evictions, clears, shutdowns and crashes, and is the delivery contract kept? | 2 messages, 3 turns, 1 change, 2 crashes: two crashes repair a repair, three turns show an id given twice, one change makes two copies of the sidecar |
| `registry` | Can the turns, changes, evictions, removals and workers of sessions take a slot, a turn or workers from one another, or exceed a cap; does a change arrive, does a removal return? | 2 sessions and the default, 1 live, 1 turn: one more session than fits, and the default that is never evicted |
| `loop_tools` | Is every request well paired, and are the rows those of `TurnProtocol`? | 2 turns, 3 calls in batches of 2, no crash (section 5): a full and a partial batch, and a turn after an abandoned one |
| `loop_budget` | Budget, retries, extensions, truncation, crash; does a cancelled turn end? | 2 steps, 5 model calls, 1 retry, 1 extension, 2 steering messages: each allowance runs out once with one more request for it; 5 calls are one more than 2 steps with a retry each may make |
| `workers_apart` | Do rows and verdicts stand, are workers kept and orphans settled? | 2 sessions, 2 workers, 1 crash, 1 failed write: each can hit any step of either worker |
| `log_file` | Does a restart read what was shown, is what was written kept, do ids increase, is the next one new? | 7 turns, segments of 7 rows, 1 fault, 1 crash, one compaction at a time that keeps 1 of more than 2 turns: a roll before and after a compaction, which cuts a turn in two as 7 is odd, and a second compaction of the first one's head |
| `questions` | Do answers, time-outs, losses, reloads and restarts leave questions and cards in agreement? | 2 questions of 2 sessions, a bucket of 1, 1 list in flight besides, 1 trouble: each loss can hit each moment of a question, and a restart repeats an id |
| `model_client` | Requests, books and health of calls that fail and are cancelled | 2 calls, 3 targets of which a call tries 2, 1 retry, a bench after 2 failures: both calls write one target's health, and the third is chosen when one is benched |
| `auto_wake` | Are receipts kept, in order, and read? | 2 sessions, 1 slot, 2 items, 1 turn of the user, 1 swap, 1 crash: two hosts compete for one slot while a mailbox is swapped |
| `code_broker` | Is the verdict true, do effects end, does the call return? | 4 lines, 2 sub-calls: a log, two sub-calls and a last word, or a third request over the limit |

Two runs show the code against its own words; PROJECT.json quotes them under
"findings".

| Run | What it shows |
|---|---|
| `log_file_compaction_loses` | A turn that runs while a compaction awaits its summary writes to the file that the compaction then replaces. |
| `questions_after_restart` | Ids of questions start again with the process: the card of an interrupted question answers another one. |

Deadlock is checked where the system cannot stop by itself. It is not in the
loop's runs, in `questions`, `auto_wake`, `model_client` and `code_broker`,
where everything may come to rest when the last turn, question or call of the
bound is over.

### Conditions a property carries

Some properties are claimed with a condition because the code does not keep
them without it; each condition is a history variable and named in the model.

- `OpenTurnOnDisk`, `LaneFIFO` and the once-only part of the contract: until
  `overtaken`. The old generation's `doShutdown` writes its copy, with no open
  turn and a clean exit, over the marker of the new one
  (`session-registry.ts:443` against `checkpoint.ts:86`), and a lane that was
  taken comes back. After that the contract still says that no message is
  forgotten.
- `RestartShowsMirror`, `WrittenSurvivesApart` and `TurnIdsIncreaseApart`: until a
  write is cut short (`tears`), after which a reopened log ends at the damage.
- `RestartShowsMirror` and `WrittenSurvivesApart`: unless a compaction has replaced
  a file that was not the one it read (`crossed`), the finding above. The same
  window lets a compaction that read before a clear bring the cleared history
  back.
- `TurnIdsIncreaseApart` says two things, both unless a compaction brought a
  cleared history back under a live generation, whose counter had started again
  (`revived`). `NextIdIsNew`: the id given next is above every id on disk. It
  carries no other condition, so it covers the log that was rolled and then
  compacted, where `plan.ts:13-15` promises it. `TurnIdsIncrease`, along the
  whole log: only unless a compaction numbered the current file from 1 behind
  rolled segments (`cutBehind`), whose ids it then repeats. A torn record
  hides the current file for one open if a roll left it in a segment (`file.ts`
  takes a tear to be at the end of the last one).
- `PendingHasCard`: unless the page missed an overflow of its own session, for
  which it only prints a note (`chat.ts:217`), or a list failed, which is silent
  (`card.ts:341`).
- `VerdictIsTrue`: after a reply that was not drained the answer may be
  "protocol": the pump reads on (`broker.ts:453`), although its comment and
  `limits.ts` say that the call ends with a time-out.
- `EffectsEnd`: one sub-call may start for a dead program, and one in flight at
  the wall clock goes on; its row then follows its parent's.
- `CallReturns`: unless a descendant that left the program's group holds its
  stderr, for which `broker.ts:298` waits without a bound.
- `CancelledIsReleased` and `TargetsAreBooked`: for calls with a chain. Without
  one, a call cancelled while it waits for its first response leaves a stream
  that nobody reads or closes.
- `VerdictStands` and `ReceiptIsBacked`: for worker names that differ. Two
  sessions that spawn the same id take each other's row back
  (`tools.ts:73` against `registry.ts:543`).
- `NothingElseIsLost`: but for the mailbox of an evicted or crashed instance.
  An idle instance can be evicted while its receipts wait at the turn cap or in
  a pause, although their token says that they were sent (`runtime.ts:377`).

### Other behaviour the models show

No run asserts these, because the code states nothing against them, says so
itself, or because the statement is too narrow for a run of its own:

- In a batch removal, a session cut first can be composed again before its
  directory moves (`session-move.ts:158` against `session-release.ts:12`); a turn
  that ignores its cancel holds the removal (`runtime.ts:362`; the run
  `registry` therefore assumes `AbortFairness`).
- The extension granted for a steering message is refused by the step limit
  (`loop.ts:240`), and carries the retries of the step before (`loop.ts:253`); a
  torn answer followed by an extension ends as completed (`loop.ts:22` lists
  it as a failure).
- A call of an abandoned batch gets "cancelled before execution" although its
  tool was started (`loop.ts:546`); a batch can start after the cancel, to be
  abandoned at once (`loop.ts:496`); a discarded attempt may leave its reasoning
  as a row (`loop.ts:373`); after a crash in the second of two consecutive tool
  steps the balance of `projection.ts:183` skips the unanswered call.
- Only the session marked active is repaired at boot (`boot-recovery.ts:36`), and
  an auto-wake starts on a marked generation (`real-runtime-adapter.ts:369`).
- A crash between the truncation of a clear and the removal of the segments
  brings the segments back.
- A roll can cut a turn in two. A compaction of the current file then drops the
  tail of that turn (`plan.ts:5-7`), its head stays in the segment, and only the
  summary tells of it (`run.ts:77`).
- A stopped worker still sends a receipt; a receipt that was migrated or woken
  loses its kind and source (`gen.ts:156`); a user's next-turn message is logged
  with the origin of a receipt (`turn-runner.ts:296`).
- A cancelled call still retries and is handed over (the comment of
  `retry.ts:267-276` says it never is), and its success does not count for the
  target's health.
- A question outlives the turn that asked it; a history that arrives while a
  turn streams is dropped and asks for no list (`restore.ts:228`).
- A cancelled turn does not kill its `run_code` program (`broker.ts:24` says it
  does): a tool's input carries no signal. A kill by the kernel for memory is
  told as a CPU limit (`cpu-kill.ts`).

## 4. Fairness

- `registry` assumes that the reclaimer's timer fires and that a removal goes on
  when what it waits for has come (`ProcessFairness`), and that aborted turns
  and workers notice the abort (`AbortFairness`); no request is assumed to come
  and no ordinary turn to end. `ChangeArrives` needs the timer alone.
- `loop_budget` assumes that the loop's own moves happen (`LoopMoves`: what runs
  without the model or a tool, the reaction to an abort included), never that
  the model answers or a tool ends.
- `workers_apart` assumes that a synchronous section runs to its end and that
  the watchdog's timer fires and the grace passes.
- `auto_wake` assumes that a loop that is awake goes on, that its timers fire
  and that turns end; no receipt, message or request is assumed to come. Without
  the end of turns a session at the cap would rightly wait.
- `model_client` assumes only that a cancelled call goes on: every wait for the
  upstream has a time-out (connect, response, idle) and every other a timer.
- `code_broker` assumes the broker's own steps and its timers. The program, its
  descendants, the kernel and the tool of a sub-call owe nothing.

## 5. Proofs

TLAPS proves, for every value of the constants and from the assumptions the
modules declare (bounds are naturals, `Session` is finite, `Default` is not in
it, the chain is not empty):

- `SessionDurabilityProofs`: `TypeOK`, `TurnLogWellFormed`, `DanglingExplained`
  and `OpenTurnOnDisk`. That no id is used twice is not inductive: it needs the
  relation between the counter of a live generation and the log (the counter is
  what `nextTurnNumber` would return) in every phase between the row and the
  next compose. `OpenTurnOnDisk` needs that a retiring copy can only be written
  while the session is idle, until a turn overtakes one.
  It also proves `Spec => ImplementsDelivery`, the refinement of
  `DeliveryContract`. The 24 actions have six shapes by what they do to lanes
  and rows (`StepShapes`). `KeptInv` says that every copy of the checkpoint that
  may still reach the disk, together with what is in hand, in the log or lost,
  holds exactly the accepted messages; `OnceInv` says that, until a turn
  overtakes, the copies agree and the places are disjoint. From the first comes
  "none is forgotten", from both that each step is a move of the contract.
  `LaneFIFO` speaks of the log alone and is not inductive: `FIFOInv` says of
  each place on a message's way (its lane, the hand, the log) that what its lane
  accepted before it is there before it, has gone further or is lost.
- `AgentLoopProofs`: the types, `BudgetCountsSteps`, `CompletedIsAnswered` and
  `CallsAreBounded` for every bound, crashes included; `RequestValid` for every bound
  until the first crash (`crashes = 0 => RequestValid`), and
  `Spec => ImplementsProtocol` where no crash is in the bounds. Its first half is
  about logs and messages alone: what `deriveMessagesFrom` returns for the rows
  that a step appends, and that `balanceToolCalls` leaves a complete history as
  it is. Both are recursive functions; a statement about every prefix of a log
  is proved by the least prefix at which it fails (`WellFoundedInduction`).
  `HistoryInv` says that the log is settled outside the tools, every call
  answered once and directly after its row, and inside a batch ends in the calls
  of the answer and the results of those before `at`. Why until a crash: a crash
  in the second of two consecutive tool steps leaves a call that the balance at
  `projection.ts:183` does not see, because the results of the step before
  already follow (see "Other behaviour"), and a request without its result.
  `CallsAreBounded` is not inductive: `CallsInv` says that every step of the
  budget has paid for the attempts discarded before it, up to `MaxRetries` each,
  and that those of the step in hand are counted by `retries`, which an
  extension carries on and a new step forgets.
- `SessionRegistryProofs`: `TypeOK`, `SlotMatchesTurn`, `WorkersHaveHost`,
  `TurnCap`, and the action properties `WorkSurvives` and `LiveCap`. `TurnCap`
  follows from its own induction once a slot matches a turn; `LiveCap` needs the
  cardinality of the victims against the evictable instances, by the lemmas of
  `FiniteSetTheorems`.
- `WorkerTableProofs`: `TypeOK` and `WorkerKeepsRow`, and, for names that
  differ, `VerdictStands` and `ReceiptIsBacked`. The strengthening says that a
  row has one owner, that a row a registry holds as its own is its row on disk
  and known to it if settled (`Agree`), and that the disk has every such row as
  long as no write failed (`SyncOwn`); and what a closing section in progress
  has written so far.
- `AutoWakeProofs`: the types, `NothingElseIsLost` and `InOrderOnce`, for any
  number of sessions, items, turns, swaps and crashes. The first is that every
  number given out is found in a queue, a lane, a history or among what went
  with a mailbox; no step but a purge or a crash takes an item out of a session.
  The second is not inductive, as receipts and lane are drained at different
  times: `OrderInv` says of history, lane and queue, pair by pair, which comes
  before the other and who may have sent what is in each.
- `SessionLogFileProofs`: `RestartShowsMirror`, `WrittenSurvivesApart` and
  `TurnIdsIncreaseApart`, for every threshold, segment size, number of faults
  and crashes and any number of compactions under way at once. All three rest
  on `FilesInv`: as long as no write was cut short, every row is readable and
  of a turn that has begun. The replay is then the files one after the other
  (`Rows`) and opening a log changes none of them. `MirrorInv` says that `Rows`
  is what the generation shows without what failed, and that the turn in flight
  has no end yet, in memory or among the failed rows, so that the row that is
  written next is none of those that failed. `WrittenInv` says that a written
  turn has its end in `Rows` or was told of; a replacement keeps that because
  the file it replaces is the one it read. `IdsInv` has ids increase in the
  current file always and in all files until one is numbered behind segments,
  the counter above the ids of both, and adds that while a compaction that no clear
  has made stale waits for its summary the files hold an id above `Keep`: the
  ids of its plan, 1 to `Keep` + 1, are then below the counter, and a turn that
  follows comes after the plan. Once a write was cut short nothing is claimed,
  by the proofs as by the run. Replay, saved rows and complete turns are
  recursive functions over sequences: for each, one lemma says what it is after
  one row more, from `IterationExists`, and what holds of all rows is proved by
  appending (`Appending`), which rests on a least counterexample.
- `CallProofs`, of the two calls that a turn waits for. Of a model call it
  proves `OutputIsNeverRepeated`, `TargetsAreBooked` and `BenchedHasFailed`.
  The first rests on the phases from which a request can be sent being those in
  which nothing was shown (`Locked`); the second on one row per attempt left
  behind, with the last one open while the call is (`Booked`); the third on
  each call being at a target of its plan, and plans being made of the
  configured targets (`Placed`, `HealthInv`). Of a `run_code` call it proves
  `BrokerTypeOK`, `VerdictIsTrue` and `EffectsEnd`. The strengthening says that
  the lines a running pump has passed are not last words, that after the race
  the pump is at rest or the wall clock has fired, and that every kill by the
  broker leaves a reason other than the CPU limit.
- `QuestionsProofs`: `TypeOK`, `PendingHasCard`, `CardTellsTruth`,
  `AnswerStaysInSession` and `IsolatedOverflow`, for any sessions, capacities,
  questions, lists and troubles. A question keeps its session and its id and
  ends once (`LaterAsks`); hence what a row, a frame, a list, an answer or a card
  once said of its question stays true, and `QuestionInv` collects what each of
  them says. `PendingHasCard` is part of it: that a question has a card depends
  on the frame, the list or the history that is still to bring it. The buckets of
  the stream are handled by lemmas about taking out one session's frames.

Only model-checked is liveness, which TLAPS does not do: `ChangeArrives`,
`RemovalReturns`, `CancelEnds`, `UnattendedSettles`, `HostIsWoken`,
`CancelledIsReleased`, `CallReturns`. Every invariant and every action property
of a passing run is also a theorem.

No run and no theorem claims `RequestValid` or `ImplementsProtocol` after a
crash, where the code does not keep them.

## 6. Not modelled

- Data: the contents of messages, prompts, results and summaries; the
  repetition detector, context trimming and result retention; byte budgets of
  the broker (`truncateValue` counts raw bytes and its placeholder is not free,
  so its ledger may be exceeded by a little); the ledger, usage and prices.
- The duplicate detection of the inbox (`inbox.ts:98`): the one caller of
  `inject` passes no id, and a message without one is never a duplicate.
- The re-dispatch of a worker: no registry can reach it, as it needs a
  remembered brief whose driver is gone. Messages between workers.
- An emitter that throws after a slot was taken (`real-runtime-adapter.ts:492`),
  failed writes of the sidecar, failures while composing: exceptions of
  otherwise total code.
- Tools other than `run_code`, grants, the other handlers and stores, HTTP, the
  command line and the other views of the web client: I/O and parsing around
  one synchronous step each. They are most of the repository's lines, and the
  reason why the map covers a small share of it.

## 7. Plan

1. Composition: `AutoWake` with the slots of `SessionRegistry` in place of its
   own cap; `ModelClient`'s stream in place of the one `AgentLoop` assumes.
2. The process table of the tools (start, poll, kill, collect), and the failure
   of an emitter in the adapter.
