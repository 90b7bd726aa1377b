----------------------------- MODULE AgentLoop -----------------------------
(***************************************************************************)
(* The turns of one session, driven by DefaultAgentLoop: model steps, tool *)
(* batches, steering messages, cancellation, the repetition guard.         *)
(*                                                                         *)
(* The loop runs synchronously from one await to the next.  While it runs  *)
(* (pc "top" or "judge") nobody else does; the environment acts while it   *)
(* awaits: a cancel, a steering message, the end of a tool.                *)
(***************************************************************************)
EXTENDS Integers, Projection

CONSTANTS
    MaxSteps,       \* config.max_steps, 0 for no limit
    MaxParallel,    \* config.max_parallel_tool_calls
    MaxRetries,     \* discarded attempts per step
    MaxExtensions,  \* MAX_STEER_EXTENSIONS
    MaxTurns,       \* bound: turns
    MaxAttempts,    \* bound: in a turn, the model only answers plainly from this call on
    MaxCalls,       \* bound: tool calls of one answer
    MaxSteers,      \* bound: steering messages
    MaxCrashes      \* bound: crashes of the process

ASSUME BoundsAssumption ==
    /\ MaxSteps \in Nat /\ MaxParallel \in Nat \ {0} /\ MaxRetries \in Nat /\ MaxExtensions \in Nat
    /\ MaxTurns \in Nat /\ MaxAttempts \in Nat /\ MaxCalls \in Nat /\ MaxSteers \in Nat /\ MaxCrashes \in Nat

VARIABLES
    log,         \* the session log
    pc,          \* where the loop is
    outcome,     \* how the last turn ended, "none" before the first
    verdict,     \* what the finished step decided: a kind and, if final, an outcome
    aborted,     \* the turn's AbortSignal
    lane,        \* steering messages in the next-step lane
    steps, extensions, retries,
    calls,       \* the tool calls of the answer: the ids, in the model's order
    at,          \* the call that starts the batch in flight, or is recorded next
    stream,      \* the answer being received: reasoning held back, done frame seen
    running,     \* calls whose tool is executing
    turns, attempts, discarded, steers, crashes    \* counters and history

budget == <<steps, extensions, retries>>
tools == <<calls, at, running>>
history == <<turns, attempts, discarded, steers, crashes>>
vars == <<log, pc, outcome, verdict, aborted, lane, budget, tools, stream, history>>

Outcome == {"completed", "cancelled", "error", "step_limit", "interrupted"}
Verdict == [kind : {"continue", "retry", "cancelled"}, outcome : {"none"}]
               \cup [kind : {"final"}, outcome : Outcome]
Is(kind) == [kind |-> kind, outcome |-> "none"]
Final(o) == [kind |-> "final", outcome |-> o]

\* Where the loop awaits something.
Awaiting == {"generate", "stream", "tools", "retain", "wrapup"}

Only(kind) == <<[kind |-> kind, id |-> 0]>>
RowsOf(kind, ids) == [i \in DOMAIN ids |-> [kind |-> kind, id |-> ids[i]]]
Least(a, b) == IF a < b THEN a ELSE b

Silent == [held |-> FALSE, done |-> FALSE]

Init ==
    /\ log = <<>> /\ pc = "idle" /\ outcome = "none" /\ verdict = Is("continue")
    /\ aborted = FALSE /\ lane = 0
    /\ steps = 0 /\ extensions = 0 /\ retries = 0
    /\ calls = <<>> /\ at = 1 /\ running = {}
    /\ stream = Silent
    /\ turns = 0 /\ attempts = 0 /\ discarded = 0 /\ steers = 0 /\ crashes = 0

-----------------------------------------------------------------------------
(* The turn *)

\* runTurnOutcome up to driveSteps: the marker and the input, if there is one.
StartTurn ==
    /\ pc = "idle" /\ turns < MaxTurns
    /\ \E input \in {<<>>, Only("user")} : log' = log \o Only("start") \o input
    /\ pc' = "top"
    /\ aborted' = FALSE /\ steps' = 0 /\ extensions' = 0 /\ retries' = 0
    /\ turns' = turns + 1 /\ attempts' = 0 /\ discarded' = 0
    /\ UNCHANGED <<outcome, verdict, lane, tools, stream, steers, crashes>>

\* The single exit: the turn_end row and the terminal state.
EndTurn(o) ==
    /\ log' = log \o Only("end")
    /\ pc' = "idle" /\ outcome' = o
    /\ UNCHANGED <<verdict, aborted, lane, extensions, retries, tools, stream, history>>

Judge(v) == pc' = "judge" /\ verdict' = v

-----------------------------------------------------------------------------
(* The step loop *)

OutOfSteps == MaxSteps > 0 /\ steps >= MaxSteps

StepLimit ==
    /\ pc = "top" /\ OutOfSteps
    /\ EndTurn("step_limit") /\ UNCHANGED steps

CancelledAtTop ==
    /\ pc = "top" /\ ~OutOfSteps /\ aborted
    /\ EndTurn("cancelled") /\ steps' = steps + 1

\* The rows of what arrived while the turn was running.
Injected == [i \in 1 .. lane |-> [kind |-> "steer", id |-> 0]]

\* injectPending and the call of the model.
StepStarts ==
    /\ pc = "top" /\ ~OutOfSteps /\ ~aborted
    /\ log' = log \o Injected /\ lane' = lane - Len(Injected)
    /\ pc' = "generate"
    /\ steps' = steps + 1 /\ attempts' = attempts + 1
    /\ UNCHANGED <<outcome, verdict, aborted, extensions, retries, tools, stream, turns, discarded,
                   steers, crashes>>

\* The request cannot be derived (a seam throws): the turn still ends.
StepThrows ==
    /\ pc = "top" /\ ~OutOfSteps /\ ~aborted
    /\ log' = log \o Injected \o Only("end") /\ lane' = lane - Len(Injected)
    /\ pc' = "idle" /\ outcome' = "error"
    /\ steps' = steps + 1
    /\ UNCHANGED <<verdict, aborted, extensions, retries, tools, stream, history>>

\* mutant: every conviction counts as the first of its step.
RetriesUsedForgotten == 1

\* planRepetition: the retries spent on this step, with the one that is due.
RetriesUsed == retries + 1

\* mutant: the discarded attempt is debited.
StepsAfterRetryDebited == steps

\* A discarded attempt gives its step back.
StepsAfterRetry == steps - 1

Continues ==
    /\ pc = "judge" /\ verdict.kind = "continue"
    /\ retries' = 0 /\ pc' = "top"
    /\ UNCHANGED <<log, outcome, verdict, aborted, lane, steps, extensions, tools, stream, history>>

Retries ==
    /\ pc = "judge" /\ verdict.kind = "retry"
    /\ retries' = RetriesUsed /\ steps' = StepsAfterRetry /\ pc' = "top"
    /\ discarded' = discarded + 1
    /\ UNCHANGED <<log, outcome, verdict, aborted, lane, extensions, tools, stream, turns, attempts,
                   steers, crashes>>

\* The turn must not close while a steering message waits.
MustExtend == extensions < MaxExtensions /\ lane > 0

Extends ==
    /\ pc = "judge" /\ verdict.kind = "final" /\ MustExtend
    /\ extensions' = extensions + 1 /\ pc' = "top"
    /\ UNCHANGED <<log, outcome, verdict, aborted, lane, steps, retries, tools, stream, history>>

Closes ==
    /\ pc = "judge"
    /\ \/ verdict.kind = "final" /\ ~MustExtend /\ EndTurn(verdict.outcome)
       \/ verdict.kind = "cancelled" /\ EndTurn("cancelled")
    /\ UNCHANGED steps

-----------------------------------------------------------------------------
(* The answer of the model *)

GenerateEnds ==
    /\ pc = "generate"
    /\ \/ aborted /\ Judge(Is("cancelled")) /\ UNCHANGED <<stream, calls>>
       \/ /\ ~aborted
          /\ pc' = "stream" /\ stream' = Silent /\ calls' = <<>>
          /\ UNCHANGED verdict
       \/ ~aborted /\ Judge(Final("error")) /\ UNCHANGED <<stream, calls>>
    /\ UNCHANGED <<log, outcome, aborted, lane, budget, at, running, turns, attempts,
                   discarded, steers, crashes>>

\* ThinkingBuffer.flush: the burst so far becomes one row.
Burst == IF stream.held THEN Only("thinking") ELSE <<>>

Receiving == pc = "stream" /\ ~aborted

\* (Bound: one burst of reasoning between two other rows.)
Thinks ==
    /\ Receiving /\ ~stream.held /\ log[Len(log)].kind # "thinking"
    /\ stream' = [stream EXCEPT !.held = TRUE]
    /\ UNCHANGED <<log, pc, outcome, verdict, aborted, lane, budget, tools, history>>

Texts ==
    /\ Receiving /\ stream.held
    /\ log' = log \o Burst /\ stream' = [stream EXCEPT !.held = FALSE]
    /\ UNCHANGED <<pc, outcome, verdict, aborted, lane, budget, tools, history>>

\* The done frame, with the calls the model makes.
Done ==
    /\ Receiving /\ ~stream.done
    /\ log' = log \o Burst /\ stream' = [held |-> FALSE, done |-> TRUE]
    /\ \E n \in 0 .. (IF attempts < MaxAttempts THEN MaxCalls ELSE 0) :
          calls' = [i \in 1 .. n |-> Cardinality(CallIds(log)) + i]
    /\ UNCHANGED <<pc, outcome, verdict, aborted, lane, budget, at, running, history>>

\* The batch that starts at call k.
Batch(k) == {calls[i] : i \in k .. Least(k + MaxParallel - 1, Len(calls))}

\* mutant: what is answered already is answered again.
SynthesizedForAll(rows) == RowsOf("cancelled", calls)

\* mutant: only the batch in flight is answered, the later batches are not.
SynthesizedForBatch(rows) == RowsOf("cancelled", Kept(calls, running))

\* synthesizeCancelledResults: the calls of the step without a result in rows.
Synthesized(rows) ==
    RowsOf("cancelled", Kept(calls, Nat \ ResultIds(rows)))

\* mutant: a stream without a terminal frame counts as an answer.
WithoutFrameCompleted(failure) == IF failure = "none" THEN "completed" ELSE failure

\* The terminal state of a stream that ended without its done frame.
WithoutFrame(failure) == IF failure = "none" THEN "interrupted" ELSE failure

\* The stream ended, with `failure` if it tore: the release of the reasoning,
\* then finishStep.
StreamEnds ==
    /\ Receiving
    /\ \E failure \in {"none", "error", "interrupted"} :
          LET rows == log \o Burst
          IN    \/ /\ ~stream.done
                   /\ log' = rows
                   /\ Judge(Final(WithoutFrame(failure)))
                   /\ UNCHANGED tools
                \/ /\ stream.done /\ calls = <<>>
                   /\ log' = rows \o Only("reply")
                   /\ Judge(Final(IF failure = "none" THEN "completed" ELSE failure))
                   /\ UNCHANGED tools
                \/ /\ stream.done /\ calls # <<>> /\ failure # "none"
                   /\ log' = rows /\ Judge(Final(failure))
                   /\ UNCHANGED tools
                \/ /\ stream.done /\ calls # <<>> /\ failure = "none"
                   /\ log' = rows \o RowsOf("call", calls)
                   /\ pc' = "tools" /\ at' = 1
                   /\ running' = running \cup Batch(1)
                   /\ UNCHANGED <<verdict, calls>>
    /\ stream' = Silent
    /\ UNCHANGED <<outcome, aborted, lane, budget, turns, attempts, discarded, steers, crashes>>

StreamAborted ==
    /\ pc = "stream" /\ aborted
    /\ log' = log \o Burst /\ stream' = Silent
    /\ Judge(Is("cancelled"))
    /\ UNCHANGED <<outcome, aborted, lane, budget, tools, history>>

-----------------------------------------------------------------------------
(* The repetition guard *)

\* The first attempts that collapse are discarded, the next one truncated.
MayDiscard == RetriesUsed <= MaxRetries

\* The log when the guard convicts: a text delta has flushed the reasoning.
Convicted(channel) == IF channel = "text" THEN log \o Burst ELSE log

CollapseDiscarded ==
    /\ Receiving /\ attempts < MaxAttempts /\ MayDiscard
    /\ \E channel \in {"text", "thinking"} : log' = Convicted(channel)
    /\ stream' = Silent
    /\ Judge(Is("retry"))
    /\ UNCHANGED <<outcome, aborted, lane, budget, tools, history>>

\* The healthy prefix, if any, is kept and the model is asked to wrap up.
CollapseTruncated ==
    /\ Receiving /\ attempts < MaxAttempts /\ ~MayDiscard
    /\ \E channel \in {"text", "thinking"} :
          \E kept \in {<<>>, Only(IF channel = "text" THEN "reply" ELSE "thinking")} :
              log' = Convicted(channel) \o kept \o Only("steer")
    /\ stream' = Silent
    /\ pc' = "wrapup"
    /\ UNCHANGED <<outcome, verdict, aborted, lane, budget, tools, history>>

\* wrapUpStep: one answer or none; a cancel keeps what arrived.
WrapUpEnds ==
    /\ pc = "wrapup"
    /\ \E answer \in {<<>>, Only("reply")} : log' = log \o answer
    /\ Judge(Final("interrupted"))
    /\ UNCHANGED <<outcome, aborted, lane, budget, tools, stream, history>>

-----------------------------------------------------------------------------
(* The tools *)

\* A tool ends; an abandoned one keeps running, whatever the turn does.
ToolEnds(id) ==
    /\ id \in running /\ pc \notin {"top", "judge"}
    /\ running' = running \ {id}
    /\ UNCHANGED <<log, pc, outcome, verdict, aborted, lane, budget, calls, at, stream, history>>

\* The batch settled before a cancel: its first result goes to retention.
BatchSettles ==
    /\ pc = "tools" /\ ~aborted
    /\ Batch(at) \cap running = {}
    /\ pc' = "retain"
    /\ UNCHANGED <<log, outcome, verdict, aborted, lane, budget, tools, stream, history>>

\* mutant: the abort waits for the tools of the batch.
BatchAbortedLate ==
    /\ pc = "tools" /\ aborted /\ Batch(at) \cap running = {}
    /\ log' = log \o Synthesized(log)
    /\ Judge(Is("cancelled"))
    /\ UNCHANGED <<outcome, aborted, lane, budget, tools, stream, history>>

BatchAborted ==
    /\ pc = "tools" /\ aborted
    /\ log' = log \o Synthesized(log)
    /\ Judge(Is("cancelled"))
    /\ UNCHANGED <<outcome, aborted, lane, budget, tools, stream, history>>

\* recordToolResult came back from retention: the row of one call, and after
\* the last call of a batch the next batch, which a cancel then abandons.
Records ==
    /\ pc = "retain"
    /\ LET rows == log \o RowsOf("result", <<calls[at]>>)
           batchEnds == at % MaxParallel = 0
       IN \/ /\ at = Len(calls)
             /\ log' = rows /\ Judge(Is("continue"))
             /\ UNCHANGED tools
          \/ /\ at < Len(calls) /\ ~batchEnds
             /\ log' = rows /\ at' = at + 1
             /\ UNCHANGED <<pc, verdict, calls, running>>
          \/ /\ at < Len(calls) /\ batchEnds
             /\ at' = at + 1
             /\ running' = running \cup Batch(at + 1)
             /\ \/ ~aborted /\ log' = rows /\ pc' = "tools" /\ UNCHANGED verdict
                \/ aborted /\ log' = rows \o Synthesized(rows) /\ Judge(Is("cancelled"))
             /\ UNCHANGED calls
    /\ UNCHANGED <<outcome, aborted, lane, budget, stream, history>>

-----------------------------------------------------------------------------
(* The environment *)

Cancel ==
    /\ pc \in Awaiting /\ ~aborted
    /\ aborted' = TRUE
    /\ UNCHANGED <<log, pc, outcome, verdict, lane, budget, tools, stream, history>>

Steer ==
    /\ pc \in Awaiting \cup {"idle"} /\ steers < MaxSteers
    /\ lane' = lane + 1 /\ steers' = steers + 1
    /\ UNCHANGED <<log, pc, outcome, verdict, aborted, budget, tools, stream, turns, attempts,
                   discarded, crashes>>

\* The process dies and comes back: the boot repair closes an open turn, the
\* lane is read back from the sidecar (module SessionDurability).
Crash ==
    /\ pc \in Awaiting \cup {"idle"} /\ crashes < MaxCrashes
    /\ crashes' = crashes + 1
    /\ log' = IF pc = "idle" THEN log ELSE log \o Only("end")
    /\ outcome' = IF pc = "idle" THEN outcome ELSE "interrupted"
    /\ pc' = "idle" /\ running' = {} /\ aborted' = FALSE /\ stream' = Silent
    /\ UNCHANGED <<verdict, lane, budget, calls, at, turns, attempts, discarded, steers>>

\* What the loop does without waiting for the model or for a tool.
LoopMoves ==
    \/ StepLimit \/ CancelledAtTop \/ StepStarts \/ StepThrows
    \/ Continues \/ Retries \/ Extends \/ Closes
    \/ (aborted /\ GenerateEnds) \/ StreamAborted \/ BatchAborted \/ Records
    \/ (aborted /\ WrapUpEnds)

ModelMoves ==
    \/ GenerateEnds \/ Done \/ StreamEnds \/ WrapUpEnds \/ BatchSettles

Next ==
    \/ StartTurn \/ LoopMoves \/ ModelMoves
    \/ Thinks \/ Texts \/ CollapseDiscarded \/ CollapseTruncated
    \/ \E id \in running : ToolEnds(id)
    \/ Cancel \/ Steer \/ Crash

Spec == Init /\ [][Next]_vars

\* The loop runs, and the disk answers; the model and the tools need not.
LoopSpec == Spec /\ WF_vars(LoopMoves)

-----------------------------------------------------------------------------
(* Properties *)

\* Whatever batches, cancels and abandoned tools did before, the model is only
\* consulted with a history an OpenAI-compatible upstream accepts.
RequestValid == pc \in {"generate", "wrapup"} => WellPaired(History(log))

Phase ==
    IF pc = "idle" THEN "closed"
    ELSE IF pc \in {"generate", "stream", "wrapup"} THEN "asking" ELSE "open"

\* The rows of a session are those of a TurnProtocol: no model call and no
\* turn_end while a call waits for its result, results in the model's order.
Protocol ==
    INSTANCE TurnProtocol WITH Call <- Nat, phase <- Phase, unanswered <- Unanswered(log)
ImplementsProtocol == Protocol!Spec

\* A completed turn ends with the reply of the model (README: "A partial answer
\* is never flushed", completed means "the model answered without tool calls").
CompletedIsAnswered ==
    pc = "idle" /\ outcome = "completed" => log[Len(log) - 1].kind = "reply"

\* Discarded attempts do not shorten the turn: the budget counts the others.
BudgetCountsSteps == pc = "generate" => steps = attempts - discarded

\* A discarded attempt gives its step back, so that max_steps alone does not end the
\* turn of a model that keeps collapsing: with the retries it does, over tool steps
\* and extensions too.  (Each truncated step asks once more, to wrap up.)
CallsAreBounded == MaxSteps > 0 => attempts <= MaxSteps * (1 + MaxRetries)

\* A cancelled turn ends although the model and the tools never answer.
CancelEnds == aborted /\ pc # "idle" ~> pc = "idle"
=============================================================================
