------------------------------ MODULE CodeBroker ------------------------------
(***************************************************************************)
(* One call of the tool run_code (packages/tools/src/run-code/broker.ts):  *)
(* a program runs in the sandbox, asks for sub-calls on its stdout, is     *)
(* answered on its stdin, and ends with a final line.  Two activities of   *)
(* the broker share the call: `pump` reads a line, serves it and goes on   *)
(* to the next; `main` waits for the pump or for the wall clock, whichever *)
(* is first, lets the program exit and drains its stderr.  The wall clock, *)
(* the deadline of the reader, the bound of a reply's write and the two    *)
(* graces are timers: each may run out at any step it is armed.            *)
(*                                                                         *)
(* The program is arbitrary code.  It may write several lines at once,     *)
(* not read its replies, close its stdout, or leave a descendant behind    *)
(* that holds its pipes: in its process group, where a kill reaches it,    *)
(* or apart from it.  Values, logs and their byte budgets are left out.    *)
(* A turn that is cancelled forgets the call, and nothing of that reaches  *)
(* the broker: a ToolInput carries no signal.                              *)
(***************************************************************************)
EXTENDS Naturals, Sequences

CONSTANTS
    MaxSubCalls,   \* maxSubCalls
    MaxLines       \* bound: lines the program writes

ASSUME MaxSubCallsAssumption == MaxSubCalls \in Nat
ASSUME MaxLinesAssumption == MaxLines \in Nat

\* "foreign": a request for a tool outside SDK_TOOLS.
Line == {"log", "request", "foreign", "final", "error", "malformed"}
LastWords == {"final", "error", "malformed"}   \* the lines the pump stops at

VARIABLES
    program,    \* runs, mute (its stdout closed), ended, signalled (the kernel), killed (the broker)
    helper,     \* a descendant that holds the pipes: none, inGroup or apart
    wrote,      \* the lines on stdout
    read,       \* how many of them the pump has read

    pump,       \* off, reads, dispatches, writes or over
    dispatched, \* RunState.dispatched
    final,      \* RunState.hasFinal
    failed,     \* RunState.programError is set
    infra,      \* RunState.infraError: none, timeout or wedged
    pumpError,  \* the pump threw

    main,       \* idle, races, settles, reaps, drains or answered
    timedOut,   \* the wall clock fired
    settle,     \* how the program's end was seen: none, exit, signal or killed
    answer,    \* what the call was answered with

    late        \* history: sub-calls started when the program was dead

child == <<program, helper, wrote>>
pumping == <<read, pump, dispatched, pumpError, late>>
told == <<final, failed, infra>>
waiting == <<main, timedOut, settle, answer>>
brokerVars == <<child, pumping, told, waiting>>

Alive == program \in {"runs", "mute"}
Closed == ~Alive /\ helper = "none"            \* the event `close`, and the end of stderr
StdoutEnds == program # "runs" /\ helper = "none"
Unread == read < Len(wrote)
NextLine == wrote[read + 1]

BrokerInit ==
    /\ program = "none" /\ helper = "none" /\ wrote = <<>> /\ read = 0
    /\ pump = "off" /\ dispatched = 0 /\ pumpError = FALSE /\ late = 0
    /\ final = FALSE /\ failed = FALSE /\ infra = "none"
    /\ main = "idle" /\ timedOut = FALSE /\ settle = "none" /\ answer = "none"

(* signalTree: SIGKILL for the process group. *)
Kill ==
    /\ program' = IF Alive THEN "killed" ELSE program
    /\ helper' = IF helper = "inGroup" THEN "none" ELSE helper
    /\ UNCHANGED wrote

Note(failure) == infra' = IF infra = "none" THEN failure ELSE infra

-----------------------------------------------------------------------------
(* The program *)

Writes(line) ==
    /\ program = "runs" /\ Len(wrote) < MaxLines
    /\ wrote' = Append(wrote, line)
    /\ UNCHANGED <<program, helper, pumping, told, waiting>>

ClosesStdout ==
    /\ program = "runs"
    /\ program' = "mute"
    /\ UNCHANGED <<helper, wrote, pumping, told, waiting>>

Forks(where) ==
    /\ program = "runs" /\ helper = "none"
    /\ helper' = where
    /\ UNCHANGED <<program, wrote, pumping, told, waiting>>

HelperEnds ==
    /\ helper # "none"
    /\ helper' = "none"
    /\ UNCHANGED <<program, wrote, pumping, told, waiting>>

ProgramEnds(how) ==
    /\ Alive
    /\ program' = how
    /\ UNCHANGED <<helper, wrote, pumping, told, waiting>>

-----------------------------------------------------------------------------
(* The pump *)

Reading(line) == pump = "reads" /\ Unread /\ NextLine = line /\ read' = read + 1

ReadLog ==
    /\ Reading("log")
    /\ UNCHANGED <<child, pump, dispatched, pumpError, late, told, waiting>>

ReadFinal ==
    /\ Reading("final")
    /\ final' = TRUE /\ pump' = "over"
    /\ UNCHANGED <<child, dispatched, pumpError, late, failed, infra, waiting>>

ReadError ==
    /\ Reading("error")
    /\ failed' = TRUE /\ pump' = "over"
    /\ UNCHANGED <<child, dispatched, pumpError, late, final, infra, waiting>>

ReadMalformed ==
    /\ Reading("malformed")
    /\ pumpError' = TRUE /\ pump' = "over"
    /\ UNCHANGED <<child, dispatched, late, told, waiting>>

(* buildReply refuses: the tool, or the sub-call after the last. *)
ReadRefused ==
    /\ \/ Reading("foreign")
       \/ Reading("request") /\ dispatched >= MaxSubCalls
    /\ pump' = "writes"
    /\ UNCHANGED <<child, dispatched, pumpError, late, told, waiting>>

ReadRequest ==
    /\ Reading("request") /\ dispatched < MaxSubCalls
    /\ dispatched' = dispatched + 1 /\ pump' = "dispatches"
    /\ late' = IF Alive THEN late ELSE late + 1
    /\ UNCHANGED <<child, pumpError, told, waiting>>

SubCallEnds ==
    /\ pump = "dispatches"
    /\ pump' = "writes"
    /\ UNCHANGED <<child, read, dispatched, pumpError, late, told, waiting>>

ReplyWritten ==
    /\ pump = "writes" /\ Alive
    /\ pump' = "reads"
    /\ UNCHANGED <<child, read, dispatched, pumpError, late, told, waiting>>

(* mutant: a reply that could not be written is ignored *)
ReplyFailsGoesOn ==
    /\ pump = "writes" /\ ~Alive
    /\ pump' = "reads"
    /\ UNCHANGED <<child, read, dispatched, pumpError, late, told, waiting>>

ReplyFails ==
    /\ pump = "writes" /\ ~Alive
    /\ pumpError' = TRUE /\ pump' = "over"
    /\ UNCHANGED <<child, read, dispatched, late, told, waiting>>

(* The program does not drain its stdin: it is killed, and the pump reads on. *)
ReplyTimesOut ==
    /\ pump = "writes" /\ Alive
    /\ Note("wedged") /\ Kill
    /\ pump' = "reads"
    /\ UNCHANGED <<read, dispatched, pumpError, late, final, failed, waiting>>

ReadEnds ==
    /\ pump = "reads" /\ ~Unread /\ StdoutEnds
    /\ pump' = "over"
    /\ UNCHANGED <<child, read, dispatched, pumpError, late, told, waiting>>

ReaderTimesOut ==
    /\ pump = "reads" /\ ~Unread
    /\ infra' = "timeout" /\ Kill
    /\ pump' = "over"
    /\ UNCHANGED <<read, dispatched, pumpError, late, final, failed, waiting>>

-----------------------------------------------------------------------------
(* The call *)

(* Bad arguments, no place for the program, no process. *)
Refuse ==
    /\ main = "idle"
    /\ main' = "answered" /\ answer' = "refused"
    /\ UNCHANGED <<child, pumping, told, timedOut, settle>>

Spawn ==
    /\ main = "idle"
    /\ main' = "races" /\ program' = "runs" /\ pump' = "reads"
    /\ UNCHANGED <<helper, wrote, read, dispatched, pumpError, late, told, timedOut, settle, answer>>

WallClockFires ==
    /\ main = "races" /\ pump # "over"
    /\ timedOut' = TRUE /\ Note("timeout") /\ Kill
    /\ main' = "settles"
    /\ UNCHANGED <<pumping, final, failed, settle, answer>>

PumpIsOver ==
    /\ main = "races" /\ pump = "over" /\ ~pumpError
    /\ main' = "settles"
    /\ UNCHANGED <<child, pumping, told, timedOut, settle, answer>>

PumpThrew ==
    /\ main = "races" /\ pump = "over" /\ pumpError
    /\ Kill
    /\ main' = "answered" /\ answer' = "protocol"
    /\ UNCHANGED <<pumping, told, timedOut, settle>>

Settles ==
    /\ main = "settles" /\ Closed
    /\ settle' = IF program = "ended" THEN "exit" ELSE "signal"
    /\ main' = "drains"
    /\ UNCHANGED <<child, pumping, told, timedOut, answer>>

(* mutant: the wait for the exit ends, and nobody is killed *)
GraceEndsInPeace ==
    /\ main = "settles"
    /\ main' = "reaps"
    /\ UNCHANGED <<child, pumping, told, timedOut, settle, answer>>

GraceEnds ==
    /\ main = "settles"
    /\ Kill
    /\ main' = "reaps"
    /\ UNCHANGED <<pumping, told, timedOut, settle, answer>>

(* The kill is reaped, or not within its grace. *)
Reaps ==
    /\ main = "reaps"
    /\ settle' = "killed" /\ main' = "drains"
    /\ UNCHANGED <<child, pumping, told, timedOut, answer>>

Verdict ==
    IF infra # "none" THEN "timeout" ELSE IF failed THEN "error"
    ELSE IF settle = "signal" /\ ~final THEN "cpu" ELSE IF final THEN "value" ELSE "aborted"

(* mutant: a program that finished has its value *)
OutcomeOfFinalFirst == IF final THEN "value" ELSE Verdict

OutcomeOf == Verdict

Drains ==
    /\ main = "drains" /\ Closed
    /\ main' = "answered" /\ answer' = OutcomeOf
    /\ UNCHANGED <<child, pumping, told, timedOut, settle>>

-----------------------------------------------------------------------------
ProgramStep ==
    \/ \E line \in Line : Writes(line)
    \/ \E where \in {"inGroup", "apart"} : Forks(where)
    \/ \E how \in {"ended", "signalled"} : ProgramEnds(how)
    \/ ClosesStdout \/ HelperEnds

\* What the pump does of itself.
Serve == ReadLog \/ ReadFinal \/ ReadError \/ ReadMalformed \/ ReadRefused \/ ReadRequest \/ ReplyFails \/ ReadEnds

BrokerNext ==
    \/ ProgramStep
    \/ Serve \/ SubCallEnds \/ ReplyWritten \/ ReplyTimesOut \/ ReaderTimesOut
    \/ Refuse \/ Spawn \/ WallClockFires \/ PumpIsOver \/ PumpThrew
    \/ Settles \/ GraceEnds \/ Reaps \/ Drains

(* The broker's own steps and its timers; neither the program, nor its
   descendants, nor the tool of a sub-call owes anything. *)
BrokerFairness ==
    /\ WF_brokerVars(Serve) /\ WF_brokerVars(WallClockFires)
    /\ WF_brokerVars(PumpIsOver) /\ WF_brokerVars(PumpThrew)
    /\ WF_brokerVars(Settles) /\ WF_brokerVars(GraceEnds) /\ WF_brokerVars(Reaps) /\ WF_brokerVars(Drains)

BrokerSpec == BrokerInit /\ [][BrokerNext]_brokerVars /\ BrokerFairness

-----------------------------------------------------------------------------
(* The invariant of types. *)
BrokerTypeOK ==
    /\ program \in {"none", "runs", "mute", "ended", "signalled", "killed"}
    /\ helper \in {"none", "inGroup", "apart"}
    /\ wrote \in Seq(Line) /\ read \in 0 .. Len(wrote)
    /\ pump \in {"off", "reads", "dispatches", "writes", "over"}
    /\ dispatched \in 0 .. MaxSubCalls /\ late \in Nat
    /\ pumpError \in BOOLEAN /\ final \in BOOLEAN /\ failed \in BOOLEAN /\ timedOut \in BOOLEAN
    /\ infra \in {"none", "timeout", "wedged"}
    /\ main \in {"idle", "races", "settles", "reaps", "drains", "answered"}
    /\ settle \in {"none", "exit", "signal", "killed"}
    /\ answer \in {"none", "refused", "value", "error", "timeout", "cpu", "aborted", "protocol"}

\* The first line that ends a program is `line`.
EndedWith(line) ==
    \E i \in 1 .. Len(wrote) : wrote[i] = line /\ \A j \in 1 .. i - 1 : wrote[j] \notin LastWords
NothingLast == \A i \in 1 .. Len(wrote) : wrote[i] \notin LastWords

(* The answer is what happened: a value or a program error is the program's own
   last word; a CPU kill is the kernel's, never the broker's; a call is aborted
   only if its program said no last word; and once the wall clock has fired, or
   a reply was not drained, the answer is no value.  (After a reply that was not
   drained the pump reads on, so that the answer may be "protocol".) *)
VerdictIsTrue ==
    main = "answered" =>
        /\ answer = "value" => EndedWith("final")
        /\ answer = "error" => EndedWith("error")
        /\ answer \in {"cpu", "aborted"} => NothingLast
        /\ answer = "cpu" => program = "signalled"
        /\ timedOut => answer = "timeout"
        /\ infra # "none" => answer \in {"timeout", "protocol"}

(* No side effect outlives its call by more than the code allows: at most one
   sub-call is started for a program that is dead, whatever it has written; and
   when the call has been answered the program and its group are dead, and the
   pump at rest unless the wall clock cut it. *)
EffectsEnd ==
    /\ late <= 1
    /\ main = "answered" =>
        /\ ~Alive /\ helper # "inGroup"
        /\ (pump \in {"off", "over"} \/ timedOut)

(* A call is answered, whatever its program and the tools of its sub-calls do,
   unless a descendant apart from the program's group holds its stderr. *)
CallReturns == <>[](helper # "apart") => (main = "races" ~> main = "answered")
=============================================================================
