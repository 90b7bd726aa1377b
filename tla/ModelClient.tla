------------------------------ MODULE ModelClient ------------------------------
(***************************************************************************)
(* The requests that calls of generate() send to the model targets         *)
(* (packages/llm/src): the retry of one target inside (retry.ts), the hand *)
(* over to the next target outside (fallback.ts), the target health that   *)
(* every session of the process shares, the ledger step of each target     *)
(* tried, and the agent loop that may stop listening at any moment         *)
(* (agent-loop/src/cancel.ts, loop.ts).                                    *)
(*                                                                         *)
(* A call has the chain of targets or, where the host configured none,     *)
(* only the retry of its one target.  A cancel does not reach the client:  *)
(* the loop abandons what it waits for, and the generator goes on until it *)
(* yields to nobody.                                                       *)
(***************************************************************************)
EXTENDS Naturals, SequencesExt

CONSTANTS
    Calls,
    Targets,           \* the chain in its configured order
    MaxAttempts,       \* FallbackPolicy.maxAttempts: targets tried by a call
    MaxRetries,        \* RetryPolicy.maxRetries: extra requests per target
    FailureThreshold   \* FallbackPolicy.failureThreshold

ASSUME ModelClientAssumption ==
    /\ Targets \in Seq(Range(Targets)) /\ Len(Targets) > 0
    /\ MaxAttempts \in Nat \ {0} /\ MaxRetries \in 0..3
    /\ FailureThreshold \in Nat \ {0}

VARIABLES
    failures,   \* [targets -> consecutive failures]
    cooling     \* the benched targets

health == <<failures, cooling>>

VARIABLES
    phase,      \* where each call is
    armed,      \* does the call have the chain?
    plan,       \* the targets it will try
    attempt,    \* the one it is at
    retry,      \* the retries spent on it
    sent,       \* requests sent so far
    produced,   \* has this response produced output?
    shown,      \* has the loop seen output of this call?
    rows,       \* the ledger steps closed so far
    cancelled,  \* has the loop stopped listening?
    outcome

progress == <<plan, attempt, retry, sent>>
seen == <<produced, shown>>
vars == <<health, phase, armed, progress, seen, rows, cancelled, outcome>>

Phases == {"idle", "opening", "backoff", "handover", "streaming", "ended", "abandoned"}

-----------------------------------------------------------------------------
(* Cooled-down targets go last, in their configured order like the others: the one
   order of the positions of Targets that puts every warm one before. *)
OrderTargets ==
    LET Precedes(j, k) ==
            IF (Targets[j] \in cooling) = (Targets[k] \in cooling) THEN j < k
            ELSE Targets[k] \in cooling
    IN {p \in [DOMAIN Targets -> DOMAIN Targets] :
            \A m, n \in DOMAIN p : m < n => Precedes(p[m], p[n])}

Chains == {[n \in 1..Min({MaxAttempts, Len(Targets)}) |-> Targets[p[n]]] : p \in OrderTargets}

Target(i) == plan[i][attempt[i]]

(* mutant: output does not lock the attempt *)
CanRetryAlways(i) == retry[i] < MaxRetries
(* Nothing was produced, and the budget is left; no abort ever arrives here. *)
CanRetry(i) == ~produced[i] /\ retry[i] < MaxRetries

NoteFailure(t) ==
    /\ failures' = [failures EXCEPT ![t] = @ + 1]
    /\ cooling' = IF failures[t] + 1 >= FailureThreshold THEN cooling \cup {t} ELSE cooling

(* mutant: an answer does not take the target off the bench *)
NoteSuccessStaysBenched(t) == failures' = [failures EXCEPT ![t] = 0] /\ UNCHANGED cooling
NoteSuccess(t) ==
    /\ failures' = [failures EXCEPT ![t] = 0]
    /\ cooling' = cooling \ {t}

(* mutant: a step is not booked when the loop leaves (W835) *)
CloseStepOnError(i, how) ==
    rows' = IF armed[i] /\ how = "error" THEN [rows EXCEPT ![i] = Append(@, how)] ELSE rows
(* The ledger step of the target, where the chain opened one. *)
CloseStep(i, how) ==
    rows' = IF armed[i] THEN [rows EXCEPT ![i] = Append(@, how)] ELSE rows

End(i, how) ==
    /\ phase' = [phase EXCEPT ![i] = "ended"]
    /\ outcome' = [outcome EXCEPT ![i] = how]

-----------------------------------------------------------------------------
(* Earlier calls of the process may have left failures behind. *)
Init ==
    /\ failures \in [Range(Targets) -> 0..(FailureThreshold - 1)] /\ cooling = {}
    /\ phase = [i \in Calls |-> "idle"]
    /\ armed \in [Calls -> BOOLEAN]
    /\ plan = [i \in Calls |-> <<>>] /\ attempt = [i \in Calls |-> 1]
    /\ retry = [i \in Calls |-> 0] /\ sent = [i \in Calls |-> 0]
    /\ produced = [i \in Calls |-> FALSE] /\ shown = [i \in Calls |-> FALSE]
    /\ rows = [i \in Calls |-> <<>>]
    /\ cancelled = [i \in Calls |-> FALSE] /\ outcome = [i \in Calls |-> "none"]

SendRequest(i) ==
    /\ phase' = [phase EXCEPT ![i] = "opening"]
    /\ sent' = [sent EXCEPT ![i] = @ + 1]
    /\ produced' = [produced EXCEPT ![i] = FALSE]

Start(i) ==
    /\ phase[i] = "idle"
    /\ \E chain \in IF armed[i] THEN Chains ELSE {<< Targets[1] >>} :
          plan' = [plan EXCEPT ![i] = chain]
    /\ SendRequest(i)
    /\ UNCHANGED <<health, armed, attempt, retry, shown, rows, cancelled, outcome>>

(* Without the chain the first response is awaited inside generate(); a loop that
   has left gets a stream which nobody reads and nobody closes. *)
Eager(i) == ~armed[i] /\ outcome[i] = "none"

OpenSucceeds(i) ==
    /\ phase[i] = "opening"
    /\ phase' = [phase EXCEPT ![i] = IF Eager(i) /\ cancelled[i] THEN "abandoned" ELSE "streaming"]
    /\ outcome' = [outcome EXCEPT ![i] = "opened"]
    /\ UNCHANGED <<health, armed, progress, seen, rows, cancelled>>

(* This target is given up: the next one, or the end. *)
AttemptFails(i, again) ==
    /\ CloseStep(i, "error")
    /\ \/ armed[i] /\ NoteFailure(Target(i))
       \/ ~armed[i] /\ UNCHANGED health
    /\ \/ /\ again /\ attempt[i] < Len(plan[i])
          /\ phase' = [phase EXCEPT ![i] = "handover"]
          /\ UNCHANGED outcome
       \/ /\ ~(again /\ attempt[i] < Len(plan[i]))
          /\ End(i, "failed")
    /\ UNCHANGED <<armed, progress, seen, cancelled>>

BackOff(i) ==
    /\ phase' = [phase EXCEPT ![i] = "backoff"]
    /\ UNCHANGED <<health, armed, progress, seen, rows, cancelled, outcome>>

(* A refused status is fatal; a time-out, the network or a 5xx is retryable. *)
OpenFails(i, retryable) ==
    /\ phase[i] = "opening"
    /\ \/ retryable /\ CanRetry(i) /\ BackOff(i)
       \/ ~(retryable /\ CanRetry(i)) /\ AttemptFails(i, retryable)

(* mutant: the abort clears the timer of the wait *)
BackoffEndsIfHeard(i) ==
    /\ phase[i] = "backoff" /\ ~cancelled[i]
    /\ retry' = [retry EXCEPT ![i] = @ + 1]
    /\ SendRequest(i)
    /\ UNCHANGED <<health, armed, plan, attempt, shown, rows, cancelled, outcome>>
BackoffEnds(i) ==
    /\ phase[i] = "backoff"
    /\ retry' = [retry EXCEPT ![i] = @ + 1]
    /\ SendRequest(i)
    /\ UNCHANGED <<health, armed, plan, attempt, shown, rows, cancelled, outcome>>

(* honourRetryAfter has waited or not; the next target is tried. *)
HandOver(i) ==
    /\ phase[i] = "handover"
    /\ attempt' = [attempt EXCEPT ![i] = @ + 1]
    /\ retry' = [retry EXCEPT ![i] = 0]
    /\ SendRequest(i)
    /\ UNCHANGED <<health, armed, plan, shown, rows, cancelled, outcome>>

(* The generator yields to a loop that has left: its return closes the response. *)
Returned(i, how) ==
    /\ CloseStep(i, "ok")
    /\ End(i, how)
    /\ UNCHANGED <<health, armed, progress, seen, cancelled>>

Delta(i) ==
    /\ phase[i] = "streaming" /\ ~cancelled[i]
    /\ produced' = [produced EXCEPT ![i] = TRUE]
    /\ shown' = [shown EXCEPT ![i] = TRUE]
    /\ UNCHANGED <<health, phase, armed, progress, rows, cancelled, outcome>>

(* A delta or the end of the answer of a call that was cancelled. *)
YieldsToNobody(i) ==
    /\ phase[i] = "streaming" /\ cancelled[i]
    /\ Returned(i, "left")

(* convicts: the repetition guard closes the stream at a delta. *)
Convict(i) ==
    /\ phase[i] = "streaming" /\ ~cancelled[i] /\ shown[i]
    /\ Returned(i, "left")

Done(i) ==
    /\ phase[i] = "streaming" /\ ~cancelled[i]
    /\ CloseStep(i, "ok") /\ End(i, "done")
    /\ \/ armed[i] /\ NoteSuccess(Target(i))
       \/ ~armed[i] /\ UNCHANGED health
    /\ UNCHANGED <<armed, progress, seen, cancelled>>

(* An error frame, a stall, a broken read, or an end without [DONE]. *)
StreamFails(i) ==
    /\ phase[i] = "streaming"
    /\ \/ CanRetry(i) /\ BackOff(i)
       \/ ~CanRetry(i) /\ AttemptFails(i, ~produced[i])

(* raceAbort answers the loop; closeIterator queues the return. *)
Cancel(i) ==
    /\ phase[i] \in {"opening", "backoff", "handover", "streaming"} /\ ~cancelled[i]
    /\ cancelled' = [cancelled EXCEPT ![i] = TRUE]
    /\ UNCHANGED <<health, phase, armed, progress, seen, rows, outcome>>

CooldownEnds(t) ==
    /\ t \in cooling
    /\ cooling' = cooling \ {t}
    /\ UNCHANGED <<failures, phase, armed, progress, seen, rows, cancelled, outcome>>

Goes(i) ==
    \/ OpenSucceeds(i) \/ BackoffEnds(i) \/ HandOver(i)
    \/ YieldsToNobody(i) \/ StreamFails(i)
    \/ \E retryable \in BOOLEAN : OpenFails(i, retryable)

Next ==
    \/ \E i \in Calls : Start(i) \/ Goes(i) \/ Delta(i) \/ Convict(i) \/ Done(i) \/ Cancel(i)
    \/ \E t \in Range(Targets) : CooldownEnds(t)

(* A cancelled call goes on by itself: the connect, response and idle time-outs
   bound every wait for the upstream, and timers end every other. *)
Fairness == \A i \in Calls : WF_vars(cancelled[i] /\ Goes(i))

Spec == Init /\ [][Next]_vars /\ Fairness

-----------------------------------------------------------------------------
Outcomes == {"none", "opened", "done", "left", "failed"}

(* The lock of fallback.ts and retry.ts: once the loop has seen a delta of the
   answer no request of the call is sent again, on this target or the next, so no
   reader ever sees the beginning of an answer twice. *)
OutputIsNeverRepeated == [][\A i \in Calls : sent'[i] > sent[i] => ~shown[i]]_vars

(* Every target a call has left behind has exactly one ledger step, with an
   error; a call that is over has one for its last target too, an error just when
   the call failed: neither a cancel nor the repetition guard loses the usage
   that was recorded (W835). *)
TargetsAreBooked ==
    \A i \in Calls : armed[i] =>
        LET over == phase[i] \in {"ended", "handover"}
            good == outcome[i] \in {"done", "left"}
        IN  /\ Len(rows[i]) = IF over THEN attempt[i] ELSE attempt[i] - 1
            /\ \A k \in DOMAIN rows[i] : rows[i][k] = IF good /\ k = attempt[i] THEN "ok" ELSE "error"

(* A target is benched only while its last FailureThreshold answers, whoever asked
   for them, were failures: calls of every session write this table. *)
BenchedHasFailed == \A t \in cooling : failures[t] >= FailureThreshold

(* Whatever the upstream does, the response of a cancelled call of the chain is
   closed in the end, and with it its ledger step. *)
CancelledIsReleased == \A i \in Calls : armed[i] /\ cancelled[i] ~> phase[i] = "ended"
=============================================================================
