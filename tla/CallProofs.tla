------------------------------ MODULE CallProofs ------------------------------
(***************************************************************************)
(* What holds of the two calls a turn waits for outside the process: the   *)
(* call of a model and the call of a program.                              *)
(*                                                                         *)
(* A model call, for every chain of targets and every budget: no output is *)
(* repeated, every target that was tried is booked once, and a benched     *)
(* target has failed.                                                      *)
(*                                                                         *)
(* A run_code call, for every number of sub-calls and lines: its invariant *)
(* says what each stage of the two activities may rely on.  The lines the  *)
(* running pump has passed are not last words, a recorded last word is the *)
(* first on stdout, a stage of `main` after the race has the pump at rest  *)
(* or the wall clock fired, and every kill of the broker leaves a reason   *)
(* other than the CPU limit.                                               *)
(***************************************************************************)
EXTENDS ModelClient, CodeBroker, SequenceTheorems, TLAPS

-----------------------------------------------------------------------------
(* A model call: the inductive invariants *)

\* The types of what the proofs read; the plan and the health of the targets are
\* left open.
CallTypes ==
    /\ phase \in [Calls -> Phases] /\ armed \in [Calls -> BOOLEAN]
    /\ attempt \in [Calls -> Nat \ {0}] /\ sent \in [Calls -> Nat]
    /\ produced \in [Calls -> BOOLEAN] /\ shown \in [Calls -> BOOLEAN]
    /\ rows \in [Calls -> Seq({"ok", "error"})]
    /\ outcome \in [Calls -> Outcomes]

\* Until a response streams the loop has seen nothing, and what it has seen then
\* locks the attempt.
Locked(i) ==
    /\ phase[i] \in {"idle", "opening", "backoff", "handover"} => ~shown[i]
    /\ phase[i] = "streaming" /\ shown[i] => produced[i]

\* A call that was answered or left is over.
Settled(i) == outcome[i] \in {"done", "left"} => phase[i] = "ended"

Booked(i) ==
    armed[i] =>
        LET over == phase[i] \in {"ended", "handover"}
            good == outcome[i] \in {"done", "left"}
        IN  /\ Len(rows[i]) = IF over THEN attempt[i] ELSE attempt[i] - 1
            /\ \A k \in DOMAIN rows[i] : rows[i][k] = IF good /\ k = attempt[i] THEN "ok" ELSE "error"

CallInv == CallTypes /\ \A i \in Calls : Locked(i) /\ Settled(i) /\ Booked(i)

\* A step of call i: the others keep all of theirs.
LEMMA OthersKeep ==
    ASSUME CallInv, CallTypes', NEW i \in Calls,
           \A j \in Calls : j # i =>
               /\ phase'[j] = phase[j] /\ armed'[j] = armed[j] /\ attempt'[j] = attempt[j]
               /\ produced'[j] = produced[j] /\ shown'[j] = shown[j]
               /\ rows'[j] = rows[j] /\ outcome'[j] = outcome[j],
           Locked(i)', Settled(i)', Booked(i)'
    PROVE  CallInv'
BY DEF CallInv, Locked, Settled, Booked

\* The rows of a call with one more.
LEMMA SeqAppend ==
    ASSUME NEW s \in Seq({"ok", "error"}), NEW e \in {"ok", "error"}
    PROVE  /\ Append(s, e) \in Seq({"ok", "error"}) /\ Len(Append(s, e)) = Len(s) + 1
           /\ DOMAIN Append(s, e) = 1 .. Len(s) + 1 /\ DOMAIN s = 1 .. Len(s) /\ Len(s) \in Nat
           /\ Append(s, e)[Len(s) + 1] = e
           /\ \A k \in 1 .. Len(s) : Append(s, e)[k] = s[k]
OBVIOUS

\* The ledger step that is closed where a target is left behind.
LEMMA CloseStepRows ==
    ASSUME CallInv, NEW i \in Calls, NEW how \in {"ok", "error"}, CloseStep(i, how),
           phase[i] \in {"opening", "streaming"}
    PROVE  /\ rows' \in [Calls -> Seq({"ok", "error"})]
           /\ \A j \in Calls : j # i => rows'[j] = rows[j]
           /\ armed[i] => /\ Len(rows'[i]) = attempt[i] /\ DOMAIN rows'[i] = 1 .. attempt[i]
                          /\ rows'[i][attempt[i]] = how
                          /\ \A k \in 1 .. attempt[i] - 1 : rows'[i][k] = "error"
<1>1. CallTypes /\ Settled(i) /\ Booked(i)
    BY DEF CallInv
<1>2. CASE ~armed[i]
    BY <1>1, <1>2 DEF CallTypes, CloseStep
<1>3. CASE armed[i]
  <2>1. rows' = [rows EXCEPT ![i] = Append(rows[i], how)]
      BY <1>3 DEF CloseStep
  <2>2. rows[i] \in Seq({"ok", "error"}) /\ attempt[i] \in Nat \ {0}
      BY <1>1 DEF CallTypes
  <2>3. rows'[i] = Append(rows[i], how) /\ \A j \in Calls : j # i => rows'[j] = rows[j]
      BY <1>1, <2>1 DEF CallTypes
  <2>4. rows' \in [Calls -> Seq({"ok", "error"})]
      BY <1>1, <2>1, <2>2, SeqAppend DEF CallTypes
  <2>5. Len(rows[i]) = attempt[i] - 1 /\ \A k \in DOMAIN rows[i] : rows[i][k] = "error"
    <3>1. phase[i] \notin {"ended", "handover"} /\ outcome[i] \notin {"done", "left"}
        BY <1>1 DEF Settled
    <3> QED  BY <1>1, <1>3, <3>1 DEF Booked
  <2> QED  BY <1>3, <2>2, <2>3, <2>4, <2>5, SeqAppend
<1> QED  BY <1>2, <1>3

-----------------------------------------------------------------------------
(* The actions *)

\* The invariant of the calls holds at the start.
LEMMA CallInvInit == Init => CallInv
<1> SUFFICES ASSUME Init PROVE CallInv
    OBVIOUS
<1>1. CallTypes
  <2>1. <<>> \in Seq({"ok", "error"})
      OBVIOUS
  <2> QED  BY <2>1 DEF Init, CallTypes, Phases, Outcomes
<1>2. ASSUME NEW i \in Calls
      PROVE  Locked(i) /\ Settled(i) /\ Booked(i)
    BY DEF Init, Locked, Settled, Booked
<1> QED  BY <1>1, <1>2 DEF CallInv

\* A request goes out: at the start, after the wait, or to the next target.
LEMMA SendsInv ==
    ASSUME CallInv, NEW i \in Calls, Start(i) \/ BackoffEnds(i) \/ HandOver(i)
    PROVE  CallInv'
<1>1. CallTypes /\ Locked(i) /\ Settled(i) /\ Booked(i)
    BY DEF CallInv
<1>2. /\ phase[i] \in {"idle", "backoff", "handover"}
      /\ phase' = [phase EXCEPT ![i] = "opening"]
      /\ sent' = [sent EXCEPT ![i] = sent[i] + 1]
      /\ produced' = [produced EXCEPT ![i] = FALSE]
      /\ UNCHANGED <<armed, shown, rows, outcome>>
      /\ \/ phase[i] # "handover" /\ attempt' = attempt
         \/ phase[i] = "handover" /\ attempt' = [attempt EXCEPT ![i] = attempt[i] + 1]
    BY DEF Start, BackoffEnds, HandOver, SendRequest
<1>3. /\ phase'[i] = "opening" /\ attempt[i] \in Nat /\ sent[i] \in Nat
      /\ attempt'[i] = IF phase[i] = "handover" THEN attempt[i] + 1 ELSE attempt[i]
    BY <1>1, <1>2 DEF CallTypes
<1>4. CallTypes'
  <2>1. phase' \in [Calls -> Phases]
      BY <1>1, <1>2 DEF CallTypes, Phases
  <2>2. attempt' \in [Calls -> Nat \ {0}]
    <3>1. attempt \in [Calls -> Nat \ {0}] /\ attempt[i] + 1 \in Nat \ {0}
        BY <1>1 DEF CallTypes
    <3> QED  BY <1>2, <3>1
  <2>3. sent' \in [Calls -> Nat]
      BY <1>1, <1>2 DEF CallTypes
  <2>4. produced' \in [Calls -> BOOLEAN]
      BY <1>1, <1>2 DEF CallTypes
  <2> QED  BY <1>1, <1>2, <2>1, <2>2, <2>3, <2>4 DEF CallTypes
<1>5. outcome[i] \notin {"done", "left"} /\ ~shown[i]
    BY <1>1, <1>2 DEF Locked, Settled
<1>6. Locked(i)' /\ Settled(i)'
    BY <1>2, <1>3, <1>5 DEF Locked, Settled
<1>7. Booked(i)'
  <2>1. armed[i] => Len(rows[i]) = attempt'[i] - 1
      BY <1>1, <1>2, <1>3 DEF Booked
  <2>2. armed[i] => \A k \in DOMAIN rows[i] : rows[i][k] = "error"
      BY <1>1, <1>5 DEF Booked
  <2> QED  BY <1>2, <1>3, <1>5, <2>1, <2>2 DEF Booked
<1>8. \A j \in Calls : j # i =>
               /\ phase'[j] = phase[j] /\ armed'[j] = armed[j] /\ attempt'[j] = attempt[j]
               /\ produced'[j] = produced[j] /\ shown'[j] = shown[j]
               /\ rows'[j] = rows[j] /\ outcome'[j] = outcome[j]
    BY <1>1, <1>2 DEF CallTypes
<1> QED  BY <1>4, <1>6, <1>7, <1>8, OthersKeep

\* What only waits, listens or streams.
LEMMA WaitsInv ==
    ASSUME CallInv, NEW i \in Calls,
           \/ OpenSucceeds(i)
           \/ phase[i] = "opening" /\ BackOff(i)
           \/ phase[i] = "streaming" /\ CanRetry(i) /\ BackOff(i)
           \/ Delta(i) \/ Cancel(i)
    PROVE  CallInv'
<1>1. CallTypes /\ Locked(i) /\ Settled(i) /\ Booked(i)
    BY DEF CallInv
<1>2. UNCHANGED <<armed, progress, rows>>
    BY DEF OpenSucceeds, BackOff, Delta, Cancel, progress
<1>3. CASE OpenSucceeds(i)
  <2>1. /\ phase[i] = "opening" /\ UNCHANGED <<produced, shown>>
        /\ \E p \in {"abandoned", "streaming"} :
              phase' = [phase EXCEPT ![i] = p] /\ (p = "abandoned" => ~armed[i])
        /\ outcome' = [outcome EXCEPT ![i] = "opened"]
      BY <1>3 DEF OpenSucceeds, Eager, seen
  <2>2. PICK p \in {"abandoned", "streaming"} :
            phase' = [phase EXCEPT ![i] = p] /\ (p = "abandoned" => ~armed[i])
      BY <2>1
  <2>3. CallTypes'
      BY <1>1, <1>2, <2>1, <2>2 DEF CallTypes, progress, Phases, Outcomes
  <2>4. phase'[i] = p /\ outcome'[i] = "opened" /\ ~shown[i]
      BY <1>1, <2>1, <2>2 DEF CallTypes, Locked
  <2>5. Locked(i)' /\ Settled(i)'
      BY <2>1, <2>2, <2>4 DEF Locked, Settled
  <2>6. Booked(i)'
      BY <1>1, <1>2, <2>1, <2>2, <2>4 DEF Booked, Settled, progress
  <2>7. \A j \in Calls : j # i =>
               /\ phase'[j] = phase[j] /\ armed'[j] = armed[j] /\ attempt'[j] = attempt[j]
               /\ produced'[j] = produced[j] /\ shown'[j] = shown[j]
               /\ rows'[j] = rows[j] /\ outcome'[j] = outcome[j]
      BY <1>1, <1>2, <2>1, <2>2 DEF CallTypes, progress
  <2> QED  BY <2>3, <2>5, <2>6, <2>7, OthersKeep
<1>4. CASE BackOff(i) /\ (phase[i] = "opening" \/ (phase[i] = "streaming" /\ CanRetry(i)))
  <2>1. phase' = [phase EXCEPT ![i] = "backoff"] /\ UNCHANGED <<produced, shown, outcome>>
      BY <1>4 DEF BackOff, seen
  <2>2. CallTypes'
      BY <1>1, <1>2, <2>1 DEF CallTypes, progress, Phases
  <2>3. phase'[i] = "backoff" /\ ~shown[i]
      BY <1>1, <1>4, <2>1 DEF CallTypes, Locked, CanRetry
  <2>4. Locked(i)' /\ Settled(i)'
      BY <1>1, <1>4, <2>1, <2>3 DEF Locked, Settled
  <2>5. Booked(i)'
      BY <1>1, <1>2, <1>4, <2>1, <2>3 DEF Booked, Settled, progress
  <2>6. \A j \in Calls : j # i =>
               /\ phase'[j] = phase[j] /\ armed'[j] = armed[j] /\ attempt'[j] = attempt[j]
               /\ produced'[j] = produced[j] /\ shown'[j] = shown[j]
               /\ rows'[j] = rows[j] /\ outcome'[j] = outcome[j]
      BY <1>1, <1>2, <2>1 DEF CallTypes, progress
  <2> QED  BY <2>2, <2>4, <2>5, <2>6, OthersKeep
<1>5. CASE Delta(i)
  <2>1. /\ phase[i] = "streaming" /\ UNCHANGED <<phase, outcome>>
        /\ produced' = [produced EXCEPT ![i] = TRUE] /\ shown' = [shown EXCEPT ![i] = TRUE]
      BY <1>5 DEF Delta
  <2>2. CallTypes'
      BY <1>1, <1>2, <2>1 DEF CallTypes, progress
  <2>3. Locked(i)' /\ Settled(i)' /\ Booked(i)'
      BY <1>1, <1>2, <2>1 DEF CallTypes, Locked, Settled, Booked, progress
  <2>4. \A j \in Calls : j # i =>
               /\ phase'[j] = phase[j] /\ armed'[j] = armed[j] /\ attempt'[j] = attempt[j]
               /\ produced'[j] = produced[j] /\ shown'[j] = shown[j]
               /\ rows'[j] = rows[j] /\ outcome'[j] = outcome[j]
      BY <1>1, <1>2, <2>1 DEF CallTypes, progress
  <2> QED  BY <2>2, <2>3, <2>4, OthersKeep
<1>6. CASE Cancel(i)
    BY <1>1, <1>2, <1>6 DEF Cancel, CallInv, CallTypes, Locked, Settled, Booked, progress, seen
<1> QED  BY <1>3, <1>4, <1>5, <1>6

\* The call leaves its target: it ends, or hands over while nothing was produced.
LEMMA LeavesInv ==
    ASSUME CallInv, NEW i \in Calls, NEW how \in {"ok", "error"}, CloseStep(i, how),
           phase[i] \in {"opening", "streaming"},
           UNCHANGED <<armed, progress, seen>>,
           \/ /\ how = "ok"
              /\ \E o \in {"done", "left"} : End(i, o)
           \/ how = "error" /\ End(i, "failed")
           \/ /\ how = "error" /\ ~shown[i]
              /\ phase' = [phase EXCEPT ![i] = "handover"] /\ UNCHANGED outcome
    PROVE  CallInv'
<1>1. CallTypes /\ Locked(i) /\ Settled(i) /\ Booked(i)
    BY DEF CallInv
<1>2. /\ rows' \in [Calls -> Seq({"ok", "error"})]
      /\ \A j \in Calls : j # i => rows'[j] = rows[j]
      /\ armed[i] => /\ Len(rows'[i]) = attempt[i] /\ DOMAIN rows'[i] = 1 .. attempt[i]
                     /\ rows'[i][attempt[i]] = how
                     /\ \A k \in 1 .. attempt[i] - 1 : rows'[i][k] = "error"
    BY CloseStepRows
<1>3. UNCHANGED <<armed, attempt, sent, produced, shown>>
    BY DEF progress, seen
<1>4. \E p \in {"ended", "handover"}, o \in Outcomes :
          /\ phase' = [phase EXCEPT ![i] = p] /\ outcome' = [outcome EXCEPT ![i] = o]
          /\ p = "handover" => ~shown[i] /\ o = outcome[i]
          /\ o \in {"done", "left"} <=> how = "ok"
  <2>1. outcome = [outcome EXCEPT ![i] = outcome[i]] /\ outcome[i] \in Outcomes
      BY <1>1 DEF CallTypes
  <2>2. outcome[i] \notin {"done", "left"}
      BY <1>1 DEF Settled
  <2> QED  BY <2>1, <2>2 DEF End, Outcomes
<1>5. PICK p \in {"ended", "handover"}, o \in Outcomes :
          /\ phase' = [phase EXCEPT ![i] = p] /\ outcome' = [outcome EXCEPT ![i] = o]
          /\ p = "handover" => ~shown[i] /\ o = outcome[i]
          /\ o \in {"done", "left"} <=> how = "ok"
    BY <1>4
<1>6. CallTypes'
    BY <1>1, <1>2, <1>3, <1>5 DEF CallTypes, Phases
<1>7. phase'[i] = p /\ outcome'[i] = o /\ attempt[i] \in Nat \ {0}
    BY <1>1, <1>5 DEF CallTypes
<1>8. Locked(i)' /\ Settled(i)'
  <2>1. p = "handover" => o \notin {"done", "left"}
      BY <1>1, <1>5 DEF Settled
  <2> QED  BY <1>3, <1>5, <1>7, <2>1 DEF Locked, Settled
<1>9. Booked(i)'
  <2>1. CASE armed[i]
    <3>1. \A k \in 1 .. attempt[i] : k = attempt[i] \/ k \in 1 .. attempt[i] - 1
        BY <1>7
    <3>2. \A k \in DOMAIN rows'[i] : rows'[i][k] = IF how = "ok" /\ k = attempt[i] THEN "ok" ELSE "error"
        BY <1>2, <1>7, <2>1, <3>1
    <3> QED  BY <1>2, <1>3, <1>5, <1>7, <2>1, <3>2 DEF Booked
  <2>2. CASE ~armed[i]
      BY <1>3, <2>2 DEF Booked
  <2> QED  BY <2>1, <2>2
<1>10. \A j \in Calls : j # i =>
               /\ phase'[j] = phase[j] /\ armed'[j] = armed[j] /\ attempt'[j] = attempt[j]
               /\ produced'[j] = produced[j] /\ shown'[j] = shown[j]
               /\ rows'[j] = rows[j] /\ outcome'[j] = outcome[j]
    BY <1>1, <1>2, <1>3, <1>5 DEF CallTypes
<1> QED  BY <1>6, <1>8, <1>9, <1>10, OthersKeep

\* A failed attempt closes its row, and the next one is opened only by a call that goes on.
LEMMA AttemptFailsInv ==
    ASSUME CallInv, NEW i \in Calls, NEW again \in BOOLEAN, AttemptFails(i, again),
           phase[i] \in {"opening", "streaming"}, again => ~shown[i]
    PROVE  CallInv'
<1>1. CloseStep(i, "error") /\ UNCHANGED <<armed, progress, seen>>
    BY DEF AttemptFails
<1>2. \/ ~shown[i] /\ phase' = [phase EXCEPT ![i] = "handover"] /\ UNCHANGED outcome
      \/ End(i, "failed")
    BY DEF AttemptFails
<1> QED  BY <1>1, <1>2, LeavesInv

\* Every step keeps the invariant of the calls.
LEMMA CallInvStep == CallInv /\ [Next]_vars => CallInv'
<1> SUFFICES ASSUME CallInv, [Next]_vars PROVE CallInv'
    OBVIOUS
<1>1. ASSUME NEW i \in Calls, Start(i) \/ BackoffEnds(i) \/ HandOver(i) PROVE CallInv'
    BY <1>1, SendsInv
<1>2. ASSUME NEW i \in Calls, OpenSucceeds(i) \/ Delta(i) \/ Cancel(i) PROVE CallInv'
    BY <1>2, WaitsInv
<1>3. ASSUME NEW i \in Calls, NEW retryable \in BOOLEAN, OpenFails(i, retryable) PROVE CallInv'
  <2>1. phase[i] = "opening" /\ ~shown[i]
      BY <1>3 DEF OpenFails, CallInv, Locked
  <2> QED  BY <1>3, <2>1, WaitsInv, AttemptFailsInv DEF OpenFails
<1>4. ASSUME NEW i \in Calls, StreamFails(i) PROVE CallInv'
  <2>1. phase[i] = "streaming" /\ ((~produced[i]) => ~shown[i]) /\ (~produced[i]) \in BOOLEAN
      BY <1>4 DEF StreamFails, CallInv, Locked
  <2> QED  BY <1>4, <2>1, WaitsInv, AttemptFailsInv DEF StreamFails
<1>5. ASSUME NEW i \in Calls, YieldsToNobody(i) \/ Convict(i) \/ Done(i) PROVE CallInv'
  <2>1. /\ phase[i] = "streaming" /\ CloseStep(i, "ok") /\ UNCHANGED <<armed, progress, seen>>
        /\ \E o \in {"done", "left"} : End(i, o)
      BY <1>5 DEF YieldsToNobody, Convict, Done, Returned
  <2> QED  BY <2>1, LeavesInv
<1>6. ASSUME (\E t \in Range(Targets) : CooldownEnds(t)) \/ UNCHANGED vars PROVE CallInv'
    BY <1>6 DEF CooldownEnds, vars, progress, seen, CallInv, CallTypes, Locked, Settled, Booked
<1> QED  BY <1>1, <1>2, <1>3, <1>4, <1>5, <1>6 DEF Next, Goes

\* It holds in every reachable state.
LEMMA CallInvAlways == Spec => []CallInv
<1> QED  BY CallInvInit, CallInvStep, PTL DEF Spec

-----------------------------------------------------------------------------
(* The theorems *)

\* A request of a call goes out only while the loop has seen nothing of it: only
\* the three actions of SendsInv send one, and none of them streams.
THEOREM OutputNeverRepeated == Spec => OutputIsNeverRepeated
<1>1. ASSUME CallInv, [Next]_vars, NEW i \in Calls, sent'[i] > sent[i]
      PROVE  ~shown[i]
  <2>1. sent[i] \in Nat
      BY <1>1 DEF CallInv, CallTypes
  <2>2. sent' # sent
      BY <1>1, <2>1
  <2>3. PICK j \in Calls : Start(j) \/ BackoffEnds(j) \/ HandOver(j)
    <3>1. \A j \in Calls : OpenSucceeds(j) \/ Delta(j) \/ Convict(j) \/ Done(j) \/ Cancel(j)
                                \/ YieldsToNobody(j) => sent' = sent
        BY DEF OpenSucceeds, Delta, Convict, Done, Cancel, YieldsToNobody, Returned, progress
    <3>2. \A j \in Calls : StreamFails(j) => sent' = sent
        BY DEF StreamFails, BackOff, AttemptFails, progress
    <3>3. \A j \in Calls, retryable \in BOOLEAN : OpenFails(j, retryable) => sent' = sent
        BY DEF OpenFails, BackOff, AttemptFails, progress
    <3>4. (\E t \in Range(Targets) : CooldownEnds(t)) \/ UNCHANGED vars => sent' = sent
        BY DEF CooldownEnds, vars, progress
    <3> QED  BY <1>1, <2>2, <3>1, <3>2, <3>3, <3>4 DEF Next, Goes
  <2>4. sent' = [sent EXCEPT ![j] = sent[j] + 1] /\ phase[j] \in {"idle", "backoff", "handover"}
      BY <2>3 DEF Start, BackoffEnds, HandOver, SendRequest
  <2>5. i = j
      BY <1>1, <2>1, <2>4 DEF CallInv, CallTypes
  <2> QED  BY <1>1, <2>4, <2>5 DEF CallInv, Locked
<1>2. CallInv /\ [Next]_vars => [\A i \in Calls : sent'[i] > sent[i] => ~shown[i]]_vars
    BY <1>1
<1> QED  BY <1>2, CallInvAlways, PTL DEF Spec, OutputIsNeverRepeated

\* Each target that a call of the chain left behind has its one ledger step.
THEOREM TargetsBookedOnce == Spec => []TargetsAreBooked
<1>1. CallInv => TargetsAreBooked
    BY DEF CallInv, Booked, TargetsAreBooked
<1> QED  BY <1>1, CallInvAlways, PTL

-----------------------------------------------------------------------------
(* The health of the targets *)

\* A call is at one of the targets of its plan, at the first before it starts, and
\* hands over only while there is a next one.
Placed(i) ==
    /\ phase[i] = "idle" => attempt[i] = 1
    /\ phase[i] \in {"opening", "streaming", "backoff"} => attempt[i] <= Len(plan[i])
    /\ phase[i] = "handover" => attempt[i] < Len(plan[i])

PlanTypes == plan \in [Calls -> Seq(Range(Targets))]

HealthTypes == failures \in [Range(Targets) -> Nat] /\ cooling \in SUBSET Range(Targets)

HealthInv ==
    /\ PlanTypes /\ HealthTypes /\ BenchedHasFailed
    /\ \A i \in Calls : Placed(i)

\* What a call tries: at least one target, and none but the configured ones.
LEMMA ChainsAreTargets ==
    \A chain \in Chains \cup {<< Targets[1] >>} : chain \in Seq(Range(Targets)) /\ Len(chain) >= 1
<1>1. /\ Len(Targets) \in Nat \ {0} /\ DOMAIN Targets = 1 .. Len(Targets)
      /\ \A k \in 1 .. Len(Targets) : Targets[k] \in Range(Targets)
    BY ModelClientAssumption DEF Range
<1> DEFINE len == Min({MaxAttempts, Len(Targets)})
<1>2. len \in 1 .. Len(Targets)
    BY <1>1, ModelClientAssumption DEF Min
<1> HIDE DEF len
<1>3. ASSUME NEW p \in [DOMAIN Targets -> DOMAIN Targets]
      PROVE  LET chain == [n \in 1 .. len |-> Targets[p[n]]]
             IN chain \in Seq(Range(Targets)) /\ Len(chain) >= 1
  <2> DEFINE chain == [n \in 1 .. len |-> Targets[p[n]]]
  <2>1. \A n \in 1 .. len : Targets[p[n]] \in Range(Targets)
      BY <1>1, <1>2
  <2>2. chain \in [1 .. len -> Range(Targets)] /\ len \in Nat
      BY <2>1, <1>2
  <2>3. chain \in Seq(Range(Targets))
      BY <2>2, SeqDef
  <2>4. Len(chain) = len
      BY <2>2, <2>3, LenProperties
  <2> QED  BY <1>2, <2>3, <2>4
<1>4. Chains = {[n \in 1 .. len |-> Targets[p[n]]] : p \in OrderTargets}
    BY DEF Chains, len
<1>5. OrderTargets \subseteq [DOMAIN Targets -> DOMAIN Targets]
    BY DEF OrderTargets
<1>6. ASSUME NEW chain \in Chains PROVE chain \in Seq(Range(Targets)) /\ Len(chain) >= 1
    BY <1>3, <1>4, <1>5
<1>7. << Targets[1] >> \in Seq(Range(Targets)) /\ Len(<< Targets[1] >>) >= 1
    BY <1>1
<1> QED
  <2> SUFFICES ASSUME NEW chain, chain \in Chains \/ chain = << Targets[1] >>
               PROVE  chain \in Seq(Range(Targets)) /\ Len(chain) >= 1
      OBVIOUS
  <2>1. CASE chain \in Chains
      BY <1>6, <2>1
  <2>2. CASE chain = << Targets[1] >>
      BY <1>7, <2>2
  <2> QED  BY <2>1, <2>2

\* Only the outcome of a request to a target touches the target's health.
LEMMA HealthSteps ==
    ASSUME HealthTypes, BenchedHasFailed, NEW t \in Range(Targets),
           NoteFailure(t) \/ NoteSuccess(t) \/ UNCHANGED health
    PROVE  HealthTypes' /\ BenchedHasFailed'
<1>1. FailureThreshold \in Nat \ {0} /\ failures[t] \in Nat
    BY ModelClientAssumption DEF HealthTypes
<1>2. CASE NoteFailure(t)
  <2>1. failures' = [failures EXCEPT ![t] = failures[t] + 1]
      BY <1>2 DEF NoteFailure
  <2>2. HealthTypes'
    <3>1. failures' \in [Range(Targets) -> Nat]
        BY <1>1, <2>1 DEF HealthTypes
    <3>2. cooling' \in SUBSET Range(Targets)
        BY <1>2 DEF NoteFailure, HealthTypes
    <3> QED  BY <3>1, <3>2 DEF HealthTypes
  <2>3. ASSUME NEW u \in cooling' PROVE failures'[u] >= FailureThreshold
    <3>1. u \in cooling \/ (u = t /\ failures[t] + 1 >= FailureThreshold)
        BY <1>2, <2>3 DEF NoteFailure
    <3>2. u \in Range(Targets) /\ failures[u] \in Nat
        BY <3>1 DEF HealthTypes
    <3>3. failures'[u] = IF u = t THEN failures[t] + 1 ELSE failures[u]
        BY <2>1, <3>2 DEF HealthTypes
    <3>4. u \in cooling => failures[u] >= FailureThreshold
        BY DEF BenchedHasFailed
    <3> QED  BY <1>1, <3>1, <3>2, <3>3, <3>4
  <2> QED  BY <2>2, <2>3 DEF BenchedHasFailed
<1>3. CASE NoteSuccess(t)
  <2>1. HealthTypes'
      BY <1>3 DEF NoteSuccess, HealthTypes
  <2>2. \A u \in cooling' : u \in cooling /\ failures'[u] = failures[u]
      BY <1>3 DEF NoteSuccess, HealthTypes
  <2> QED  BY <2>1, <2>2 DEF BenchedHasFailed
<1>4. CASE UNCHANGED health
    BY <1>4 DEF health, HealthTypes, BenchedHasFailed
<1> QED  BY <1>2, <1>3, <1>4

\* A step that leaves the plans alone and keeps call i at a target of its own.
LEMMA KeepsPlaces ==
    ASSUME HealthInv, CallTypes, NEW i \in Calls, UNCHANGED plan,
           \A j \in Calls : j # i => phase'[j] = phase[j] /\ attempt'[j] = attempt[j],
           Placed(i)', HealthTypes', BenchedHasFailed'
    PROVE  HealthInv'
BY DEF HealthInv, PlanTypes, Placed

\* No target has failed yet.
LEMMA HealthInvInit == Init => HealthInv
<1> SUFFICES ASSUME Init PROVE HealthInv
    OBVIOUS
<1>1. PlanTypes
    BY DEF Init, PlanTypes
<1>2. HealthTypes
    BY ModelClientAssumption DEF Init, HealthTypes
<1>3. BenchedHasFailed
    BY DEF Init, BenchedHasFailed
<1>4. \A i \in Calls : Placed(i)
    BY DEF Init, Placed
<1> QED  BY <1>1, <1>2, <1>3, <1>4 DEF HealthInv

\* A request goes out to the first target, the same one or the next.
LEMMA SendsHealth ==
    ASSUME HealthInv, CallTypes, NEW i \in Calls, Start(i) \/ BackoffEnds(i) \/ HandOver(i)
    PROVE  HealthInv'
<1>1. PlanTypes /\ HealthTypes /\ BenchedHasFailed /\ Placed(i)
    BY DEF HealthInv
<1>2. UNCHANGED health /\ phase' = [phase EXCEPT ![i] = "opening"]
    BY DEF Start, BackoffEnds, HandOver, SendRequest
<1>3. HealthTypes' /\ BenchedHasFailed'
    BY <1>1, <1>2 DEF health, HealthTypes, BenchedHasFailed
<1>4. phase'[i] = "opening" /\ \A j \in Calls : j # i => phase'[j] = phase[j]
    BY <1>2 DEF CallTypes
<1>5. CASE Start(i)
  <2>1. PICK chain \in Chains \cup {<< Targets[1] >>} : plan' = [plan EXCEPT ![i] = chain]
      BY <1>5 DEF Start
  <2>2. chain \in Seq(Range(Targets)) /\ Len(chain) >= 1
      BY ChainsAreTargets
  <2>3. PlanTypes' /\ plan'[i] = chain /\ \A j \in Calls : j # i => plan'[j] = plan[j]
      BY <1>1, <2>1, <2>2 DEF PlanTypes
  <2>4. attempt' = attempt /\ attempt[i] = 1
      BY <1>1, <1>5 DEF Start, Placed
  <2>5. Placed(i)'
      BY <1>4, <2>2, <2>3, <2>4 DEF Placed
  <2>6. \A j \in Calls : j # i => Placed(j)'
      BY <1>4, <2>3, <2>4 DEF HealthInv, Placed
  <2> QED  BY <1>3, <2>3, <2>5, <2>6 DEF HealthInv
<1>6. CASE BackoffEnds(i) \/ HandOver(i)
  <2>1. /\ UNCHANGED plan /\ plan[i] \in Seq(Range(Targets)) /\ Len(plan[i]) \in Nat
        /\ attempt[i] \in Nat
      BY <1>1, <1>6 DEF BackoffEnds, HandOver, PlanTypes, CallTypes
  <2>2. \/ phase[i] = "backoff" /\ attempt' = attempt
        \/ phase[i] = "handover" /\ attempt' = [attempt EXCEPT ![i] = attempt[i] + 1]
      BY <1>6 DEF BackoffEnds, HandOver
  <2>3. \A j \in Calls : j # i => attempt'[j] = attempt[j]
      BY <2>2 DEF CallTypes
  <2>4. attempt'[i] <= Len(plan[i])
      BY <1>1, <2>1, <2>2 DEF CallTypes, Placed
  <2>5. Placed(i)'
      BY <1>4, <2>1, <2>4 DEF Placed
  <2> QED  BY <1>3, <1>4, <2>1, <2>3, <2>5, KeepsPlaces
<1> QED  BY <1>5, <1>6

\* A call that streams or waits stays where it is.
LEMMA WaitsHealth ==
    ASSUME HealthInv, CallTypes, NEW i \in Calls, UNCHANGED <<health, plan, attempt>>,
           \/ UNCHANGED phase
           \/ /\ phase[i] \in {"opening", "streaming"}
              /\ \E p \in {"streaming", "abandoned", "backoff", "ended"} :
                    phase' = [phase EXCEPT ![i] = p]
    PROVE  HealthInv'
<1>1. PlanTypes /\ HealthTypes /\ BenchedHasFailed /\ Placed(i)
    BY DEF HealthInv
<1>2. HealthTypes' /\ BenchedHasFailed'
    BY <1>1 DEF health, HealthTypes, BenchedHasFailed
<1>3. \A j \in Calls : j # i => phase'[j] = phase[j] /\ attempt'[j] = attempt[j]
    BY DEF CallTypes
<1>4. Placed(i)'
    BY <1>1 DEF CallTypes, Placed
<1> QED  BY <1>2, <1>3, <1>4, KeepsPlaces

\* A call leaves its target, whose health may change with it.
LEMMA LeavesHealth ==
    ASSUME HealthInv, CallTypes, NEW i \in Calls, phase[i] \in {"opening", "streaming"},
           UNCHANGED <<plan, attempt>>,
           NoteFailure(Target(i)) \/ NoteSuccess(Target(i)) \/ UNCHANGED health,
           \/ phase' = [phase EXCEPT ![i] = "ended"]
           \/ attempt[i] < Len(plan[i]) /\ phase' = [phase EXCEPT ![i] = "handover"]
    PROVE  HealthInv'
<1>1. PlanTypes /\ HealthTypes /\ BenchedHasFailed /\ Placed(i)
    BY DEF HealthInv
<1>2. Target(i) \in Range(Targets)
  <2>1. plan[i] \in Seq(Range(Targets)) /\ attempt[i] \in Nat \ {0} /\ attempt[i] <= Len(plan[i])
      BY <1>1 DEF PlanTypes, CallTypes, Placed
  <2>2. attempt[i] \in 1 .. Len(plan[i])
      BY <2>1
  <2> QED  BY <2>1, <2>2, ElementOfSeq DEF Target
<1>3. HealthTypes' /\ BenchedHasFailed'
    BY <1>1, <1>2, HealthSteps
<1>4. \A j \in Calls : j # i => phase'[j] = phase[j] /\ attempt'[j] = attempt[j]
    BY DEF CallTypes
<1>5. Placed(i)'
    BY DEF CallTypes, Placed
<1> QED  BY <1>3, <1>4, <1>5, KeepsPlaces

\* A failed attempt counts against its target, which is benched at the limit only.
LEMMA AttemptFailsHealth ==
    ASSUME HealthInv, CallTypes, NEW i \in Calls, NEW again, AttemptFails(i, again),
           phase[i] \in {"opening", "streaming"}
    PROVE  HealthInv'
<1>1. UNCHANGED <<plan, attempt>> /\ (NoteFailure(Target(i)) \/ UNCHANGED health)
    BY DEF AttemptFails, progress
<1>2. \/ phase' = [phase EXCEPT ![i] = "ended"]
      \/ attempt[i] < Len(plan[i]) /\ phase' = [phase EXCEPT ![i] = "handover"]
    BY DEF AttemptFails, End
<1> QED  BY <1>1, <1>2, LeavesHealth

\* Every step keeps the health of the targets.
LEMMA HealthInvStep == CallInv /\ HealthInv /\ [Next]_vars => HealthInv'
<1> SUFFICES ASSUME CallInv, HealthInv, [Next]_vars PROVE HealthInv'
    OBVIOUS
<1>0. CallTypes
    BY DEF CallInv
<1>1. ASSUME NEW i \in Calls, Start(i) \/ BackoffEnds(i) \/ HandOver(i) PROVE HealthInv'
    BY <1>0, <1>1, SendsHealth
<1>2. ASSUME NEW i \in Calls, OpenSucceeds(i) PROVE HealthInv'
    BY <1>0, <1>2, WaitsHealth DEF OpenSucceeds, progress
<1>3. ASSUME NEW i \in Calls, Delta(i) \/ Cancel(i) PROVE HealthInv'
    BY <1>0, <1>3, WaitsHealth DEF Delta, Cancel, progress
<1>4. ASSUME NEW i \in Calls, BackOff(i), phase[i] \in {"opening", "streaming"} PROVE HealthInv'
    BY <1>0, <1>4, WaitsHealth DEF BackOff, progress
<1>5. ASSUME NEW i \in Calls, NEW retryable \in BOOLEAN, OpenFails(i, retryable) PROVE HealthInv'
    BY <1>0, <1>4, <1>5, AttemptFailsHealth DEF OpenFails
<1>6. ASSUME NEW i \in Calls, StreamFails(i) PROVE HealthInv'
    BY <1>0, <1>4, <1>6, AttemptFailsHealth DEF StreamFails
<1>7. ASSUME NEW i \in Calls, YieldsToNobody(i) \/ Convict(i) PROVE HealthInv'
    BY <1>0, <1>7, WaitsHealth DEF YieldsToNobody, Convict, Returned, End, progress
<1>8. ASSUME NEW i \in Calls, Done(i) PROVE HealthInv'
    BY <1>0, <1>8, LeavesHealth DEF Done, End, progress
<1>9. ASSUME NEW t \in Range(Targets), CooldownEnds(t) PROVE HealthInv'
  <2>1. cooling' \subseteq cooling /\ UNCHANGED <<failures, plan, phase, attempt>>
      BY <1>9 DEF CooldownEnds, progress
  <2> QED  BY <2>1 DEF HealthInv, PlanTypes, HealthTypes, BenchedHasFailed, Placed
<1>10. ASSUME UNCHANGED vars PROVE HealthInv'
    BY <1>10 DEF vars, health, progress, HealthInv, PlanTypes, HealthTypes, BenchedHasFailed, Placed
<1> QED  BY <1>1, <1>2, <1>3, <1>5, <1>6, <1>7, <1>8, <1>9, <1>10 DEF Next, Goes

\* No target is benched unless its last answers, whoever asked for them, were
\* failures: calls of every session write the table of failures.
THEOREM BenchedTargetsFailed == Spec => []BenchedHasFailed
<1>1. HealthInv => BenchedHasFailed
    BY DEF HealthInv
<1> QED  BY <1>1, CallInvAlways, HealthInvInit, HealthInvStep, PTL DEF Spec

-----------------------------------------------------------------------------
(* A run_code call: the inductive invariant *)

PumpInv ==
    /\ (pump = "off") <=> (program = "none")
    /\ pump = "off" => helper = "none"
    /\ pump # "over" => ~final /\ ~failed /\ ~pumpError
    /\ pump # "over" => \A j \in 1 .. read : wrote[j] \notin LastWords
    /\ late = 0 \/ (late = 1 /\ ~Alive /\ pump \in {"dispatches", "writes", "over"})

WordInv ==
    /\ final => EndedWith("final")
    /\ failed => EndedWith("error")
    /\ pump = "over" /\ ~final /\ ~failed /\ ~pumpError /\ infra = "none"
          => NothingLast /\ program # "runs"

MainInv ==
    /\ main = "idle" => pump = "off" /\ infra = "none"
    /\ main \in {"races", "settles", "reaps", "drains"} => pump # "off"
    /\ main \in {"settles", "reaps", "drains"} => timedOut \/ (pump = "over" /\ ~pumpError)
    /\ timedOut => main \notin {"idle", "races"} /\ infra # "none"
    /\ main \in {"idle", "races", "settles", "reaps"} => settle = "none"
    /\ main # "answered" => answer = "none"

KillInv ==
    /\ settle = "signal" => program \in {"signalled", "killed"}
    /\ program = "killed" => infra # "none" \/ main = "reaps" \/ settle = "killed" \/ answer = "protocol"

AnswerInv ==
    main = "answered" =>
        /\ ~Alive /\ helper # "inGroup"
        /\ pump \in {"off", "over"} \/ timedOut
        /\ pump = "off" => answer = "refused" /\ infra = "none"

BrokerInv == BrokerTypeOK /\ PumpInv /\ WordInv /\ MainInv /\ KillInv /\ AnswerInv /\ VerdictIsTrue

\* The definitions every step of the proof looks at.
USE MaxSubCallsAssumption
USE DEF BrokerInv, BrokerTypeOK, PumpInv, WordInv, MainInv, KillInv, AnswerInv, VerdictIsTrue, EndedWith,
        NothingLast, Line, LastWords, Alive, Kill, child, pumping, told, waiting

\* The invariant holds at the start.
LEMMA BrokerInvInit == BrokerInit => BrokerInv
<1> SUFFICES ASSUME BrokerInit PROVE BrokerInv
  OBVIOUS
<1>1. wrote \in Seq(Line) /\ Len(wrote) = 0
  BY DEF BrokerInit
<1>2. BrokerTypeOK
  <2>1. read \in 0 .. Len(wrote) /\ dispatched \in 0 .. MaxSubCalls /\ late \in Nat
    BY <1>1, SMT DEF BrokerInit
  <2>2. /\ program = "none" /\ helper = "none" /\ pump = "off" /\ infra = "none" /\ main = "idle"
        /\ settle = "none" /\ answer = "none"
        /\ ~pumpError /\ ~final /\ ~failed /\ ~timedOut
        /\ pumpError \in BOOLEAN /\ final \in BOOLEAN /\ failed \in BOOLEAN /\ timedOut \in BOOLEAN
    BY DEF BrokerInit
  <2> QED
    BY <1>1, <2>1, <2>2
<1>3. PumpInv /\ WordInv /\ MainInv
  BY <1>1, SMT DEF BrokerInit
<1>4. KillInv /\ AnswerInv /\ VerdictIsTrue
  BY <1>1, SMT DEF BrokerInit
<1> QED
  BY <1>2, <1>3, <1>4

\* A step of the program or of what it left behind.
LEMMA ProgramKeepsInv ==
    ASSUME BrokerInv, ProgramStep
    PROVE  BrokerInv'
<1>1. ASSUME NEW line \in Line, Writes(line) PROVE BrokerInv'
  <2>1. wrote' \in Seq(Line) /\ Len(wrote') = Len(wrote) + 1
    BY <1>1, SMT DEF Writes
  <2>2. \A i \in 1 .. Len(wrote) : wrote'[i] = wrote[i]
    BY <1>1, SMT DEF Writes
  <2>3. wrote'[Len(wrote) + 1] = line
    BY <1>1, SMT DEF Writes
  <2> QED
    BY <1>1, <2>1, <2>2, <2>3, SMT DEF Writes
<1>2. ASSUME NEW where \in {"inGroup", "apart"}, Forks(where) PROVE BrokerInv'
  BY <1>2, SMT DEF Forks
<1>3. ASSUME NEW how \in {"ended", "signalled"}, ProgramEnds(how) PROVE BrokerInv'
  BY <1>3, SMT DEF ProgramEnds
<1>4. CASE ClosesStdout
  BY <1>4, SMT DEF ClosesStdout
<1>5. CASE HelperEnds
  BY <1>5, SMT DEF HelperEnds
<1> QED
  BY <1>1, <1>2, <1>3, <1>4, <1>5 DEF ProgramStep

\* A step of the pump.
LEMMA PumpKeepsInv ==
    ASSUME BrokerInv, Serve \/ SubCallEnds \/ ReplyWritten \/ ReplyTimesOut \/ ReaderTimesOut
    PROVE  BrokerInv'
<1>1. CASE ReadLog
  BY <1>1, SMT DEF ReadLog, Reading, NextLine, Unread
<1>2. CASE ReadFinal
  BY <1>2, SMT DEF ReadFinal, Reading, NextLine, Unread
<1>3. CASE ReadError
  BY <1>3, SMT DEF ReadError, Reading, NextLine, Unread
<1>4. CASE ReadMalformed
  BY <1>4, SMT DEF ReadMalformed, Reading, NextLine, Unread
<1>5. CASE ReadRefused
  BY <1>5, SMT DEF ReadRefused, Reading, NextLine, Unread
<1>6. CASE ReadRequest
  BY <1>6, SMT DEF ReadRequest, Reading, NextLine, Unread
<1>7. CASE SubCallEnds
  BY <1>7, SMT DEF SubCallEnds
<1>8. CASE ReplyWritten
  BY <1>8, SMT DEF ReplyWritten
<1>9. CASE ReplyFails
  BY <1>9, SMT DEF ReplyFails
<1>10. CASE ReplyTimesOut
  BY <1>10, SMT DEF ReplyTimesOut, Note
<1>11. CASE ReadEnds
  BY <1>11, SMT DEF ReadEnds, Unread, StdoutEnds
<1>12. CASE ReaderTimesOut
  BY <1>12, SMT DEF ReaderTimesOut, Unread
<1> QED
  BY <1>1, <1>2, <1>3, <1>4, <1>5, <1>6, <1>7, <1>8, <1>9, <1>10, <1>11, <1>12 DEF Serve

\* A step of the call.
LEMMA MainKeepsInv ==
    ASSUME BrokerInv, Refuse \/ Spawn \/ WallClockFires \/ PumpIsOver \/ PumpThrew
                         \/ Settles \/ GraceEnds \/ Reaps \/ Drains
    PROVE  BrokerInv'
<1>1. CASE Refuse
  BY <1>1, SMT DEF Refuse
<1>2. CASE Spawn
  BY <1>2, SMT DEF Spawn
<1>3. CASE WallClockFires
  BY <1>3, SMT DEF WallClockFires, Note
<1>4. CASE PumpIsOver
  BY <1>4, SMT DEF PumpIsOver
<1>5. CASE PumpThrew
  BY <1>5, SMT DEF PumpThrew
<1>6. CASE Settles
  BY <1>6, SMT DEF Settles, Closed
<1>7. CASE GraceEnds
  BY <1>7, SMT DEF GraceEnds
<1>8. CASE Reaps
  BY <1>8, SMT DEF Reaps
<1>9. CASE Drains
  BY <1>9, SMT DEF Drains, Closed, OutcomeOf, Verdict
<1> QED
  BY <1>1, <1>2, <1>3, <1>4, <1>5, <1>6, <1>7, <1>8, <1>9

\* Every step keeps it.
LEMMA BrokerInvStep == BrokerInv /\ [BrokerNext]_brokerVars => BrokerInv'
<1> SUFFICES ASSUME BrokerInv, [BrokerNext]_brokerVars PROVE BrokerInv'
  OBVIOUS
<1>1. CASE ProgramStep
  BY <1>1, ProgramKeepsInv
<1>2. CASE Serve \/ SubCallEnds \/ ReplyWritten \/ ReplyTimesOut \/ ReaderTimesOut
  BY <1>2, PumpKeepsInv
<1>3. CASE Refuse \/ Spawn \/ WallClockFires \/ PumpIsOver \/ PumpThrew \/ Settles \/ GraceEnds \/ Reaps \/ Drains
  BY <1>3, MainKeepsInv
<1>4. CASE UNCHANGED brokerVars
  BY <1>4, SMT DEF brokerVars
<1> QED
  BY <1>1, <1>2, <1>3, <1>4 DEF BrokerNext

HIDE DEF BrokerInv, BrokerTypeOK, PumpInv, WordInv, MainInv, KillInv, AnswerInv, VerdictIsTrue, EndedWith,
         NothingLast, Line, LastWords, Alive, Kill, child, pumping, told, waiting

\* It holds in every reachable state.
LEMMA BrokerInvAlways == BrokerSpec => []BrokerInv
  BY BrokerInvInit, BrokerInvStep, PTL DEF BrokerSpec

-----------------------------------------------------------------------------
(* Every variable of a call keeps its type; the number of sub-calls its bound. *)
THEOREM BrokerTypeCorrect == BrokerSpec => []BrokerTypeOK
<1>1. BrokerInv => BrokerTypeOK
  BY DEF BrokerInv
<1> QED
  BY <1>1, BrokerInvAlways, PTL

(* The answer of a call is what happened to its program: outcomeOf never takes a
   kill of the broker for the CPU limit, nor gives a value after the wall clock. *)
THEOREM VerdictIsAlwaysTrue == BrokerSpec => []VerdictIsTrue
<1>1. BrokerInv => VerdictIsTrue
  BY DEF BrokerInv
<1> QED
  BY <1>1, BrokerInvAlways, PTL

(* At most one sub-call starts for a dead program, and an answered call has left
   neither the program, nor its group, nor (but for the wall clock) the pump. *)
THEOREM EffectsAlwaysEnd == BrokerSpec => []EffectsEnd
<1>1. BrokerInv => EffectsEnd
  BY SMT DEF BrokerInv, EffectsEnd, PumpInv, AnswerInv
<1> QED
  BY <1>1, BrokerInvAlways, PTL
=============================================================================
