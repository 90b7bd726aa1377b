------------------------------- MODULE AutoWake -------------------------------
(***************************************************************************)
(* The way of a worker's receipt, and of a message the user left for the   *)
(* next turn, into the history of a session: the mailbox of the session's  *)
(* generation (workers/src/mailbox.ts), the loop that wakes an idle host   *)
(* (runtime/src/autowake.ts), the drains of a running turn, the swap of a  *)
(* generation and the eviction of an idle instance.                        *)
(*                                                                         *)
(* A pass of the loop runs without an await from its look at the mailbox   *)
(* to the input row of the turn it starts; so does the start of a turn.    *)
(* Which instance is evicted, and when a changed one is rebuilt, is        *)
(* SessionRegistry's subject: any idle one without live workers here.      *)
(***************************************************************************)
EXTENDS Naturals, SequencesExt

CONSTANTS
    Sessions,
    MaxTurns,      \* maxConcurrentTurns
    MaxItems,      \* bound: receipts and user messages
    MaxInputs,     \* bound: turns the user starts
    MaxRebuilds,   \* bound: generations swapped
    MaxCrashes     \* bound: crashes of the process

ASSUME AutoWakeAssumption == MaxTurns \in Nat \ {0}

VARIABLES
    live,       \* sessions that have an instance
    busy,       \* sessions with a turn in flight
    workers,    \* [sessions -> their live workers]
    queue,      \* [sessions -> the host queue of the mailbox in force]
    lane,       \* [sessions -> the next-turn lane, kept by the checkpoint]
    history,    \* [sessions -> what the model was shown]
    gone,       \* receipts that went with a mailbox

    loop,       \* [sessions -> the wake-up loop: off, awake or parked]
    bound,      \* sessions whose loop listens to the mailbox in force
    notified,   \* sessions whose loop was told of a message

    items, inputs, rebuilds, crashes    \* counters

waiting == <<queue, lane, history, gone>>
waker == <<loop, bound, notified>>
counters == <<items, inputs, rebuilds, crashes>>
vars == <<live, busy, workers, waiting, waker, counters>>

Item == [by : {"worker", "user"}, id : Nat]
Idle(s) == s \in live \ busy
SlotFree == Cardinality(busy) < MaxTurns

Init ==
    /\ live = {} /\ busy = {} /\ workers = [s \in Sessions |-> 0]
    /\ queue = [s \in Sessions |-> <<>>] /\ lane = [s \in Sessions |-> <<>>]
    /\ history = [s \in Sessions |-> <<>>] /\ gone = {}
    /\ loop = [s \in Sessions |-> "off"] /\ bound = {} /\ notified = {}
    /\ items = 0 /\ inputs = 0 /\ rebuilds = 0 /\ crashes = 0

-----------------------------------------------------------------------------
(* The instances *)

(* The first composition of a session mounts its loop. *)
Ensure(s) ==
    /\ s \notin live
    /\ live' = live \cup {s}
    /\ loop' = [loop EXCEPT ![s] = IF @ = "off" THEN "awake" ELSE @]
    /\ UNCHANGED <<busy, workers, waiting, bound, notified, counters>>

(* The mailbox of an evicted instance is purged. *)
Evict(s) ==
    /\ Idle(s) /\ workers[s] = 0
    /\ live' = live \ {s} /\ bound' = bound \ {s}
    /\ gone' = gone \cup Range(queue[s])
    /\ queue' = [queue EXCEPT ![s] = <<>>]
    /\ UNCHANGED <<busy, workers, lane, history, loop, notified, counters>>

(* mutant: the receipts are not migrated (W769) *)
MigratedNot(s) == queue' = [queue EXCEPT ![s] = <<>>]
(* migrateReceipts: the new mailbox, to which no loop listens yet, takes them over. *)
Migrated(s) == UNCHANGED queue

Rebuild(s) ==
    /\ Idle(s) /\ workers[s] = 0 /\ rebuilds < MaxRebuilds
    /\ Migrated(s)
    /\ bound' = bound \ {s}
    /\ rebuilds' = rebuilds + 1
    /\ UNCHANGED <<live, busy, workers, lane, history, gone, loop, notified, items, inputs, crashes>>

Crash ==
    /\ crashes < MaxCrashes /\ live # {}
    /\ live' = {} /\ busy' = {} /\ workers' = [s \in Sessions |-> 0]
    /\ gone' = gone \cup UNION {Range(queue[s]) : s \in Sessions}
    /\ queue' = [s \in Sessions |-> <<>>]
    /\ loop' = [s \in Sessions |-> "off"] /\ bound' = {} /\ notified' = {}
    /\ crashes' = crashes + 1
    /\ UNCHANGED <<lane, history, items, inputs, rebuilds>>

-----------------------------------------------------------------------------
(* Turns *)

(* drainPending, then the input of a wake: the lane, then the receipts. *)
TurnStartDrains(s) ==
    /\ history' = [history EXCEPT ![s] = @ \o lane[s] \o queue[s]]
    /\ lane' = [lane EXCEPT ![s] = <<>>]
    /\ queue' = [queue EXCEPT ![s] = <<>>]
    /\ UNCHANGED gone

StartTurn(s) ==
    /\ Idle(s) /\ SlotFree /\ inputs < MaxInputs
    /\ busy' = busy \cup {s}
    /\ TurnStartDrains(s)
    /\ inputs' = inputs + 1
    /\ UNCHANGED <<live, workers, waker, items, rebuilds, crashes>>

(* The step boundary of a running turn takes the receipts as well. *)
StepDrains(s) ==
    /\ s \in busy /\ queue[s] # <<>>
    /\ history' = [history EXCEPT ![s] = @ \o queue[s]]
    /\ queue' = [queue EXCEPT ![s] = <<>>]
    /\ UNCHANGED <<live, busy, workers, lane, gone, waker, counters>>

(* A turn that was cancelled, failed or spent its steps leaves them waiting. *)
EndTurn(s) ==
    /\ s \in busy
    /\ busy' = busy \ {s}
    /\ UNCHANGED <<live, workers, waiting, waker, counters>>

(* A worker whose receipt is still to come pins the instance. *)
WorkerStarts(s) ==
    /\ s \in live /\ items + workers[s] < MaxItems
    /\ workers' = [workers EXCEPT ![s] = @ + 1]
    /\ UNCHANGED <<live, busy, waiting, waker, counters>>

-----------------------------------------------------------------------------
(* Messages *)

Notify(s) ==
    IF s \in bound
    THEN /\ notified' = notified \cup {s}
         /\ loop' = [loop EXCEPT ![s] = "awake"]
    ELSE UNCHANGED <<loop, notified>>

(* closeLoop: the verdict unpins the instance in the step that sends the receipt. *)
WorkerSettles(s) ==
    /\ workers[s] > 0 /\ items < MaxItems
    /\ workers' = [workers EXCEPT ![s] = @ - 1]
    /\ queue' = [queue EXCEPT ![s] = Append(@, [by |-> "worker", id |-> items + 1])]
    /\ items' = items + 1
    /\ Notify(s)
    /\ UNCHANGED <<live, busy, lane, history, gone, bound, inputs, rebuilds, crashes>>

(* A message for an idle session, or one queued behind its turn: no one is told. *)
Inject(s) ==
    /\ s \in live /\ items < MaxItems
    /\ lane' = [lane EXCEPT ![s] = Append(@, [by |-> "user", id |-> items + 1])]
    /\ items' = items + 1
    /\ UNCHANGED <<live, busy, workers, queue, history, gone, waker, inputs, rebuilds, crashes>>

-----------------------------------------------------------------------------
(* The loop *)

HasWork(s) == queue[s] # <<>> \/ lane[s] # <<>>

Park(s) == loop' = [loop EXCEPT ![s] = "parked"]

(* No generation to bind, nothing to do, or a busy host. *)
PassWaits(s) ==
    /\ loop[s] = "awake"
    /\ \/ s \notin live /\ bound' = bound \ {s} /\ UNCHANGED notified
       \/ /\ s \in live /\ bound' = bound \cup {s}
          /\ ~HasWork(s) /\ s \notin notified /\ UNCHANGED notified
       \/ /\ s \in busy /\ bound' = bound \cup {s}
          /\ HasWork(s) \/ s \in notified
          /\ notified' = notified \ {s}
    /\ Park(s)
    /\ UNCHANGED <<live, busy, workers, waiting, counters>>

(* It was told of what a turn has taken meanwhile. *)
PassFindsNothing(s) ==
    /\ loop[s] = "awake" /\ Idle(s)
    /\ ~HasWork(s) /\ s \in notified
    /\ bound' = bound \cup {s} /\ notified' = notified \ {s}
    /\ UNCHANGED <<live, busy, workers, waiting, loop, counters>>

PassWakes(s) ==
    /\ loop[s] = "awake" /\ Idle(s) /\ HasWork(s) /\ SlotFree
    /\ bound' = bound \cup {s} /\ notified' = notified \ {s}
    /\ busy' = busy \cup {s}
    /\ TurnStartDrains(s)
    /\ UNCHANGED <<live, workers, loop, counters>>

(* mutant: the messages are put back one after the other at the front *)
RequeuedReversed(s) == queue' = [queue EXCEPT ![s] = Reverse(@)]
(* Nobody else has run since the poll: they are where they were. *)
Requeued(s) == UNCHANGED queue

(* Too many turns: what was polled is sent again, which tells the loop. *)
PassRefused(s) ==
    /\ loop[s] = "awake" /\ Idle(s) /\ HasWork(s) /\ ~SlotFree
    /\ bound' = bound \cup {s}
    /\ notified' = IF queue[s] = <<>> THEN notified \ {s} ELSE notified \cup {s}
    /\ Requeued(s)
    /\ Park(s)
    /\ UNCHANGED <<live, busy, workers, lane, history, gone, counters>>

Pass(s) == PassWaits(s) \/ PassFindsNothing(s) \/ PassWakes(s) \/ PassRefused(s)

(* mutant: without a message a loop stays parked *)
TimerOnlyWhenTold(s) ==
    /\ loop[s] = "parked" /\ s \in notified
    /\ loop' = [loop EXCEPT ![s] = "awake"]
    /\ UNCHANGED <<live, busy, workers, waiting, bound, notified, counters>>
(* The retry of a pause, or the floor of a park. *)
Timer(s) ==
    /\ loop[s] = "parked"
    /\ loop' = [loop EXCEPT ![s] = "awake"]
    /\ UNCHANGED <<live, busy, workers, waiting, bound, notified, counters>>

Next ==
    \/ \E s \in Sessions :
          \/ Ensure(s) \/ Evict(s) \/ Rebuild(s)
          \/ StartTurn(s) \/ StepDrains(s) \/ EndTurn(s)
          \/ WorkerStarts(s) \/ WorkerSettles(s) \/ Inject(s)
          \/ Pass(s) \/ Timer(s)
    \/ Crash

(* A loop that is awake goes on, timers fire, and turns come to an end. *)
Fairness == \A s \in Sessions : WF_vars(Pass(s)) /\ WF_vars(Timer(s)) /\ WF_vars(EndTurn(s))

Spec == Init /\ [][Next]_vars /\ Fairness

-----------------------------------------------------------------------------
(* An item that was sent is waiting or was shown, unless its mailbox went away:
   no swap, no drain and no wake that is refused loses one ("nothing is lost",
   real-runtime-adapter.ts:366). *)
NothingElseIsLost ==
    LET kept == UNION {Range(queue[s] \o lane[s] \o history[s]) : s \in Sessions}
    IN  \A n \in 1..items : \E m \in kept \cup gone : m.id = n

(* What the workers of a session report reaches the model in the order in which
   they settled, and no report twice; so do the user's messages. *)
InOrderOnce ==
    \A s \in Sessions :
        LET way == history[s] \o lane[s] \o queue[s]
        IN  \A i, j \in DOMAIN way : i < j /\ way[i].by = way[j].by => way[i].id < way[j].id

(* Nothing waits for ever in a live instance: if the mailbox was swapped under a
   parked loop, if the message was left behind by a turn that ended, if the host
   was busy or the turn cap reached, the loop comes back for it. *)
Waits(s) == s \in live /\ HasWork(s)
HostIsWoken == \A s \in Sessions : Waits(s) ~> ~Waits(s)
=============================================================================
