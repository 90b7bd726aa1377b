------------------------- MODULE SessionDurability -------------------------
(***************************************************************************)
(* What one session of Celestea keeps on disk, and what survives of it.    *)
(*                                                                         *)
(* A session directory holds an append-only log (`cli-main.jsonl`, the     *)
(* only source of truth of the conversation) and a sidecar                 *)
(* (`checkpoint.json`) with the two facts the log cannot express: which    *)
(* turn is open, and which messages were accepted into the two injection   *)
(* lanes but not injected yet.  A *generation* (one composed Runtime) owns *)
(* a private copy of the sidecar, read once when the generation is         *)
(* composed and written back whole at every change.  Generations are       *)
(* swapped when the configuration changes, evicted when idle and lost when *)
(* the process dies.                                                       *)
(*                                                                         *)
(* JavaScript runs a synchronous section without interleaving, so the only *)
(* thing that can happen inside one is a crash: an action is one disk      *)
(* write of such a section, `phase` says how far the section has got, and  *)
(* actions of other requests wait for phase "idle" or "running".           *)
(* A disposed generation writes its last sidecar in a promise              *)
(* continuation, right after the section that disposed of it: `retiring`   *)
(* holds what it will write.                                               *)
(***************************************************************************)
EXTENDS Integers, Sequences, FiniteSets

CONSTANTS
    Msg,             \* user messages delivered through the inbox
    MaxTurns,        \* bound: turn ids are 0 .. MaxTurns - 1
    MaxSwaps,        \* bound: configuration changes
    MaxCrashes       \* bound: process crashes

ASSUME MaxTurnsAssumption == MaxTurns \in Nat
ASSUME MaxSwapsAssumption == MaxSwaps \in Nat
ASSUME MaxCrashesAssumption == MaxCrashes \in Nat

NoTurn == -1
Turn == 0 .. MaxTurns - 1
Lane == {"nextTurn", "nextStep"}
Phase == {"down", "repairing", "idle", "draining", "opening", "boundary",
          "stepping", "running", "ending", "clearing"}

\* The turn boundary rows of the log; the other rows are left out, except that
\* `delivered` remembers the rows that carry an injected message.
Row == [type : {"turn_start", "turn_end"}, id : Turn]
Started(t) == [type |-> "turn_start", id |-> t]
Ended(t) == [type |-> "turn_end", id |-> t]

Checkpoint == [clean : BOOLEAN, open : Turn \cup {NoTurn},
               nextTurn : Seq(Msg), nextStep : Seq(Msg)]
Fresh == [clean |-> FALSE, open |-> NoTurn, nextTurn |-> <<>>, nextStep |-> <<>>]
Nothing == [none |-> TRUE]

VARIABLES
    log,        \* disk: the boundary rows
    sidecar,    \* disk: the checkpoint (a missing file behaves like Fresh)
    phase,      \* where the process is, see above
    live,       \* does the registry hold a generation of this session?
    store,      \* that generation's copy of the checkpoint, lanes included
    counter,    \* that generation's turn counter
    stale,      \* that generation is marked needsRebuild
    retiring,   \* the copy a disposed generation is about to write back
    turn,       \* the open turn
    hand,       \* messages drained from a lane and not yet in the log
    halting,    \* a graceful shutdown has been asked for
    arrivals,   \* history: accepted messages with their lane, in order
    delivered,  \* history: injected rows, in the order of the log
    lost,       \* history: messages in hand when a crash came
    torn,       \* history: turns a crash cut, since the log was last cleared
    overtaken,  \* history: has a turn started while the generation it replaced
                \* had its copy still to write?
    swaps,      \* budget used of MaxSwaps
    crashes     \* budget used of MaxCrashes

disk == <<log, sidecar>>
generation == <<live, store, counter, stale>>
process == <<phase, retiring, turn, hand, halting>>
history == <<arrivals, delivered, lost, torn, overtaken>>
budget == <<swaps, crashes>>
vars == <<disk, generation, process, history, budget>>

-----------------------------------------------------------------------------
(* Reading a log *)

TurnIds(l) == {l[i].id : i \in 1 .. Len(l)}
HasRow(l, row) == \E i \in 1 .. Len(l) : l[i] = row
Dangling(l) == {t \in Turn : HasRow(l, Started(t)) /\ ~HasRow(l, Ended(t))}

\* mutant: the largest id, not one more.
IsNextTurnRepeatingTheLast(l, n) ==
    /\ \A t \in TurnIds(l) : t <= n
    /\ n = 0 \/ n \in TurnIds(l)

\* nextTurnNumber: one more than the largest id of a boundary row.
IsNextTurn(l, n) ==
    /\ \A t \in TurnIds(l) : t < n
    /\ n = 0 \/ n - 1 \in TurnIds(l)

(* Writing a checkpoint: a generation patches its own copy and writes it
   whole; any write but the last one of a shutdown says "not clean". *)
Write(patched) == store' = patched /\ sidecar' = patched
Alive(s) == [s EXCEPT !.clean = FALSE]
NoOpenTurn(s) == [s EXCEPT !.open = NoTurn]
CleanExit(s) == [s EXCEPT !.open = NoTurn, !.clean = TRUE]

\* push() saves the lane it appended to.
Received(s, m, lane) == [s EXCEPT ![lane] = Append(@, m), !.clean = FALSE]

DrainedInMemoryOnly(s, lane) == s   \* mutant: the lane is not emptied

\* drain() saves only when it took something.
Drained(s, lane) == IF s[lane] = <<>> THEN s ELSE [s EXCEPT ![lane] = <<>>, !.clean = FALSE]

Settled == retiring = Nothing
Macro == Settled /\ phase \in {"idle", "running"}   \* a request may be served
Accepted == {arrivals[i].msg : i \in 1 .. Len(arrivals)}
Elems(s) == {s[i] : i \in 1 .. Len(s)}

-----------------------------------------------------------------------------
Init ==
    /\ log = <<>> /\ sidecar = Fresh
    /\ phase = "down" /\ retiring = Nothing /\ turn = NoTurn /\ hand = <<>> /\ halting = FALSE
    /\ live = FALSE /\ store = Fresh /\ counter = 0 /\ stale = FALSE
    /\ arrivals = <<>> /\ delivered = <<>> /\ lost = {} /\ torn = {} /\ overtaken = FALSE
    /\ swaps = 0 /\ crashes = 0

(* --- boot recovery: recoverOpenTurn, run for the active session only ---- *)

Signature == ~sidecar.clean /\ sidecar.open # NoTurn /\ HasRow(log, Started(sidecar.open))

\* The killed turn gets its turn_end row ...
BootRepair ==
    /\ phase = "down" /\ Signature /\ ~HasRow(log, Ended(sidecar.open))
    /\ log' = Append(log, Ended(sidecar.open))
    /\ phase' = "repairing"
    /\ UNCHANGED <<sidecar, generation, retiring, turn, hand, halting, history, budget>>

\* ... and the repair is recorded in the sidecar.
RecordRepair ==
    /\ phase = "repairing"
    /\ sidecar' = Alive(NoOpenTurn(sidecar))
    /\ phase' = "idle"
    /\ UNCHANGED <<log, generation, retiring, turn, hand, halting, history, budget>>

\* The row is there already: only the marker is cleared.
BootClearMarker ==
    /\ phase = "down" /\ Signature /\ HasRow(log, Ended(sidecar.open))
    /\ sidecar' = Alive(NoOpenTurn(sidecar))
    /\ phase' = "idle"
    /\ UNCHANGED <<log, generation, retiring, turn, hand, halting, history, budget>>

\* No double signature, or this is not the session marked active at boot.
BootSkip ==
    /\ phase = "down"
    /\ phase' = "idle"
    /\ UNCHANGED <<disk, generation, retiring, turn, hand, halting, history, budget>>

(* --- the generation of the session ------------------------------------- *)

\* What compose() reads from the directory: the log's counter and the sidecar.
ComposeFrom(n, s) ==
    /\ IsNextTurn(log, n)
    /\ live' = TRUE /\ counter' = n /\ store' = s /\ stale' = FALSE

\* registry.ensure without an entry.  A turn or a message for such a session
\* composes first, in the same synchronous section; composing writes nothing.
Compose ==
    /\ phase = "idle" /\ Settled /\ ~live /\ ~halting
    /\ \E n \in 0 .. MaxTurns : ComposeFrom(n, sidecar)
    /\ UNCHANGED <<disk, process, history, budget>>

\* The configuration changed while the session is idle, or a mark is settled
\* by ensure or by the reclaimer: rebuild now, dispose of the old generation.
SwapIdle ==
    /\ phase = "idle" /\ Settled /\ live /\ ~halting
    /\ \/ stale /\ swaps' = swaps
       \/ swaps < MaxSwaps /\ swaps' = swaps + 1
    /\ \E n \in 0 .. MaxTurns : ComposeFrom(n, sidecar)
    /\ retiring' = store
    /\ UNCHANGED <<disk, phase, turn, hand, halting, history, crashes>>

\* The configuration changed while a turn (or live workers) held the session.
DeferSwap ==
    /\ Macro /\ live /\ ~halting /\ swaps < MaxSwaps
    /\ stale' = TRUE /\ swaps' = swaps + 1
    /\ UNCHANGED <<disk, live, store, counter, process, history, crashes>>

\* evict, the idle sweep or the LRU: the generation is dropped and disposed of.
Evict ==
    /\ phase = "idle" /\ Settled /\ live /\ ~halting
    /\ live' = FALSE /\ store' = Fresh /\ counter' = 0 /\ stale' = FALSE
    /\ retiring' = store
    /\ UNCHANGED <<disk, phase, turn, hand, halting, history, budget>>

\* The continuation of Runtime.doShutdown in a disposed, idle generation.
RetireOld ==
    /\ ~Settled /\ phase \in {"idle", "running"}
    /\ sidecar' = CleanExit(retiring)
    /\ retiring' = Nothing
    /\ UNCHANGED <<log, generation, phase, turn, hand, halting, history, budget>>

(* --- messages ----------------------------------------------------------- *)

\* adapter.inject: steering while a turn runs (or queued, if the caller says
\* so), queued while idle.  The lane is saved before the call returns.
Push(m, lane) ==
    /\ Macro /\ live /\ ~halting /\ m \notin Accepted
    /\ phase = "idle" => lane = "nextTurn"
    /\ Write(Received(store, m, lane))
    /\ arrivals' = Append(arrivals, [msg |-> m, lane |-> lane])
    /\ UNCHANGED <<log, live, counter, stale, process, delivered, lost, torn, overtaken, budget>>

(* --- one turn ----------------------------------------------------------- *)

\* The turn-start drain of the generation whose copy is s.
DrainTurn(s) ==
    /\ hand' = s.nextTurn
    /\ store' = Drained(s, "nextTurn")
    /\ sidecar' = IF s.nextTurn = <<>> THEN sidecar ELSE store'
    /\ phase' = "draining"

\* A turn on the current generation: POST /api/turn when it is up to date, an
\* auto-wake turn (which never rebuilds), or any turn while live workers defer
\* the swap.
BeginTurn ==
    /\ phase = "idle" /\ Settled /\ live /\ ~halting /\ counter < MaxTurns
    /\ DrainTurn(store)
    /\ UNCHANGED <<log, live, counter, stale, retiring, turn, halting, history, budget>>

\* POST /api/turn on a stale generation: ensure swaps it, and the new one
\* starts the turn in the same synchronous section.
SwapAndBeginTurn ==
    /\ phase = "idle" /\ Settled /\ live /\ ~halting /\ stale
    /\ \E n \in Turn : IsNextTurn(log, n) /\ counter' = n
    /\ DrainTurn(sidecar)
    /\ retiring' = store /\ stale' = FALSE /\ overtaken' = TRUE
    /\ UNCHANGED <<log, live, turn, halting, arrivals, delivered, lost, torn, budget>>

\* mutant: the drained messages are taken from the wrong end.
InjectRowLastFirst ==
    /\ phase \in {"draining", "stepping"} /\ hand # <<>>
    /\ delivered' = Append(delivered, hand[Len(hand)])
    /\ hand' = SubSeq(hand, 1, Len(hand) - 1)
    /\ UNCHANGED <<disk, generation, phase, retiring, turn, halting, arrivals, lost, torn, overtaken, budget>>

\* One drained message becomes a user_message row.
InjectRow ==
    /\ phase \in {"draining", "stepping"} /\ hand # <<>>
    /\ delivered' = Append(delivered, Head(hand))
    /\ hand' = Tail(hand)
    /\ UNCHANGED <<disk, generation, phase, retiring, turn, halting, arrivals, lost, torn, overtaken, budget>>

\* nextTurnId and the turn_start row ...
OpenTurn ==
    /\ phase = "draining" /\ hand = <<>>
    /\ log' = Append(log, Started(counter))
    /\ turn' = counter /\ counter' = counter + 1
    /\ phase' = "opening"
    /\ UNCHANGED <<sidecar, live, store, stale, retiring, hand, halting, history, budget>>

\* mutant: a turn does not take back the clean exit of an earlier generation.
MarkOpenStillClean ==
    /\ phase = "opening"
    /\ Write([store EXCEPT !.open = turn])
    /\ phase' = "boundary"
    /\ UNCHANGED <<log, live, counter, stale, retiring, turn, hand, halting, history, budget>>

\* ... then the decorator's open_turn marker.
MarkOpen ==
    /\ phase = "opening"
    /\ Write(Alive([store EXCEPT !.open = turn]))
    /\ phase' = "boundary"
    /\ UNCHANGED <<log, live, counter, stale, retiring, turn, hand, halting, history, budget>>

\* A step boundary: the first one in the section that opened the turn, a later
\* one when the previous step settled and the turn was not aborted.
DrainStep ==
    /\ \/ phase = "boundary"
       \/ phase = "running" /\ Settled /\ ~halting
    /\ hand' = store.nextStep
    /\ store' = Drained(store, "nextStep")
    /\ sidecar' = IF store.nextStep = <<>> THEN sidecar ELSE store'
    /\ phase' = "stepping"
    /\ UNCHANGED <<log, live, counter, stale, retiring, turn, halting, history, budget>>

\* The request is built and sent; the turn waits for the model and the tools.
CallModel ==
    /\ phase = "stepping" /\ hand = <<>>
    /\ phase' = "running"
    /\ UNCHANGED <<disk, generation, retiring, turn, hand, halting, history, budget>>

\* Whatever the outcome, one turn_end row from the single exit ...
EndTurn ==
    /\ phase = "running" /\ Settled
    /\ log' = Append(log, Ended(turn))
    /\ phase' = "ending"
    /\ UNCHANGED <<sidecar, generation, retiring, turn, hand, halting, history, budget>>

\* ... then the marker is cleared and the slot released.
MarkEnded ==
    /\ phase = "ending"
    /\ Write(Alive(NoOpenTurn(store)))
    /\ turn' = NoTurn /\ phase' = "idle"
    /\ UNCHANGED <<log, live, counter, stale, retiring, hand, halting, history, budget>>

(* --- clear -------------------------------------------------------------- *)

\* POST /api/clear on an idle session empties the log, then the marker.
ClearLog ==
    /\ phase = "idle" /\ Settled /\ live /\ ~halting
    /\ log' = <<>> /\ counter' = 0 /\ torn' = {}
    /\ phase' = "clearing"
    /\ UNCHANGED <<sidecar, live, store, stale, retiring, turn, hand, halting, arrivals, delivered, lost, overtaken, budget>>

ClearMark ==
    /\ phase = "clearing"
    /\ Write(Alive(NoOpenTurn(store)))
    /\ phase' = "idle"
    /\ UNCHANGED <<log, live, counter, stale, retiring, turn, hand, halting, history, budget>>

(* --- the end of a process ------------------------------------------------ *)

\* SIGTERM: traffic is cut first, then a running turn is aborted ...
Halt ==
    /\ Macro /\ ~halting
    /\ halting' = TRUE
    /\ UNCHANGED <<disk, generation, phase, retiring, turn, hand, history, budget>>

\* mutant: the exit does not wait for the running turn.
HaltCleanWithoutJoin ==
    /\ halting /\ phase \in {"idle", "running"} /\ Settled
    /\ sidecar' = IF live THEN CleanExit(store) ELSE sidecar
    /\ phase' = "down" /\ halting' = FALSE /\ turn' = NoTurn
    /\ live' = FALSE /\ store' = Fresh /\ counter' = 0 /\ stale' = FALSE
    /\ UNCHANGED <<log, retiring, hand, history, budget>>

\* ... and joined, before a clean exit is claimed.
HaltClean ==
    /\ halting /\ phase = "idle" /\ Settled
    /\ sidecar' = IF live THEN CleanExit(store) ELSE sidecar
    /\ phase' = "down" /\ halting' = FALSE
    /\ live' = FALSE /\ store' = Fresh /\ counter' = 0 /\ stale' = FALSE
    /\ UNCHANGED <<log, retiring, turn, hand, history, budget>>

\* The process dies; only the disk is left.
Crash ==
    /\ phase # "down" /\ crashes < MaxCrashes
    /\ crashes' = crashes + 1
    /\ lost' = lost \cup Elems(hand)
    /\ torn' = IF phase \in {"opening", "boundary", "stepping", "running"} THEN torn \cup {turn} ELSE torn
    /\ phase' = "down" /\ halting' = FALSE /\ retiring' = Nothing /\ turn' = NoTurn /\ hand' = <<>>
    /\ live' = FALSE /\ store' = Fresh /\ counter' = 0 /\ stale' = FALSE
    /\ UNCHANGED <<disk, arrivals, delivered, overtaken, swaps>>

Next ==
    \/ BootRepair \/ RecordRepair \/ BootClearMarker \/ BootSkip
    \/ Compose \/ SwapIdle \/ DeferSwap \/ Evict \/ RetireOld
    \/ \E m \in Msg, lane \in Lane : Push(m, lane)
    \/ BeginTurn \/ SwapAndBeginTurn \/ InjectRow \/ OpenTurn \/ MarkOpen
    \/ DrainStep \/ CallModel \/ EndTurn \/ MarkEnded
    \/ ClearLog \/ ClearMark
    \/ Halt \/ HaltClean \/ Crash

Spec == Init /\ [][Next]_vars

-----------------------------------------------------------------------------
(* Properties *)

TypeOK ==
    /\ log \in Seq(Row) /\ sidecar \in Checkpoint
    /\ phase \in Phase /\ retiring \in Checkpoint \cup {Nothing}
    /\ turn \in Turn \cup {NoTurn} /\ hand \in Seq(Msg) /\ halting \in BOOLEAN
    /\ live \in BOOLEAN /\ store \in Checkpoint
    /\ counter \in 0 .. MaxTurns /\ stale \in BOOLEAN
    /\ arrivals \in Seq([msg : Msg, lane : Lane]) /\ delivered \in Seq(Msg)
    /\ lost \in SUBSET Msg /\ torn \in SUBSET Turn /\ overtaken \in BOOLEAN
    /\ swaps \in 0 .. MaxSwaps /\ crashes \in 0 .. MaxCrashes

\* Across any sequence of turns, crashes, repairs, restarts, swaps and clears
\* the log reads as one sequence of turns: ids grow from one turn_start to the
\* next (nextTurnNumber restores the counter), a turn is ended at most once (a
\* second boot does not repeat a repair) and only after it was started.
StartsIncrease(l) ==
    \A i, j \in 1 .. Len(l) :
        i < j /\ l[i].type = "turn_start" /\ l[j].type = "turn_start" => l[i].id < l[j].id
EndsOnce(l) ==
    \A i, j \in 1 .. Len(l) :
        l[i].type = "turn_end" /\ l[j].type = "turn_end" /\ l[i].id = l[j].id => i = j
EndsAfterStart(l) ==
    \A j \in 1 .. Len(l) : l[j].type = "turn_end" =>
        \E i \in 1 .. j - 1 : l[i] = Started(l[j].id)
WellFormed(l) == StartsIncrease(l) /\ EndsOnce(l) /\ EndsAfterStart(l)
TurnLogWellFormed == WellFormed(log)

\* A turn without its turn_end is the one in flight or one a crash cut: no
\* shutdown, swap, eviction or clear leaves a turn open behind it.
DanglingExplained == Dangling(log) \subseteq torn \cup {turn}

\* While a turn is in flight the sidecar names it and does not claim a clean
\* exit, so that a crash at any moment of the turn is repaired at the next boot.
OpenTurnOnDisk ==
    ~overtaken /\ phase = "running" /\ Settled => sidecar.open = turn /\ ~sidecar.clean

\* Messages of one lane reach the log in the order they were accepted, and
\* none overtakes an earlier one that is still waiting; a crash may only lose.
LaneFIFO ==
    ~overtaken => \A i, j \in 1 .. Len(arrivals) : i < j /\ arrivals[i].lane = arrivals[j].lane =>
        \A q \in 1 .. Len(delivered) : delivered[q] = arrivals[j].msg =>
            \/ arrivals[i].msg \in lost
            \/ \E p \in 1 .. q - 1 : delivered[p] = arrivals[i].msg

\* Where a message is, as the delivery contract sees it.
Places(m) ==
    {p \in {"queue", "hand", "log", "lost"} :
        m \in CASE p = "queue" -> Elems(sidecar.nextTurn) \cup Elems(sidecar.nextStep)
               [] p = "hand" -> Elems(hand)
               [] p = "log" -> Elems(delivered)
               [] p = "lost" -> lost}

Contract == INSTANCE DeliveryContract
                WITH where <- [m \in Msg |-> Places(m)], again <- overtaken

\* A session keeps the delivery contract: a message is in one place at a time,
\* is injected at most once, and is lost only if a crash finds it in hand.
ImplementsDelivery == Contract!Spec
=============================================================================
