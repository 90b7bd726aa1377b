-------------------------- MODULE SessionRegistry --------------------------
(***************************************************************************)
(* The registry of live session instances of one Celestea process, and the *)
(* requests that compete for it: turns, auto-wakes, activations,           *)
(* configuration changes, the idle reclaimer and the removal of a session. *)
(*                                                                         *)
(* An instance is one composed Runtime with its slot.  The slot            *)
(* (`inFlight`) belongs to the registry, the turn (`running`) to the       *)
(* runner of the composed generation and the live background work          *)
(* (`workers`) to its worker registry: swapping the generation of an       *)
(* instance keeps the slot and loses the other two.                        *)
(*                                                                         *)
(* An action is a synchronous section of the code, with the promise        *)
(* continuations that run before any other request can: a pass of the      *)
(* reclaimer and the teardown of an idle instance take one step.  Only a   *)
(* removal really waits, for the turn it cancelled, and takes several.     *)
(***************************************************************************)
EXTENDS Integers, FiniteSets

CONSTANTS
    Session,      \* session keys
    Default,      \* the detached default instance, always there
    Removable,    \* bound: the sessions that are archived or deleted
    MaxLive,      \* live instances that may count against the cap
    MaxTurns      \* turns in flight at the same time

ASSUME DefaultAssumption == Default \notin Session
ASSUME RemovableAssumption == Removable \subseteq Session
ASSUME FiniteSession == IsFiniteSet(Session)
ASSUME MaxLiveAssumption == MaxLive \in Nat \ {0}
ASSUME MaxTurnsAssumption == MaxTurns \in Nat \ {0}

Key == Session \cup {Default}
None == [none |-> TRUE]

\* stale: needsRebuild, or a profile epoch behind the current one.
Entry == [inFlight : BOOLEAN, cancelled : BOOLEAN, stale : BOOLEAN]
NoRemoval == [phase |-> "off", ids |-> {}, left |-> {}, at |-> None]
Fresh == [inFlight |-> FALSE, cancelled |-> FALSE, stale |-> FALSE]

VARIABLES
    entry,      \* the registry: the instance of a key, or None
    running,    \* keys whose composed generation is running a turn
    workers,    \* keys whose composed generation has live workers
    older,      \* pairs of registered sessions: the first was used before the second
    cold,       \* sessions that are past the idle TTL
    removal,    \* the request that removes sessions, if one is under way
    orphans,    \* sessions whose work still runs on a detached instance
    away        \* sessions whose directory was moved away

vars == <<entry, running, workers, older, cold, removal, orphans, away>>

-----------------------------------------------------------------------------
(* The instances *)

Registered == {k \in Key : entry[k] # None}
Busy == {k \in Registered : entry[k].inFlight}
\* mutant: the pin forgets live workers.
PinnedDefaultOnly == Registered \cap {Default}

Pinned == {k \in Registered : k = Default \/ k \in workers}
Counted == Registered \ Pinned
Evictable == Registered \ (Busy \cup Pinned)

\* A generation swap would kill live workers, or a turn: it is put off.
PutOffForWorkersOnly == workers   \* mutant: a turn in flight is no reason

PutOffForTurnsOnly == Busy   \* mutant: live workers are no reason

PutOff == Busy \cup workers

\* What settleEpoch leaves of an instance, once it was marked if `mark` holds.
AfterSettle(k, mark) == [entry[k] EXCEPT !.stale = (@ \/ mark) /\ k \in PutOff]

\* The instances among `ks` that a rebuild gives a new generation.
Rebuilt(ks) == ks \ PutOff

\* `older` when k was just used, and when the sessions ks have left.
Touched(k) ==
    IF k = Default THEN older
    ELSE {p \in older : p[1] # k} \cup ((Registered \ {k, Default}) \X {k})
Without(ks) == {p \in older : p[1] \notin ks /\ p[2] \notin ks}

-----------------------------------------------------------------------------
(* Making room: evict idle, unpinned instances, least recently used first,
   until one more fits. *)

\* mutant: room is made for the others but not for the new one.
ExcessOffByOne == Cardinality(Counted) - MaxLive

Excess == Cardinality(Counted) + 1 - MaxLive
RoomFor == Excess <= Cardinality(Evictable)

\* The victims: as many as there are too many, or all there are.
IsVictims(vs) ==
    /\ Cardinality(vs) = IF Excess < 0 THEN 0 ELSE IF RoomFor THEN Excess ELSE Cardinality(Evictable)
    /\ \A v \in vs, x \in Evictable \ vs : <<v, x>> \in older

\* ensure(k), which then takes the turn slot if `busy`: the instance that is
\* there, its swap settled, or a new one in the room that was made.
Use(k, busy) ==
    \/ /\ k \in Registered
       /\ LET old == IF entry[k].stale THEN Rebuilt({k}) ELSE {}
          IN /\ entry' = [entry EXCEPT ![k] = [AfterSettle(k, FALSE) EXCEPT !.inFlight = @ \/ busy]]
             /\ running' = (running \ old) \cup {x \in {k} : busy}
             /\ workers' = workers \ old
       /\ older' = Touched(k) /\ cold' = cold \ {k}
    \/ /\ k \notin Registered /\ RoomFor
       /\ \E vs \in SUBSET Evictable :
             /\ IsVictims(vs)
             /\ entry' = [x \in Key |->
                    IF x = k THEN [Fresh EXCEPT !.inFlight = busy]
                    ELSE IF x \in vs THEN None ELSE entry[x]]
             /\ older' = Without(vs) \cup ((Registered \ (vs \cup {Default})) \X {k})
             /\ cold' = cold \ vs
       /\ running' = running \cup {x \in {k} : busy}
       /\ workers' = workers

Init ==
    /\ entry = [k \in Key |-> IF k = Default THEN Fresh ELSE None]
    /\ running = {} /\ workers = {}
    /\ older = {} /\ cold = {}
    /\ removal = NoRemoval
    /\ orphans = {} /\ away = {}

(* --- requests ------------------------------------------------------------ *)

\* POST /api/sessions/:id/activate, or a message for an idle session.
Ensure(k) ==
    /\ k \notin away
    /\ Use(k, FALSE)
    /\ UNCHANGED <<removal, orphans, away>>

\* No slot can be made free.  The instances evicted on the way stay evicted.
EnsureRefused(s) ==
    /\ s \notin Registered \cup away /\ ~RoomFor
    /\ entry' = [x \in Key |-> IF x \in Evictable THEN None ELSE entry[x]]
    /\ older' = Without(Evictable) /\ cold' = cold \ Evictable
    /\ UNCHANGED <<running, workers, removal, orphans, away>>

\* mutant: one turn too many is let in.
TurnSlotFreeOffByOne == Cardinality(Busy) <= MaxTurns

TurnSlotFree == Cardinality(Busy) < MaxTurns

\* POST /api/turn on a session that is not busy.  Over the turn cap it only
\* has the effect of Ensure.
StartTurn(k) ==
    /\ k \notin Busy \cup away /\ TurnSlotFree
    /\ Use(k, TRUE)
    /\ UNCHANGED <<removal, orphans, away>>

\* An auto-wake starts a turn on the instance as it is, without ensure.
Wake(k) ==
    /\ k \in Registered \ Busy /\ TurnSlotFree
    /\ entry' = [entry EXCEPT ![k].inFlight = TRUE]
    /\ running' = running \cup {k}
    /\ older' = Touched(k) /\ cold' = cold \ {k}
    /\ UNCHANGED <<workers, removal, orphans, away>>

\* POST /api/cancel: a cooperative abort.
Cancel(k) ==
    /\ k \in Busy
    /\ entry' = [entry EXCEPT ![k].cancelled = TRUE]
    /\ UNCHANGED <<running, workers, older, cold, removal, orphans, away>>

\* The turn settled: drive() gives the slot back.
EndTurn(k) ==
    /\ k \in Busy \cap running
    /\ entry' = [entry EXCEPT ![k].inFlight = FALSE, ![k].cancelled = FALSE]
    /\ running' = running \ {k}
    /\ older' = Touched(k) /\ cold' = cold \ {k}
    /\ UNCHANGED <<workers, removal, orphans, away>>

\* A worker is spawned by a turn, or woken by a message from its own page.
WorkersStart(k) ==
    /\ k \in Registered \ workers
    /\ workers' = workers \cup {k}
    /\ UNCHANGED <<entry, running, older, cold, removal, orphans, away>>

WorkersSettle(k) ==
    /\ k \in workers
    /\ workers' = workers \ {k}
    /\ UNCHANGED <<entry, running, older, cold, removal, orphans, away>>

(* --- changes -------------------------------------------------------------- *)

\* Marks and settles the instances `ks`.
Invalidate(ks) ==
    /\ entry' = [k \in Key |-> IF k \in ks THEN AfterSettle(k, TRUE) ELSE entry[k]]
    /\ running' = running \ Rebuilt(ks)
    /\ workers' = workers \ Rebuilt(ks)
    /\ UNCHANGED <<older, cold, removal, orphans, away>>

\* The base profile changed (bumpEpoch).
InvalidateAll == Invalidate(Registered)

\* One session's grants were written.
InvalidateSession(k) == k \in Registered /\ Invalidate({k})

(* --- the reclaimer --------------------------------------------------------- *)

\* Time passes: the least recently used session that is not cold gets cold.
Age ==
    /\ \E s \in Session \cap Registered :
          /\ s \notin cold
          /\ \A x \in Session : <<x, s>> \in older => x \in cold
          /\ cold' = cold \cup {s}
    /\ UNCHANGED <<entry, running, workers, older, removal, orphans, away>>

\* mutant: the pass only evicts.
SweepEvictsOnly ==
    LET evicted == cold \cap Evictable
    IN /\ entry' = [k \in Key |-> IF k \in evicted THEN None ELSE entry[k]]
       /\ older' = Without(evicted) /\ cold' = cold \ evicted
       /\ UNCHANGED <<running, workers, removal, orphans, away>>

\* The timer fires: what is past the TTL and neither busy nor pinned is
\* evicted, then the deferred swaps of the others are settled.
Sweep ==
    LET evicted == cold \cap Evictable
        due == {k \in Registered \ evicted : entry[k].stale}
    IN /\ entry' = [k \in Key |-> IF k \in evicted THEN None
                                 ELSE IF k \in due THEN AfterSettle(k, FALSE) ELSE entry[k]]
       /\ running' = running \ Rebuilt(due)
       /\ workers' = workers \ Rebuilt(due)
       /\ older' = Without(evicted) /\ cold' = cold \ evicted
       /\ UNCHANGED <<removal, orphans, away>>

(* --- the removal of sessions: archive or delete, one or a batch ----------- *)

\* Instances leave the registry; their turns and workers go on until they
\* notice, and the teardown (Runtime.doShutdown) waits for them.
Detach(ks) ==
    /\ running' = running \ ks /\ workers' = workers \ ks
    /\ orphans' = orphans \cup (ks \cap (running \cup workers))
    /\ older' = Without(ks) /\ cold' = cold \ ks
Unlisted(ks) == [k \in Key |-> IF k \in ks THEN None ELSE entry[k]]

\* cutEngineSession goes on with the ids `left` of a request for `ids`.  It
\* detaches the instances `cut` that hold no work, up to one that has a turn,
\* which it cancels and waits for, or live workers, whose end it awaits; after
\* the last id the directories move.  (The order of the ids is left open.)
GoOn(ids, left, cut) ==
    /\ cut \subseteq left \ PutOff
    /\ \/ /\ cut = left
          /\ Detach(cut) /\ entry' = Unlisted(cut)
          /\ removal' = NoRemoval /\ away' = away \cup ids
       \/ \E b \in (left \ cut) \cap Busy :
             /\ Detach(cut) /\ entry' = [Unlisted(cut) EXCEPT ![b].cancelled = TRUE]
             /\ removal' = [phase |-> "settling", ids |-> ids, left |-> left \ cut, at |-> b]
             /\ away' = away
       \/ \E b \in (left \ cut) \cap (workers \ Busy) :
             /\ Detach(cut \cup {b}) /\ entry' = Unlisted(cut \cup {b})
             /\ removal' = [phase |-> "joining", ids |-> ids, left |-> left \ (cut \cup {b}), at |-> b]
             /\ away' = away

RemovalStart(ids) ==
    /\ removal = NoRemoval
    /\ \E cut \in SUBSET ids : GoOn(ids, ids, cut)

\* The cancelled turn gave its slot back in time.
RemovalSettled ==
    /\ removal.phase = "settling" /\ removal.at \notin PutOff
    /\ \E cut \in SUBSET removal.left : removal.at \in cut /\ GoOn(removal.ids, removal.left, cut)

\* mutant: the time-out is not honoured, the turn is waited for.
RemovalDetachNever ==
    /\ removal.phase = "settling" /\ removal.at \in workers \ Busy
    /\ Detach({removal.at}) /\ entry' = Unlisted({removal.at})
    /\ removal' = [removal EXCEPT !.phase = "joining", !.left = @ \ {removal.at}]
    /\ UNCHANGED away

\* It did not, or workers are left: the instance is detached all the same.
RemovalDetach ==
    /\ removal.phase = "settling" /\ removal.at \in PutOff
    /\ Detach({removal.at}) /\ entry' = Unlisted({removal.at})
    /\ removal' = [removal EXCEPT !.phase = "joining", !.left = @ \ {removal.at}]
    /\ UNCHANGED away

RemovalJoined ==
    /\ removal.phase = "joining" /\ removal.at \notin orphans
    /\ \E cut \in SUBSET removal.left : GoOn(removal.ids, removal.left, cut)

RemovalGoesOn == RemovalSettled \/ RemovalDetach \/ RemovalJoined

OrphanEnds(s) ==
    /\ s \in orphans
    /\ orphans' = orphans \ {s}
    /\ UNCHANGED <<entry, running, workers, older, cold, removal, away>>

\* An archived session is restored.
Unarchive(s) ==
    /\ s \in away
    /\ away' = away \ {s}
    /\ UNCHANGED <<entry, running, workers, older, cold, removal, orphans>>

Next ==
    \/ \E k \in Key :
          \/ Ensure(k) \/ StartTurn(k) \/ Wake(k) \/ Cancel(k) \/ EndTurn(k)
          \/ WorkersStart(k) \/ WorkersSettle(k) \/ InvalidateSession(k)
    \/ InvalidateAll \/ Age \/ Sweep
    \/ \E ids \in SUBSET (Removable \ away) \ {{}} : RemovalStart(ids)
    \/ RemovalGoesOn
    \/ \E s \in Session : EnsureRefused(s) \/ OrphanEnds(s) \/ Unarchive(s)

\* What the process does by itself: the reclaimer's timer and the removal's
\* time-out fire, and a removal goes on.  Nothing makes a request arrive or an
\* ordinary turn end.
ProcessFairness ==
    WF_vars(Sweep) /\ WF_vars(RemovalGoesOn)

\* Aborted turns and workers notice it.
AbortFairness == \A s \in Session : WF_vars(OrphanEnds(s))

Spec == Init /\ [][Next]_vars
FairSpec == Spec /\ ProcessFairness
CooperativeSpec == FairSpec /\ AbortFairness

-----------------------------------------------------------------------------
(* Properties *)

TypeOK ==
    /\ entry \in [Key -> Entry \cup {None}]
    /\ running \subseteq Key /\ workers \subseteq Key
    /\ older \subseteq Session \X Session /\ cold \subseteq Session
    /\ removal \in [phase : {"off", "settling", "joining"}, ids : SUBSET Session,
                     left : SUBSET Session, at : Session \cup {None}]
    /\ orphans \subseteq Session /\ away \subseteq Session

\* The slot of an instance is taken exactly while its own generation runs a
\* turn: no swap, eviction or removal leaves a slot that no turn will give
\* back, or a turn whose slot is free.
SlotMatchesTurn == Busy = running

\* Live workers belong to a registered instance.
WorkersHaveHost == workers \subseteq Registered

\* The turn cap holds over every interleaving of turns, wakes and evictions.
TurnCap == Cardinality(Busy) <= MaxTurns

\* Pressure for room, the idle sweep and configuration changes never take an
\* instance from its running turn or from its live workers: only the turn, the
\* workers or the removal of the session end that.
WorkSurvivesStep ==
    \A k \in Registered : k \in running \cup workers =>
        \/ /\ entry'[k] # None
           /\ k \in running => k \in running' \/ EndTurn(k)
           /\ k \in workers => k \in workers' \/ WorkersSettle(k)
        \/ removal'.phase = "joining" /\ removal'.at = k
WorkSurvives == [][WorkSurvivesStep]_vars

\* Composing a session never leaves more counted instances than the cap: only
\* an instance that loses its pin can exceed it.
LiveCapStep ==
    \A s \in Session : entry[s] = None /\ entry'[s] # None => Cardinality(Counted') <= MaxLive
LiveCap == [][LiveCapStep]_vars

\* A change reaches every session: an instance that stays idle and without
\* live workers does not stay on an old generation.
ChangeArrives ==
    \A k \in Key : <>[](k \notin PutOff) => []<>(k \notin Registered \/ ~entry[k].stale)

\* The removal of sessions returns, whatever their turns do
\* (session-release.ts: "short enough that a wedged turn cannot hold a delete
\* request open").
RemovalReturns == removal # NoRemoval ~> removal = NoRemoval
=============================================================================
