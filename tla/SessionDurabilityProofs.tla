---------------------- MODULE SessionDurabilityProofs ----------------------
(***************************************************************************)
(* What holds of a session's log and sidecar for every set of messages and *)
(* every bound on turns, swaps and crashes, deferred swaps included: its   *)
(* turns, and that it implements the delivery contract.                    *)
(*                                                                         *)
(* For the messages, the 24 actions of the session come down to six        *)
(* shapes, by what they do to the lanes and to the message rows (LEMMA     *)
(* StepShapes).  Two invariants carry the refinement: every copy of the    *)
(* checkpoint that may still reach the disk knows every message that is    *)
(* not in hand, in the log or lost (KeptInv); and until a turn overtakes a *)
(* retiring generation all copies agree, and a message is in one place     *)
(* only (OnceInv).  The order of a lane needs more than that of the log:   *)
(* FIFOInv says of each place a message passes, its lane, the hand and the *)
(* log, that what was accepted before it on its lane has gone on or is     *)
(* before it there.                                                        *)
(***************************************************************************)
EXTENDS SessionDurability, SequenceTheorems, TLAPS

-----------------------------------------------------------------------------
(* Type correctness *)

\* A checkpoint with a field replaced by one of the same type is a checkpoint.
LEMMA CheckpointFields ==
    ASSUME NEW s \in Checkpoint
    PROVE  /\ s.nextTurn \in Seq(Msg) /\ s.nextStep \in Seq(Msg) /\ s.open \in Turn \cup {NoTurn}
           /\ \A c \in BOOLEAN : [s EXCEPT !.clean = c] \in Checkpoint
           /\ \A t \in Turn \cup {NoTurn} : [s EXCEPT !.open = t] \in Checkpoint
           /\ \A q \in Seq(Msg), c \in BOOLEAN : [s EXCEPT !.nextTurn = q, !.clean = c] \in Checkpoint
           /\ \A q \in Seq(Msg), c \in BOOLEAN : [s EXCEPT !.nextStep = q, !.clean = c] \in Checkpoint
           /\ [s EXCEPT !.open = NoTurn, !.clean = TRUE] \in Checkpoint
BY DEF Checkpoint

\* What marking a boundary writes is a checkpoint.
LEMMA CheckpointWrites ==
    ASSUME NEW s \in Checkpoint
    PROVE  /\ Alive(s) \in Checkpoint
           /\ NoOpenTurn(s) \in Checkpoint
           /\ CleanExit(s) \in Checkpoint
           /\ Alive(NoOpenTurn(s)) \in Checkpoint
           /\ \A t \in Turn : Alive([s EXCEPT !.open = t]) \in Checkpoint
<1>1. NoOpenTurn(s) \in Checkpoint  BY CheckpointFields DEF NoOpenTurn
<1>2. \A t \in Turn : [s EXCEPT !.open = t] \in Checkpoint  BY CheckpointFields
<1>3. \A c \in Checkpoint : Alive(c) \in Checkpoint  BY CheckpointFields DEF Alive
<1>4. CleanExit(s) \in Checkpoint  BY CheckpointFields DEF CleanExit
<1> QED  BY <1>1, <1>2, <1>3, <1>4

\* So is what a drain writes.
LEMMA CheckpointDrain ==
    ASSUME NEW s \in Checkpoint
    PROVE  Drained(s, "nextTurn") \in Checkpoint /\ Drained(s, "nextStep") \in Checkpoint
<1>1. <<>> \in Seq(Msg)  OBVIOUS
<1> QED  BY <1>1, CheckpointFields DEF Drained

\* So is what a message on a lane writes.
LEMMA CheckpointPush ==
    ASSUME NEW s \in Checkpoint, NEW m \in Msg, NEW lane \in Lane
    PROVE  [s EXCEPT ![lane] = Append(@, m), !.clean = FALSE] \in Checkpoint
<1>0. s.nextTurn \in Seq(Msg) /\ s.nextStep \in Seq(Msg)
    BY CheckpointFields
<1>1. /\ Append(s.nextTurn, m) \in Seq(Msg)
      /\ Append(s.nextStep, m) \in Seq(Msg)
    BY <1>0, AppendProperties
<1>2. CASE lane = "nextTurn"  BY <1>1, <1>2, CheckpointFields
<1>3. CASE lane = "nextStep"  BY <1>1, <1>3, CheckpointFields
<1> QED  BY <1>2, <1>3 DEF Lane

\* Between the claim of the slot and turn_start the id to be used is free, and
\* every phase of a turn belongs to a live generation.
TurnIsLive ==
    /\ phase \in {"down", "repairing"} => ~live
    /\ phase \in {"draining", "opening", "boundary", "stepping", "running", "ending", "clearing"} => live
    /\ phase = "draining" => counter < MaxTurns
    /\ phase \in {"opening", "boundary", "stepping", "running"} => turn \in Turn

TypeInv == TypeOK /\ TurnIsLive

\* So is what a session starts from.
LEMMA FreshCheckpoint == Fresh \in Checkpoint
<1>1. <<>> \in Seq(Msg)  OBVIOUS
<1> QED  BY <1>1 DEF Fresh, Checkpoint

\* The types hold at the start.
LEMMA TypeInvInit == Init => TypeInv
<1> SUFFICES ASSUME Init PROVE TypeInv
    OBVIOUS
<1>1. TypeOK
  <2>1. /\ log \in Seq(Row) /\ hand \in Seq(Msg) /\ delivered \in Seq(Msg)
        /\ arrivals \in Seq([msg : Msg, lane : Lane])
    BY DEF Init
  <2>2. counter \in 0 .. MaxTurns /\ swaps \in 0 .. MaxSwaps /\ crashes \in 0 .. MaxCrashes
    BY MaxTurnsAssumption, MaxSwapsAssumption, MaxCrashesAssumption DEF Init
  <2>3. halting \in BOOLEAN /\ live \in BOOLEAN /\ stale \in BOOLEAN
    BY DEF Init
  <2> QED  BY <2>1, <2>2, <2>3, FreshCheckpoint DEF Init, TypeOK, Phase
<1>2. TurnIsLive
    BY DEF Init, TurnIsLive
<1> QED  BY <1>1, <1>2 DEF TypeInv

\* Every step keeps the types.
LEMMA TypeInvStep == TypeInv /\ [Next]_vars => TypeInv'
<1> SUFFICES ASSUME TypeInv, [Next]_vars PROVE TypeInv'
    OBVIOUS
<1> USE MaxTurnsAssumption, MaxSwapsAssumption, MaxCrashesAssumption
<1> USE DEF TypeInv, TypeOK, TurnIsLive
<1>0. /\ Fresh \in Checkpoint
      /\ store \in Checkpoint /\ sidecar \in Checkpoint
    BY FreshCheckpoint
<1>1. CASE BootRepair
    BY <1>1 DEF BootRepair, Signature, Ended, Row, Phase, Turn, NoTurn, Checkpoint, generation, history, budget
<1>2. CASE RecordRepair
    BY <1>2, CheckpointWrites DEF RecordRepair, Phase, generation, history, budget
<1>3. CASE BootClearMarker
    BY <1>3, CheckpointWrites DEF BootClearMarker, Phase, generation, history, budget
<1>4. CASE BootSkip
    BY <1>4 DEF BootSkip, Phase, disk, generation, history, budget
<1>5. CASE Compose
    BY <1>5, <1>0 DEF Compose, ComposeFrom, disk, process, history, budget
<1>6. CASE SwapIdle
  <2>1. counter' \in 0 .. MaxTurns /\ swaps' \in 0 .. MaxSwaps
    BY <1>6 DEF SwapIdle, ComposeFrom
  <2>2. live' \in BOOLEAN /\ stale' \in BOOLEAN
    BY <1>6 DEF SwapIdle, ComposeFrom
  <2> QED  BY <2>1, <2>2, <1>6, <1>0 DEF SwapIdle, ComposeFrom, disk, history
<1>7. CASE DeferSwap
    BY <1>7 DEF DeferSwap, disk, process, history
<1>8. CASE Evict
  <2>1. counter' \in 0 .. MaxTurns
    BY <1>8 DEF Evict
  <2>2. live' \in BOOLEAN /\ stale' \in BOOLEAN
    BY <1>8 DEF Evict
  <2> QED  BY <2>1, <2>2, <1>8, <1>0 DEF Evict, disk, history, budget
<1>9. CASE RetireOld
    BY <1>9, CheckpointWrites DEF RetireOld, Settled, generation, history, budget
<1>10. ASSUME NEW m \in Msg, NEW lane \in Lane, Push(m, lane) PROVE TypeInv'
  <2>1. [msg |-> m, lane |-> lane] \in [msg : Msg, lane : Lane]
    OBVIOUS
  <2>2. arrivals' \in Seq([msg : Msg, lane : Lane])
    BY <2>1, <1>10, AppendProperties DEF Push
  <2>3. store' \in Checkpoint /\ sidecar' \in Checkpoint
    BY <1>10, CheckpointPush DEF Push, Received, Write
  <2> QED  BY <2>2, <2>3, <1>10 DEF Push, process, budget
<1>11. CASE BeginTurn
  <2>1. hand' \in Seq(Msg) /\ store' \in Checkpoint /\ sidecar' \in Checkpoint
    BY <1>11, CheckpointDrain, CheckpointFields DEF BeginTurn, DrainTurn
  <2> QED  BY <2>1, <1>11 DEF BeginTurn, DrainTurn, Phase, history, budget
<1>12. CASE SwapAndBeginTurn
  <2>1. hand' \in Seq(Msg) /\ store' \in Checkpoint /\ sidecar' \in Checkpoint
    BY <1>12, CheckpointDrain, CheckpointFields DEF SwapAndBeginTurn, DrainTurn
  <2>2. counter' \in 0 .. MaxTurns /\ counter' < MaxTurns
    BY <1>12 DEF SwapAndBeginTurn, Turn
  <2>3. stale' \in BOOLEAN /\ live'
    BY <1>12 DEF SwapAndBeginTurn
  <2> QED  BY <2>1, <2>2, <2>3, <1>12 DEF SwapAndBeginTurn, DrainTurn, Phase, history, budget
<1>13. CASE InjectRow
  <2>1. Head(hand) \in Msg /\ Tail(hand) \in Seq(Msg)
    BY <1>13 DEF InjectRow
  <2> QED  BY <2>1, <1>13 DEF InjectRow, disk, generation, budget
<1>14. CASE OpenTurn
  <2>1. counter \in Turn
    BY <1>14 DEF OpenTurn, Turn
  <2>2. log' \in Seq(Row)
    BY <2>1, <1>14 DEF OpenTurn, Started, Row
  <2> QED  BY <2>1, <2>2, <1>14 DEF OpenTurn, Turn, Phase, history, budget
<1>15. CASE MarkOpen
    BY <1>15, CheckpointWrites DEF MarkOpen, Write, Phase, history, budget
<1>16. CASE DrainStep
  <2>1. hand' \in Seq(Msg) /\ store' \in Checkpoint /\ sidecar' \in Checkpoint
    BY <1>16, CheckpointDrain, CheckpointFields DEF DrainStep
  <2> QED  BY <2>1, <1>16 DEF DrainStep, Phase, history, budget
<1>17. CASE CallModel
    BY <1>17 DEF CallModel, Phase, disk, generation, history, budget
<1>18. CASE EndTurn
    BY <1>18 DEF EndTurn, Ended, Row, Phase, generation, history, budget
<1>19. CASE MarkEnded
    BY <1>19, CheckpointWrites DEF MarkEnded, Write, Phase, history, budget
<1>20. CASE ClearLog
    BY <1>20 DEF ClearLog, Phase, budget
<1>21. CASE ClearMark
    BY <1>21, CheckpointWrites DEF ClearMark, Write, Phase, history, budget
<1>22. CASE Halt
    BY <1>22 DEF Halt, disk, generation, history, budget
<1>23. CASE HaltClean
  <2>1. counter' \in 0 .. MaxTurns
    BY <1>23 DEF HaltClean
  <2>2. live' \in BOOLEAN /\ stale' \in BOOLEAN /\ halting' \in BOOLEAN /\ ~live'
    BY <1>23 DEF HaltClean
  <2>3. sidecar' \in Checkpoint
    BY <1>23, <1>0, CheckpointWrites DEF HaltClean
  <2> QED  BY <2>1, <2>2, <2>3, <1>23, <1>0 DEF HaltClean, Phase, history, budget
<1>24. CASE Crash
  <2>1. Elems(hand) \subseteq Msg
    BY DEF Elems
  <2>2. counter' \in 0 .. MaxTurns /\ crashes' \in 0 .. MaxCrashes
    BY <1>24 DEF Crash
  <2>3. live' \in BOOLEAN /\ stale' \in BOOLEAN /\ halting' \in BOOLEAN /\ ~live'
    BY <1>24 DEF Crash
  <2>4. lost' \in SUBSET Msg /\ torn' \in SUBSET Turn
    BY <2>1, <1>24 DEF Crash
  <2> QED  BY <2>2, <2>3, <2>4, <1>24, <1>0 DEF Crash, Phase, disk
<1>25. CASE UNCHANGED vars
    BY <1>25 DEF vars, disk, generation, process, history, budget
<1> QED
    BY <1>1, <1>2, <1>3, <1>4, <1>5, <1>6, <1>7, <1>8, <1>9, <1>10, <1>11, <1>12, <1>13,
       <1>14, <1>15, <1>16, <1>17, <1>18, <1>19, <1>20, <1>21, <1>22, <1>23, <1>24, <1>25
       DEF Next

\* Every variable keeps its type and its bounds: the turn counter stays below
\* MaxTurns while an id is being claimed, the open turn is a turn, and a queue
\* holds messages.
THEOREM TypeCorrect == Spec => []TypeOK
<1>1. Init => TypeInv  BY TypeInvInit
<1>2. TypeInv /\ [Next]_vars => TypeInv'  BY TypeInvStep
<1>3. TypeInv => TypeOK  BY DEF TypeInv
<1> QED  BY <1>1, <1>2, <1>3, PTL DEF Spec

-----------------------------------------------------------------------------
(* The log reads as one sequence of turns *)

\* What appending a row does to a log.
LEMMA AppendRow ==
    ASSUME NEW l \in Seq(Row), NEW row \in Row
    PROVE  /\ Len(Append(l, row)) = Len(l) + 1 /\ Len(l) \in Nat
           /\ \A i \in 1 .. Len(l) : Append(l, row)[i] = l[i] /\ l[i] \in Row
           /\ Append(l, row)[Len(l) + 1] = row
           /\ \A i \in 1 .. Len(l) + 1 : i \in 1 .. Len(l) \/ i = Len(l) + 1
BY AppendProperties

\* The rows of a log with one more.
LEMMA HasRowAppend ==
    ASSUME NEW l \in Seq(Row), NEW row \in Row, NEW other \in Row
    PROVE  HasRow(Append(l, row), other) <=> HasRow(l, other) \/ other = row
<1> DEFINE k == Append(l, row)
<1>0. /\ Len(k) = Len(l) + 1 /\ Len(l) \in Nat /\ k[Len(l) + 1] = row
      /\ \A i \in 1 .. Len(l) : k[i] = l[i]
      /\ \A i \in 1 .. Len(l) + 1 : i \in 1 .. Len(l) \/ i = Len(l) + 1
    BY AppendRow
<1>1. ASSUME HasRow(k, other) PROVE HasRow(l, other) \/ other = row
    BY <1>0, <1>1 DEF HasRow
<1>2. ASSUME HasRow(l, other) PROVE HasRow(k, other)
    BY <1>0, <1>2 DEF HasRow
<1>3. ASSUME other = row PROVE HasRow(k, other)
    BY <1>0, <1>3 DEF HasRow
<1> QED  BY <1>1, <1>2, <1>3

\* The turn ids of a log with one row more.
LEMMA TurnIdsAppend ==
    ASSUME NEW l \in Seq(Row), NEW row \in Row
    PROVE  TurnIds(Append(l, row)) = TurnIds(l) \cup {row.id}
<1> DEFINE k == Append(l, row)
<1>0. /\ Len(k) = Len(l) + 1 /\ Len(l) \in Nat /\ k[Len(l) + 1] = row
      /\ \A i \in 1 .. Len(l) : k[i] = l[i]
      /\ \A i \in 1 .. Len(l) + 1 : i \in 1 .. Len(l) \/ i = Len(l) + 1
    BY AppendRow
<1>1. TurnIds(k) \subseteq TurnIds(l) \cup {row.id}
    BY <1>0 DEF TurnIds
<1>2. TurnIds(l) \cup {row.id} \subseteq TurnIds(k)
    BY <1>0 DEF TurnIds
<1> QED  BY <1>1, <1>2

\* A turn_start above every id keeps the log well formed ...
LEMMA AppendStart ==
    ASSUME NEW l \in Seq(Row), NEW t \in Turn, WellFormed(l), \A u \in TurnIds(l) : u < t
    PROVE  WellFormed(Append(l, Started(t))) /\ ~HasRow(Append(l, Started(t)), Ended(t))
<1> DEFINE k == Append(l, Started(t))
           n == Len(l) + 1
<1>0. Started(t) \in Row /\ Ended(t) \in Row /\ Started(t).id = t /\ Started(t).type = "turn_start"
    BY DEF Row, Started, Ended
<1>1. /\ Len(k) = n /\ Len(l) \in Nat /\ k[n] = Started(t)
      /\ \A i \in 1 .. Len(l) : k[i] = l[i] /\ l[i] \in Row
      /\ \A i \in 1 .. n : i \in 1 .. Len(l) \/ i = n
    BY <1>0, AppendRow
<1>2. \A i \in 1 .. Len(l) : l[i].id < t
    BY DEF TurnIds
<1> HIDE DEF k
<1>3. StartsIncrease(k)
    BY <1>0, <1>1, <1>2 DEF WellFormed, StartsIncrease
<1>4. EndsOnce(k)
    BY <1>0, <1>1 DEF WellFormed, EndsOnce
<1>5. EndsAfterStart(k)
  <2> SUFFICES ASSUME NEW j \in 1 .. Len(k), k[j].type = "turn_end"
               PROVE  \E i \in 1 .. j - 1 : k[i] = Started(k[j].id)
      BY DEF EndsAfterStart
  <2>1. j \in 1 .. Len(l) /\ k[j] = l[j]
      BY <1>0, <1>1
  <2>2. PICK i \in 1 .. j - 1 : l[i] = Started(l[j].id)
      BY <2>1 DEF WellFormed, EndsAfterStart
  <2>3. i \in 1 .. Len(l) /\ k[i] = l[i]
      BY <2>1, <2>2, <1>1
  <2> QED  BY <2>1, <2>2, <2>3
<1>6. ~HasRow(k, Ended(t))
  <2>1. Ended(t).id = t /\ Ended(t).type = "turn_end" /\ ~(t < t)
      BY DEF Ended, Turn
  <2> QED  BY <2>1, <1>0, <1>1, <1>2 DEF HasRow
<1> QED  BY <1>3, <1>4, <1>5, <1>6 DEF WellFormed, k

\* ... and so does the turn_end of a turn that was started and not ended.
LEMMA AppendEnd ==
    ASSUME NEW l \in Seq(Row), NEW t \in Turn, WellFormed(l),
           HasRow(l, Started(t)), ~HasRow(l, Ended(t))
    PROVE  WellFormed(Append(l, Ended(t)))
<1> DEFINE k == Append(l, Ended(t))
           n == Len(l) + 1
<1>0. Ended(t) \in Row /\ Ended(t).id = t /\ Ended(t).type = "turn_end"
    BY DEF Row, Ended
<1>1. /\ Len(k) = n /\ Len(l) \in Nat /\ k[n] = Ended(t)
      /\ \A i \in 1 .. Len(l) : k[i] = l[i] /\ l[i] \in Row
      /\ \A i \in 1 .. n : i \in 1 .. Len(l) \/ i = n
    BY <1>0, AppendRow
<1>2. \A i \in 1 .. Len(l) : l[i].type = "turn_end" => l[i].id # t
  <2> SUFFICES ASSUME NEW i \in 1 .. Len(l), l[i].type = "turn_end", l[i].id = t
               PROVE  FALSE
      OBVIOUS
  <2>1. l[i] = Ended(t)
      BY <1>1 DEF Row, Ended
  <2> QED  BY <2>1 DEF HasRow
<1> HIDE DEF k
<1>3. StartsIncrease(k)
    BY <1>0, <1>1 DEF WellFormed, StartsIncrease
<1>4. EndsOnce(k)
    BY <1>0, <1>1, <1>2 DEF WellFormed, EndsOnce
<1>5. EndsAfterStart(k)
  <2> SUFFICES ASSUME NEW j \in 1 .. Len(k), k[j].type = "turn_end"
               PROVE  \E i \in 1 .. j - 1 : k[i] = Started(k[j].id)
      BY DEF EndsAfterStart
  <2>1. CASE j = n
    <3>1. PICK i \in 1 .. Len(l) : l[i] = Started(t)
        BY DEF HasRow
    <3> QED  BY <3>1, <2>1, <1>0, <1>1
  <2>2. CASE j \in 1 .. Len(l)
    <3>1. PICK i \in 1 .. j - 1 : l[i] = Started(l[j].id)
        BY <2>2, <1>1 DEF WellFormed, EndsAfterStart
    <3>2. i \in 1 .. Len(l) /\ k[i] = l[i]
        BY <2>2, <3>1, <1>1
    <3> QED  BY <2>2, <3>1, <3>2, <1>1
  <2> QED  BY <2>1, <2>2, <1>1
<1> QED  BY <1>3, <1>4, <1>5 DEF WellFormed, k

(* The inductive invariant: the counter of a live generation is above every id
   of the log (so the next turn_start cannot repeat one), and the turn in
   flight is in the log, started and not ended (so its turn_end fits). *)
LogInv ==
    /\ TypeInv
    /\ TurnLogWellFormed
    /\ live => \A t \in TurnIds(log) : t < counter
    /\ phase \in {"opening", "boundary", "stepping", "running"} =>
           HasRow(log, Started(turn)) /\ ~HasRow(log, Ended(turn))

\* The invariant of the log holds at the start.
LEMMA LogInvInit == Init => LogInv
<1> SUFFICES ASSUME Init PROVE LogInv
    OBVIOUS
<1>1. log = <<>> /\ Len(log) = 0 /\ ~live /\ phase = "down"
    BY DEF Init
<1>2. TurnLogWellFormed
    BY <1>1 DEF TurnLogWellFormed, WellFormed, StartsIncrease, EndsOnce, EndsAfterStart
<1> QED  BY <1>1, <1>2, TypeInvInit DEF LogInv

\* What a step that leaves the log alone has to keep.
LEMMA LogUnchanged ==
    ASSUME LogInv, TypeInv', log' = log,
           live' => \A t \in TurnIds(log) : t < counter',
           phase' \in {"opening", "boundary", "stepping", "running"} =>
               turn' = turn /\ phase \in {"opening", "boundary", "stepping", "running"}
    PROVE  LogInv'
<1>1. TurnLogWellFormed'
    BY DEF LogInv, TurnLogWellFormed
<1>2. (live => \A t \in TurnIds(log) : t < counter)'
    OBVIOUS
<1>3. (phase \in {"opening", "boundary", "stepping", "running"} =>
           HasRow(log, Started(turn)) /\ ~HasRow(log, Ended(turn)))'
    BY DEF LogInv
<1> QED  BY <1>1, <1>2, <1>3 DEF LogInv

\* Every step keeps the invariant of the log.
LEMMA LogInvStep == LogInv /\ [Next]_vars => LogInv'
<1> SUFFICES ASSUME LogInv, [Next]_vars PROVE LogInv'
    OBVIOUS
<1>0. TypeInv /\ TypeInv' /\ log \in Seq(Row) /\ TurnLogWellFormed
    BY TypeInvStep DEF LogInv, TypeInv, TypeOK
<1>a. phase \in {"down", "repairing"} => ~live
    BY <1>0 DEF TypeInv, TurnIsLive
<1>1. CASE BootRepair
  <2>1. sidecar.open \in Turn
      BY <1>0, <1>1, CheckpointFields DEF BootRepair, Signature, TypeInv, TypeOK
  <2>2. WellFormed(log')
      BY <2>1, <1>0, <1>1, AppendEnd DEF BootRepair, Signature, TurnLogWellFormed
  <2>3. ~live' /\ phase' = "repairing"
      BY <1>0, <1>1, <1>a DEF BootRepair, generation
  <2> QED  BY <2>2, <2>3, <1>0 DEF LogInv, TurnLogWellFormed
<1>2. CASE OpenTurn
  <2>1. counter \in Turn /\ live
      BY <1>0, <1>2 DEF OpenTurn, TypeInv, TypeOK, TurnIsLive, Turn
  <2>2. \A t \in TurnIds(log) : t < counter
      BY <2>1 DEF LogInv
  <2>3. Started(counter) \in Row /\ Ended(counter) \in Row /\ Started(counter).id = counter
      BY <2>1 DEF Row, Started, Ended
  <2>4. WellFormed(log') /\ ~HasRow(log', Ended(counter))
      BY <2>1, <2>2, <1>0, <1>2, AppendStart DEF OpenTurn, TurnLogWellFormed
  <2>5. HasRow(log', Started(counter))
      BY <2>3, <1>0, <1>2, HasRowAppend DEF OpenTurn
  <2>6. TurnIds(log') = TurnIds(log) \cup {counter}
      BY <2>3, <1>0, <1>2, TurnIdsAppend DEF OpenTurn
  <2>7. TurnIds(log) \subseteq Turn
    <3>1. \A i \in 1 .. Len(log) : log[i] \in Row
        BY <1>0, ElementOfSeq
    <3> QED  BY <3>1 DEF TurnIds, Row
  <2>8. \A t \in TurnIds(log') : t < counter'
      BY <2>1, <2>2, <2>6, <2>7, <1>2 DEF OpenTurn, Turn
  <2> QED  BY <2>4, <2>5, <2>8, <1>0, <1>2 DEF OpenTurn, LogInv, TurnLogWellFormed
<1>3. CASE EndTurn
  <2>1. turn \in Turn /\ live /\ HasRow(log, Started(turn)) /\ ~HasRow(log, Ended(turn))
      BY <1>0, <1>3 DEF EndTurn, LogInv, TypeInv, TurnIsLive
  <2>2. WellFormed(log')
      BY <2>1, <1>0, <1>3, AppendEnd DEF EndTurn, TurnLogWellFormed
  <2>3. Ended(turn) \in Row /\ Ended(turn).id = turn
      BY <2>1 DEF Row, Ended
  <2>4. TurnIds(log') = TurnIds(log) \cup {turn}
      BY <2>3, <1>0, <1>3, TurnIdsAppend DEF EndTurn
  <2>5. turn \in TurnIds(log)
      BY <2>1 DEF HasRow, TurnIds, Started
  <2>6. \A t \in TurnIds(log') : t < counter'
      BY <2>1, <2>4, <2>5, <1>3 DEF EndTurn, LogInv, generation
  <2> QED  BY <2>2, <2>6, <1>0, <1>3 DEF EndTurn, LogInv, TurnLogWellFormed
<1>4. CASE ClearLog
  <2>1. log' = <<>> /\ Len(log') = 0 /\ phase' = "clearing"
      BY <1>4 DEF ClearLog
  <2>2. WellFormed(log') /\ TurnIds(log') = {}
      BY <2>1 DEF WellFormed, StartsIncrease, EndsOnce, EndsAfterStart, TurnIds
  <2> QED  BY <2>1, <2>2, <1>0 DEF LogInv, TurnLogWellFormed
<1>5. CASE Compose
    BY <1>5, <1>0, LogUnchanged DEF Compose, ComposeFrom, IsNextTurn, disk, process
<1>6. CASE SwapIdle
    BY <1>6, <1>0, LogUnchanged DEF SwapIdle, ComposeFrom, IsNextTurn, disk
<1>7. CASE SwapAndBeginTurn
    BY <1>7, <1>0, LogUnchanged DEF SwapAndBeginTurn, IsNextTurn, DrainTurn
<1>8. CASE RecordRepair
    BY <1>8, <1>0, <1>a, LogUnchanged DEF RecordRepair, generation
<1>9. CASE BootClearMarker
    BY <1>9, <1>0, <1>a, LogUnchanged DEF BootClearMarker, generation
<1>10. CASE BootSkip
    BY <1>10, <1>0, <1>a, LogUnchanged DEF BootSkip, disk, generation
<1>11. CASE DeferSwap
    BY <1>11, <1>0, LogUnchanged DEF DeferSwap, LogInv, disk, process
<1>12. CASE Evict
    BY <1>12, <1>0, LogUnchanged DEF Evict, disk
<1>13. CASE RetireOld
    BY <1>13, <1>0, LogUnchanged DEF RetireOld, LogInv, generation
<1>14. ASSUME NEW m \in Msg, NEW lane \in Lane, Push(m, lane) PROVE LogInv'
    BY <1>14, <1>0, LogUnchanged DEF Push, LogInv, process
<1>15. CASE BeginTurn
    BY <1>15, <1>0, LogUnchanged DEF BeginTurn, DrainTurn, LogInv
<1>16. CASE InjectRow
    BY <1>16, <1>0, LogUnchanged DEF InjectRow, LogInv, disk, generation
<1>17. CASE MarkOpen
    BY <1>17, <1>0, LogUnchanged DEF MarkOpen, LogInv
<1>18. CASE DrainStep
    BY <1>18, <1>0, LogUnchanged DEF DrainStep, LogInv
<1>19. CASE CallModel
    BY <1>19, <1>0, LogUnchanged DEF CallModel, LogInv, disk, generation
<1>20. CASE MarkEnded
    BY <1>20, <1>0, LogUnchanged DEF MarkEnded, LogInv
<1>21. CASE ClearMark
    BY <1>21, <1>0, LogUnchanged DEF ClearMark, LogInv
<1>22. CASE Halt
    BY <1>22, <1>0, LogUnchanged DEF Halt, LogInv, disk, generation
<1>23. CASE HaltClean
    BY <1>23, <1>0, LogUnchanged DEF HaltClean
<1>24. CASE Crash
    BY <1>24, <1>0, LogUnchanged DEF Crash, disk
<1>25. CASE UNCHANGED vars
    BY <1>25, <1>0, LogUnchanged DEF vars, LogInv, disk, generation, process
<1> QED
    BY <1>1, <1>2, <1>3, <1>4, <1>5, <1>6, <1>7, <1>8, <1>9, <1>10, <1>11, <1>12, <1>13,
       <1>14, <1>15, <1>16, <1>17, <1>18, <1>19, <1>20, <1>21, <1>22, <1>23, <1>24, <1>25
       DEF Next

\* Whatever sequence of turns, crashes, repairs, swaps and clears a session goes
\* through, its log reads as one sequence of turns: turn ids grow, and a turn is
\* ended at most once and after its start, repairs included.
THEOREM LogStaysWellFormed == Spec => []TurnLogWellFormed
<1>1. Init => LogInv  BY LogInvInit
<1>2. LogInv /\ [Next]_vars => LogInv'  BY LogInvStep
<1>3. LogInv => TurnLogWellFormed  BY DEF LogInv
<1> QED  BY <1>1, <1>2, <1>3, PTL DEF Spec

-----------------------------------------------------------------------------
(* No turn is left open but the one in flight and those a crash cut *)

InFlight == {"opening", "boundary", "stepping", "running"}

DanglingInv ==
    /\ LogInv
    /\ DanglingExplained
    /\ phase \notin InFlight \cup {"ending"} => turn = NoTurn
    /\ phase = "ending" => HasRow(log, Ended(turn))

\* A start may leave a turn open, an end leaves none.
LEMMA DanglingAppend ==
    ASSUME NEW l \in Seq(Row), NEW row \in Row
    PROVE  /\ row.type = "turn_start" => Dangling(Append(l, row)) \subseteq Dangling(l) \cup {row.id}
           /\ row.type = "turn_end" => Dangling(Append(l, row)) \subseteq Dangling(l)
<1>1. \A t \in Turn : Started(t) \in Row /\ Ended(t) \in Row
    BY DEF Started, Ended, Row
<1>2. \A t \in Turn : /\ HasRow(Append(l, row), Started(t)) <=> HasRow(l, Started(t)) \/ Started(t) = row
                      /\ HasRow(Append(l, row), Ended(t)) <=> HasRow(l, Ended(t)) \/ Ended(t) = row
    BY <1>1, HasRowAppend
<1>3. \A t \in Turn : Started(t).type = "turn_start" /\ Started(t).id = t
    BY DEF Started
<1> QED  BY <1>2, <1>3 DEF Dangling

\* A step that keeps the log also keeps the explanation, unless it forgets the
\* turn or a torn one.
LEMMA DanglingUnchanged ==
    ASSUME DanglingExplained, log' = log, torn \subseteq torn',
           turn' = turn \/ turn \in torn' \/ turn = NoTurn \/ turn \notin Dangling(log)
    PROVE  DanglingExplained'
<1>1. NoTurn \notin Dangling(log)
    BY DEF Dangling, Turn, NoTurn
<1> QED  BY <1>1 DEF DanglingExplained

\* Every step explains the turns that are left open.
LEMMA DanglingInvStep == DanglingInv /\ [Next]_vars => DanglingInv'
<1> SUFFICES ASSUME DanglingInv, [Next]_vars PROVE DanglingInv'
    OBVIOUS
<1> USE DEF InFlight
<1>0. /\ LogInv /\ LogInv' /\ TypeOK /\ TypeOK' /\ log \in Seq(Row) /\ DanglingExplained
      /\ \A t \in Turn : Started(t) \in Row /\ Ended(t) \in Row
    BY LogInvStep DEF DanglingInv, LogInv, TypeInv, TypeOK, Started, Ended, Row
<1>1. CASE BootRepair
  <2>1. sidecar.open \in Turn /\ Ended(sidecar.open).type = "turn_end"
      BY <1>0, <1>1, CheckpointFields DEF BootRepair, Signature, TypeOK, Ended
  <2>2. Dangling(log') \subseteq Dangling(log)
      BY <2>1, <1>0, <1>1, DanglingAppend DEF BootRepair
  <2> QED  BY <2>2, <1>0, <1>1 DEF BootRepair, DanglingInv, DanglingExplained, history
<1>2. CASE OpenTurn
  <2>1. counter \in Turn /\ Started(counter).type = "turn_start" /\ Started(counter).id = counter
      BY <1>0, <1>2 DEF OpenTurn, LogInv, TypeInv, TypeOK, TurnIsLive, Turn, Started
  <2>2. Dangling(log') \subseteq Dangling(log) \cup {counter}
      BY <2>1, <1>0, <1>2, DanglingAppend DEF OpenTurn
  <2>3. NoTurn \notin Dangling(log) /\ turn = NoTurn
      BY <1>2 DEF OpenTurn, DanglingInv, Dangling, Turn, NoTurn
  <2> QED  BY <2>2, <2>3, <1>0, <1>2 DEF OpenTurn, DanglingInv, DanglingExplained, history
<1>3. CASE EndTurn
  <2>1. turn \in Turn /\ Ended(turn).type = "turn_end"
      BY <1>0, <1>3 DEF EndTurn, LogInv, TypeInv, TurnIsLive, Ended
  <2>2. Dangling(log') \subseteq Dangling(log)
      BY <2>1, <1>0, <1>3, DanglingAppend DEF EndTurn
  <2>3. HasRow(log', Ended(turn))
      BY <2>1, <1>0, <1>3, HasRowAppend DEF EndTurn
  <2> QED  BY <2>2, <2>3, <1>0, <1>3 DEF EndTurn, DanglingInv, DanglingExplained, history
<1>4. CASE ClearLog
  <2>1. Dangling(log') = {} /\ phase' = "clearing" /\ turn' = NoTurn
      BY <1>4 DEF ClearLog, DanglingInv, Dangling, HasRow
  <2> QED  BY <2>1, <1>0 DEF DanglingInv, DanglingExplained
<1>5. CASE MarkEnded
  <2>1. turn \notin Dangling(log)
      BY <1>5 DEF MarkEnded, DanglingInv, Dangling
  <2> QED  BY <2>1, <1>5, <1>0, DanglingUnchanged DEF MarkEnded, DanglingInv, history
<1>6. CASE Crash
  <2>1. turn \in torn' \/ turn = NoTurn \/ turn \notin Dangling(log)
      BY <1>6 DEF Crash, DanglingInv, Dangling
  <2> QED  BY <2>1, <1>6, <1>0, DanglingUnchanged DEF Crash, DanglingInv, disk
<1>7. CASE Compose
    BY <1>7, <1>0, DanglingUnchanged DEF Compose, DanglingInv, disk, process, history
<1>8. CASE SwapIdle
    BY <1>8, <1>0, DanglingUnchanged DEF SwapIdle, DanglingInv, disk, history
<1>9. CASE SwapAndBeginTurn
    BY <1>9, <1>0, DanglingUnchanged DEF SwapAndBeginTurn, DrainTurn, DanglingInv, history
<1>10. CASE RecordRepair
    BY <1>10, <1>0, DanglingUnchanged DEF RecordRepair, DanglingInv, history
<1>11. CASE BootClearMarker
    BY <1>11, <1>0, DanglingUnchanged DEF BootClearMarker, DanglingInv, history
<1>12. CASE BootSkip
    BY <1>12, <1>0, DanglingUnchanged DEF BootSkip, DanglingInv, disk, history
<1>13. CASE DeferSwap
    BY <1>13, <1>0, DanglingUnchanged DEF DeferSwap, DanglingInv, disk, process, history
<1>14. CASE Evict
    BY <1>14, <1>0, DanglingUnchanged DEF Evict, DanglingInv, disk, history
<1>15. CASE RetireOld
    BY <1>15, <1>0, DanglingUnchanged DEF RetireOld, DanglingInv, history
<1>16. ASSUME NEW m \in Msg, NEW lane \in Lane, Push(m, lane) PROVE DanglingInv'
    BY <1>16, <1>0, DanglingUnchanged DEF Push, DanglingInv, process
<1>17. CASE BeginTurn
    BY <1>17, <1>0, DanglingUnchanged DEF BeginTurn, DrainTurn, DanglingInv, history
<1>18. CASE InjectRow
    BY <1>18, <1>0, DanglingUnchanged DEF InjectRow, DanglingInv, disk
<1>19. CASE MarkOpen
    BY <1>19, <1>0, DanglingUnchanged DEF MarkOpen, DanglingInv, history
<1>20. CASE DrainStep
    BY <1>20, <1>0, DanglingUnchanged DEF DrainStep, DanglingInv, history
<1>21. CASE CallModel
    BY <1>21, <1>0, DanglingUnchanged DEF CallModel, DanglingInv, disk, history
<1>22. CASE ClearMark
    BY <1>22, <1>0, DanglingUnchanged DEF ClearMark, DanglingInv, history
<1>23. CASE Halt
    BY <1>23, <1>0, DanglingUnchanged DEF Halt, DanglingInv, disk, history
<1>24. CASE HaltClean
    BY <1>24, <1>0, DanglingUnchanged DEF HaltClean, DanglingInv, history
<1>25. CASE UNCHANGED vars
    BY <1>25, <1>0, DanglingUnchanged DEF vars, DanglingInv, disk, process, history
<1> QED
    BY <1>1, <1>2, <1>3, <1>4, <1>5, <1>6, <1>7, <1>8, <1>9, <1>10, <1>11, <1>12, <1>13,
       <1>14, <1>15, <1>16, <1>17, <1>18, <1>19, <1>20, <1>21, <1>22, <1>23, <1>24, <1>25
       DEF Next

\* A turn without its turn_end is the one in flight or one a crash cut, for any
\* interleaving of shutdowns, swaps, evictions and clears: each of them waits
\* for the turn, or is refused.
THEOREM NoTurnLeftOpen == Spec => []DanglingExplained
<1>1. Init => DanglingInv
  <2> SUFFICES ASSUME Init PROVE DanglingInv
      OBVIOUS
  <2>1. Dangling(log) = {}
      BY DEF Init, Dangling, HasRow
  <2> QED  BY <2>1, LogInvInit DEF Init, DanglingInv, DanglingExplained, InFlight
<1>2. DanglingInv /\ [Next]_vars => DanglingInv'  BY DanglingInvStep
<1>3. DanglingInv => DanglingExplained  BY DEF DanglingInv
<1> QED  BY <1>1, <1>2, <1>3, PTL DEF Spec

-----------------------------------------------------------------------------
(* The sidecar names the turn in flight *)

\* As long as no turn has started while its session was swapped, a generation is
\* only disposed of while the session is idle, so what it writes back cannot meet
\* a turn; and the sidecar agrees with the generation.
SidecarInv ==
    /\ TypeInv
    /\ ~overtaken =>
           /\ ~Settled => phase = "idle"
           /\ phase \in {"boundary", "stepping", "running"} =>
                  /\ store.open = turn /\ ~store.clean
                  /\ sidecar.open = turn /\ ~sidecar.clean

\* Writes of the lanes keep the open turn that is marked.
LEMMA WritesKeepOpen ==
    ASSUME NEW s \in Checkpoint, NEW t, s.open = t, ~s.clean
    PROVE  /\ Drained(s, "nextStep").open = t /\ ~Drained(s, "nextStep").clean
           /\ \A m \in Msg, lane \in Lane :
                  /\ [s EXCEPT ![lane] = Append(@, m), !.clean = FALSE].open = t
                  /\ ~[s EXCEPT ![lane] = Append(@, m), !.clean = FALSE].clean
<1>1. Drained(s, "nextStep").open = t /\ ~Drained(s, "nextStep").clean
    BY DEF Drained, Checkpoint
<1>2. ASSUME NEW m \in Msg, NEW lane \in Lane
      PROVE  /\ [s EXCEPT ![lane] = Append(@, m), !.clean = FALSE].open = t
             /\ ~[s EXCEPT ![lane] = Append(@, m), !.clean = FALSE].clean
  <2>1. CASE lane = "nextTurn"  BY <2>1 DEF Checkpoint
  <2>2. CASE lane = "nextStep"  BY <2>2 DEF Checkpoint
  <2> QED  BY <2>1, <2>2 DEF Lane
<1> QED  BY <1>1, <1>2

\* Nothing takes that back.
LEMMA OvertakenStays == [Next]_vars /\ overtaken => overtaken'
<1> SUFFICES ASSUME [Next]_vars, overtaken PROVE overtaken'
    OBVIOUS
<1>1. CASE BootRepair \/ RecordRepair \/ BootClearMarker \/ BootSkip \/ Compose \/ SwapIdle
          \/ DeferSwap \/ Evict \/ RetireOld
    BY <1>1 DEF BootRepair, RecordRepair, BootClearMarker, BootSkip, Compose, SwapIdle,
             DeferSwap, Evict, RetireOld, history
<1>2. ASSUME NEW m \in Msg, NEW lane \in Lane, Push(m, lane) PROVE overtaken'
    BY <1>2 DEF Push
<1>3. CASE BeginTurn \/ SwapAndBeginTurn \/ InjectRow \/ OpenTurn \/ MarkOpen \/ DrainStep
          \/ CallModel \/ EndTurn \/ MarkEnded
    BY <1>3 DEF BeginTurn, SwapAndBeginTurn, InjectRow, OpenTurn, MarkOpen, DrainStep,
             CallModel, EndTurn, MarkEnded, history
<1>4. CASE ClearLog \/ ClearMark \/ Halt \/ HaltClean \/ Crash \/ UNCHANGED vars
    BY <1>4 DEF ClearLog, ClearMark, Halt, HaltClean, Crash, vars, history
<1> QED  BY <1>1, <1>2, <1>3, <1>4 DEF Next

\* Every step keeps the open turn named on disk.
LEMMA SidecarInvStep == SidecarInv /\ [Next]_vars => SidecarInv'
<1> SUFFICES ASSUME SidecarInv, [Next]_vars, ~overtaken, ~overtaken' PROVE SidecarInv'
  <2>1. SidecarInv /\ [Next]_vars => TypeInv'
      BY TypeInvStep DEF SidecarInv
  <2>2. SidecarInv /\ [Next]_vars /\ overtaken' => SidecarInv'
      BY <2>1 DEF SidecarInv
  <2> QED  BY <2>2, OvertakenStays
<1>0. TypeInv /\ TypeInv' /\ store \in Checkpoint /\ sidecar \in Checkpoint
    BY TypeInvStep DEF SidecarInv, TypeInv, TypeOK
<1> USE DEF Settled
<1>1. ASSUME NEW m \in Msg, NEW lane \in Lane, Push(m, lane) PROVE SidecarInv'
  <2>1. CASE phase = "running"
    <3>0. store.open = turn /\ ~store.clean
        BY <2>1 DEF SidecarInv
    <3>1. store'.open = turn /\ ~store'.clean /\ sidecar' = store'
        BY <3>0, <1>0, <1>1, WritesKeepOpen DEF Push, Received, Write
    <3> QED  BY <3>1, <2>1, <1>0, <1>1 DEF Push, process, SidecarInv
  <2>2. CASE phase # "running"
      BY <2>2, <1>0, <1>1 DEF Push, Macro, process, SidecarInv
  <2> QED  BY <2>1, <2>2
<1>2. CASE MarkOpen
  <2>1. store' = sidecar' /\ store'.open = turn /\ ~store'.clean
      BY <1>0, <1>2 DEF MarkOpen, Write, Alive, Checkpoint
  <2> QED  BY <2>1, <1>0, <1>2 DEF MarkOpen, SidecarInv
<1>3. CASE DrainStep
  <2>1. store'.open = turn /\ ~store'.clean
      BY <1>0, <1>3, WritesKeepOpen DEF DrainStep, SidecarInv
  <2>2. sidecar'.open = turn /\ ~sidecar'.clean
      BY <2>1, <1>3 DEF DrainStep, SidecarInv
  <2> QED  BY <2>1, <2>2, <1>0, <1>3 DEF DrainStep, SidecarInv
<1>4. CASE RetireOld
    BY <1>0, <1>4 DEF RetireOld, SidecarInv, generation
<1>5. CASE DeferSwap
    BY <1>0, <1>5 DEF DeferSwap, SidecarInv, disk, process
<1>6. CASE SwapAndBeginTurn
    BY <1>6 DEF SwapAndBeginTurn
<1>7. CASE BootRepair \/ RecordRepair \/ BootClearMarker \/ BootSkip
    BY <1>0, <1>7 DEF BootRepair, RecordRepair, BootClearMarker, BootSkip, SidecarInv, generation
<1>8. CASE Compose
    BY <1>0, <1>8 DEF Compose, ComposeFrom, SidecarInv, process
<1>9. CASE SwapIdle
    BY <1>0, <1>9 DEF SwapIdle, ComposeFrom, SidecarInv
<1>10. CASE Evict
    BY <1>0, <1>10 DEF Evict, SidecarInv
<1>11. CASE BeginTurn
    BY <1>0, <1>11 DEF BeginTurn, DrainTurn, SidecarInv
<1>12. CASE InjectRow
    BY <1>0, <1>12 DEF InjectRow, SidecarInv, disk, generation
<1>13. CASE OpenTurn
    BY <1>0, <1>13 DEF OpenTurn, SidecarInv
<1>14. CASE CallModel
    BY <1>0, <1>14 DEF CallModel, SidecarInv, disk, generation
<1>15. CASE EndTurn
    BY <1>0, <1>15 DEF EndTurn, SidecarInv, generation
<1>16. CASE MarkEnded
    BY <1>0, <1>16 DEF MarkEnded, SidecarInv
<1>17. CASE ClearLog \/ ClearMark
    BY <1>0, <1>17 DEF ClearLog, ClearMark, SidecarInv
<1>18. CASE Halt
    BY <1>0, <1>18 DEF Halt, SidecarInv, disk, generation
<1>19. CASE HaltClean
    BY <1>0, <1>19 DEF HaltClean, SidecarInv
<1>20. CASE Crash
    BY <1>0, <1>20 DEF Crash, SidecarInv
<1>21. CASE UNCHANGED vars
    BY <1>0, <1>21 DEF vars, SidecarInv, disk, generation, process
<1> QED
    BY <1>1, <1>2, <1>3, <1>4, <1>5, <1>6, <1>7, <1>8, <1>9, <1>10, <1>11, <1>12, <1>13,
       <1>14, <1>15, <1>16, <1>17, <1>18, <1>19, <1>20, <1>21
       DEF Next

\* Until a turn swaps the generation it starts on, a turn in flight is always
\* named by the sidecar, which does not claim a clean exit: a crash at any moment
\* of the turn is repaired at the next boot.  (After such a turn it is not so.)
THEOREM OpenTurnIsNamed == Spec => []OpenTurnOnDisk
<1>1. Init => SidecarInv
    BY TypeInvInit DEF Init, SidecarInv, Settled
<1>2. SidecarInv /\ [Next]_vars => SidecarInv'  BY SidecarInvStep
<1>3. SidecarInv => OpenTurnOnDisk  BY DEF SidecarInv, OpenTurnOnDisk
<1> QED  BY <1>1, <1>2, <1>3, PTL DEF Spec

-----------------------------------------------------------------------------
(* Where the messages are *)

Queued(s) == Elems(s.nextTurn) \cup Elems(s.nextStep)
Gone == Elems(delivered) \cup lost
Safe == Elems(hand) \cup Gone
SameLanes(a, b) == a.nextTurn = b.nextTurn /\ a.nextStep = b.nextStep
NoDup(s) == \A i, j \in 1 .. Len(s) : s[i] = s[j] => i = j

\* Messages are in hand only while a lane is injected, and a generation retires
\* while the session is idle, unless a turn overtakes it.
PhaseInv ==
    /\ phase \notin {"draining", "stepping"} => hand = <<>>
    /\ ~overtaken /\ ~Settled => phase = "idle"

KeptInv ==
    /\ Queued(sidecar) \cup Safe = Accepted
    /\ live => Queued(store) \cup Safe = Accepted
    /\ ~Settled => Queued(retiring) \cup Safe = Accepted

OneCopy ==
    /\ live => SameLanes(store, sidecar)
    /\ ~Settled => SameLanes(retiring, sidecar)
OnePlace ==
    /\ NoDup(sidecar.nextTurn) /\ NoDup(sidecar.nextStep) /\ NoDup(hand)
    /\ Elems(sidecar.nextTurn) \cap Elems(sidecar.nextStep) = {}
    /\ Queued(sidecar) \cap Safe = {}
    /\ Elems(hand) \cap Gone = {}
    /\ Elems(delivered) \cap lost = {}
OnceInv == ~overtaken => OneCopy /\ OnePlace

DeliveryInv == TypeInv /\ PhaseInv /\ KeptInv /\ OnceInv

-----------------------------------------------------------------------------
(* Sequences of messages *)

\* The messages of an empty lane.
LEMMA ElemsEmpty == Elems(<<>>) = {} /\ NoDup(<<>>)
BY DEF Elems, NoDup

\* The messages of a lane with one more.
LEMMA ElemsAppend ==
    ASSUME NEW S, NEW s \in Seq(S), NEW m \in S
    PROVE  /\ Elems(Append(s, m)) = Elems(s) \cup {m}
           /\ NoDup(s) /\ m \notin Elems(s) => NoDup(Append(s, m))
<1>1. /\ Len(s) \in Nat /\ Len(Append(s, m)) = Len(s) + 1
      /\ \A i \in 1 .. Len(s) : Append(s, m)[i] = s[i]
      /\ Append(s, m)[Len(s) + 1] = m
    BY AppendProperties, LenProperties
<1> QED  BY <1>1 DEF Elems, NoDup

\* The messages of a lane but the first.
LEMMA ElemsTail ==
    ASSUME NEW S, NEW s \in Seq(S), s # <<>>
    PROVE  /\ Head(s) \in S /\ Tail(s) \in Seq(S)
           /\ Elems(s) = {Head(s)} \cup Elems(Tail(s))
           /\ NoDup(s) => NoDup(Tail(s)) /\ Head(s) \notin Elems(Tail(s))
<1>1. /\ Len(s) \in Nat \ {0} /\ Len(Tail(s)) = Len(s) - 1
      /\ Head(s) = s[1] /\ Head(s) \in S /\ Tail(s) \in Seq(S)
      /\ \A i \in 1 .. Len(s) - 1 : Tail(s)[i] = s[i + 1]
    BY HeadTailProperties, LenProperties, EmptySeq
<1>2. \A x : x \in Elems(s) <=> x \in {Head(s)} \cup Elems(Tail(s))
  <2>1. ASSUME NEW i \in 1 .. Len(s) PROVE s[i] \in {Head(s)} \cup Elems(Tail(s))
    <3>1. CASE i = 1  BY <1>1, <3>1
    <3>2. CASE i # 1
      <4>1. i - 1 \in 1 .. Len(s) - 1 /\ Tail(s)[i - 1] = s[i]
          BY <1>1, <3>2
      <4> QED  BY <1>1, <4>1 DEF Elems
    <3> QED  BY <3>1, <3>2
  <2>2. ASSUME NEW i \in 1 .. Len(Tail(s)) PROVE Tail(s)[i] \in Elems(s)
    <3>1. i + 1 \in 1 .. Len(s) /\ Tail(s)[i] = s[i + 1]
        BY <1>1, <2>2
    <3> QED  BY <3>1 DEF Elems
  <2>3. Head(s) \in Elems(s)  BY <1>1 DEF Elems
  <2> QED  BY <2>1, <2>2, <2>3 DEF Elems
<1>3. ASSUME NoDup(s) PROVE NoDup(Tail(s)) /\ Head(s) \notin Elems(Tail(s))
    BY <1>1, <1>3 DEF NoDup, Elems
<1> QED  BY <1>1, <1>2, <1>3

-----------------------------------------------------------------------------
(* The lanes of a checkpoint *)

\* Marking a boundary leaves the lanes.
LEMMA LanesOfWrites ==
    ASSUME NEW s \in Checkpoint
    PROVE  /\ SameLanes(Alive(s), s) /\ SameLanes(CleanExit(s), s)
           /\ SameLanes(Alive(NoOpenTurn(s)), s)
           /\ \A t \in Turn : SameLanes(Alive([s EXCEPT !.open = t]), s)
BY DEF Checkpoint, Alive, CleanExit, NoOpenTurn, SameLanes

\* A drain empties its own lane.
LEMMA LanesOfDrain ==
    ASSUME NEW s \in Checkpoint
    PROVE  /\ Drained(s, "nextTurn").nextTurn = <<>> /\ Drained(s, "nextTurn").nextStep = s.nextStep
           /\ Drained(s, "nextStep").nextStep = <<>> /\ Drained(s, "nextStep").nextTurn = s.nextTurn
BY DEF Checkpoint, Drained

\* A message joins the end of its own lane.
LEMMA LanesOfPush ==
    ASSUME NEW s \in Checkpoint, NEW m \in Msg
    PROVE  /\ Received(s, m, "nextTurn").nextTurn = Append(s.nextTurn, m)
           /\ Received(s, m, "nextTurn").nextStep = s.nextStep
           /\ Received(s, m, "nextStep").nextStep = Append(s.nextStep, m)
           /\ Received(s, m, "nextStep").nextTurn = s.nextTurn
BY DEF Checkpoint, Received

\* Lanes are sequences of messages.
LEMMA LanesAreSeqs ==
    ASSUME NEW s \in Checkpoint
    PROVE  s.nextTurn \in Seq(Msg) /\ s.nextStep \in Seq(Msg)
BY DEF Checkpoint

-----------------------------------------------------------------------------
(* The shapes of a step *)

\* The lanes of c are those of a copy of the checkpoint that exists already.
Known(c) ==
    SameLanes(c, sidecar) \/ (live /\ SameLanes(c, store)) \/ (~Settled /\ SameLanes(c, retiring))

Quiet ==
    /\ Known(sidecar') /\ (live' => Known(store')) /\ (~Settled' => Known(retiring'))
    /\ UNCHANGED <<hand, delivered, lost, arrivals, overtaken>>

Pushes(m, lane) ==
    /\ m \notin Accepted /\ Accepted' = Accepted \cup {m}
    /\ arrivals' = Append(arrivals, [msg |-> m, lane |-> lane])
    /\ live /\ live' /\ Settled /\ Settled'
    /\ store' = Received(store, m, lane) /\ sidecar' = store'
    /\ UNCHANGED <<hand, delivered, lost, overtaken>>

Takes(lane) ==
    /\ live /\ live' /\ hand = <<>> /\ (Settled \/ overtaken)
    /\ hand' = store[lane] /\ store' = Drained(store, lane)
    /\ sidecar' = IF store[lane] = <<>> THEN sidecar ELSE store'
    /\ UNCHANGED <<retiring, delivered, lost, arrivals, overtaken>>

Overtakes ==
    /\ live /\ Settled /\ hand = <<>>
    /\ hand' = sidecar.nextTurn /\ store' = Drained(sidecar, "nextTurn")
    /\ sidecar' = IF sidecar.nextTurn = <<>> THEN sidecar ELSE store'
    /\ retiring' = store /\ overtaken'
    /\ UNCHANGED <<delivered, lost, arrivals>>

Injects ==
    /\ hand # <<>> /\ hand' = Tail(hand) /\ delivered' = Append(delivered, Head(hand))
    /\ UNCHANGED <<sidecar, live, store, retiring, lost, arrivals, overtaken>>

Dies ==
    /\ lost' = lost \cup Elems(hand) /\ hand' = <<>> /\ ~live' /\ Settled'
    /\ UNCHANGED <<sidecar, delivered, arrivals, overtaken>>

Shaped ==
    \/ Quiet \/ Overtakes \/ Injects \/ Dies
    \/ \E m \in Msg, lane \in Lane : Pushes(m, lane)
    \/ \E lane \in Lane : Takes(lane)

\* Only one shape overtakes a retiring generation, and for good.
LEMMA NotOvertaken == ASSUME Shaped, ~overtaken' PROVE ~overtaken /\ ~Overtakes
<1>1. ~Overtakes
    BY DEF Overtakes
<1>2. CASE Quiet \/ Injects \/ Dies
    BY <1>1, <1>2 DEF Quiet, Injects, Dies
<1>3. CASE \E m \in Msg, lane \in Lane : Pushes(m, lane)
    BY <1>1, <1>3 DEF Pushes
<1>4. CASE \E lane \in Lane : Takes(lane)
    BY <1>1, <1>4 DEF Takes
<1> QED  BY <1>1, <1>2, <1>3, <1>4 DEF Shaped

\* A written copy of the checkpoint has the lanes of the copy it was made from.
LEMMA WritesAreKnown ==
    ASSUME TypeInv
    PROVE  /\ Known(sidecar) /\ Known(Alive(NoOpenTurn(sidecar)))
           /\ live => /\ Known(store) /\ Known(CleanExit(store)) /\ Known(Alive(NoOpenTurn(store)))
                      /\ \A t \in Turn : Known(Alive([store EXCEPT !.open = t]))
           /\ ~Settled => Known(retiring) /\ Known(CleanExit(retiring))
<1>1. sidecar \in Checkpoint /\ store \in Checkpoint /\ (~Settled => retiring \in Checkpoint)
    BY DEF TypeInv, TypeOK, Settled
<1>2. Known(sidecar) /\ Known(Alive(NoOpenTurn(sidecar)))
    BY <1>1, LanesOfWrites DEF Known, SameLanes
<1>3. ASSUME live
      PROVE  /\ Known(store) /\ Known(CleanExit(store)) /\ Known(Alive(NoOpenTurn(store)))
             /\ \A t \in Turn : Known(Alive([store EXCEPT !.open = t]))
    BY <1>1, <1>3, LanesOfWrites DEF Known, SameLanes
<1>4. ASSUME ~Settled PROVE Known(retiring) /\ Known(CleanExit(retiring))
    BY <1>1, <1>4, LanesOfWrites DEF Known, SameLanes
<1> QED  BY <1>2, <1>3, <1>4

\* Every step has one of the six shapes.
LEMMA StepShapes ==
    ASSUME TypeInv, PhaseInv, [Next]_vars
    PROVE  Shaped
<1> USE WritesAreKnown DEF disk, generation, process, history, budget, Settled
<1>1. CASE BootRepair  BY <1>1 DEF BootRepair, Shaped, Quiet
<1>2. CASE RecordRepair  BY <1>2 DEF RecordRepair, Shaped, Quiet
<1>3. CASE BootClearMarker  BY <1>3 DEF BootClearMarker, Shaped, Quiet
<1>4. CASE BootSkip  BY <1>4 DEF BootSkip, Shaped, Quiet
<1>5. CASE Compose  BY <1>5 DEF Compose, ComposeFrom, Shaped, Quiet
<1>6. CASE SwapIdle  BY <1>6 DEF SwapIdle, ComposeFrom, Shaped, Quiet
<1>7. CASE DeferSwap  BY <1>7 DEF DeferSwap, Shaped, Quiet
<1>8. CASE Evict  BY <1>8 DEF Evict, Shaped, Quiet
<1>9. CASE RetireOld  BY <1>9 DEF RetireOld, Shaped, Quiet
<1>10. CASE \E m \in Msg, lane \in Lane : Push(m, lane)
  <2>1. PICK m \in Msg, lane \in Lane : Push(m, lane)
      BY <1>10
  <2>2. Accepted' = Accepted \cup {m}
    <3>1. arrivals \in Seq([msg : Msg, lane : Lane]) /\ arrivals' = Append(arrivals, [msg |-> m, lane |-> lane])
        BY <2>1 DEF Push, TypeInv, TypeOK
    <3>2. /\ Len(arrivals) \in Nat /\ Len(arrivals') = Len(arrivals) + 1
          /\ \A i \in 1 .. Len(arrivals) : arrivals'[i] = arrivals[i]
          /\ arrivals'[Len(arrivals) + 1].msg = m
        BY <3>1, AppendProperties, LenProperties
    <3> QED  BY <3>2 DEF Accepted
  <2>3. Pushes(m, lane)
      BY <2>1, <2>2 DEF Push, Macro, Write, Pushes
  <2> QED  BY <2>3 DEF Shaped
<1>11. CASE BeginTurn
  <2>1. Takes("nextTurn")
      BY <1>11 DEF BeginTurn, DrainTurn, Takes, PhaseInv
  <2> QED  BY <2>1 DEF Shaped, Lane
<1>12. CASE SwapAndBeginTurn
  <2>1. Overtakes
      BY <1>12 DEF SwapAndBeginTurn, DrainTurn, Overtakes, PhaseInv
  <2> QED  BY <2>1 DEF Shaped
<1>13. CASE InjectRow
  <2>1. Injects  BY <1>13 DEF InjectRow, Injects
  <2> QED  BY <2>1 DEF Shaped
<1>14. CASE OpenTurn  BY <1>14 DEF OpenTurn, Shaped, Quiet
<1>15. CASE MarkOpen
  <2>1. live /\ turn \in Turn  BY <1>15 DEF MarkOpen, TypeInv, TurnIsLive
  <2> QED  BY <1>15, <2>1 DEF MarkOpen, Write, Shaped, Quiet
<1>16. CASE DrainStep
  <2>1. live /\ hand = <<>>  BY <1>16 DEF DrainStep, TypeInv, TurnIsLive, PhaseInv
  <2>2. Takes("nextStep")
      BY <1>16, <2>1 DEF DrainStep, Takes, PhaseInv
  <2> QED  BY <2>2 DEF Shaped, Lane
<1>17. CASE CallModel  BY <1>17 DEF CallModel, Shaped, Quiet
<1>18. CASE EndTurn  BY <1>18 DEF EndTurn, Shaped, Quiet
<1>19. CASE MarkEnded
  <2>1. live  BY <1>19 DEF MarkEnded, TypeInv, TurnIsLive
  <2> QED  BY <1>19, <2>1 DEF MarkEnded, Write, Shaped, Quiet
<1>20. CASE ClearLog  BY <1>20 DEF ClearLog, Shaped, Quiet
<1>21. CASE ClearMark
  <2>1. live  BY <1>21 DEF ClearMark, TypeInv, TurnIsLive
  <2> QED  BY <1>21, <2>1 DEF ClearMark, Write, Shaped, Quiet
<1>22. CASE Halt  BY <1>22 DEF Halt, Shaped, Quiet
<1>23. CASE HaltClean  BY <1>23 DEF HaltClean, Shaped, Quiet
<1>24. CASE Crash
  <2>1. Dies  BY <1>24 DEF Crash, Dies
  <2> QED  BY <2>1 DEF Shaped
<1>25. CASE UNCHANGED vars  BY <1>25 DEF vars, Shaped, Quiet
<1> QED
  BY <1>1, <1>2, <1>3, <1>4, <1>5, <1>6, <1>7, <1>8, <1>9, <1>10, <1>11, <1>12, <1>13, <1>14, <1>15, <1>16, <1>17,
     <1>18, <1>19, <1>20, <1>21, <1>22, <1>23, <1>24, <1>25 DEF Next

-----------------------------------------------------------------------------
(* The invariants *)

\* Every step keeps what the phases say of the generations.
LEMMA PhaseInvStep ==
    ASSUME TypeInv, PhaseInv, [Next]_vars
    PROVE  PhaseInv'
<1> USE DEF PhaseInv, Settled, disk, generation, process, history, budget
<1>1. CASE BootRepair \/ RecordRepair \/ BootClearMarker \/ BootSkip
    BY <1>1 DEF BootRepair, RecordRepair, BootClearMarker, BootSkip
<1>2. CASE Compose \/ SwapIdle \/ DeferSwap \/ Evict \/ RetireOld
    BY <1>2 DEF Compose, SwapIdle, DeferSwap, Evict, RetireOld
<1>3. CASE \E m \in Msg, lane \in Lane : Push(m, lane)
    BY <1>3 DEF Push
<1>4. CASE BeginTurn \/ SwapAndBeginTurn \/ InjectRow \/ OpenTurn \/ MarkOpen
    BY <1>4 DEF BeginTurn, SwapAndBeginTurn, DrainTurn, InjectRow, OpenTurn, MarkOpen
<1>5. CASE DrainStep \/ CallModel \/ EndTurn \/ MarkEnded
    BY <1>5 DEF DrainStep, CallModel, EndTurn, MarkEnded
<1>6. CASE ClearLog \/ ClearMark \/ Halt \/ HaltClean \/ Crash
    BY <1>6 DEF ClearLog, ClearMark, Halt, HaltClean, Crash
<1>7. CASE UNCHANGED vars  BY <1>7 DEF vars
<1> QED  BY <1>1, <1>2, <1>3, <1>4, <1>5, <1>6, <1>7 DEF Next

\* A copy that is one of the known ones holds every accepted message that is not safe elsewhere.
LEMMA KnownIsKept ==
    ASSUME KeptInv, NEW c, Known(c)
    PROVE  Queued(c) \cup Safe = Accepted
<1>1. \A a : SameLanes(c, a) => Queued(c) = Queued(a)
    BY DEF SameLanes, Queued
<1> QED  BY <1>1 DEF Known, KeptInv

\* What a step does to the messages that were accepted, whatever its shape.
LEMMA ShapeKeeps ==
    ASSUME TypeInv, KeptInv, Shaped
    PROVE  /\ Accepted \subseteq Accepted' /\ Safe' \subseteq Accepted
           /\ Elems(delivered) \subseteq Elems(delivered')
<1>1. /\ hand \in Seq(Msg) /\ delivered \in Seq(Msg)
      /\ store \in Checkpoint /\ sidecar \in Checkpoint
    BY DEF TypeInv, TypeOK
<1>2. Elems(hand) \cup Elems(delivered) \cup lost \subseteq Accepted
    BY DEF KeptInv, Safe, Gone
<1>3. arrivals' = arrivals => Accepted' = Accepted
    BY DEF Accepted
<1>4. CASE Quiet
    BY <1>2, <1>3, <1>4 DEF Quiet, Safe, Gone, Elems
<1>5. CASE Overtakes
  <2>1. Elems(hand') \subseteq Accepted
      BY <1>5 DEF Overtakes, KeptInv, Queued
  <2> QED  BY <1>2, <1>3, <1>5, <2>1 DEF Overtakes, Safe, Gone
<1>6. CASE Injects
  <2>1. Elems(hand) = {Head(hand)} \cup Elems(hand') /\ Elems(delivered') = Elems(delivered) \cup {Head(hand)}
      BY <1>1, <1>6, ElemsTail, ElemsAppend DEF Injects
  <2> QED  BY <1>2, <1>3, <1>6, <2>1 DEF Injects, Safe, Gone
<1>7. CASE Dies
    BY <1>2, <1>3, <1>7, ElemsEmpty DEF Dies, Safe, Gone
<1>8. CASE \E m \in Msg, lane \in Lane : Pushes(m, lane)
    BY <1>2, <1>8 DEF Pushes, Safe, Gone
<1>9. CASE \E lane \in Lane : Takes(lane)
  <2>1. PICK lane \in Lane : Takes(lane)  BY <1>9
  <2>2. Elems(hand') \subseteq Accepted
      BY <2>1 DEF Takes, KeptInv, Queued, Lane
  <2> QED  BY <1>2, <1>3, <2>1, <2>2 DEF Takes, Safe, Gone
<1> QED  BY <1>4, <1>5, <1>6, <1>7, <1>8, <1>9 DEF Shaped

\* Every step keeps the accepted messages in each copy or in a safe place.
LEMMA KeptInvStep ==
    ASSUME TypeInv, KeptInv, Shaped
    PROVE  KeptInv'
<1>1. /\ hand \in Seq(Msg) /\ delivered \in Seq(Msg)
      /\ store \in Checkpoint /\ sidecar \in Checkpoint
    BY DEF TypeInv, TypeOK
<1>2. Elems(hand) \cup Elems(delivered) \cup lost \subseteq Accepted
    BY DEF KeptInv, Safe, Gone
<1>3. arrivals' = arrivals => Accepted' = Accepted
    BY DEF Accepted
<1>4. CASE Quiet
  <2>1. Safe' = Safe /\ Accepted' = Accepted
      BY <1>3, <1>4 DEF Quiet, Safe, Gone
  <2>2. Known(sidecar') /\ (live' => Known(store')) /\ (~Settled' => Known(retiring'))
      BY <1>4 DEF Quiet
  <2>3. Queued(sidecar') \cup Safe = Accepted
      BY <2>2, KnownIsKept
  <2>4. live' => Queued(store') \cup Safe = Accepted
      BY <2>2, KnownIsKept
  <2>5. ~Settled' => Queued(retiring') \cup Safe = Accepted
      BY <2>2, KnownIsKept
  <2> QED  BY <2>1, <2>3, <2>4, <2>5 DEF KeptInv, Queued
<1>5. CASE Overtakes
  <2>1. /\ Drained(sidecar, "nextTurn").nextTurn = <<>>
        /\ Drained(sidecar, "nextTurn").nextStep = sidecar.nextStep
      BY <1>1, LanesOfDrain
  <2>2. /\ Safe = Gone /\ Safe' = Elems(sidecar.nextTurn) \cup Gone /\ Accepted' = Accepted
        /\ Elems(sidecar.nextTurn) \subseteq Accepted
      BY <1>3, <1>5, ElemsEmpty DEF Overtakes, Safe, Gone, KeptInv, Queued
  <2>3. Queued(store') = Elems(sidecar.nextStep)
      BY <1>5, <2>1, ElemsEmpty DEF Overtakes, Queued
  <2>4. sidecar' = sidecar \/ sidecar' = store'
      BY <1>5 DEF Overtakes
  <2>5. Queued(store') \cup Safe' = Accepted /\ Queued(sidecar) \cup Safe' = Accepted
      BY <2>2, <2>3 DEF KeptInv, Queued
  <2>6. Queued(store) \cup Safe' = Accepted /\ retiring' = store
      BY <1>5, <2>2 DEF Overtakes, KeptInv, Queued
  <2> QED  BY <2>2, <2>4, <2>5, <2>6 DEF KeptInv, Queued
<1>6. CASE Injects
  <2>1. Elems(hand) = {Head(hand)} \cup Elems(hand') /\ Elems(delivered') = Elems(delivered) \cup {Head(hand)}
      BY <1>1, <1>6, ElemsTail, ElemsAppend DEF Injects
  <2>2. Safe' = Safe
      BY <1>6, <2>1 DEF Injects, Safe, Gone
  <2> QED  BY <1>3, <1>6, <2>2 DEF Injects, KeptInv, Queued, Settled
<1>7. CASE Dies
  <2>1. Safe' = Safe
      BY <1>7, ElemsEmpty DEF Dies, Safe, Gone
  <2> QED  BY <1>3, <1>7, <2>1 DEF Dies, KeptInv, Queued
<1>8. CASE \E m \in Msg, lane \in Lane : Pushes(m, lane)
  <2>1. PICK m \in Msg, lane \in Lane : Pushes(m, lane)  BY <1>8
  <2>2. store.nextTurn \in Seq(Msg) /\ store.nextStep \in Seq(Msg)
      BY <1>1, LanesAreSeqs
  <2>3. Queued(store') = Queued(store) \cup {m}
    <3>1. \A s \in Seq(Msg) : Elems(Append(s, m)) = Elems(s) \cup {m}
        BY ElemsAppend
    <3>2. store' = Received(store, m, lane)
        BY <2>1 DEF Pushes
    <3>3. CASE lane = "nextTurn"
      <4>1. store'.nextTurn = Append(store.nextTurn, m) /\ store'.nextStep = store.nextStep
          BY <1>1, <3>2, <3>3, LanesOfPush
      <4> QED  BY <2>2, <3>1, <4>1 DEF Queued
    <3>4. CASE lane = "nextStep"
      <4>1. store'.nextStep = Append(store.nextStep, m) /\ store'.nextTurn = store.nextTurn
          BY <1>1, <3>2, <3>4, LanesOfPush
      <4> QED  BY <2>2, <3>1, <4>1 DEF Queued
    <3> QED  BY <3>3, <3>4 DEF Lane
  <2>4. Safe' = Safe /\ sidecar' = store' /\ Settled' /\ live
      BY <2>1 DEF Pushes, Safe, Gone
  <2> QED  BY <2>1, <2>3, <2>4 DEF Pushes, KeptInv, Queued
<1>9. CASE \E lane \in Lane : Takes(lane)
  <2>1. PICK lane \in Lane : Takes(lane)  BY <1>9
  <2>2. Queued(store) = Queued(store') \cup Elems(store[lane])
    <3>1. CASE lane = "nextTurn"
        BY <1>1, <2>1, <3>1, LanesOfDrain, ElemsEmpty DEF Takes, Queued
    <3>2. CASE lane = "nextStep"
        BY <1>1, <2>1, <3>2, LanesOfDrain, ElemsEmpty DEF Takes, Queued
    <3> QED  BY <3>1, <3>2 DEF Lane
  <2>3. Queued(store) \cup Safe = Accepted
      BY <2>1 DEF Takes, KeptInv
  <2>4. Safe = Gone /\ Safe' = Elems(store[lane]) \cup Gone /\ Accepted' = Accepted
      BY <1>3, <2>1, ElemsEmpty DEF Takes, Safe, Gone
  <2>5. Queued(store') \cup Safe' = Accepted'
      BY <2>2, <2>3, <2>4
  <2>6. Queued(sidecar) \cup Safe' = Accepted /\ (~Settled => Queued(retiring) \cup Safe' = Accepted)
      BY <2>2, <2>3, <2>4 DEF KeptInv
  <2>7. (sidecar' = sidecar \/ sidecar' = store') /\ retiring' = retiring
      BY <2>1 DEF Takes
  <2> QED  BY <2>4, <2>5, <2>6, <2>7 DEF KeptInv, Queued, Settled
<1> QED  BY <1>4, <1>5, <1>6, <1>7, <1>8, <1>9 DEF Shaped

\* The lane a turn takes leaves the checkpoint, and nothing else does.
LEMMA DrainParts ==
    ASSUME NEW s \in Checkpoint, NEW lane \in Lane,
           NoDup(s.nextTurn), NoDup(s.nextStep), Elems(s.nextTurn) \cap Elems(s.nextStep) = {}
    PROVE  /\ Queued(Drained(s, lane)) = Queued(s) \ Elems(s[lane])
           /\ Elems(s[lane]) \subseteq Queued(s) /\ NoDup(s[lane])
           /\ NoDup(Drained(s, lane).nextTurn) /\ NoDup(Drained(s, lane).nextStep)
           /\ Elems(Drained(s, lane).nextTurn) \cap Elems(Drained(s, lane).nextStep) = {}
           /\ s[lane] = <<>> => SameLanes(Drained(s, lane), s)
<1>1. CASE lane = "nextTurn"
    BY <1>1, LanesOfDrain, ElemsEmpty DEF Queued, SameLanes
<1>2. CASE lane = "nextStep"
    BY <1>2, LanesOfDrain, ElemsEmpty DEF Queued, SameLanes
<1> QED  BY <1>1, <1>2 DEF Lane

\* A new message on a lane keeps the lanes apart and without repetition.
LEMMA PushParts ==
    ASSUME NEW s \in Checkpoint, NEW m \in Msg, NEW lane \in Lane, m \notin Queued(s),
           NoDup(s.nextTurn), NoDup(s.nextStep), Elems(s.nextTurn) \cap Elems(s.nextStep) = {}
    PROVE  LET r == Received(s, m, lane)
           IN  /\ Queued(r) = Queued(s) \cup {m}
               /\ NoDup(r.nextTurn) /\ NoDup(r.nextStep) /\ Elems(r.nextTurn) \cap Elems(r.nextStep) = {}
<1>1. \A q \in Seq(Msg) : m \notin Elems(q) /\ NoDup(q) => NoDup(Append(q, m))
    BY ElemsAppend
<1>2. \A q \in Seq(Msg) : Elems(Append(q, m)) = Elems(q) \cup {m}
    BY ElemsAppend
<1>3. s.nextTurn \in Seq(Msg) /\ s.nextStep \in Seq(Msg)
    BY LanesAreSeqs
<1>4. m \notin Elems(s.nextTurn) /\ m \notin Elems(s.nextStep)
    BY DEF Queued
<1>5. CASE lane = "nextTurn"
  <2>1. Received(s, m, lane).nextTurn = Append(s.nextTurn, m) /\ Received(s, m, lane).nextStep = s.nextStep
      BY <1>5, LanesOfPush
  <2> QED  BY <1>1, <1>2, <1>3, <1>4, <2>1 DEF Queued
<1>6. CASE lane = "nextStep"
  <2>1. Received(s, m, lane).nextStep = Append(s.nextStep, m) /\ Received(s, m, lane).nextTurn = s.nextTurn
      BY <1>6, LanesOfPush
  <2> QED  BY <1>1, <1>2, <1>3, <1>4, <2>1 DEF Queued
<1> QED  BY <1>5, <1>6 DEF Lane

\* Every step keeps each message in one place, until a turn overtakes a shutdown.
LEMMA OnceInvStep ==
    ASSUME TypeInv, KeptInv, OnceInv, Shaped
    PROVE  OnceInv'
<1> SUFFICES ASSUME ~overtaken' PROVE OneCopy' /\ OnePlace'
    BY DEF OnceInv
<1>1. /\ hand \in Seq(Msg) /\ delivered \in Seq(Msg)
      /\ store \in Checkpoint /\ sidecar \in Checkpoint
    BY DEF TypeInv, TypeOK
<1>2. ~overtaken /\ ~Overtakes
    BY NotOvertaken
<1>3. OneCopy /\ OnePlace
    BY <1>2 DEF OnceInv
<1>4. CASE Quiet
  <2>1. \A c : Known(c) => SameLanes(c, sidecar)
      BY <1>3 DEF Known, OneCopy, SameLanes
  <2>2. SameLanes(sidecar', sidecar) /\ (live' => SameLanes(store', sidecar)) /\ (~Settled' => SameLanes(retiring', sidecar))
      BY <1>4, <2>1 DEF Quiet
  <2>3. OneCopy'
      BY <2>2 DEF OneCopy, SameLanes
  <2>4. Queued(sidecar') = Queued(sidecar) /\ Safe' = Safe /\ Gone' = Gone
      BY <1>4, <2>2 DEF Quiet, Queued, SameLanes, Safe, Gone
  <2>5. OnePlace'
      BY <1>3, <1>4, <2>2, <2>4 DEF Quiet, OnePlace, SameLanes, Queued
  <2> QED  BY <2>3, <2>5
<1>5. CASE Injects
  <2>1. /\ Elems(hand) = {Head(hand)} \cup Elems(hand') /\ Elems(delivered') = Elems(delivered) \cup {Head(hand)}
        /\ NoDup(hand') /\ Head(hand) \notin Elems(hand')
      BY <1>1, <1>3, <1>5, ElemsTail, ElemsAppend DEF Injects, OnePlace
  <2>2. OneCopy'
      BY <1>3, <1>5 DEF Injects, OneCopy, SameLanes, Settled
  <2>3. Safe' = Safe /\ Gone' = Gone \cup {Head(hand)}
      BY <1>5, <2>1 DEF Injects, Safe, Gone
  <2>4. Elems(delivered') \cap lost = {} /\ Elems(hand') \cap Gone' = {}
      BY <1>3, <2>1, <2>3 DEF OnePlace, Gone
  <2>5. OnePlace'
      BY <1>3, <1>5, <2>1, <2>3, <2>4 DEF Injects, OnePlace, Queued
  <2> QED  BY <2>2, <2>5
<1>6. CASE Dies
  <2>1. Safe' = Safe /\ Elems(hand') = {} /\ NoDup(hand')
      BY <1>6, ElemsEmpty DEF Dies, Safe, Gone
  <2>2. Elems(delivered) \cap lost' = {}
      BY <1>3, <1>6 DEF Dies, OnePlace, Gone
  <2> QED  BY <1>3, <1>6, <2>1, <2>2 DEF Dies, OneCopy, OnePlace, Queued
<1>7. CASE \E m \in Msg, lane \in Lane : Pushes(m, lane)
  <2>1. PICK m \in Msg, lane \in Lane : Pushes(m, lane)  BY <1>7
  <2>2. SameLanes(store, sidecar)
      BY <1>3, <2>1 DEF Pushes, OneCopy
  <2>3. /\ NoDup(store.nextTurn) /\ NoDup(store.nextStep) /\ Elems(store.nextTurn) \cap Elems(store.nextStep) = {}
        /\ Queued(store) = Queued(sidecar)
      BY <1>3, <2>2 DEF OnePlace, SameLanes, Queued
  <2>4. m \notin Queued(store) /\ m \notin Safe
      BY <2>1, <2>3 DEF Pushes, KeptInv
  <2>5. /\ Queued(sidecar') = Queued(sidecar) \cup {m}
        /\ NoDup(sidecar'.nextTurn) /\ NoDup(sidecar'.nextStep) /\ Elems(sidecar'.nextTurn) \cap Elems(sidecar'.nextStep) = {}
    <3>1. sidecar' = Received(store, m, lane)
        BY <2>1 DEF Pushes
    <3> QED  BY <1>1, <2>3, <2>4, <3>1, PushParts
  <2>6. OneCopy'
      BY <2>1 DEF Pushes, OneCopy, SameLanes
  <2>7. Safe' = Safe /\ Gone' = Gone /\ hand' = hand /\ delivered' = delivered /\ lost' = lost
      BY <2>1 DEF Pushes, Safe, Gone
  <2>8. Queued(sidecar') \cap Safe' = {}
      BY <1>3, <2>4, <2>5, <2>7 DEF OnePlace
  <2>9. OnePlace'
      BY <1>3, <2>5, <2>7, <2>8 DEF OnePlace, Queued
  <2> QED  BY <2>6, <2>9
<1>8. CASE \E lane \in Lane : Takes(lane)
  <2>1. PICK lane \in Lane : Takes(lane)  BY <1>8
  <2>2. SameLanes(store, sidecar)
      BY <1>3, <2>1 DEF Takes, OneCopy
  <2>3. /\ NoDup(store.nextTurn) /\ NoDup(store.nextStep) /\ Elems(store.nextTurn) \cap Elems(store.nextStep) = {}
        /\ Queued(store) = Queued(sidecar)
      BY <1>3, <2>2 DEF OnePlace, SameLanes, Queued
  <2>4. /\ Queued(store') = Queued(store) \ Elems(store[lane])
        /\ Elems(store[lane]) \subseteq Queued(store) /\ NoDup(store[lane])
        /\ NoDup(store'.nextTurn) /\ NoDup(store'.nextStep)
        /\ Elems(store'.nextTurn) \cap Elems(store'.nextStep) = {}
        /\ store[lane] = <<>> => SameLanes(store', store)
    <3>1. store' = Drained(store, lane)
        BY <2>1 DEF Takes
    <3> QED  BY <1>1, <2>3, <3>1, DrainParts
  <2>5. SameLanes(store', sidecar')
      BY <2>1, <2>2, <2>4 DEF Takes, SameLanes
  <2>6. /\ Queued(sidecar') = Queued(store')
        /\ NoDup(sidecar'.nextTurn) /\ NoDup(sidecar'.nextStep)
        /\ Elems(sidecar'.nextTurn) \cap Elems(sidecar'.nextStep) = {}
      BY <2>4, <2>5 DEF SameLanes, Queued
  <2>7. hand' = store[lane] /\ Safe' = Elems(store[lane]) \cup Gone /\ Gone' = Gone /\ Safe = Gone
      BY <2>1, ElemsEmpty DEF Takes, Safe, Gone
  <2>8. delivered' = delivered /\ lost' = lost
      BY <2>1 DEF Takes
  <2>9. OnePlace'
    <3>1. Queued(sidecar') \cap Safe' = {} /\ Elems(hand') \cap Gone' = {}
        BY <1>3, <2>3, <2>4, <2>6, <2>7 DEF OnePlace
    <3>2. NoDup(hand') /\ Elems(delivered') \cap lost' = {}
        BY <1>3, <2>4, <2>7, <2>8 DEF OnePlace
    <3> QED  BY <2>6, <3>1, <3>2 DEF OnePlace, Queued
  <2>10. OneCopy'
      BY <1>2, <2>1, <2>5 DEF Takes, OneCopy, SameLanes, Settled
  <2> QED  BY <2>9, <2>10
<1> QED  BY <1>2, <1>4, <1>5, <1>6, <1>7, <1>8 DEF Shaped
\* The invariant of the delivery holds at the start.
LEMMA DeliveryInvInit == Init => DeliveryInv
<1> SUFFICES ASSUME Init PROVE DeliveryInv
    OBVIOUS
<1>1. TypeInv  BY TypeInvInit
<1>2. PhaseInv  BY DEF Init, PhaseInv, Settled
<1>3. KeptInv /\ OnceInv
  <2>1. Accepted = {}  BY DEF Init, Accepted
  <2>2. Queued(sidecar) = {} /\ Safe = {} /\ Settled /\ ~live /\ lost = {}
      BY ElemsEmpty DEF Init, Fresh, Queued, Safe, Gone, Settled
  <2>3. NoDup(sidecar.nextTurn) /\ NoDup(sidecar.nextStep) /\ NoDup(hand)
      BY ElemsEmpty DEF Init, Fresh
  <2> QED
      BY <2>1, <2>2, <2>3 DEF KeptInv, OnceInv, OneCopy, OnePlace, Queued, Safe, Gone
<1> QED  BY <1>1, <1>2, <1>3 DEF DeliveryInv

\* Every step keeps it.
LEMMA DeliveryInvStep == DeliveryInv /\ [Next]_vars => DeliveryInv'
<1> SUFFICES ASSUME DeliveryInv, [Next]_vars PROVE DeliveryInv'
    OBVIOUS
<1>1. TypeInv /\ PhaseInv /\ KeptInv /\ OnceInv  BY DEF DeliveryInv
<1>2. Shaped  BY <1>1, StepShapes
<1>3. TypeInv'  BY <1>1, TypeInvStep
<1>4. PhaseInv'  BY <1>1, PhaseInvStep
<1>5. KeptInv'  BY <1>1, <1>2, KeptInvStep
<1>6. OnceInv'  BY <1>1, <1>2, OnceInvStep
<1> QED  BY <1>3, <1>4, <1>5, <1>6 DEF DeliveryInv

-----------------------------------------------------------------------------
(* The refinement *)

Where == [m \in Msg |-> Places(m)]

\* Where a message is, under the refinement mapping.
LEMMA WhereIs ==
    ASSUME NEW m \in Msg
    PROVE  /\ Where[m] = Places(m) /\ Where'[m] = Places(m)'
           /\ Places(m) \subseteq {"queue", "hand", "log", "lost"}
           /\ "queue" \in Places(m) <=> m \in Queued(sidecar)
           /\ "hand" \in Places(m) <=> m \in Elems(hand)
           /\ "log" \in Places(m) <=> m \in Elems(delivered)
           /\ "lost" \in Places(m) <=> m \in lost
<1>1. Where[m] = Places(m) /\ Where'[m] = Places(m)'
    BY DEF Where
<1> QED  BY <1>1 DEF Places, Queued

\* The places of a message after a step.
LEMMA WhereWillBe ==
    ASSUME NEW m \in Msg
    PROVE  /\ Places(m)' \subseteq {"queue", "hand", "log", "lost"}
           /\ "queue" \in Places(m)' <=> m \in Queued(sidecar')
           /\ "hand" \in Places(m)' <=> m \in Elems(hand')
           /\ "log" \in Places(m)' <=> m \in Elems(delivered')
           /\ "lost" \in Places(m)' <=> m \in lost'
BY DEF Places, Queued

\* A message that is in the same places is at the same place of the contract.
LEMMA WhereStays ==
    ASSUME NEW m \in Msg,
           m \in Queued(sidecar') <=> m \in Queued(sidecar), m \in Elems(hand') <=> m \in Elems(hand),
           m \in Elems(delivered') <=> m \in Elems(delivered), m \in lost' <=> m \in lost
    PROVE  Where'[m] = Where[m]
<1>1. ASSUME NEW p \in {"queue", "hand", "log", "lost"}
      PROVE  p \in Places(m)' <=> p \in Places(m)
    BY WhereIs, WhereWillBe
<1>2. Places(m)' \subseteq {"queue", "hand", "log", "lost"} /\ Places(m) \subseteq {"queue", "hand", "log", "lost"}
    BY WhereIs, WhereWillBe
<1>3. Places(m)' = Places(m)  BY <1>1, <1>2
<1> QED  BY <1>3, WhereIs

\* Once the copies of a session disagree, no message is forgotten.
LEMMA StepKeepsAtLeastOnce ==
    ASSUME DeliveryInv, DeliveryInv', Shaped
    PROVE  Contract!AtLeastOnce
<1>1. /\ Accepted \subseteq Accepted' /\ Safe' \subseteq Accepted
      /\ Elems(delivered) \subseteq Elems(delivered')
    BY ShapeKeeps DEF DeliveryInv
<1>2. Queued(sidecar) \cup Safe = Accepted /\ Queued(sidecar') \cup Safe' = Accepted'
    BY DEF DeliveryInv, KeptInv, Queued
<1>3. ASSUME NEW m \in Msg
      PROVE  /\ Where[m] = {} => Where'[m] \in {{}, {"queue"}}
             /\ Where[m] # {} => Where'[m] # {}
             /\ "log" \in Where[m] => "log" \in Where'[m]
  <2>1. Where[m] # {} <=> m \in Accepted
      BY <1>2, WhereIs DEF Safe, Gone
  <2>2. Where'[m] # {} <=> m \in Accepted'
      BY <1>2, WhereIs, WhereWillBe DEF Safe, Gone
  <2>3. m \notin Safe' => Where'[m] \subseteq {"queue"}
      BY WhereIs, WhereWillBe DEF Safe, Gone
  <2>4. "log" \in Where[m] => "log" \in Where'[m]
      BY <1>1, WhereIs, WhereWillBe
  <2> QED  BY <1>1, <2>1, <2>2, <2>3, <2>4
<1> QED  BY <1>3 DEF Contract!AtLeastOnce, Where

\* In one place, a message is where its set says.
LEMMA OneOf ==
    ASSUME DeliveryInv, ~overtaken, NEW m \in Msg
    PROVE  /\ m \notin Accepted => Where[m] = {}
           /\ m \in Queued(sidecar) => Where[m] = {"queue"}
           /\ m \in Elems(hand) => Where[m] = {"hand"}
           /\ m \in Elems(delivered) => Where[m] = {"log"}
           /\ m \in lost => Where[m] = {"lost"}
           /\ Where[m] = {"queue"} => m \in Queued(sidecar)
           /\ Where[m] = {"hand"} => m \in Elems(hand)
<1>1. /\ Queued(sidecar) \cap Safe = {} /\ Elems(hand) \cap Gone = {} /\ Elems(delivered) \cap lost = {}
      /\ Queued(sidecar) \cup Safe = Accepted
    BY DEF DeliveryInv, OnceInv, OnePlace, KeptInv
<1> QED  BY <1>1, WhereIs DEF Safe, Gone
\* After a step each message is at the one place where it is found.
LEMMA OneWillBe ==
    ASSUME DeliveryInv', ~overtaken', NEW m \in Msg
    PROVE  /\ m \notin Accepted' => Where'[m] = {}
           /\ m \in Queued(sidecar') => Where'[m] = {"queue"}
           /\ m \in Elems(hand') => Where'[m] = {"hand"}
           /\ m \in Elems(delivered') => Where'[m] = {"log"}
           /\ m \in lost' => Where'[m] = {"lost"}
<1>1. /\ Queued(sidecar') \cap Safe' = {} /\ Elems(hand') \cap Gone' = {} /\ Elems(delivered') \cap lost' = {}
      /\ Queued(sidecar') \cup Safe' = Accepted'
    BY DEF DeliveryInv, OnceInv, OnePlace, KeptInv, Queued
<1> QED  BY <1>1, WhereIs, WhereWillBe DEF Safe, Gone

\* Until a turn overtakes a retiring generation, every step is one of the
\* contract's moves, or moves no message.
LEMMA StepMovesOnce ==
    ASSUME DeliveryInv, DeliveryInv', Shaped, ~overtaken'
    PROVE  Contract!Once \/ Where' = Where
<1>1. ~overtaken /\ ~Overtakes
    BY NotOvertaken
<1>2. /\ hand \in Seq(Msg) /\ delivered \in Seq(Msg)
      /\ store \in Checkpoint /\ sidecar \in Checkpoint
    BY DEF DeliveryInv, TypeInv, TypeOK
<1>3. OneCopy /\ OnePlace /\ OneCopy' /\ Queued(sidecar) \cup Safe = Accepted
    BY <1>1 DEF DeliveryInv, OnceInv, KeptInv
<1>4. arrivals' = arrivals => Accepted' = Accepted
    BY DEF Accepted
<1>5. CASE Quiet
  <2>1. SameLanes(sidecar', sidecar)
      BY <1>3, <1>5 DEF Quiet, Known, OneCopy, SameLanes
  <2>2. Queued(sidecar') = Queued(sidecar) /\ hand' = hand /\ delivered' = delivered /\ lost' = lost
      BY <1>5, <2>1 DEF Quiet, Queued, SameLanes
  <2>3. ASSUME NEW m \in Msg PROVE Where'[m] = Where[m]
      BY <2>2, WhereStays
  <2> QED  BY <2>3 DEF Where
<1>6. CASE Injects
  <2> DEFINE h == Head(hand)
  <2>1. /\ h \in Msg /\ Elems(hand) = {h} \cup Elems(hand') /\ Elems(delivered') = Elems(delivered) \cup {h}
        /\ sidecar' = sidecar /\ lost' = lost
      BY <1>2, <1>6, ElemsTail, ElemsAppend DEF Injects
  <2> HIDE DEF h
  <2>2. Where[h] = {"hand"} /\ Where'[h] = {"log"}
      BY <1>1, <2>1, OneOf, OneWillBe
  <2>3. ASSUME NEW m \in Msg, m # h PROVE Where'[m] = Where[m]
      BY <2>1, <2>3, WhereStays
  <2>4. Where' = [Where EXCEPT ![h] = {"log"}]
      BY <2>2, <2>3 DEF Where
  <2>5. Contract!Inject(h)
      BY <2>1, <2>2, <2>4 DEF Contract!Inject, Contract!At, Where
  <2> QED  BY <2>1, <2>5 DEF Contract!Once
<1>7. CASE Dies
  <2>1. hand' = <<>> /\ sidecar' = sidecar /\ delivered' = delivered /\ lost' = lost \cup Elems(hand)
      BY <1>7 DEF Dies
  <2>2. ASSUME NEW m \in Msg, m \in Elems(hand) PROVE Where[m] = {"hand"} /\ Where'[m] = {"lost"}
      BY <1>1, <2>1, <2>2, OneOf, OneWillBe
  <2>3. ASSUME NEW m \in Msg, m \notin Elems(hand) PROVE Where[m] # {"hand"} /\ Where'[m] = Where[m]
      BY <1>1, <2>1, <2>3, OneOf, WhereIs, WhereStays, ElemsEmpty
  <2>4. \A m \in Msg : m \in Contract!At("hand") <=> m \in Elems(hand)
      BY <2>2, <2>3 DEF Contract!At, Where
  <2>5. Contract!Lose
      BY <2>2, <2>3, <2>4 DEF Contract!Lose, Where
  <2> QED  BY <2>5 DEF Contract!Once
<1>8. CASE \E m \in Msg, lane \in Lane : Pushes(m, lane)
  <2>1. PICK m \in Msg, lane \in Lane : Pushes(m, lane)  BY <1>8
  <2>2. SameLanes(store, sidecar) /\ Queued(store) = Queued(sidecar)
      BY <1>3, <2>1 DEF Pushes, OneCopy, SameLanes, Queued
  <2>3. Queued(sidecar') = Queued(sidecar) \cup {m}
    <3>1. sidecar' = Received(store, m, lane) /\ m \notin Queued(store)
        BY <1>3, <2>1, <2>2 DEF Pushes
    <3>2. NoDup(store.nextTurn) /\ NoDup(store.nextStep) /\ Elems(store.nextTurn) \cap Elems(store.nextStep) = {}
        BY <1>3, <2>2 DEF OnePlace, SameLanes
    <3> QED  BY <1>2, <2>2, <3>1, <3>2, PushParts
  <2>4. hand' = hand /\ delivered' = delivered /\ lost' = lost
      BY <2>1 DEF Pushes
  <2>5. Where[m] = {} /\ Where'[m] = {"queue"}
      BY <1>1, <2>1, <2>3, OneOf, OneWillBe DEF Pushes
  <2>6. ASSUME NEW x \in Msg, x # m PROVE Where'[x] = Where[x]
      BY <2>3, <2>4, <2>6, WhereStays
  <2>7. Contract!Accept(m)
      BY <2>5, <2>6 DEF Contract!Accept, Where
  <2> QED  BY <2>7 DEF Contract!Once
<1>9. CASE \E lane \in Lane : Takes(lane)
  <2>1. PICK lane \in Lane : Takes(lane)  BY <1>9
  <2> DEFINE taken == Elems(store[lane])
  <2>2. SameLanes(store, sidecar) /\ Queued(store) = Queued(sidecar)
      BY <1>3, <2>1 DEF Takes, OneCopy, SameLanes, Queued
  <2>3. /\ Queued(store') = Queued(store) \ taken /\ taken \subseteq Queued(store)
        /\ store[lane] = <<>> => SameLanes(store', store)
    <3>1. store' = Drained(store, lane)
        BY <2>1 DEF Takes
    <3>2. NoDup(store.nextTurn) /\ NoDup(store.nextStep) /\ Elems(store.nextTurn) \cap Elems(store.nextStep) = {}
        BY <1>3, <2>2 DEF OnePlace, SameLanes
    <3> QED  BY <1>2, <3>1, <3>2, DrainParts
  <2>4. Queued(sidecar') = Queued(sidecar) \ taken
    <3>1. SameLanes(store', sidecar')
        BY <2>1, <2>2, <2>3 DEF Takes, SameLanes
    <3> QED  BY <2>2, <2>3, <3>1 DEF SameLanes, Queued
  <2>5. Elems(hand') = taken /\ Elems(hand) = {} /\ delivered' = delivered /\ lost' = lost
      BY <2>1, ElemsEmpty DEF Takes
  <2> HIDE DEF taken
  <2>6. ASSUME NEW m \in Msg, m \in taken PROVE Where[m] = {"queue"} /\ Where'[m] = {"hand"}
      BY <1>1, <2>2, <2>3, <2>5, <2>6, OneOf, OneWillBe
  <2>7. ASSUME NEW m \in Msg, m \notin taken PROVE Where'[m] = Where[m]
      BY <2>4, <2>5, <2>7, WhereStays
  <2>8. Where' = [m \in Msg |-> IF m \in taken \cap Msg THEN {"hand"} ELSE Where[m]]
      BY <2>6, <2>7 DEF Where
  <2>9. taken \cap Msg \in SUBSET Contract!At("queue")
      BY <2>6 DEF Contract!At, Where
  <2>10. Contract!Take
      BY <2>8, <2>9 DEF Contract!Take, Where
  <2> QED  BY <2>10 DEF Contract!Once
<1> QED  BY <1>1, <1>5, <1>6, <1>7, <1>8, <1>9 DEF Shaped

\* Whatever turns, crashes, restarts and configuration changes do, a session
\* keeps the delivery contract: a message is in one place, is injected once and
\* is lost only by a crash that finds it in hand; and after a turn has overtaken
\* the generation it replaced, none is forgotten.
THEOREM SessionKeepsContract == Spec => ImplementsDelivery
<1>1. Init => Contract!Init
  <2> SUFFICES ASSUME Init PROVE Contract!Init
      OBVIOUS
  <2>1. DeliveryInv /\ ~overtaken /\ Accepted = {}
      BY DeliveryInvInit DEF Init, Accepted
  <2>2. ASSUME NEW m \in Msg PROVE Where[m] = {}
      BY <2>1, OneOf
  <2>3. Where = [m \in Msg |-> {}]
      BY <2>2 DEF Where
  <2> QED  BY <2>1, <2>3 DEF Contract!Init, Where, Init
<1>2. DeliveryInv /\ DeliveryInv' /\ [Next]_vars => [Contract!Next]_<<Where, overtaken>>
  <2> SUFFICES ASSUME DeliveryInv, DeliveryInv', [Next]_vars
               PROVE  [Contract!Next]_<<Where, overtaken>>
      OBVIOUS
  <2>1. Shaped
      BY StepShapes DEF DeliveryInv
  <2>2. CASE ~overtaken'
    <3>1. ~overtaken
        BY <2>2, OvertakenStays
    <3>2. overtaken \in BOOLEAN /\ overtaken' \in BOOLEAN
        BY DEF DeliveryInv, TypeInv, TypeOK
    <3>3. overtaken' = overtaken
        BY <2>2, <3>1, <3>2
    <3>4. Contract!Once \/ Where' = Where
        BY <2>1, <2>2, StepMovesOnce
    <3> QED  BY <2>2, <3>3, <3>4 DEF Contract!Next
  <2>3. CASE overtaken'
      BY <2>1, <2>3, StepKeepsAtLeastOnce DEF Contract!Next
  <2> QED  BY <2>2, <2>3
<1>3. Init => DeliveryInv  BY DeliveryInvInit
<1>4. DeliveryInv /\ [Next]_vars => DeliveryInv'  BY DeliveryInvStep
<1> QED  BY <1>1, <1>2, <1>3, <1>4, PTL DEF Spec, ImplementsDelivery, Contract!Spec, Where
-----------------------------------------------------------------------------
(* The order of a lane *)

\* Wherever y is in s, x is safe or comes before it.
After(s, x, y, safe) ==
    \A q \in 1 .. Len(s) : s[q] = y => x \in safe \/ \E p \in 1 .. q - 1 : s[p] = x

\* x was accepted before y, on the same lane.
Before(x, y) ==
    \E i, j \in 1 .. Len(arrivals) :
        i < j /\ arrivals[i].msg = x /\ arrivals[j].msg = y /\ arrivals[i].lane = arrivals[j].lane

SentOn(m, lane) == \A i \in 1 .. Len(arrivals) : arrivals[i].msg = m => arrivals[i].lane = lane

\* A lane holds what was sent on it, in order, but for what has left it.
LaneInv(s, lane) ==
    /\ \A m \in Elems(s) : SentOn(m, lane)
    /\ \A x, y \in Msg : Before(x, y) => After(s, x, y, Safe)

\* So do the messages in hand and those in the log.
PassedInv ==
    \A x, y \in Msg : Before(x, y) => After(hand, x, y, Gone) /\ After(delivered, x, y, lost)

FIFOInv ==
    ~overtaken =>
        /\ LaneInv(sidecar.nextTurn, "nextTurn") /\ LaneInv(sidecar.nextStep, "nextStep")
        /\ PassedInv

\* What is safe for fewer is safe for more.
LEMMA AfterGrows ==
    ASSUME NEW s, NEW x, NEW y, NEW G, NEW H, G \subseteq H, After(s, x, y, G)
    PROVE  After(s, x, y, H)
BY DEF After

\* Nothing is out of order in an empty lane.
LEMMA AfterEmpty == ASSUME NEW x, NEW y, NEW G PROVE After(<<>>, x, y, G)
BY DEF After

\* Where y is not, nothing is asked of x.
LEMMA AfterNone ==
    ASSUME NEW s, NEW x, NEW y, NEW G, y \notin Elems(s) PROVE After(s, x, y, G)
BY DEF After, Elems

\* A message that joins a lane comes after those accepted before it.
LEMMA AfterAppend ==
    ASSUME NEW s \in Seq(Msg), NEW m \in Msg, NEW x, NEW y, NEW G, After(s, x, y, G),
           m = y => x \in G \cup Elems(s)
    PROVE  After(Append(s, m), x, y, G)
<1>1. /\ Len(s) \in Nat /\ Len(Append(s, m)) = Len(s) + 1
      /\ \A i \in 1 .. Len(s) : Append(s, m)[i] = s[i]
      /\ Append(s, m)[Len(s) + 1] = m
    BY AppendProperties, LenProperties
<1> DEFINE t == Append(s, m)
<1> HIDE DEF t
<1>2. /\ Len(t) = Len(s) + 1 /\ \A i \in 1 .. Len(s) : t[i] = s[i]
      /\ t[Len(s) + 1] = m
    BY <1>1 DEF t
<1>3. ASSUME NEW q \in 1 .. Len(t), t[q] = y
      PROVE  x \in G \/ \E p \in 1 .. q - 1 : t[p] = x
  <2>1. CASE q \in 1 .. Len(s)
    <3>1. s[q] = y
        BY <1>2, <1>3, <2>1
    <3>2. CASE x \in G
        BY <3>2
    <3>3. ASSUME NEW p \in 1 .. q - 1, s[p] = x PROVE \E k \in 1 .. q - 1 : t[k] = x
      <4>1. p \in 1 .. Len(s)
          BY <1>1, <2>1
      <4> QED  BY <1>2, <3>3, <4>1
    <3> QED  BY <2>1, <3>1, <3>2, <3>3 DEF After
  <2>2. CASE q = Len(s) + 1
    <3>1. x \in G \cup Elems(s)
        BY <1>2, <1>3, <2>2
    <3>2. ASSUME NEW p \in 1 .. Len(s), s[p] = x PROVE \E k \in 1 .. q - 1 : t[k] = x
      <4>1. p \in 1 .. q - 1
          BY <1>1, <2>2
      <4> QED  BY <1>2, <3>2, <4>1
    <3> QED  BY <3>1, <3>2 DEF Elems
  <2> QED  BY <1>1, <1>2, <2>1, <2>2
<1> QED  BY <1>3 DEF After, t

\* The first message of what is in hand: those before it are safe.
LEMMA AfterHead ==
    ASSUME NEW s \in Seq(Msg), s # <<>>, NEW x, NEW G, After(s, x, Head(s), G)
    PROVE  x \in G
<1>1. Len(s) \in Nat \ {0} /\ Head(s) = s[1]
    BY HeadTailProperties, LenProperties, EmptySeq
<1> QED  BY <1>1 DEF After

\* Once it is in the log it is safe for those behind it.
LEMMA AfterTail ==
    ASSUME NEW s \in Seq(Msg), s # <<>>, NEW x, NEW y, NEW G, After(s, x, y, G)
    PROVE  After(Tail(s), x, y, G \cup {Head(s)})
<1>1. /\ Len(s) \in Nat \ {0} /\ Len(Tail(s)) = Len(s) - 1 /\ Head(s) = s[1]
      /\ \A i \in 1 .. Len(s) - 1 : Tail(s)[i] = s[i + 1]
    BY HeadTailProperties, LenProperties, EmptySeq
<1> DEFINE t == Tail(s)
<1> HIDE DEF t
<1>2. Len(t) = Len(s) - 1 /\ \A i \in 1 .. Len(s) - 1 : t[i] = s[i + 1]
    BY <1>1 DEF t
<1>3. ASSUME NEW q \in 1 .. Len(t), t[q] = y
      PROVE  x \in G \cup {Head(s)} \/ \E p \in 1 .. q - 1 : t[p] = x
  <2>1. q + 1 \in 1 .. Len(s) /\ s[q + 1] = y
      BY <1>1, <1>2, <1>3
  <2>2. x \in G \/ \E p \in 1 .. q : s[p] = x
    <3>1. (q + 1) - 1 = q
        BY <1>1, <1>2
    <3> QED  BY <2>1, <3>1 DEF After
  <2>3. ASSUME NEW p \in 1 .. q, s[p] = x PROVE x = Head(s) \/ \E k \in 1 .. q - 1 : t[k] = x
    <3>1. CASE p = 1
        BY <1>1, <2>3, <3>1
    <3>2. CASE p # 1
      <4>1. p - 1 \in 1 .. q - 1 /\ p - 1 \in 1 .. Len(s) - 1 /\ (p - 1) + 1 = p
          BY <1>1, <1>2, <3>2
      <4>2. t[p - 1] = x
          BY <1>2, <2>3, <4>1
      <4> QED  BY <4>1, <4>2
    <3> QED  BY <3>1, <3>2
  <2> QED  BY <2>2, <2>3
<1> QED  BY <1>3 DEF After, t

\* A step that accepts nothing changes neither what was sent nor its order.
LEMMA SameArrivals ==
    ASSUME arrivals' = arrivals
    PROVE  /\ \A x, y : Before(x, y)' <=> Before(x, y)
           /\ \A m, lane : SentOn(m, lane)' <=> SentOn(m, lane)
           /\ Accepted' = Accepted
BY DEF Before, SentOn, Accepted

\* The arrivals with one more.
LEMMA OneMoreArrival ==
    ASSUME TypeInv, NEW m \in Msg, NEW lane \in Lane, Pushes(m, lane)
    PROVE  /\ Len(arrivals) \in Nat /\ Len(arrivals') = Len(arrivals) + 1
           /\ \A i \in 1 .. Len(arrivals) : arrivals'[i] = arrivals[i]
           /\ arrivals'[Len(arrivals) + 1].msg = m
           /\ arrivals'[Len(arrivals) + 1].lane = lane
<1>1. /\ arrivals \in Seq([msg : Msg, lane : Lane])
      /\ arrivals' = Append(arrivals, [msg |-> m, lane |-> lane])
    BY DEF Pushes, TypeInv, TypeOK
<1>2. /\ Len(arrivals) \in Nat /\ Len(arrivals') = Len(arrivals) + 1
      /\ \A i \in 1 .. Len(arrivals) : arrivals'[i] = arrivals[i]
      /\ arrivals'[Len(arrivals) + 1] = [msg |-> m, lane |-> lane]
    BY <1>1, AppendProperties, LenProperties
<1> QED  BY <1>2

\* What comes before what once a message was pushed.
LEMMA BeforeOfPush ==
    ASSUME TypeInv, NEW m \in Msg, NEW lane \in Lane, Pushes(m, lane), NEW x, NEW y, Before(x, y)'
    PROVE  /\ x \in Accepted
           /\ Before(x, y) \/ (y = m /\ \A other : SentOn(x, other) => other = lane)
<1>1. /\ Len(arrivals) \in Nat /\ Len(arrivals') = Len(arrivals) + 1
      /\ \A i \in 1 .. Len(arrivals) : arrivals'[i] = arrivals[i]
      /\ arrivals'[Len(arrivals) + 1].msg = m
      /\ arrivals'[Len(arrivals) + 1].lane = lane
    BY OneMoreArrival
<1>2. PICK i \in 1 .. Len(arrivals'), j \in 1 .. Len(arrivals') :
          /\ i < j /\ arrivals'[i].msg = x /\ arrivals'[j].msg = y
          /\ arrivals'[i].lane = arrivals'[j].lane
    BY DEF Before
<1>3. i \in 1 .. Len(arrivals) /\ (j \in 1 .. Len(arrivals) \/ j = Len(arrivals) + 1)
    BY <1>1, <1>2
<1>4. arrivals[i].msg = x /\ arrivals[i].lane = arrivals'[j].lane
    BY <1>1, <1>2, <1>3
<1>5. x \in Accepted
    BY <1>3, <1>4 DEF Accepted
<1>6. CASE j \in 1 .. Len(arrivals)
  <2>1. arrivals[j].msg = y /\ arrivals[i].lane = arrivals[j].lane
      BY <1>1, <1>2, <1>4, <1>6
  <2> QED  BY <1>2, <1>3, <1>4, <1>5, <1>6, <2>1 DEF Before
<1>7. CASE j = Len(arrivals) + 1
  <2>1. y = m /\ arrivals[i].lane = lane
      BY <1>1, <1>2, <1>4, <1>7
  <2>2. \A other : SentOn(x, other) => other = lane
      BY <1>3, <1>4, <2>1 DEF SentOn
  <2> QED  BY <1>5, <2>1, <2>2
<1> QED  BY <1>3, <1>6, <1>7

\* What was sent on a lane is still so.
LEMMA SentOnOfPush ==
    ASSUME TypeInv, NEW m \in Msg, NEW lane \in Lane, Pushes(m, lane)
    PROVE  /\ SentOn(m, lane)'
           /\ \A x \in Accepted : \A other : SentOn(x, other) => SentOn(x, other)'
<1>1. /\ Len(arrivals) \in Nat /\ Len(arrivals') = Len(arrivals) + 1
      /\ \A i \in 1 .. Len(arrivals) : arrivals'[i] = arrivals[i]
      /\ arrivals'[Len(arrivals) + 1].msg = m
      /\ arrivals'[Len(arrivals) + 1].lane = lane
    BY OneMoreArrival
<1>2. m \notin Accepted
    BY DEF Pushes
<1>3. \A i \in 1 .. Len(arrivals') : i \in 1 .. Len(arrivals) \/ i = Len(arrivals) + 1
    BY <1>1
<1>4. \A i \in 1 .. Len(arrivals) : arrivals[i].msg \in Accepted
    BY DEF Accepted
<1>5. SentOn(m, lane)'
    BY <1>1, <1>2, <1>3, <1>4 DEF SentOn
<1>6. ASSUME NEW x \in Accepted, NEW other, SentOn(x, other) PROVE SentOn(x, other)'
    BY <1>1, <1>2, <1>3, <1>6 DEF SentOn
<1> QED  BY <1>5, <1>6

\* What a lane that is s will satisfy.
LaneWillBe(s, lane) ==
    /\ \A m \in Elems(s) : SentOn(m, lane)'
    /\ \A x, y \in Msg : Before(x, y)' => After(s, x, y, Safe')

\* A lane whose messages, and those in hand, are the same.
LEMMA LaneInvSame ==
    ASSUME NEW s, NEW lane, LaneInv(s, lane), Safe \subseteq Safe', arrivals' = arrivals
    PROVE  LaneWillBe(s, lane)
<1>1. \A m \in Elems(s) : SentOn(m, lane)'
    BY SameArrivals DEF LaneInv
<1>2. ASSUME NEW x \in Msg, NEW y \in Msg, Before(x, y)' PROVE After(s, x, y, Safe')
  <2>1. After(s, x, y, Safe)
      BY <1>2, SameArrivals DEF LaneInv
  <2> QED  BY <2>1, AfterGrows
<1> QED  BY <1>1, <1>2 DEF LaneWillBe

\* An empty lane is in order.
LEMMA LaneInvEmpty == ASSUME NEW lane PROVE LaneWillBe(<<>>, lane)
BY AfterEmpty, ElemsEmpty DEF LaneWillBe

\* The lane a message is pushed on.
LEMMA LaneInvPushed ==
    ASSUME TypeInv, NEW m \in Msg, NEW lane \in Lane, Pushes(m, lane), NEW s \in Seq(Msg),
           LaneInv(s, lane), Elems(s) \subseteq Accepted,
           \A x \in Accepted : x \in Safe \cup Elems(s) \/ \E other : other # lane /\ SentOn(x, other)
    PROVE  LaneWillBe(Append(s, m), lane)
<1>1. m \notin Accepted /\ Safe' = Safe
    BY DEF Pushes, Safe, Gone
<1>2. Elems(Append(s, m)) = Elems(s) \cup {m}
    BY ElemsAppend
<1>3. \A x \in Elems(Append(s, m)) : SentOn(x, lane)'
    BY <1>2, SentOnOfPush DEF LaneInv
<1>4. ASSUME NEW x \in Msg, NEW y \in Msg, Before(x, y)' PROVE After(Append(s, m), x, y, Safe)
  <2>1. x \in Accepted /\ (Before(x, y) \/ (y = m /\ \A other : SentOn(x, other) => other = lane))
      BY <1>4, BeforeOfPush
  <2>2. CASE y = m
    <3>1. After(s, x, y, Safe)
        BY <1>1, <2>2, AfterNone
    <3>2. x \in Safe \cup Elems(s)
      <4>1. CASE \A other : SentOn(x, other) => other = lane
          BY <2>1, <4>1
      <4>2. CASE Before(x, y)
        <5>1. y \in Accepted
            BY <4>2 DEF Before, Accepted
        <5> QED  BY <1>1, <2>2, <5>1
      <4> QED  BY <2>1, <4>1, <4>2
    <3> QED  BY <3>1, <3>2, AfterAppend
  <2>3. CASE y # m
    <3>1. After(s, x, y, Safe)
        BY <2>1, <2>3 DEF LaneInv
    <3> QED  BY <2>3, <3>1, AfterAppend
  <2> QED  BY <2>2, <2>3
<1>5. \A x, y \in Msg : Before(x, y)' => After(Append(s, m), x, y, Safe')
    BY <1>1, <1>4
<1> QED  BY <1>3, <1>5 DEF LaneWillBe

\* The other lane.
LEMMA LaneInvBeside ==
    ASSUME TypeInv, NEW m \in Msg, NEW lane \in Lane, Pushes(m, lane), NEW s \in Seq(Msg), NEW other,
           LaneInv(s, other), Elems(s) \subseteq Accepted
    PROVE  LaneWillBe(s, other)
<1>1. m \notin Accepted /\ Safe' = Safe
    BY DEF Pushes, Safe, Gone
<1>2. \A x \in Elems(s) : SentOn(x, other)'
    BY SentOnOfPush DEF LaneInv
<1>3. ASSUME NEW x \in Msg, NEW y \in Msg, Before(x, y)' PROVE After(s, x, y, Safe')
  <2>1. CASE y = m
      BY <1>1, <2>1, AfterNone
  <2>2. CASE y # m
      BY <1>1, <1>3, <2>2, BeforeOfPush DEF LaneInv
  <2> QED  BY <2>1, <2>2
<1> QED  BY <1>2, <1>3 DEF LaneWillBe

\* What is in hand or in the log when a message is pushed.
LEMMA PassedOfPush ==
    ASSUME TypeInv, KeptInv, PassedInv, NEW m \in Msg, NEW lane \in Lane, Pushes(m, lane)
    PROVE  PassedInv'
<1>1. /\ m \notin Accepted /\ hand' = hand /\ delivered' = delivered /\ lost' = lost /\ Gone' = Gone
      /\ Elems(hand) \subseteq Accepted /\ Elems(delivered) \subseteq Accepted
    BY DEF Pushes, KeptInv, Safe, Gone
<1>2. ASSUME NEW x \in Msg, NEW y \in Msg, Before(x, y)'
      PROVE  After(hand, x, y, Gone) /\ After(delivered, x, y, lost)
  <2>1. CASE y = m
      BY <1>1, <2>1, AfterNone
  <2>2. CASE y # m
      BY <1>2, <2>2, BeforeOfPush DEF PassedInv
  <2> QED  BY <2>1, <2>2
<1> QED  BY <1>1, <1>2 DEF PassedInv

\* The first message in hand goes to the log.
LEMMA PassedOfInject ==
    ASSUME TypeInv, PassedInv, Injects PROVE PassedInv'
<1>1. /\ hand \in Seq(Msg) /\ delivered \in Seq(Msg) /\ hand # <<>> /\ Head(hand) \in Msg
      /\ hand' = Tail(hand) /\ delivered' = Append(delivered, Head(hand)) /\ lost' = lost
      /\ arrivals' = arrivals
    BY ElemsTail DEF Injects, TypeInv, TypeOK
<1> DEFINE h == Head(hand)
<1>2. Elems(delivered') = Elems(delivered) \cup {h}
    BY <1>1, ElemsAppend
<1>3. Gone' = Gone \cup {h}
    BY <1>1, <1>2 DEF Gone
<1>4. ASSUME NEW x \in Msg, NEW y \in Msg, Before(x, y)'
      PROVE  After(hand', x, y, Gone') /\ After(delivered', x, y, lost')
  <2>1. After(hand, x, y, Gone) /\ After(delivered, x, y, lost)
      BY <1>1, <1>4, SameArrivals DEF PassedInv
  <2>2. After(hand', x, y, Gone')
      BY <1>1, <1>3, <2>1, AfterTail
  <2>3. h = y => x \in lost \cup Elems(delivered)
      BY <1>1, <2>1, AfterHead DEF Gone
  <2>4. After(Append(delivered, h), x, y, lost)
      BY <1>1, <2>1, <2>3, AfterAppend
  <2> QED  BY <1>1, <2>2, <2>4
<1> QED  BY <1>4 DEF PassedInv

\* A turn takes a lane when nothing is in hand.
LEMMA PassedOfTake ==
    ASSUME PassedInv, NEW lane, Takes(lane), LaneInv(store[lane], lane) PROVE PassedInv'
<1>1. /\ hand = <<>> /\ hand' = store[lane] /\ delivered' = delivered /\ lost' = lost
      /\ arrivals' = arrivals
    BY DEF Takes
<1>2. Safe = Gone /\ Gone' = Gone
    BY <1>1, ElemsEmpty DEF Safe, Gone
<1>3. ASSUME NEW x \in Msg, NEW y \in Msg, Before(x, y)'
      PROVE  After(hand', x, y, Gone') /\ After(delivered', x, y, lost')
  <2>1. Before(x, y)
      BY <1>1, <1>3, SameArrivals
  <2> QED  BY <1>1, <1>2, <2>1 DEF LaneInv, PassedInv
<1> QED  BY <1>3 DEF PassedInv

\* What was in hand is lost.
LEMMA PassedOfDeath ==
    ASSUME PassedInv, Dies PROVE PassedInv'
<1>1. /\ hand' = <<>> /\ delivered' = delivered /\ lost \subseteq lost' /\ arrivals' = arrivals
    BY DEF Dies
<1>2. ASSUME NEW x \in Msg, NEW y \in Msg, Before(x, y)'
      PROVE  After(hand', x, y, Gone') /\ After(delivered', x, y, lost')
  <2>1. After(delivered, x, y, lost)
      BY <1>1, <1>2, SameArrivals DEF PassedInv
  <2>2. After(delivered, x, y, lost')
      BY <1>1, <2>1, AfterGrows
  <2> QED  BY <1>1, <2>2, AfterEmpty
<1> QED  BY <1>2 DEF PassedInv

\* What has been taken and delivered stays in order when it stays.
LEMMA PassedSame ==
    ASSUME PassedInv, UNCHANGED <<hand, delivered, lost, arrivals>> PROVE PassedInv'
<1>1. Gone' = Gone
    BY DEF Gone
<1> QED  BY <1>1, SameArrivals DEF PassedInv

\* The lanes of the sidecar after a step.
LEMMA LanesStep ==
    ASSUME DeliveryInv, FIFOInv, Shaped, ~overtaken'
    PROVE  LaneWillBe(sidecar'.nextTurn, "nextTurn") /\ LaneWillBe(sidecar'.nextStep, "nextStep")
<1>1. ~overtaken /\ ~Overtakes
    BY NotOvertaken
<1>2. LaneInv(sidecar.nextTurn, "nextTurn") /\ LaneInv(sidecar.nextStep, "nextStep")
    BY <1>1 DEF FIFOInv
<1>3. TypeInv /\ KeptInv /\ OneCopy
    BY <1>1 DEF DeliveryInv, OnceInv
<1>4. store \in Checkpoint /\ sidecar \in Checkpoint
    BY <1>3 DEF TypeInv, TypeOK
<1>5. CASE Quiet \/ Injects \/ Dies
  <2>1. SameLanes(sidecar', sidecar)
    <3>1. CASE Quiet
        BY <1>3, <3>1 DEF Quiet, Known, OneCopy, SameLanes
    <3>2. CASE Injects \/ Dies
        BY <3>2 DEF Injects, Dies, SameLanes
    <3> QED  BY <1>5, <3>1, <3>2
  <2>2. Safe' = Safe /\ arrivals' = arrivals
    <3>1. CASE Quiet
        BY <3>1 DEF Quiet, Safe, Gone
    <3>2. CASE Injects
      <4>1. Elems(hand) = {Head(hand)} \cup Elems(hand') /\ Elems(delivered') = Elems(delivered) \cup {Head(hand)}
          BY <1>3, <3>2, ElemsTail, ElemsAppend DEF Injects, TypeInv, TypeOK
      <4> QED  BY <3>2, <4>1 DEF Injects, Safe, Gone
    <3>3. CASE Dies
        BY <3>3, ElemsEmpty DEF Dies, Safe, Gone
    <3> QED  BY <1>5, <3>1, <3>2, <3>3
  <2>3. LaneWillBe(sidecar.nextTurn, "nextTurn") /\ LaneWillBe(sidecar.nextStep, "nextStep")
      BY <1>2, <2>2, LaneInvSame
  <2> QED  BY <2>1, <2>3 DEF SameLanes
<1>6. ASSUME NEW lane \in Lane, Takes(lane)
      PROVE  LaneWillBe(sidecar'.nextTurn, "nextTurn") /\ LaneWillBe(sidecar'.nextStep, "nextStep")
  <2>1. SameLanes(store, sidecar)
      BY <1>3, <1>6 DEF Takes, OneCopy
  <2>2. store' = Drained(store, lane) /\ (sidecar' = store' \/ (sidecar' = sidecar /\ store[lane] = <<>>))
      BY <1>6 DEF Takes
  <2>3. Safe \subseteq Safe' /\ arrivals' = arrivals
      BY <1>6, ElemsEmpty DEF Takes, Safe, Gone
  <2>4. LaneWillBe(sidecar.nextTurn, "nextTurn") /\ LaneWillBe(sidecar.nextStep, "nextStep")
      BY <1>2, <2>3, LaneInvSame
  <2>5. /\ sidecar'.nextTurn = sidecar.nextTurn \/ sidecar'.nextTurn = <<>>
        /\ sidecar'.nextStep = sidecar.nextStep \/ sidecar'.nextStep = <<>>
    <3>1. CASE lane = "nextTurn"
        BY <1>4, <2>1, <2>2, <3>1, LanesOfDrain DEF SameLanes
    <3>2. CASE lane = "nextStep"
        BY <1>4, <2>1, <2>2, <3>2, LanesOfDrain DEF SameLanes
    <3> QED  BY <3>1, <3>2 DEF Lane
  <2> QED  BY <2>4, <2>5, LaneInvEmpty
<1>7. ASSUME NEW m \in Msg, NEW lane \in Lane, Pushes(m, lane)
      PROVE  LaneWillBe(sidecar'.nextTurn, "nextTurn") /\ LaneWillBe(sidecar'.nextStep, "nextStep")
  <2> DEFINE t == store.nextTurn  n == store.nextStep
  <2>1. SameLanes(store, sidecar) /\ sidecar' = Received(store, m, lane)
      BY <1>3, <1>7 DEF Pushes, OneCopy
  <2>2. /\ LaneInv(t, "nextTurn") /\ LaneInv(n, "nextStep")
        /\ t \in Seq(Msg) /\ n \in Seq(Msg)
      BY <1>2, <1>4, <2>1, LanesAreSeqs DEF SameLanes
  <2>3. Accepted = Elems(t) \cup Elems(n) \cup Safe
      BY <1>3, <1>7 DEF Pushes, KeptInv, Queued
  <2>4. \A x \in Elems(t) : SentOn(x, "nextTurn")
      BY <2>2 DEF LaneInv
  <2>5. \A x \in Elems(n) : SentOn(x, "nextStep")
      BY <2>2 DEF LaneInv
  <2>6. CASE lane = "nextTurn"
    <3>1. sidecar'.nextTurn = Append(t, m) /\ sidecar'.nextStep = n
        BY <1>4, <2>1, <2>6, LanesOfPush
    <3> HIDE DEF t, n
    <3>2. \A x \in Accepted : x \in Safe \cup Elems(t) \/ \E other : other # lane /\ SentOn(x, other)
        BY <2>3, <2>5, <2>6
    <3>3. LaneWillBe(Append(t, m), "nextTurn")
        BY <1>3, <1>7, <2>2, <2>3, <2>6, <3>2, LaneInvPushed
    <3>4. LaneWillBe(n, "nextStep")
        BY <1>3, <1>7, <2>2, <2>3, LaneInvBeside
    <3> QED  BY <3>1, <3>3, <3>4
  <2>7. CASE lane = "nextStep"
    <3>1. sidecar'.nextStep = Append(n, m) /\ sidecar'.nextTurn = t
        BY <1>4, <2>1, <2>7, LanesOfPush
    <3> HIDE DEF t, n
    <3>2. \A x \in Accepted : x \in Safe \cup Elems(n) \/ \E other : other # lane /\ SentOn(x, other)
        BY <2>3, <2>4, <2>7
    <3>3. LaneWillBe(Append(n, m), "nextStep")
        BY <1>3, <1>7, <2>2, <2>3, <2>7, <3>2, LaneInvPushed
    <3>4. LaneWillBe(t, "nextTurn")
        BY <1>3, <1>7, <2>2, <2>3, LaneInvBeside
    <3> QED  BY <3>1, <3>3, <3>4
  <2> QED  BY <2>6, <2>7 DEF Lane
<1> QED  BY <1>1, <1>5, <1>6, <1>7 DEF Shaped

\* What has left the lanes after a step.
LEMMA PassedStep ==
    ASSUME DeliveryInv, FIFOInv, Shaped, ~overtaken'
    PROVE  PassedInv'
<1>1. ~overtaken /\ ~Overtakes
    BY NotOvertaken
<1>2. LaneInv(sidecar.nextTurn, "nextTurn") /\ LaneInv(sidecar.nextStep, "nextStep") /\ PassedInv
    BY <1>1 DEF FIFOInv
<1>3. TypeInv /\ KeptInv /\ OneCopy
    BY <1>1 DEF DeliveryInv, OnceInv
<1>4. CASE Quiet
    BY <1>2, <1>4, PassedSame DEF Quiet
<1>5. CASE Injects
    BY <1>2, <1>3, <1>5, PassedOfInject
<1>6. CASE Dies
    BY <1>2, <1>6, PassedOfDeath
<1>7. ASSUME NEW m \in Msg, NEW lane \in Lane, Pushes(m, lane) PROVE PassedInv'
    BY <1>2, <1>3, <1>7, PassedOfPush
<1>8. ASSUME NEW lane \in Lane, Takes(lane) PROVE PassedInv'
  <2>1. SameLanes(store, sidecar)
      BY <1>3, <1>8 DEF Takes, OneCopy
  <2>2. LaneInv(store[lane], lane)
      BY <1>2, <2>1 DEF SameLanes, Lane
  <2> QED  BY <1>2, <1>8, <2>2, PassedOfTake
<1> QED  BY <1>1, <1>4, <1>5, <1>6, <1>7, <1>8 DEF Shaped

\* Every step keeps the order of acceptance, until a turn overtakes a shutdown.
LEMMA FIFOInvStep == ASSUME DeliveryInv, FIFOInv, [Next]_vars PROVE FIFOInv'
<1> SUFFICES ASSUME ~overtaken'
             PROVE  LaneInv(sidecar.nextTurn, "nextTurn")' /\ LaneInv(sidecar.nextStep, "nextStep")' /\ PassedInv'
    BY DEF FIFOInv
<1>1. Shaped
    BY StepShapes DEF DeliveryInv
<1>2. LaneWillBe(sidecar'.nextTurn, "nextTurn") /\ LaneWillBe(sidecar'.nextStep, "nextStep")
    BY <1>1, LanesStep
<1>3. LaneInv(sidecar.nextTurn, "nextTurn")' /\ LaneInv(sidecar.nextStep, "nextStep")'
    BY <1>2 DEF LaneWillBe, LaneInv, Elems
<1> QED  BY <1>1, <1>3, PassedStep

\* Nothing has been accepted yet.
LEMMA FIFOInvInit == Init => FIFOInv
<1> SUFFICES ASSUME Init PROVE FIFOInv
    OBVIOUS
<1>1. \A x, y : ~Before(x, y)
    BY DEF Init, Before
<1>2. Elems(sidecar.nextTurn) = {} /\ Elems(sidecar.nextStep) = {}
    BY ElemsEmpty DEF Init, Fresh
<1> QED  BY <1>1, <1>2 DEF FIFOInv, LaneInv, PassedInv

\* Until a turn overtakes a retiring generation, the messages of a lane reach the
\* log in the order they were accepted, and none overtakes an earlier one that
\* still waits, whatever turns, swaps, evictions, restarts and crashes do.
THEOREM LanesAreFIFO == Spec => []LaneFIFO
<1>1. Init => DeliveryInv /\ FIFOInv
    BY DeliveryInvInit, FIFOInvInit
<1>2. DeliveryInv /\ FIFOInv /\ [Next]_vars => DeliveryInv' /\ FIFOInv'
    BY DeliveryInvStep, FIFOInvStep
<1>3. DeliveryInv /\ FIFOInv => LaneFIFO
  <2> SUFFICES ASSUME DeliveryInv, FIFOInv, ~overtaken,
                      NEW i \in 1 .. Len(arrivals), NEW j \in 1 .. Len(arrivals),
                      i < j, arrivals[i].lane = arrivals[j].lane,
                      NEW q \in 1 .. Len(delivered), delivered[q] = arrivals[j].msg
               PROVE  arrivals[i].msg \in lost \/ \E p \in 1 .. q - 1 : delivered[p] = arrivals[i].msg
      BY DEF LaneFIFO
  <2>1. arrivals \in Seq([msg : Msg, lane : Lane])
      BY DEF DeliveryInv, TypeInv, TypeOK
  <2>2. arrivals[i].msg \in Msg /\ arrivals[j].msg \in Msg
    <3>1. arrivals[i] \in [msg : Msg, lane : Lane]
        BY <2>1, ElementOfSeq
    <3>2. arrivals[j] \in [msg : Msg, lane : Lane]
        BY <2>1, ElementOfSeq
    <3> QED  BY <3>1, <3>2
  <2>3. Before(arrivals[i].msg, arrivals[j].msg)
      BY DEF Before
  <2>4. After(delivered, arrivals[i].msg, arrivals[j].msg, lost)
      BY <2>2, <2>3 DEF FIFOInv, PassedInv
  <2> QED  BY <2>4 DEF After
<1> QED  BY <1>1, <1>2, <1>3, PTL DEF Spec
=============================================================================
