--------------------------- MODULE AutoWakeProofs ---------------------------
(***************************************************************************)
(* Theorems about the way of receipts and messages into a history, for any *)
(* number of sessions, items, turns, swaps and crashes.                    *)
(*                                                                         *)
(* NothingElseIsLost is inductive: no step but a purge or a crash takes an *)
(* item out of a session, and those put it into "gone".  InOrderOnce is    *)
(* not, since the receipts and the lane are drained at different times:    *)
(* OrderInv says of each pair of the three sequences which of them comes   *)
(* before the other.                                                       *)
(***************************************************************************)
EXTENDS AutoWake, TLAPS

\* The variables an item is in.
WaitingType ==
    /\ queue \in [Sessions -> Seq(Item)]
    /\ lane \in [Sessions -> Seq(Item)]
    /\ history \in [Sessions -> Seq(Item)]
    /\ gone \subseteq Item
    /\ items \in Nat

InstanceType ==
    /\ live \subseteq Sessions
    /\ busy \subseteq live
    /\ workers \in [Sessions -> Nat]

WakerType ==
    /\ loop \in [Sessions -> {"off", "awake", "parked"}]
    /\ bound \subseteq live
    /\ notified \subseteq Sessions

BoundType == inputs \in Nat /\ rebuilds \in Nat /\ crashes \in Nat

\* Types; a busy session has an instance, and a loop that listens has one.
TypeInv == WaitingType /\ InstanceType /\ WakerType /\ BoundType

-----------------------------------------------------------------------------
(* The steps, by what they do to the items *)

\* The items stay where they are.
Still == UNCHANGED <<waiting, items>>

\* Some queues went with their mailbox.
Purges ==
    /\ queue' \in [Sessions -> Seq(Item)]
    /\ \A t \in Sessions :
          \/ queue'[t] = queue[t]
          \/ queue'[t] = <<>> /\ Range(queue[t]) \subseteq gone'
    /\ gone \subseteq gone' /\ gone' \subseteq Item
    /\ UNCHANGED <<lane, history, items>>

\* The receipts of a session are shown.
Shows(s) ==
    /\ history' = [history EXCEPT ![s] = @ \o queue[s]]
    /\ queue' = [queue EXCEPT ![s] = <<>>]
    /\ UNCHANGED <<lane, gone, items>>

\* A receipt is sent.
Sends(s) ==
    /\ queue' = [queue EXCEPT ![s] = Append(@, [by |-> "worker", id |-> items + 1])]
    /\ items' = items + 1
    /\ UNCHANGED <<lane, history, gone>>

\* The user leaves a message.
Leaves(s) ==
    /\ lane' = [lane EXCEPT ![s] = Append(@, [by |-> "user", id |-> items + 1])]
    /\ items' = items + 1
    /\ UNCHANGED <<queue, history, gone>>

\* The items of a sequence are in it.
LEMMA RangeInItem ==
    ASSUME NEW q \in Seq(Item) PROVE Range(q) \subseteq Item
<1> SUFFICES ASSUME NEW m \in Range(q) PROVE m \in Item
    OBVIOUS
<1>1. PICK i \in DOMAIN q : m = q[i]
    BY DEF Range
<1> QED  BY <1>1

\* What a step does to the items is one of those.
LEMMA ItemSteps ==
    ASSUME TypeInv, [Next]_vars
    PROVE  \/ Still
           \/ Purges
           \/ \E s \in Sessions : \/ TurnStartDrains(s) /\ UNCHANGED items
                                  \/ Shows(s)
                                  \/ Sends(s)
                                  \/ Leaves(s)
<1>1. CASE UNCHANGED vars
    BY <1>1 DEF vars, counters, Still
<1>2. CASE Crash
  <2>1. \A t \in Sessions : Range(queue[t]) \subseteq Item
      BY RangeInItem DEF TypeInv, WaitingType
  <2>2. gone' = gone \cup UNION {Range(queue[t]) : t \in Sessions}
      BY <1>2 DEF Crash
  <2>3. gone' \subseteq Item /\ gone \subseteq gone'
      BY <2>1, <2>2 DEF TypeInv, WaitingType
  <2>4. \A t \in Sessions : Range(queue[t]) \subseteq gone'
      BY <2>2
  <2>5. <<>> \in Seq(Item)
      OBVIOUS
  <2>6. queue' \in [Sessions -> Seq(Item)] /\ \A t \in Sessions : queue'[t] = <<>>
      BY <1>2, <2>5 DEF Crash
  <2>7. Purges
      BY <1>2, <2>3, <2>4, <2>6 DEF Crash, Purges
  <2> QED  BY <2>7
<1>3. ASSUME NEW s \in Sessions, Evict(s) PROVE Purges
  <2>1. Range(queue[s]) \subseteq Item
      BY RangeInItem DEF TypeInv, WaitingType
  <2>2. gone' = gone \cup Range(queue[s])
      BY <1>3 DEF Evict
  <2>3. gone' \subseteq Item /\ gone \subseteq gone' /\ Range(queue[s]) \subseteq gone'
      BY <2>1, <2>2 DEF TypeInv, WaitingType
  <2>4. <<>> \in Seq(Item)
      OBVIOUS
  <2>5. queue' = [queue EXCEPT ![s] = <<>>]
      BY <1>3 DEF Evict
  <2>6. queue' \in [Sessions -> Seq(Item)]
      BY <2>4, <2>5 DEF TypeInv, WaitingType
  <2>7. \A t \in Sessions : queue'[t] = queue[t] \/ (t = s /\ queue'[t] = <<>>)
      BY <2>5 DEF TypeInv, WaitingType
  <2>8. UNCHANGED <<lane, history, items>>
      BY <1>3 DEF Evict, counters
  <2>9. \A t \in Sessions :
            queue'[t] = queue[t] \/ (queue'[t] = <<>> /\ Range(queue[t]) \subseteq gone')
      BY <2>3, <2>7
  <2> QED  BY <2>3, <2>6, <2>8, <2>9 DEF Purges
<1>4. ASSUME NEW s \in Sessions,
             \/ Ensure(s) \/ Rebuild(s) \/ EndTurn(s) \/ WorkerStarts(s) \/ Timer(s)
             \/ PassWaits(s) \/ PassFindsNothing(s) \/ PassRefused(s)
      PROVE  Still
    BY <1>4 DEF Ensure, Rebuild, Migrated, EndTurn, WorkerStarts, Timer, PassWaits,
                PassFindsNothing, PassRefused, Requeued, Still, waiting, counters
<1>5. ASSUME NEW s \in Sessions, StartTurn(s) \/ PassWakes(s)
      PROVE  TurnStartDrains(s) /\ UNCHANGED items
    BY <1>5 DEF StartTurn, PassWakes, counters
<1>6. ASSUME NEW s \in Sessions, StepDrains(s) PROVE Shows(s)
    BY <1>6 DEF StepDrains, Shows, counters
<1>7. ASSUME NEW s \in Sessions, WorkerSettles(s) PROVE Sends(s)
    BY <1>7 DEF WorkerSettles, Sends
<1>8. ASSUME NEW s \in Sessions, Inject(s) PROVE Leaves(s)
    BY <1>8 DEF Inject, Leaves
<1> QED  BY <1>1, <1>2, <1>3, <1>4, <1>5, <1>6, <1>7, <1>8 DEF Next, Pass

-----------------------------------------------------------------------------
(* Types *)

\* The empty queue.
LEMMA EmptySeq == <<>> \in Seq(Item) /\ DOMAIN <<>> = {}
OBVIOUS

\* A sequence of items grows by one.
LEMMA AppendItem ==
    ASSUME NEW q \in Seq(Item), NEW m \in Item
    PROVE  /\ Append(q, m) \in Seq(Item)
           /\ DOMAIN Append(q, m) = 1 .. Len(q) + 1 /\ DOMAIN q = 1 .. Len(q) /\ Len(q) \in Nat
           /\ Append(q, m)[Len(q) + 1] = m
           /\ \A i \in DOMAIN q : Append(q, m)[i] = q[i]
OBVIOUS

\* Two sequences of items one after the other.
LEMMA Concat ==
    ASSUME NEW a \in Seq(Item), NEW b \in Seq(Item)
    PROVE  /\ a \o b \in Seq(Item)
           /\ DOMAIN (a \o b) = 1 .. Len(a) + Len(b)
           /\ DOMAIN a = 1 .. Len(a) /\ DOMAIN b = 1 .. Len(b)
           /\ Len(a) \in Nat /\ Len(b) \in Nat
           /\ \A i \in 1 .. Len(a) : (a \o b)[i] = a[i]
           /\ \A i \in 1 .. Len(b) : (a \o b)[Len(a) + i] = b[i]
           /\ \A i \in Len(a) + 1 .. Len(a) + Len(b) :
                  i - Len(a) \in 1 .. Len(b) /\ (a \o b)[i] = b[i - Len(a)]
OBVIOUS

\* The item that is made next carries the next number.
LEMMA NextItem ==
    ASSUME items \in Nat, NEW who \in {"worker", "user"}
    PROVE  /\ [by |-> who, id |-> items + 1] \in Item
           /\ [by |-> who, id |-> items + 1].by = who
           /\ [by |-> who, id |-> items + 1].id = items + 1
BY DEF Item

\* What the steps leave in the three sequences of a session.
LEMMA WaitingTypeStep == ASSUME TypeInv, [Next]_vars PROVE WaitingType'
<1> USE DEF TypeInv, WaitingType
<1>1. CASE Still
    BY <1>1 DEF Still, waiting
<1>2. CASE Purges
    BY <1>2 DEF Purges
<1>3. ASSUME NEW s \in Sessions, TurnStartDrains(s), UNCHANGED items PROVE WaitingType'
  <2>1. history[s] \o lane[s] \in Seq(Item)
      BY Concat
  <2>2. (history[s] \o lane[s]) \o queue[s] \in Seq(Item)
      BY <2>1, Concat
  <2> QED  BY <1>3, <2>2, EmptySeq DEF TurnStartDrains
<1>4. ASSUME NEW s \in Sessions, Shows(s) PROVE WaitingType'
  <2>1. history[s] \o queue[s] \in Seq(Item)
      BY Concat
  <2> QED  BY <1>4, <2>1, EmptySeq DEF Shows
<1>5. ASSUME NEW s \in Sessions, Sends(s) PROVE WaitingType'
  <2>1. Append(queue[s], [by |-> "worker", id |-> items + 1]) \in Seq(Item)
      BY AppendItem, NextItem
  <2>2. items' \in Nat
      BY <1>5 DEF Sends
  <2> QED  BY <1>5, <2>1, <2>2 DEF Sends
<1>6. ASSUME NEW s \in Sessions, Leaves(s) PROVE WaitingType'
  <2>1. Append(lane[s], [by |-> "user", id |-> items + 1]) \in Seq(Item)
      BY AppendItem, NextItem
  <2>2. items' \in Nat
      BY <1>6 DEF Leaves
  <2> QED  BY <1>6, <2>1, <2>2 DEF Leaves
<1> QED  BY <1>1, <1>2, <1>3, <1>4, <1>5, <1>6, ItemSteps

\* The instances, their turns and their workers.
LEMMA InstanceTypeStep == ASSUME TypeInv, [Next]_vars PROVE InstanceType'
<1> USE DEF TypeInv, InstanceType
<1>1. CASE UNCHANGED vars
    BY <1>1 DEF vars
<1>2. CASE Crash
    BY <1>2 DEF Crash
<1>3. ASSUME NEW s \in Sessions, Ensure(s) \/ Evict(s) PROVE InstanceType'
    BY <1>3 DEF Ensure, Evict, Idle
<1>4. ASSUME NEW s \in Sessions, StartTurn(s) \/ PassWakes(s) \/ EndTurn(s) PROVE InstanceType'
    BY <1>4 DEF StartTurn, PassWakes, EndTurn, Idle
<1>5. ASSUME NEW s \in Sessions, WorkerStarts(s) \/ WorkerSettles(s) PROVE InstanceType'
  <2>1. workers' \in [Sessions -> Nat]
      BY <1>5 DEF WorkerStarts, WorkerSettles
  <2>2. UNCHANGED <<live, busy>>
      BY <1>5 DEF WorkerStarts, WorkerSettles
  <2> QED  BY <2>1, <2>2
<1>6. ASSUME NEW s \in Sessions,
             \/ Rebuild(s) \/ StepDrains(s) \/ Inject(s) \/ Timer(s)
             \/ PassWaits(s) \/ PassFindsNothing(s) \/ PassRefused(s)
      PROVE  InstanceType'
    BY <1>6 DEF Rebuild, StepDrains, Inject, Timer, PassWaits, PassFindsNothing, PassRefused
<1> QED  BY <1>1, <1>2, <1>3, <1>4, <1>5, <1>6 DEF Next, Pass

\* The loops; only one with an instance listens.
LEMMA WakerTypeStep == ASSUME TypeInv, [Next]_vars PROVE WakerType'
<1> USE DEF TypeInv, WakerType
<1>1. CASE UNCHANGED vars
    BY <1>1 DEF vars, waker
<1>2. CASE Crash
    BY <1>2 DEF Crash
<1>3. ASSUME NEW s \in Sessions, Ensure(s) \/ Evict(s) \/ Rebuild(s) PROVE WakerType'
    BY <1>3 DEF Ensure, Evict, Rebuild
<1>4. ASSUME NEW s \in Sessions,
             StartTurn(s) \/ StepDrains(s) \/ EndTurn(s) \/ WorkerStarts(s) \/ Inject(s)
      PROVE  WakerType'
    BY <1>4 DEF StartTurn, StepDrains, EndTurn, WorkerStarts, Inject, waker
<1>5. ASSUME NEW s \in Sessions, WorkerSettles(s) PROVE WakerType'
    BY <1>5 DEF WorkerSettles, Notify
<1>6. ASSUME NEW s \in Sessions, Pass(s) PROVE WakerType'
    BY <1>6 DEF Pass, PassWaits, PassFindsNothing, PassWakes, PassRefused, Park, Idle, InstanceType
<1>7. ASSUME NEW s \in Sessions, Timer(s) PROVE WakerType'
    BY <1>7 DEF Timer
<1> QED  BY <1>1, <1>2, <1>3, <1>4, <1>5, <1>6, <1>7 DEF Next

\* The counters that bound a run stay numbers.
LEMMA BoundTypeStep == ASSUME TypeInv, [Next]_vars PROVE BoundType'
<1> USE DEF TypeInv, BoundType
<1>1. CASE UNCHANGED vars \/ Crash
    BY <1>1 DEF vars, counters, Crash
<1>2. ASSUME NEW s \in Sessions,
             \/ Ensure(s) \/ Evict(s) \/ StepDrains(s) \/ EndTurn(s) \/ WorkerStarts(s) \/ Timer(s)
             \/ WorkerSettles(s) \/ Inject(s)
      PROVE  BoundType'
    BY <1>2 DEF Ensure, Evict, StepDrains, EndTurn, WorkerStarts, Timer, WorkerSettles, Inject, counters
<1>4. ASSUME NEW s \in Sessions, Rebuild(s) \/ StartTurn(s) PROVE BoundType'
  <2>1. inputs' \in Nat
      BY <1>4 DEF Rebuild, StartTurn
  <2>2. rebuilds' \in Nat
      BY <1>4 DEF Rebuild, StartTurn
  <2>3. crashes' \in Nat
      BY <1>4 DEF Rebuild, StartTurn
  <2> QED  BY <2>1, <2>2, <2>3
<1>3. ASSUME NEW s \in Sessions, Pass(s) PROVE BoundType'
    BY <1>3 DEF Pass, PassWaits, PassFindsNothing, PassWakes, PassRefused, counters
<1> QED  BY <1>1, <1>2, <1>3, <1>4 DEF Next

\* Every step keeps the types.
LEMMA TypeStep == ASSUME TypeInv, [Next]_vars PROVE TypeInv'
BY WaitingTypeStep, InstanceTypeStep, WakerTypeStep, BoundTypeStep DEF TypeInv

\* The types hold at the start.
LEMMA TypeInit == Init => TypeInv
<1> SUFFICES ASSUME Init PROVE TypeInv
    OBVIOUS
<1>1. WaitingType
    BY EmptySeq DEF Init, WaitingType
<1>2. InstanceType
    BY DEF Init, InstanceType
<1>3. WakerType
    BY DEF Init, WakerType
<1>4. BoundType
    BY DEF Init, BoundType
<1> QED  BY <1>1, <1>2, <1>3, <1>4 DEF TypeInv

\* Type correctness, for every bound: a busy session has an instance, and a
\* loop that listens to a mailbox listens to the one of an instance.
THEOREM AutoWakeTypeInv == Spec => []TypeInv
<1>1. TypeInv /\ [Next]_vars => TypeInv'
    BY TypeStep
<1> QED  BY <1>1, TypeInit, PTL DEF Spec

-----------------------------------------------------------------------------
(* Nothing is lost *)

\* The items a session has.
Has(s) == Range(queue[s] \o lane[s] \o history[s])

\* The items of two queues in a row.
LEMMA RangeConcat ==
    ASSUME NEW a \in Seq(Item), NEW b \in Seq(Item) PROVE Range(a \o b) = Range(a) \cup Range(b)
<1>1. ASSUME NEW m \in Range(a \o b) PROVE m \in Range(a) \cup Range(b)
  <2>1. PICK i \in DOMAIN (a \o b) : m = (a \o b)[i]
      BY <1>1 DEF Range
  <2>2. i \in 1 .. Len(a) \/ i \in Len(a) + 1 .. Len(a) + Len(b)
      BY <2>1, Concat
  <2>3. CASE i \in 1 .. Len(a)
      BY <2>1, <2>3, Concat DEF Range
  <2>4. CASE i \in Len(a) + 1 .. Len(a) + Len(b)
      BY <2>1, <2>4, Concat DEF Range
  <2> QED  BY <2>2, <2>3, <2>4
<1>2. ASSUME NEW m \in Range(a) PROVE m \in Range(a \o b)
  <2>1. PICK i \in 1 .. Len(a) : m = a[i]
      BY <1>2, Concat DEF Range
  <2>2. i \in DOMAIN (a \o b) /\ (a \o b)[i] = m
      BY <2>1, Concat
  <2> QED  BY <2>2 DEF Range
<1>3. ASSUME NEW m \in Range(b) PROVE m \in Range(a \o b)
  <2>1. PICK i \in 1 .. Len(b) : m = b[i]
      BY <1>3, Concat DEF Range
  <2>2. Len(a) + i \in DOMAIN (a \o b) /\ (a \o b)[Len(a) + i] = m
      BY <2>1, Concat
  <2> QED  BY <2>2 DEF Range
<1> QED  BY <1>1, <1>2, <1>3

\* The items of a queue with one more.
LEMMA RangeAppend ==
    ASSUME NEW q \in Seq(Item), NEW m \in Item PROVE Range(Append(q, m)) = Range(q) \cup {m}
<1>1. ASSUME NEW x \in Range(Append(q, m)) PROVE x \in Range(q) \cup {m}
  <2>1. PICK i \in 1 .. Len(q) + 1 : x = Append(q, m)[i]
      BY <1>1, AppendItem DEF Range
  <2>2. i \in DOMAIN q \/ i = Len(q) + 1
      BY AppendItem
  <2>3. CASE i \in DOMAIN q
      BY <2>1, <2>3, AppendItem DEF Range
  <2>4. CASE i = Len(q) + 1
      BY <2>1, <2>4, AppendItem
  <2> QED  BY <2>2, <2>3, <2>4
<1>2. ASSUME NEW x \in Range(q) PROVE x \in Range(Append(q, m))
  <2>1. PICK i \in DOMAIN q : x = q[i]
      BY <1>2 DEF Range
  <2>2. i \in DOMAIN Append(q, m) /\ Append(q, m)[i] = x
      BY <2>1, AppendItem
  <2> QED  BY <2>2 DEF Range
<1>3. m \in Range(Append(q, m))
  <2>1. Len(q) + 1 \in DOMAIN Append(q, m) /\ Append(q, m)[Len(q) + 1] = m
      BY AppendItem
  <2> QED  BY <2>1 DEF Range
<1> QED  BY <1>1, <1>2, <1>3

\* The items on the whole way of a session.
LEMMA RangeOfWay ==
    ASSUME NEW q \in Seq(Item), NEW l \in Seq(Item), NEW h \in Seq(Item)
    PROVE  Range(q \o l \o h) = Range(q) \cup Range(l) \cup Range(h)
<1>1. q \o l \in Seq(Item)
    BY Concat
<1>2. Range(q \o l) = Range(q) \cup Range(l)
    BY RangeConcat
<1>3. Range((q \o l) \o h) = Range(q \o l) \cup Range(h)
    BY <1>1, RangeConcat
<1> QED  BY <1>2, <1>3

\* A session has what is in its queue, its lane or its history.
LEMMA HasIs ==
    ASSUME WaitingType, NEW s \in Sessions
    PROVE  Has(s) = Range(queue[s]) \cup Range(lane[s]) \cup Range(history[s])
BY RangeOfWay DEF Has, WaitingType

\* The same after a step.
LEMMA HasIsNext ==
    ASSUME WaitingType', NEW s \in Sessions
    PROVE  Has(s)' = Range(queue'[s]) \cup Range(lane'[s]) \cup Range(history'[s])
<1>1. queue'[s] \in Seq(Item) /\ lane'[s] \in Seq(Item) /\ history'[s] \in Seq(Item)
    BY DEF WaitingType
<1> QED  BY <1>1, RangeOfWay DEF Has

\* A sequence that is emptied has nothing.
LEMMA RangeEmpty == Range(<<>>) = {}
BY EmptySeq DEF Range

\* What a session has, it still has after a step, or it is gone.
LEMMA HasStays ==
    ASSUME TypeInv, [Next]_vars, NEW t \in Sessions PROVE Has(t) \subseteq Has(t)' \cup gone'
<1>1. WaitingType /\ WaitingType'
    BY WaitingTypeStep DEF TypeInv
<1>2. Has(t) = Range(queue[t]) \cup Range(lane[t]) \cup Range(history[t])
    BY <1>1, HasIs
<1>3. Has(t)' = Range(queue'[t]) \cup Range(lane'[t]) \cup Range(history'[t])
    BY <1>1, HasIsNext
<1>4. queue[t] \in Seq(Item) /\ lane[t] \in Seq(Item) /\ history[t] \in Seq(Item)
    BY <1>1 DEF WaitingType
<1>5. CASE Still
    BY <1>2, <1>3, <1>5 DEF Still, waiting
<1>6. CASE Purges
  <2>1. lane'[t] = lane[t] /\ history'[t] = history[t]
      BY <1>6 DEF Purges
  <2>2. Range(queue[t]) \subseteq Range(queue'[t]) \cup gone'
      BY <1>6 DEF Purges
  <2> QED  BY <1>2, <1>3, <2>1, <2>2
<1>7. ASSUME NEW s \in Sessions, TurnStartDrains(s) PROVE Has(t) \subseteq Has(t)' \cup gone'
  <2>1. CASE t = s
    <3>1. history'[t] = (history[t] \o lane[t]) \o queue[t]
        BY <1>1, <1>7, <2>1 DEF TurnStartDrains, WaitingType
    <3>2. history[t] \o lane[t] \in Seq(Item)
        BY <1>4, Concat
    <3>3. Range(history[t] \o lane[t]) = Range(history[t]) \cup Range(lane[t])
        BY <1>4, RangeConcat
    <3>4. Range((history[t] \o lane[t]) \o queue[t])
              = Range(history[t] \o lane[t]) \cup Range(queue[t])
        BY <1>4, <3>2, RangeConcat
    <3> QED  BY <1>2, <1>3, <3>1, <3>3, <3>4
  <2>2. CASE t # s
    <3>1. queue'[t] = queue[t] /\ lane'[t] = lane[t] /\ history'[t] = history[t]
        BY <1>1, <1>7, <2>2 DEF TurnStartDrains, WaitingType
    <3> QED  BY <1>2, <1>3, <3>1
  <2> QED  BY <2>1, <2>2
<1>8. ASSUME NEW s \in Sessions, Shows(s) PROVE Has(t) \subseteq Has(t)' \cup gone'
  <2>1. CASE t = s
    <3>1. history'[t] = history[t] \o queue[t] /\ lane'[t] = lane[t]
        BY <1>1, <1>8, <2>1 DEF Shows, WaitingType
    <3>2. Range(history[t] \o queue[t]) = Range(history[t]) \cup Range(queue[t])
        BY <1>4, RangeConcat
    <3> QED  BY <1>2, <1>3, <3>1, <3>2
  <2>2. CASE t # s
    <3>1. queue'[t] = queue[t] /\ lane'[t] = lane[t] /\ history'[t] = history[t]
        BY <1>1, <1>8, <2>2 DEF Shows, WaitingType
    <3> QED  BY <1>2, <1>3, <3>1
  <2> QED  BY <2>1, <2>2
<1>9. ASSUME NEW s \in Sessions, Sends(s) PROVE Has(t) \subseteq Has(t)' \cup gone'
  <2>1. lane'[t] = lane[t] /\ history'[t] = history[t]
      BY <1>9 DEF Sends
  <2> DEFINE new == [by |-> "worker", id |-> items + 1]
  <2>2. new \in Item
      BY <1>1, NextItem DEF WaitingType
  <2>3. queue'[t] = queue[t] \/ queue'[t] = Append(queue[t], new)
      BY <1>1, <1>9 DEF Sends, WaitingType
  <2> HIDE DEF new
  <2>4. Range(queue[t]) \subseteq Range(queue'[t])
    <3>1. Range(Append(queue[t], new)) = Range(queue[t]) \cup {new}
        BY <1>4, <2>2, RangeAppend
    <3> QED  BY <2>3, <3>1
  <2> QED  BY <1>2, <1>3, <2>1, <2>4
<1>10. ASSUME NEW s \in Sessions, Leaves(s) PROVE Has(t) \subseteq Has(t)' \cup gone'
  <2>1. queue'[t] = queue[t] /\ history'[t] = history[t]
      BY <1>10 DEF Leaves
  <2> DEFINE new == [by |-> "user", id |-> items + 1]
  <2>2. new \in Item
      BY <1>1, NextItem DEF WaitingType
  <2>3. lane'[t] = lane[t] \/ lane'[t] = Append(lane[t], new)
      BY <1>1, <1>10 DEF Leaves, WaitingType
  <2> HIDE DEF new
  <2>4. Range(lane[t]) \subseteq Range(lane'[t])
    <3>1. Range(Append(lane[t], new)) = Range(lane[t]) \cup {new}
        BY <1>4, <2>2, RangeAppend
    <3> QED  BY <2>3, <3>1
  <2> QED  BY <1>2, <1>3, <2>1, <2>4
<1> QED  BY <1>5, <1>6, <1>7, <1>8, <1>9, <1>10, ItemSteps

\* What is gone stays gone, and an item that is sent is in a session.
LEMMA ItemsArrive ==
    ASSUME TypeInv, [Next]_vars
    PROVE  /\ gone \subseteq gone'
           /\ \/ items' = items
              \/ /\ items' = items + 1
                 /\ \E s \in Sessions : \E m \in Has(s)' : m.id = items + 1
<1>1. WaitingType /\ WaitingType'
    BY WaitingTypeStep DEF TypeInv
<1>2. CASE Still
    BY <1>2 DEF Still, waiting
<1>3. CASE Purges
    BY <1>3 DEF Purges
<1>4. ASSUME NEW s \in Sessions, (TurnStartDrains(s) /\ UNCHANGED items) \/ Shows(s)
      PROVE  gone' = gone /\ items' = items
    BY <1>4 DEF TurnStartDrains, Shows
<1>5. ASSUME NEW s \in Sessions, Sends(s)
      PROVE  gone' = gone /\ items' = items + 1 /\ \E m \in Has(s)' : m.id = items + 1
  <2> DEFINE new == [by |-> "worker", id |-> items + 1]
  <2>1. new \in Item /\ new.id = items + 1
      BY <1>1, NextItem DEF WaitingType
  <2>2. queue[s] \in Seq(Item) /\ queue'[s] = Append(queue[s], new)
      BY <1>1, <1>5 DEF Sends, WaitingType
  <2>3. new \in Range(queue'[s])
      BY <2>1, <2>2, RangeAppend
  <2>4. Has(s)' = Range(queue'[s]) \cup Range(lane'[s]) \cup Range(history'[s])
      BY <1>1, HasIsNext
  <2> QED  BY <1>5, <2>1, <2>3, <2>4 DEF Sends
<1>6. ASSUME NEW s \in Sessions, Leaves(s)
      PROVE  gone' = gone /\ items' = items + 1 /\ \E m \in Has(s)' : m.id = items + 1
  <2> DEFINE new == [by |-> "user", id |-> items + 1]
  <2>1. new \in Item /\ new.id = items + 1
      BY <1>1, NextItem DEF WaitingType
  <2>2. lane[s] \in Seq(Item) /\ lane'[s] = Append(lane[s], new)
      BY <1>1, <1>6 DEF Leaves, WaitingType
  <2>3. new \in Range(lane'[s])
      BY <2>1, <2>2, RangeAppend
  <2>4. Has(s)' = Range(queue'[s]) \cup Range(lane'[s]) \cup Range(history'[s])
      BY <1>1, HasIsNext
  <2> QED  BY <1>6, <2>1, <2>3, <2>4 DEF Leaves
<1> QED  BY <1>2, <1>3, <1>4, <1>5, <1>6, ItemSteps

\* The item with a number is in a session, or gone.
Found(n) == (\E m \in gone : m.id = n) \/ \E s \in Sessions : \E m \in Has(s) : m.id = n

\* Nothing is lost when every number given out is found somewhere.
LEMMA NothingLostIs == NothingElseIsLost <=> \A n \in 1 .. items : Found(n)
BY DEF NothingElseIsLost, Found, Has

\* Every item that was sent is waiting or was shown, or its mailbox went away
\* with an evicted instance or the process, whatever is swapped, drained, woken
\* or refused (migrateReceipts, requeue).
THEOREM NothingElseIsEverLost == Spec => []NothingElseIsLost
<1>1. Init => NothingElseIsLost
    BY NothingLostIs DEF Init
<1>2. TypeInv /\ NothingElseIsLost /\ [Next]_vars => NothingElseIsLost'
  <2> SUFFICES ASSUME TypeInv, NothingElseIsLost, [Next]_vars PROVE NothingElseIsLost'
      OBVIOUS
  <2>1. \A n \in 1 .. items : Found(n)
      BY NothingLostIs
  <2>2. \A t \in Sessions : Has(t) \subseteq Has(t)' \cup gone'
      BY HasStays
  <2>3. gone \subseteq gone'
      BY ItemsArrive
  <2>4. ASSUME NEW n \in 1 .. items PROVE Found(n)'
      BY <2>1, <2>2, <2>3, <2>4 DEF Found
  <2>5. items \in Nat
      BY DEF TypeInv, WaitingType
  <2>6. items' = items \/ (items' = items + 1 /\ \A n : n = items + 1 => Found(n)')
      BY ItemsArrive DEF Found
  <2>7. ASSUME NEW n \in 1 .. items' PROVE Found(n)'
    <3>1. n \in 1 .. items \/ (items' = items + 1 /\ n = items + 1)
        BY <2>5, <2>6
    <3>2. CASE n \in 1 .. items
        BY <2>4, <3>2
    <3>3. CASE items' = items + 1 /\ n = items + 1
        BY <2>5, <2>6, <3>3
    <3> QED  BY <3>1, <3>2, <3>3
  <2>8. NothingElseIsLost' <=> \A n \in 1 .. items' : Found(n)'
      BY DEF NothingElseIsLost, Found, Has
  <2> QED  BY <2>7, <2>8
<1>3. TypeInv /\ [Next]_vars => TypeInv'
    BY TypeStep
<1> QED  BY <1>1, <1>2, <1>3, TypeInit, PTL DEF Spec

-----------------------------------------------------------------------------
(* In order, once *)

\* The items of a sequence that are by the same come in the order they were sent.
Ordered(q) ==
    \A i, j \in DOMAIN q : i < j /\ q[i].by = q[j].by => q[i].id < q[j].id

\* Those of one come before those of another by the same.
Precedes(p, q) ==
    \A i \in DOMAIN p, j \in DOMAIN q : p[i].by = q[j].by => p[i].id < q[j].id

OnlyBy(q, who) == \A i \in DOMAIN q : q[i].by = who
UpTo(q, n) == \A i \in DOMAIN q : q[i].id <= n

\* Two ordered queues, the first of which precedes the second, are ordered in a row.
LEMMA OrderedConcat ==
    ASSUME NEW a \in Seq(Item), NEW b \in Seq(Item), Ordered(a), Ordered(b), Precedes(a, b)
    PROVE  Ordered(a \o b)
<1> DEFINE ab == a \o b
<1>1. SUFFICES ASSUME NEW i \in DOMAIN ab, NEW j \in DOMAIN ab, i < j, ab[i].by = ab[j].by
               PROVE  ab[i].id < ab[j].id
    BY DEF Ordered
<1>2. /\ DOMAIN ab = 1 .. Len(a) + Len(b) /\ Len(a) \in Nat /\ Len(b) \in Nat
      /\ DOMAIN a = 1 .. Len(a) /\ DOMAIN b = 1 .. Len(b)
    BY Concat
<1>3. \A k \in 1 .. Len(a) : ab[k] = a[k]
    BY Concat
<1>4. \A k \in Len(a) + 1 .. Len(a) + Len(b) : k - Len(a) \in 1 .. Len(b) /\ ab[k] = b[k - Len(a)]
    BY Concat
<1> HIDE DEF ab
<1>5. CASE j \in 1 .. Len(a)
  <2>1. i \in 1 .. Len(a)
      BY <1>1, <1>2, <1>5
  <2> QED  BY <1>1, <1>2, <1>3, <1>5, <2>1 DEF Ordered
<1>6. CASE j \in Len(a) + 1 .. Len(a) + Len(b) /\ i \in 1 .. Len(a)
    BY <1>1, <1>2, <1>3, <1>4, <1>6 DEF Precedes
<1>7. CASE j \in Len(a) + 1 .. Len(a) + Len(b) /\ i \in Len(a) + 1 .. Len(a) + Len(b)
  <2> DEFINE m == i - Len(a)  n == j - Len(a)
  <2>1. m \in DOMAIN b /\ n \in DOMAIN b /\ ab[i] = b[m] /\ ab[j] = b[n]
      BY <1>2, <1>4, <1>7
  <2>2. m < n
      BY <1>1, <1>2, <1>7
  <2> HIDE DEF m, n
  <2> QED  BY <1>1, <2>1, <2>2 DEF Ordered
<1> QED  BY <1>1, <1>2, <1>5, <1>6, <1>7

\* A sequence between and after two others.
LEMMA PrecedesConcat ==
    ASSUME NEW a \in Seq(Item), NEW b \in Seq(Item), NEW c \in Seq(Item),
           Precedes(a, c), Precedes(b, c)
    PROVE  Precedes(a \o b, c)
<1> DEFINE ab == a \o b
<1>1. SUFFICES ASSUME NEW i \in DOMAIN ab, NEW j \in DOMAIN c, ab[i].by = c[j].by
               PROVE  ab[i].id < c[j].id
    BY DEF Precedes
<1>2. i \in 1 .. Len(a) \/ i \in Len(a) + 1 .. Len(a) + Len(b)
    BY Concat
<1>3. CASE i \in 1 .. Len(a)
  <2>1. i \in DOMAIN a /\ ab[i] = a[i]
      BY <1>3, Concat
  <2> HIDE DEF ab
  <2> QED  BY <1>1, <2>1 DEF Precedes
<1>4. CASE i \in Len(a) + 1 .. Len(a) + Len(b)
  <2>1. i - Len(a) \in DOMAIN b /\ ab[i] = b[i - Len(a)]
      BY <1>4, Concat
  <2> HIDE DEF ab
  <2> QED  BY <1>1, <2>1 DEF Precedes
<1> QED  BY <1>2, <1>3, <1>4

\* A bound of two queues bounds them in a row.
LEMMA UpToConcat ==
    ASSUME NEW a \in Seq(Item), NEW b \in Seq(Item), NEW n, UpTo(a, n), UpTo(b, n)
    PROVE  UpTo(a \o b, n)
<1> SUFFICES ASSUME NEW i \in DOMAIN (a \o b) PROVE (a \o b)[i].id <= n
    BY DEF UpTo
<1>1. i \in 1 .. Len(a) \/ i \in Len(a) + 1 .. Len(a) + Len(b)
    BY Concat
<1>2. CASE i \in 1 .. Len(a)
  <2>1. i \in DOMAIN a /\ (a \o b)[i] = a[i]
      BY <1>2, Concat
  <2> QED  BY <2>1 DEF UpTo
<1>3. CASE i \in Len(a) + 1 .. Len(a) + Len(b)
  <2>1. i - Len(a) \in DOMAIN b /\ (a \o b)[i] = b[i - Len(a)]
      BY <1>3, Concat
  <2> QED  BY <2>1 DEF UpTo
<1> QED  BY <1>1, <1>2, <1>3

\* Items are numbered by naturals.
LEMMA IdsAreNumbers == ASSUME NEW q \in Seq(Item) PROVE \A i \in DOMAIN q : q[i].id \in Nat
<1> SUFFICES ASSUME NEW i \in DOMAIN q PROVE q[i].id \in Nat
    OBVIOUS
<1>1. q[i] \in Item
    OBVIOUS
<1> QED  BY <1>1 DEF Item

\* A new item at the end of a sequence.
LEMMA NewestLast ==
    ASSUME NEW q \in Seq(Item), NEW n \in Nat, NEW m \in Item, m.id = n + 1,
           Ordered(q), UpTo(q, n), OnlyBy(q, m.by)
    PROVE  Ordered(Append(q, m)) /\ UpTo(Append(q, m), n + 1) /\ OnlyBy(Append(q, m), m.by)
<1> DEFINE qm == Append(q, m)
<1>1. /\ DOMAIN qm = 1 .. Len(q) + 1 /\ DOMAIN q = 1 .. Len(q) /\ Len(q) \in Nat
      /\ qm[Len(q) + 1] = m
      /\ \A i \in DOMAIN q : qm[i] = q[i]
    BY AppendItem
<1>2. \A i \in DOMAIN q : q[i].id \in Nat
    BY IdsAreNumbers
<1> HIDE DEF qm
<1>3. \A i \in DOMAIN qm : i \in DOMAIN q \/ i = Len(q) + 1
    BY <1>1
<1>4. UpTo(qm, n + 1)
    BY <1>1, <1>2, <1>3 DEF UpTo
<1>5. OnlyBy(qm, m.by)
    BY <1>1, <1>3 DEF OnlyBy
<1>6. ASSUME NEW i \in DOMAIN qm, NEW j \in DOMAIN qm, i < j, qm[i].by = qm[j].by
      PROVE  qm[i].id < qm[j].id
  <2>1. i \in DOMAIN q
      BY <1>1, <1>6
  <2>2. CASE j \in DOMAIN q
      BY <1>1, <1>6, <2>1, <2>2 DEF Ordered
  <2>3. CASE j = Len(q) + 1
    <3>1. q[i].id <= n /\ q[i].id \in Nat
        BY <1>2, <2>1 DEF UpTo
    <3>2. qm[i] = q[i] /\ qm[j] = m
        BY <1>1, <2>1, <2>3
    <3> QED  BY <3>1, <3>2
  <2> QED  BY <1>3, <2>2, <2>3
<1>7. Ordered(qm)
    BY <1>6 DEF Ordered
<1> QED  BY <1>4, <1>5, <1>7 DEF qm

\* What is older than a new item precedes a sequence that ends with it.
LEMMA NewestPreceded ==
    ASSUME NEW h \in Seq(Item), NEW q \in Seq(Item), NEW n \in Nat, NEW m \in Item, m.id = n + 1,
           Precedes(h, q), UpTo(h, n)
    PROVE  Precedes(h, Append(q, m))
<1> DEFINE qm == Append(q, m)
<1>1. /\ DOMAIN qm = 1 .. Len(q) + 1 /\ DOMAIN q = 1 .. Len(q) /\ Len(q) \in Nat
      /\ qm[Len(q) + 1] = m
      /\ \A i \in DOMAIN q : qm[i] = q[i]
    BY AppendItem
<1>2. \A i \in DOMAIN h : h[i].id \in Nat
    BY IdsAreNumbers
<1> HIDE DEF qm
<1>3. SUFFICES ASSUME NEW i \in DOMAIN h, NEW j \in DOMAIN qm, h[i].by = qm[j].by
               PROVE  h[i].id < qm[j].id
    BY DEF Precedes, qm
<1>4. j \in DOMAIN q \/ j = Len(q) + 1
    BY <1>1
<1>5. CASE j \in DOMAIN q
    BY <1>1, <1>3, <1>5 DEF Precedes
<1>6. CASE j = Len(q) + 1
  <2>1. h[i].id <= n /\ h[i].id \in Nat
      BY <1>2 DEF UpTo
  <2> QED  BY <1>1, <1>6, <2>1
<1> QED  BY <1>4, <1>5, <1>6

\* How the history, the lane and the queue of a session relate when n items
\* were sent: the lane holds what the user left and the queue what workers sent,
\* both after what was shown.
InOrder(h, l, q, n) ==
    /\ Ordered(h) /\ Ordered(l) /\ Ordered(q)
    /\ Precedes(h, l) /\ Precedes(h, q)
    /\ OnlyBy(l, "user") /\ OnlyBy(q, "worker")
    /\ UpTo(h, n) /\ UpTo(l, n) /\ UpTo(q, n)

\* Nothing is in any order.
LEMMA EmptyInOrder ==
    /\ Ordered(<<>>) /\ \A who : OnlyBy(<<>>, who)
    /\ \A n : UpTo(<<>>, n)
    /\ \A h : Precedes(h, <<>>)
<1>1. \A i : i \notin DOMAIN <<>>
    BY EmptySeq
<1> QED  BY <1>1 DEF Ordered, OnlyBy, UpTo, Precedes

\* The lane and the queue share no sender.
LEMMA Apart ==
    ASSUME NEW l, NEW q, OnlyBy(l, "user"), OnlyBy(q, "worker") PROVE Precedes(l, q) /\ Precedes(q, l)
BY DEF OnlyBy, Precedes

\* A session whose places are in order has one ordered way.
LEMMA WayInOrder ==
    ASSUME NEW h \in Seq(Item), NEW l \in Seq(Item), NEW q \in Seq(Item), NEW n, InOrder(h, l, q, n)
    PROVE  Ordered(h \o l \o q)
<1>1. Ordered(h \o l)
    BY OrderedConcat DEF InOrder
<1>2. h \o l \in Seq(Item)
    BY Concat
<1>3. Precedes(l, q)
    BY Apart DEF InOrder
<1>4. Precedes(h \o l, q)
    BY <1>3, PrecedesConcat DEF InOrder
<1>5. Ordered(q)
    BY DEF InOrder
<1> QED  BY <1>1, <1>2, <1>4, <1>5, OrderedConcat

\* The start of a turn shows all.
LEMMA AllShown ==
    ASSUME NEW h \in Seq(Item), NEW l \in Seq(Item), NEW q \in Seq(Item), NEW n, InOrder(h, l, q, n)
    PROVE  InOrder(h \o l \o q, <<>>, <<>>, n)
<1>1. Ordered(h \o l \o q)
    BY WayInOrder
<1>2. h \o l \in Seq(Item) /\ UpTo(h \o l, n)
    BY Concat, UpToConcat DEF InOrder
<1>3. UpTo((h \o l) \o q, n)
    BY <1>2, UpToConcat DEF InOrder
<1> QED  BY <1>1, <1>3, EmptyInOrder DEF InOrder

\* A step shows the receipts.
LEMMA QueueShown ==
    ASSUME NEW h \in Seq(Item), NEW l \in Seq(Item), NEW q \in Seq(Item), NEW n, InOrder(h, l, q, n)
    PROVE  InOrder(h \o q, l, <<>>, n)
<1>1. Ordered(h \o q) /\ UpTo(h \o q, n)
    BY OrderedConcat, UpToConcat DEF InOrder
<1>2. Precedes(q, l)
    BY Apart DEF InOrder
<1>3. Precedes(h \o q, l)
    BY <1>2, PrecedesConcat DEF InOrder
<1> QED  BY <1>1, <1>3, EmptyInOrder DEF InOrder

\* A queue that goes leaves the order of the rest.
LEMMA Purged ==
    ASSUME NEW h, NEW l, NEW q, NEW n, InOrder(h, l, q, n) PROVE InOrder(h, l, <<>>, n)
BY EmptyInOrder DEF InOrder

\* Elsewhere an item was sent.
LEMMA Later ==
    ASSUME NEW h \in Seq(Item), NEW l \in Seq(Item), NEW q \in Seq(Item), NEW n \in Nat,
           InOrder(h, l, q, n)
    PROVE  InOrder(h, l, q, n + 1)
<1>1. \A p \in Seq(Item) : UpTo(p, n) => UpTo(p, n + 1)
  <2> SUFFICES ASSUME NEW p \in Seq(Item), UpTo(p, n), NEW i \in DOMAIN p PROVE p[i].id <= n + 1
      BY DEF UpTo
  <2>1. p[i].id \in Nat /\ p[i].id <= n
      BY IdsAreNumbers DEF UpTo
  <2> QED  BY <2>1
<1> QED  BY <1>1 DEF InOrder

\* A receipt joins the end of the queue.
LEMMA Sent ==
    ASSUME NEW h \in Seq(Item), NEW l \in Seq(Item), NEW q \in Seq(Item), NEW n \in Nat,
           NEW m \in Item, m.by = "worker", m.id = n + 1, InOrder(h, l, q, n)
    PROVE  InOrder(h, l, Append(q, m), n + 1)
<1>1. InOrder(h, l, q, n + 1)
    BY Later
<1>2. Ordered(Append(q, m)) /\ UpTo(Append(q, m), n + 1) /\ OnlyBy(Append(q, m), "worker")
    BY NewestLast DEF InOrder
<1>3. Precedes(h, Append(q, m))
    BY NewestPreceded DEF InOrder
<1> QED  BY <1>1, <1>2, <1>3 DEF InOrder

\* A message of the user joins the end of the lane.
LEMMA Left ==
    ASSUME NEW h \in Seq(Item), NEW l \in Seq(Item), NEW q \in Seq(Item), NEW n \in Nat,
           NEW m \in Item, m.by = "user", m.id = n + 1, InOrder(h, l, q, n)
    PROVE  InOrder(h, Append(l, m), q, n + 1)
<1>1. InOrder(h, l, q, n + 1)
    BY Later
<1>2. Ordered(Append(l, m)) /\ UpTo(Append(l, m), n + 1) /\ OnlyBy(Append(l, m), "user")
    BY NewestLast DEF InOrder
<1>3. Precedes(h, Append(l, m))
    BY NewestPreceded DEF InOrder
<1> QED  BY <1>1, <1>2, <1>3 DEF InOrder

OrderInv == \A s \in Sessions : InOrder(history[s], lane[s], queue[s], items)

\* Every step keeps the order.
LEMMA OrderStep == ASSUME TypeInv, OrderInv, [Next]_vars PROVE OrderInv'
<1>1. WaitingType
    BY DEF TypeInv
<1>2. items \in Nat
    BY <1>1 DEF WaitingType
<1> SUFFICES ASSUME NEW t \in Sessions PROVE InOrder(history'[t], lane'[t], queue'[t], items')
    BY DEF OrderInv
<1>3. history[t] \in Seq(Item) /\ lane[t] \in Seq(Item) /\ queue[t] \in Seq(Item)
    BY <1>1 DEF WaitingType
<1>4. InOrder(history[t], lane[t], queue[t], items)
    BY DEF OrderInv
<1>5. InOrder(history[t], lane[t], queue[t], items + 1)
    BY <1>2, <1>3, <1>4, Later
<1>6. CASE Still
    BY <1>4, <1>6 DEF Still, waiting
<1>7. CASE Purges
  <2>1. InOrder(history[t], lane[t], <<>>, items)
      BY <1>4, Purged
  <2> QED  BY <1>4, <1>7, <2>1 DEF Purges
<1>8. ASSUME NEW s \in Sessions, TurnStartDrains(s), UNCHANGED items
      PROVE  InOrder(history'[t], lane'[t], queue'[t], items')
  <2>1. CASE t = s
    <3>1. history'[t] = history[t] \o lane[t] \o queue[t] /\ lane'[t] = <<>> /\ queue'[t] = <<>>
        BY <1>1, <1>8, <2>1 DEF TurnStartDrains, WaitingType
    <3> QED  BY <1>3, <1>4, <1>8, <3>1, AllShown
  <2>2. CASE t # s
    <3>1. history'[t] = history[t] /\ lane'[t] = lane[t] /\ queue'[t] = queue[t]
        BY <1>1, <1>8, <2>2 DEF TurnStartDrains, WaitingType
    <3> QED  BY <1>4, <1>8, <3>1
  <2> QED  BY <2>1, <2>2
<1>9. ASSUME NEW s \in Sessions, Shows(s) PROVE InOrder(history'[t], lane'[t], queue'[t], items')
  <2>1. CASE t = s
    <3>1. /\ history'[t] = history[t] \o queue[t] /\ lane'[t] = lane[t] /\ queue'[t] = <<>>
          /\ items' = items
        BY <1>1, <1>9, <2>1 DEF Shows, WaitingType
    <3> QED  BY <1>3, <1>4, <3>1, QueueShown
  <2>2. CASE t # s
    <3>1. /\ history'[t] = history[t] /\ lane'[t] = lane[t] /\ queue'[t] = queue[t]
          /\ items' = items
        BY <1>1, <1>9, <2>2 DEF Shows, WaitingType
    <3> QED  BY <1>4, <3>1
  <2> QED  BY <2>1, <2>2
<1>10. ASSUME NEW s \in Sessions, Sends(s) PROVE InOrder(history'[t], lane'[t], queue'[t], items')
  <2> DEFINE m == [by |-> "worker", id |-> items + 1]
  <2>1. m \in Item /\ m.by = "worker" /\ m.id = items + 1
      BY <1>2, NextItem
  <2>2. history'[t] = history[t] /\ lane'[t] = lane[t] /\ items' = items + 1
      BY <1>10 DEF Sends
  <2>3. queue'[t] = queue[t] \/ queue'[t] = Append(queue[t], m)
      BY <1>1, <1>10 DEF Sends, WaitingType
  <2> HIDE DEF m
  <2>4. InOrder(history[t], lane[t], Append(queue[t], m), items + 1)
      BY <1>2, <1>3, <1>4, <2>1, Sent
  <2> QED  BY <1>5, <2>2, <2>3, <2>4
<1>11. ASSUME NEW s \in Sessions, Leaves(s) PROVE InOrder(history'[t], lane'[t], queue'[t], items')
  <2> DEFINE m == [by |-> "user", id |-> items + 1]
  <2>1. m \in Item /\ m.by = "user" /\ m.id = items + 1
      BY <1>2, NextItem
  <2>2. history'[t] = history[t] /\ queue'[t] = queue[t] /\ items' = items + 1
      BY <1>11 DEF Leaves
  <2>3. lane'[t] = lane[t] \/ lane'[t] = Append(lane[t], m)
      BY <1>1, <1>11 DEF Leaves, WaitingType
  <2> HIDE DEF m
  <2>4. InOrder(history[t], Append(lane[t], m), queue[t], items + 1)
      BY <1>2, <1>3, <1>4, <2>1, Left
  <2> QED  BY <1>5, <2>2, <2>3, <2>4
<1> QED  BY <1>6, <1>7, <1>8, <1>9, <1>10, <1>11, ItemSteps

\* What the workers of a session report, and what its user leaves, reaches the
\* history in the order it was sent and no more than once, however the drains of
\* turn starts, steps and wakes interleave with swaps and evictions.
THEOREM AlwaysInOrderOnce == Spec => []InOrderOnce
<1>1. Init => OrderInv
    BY EmptyInOrder DEF Init, OrderInv, InOrder
<1>2. TypeInv /\ OrderInv /\ [Next]_vars => OrderInv'
    BY OrderStep
<1>3. TypeInv /\ OrderInv => InOrderOnce
  <2> SUFFICES ASSUME TypeInv, OrderInv, NEW s \in Sessions
               PROVE  Ordered(history[s] \o lane[s] \o queue[s])
      BY DEF InOrderOnce, Ordered
  <2>1. history[s] \in Seq(Item) /\ lane[s] \in Seq(Item) /\ queue[s] \in Seq(Item)
      BY DEF TypeInv, WaitingType
  <2> QED  BY <2>1, WayInOrder DEF OrderInv
<1>4. TypeInv /\ [Next]_vars => TypeInv'
    BY TypeStep
<1> QED  BY <1>1, <1>2, <1>3, <1>4, TypeInit, PTL DEF Spec

=============================================================================
