------------------------------- MODULE StudioBus -------------------------------
(***************************************************************************)
(* The buffer that the event stream keeps for one subscriber               *)
(* (apps/studio/src/sse.ts, SessionBuckets): one queue in the order of     *)
(* emission, with a share of it for every session.  A session that fills   *)
(* its share loses what it has in the queue, and a marker says how much.   *)
(* A frame is a record with its session, its kind and a number n.          *)
(***************************************************************************)
EXTENDS Naturals, SequencesExt

CONSTANTS
    BusCapacity,  \* SSE_BUS_CAPACITY
    MinBucket     \* MIN_BUCKET_CAPACITY

ASSUME StudioBusAssumption ==
    /\ BusCapacity \in Nat \ {0}
    /\ MinBucket \in 1..BusCapacity

(* sessions: those that this subscriber has ever been sent a frame of. *)
EmptyBuckets == [frames |-> <<>>, sessions |-> {}]

LaggedMarker(s, dropped) == [session |-> s, kind |-> "lagged", n |-> dropped]

(* The frames of these sessions, in their order. *)
Part(frames, sessions) ==
    LET from[i \in 0..Len(frames)] ==
            IF i = 0 THEN <<>>
            ELSE IF frames[i].session \in sessions THEN Append(from[i - 1], frames[i])
            ELSE from[i - 1]
    IN from[Len(frames)]

OwnFrames(buckets, s) == Part(buckets.frames, {s})

BucketCap(buckets) ==
    Max({MinBucket, BusCapacity \div Max({1, Cardinality(buckets.sessions)})})

Overflows(buckets, s) == Len(OwnFrames(buckets, s)) >= BucketCap(buckets)

DropBucket(buckets, s) == Part(buckets.frames, buckets.sessions \ {s})

(* mutant: one overflow empties the whole queue, as the bus without shares did *)
PushDropsAll(buckets, frame) ==
    LET s == frame.session
    IN [frames |->
          IF Overflows(buckets, s)
          THEN << LaggedMarker(s, Len(buckets.frames) + 1) >>
          ELSE Append(buckets.frames, frame),
        sessions |-> buckets.sessions \cup {s}]

Push(buckets, frame) ==
    LET s == frame.session
    IN [frames |->
          IF Overflows(buckets, s)
          THEN Append(DropBucket(buckets, s),
                      LaggedMarker(s, Len(OwnFrames(buckets, s)) + 1))
          ELSE Append(buckets.frames, frame),
        sessions |-> buckets.sessions \cup {s}]

Shift(buckets) == [buckets EXCEPT !.frames = Tail(buckets.frames)]
=============================================================================
