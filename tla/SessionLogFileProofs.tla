------------------------ MODULE SessionLogFileProofs ------------------------
(***************************************************************************)
(* What holds of the files of a log for every bound on turns, segments,    *)
(* faults and crashes and any number of compactions at once: a restart     *)
(* reads what was shown, what was written is read back or told of, ids     *)
(* increase.                                                               *)
(*                                                                         *)
(* As long as no write was cut short every row of every file is readable   *)
(* and of a turn that has begun (FilesInv); the replay is then the files   *)
(* one after the other, and opening a log changes none of them.  On that   *)
(* rest one invariant for each promise: MirrorInv, WrittenInv and IdsInv.  *)
(***************************************************************************)
EXTENDS SessionLogFile, SequenceTheorems, WellFoundedInduction, TLAPS

-----------------------------------------------------------------------------
(* Numbers and sequences *)

\* Induction over the naturals, from a least counterexample.
LEMMA CountingUp ==
    ASSUME NEW P, 0 \in P, \A n \in Nat : n \in P => n + 1 \in P
    PROVE  Nat \subseteq P
<1> SUFFICES ASSUME Nat \ P # {} PROVE FALSE
    OBVIOUS
<1>1. IsWellFoundedOn(OpToRel(<, Nat), Nat)
    BY NatLessThanWellFounded
<1>2. PICK x \in Nat \ P : \A y \in Nat \ P : <<y, x>> \notin OpToRel(<, Nat)
    BY <1>1, WFMin
<1>3. x # 0 /\ x \in Nat
    BY <1>2
<1>4. x - 1 \in Nat /\ (x - 1) + 1 = x
    BY <1>3
<1>5. <<x - 1, x>> \in OpToRel(<, Nat)
    BY <1>3, <1>4 DEF OpToRel
<1> QED  BY <1>2, <1>4, <1>5

\* The sequences over a set are built from the empty one by appending.
LEMMA Appending ==
    ASSUME NEW T, NEW P, <<>> \in P,
           \A s \in Seq(T), x \in T : s \in P => Append(s, x) \in P
    PROVE  Seq(T) \subseteq P
<1> DEFINE Q == {n \in Nat : \A s \in Seq(T) : Len(s) = n => s \in P}
<1>1. 0 \in Q
    BY EmptySeq
<1>2. ASSUME NEW n \in Nat, n \in Q PROVE n + 1 \in Q
  <2> SUFFICES ASSUME NEW s \in Seq(T), Len(s) = n + 1 PROVE s \in P
      OBVIOUS
  <2>1. PICK r \in Seq(T), x \in T : s = Append(r, x)
      BY EmptySeq, SequenceEmptyOrAppend
  <2>2. Len(r) = n
      BY <2>1, AppendProperties, LenProperties
  <2> QED  BY <1>2, <2>1, <2>2
<1> HIDE DEF Q
<1>3. Nat \subseteq Q
    BY <1>1, <1>2, CountingUp
<1> QED  BY <1>3, LenProperties DEF Q

\* A function on 0..n of which each value is a step from the one before.
Iterates(f, n, first, step) ==
    \A i \in 0 .. n : f[i] = IF i = 0 THEN first ELSE step[i][f[i - 1]]

\* There is one.
LEMMA IterationExists ==
    ASSUME NEW n \in Nat, NEW V, NEW first \in V, NEW step \in [1 .. n -> [V -> V]]
    PROVE  \E f \in [0 .. n -> V] : Iterates(f, n, first, step)
<1> DEFINE P == {m \in Nat : m <= n => \E f \in [0 .. m -> V] : Iterates(f, m, first, step)}
<1>1. 0 \in P
  <2>1. /\ [i \in 0 .. 0 |-> first] \in [0 .. 0 -> V]
        /\ Iterates([i \in 0 .. 0 |-> first], 0, first, step)
      BY DEF Iterates
  <2> QED  BY <2>1
<1>2. ASSUME NEW m \in Nat, m \in P PROVE m + 1 \in P
  <2> SUFFICES ASSUME m + 1 <= n
               PROVE  \E f \in [0 .. m + 1 -> V] : Iterates(f, m + 1, first, step)
      OBVIOUS
  <2>1. PICK f \in [0 .. m -> V] : Iterates(f, m, first, step)
      BY <1>2
  <2> DEFINE g == [i \in 0 .. m + 1 |-> IF i <= m THEN f[i] ELSE step[m + 1][f[m]]]
  <2>2. step[m + 1][f[m]] \in V
      BY <2>1
  <2>3. g \in [0 .. m + 1 -> V]
      BY <2>1, <2>2
  <2>4. \A i \in 0 .. m : g[i] = f[i]
      OBVIOUS
  <2>5. g[m + 1] = step[m + 1][f[m]]
      OBVIOUS
  <2> HIDE DEF g
  <2>6. ASSUME NEW i \in 0 .. m + 1
        PROVE  g[i] = IF i = 0 THEN first ELSE step[i][g[i - 1]]
    <3>1. CASE i = 0
        BY <2>1, <2>4, <3>1 DEF Iterates
    <3>2. CASE i # 0 /\ i <= m
      <4>1. i - 1 \in 0 .. m /\ i \in 0 .. m
          BY <3>2
      <4> QED  BY <2>1, <2>4, <3>2, <4>1 DEF Iterates
    <3>3. CASE i = m + 1
        BY <2>4, <2>5, <3>3
    <3> QED  BY <3>1, <3>2, <3>3
  <2> QED  BY <2>3, <2>6 DEF Iterates
<1> HIDE DEF P
<1>3. n \in P
    BY <1>1, <1>2, CountingUp
<1> QED  BY <1>3 DEF P

-----------------------------------------------------------------------------
(* The files one after the other *)

\* The recursive function of Stream.
IsStream(s, f) ==
    f = [i \in 0 .. Len(s) |-> IF i = 0 THEN <<>> ELSE f[i - 1] \o s[i]]

\* It exists, and its values are rows.
LEMMA StreamFunction ==
    ASSUME NEW T, NEW s \in Seq(Seq(T))
    PROVE  \E f \in [0 .. Len(s) -> Seq(T)] : IsStream(s, f)
<1> DEFINE step == [i \in 1 .. Len(s) |-> [v \in Seq(T) |-> v \o s[i]]]
<1>1. Len(s) \in Nat /\ s \in [1 .. Len(s) -> Seq(T)] /\ <<>> \in Seq(T)
    BY LenProperties, EmptySeq
<1>2. ASSUME NEW x \in Seq(T), NEW v \in Seq(T)
      PROVE  v \o x \in Seq(T)
    BY ConcatProperties
<1>3. step \in [1 .. Len(s) -> [Seq(T) -> Seq(T)]]
    BY <1>1, <1>2
<1>4. ASSUME NEW i \in 1 .. Len(s), NEW v \in Seq(T)
      PROVE  step[i][v] = v \o s[i]
    OBVIOUS
<1> HIDE DEF step
<1>5. PICK f \in [0 .. Len(s) -> Seq(T)] : Iterates(f, Len(s), <<>>, step)
    BY <1>1, <1>3, IterationExists
<1>6. ASSUME NEW i \in 0 .. Len(s)
      PROVE  f[i] = IF i = 0 THEN <<>> ELSE f[i - 1] \o s[i]
  <2>1. CASE i = 0
      BY <2>1, <1>5 DEF Iterates
  <2>2. CASE i # 0
    <3>1. i \in 1 .. Len(s) /\ i - 1 \in 0 .. Len(s)
        BY <2>2, <1>1
    <3>2. f[i - 1] \in Seq(T)
        BY <3>1, <1>5
    <3>3. step[i][f[i - 1]] = f[i - 1] \o s[i]
        BY <3>1, <3>2, <1>4
    <3> QED  BY <3>3, <2>2, <1>5 DEF Iterates
  <2> QED  BY <2>1, <2>2
<1>7. IsStream(s, f)
    BY <1>5, <1>6 DEF IsStream
<1> QED  BY <1>5, <1>7

\* It depends on no later element.
LEMMA StreamIsLocal ==
    ASSUME NEW T, NEW s \in Seq(Seq(T)), NEW t \in Seq(Seq(T)), NEW f, NEW g,
           Len(s) <= Len(t), \A i \in 1 .. Len(s) : s[i] = t[i],
           IsStream(s, f), IsStream(t, g)
    PROVE  f[Len(s)] = g[Len(s)]
<1> DEFINE P == {n \in Nat : n <= Len(s) => f[n] = g[n]}
<1>1. Len(s) \in Nat /\ Len(t) \in Nat
    BY LenProperties
<1>2. /\ \A i \in 0 .. Len(s) : f[i] = IF i = 0 THEN <<>> ELSE f[i - 1] \o s[i]
      /\ \A i \in 0 .. Len(t) : g[i] = IF i = 0 THEN <<>> ELSE g[i - 1] \o t[i]
    BY DEF IsStream
<1>3. 0 \in P
    BY <1>1, <1>2
<1>4. ASSUME NEW n \in Nat, n \in P PROVE n + 1 \in P
  <2> SUFFICES ASSUME n + 1 <= Len(s) PROVE f[n + 1] = g[n + 1]
      OBVIOUS
  <2>1. f[n] = g[n] /\ s[n + 1] = t[n + 1] /\ (n + 1) - 1 = n /\ n + 1 # 0
      BY <1>1, <1>4
  <2>2. n + 1 \in 0 .. Len(s) /\ n + 1 \in 0 .. Len(t)
      BY <1>1
  <2> QED  BY <1>2, <2>1, <2>2
<1> HIDE DEF P
<1>5. Len(s) \in P
    BY <1>1, <1>3, <1>4, CountingUp
<1> QED  BY <1>5 DEF P

\* What Stream is of nothing, and of one element more.
LEMMA StreamStep ==
    ASSUME NEW T, NEW s \in Seq(Seq(T))
    PROVE  /\ Stream(s) \in Seq(T)
           /\ Stream(<<>>) = <<>>
           /\ \A x \in Seq(T) : Stream(Append(s, x)) = Stream(s) \o x
<1>1. \A q : Stream(q) = (CHOOSE f : IsStream(q, f))[Len(q)]
    BY DEF Stream, IsStream
<1>2. ASSUME NEW q \in Seq(Seq(T))
      PROVE  \E f \in [0 .. Len(q) -> Seq(T)] : IsStream(q, f) /\ Stream(q) = f[Len(q)]
  <2>1. PICK f \in [0 .. Len(q) -> Seq(T)] : IsStream(q, f)
      BY StreamFunction
  <2>2. IsStream(q, CHOOSE g : IsStream(q, g))
      BY <2>1
  <2>3. (CHOOSE g : IsStream(q, g))[Len(q)] = f[Len(q)]
      BY <2>1, <2>2, LenProperties, StreamIsLocal
  <2> QED  BY <1>1, <2>1, <2>3
<1>3. Len(s) \in Nat
    BY LenProperties
<1>4. PICK f \in [0 .. Len(s) -> Seq(T)] : IsStream(s, f) /\ Stream(s) = f[Len(s)]
    BY <1>2
<1>5. Stream(s) \in Seq(T)
    BY <1>3, <1>4
<1>6. Stream(<<>>) = <<>>
  <2>1. Len(<<>>) = 0 /\ <<>> \in Seq(Seq(T))
      BY EmptySeq
  <2>2. PICK g \in [0 .. Len(<<>>) -> Seq(T)] : IsStream(<<>>, g) /\ Stream(<<>>) = g[Len(<<>>)]
      BY <1>2, <2>1
  <2>3. g[0] = <<>>
      BY <2>1, <2>2 DEF IsStream
  <2> QED  BY <2>1, <2>2, <2>3
<1>7. ASSUME NEW x \in Seq(T) PROVE Stream(Append(s, x)) = Stream(s) \o x
  <2> DEFINE t == Append(s, x)
  <2>1. t \in Seq(Seq(T)) /\ Len(t) = Len(s) + 1 /\ t[Len(s) + 1] = x
        /\ \A i \in 1 .. Len(s) : s[i] = t[i]
      BY AppendProperties
  <2> HIDE DEF t
  <2>2. PICK g \in [0 .. Len(t) -> Seq(T)] : IsStream(t, g) /\ Stream(t) = g[Len(t)]
      BY <1>2, <2>1
  <2>3. f[Len(s)] = g[Len(s)]
    <3>1. Len(s) <= Len(t) /\ IsStream(s, f) /\ IsStream(t, g)
        BY <1>3, <1>4, <2>1, <2>2
    <3> HIDE DEF t
    <3> QED  BY <2>1, <3>1, StreamIsLocal
  <2>4. g[Len(t)] = g[Len(t) - 1] \o t[Len(t)]
    <3>1. Len(t) \in 0 .. Len(t) /\ Len(t) # 0
        BY <1>3, <2>1
    <3> QED  BY <2>2, <3>1 DEF IsStream
  <2>5. Len(t) - 1 = Len(s)
      BY <1>3, <2>1
  <2>6. Stream(t) = Stream(s) \o x
      BY <1>4, <2>1, <2>2, <2>3, <2>4, <2>5
  <2> QED  BY <2>6 DEF t
<1> QED  BY <1>5, <1>6, <1>7

-----------------------------------------------------------------------------
(* The rows of which the write did not fail *)

\* The recursive function of Saved.
IsSaved(s, failed, f) ==
    f = [i \in 0 .. Len(s) |-> IF i = 0 THEN <<>> ELSE (IF s[i] \in failed THEN f[i - 1] ELSE Append(f[i - 1], s[i]))]

\* It exists, and its values are rows.
LEMMA SavedFunction ==
    ASSUME NEW T, NEW failed, NEW s \in Seq(T)
    PROVE  \E f \in [0 .. Len(s) -> Seq(T)] : IsSaved(s, failed, f)
<1> DEFINE step == [i \in 1 .. Len(s) |-> [v \in Seq(T) |-> (IF s[i] \in failed THEN v ELSE Append(v, s[i]))]]
<1>1. Len(s) \in Nat /\ s \in [1 .. Len(s) -> T] /\ <<>> \in Seq(T)
    BY LenProperties, EmptySeq
<1>2. ASSUME NEW x \in T, NEW v \in Seq(T)
      PROVE  (IF x \in failed THEN v ELSE Append(v, x)) \in Seq(T)
    BY AppendProperties
<1>3. step \in [1 .. Len(s) -> [Seq(T) -> Seq(T)]]
    BY <1>1, <1>2
<1>4. ASSUME NEW i \in 1 .. Len(s), NEW v \in Seq(T)
      PROVE  step[i][v] = (IF s[i] \in failed THEN v ELSE Append(v, s[i]))
    OBVIOUS
<1> HIDE DEF step
<1>5. PICK f \in [0 .. Len(s) -> Seq(T)] : Iterates(f, Len(s), <<>>, step)
    BY <1>1, <1>3, IterationExists
<1>6. ASSUME NEW i \in 0 .. Len(s)
      PROVE  f[i] = IF i = 0 THEN <<>> ELSE (IF s[i] \in failed THEN f[i - 1] ELSE Append(f[i - 1], s[i]))
  <2>1. CASE i = 0
      BY <2>1, <1>5 DEF Iterates
  <2>2. CASE i # 0
    <3>1. i \in 1 .. Len(s) /\ i - 1 \in 0 .. Len(s)
        BY <2>2, <1>1
    <3>2. f[i - 1] \in Seq(T)
        BY <3>1, <1>5
    <3>3. step[i][f[i - 1]] = (IF s[i] \in failed THEN f[i - 1] ELSE Append(f[i - 1], s[i]))
        BY <3>1, <3>2, <1>4
    <3> QED  BY <3>3, <2>2, <1>5 DEF Iterates
  <2> QED  BY <2>1, <2>2
<1>7. IsSaved(s, failed, f)
    BY <1>5, <1>6 DEF IsSaved
<1> QED  BY <1>5, <1>7

\* It depends on no later element.
LEMMA SavedIsLocal ==
    ASSUME NEW T, NEW failed, NEW s \in Seq(T), NEW t \in Seq(T), NEW f, NEW g,
           Len(s) <= Len(t), \A i \in 1 .. Len(s) : s[i] = t[i],
           IsSaved(s, failed, f), IsSaved(t, failed, g)
    PROVE  f[Len(s)] = g[Len(s)]
<1> DEFINE P == {n \in Nat : n <= Len(s) => f[n] = g[n]}
<1>1. Len(s) \in Nat /\ Len(t) \in Nat
    BY LenProperties
<1>2. /\ \A i \in 0 .. Len(s) : f[i] = IF i = 0 THEN <<>> ELSE (IF s[i] \in failed THEN f[i - 1] ELSE Append(f[i - 1], s[i]))
      /\ \A i \in 0 .. Len(t) : g[i] = IF i = 0 THEN <<>> ELSE (IF t[i] \in failed THEN g[i - 1] ELSE Append(g[i - 1], t[i]))
    BY DEF IsSaved
<1>3. 0 \in P
    BY <1>1, <1>2
<1>4. ASSUME NEW n \in Nat, n \in P PROVE n + 1 \in P
  <2> SUFFICES ASSUME n + 1 <= Len(s) PROVE f[n + 1] = g[n + 1]
      OBVIOUS
  <2>1. f[n] = g[n] /\ s[n + 1] = t[n + 1] /\ (n + 1) - 1 = n /\ n + 1 # 0
      BY <1>1, <1>4
  <2>2. n + 1 \in 0 .. Len(s) /\ n + 1 \in 0 .. Len(t)
      BY <1>1
  <2> QED  BY <1>2, <2>1, <2>2
<1> HIDE DEF P
<1>5. Len(s) \in P
    BY <1>1, <1>3, <1>4, CountingUp
<1> QED  BY <1>5 DEF P

\* What Saved is of nothing, and of one element more.
LEMMA SavedStep ==
    ASSUME NEW T, NEW failed, NEW s \in Seq(T)
    PROVE  /\ Saved(s, failed) \in Seq(T)
           /\ Saved(<<>>, failed) = <<>>
           /\ \A x \in T : Saved(Append(s, x), failed) = (IF x \in failed THEN Saved(s, failed) ELSE Append(Saved(s, failed), x))
<1>1. \A q : Saved(q, failed) = (CHOOSE f : IsSaved(q, failed, f))[Len(q)]
    BY DEF Saved, IsSaved
<1>2. ASSUME NEW q \in Seq(T)
      PROVE  \E f \in [0 .. Len(q) -> Seq(T)] : IsSaved(q, failed, f) /\ Saved(q, failed) = f[Len(q)]
  <2>1. PICK f \in [0 .. Len(q) -> Seq(T)] : IsSaved(q, failed, f)
      BY SavedFunction
  <2>2. IsSaved(q, failed, CHOOSE g : IsSaved(q, failed, g))
      BY <2>1
  <2>3. (CHOOSE g : IsSaved(q, failed, g))[Len(q)] = f[Len(q)]
      BY <2>1, <2>2, LenProperties, SavedIsLocal
  <2> QED  BY <1>1, <2>1, <2>3
<1>3. Len(s) \in Nat
    BY LenProperties
<1>4. PICK f \in [0 .. Len(s) -> Seq(T)] : IsSaved(s, failed, f) /\ Saved(s, failed) = f[Len(s)]
    BY <1>2
<1>5. Saved(s, failed) \in Seq(T)
    BY <1>3, <1>4
<1>6. Saved(<<>>, failed) = <<>>
  <2>1. Len(<<>>) = 0 /\ <<>> \in Seq(T)
      BY EmptySeq
  <2>2. PICK g \in [0 .. Len(<<>>) -> Seq(T)] : IsSaved(<<>>, failed, g) /\ Saved(<<>>, failed) = g[Len(<<>>)]
      BY <1>2, <2>1
  <2>3. g[0] = <<>>
      BY <2>1, <2>2 DEF IsSaved
  <2> QED  BY <2>1, <2>2, <2>3
<1>7. ASSUME NEW x \in T PROVE Saved(Append(s, x), failed) = (IF x \in failed THEN Saved(s, failed) ELSE Append(Saved(s, failed), x))
  <2> DEFINE t == Append(s, x)
  <2>1. t \in Seq(T) /\ Len(t) = Len(s) + 1 /\ t[Len(s) + 1] = x
        /\ \A i \in 1 .. Len(s) : s[i] = t[i]
      BY AppendProperties
  <2> HIDE DEF t
  <2>2. PICK g \in [0 .. Len(t) -> Seq(T)] : IsSaved(t, failed, g) /\ Saved(t, failed) = g[Len(t)]
      BY <1>2, <2>1
  <2>3. f[Len(s)] = g[Len(s)]
    <3>1. Len(s) <= Len(t) /\ IsSaved(s, failed, f) /\ IsSaved(t, failed, g)
        BY <1>3, <1>4, <2>1, <2>2
    <3> HIDE DEF t
    <3> QED  BY <2>1, <3>1, SavedIsLocal
  <2>4. g[Len(t)] = (IF t[Len(t)] \in failed THEN g[Len(t) - 1] ELSE Append(g[Len(t) - 1], t[Len(t)]))
    <3>1. Len(t) \in 0 .. Len(t) /\ Len(t) # 0
        BY <1>3, <2>1
    <3> QED  BY <2>2, <3>1 DEF IsSaved
  <2>5. Len(t) - 1 = Len(s)
      BY <1>3, <2>1
  <2>6. Saved(t, failed) = (IF x \in failed THEN Saved(s, failed) ELSE Append(Saved(s, failed), x))
      BY <1>4, <2>1, <2>2, <2>3, <2>4, <2>5
  <2> QED  BY <2>6 DEF t
<1> QED  BY <1>5, <1>6, <1>7

-----------------------------------------------------------------------------
(* Rows *)

\* A row as it may be in a file, and what has been read of a list of rows.
LogRow == [kind : {"start", "end", "torn", "scrap"}, id : Nat, turn : Nat]
SplitState == [done : Seq(Nat), cut : Seq(LogRow)]

\* A sequence of one row.
LEMMA SingleRow == \A x \in LogRow : <<x>> \in Seq(LogRow) /\ Len(<<x>>) = 1 /\ <<x>>[1] = x
  OBVIOUS

-----------------------------------------------------------------------------
(* The complete turns of a list of rows *)

LEMMA NothingReadType == NothingRead \in SplitState
  BY EmptySeq DEF SplitState, NothingRead

LEMMA WithRowType ==
    ASSUME NEW x \in LogRow, NEW v \in SplitState
    PROVE  WithRow(v, x) \in SplitState
<1>1. [v EXCEPT !.cut = <<x>>] \in SplitState
    BY SingleRow DEF SplitState
<1>2. v.cut # <<>> => [done |-> Append(v.done, v.cut[1].turn), cut |-> <<>>] \in SplitState
  <2> SUFFICES ASSUME v.cut # <<>>
               PROVE  [done |-> Append(v.done, v.cut[1].turn), cut |-> <<>>] \in SplitState
      OBVIOUS
  <2>1. v.cut \in Seq(LogRow) /\ v.done \in Seq(Nat)
      BY DEF SplitState
  <2>2. Len(v.cut) \in Nat \ {0} /\ v.cut[1] \in LogRow
      BY <2>1, EmptySeq, LenProperties
  <2>3. Append(v.done, v.cut[1].turn) \in Seq(Nat)
      BY <2>1, <2>2, AppendProperties DEF LogRow
  <2> QED  BY <2>3, EmptySeq DEF SplitState
<1> QED  BY <1>1, <1>2 DEF WithRow

\* The recursive function of Split.
IsSplit(s, f) ==
    f = [i \in 0 .. Len(s) |-> IF i = 0 THEN NothingRead ELSE WithRow(f[i - 1], s[i])]

\* It exists, and its values are what has been read so far.
LEMMA SplitFunction ==
    ASSUME NEW s \in Seq(LogRow)
    PROVE  \E f \in [0 .. Len(s) -> SplitState] : IsSplit(s, f)
<1> DEFINE step == [i \in 1 .. Len(s) |-> [v \in SplitState |-> WithRow(v, s[i])]]
<1>1. Len(s) \in Nat /\ s \in [1 .. Len(s) -> LogRow] /\ NothingRead \in SplitState
    BY LenProperties, NothingReadType
<1>2. ASSUME NEW x \in LogRow, NEW v \in SplitState
      PROVE  WithRow(v, x) \in SplitState
    BY WithRowType
<1>3. step \in [1 .. Len(s) -> [SplitState -> SplitState]]
    BY <1>1, <1>2
<1>4. ASSUME NEW i \in 1 .. Len(s), NEW v \in SplitState
      PROVE  step[i][v] = WithRow(v, s[i])
    OBVIOUS
<1> HIDE DEF step
<1>5. PICK f \in [0 .. Len(s) -> SplitState] : Iterates(f, Len(s), NothingRead, step)
    BY <1>1, <1>3, IterationExists
<1>6. ASSUME NEW i \in 0 .. Len(s)
      PROVE  f[i] = IF i = 0 THEN NothingRead ELSE WithRow(f[i - 1], s[i])
  <2>1. CASE i = 0
      BY <2>1, <1>5 DEF Iterates
  <2>2. CASE i # 0
    <3>1. i \in 1 .. Len(s) /\ i - 1 \in 0 .. Len(s)
        BY <2>2, <1>1
    <3>2. f[i - 1] \in SplitState
        BY <3>1, <1>5
    <3>3. step[i][f[i - 1]] = WithRow(f[i - 1], s[i])
        BY <3>1, <3>2, <1>4
    <3> QED  BY <3>3, <2>2, <1>5 DEF Iterates
  <2> QED  BY <2>1, <2>2
<1>7. IsSplit(s, f)
    BY <1>5, <1>6 DEF IsSplit
<1> QED  BY <1>5, <1>7

\* It depends on no later element.
LEMMA SplitIsLocal ==
    ASSUME NEW s \in Seq(LogRow), NEW t \in Seq(LogRow), NEW f, NEW g,
           Len(s) <= Len(t), \A i \in 1 .. Len(s) : s[i] = t[i],
           IsSplit(s, f), IsSplit(t, g)
    PROVE  f[Len(s)] = g[Len(s)]
<1> DEFINE P == {n \in Nat : n <= Len(s) => f[n] = g[n]}
<1>1. Len(s) \in Nat /\ Len(t) \in Nat
    BY LenProperties
<1>2. /\ \A i \in 0 .. Len(s) : f[i] = IF i = 0 THEN NothingRead ELSE WithRow(f[i - 1], s[i])
      /\ \A i \in 0 .. Len(t) : g[i] = IF i = 0 THEN NothingRead ELSE WithRow(g[i - 1], t[i])
    BY DEF IsSplit
<1>3. 0 \in P
    BY <1>1, <1>2
<1>4. ASSUME NEW n \in Nat, n \in P PROVE n + 1 \in P
  <2> SUFFICES ASSUME n + 1 <= Len(s) PROVE f[n + 1] = g[n + 1]
      OBVIOUS
  <2>1. f[n] = g[n] /\ s[n + 1] = t[n + 1] /\ (n + 1) - 1 = n /\ n + 1 # 0
      BY <1>1, <1>4
  <2>2. n + 1 \in 0 .. Len(s) /\ n + 1 \in 0 .. Len(t)
      BY <1>1
  <2> QED  BY <1>2, <2>1, <2>2
<1> HIDE DEF P
<1>5. Len(s) \in P
    BY <1>1, <1>3, <1>4, CountingUp
<1> QED  BY <1>5 DEF P

\* What Split is of nothing, and of one element more.
LEMMA SplitStep ==
    ASSUME NEW s \in Seq(LogRow)
    PROVE  /\ Split(s) \in SplitState
           /\ Split(<<>>) = NothingRead
           /\ \A x \in LogRow : Split(Append(s, x)) = WithRow(Split(s), x)
<1>1. \A q : Split(q) = (CHOOSE f : IsSplit(q, f))[Len(q)]
    BY DEF Split, IsSplit
<1>2. ASSUME NEW q \in Seq(LogRow)
      PROVE  \E f \in [0 .. Len(q) -> SplitState] : IsSplit(q, f) /\ Split(q) = f[Len(q)]
  <2>1. PICK f \in [0 .. Len(q) -> SplitState] : IsSplit(q, f)
      BY SplitFunction
  <2>2. IsSplit(q, CHOOSE g : IsSplit(q, g))
      BY <2>1
  <2>3. (CHOOSE g : IsSplit(q, g))[Len(q)] = f[Len(q)]
      BY <2>1, <2>2, LenProperties, SplitIsLocal
  <2> QED  BY <1>1, <2>1, <2>3
<1>3. Len(s) \in Nat
    BY LenProperties
<1>4. PICK f \in [0 .. Len(s) -> SplitState] : IsSplit(s, f) /\ Split(s) = f[Len(s)]
    BY <1>2
<1>5. Split(s) \in SplitState
    BY <1>3, <1>4
<1>6. Split(<<>>) = NothingRead
  <2>1. Len(<<>>) = 0 /\ <<>> \in Seq(LogRow)
      BY EmptySeq
  <2>2. PICK g \in [0 .. Len(<<>>) -> SplitState] : IsSplit(<<>>, g) /\ Split(<<>>) = g[Len(<<>>)]
      BY <1>2, <2>1
  <2>3. g[0] = NothingRead
      BY <2>1, <2>2 DEF IsSplit
  <2> QED  BY <2>1, <2>2, <2>3
<1>7. ASSUME NEW x \in LogRow PROVE Split(Append(s, x)) = WithRow(Split(s), x)
  <2> DEFINE t == Append(s, x)
  <2>1. t \in Seq(LogRow) /\ Len(t) = Len(s) + 1 /\ t[Len(s) + 1] = x
        /\ \A i \in 1 .. Len(s) : s[i] = t[i]
      BY AppendProperties
  <2> HIDE DEF t
  <2>2. PICK g \in [0 .. Len(t) -> SplitState] : IsSplit(t, g) /\ Split(t) = g[Len(t)]
      BY <1>2, <2>1
  <2>3. f[Len(s)] = g[Len(s)]
    <3>1. Len(s) <= Len(t) /\ IsSplit(s, f) /\ IsSplit(t, g)
        BY <1>3, <1>4, <2>1, <2>2
    <3> HIDE DEF t
    <3> QED  BY <2>1, <3>1, SplitIsLocal
  <2>4. g[Len(t)] = WithRow(g[Len(t) - 1], t[Len(t)])
    <3>1. Len(t) \in 0 .. Len(t) /\ Len(t) # 0
        BY <1>3, <2>1
    <3> QED  BY <2>2, <3>1 DEF IsSplit
  <2>5. Len(t) - 1 = Len(s)
      BY <1>3, <2>1
  <2>6. Split(t) = WithRow(Split(s), x)
      BY <1>4, <2>1, <2>2, <2>3, <2>4, <2>5
  <2> QED  BY <2>6 DEF t
<1> QED  BY <1>5, <1>6, <1>7


-----------------------------------------------------------------------------
(* Replaying and opening files without damage *)

\* The rows that are readable and of one of the first n turns.
RowsOf(n) == {r \in LogRow : IsReadable(r) /\ r.turn <= n}

LEMMA RowsOfGrows ==
    ASSUME NEW n \in Nat, NEW m \in Nat, n <= m
    PROVE  /\ RowsOf(n) \subseteq RowsOf(m)
           /\ Seq(RowsOf(n)) \subseteq Seq(RowsOf(m))
           /\ Seq(Seq(RowsOf(n))) \subseteq Seq(Seq(RowsOf(m)))
<1>1. RowsOf(n) \subseteq RowsOf(m)
    BY DEF RowsOf, LogRow
<1>2. Seq(RowsOf(n)) \subseteq Seq(RowsOf(m))
    BY <1>1, SeqMonotonic
<1> QED  BY <1>1, <1>2, SeqMonotonic

\* A file of readable rows is replayed whole, and its last line is ended.
LEMMA ReadableFile ==
    ASSUME NEW n, NEW file \in Seq(RowsOf(n))
    PROVE  ValidPrefix(file) = file /\ ~EndsTorn(file)
<1>1. \A i \in DOMAIN file : IsReadable(file[i])
    BY LenProperties DEF RowsOf
<1>2. file # <<>> => Len(file) \in DOMAIN file
    BY EmptySeq, LenProperties
<1> QED  BY <1>1, <1>2 DEF ValidPrefix, EndsTorn, Last, IsReadable

\* The files one after the other, the current one last.
LEMMA StreamOfFiles ==
    ASSUME NEW T, NEW segments \in Seq(Seq(T)), NEW file \in Seq(T)
    PROVE  /\ Append(segments, file) \in Seq(Seq(T))
           /\ Stream(segments) \in Seq(T)
           /\ Stream(Append(segments, file)) = Stream(segments) \o file
           /\ Stream(Append(segments, file)) \in Seq(T)
<1>1. Append(segments, file) \in Seq(Seq(T))
    BY AppendProperties
<1> QED  BY <1>1, StreamStep

\* What opening the log of such files does: it leaves them as they are.
LEMMA OpensClean ==
    ASSUME NEW n, NEW segments \in Seq(Seq(RowsOf(n))), NEW file \in Seq(RowsOf(n)),
           OpenLog(Append(segments, file))
    PROVE  /\ rolled' = segments /\ current' = file /\ unsaved' = {}
           /\ gen' = Open(Stream(Append(segments, file)),
                          NextTurnNumber(Stream(Append(segments, file))))
<1> DEFINE files == Append(segments, file)
           torn  == {i \in DOMAIN files : ValidPrefix(files[i]) # files[i]}
           cut   == IF torn = {} THEN files
                    ELSE [files EXCEPT ![Min(torn)] = ValidPrefix(@)]
           rows  == ValidPrefix(Stream(files))
<1>1. /\ rolled' = Front(cut)
      /\ current' = IF EndsTorn(Last(cut)) THEN Append(Front(Last(cut)), Damaged("scrap"))
                    ELSE Last(cut)
      /\ gen' = Open(rows, NextTurnNumber(rows)) /\ unsaved' = {}
    BY DEF OpenLog
<1>2. files \in Seq(Seq(RowsOf(n))) /\ Stream(files) \in Seq(RowsOf(n))
    BY StreamOfFiles
<1>3. torn = {}
  <2>1. \A i \in DOMAIN files : files[i] \in Seq(RowsOf(n))
      BY <1>2, LenProperties
  <2> HIDE DEF files
  <2> QED  BY <2>1, ReadableFile
<1>4. cut = files
    BY <1>3
<1>5. Front(files) = segments /\ Last(files) = file
  <2>1. /\ Len(files) = Len(segments) + 1 /\ Len(segments) \in Nat
        /\ files[Len(segments) + 1] = file
        /\ \A i \in 1 .. Len(segments) : files[i] = segments[i]
      BY AppendProperties, LenProperties
  <2> HIDE DEF files
  <2>2. \A i \in 1 .. Len(segments) : files[i] \in Seq(RowsOf(n))
      BY <2>1, LenProperties
  <2>3. /\ SubSeq(files, 1, Len(segments)) \in Seq(Seq(RowsOf(n)))
        /\ Len(SubSeq(files, 1, Len(segments))) = Len(segments)
        /\ \A i \in 1 .. Len(segments) : SubSeq(files, 1, Len(segments))[i] = segments[i]
      BY <2>1, <2>2, SubSeqProperties
  <2>4. SubSeq(files, 1, Len(segments)) = segments
      BY <2>3, SeqEqual
  <2> QED  BY <2>1, <2>4 DEF Front, Last
<1>6. rows = Stream(files)
    BY <1>2, ReadableFile
<1> HIDE DEF files, cut, rows
<1>7. ~EndsTorn(Last(cut))
    BY <1>4, <1>5, ReadableFile
<1> QED  BY <1>1, <1>4, <1>5, <1>6, <1>7 DEF files

\* The number of the next turn is above every number in the log.
LEMMA NextIsAbove ==
    ASSUME NEW rows \in Seq(LogRow)
    PROVE  /\ NextTurnNumber(rows) \in Nat
           /\ \A i \in DOMAIN rows : rows[i].id < NextTurnNumber(rows)
<1> DEFINE P == {s \in Seq(LogRow) : s # <<>> =>
                    \E k \in 1 .. Len(s) : \A i \in 1 .. Len(s) : s[i].id <= s[k].id}
<1>1. <<>> \in P
    BY EmptySeq
<1>2. ASSUME NEW s \in Seq(LogRow), NEW x \in LogRow, s \in P PROVE Append(s, x) \in P
  <2> DEFINE t == Append(s, x)
  <2>1. /\ t \in Seq(LogRow) /\ Len(t) = Len(s) + 1 /\ t[Len(s) + 1] = x
        /\ Len(s) \in Nat /\ \A i \in 1 .. Len(s) : t[i] = s[i] /\ s[i] \in LogRow
      BY AppendProperties, LenProperties
  <2> HIDE DEF t
  <2>4. x.id \in Nat /\ \A i \in 1 .. Len(s) : s[i].id \in Nat
      BY <2>1 DEF LogRow
  <2>5. \A i \in 1 .. Len(t) : i \in 1 .. Len(s) \/ i = Len(s) + 1
      BY <2>1
  <2>2. CASE s = <<>>
    <3>1. Len(t) = 1 /\ t[1] = x
        BY <2>1, <2>2, EmptySeq
    <3>2. 1 \in 1 .. Len(t) /\ \A i \in 1 .. Len(t) : t[i].id <= t[1].id
        BY <2>4, <3>1
    <3> QED  BY <2>1, <3>2 DEF t
  <2>3. CASE s # <<>>
    <3>1. PICK k \in 1 .. Len(s) : \A i \in 1 .. Len(s) : s[i].id <= s[k].id
        BY <1>2, <2>3
    <3>2. CASE x.id <= s[k].id
      <4>1. k \in 1 .. Len(t) /\ \A i \in 1 .. Len(t) : t[i].id <= t[k].id
          BY <2>1, <2>4, <2>5, <3>1, <3>2
      <4> QED  BY <2>1, <4>1 DEF t
    <3>3. CASE ~(x.id <= s[k].id)
      <4>2. s[k].id \in Nat /\ s[k].id <= x.id
          BY <2>4, <3>1, <3>3
      <4>3. \A i \in 1 .. Len(s) : s[i].id <= x.id
          BY <2>4, <3>1, <4>2
      <4>4. \A i \in 1 .. Len(t) : t[i].id <= x.id
          BY <2>1, <2>4, <2>5, <4>3
      <4>1. Len(t) \in 1 .. Len(t) /\ \A i \in 1 .. Len(t) : t[i].id <= t[Len(t)].id
          BY <2>1, <4>4
      <4> QED  BY <2>1, <4>1 DEF t
    <3> QED  BY <3>2, <3>3
  <2> QED  BY <2>2, <2>3
<1> HIDE DEF P
<1>3. Seq(LogRow) \subseteq P
    BY <1>1, <1>2, Appending
<1>4. DOMAIN rows = 1 .. Len(rows) /\ \A i \in DOMAIN rows : rows[i].id \in Nat
  <2>1. DOMAIN rows = 1 .. Len(rows) /\ \A i \in DOMAIN rows : rows[i] \in LogRow
      BY LenProperties
  <2> QED  BY <2>1 DEF LogRow
<1>5. CASE rows = <<>>
    BY <1>5, EmptySeq, <1>4 DEF NextTurnNumber
<1>6. CASE rows # <<>>
  <2> DEFINE ids == {rows[i].id : i \in DOMAIN rows}
  <2>1. \E x \in ids : \A y \in ids : x >= y
    <3>1. PICK k \in 1 .. Len(rows) : \A i \in 1 .. Len(rows) : rows[i].id <= rows[k].id
        BY <1>3, <1>6 DEF P
    <3> QED  BY <1>4, <3>1
  <2>2. Max(ids) \in ids /\ \A y \in ids : Max(ids) >= y
      BY <2>1 DEF Max
  <2>3. NextTurnNumber(rows) = 1 + Max(ids)
      BY <1>6 DEF NextTurnNumber
  <2>4. Max(ids) \in Nat
      BY <1>4, <2>2
  <2>5. \A i \in DOMAIN rows : rows[i].id \in ids
      OBVIOUS
  <2> HIDE DEF ids
  <2>6. ASSUME NEW i \in DOMAIN rows PROVE rows[i].id < NextTurnNumber(rows)
    <3>1. Max(ids) >= rows[i].id /\ rows[i].id \in Nat
        BY <1>4, <2>2, <2>5
    <3> QED  BY <2>3, <2>4, <3>1
  <2> QED  BY <2>3, <2>4, <2>6
<1> QED  BY <1>5, <1>6

-----------------------------------------------------------------------------
(* Rows whose write failed *)

\* When none failed, all are saved.
LEMMA SavedNone ==
    ASSUME NEW T, NEW s \in Seq(T)
    PROVE  Saved(s, {}) = s
<1> DEFINE P == {r \in Seq(T) : Saved(r, {}) = r}
<1>1. <<>> \in P
    BY EmptySeq, SavedStep
<1>2. ASSUME NEW r \in Seq(T), NEW x \in T, r \in P PROVE Append(r, x) \in P
  <2>1. Saved(Append(r, x), {}) = Append(r, x)
      BY <1>2, SavedStep
  <2> QED  BY <2>1, AppendProperties
<1> HIDE DEF P
<1>3. s \in P
    BY <1>1, <1>2, Appending
<1> QED  BY <1>3 DEF P

\* The failure of a row that is not there changes nothing.
LEMMA SavedFresh ==
    ASSUME NEW T, NEW s \in Seq(T), NEW failed, NEW x,
           \A i \in 1 .. Len(s) : s[i] # x
    PROVE  Saved(s, failed \cup {x}) = Saved(s, failed)
<1> DEFINE P == {r \in Seq(T) : (\A i \in 1 .. Len(r) : r[i] # x) =>
                                   Saved(r, failed \cup {x}) = Saved(r, failed)}
<1>1. <<>> \in P
  <2>1. Saved(<<>>, failed \cup {x}) = <<>> /\ Saved(<<>>, failed) = <<>>
      BY EmptySeq, SavedStep
  <2> QED  BY <2>1, EmptySeq
<1>2. ASSUME NEW r \in Seq(T), NEW y \in T, r \in P PROVE Append(r, y) \in P
  <2> DEFINE t == Append(r, y)
  <2>1. /\ t \in Seq(T) /\ Len(t) = Len(r) + 1 /\ t[Len(r) + 1] = y
        /\ Len(r) \in Nat /\ \A i \in 1 .. Len(r) : t[i] = r[i]
      BY AppendProperties, LenProperties
  <2> SUFFICES ASSUME \A i \in 1 .. Len(t) : t[i] # x
               PROVE  Saved(t, failed \cup {x}) = Saved(t, failed)
      BY <2>1
  <2>2. y # x /\ \A i \in 1 .. Len(r) : r[i] # x
      BY <2>1
  <2>3. Saved(r, failed \cup {x}) = Saved(r, failed)
      BY <1>2, <2>2
  <2>4. /\ Saved(t, failed) = IF y \in failed THEN Saved(r, failed)
                              ELSE Append(Saved(r, failed), y)
        /\ Saved(t, failed \cup {x}) = IF y \in failed \cup {x} THEN Saved(r, failed \cup {x})
                                       ELSE Append(Saved(r, failed \cup {x}), y)
      BY SavedStep
  <2> HIDE DEF t
  <2> QED  BY <2>2, <2>3, <2>4
<1> HIDE DEF P
<1>3. s \in P
    BY <1>1, <1>2, Appending
<1> QED  BY <1>3 DEF P

-----------------------------------------------------------------------------
(* What a compaction keeps *)

\* The ids of the starts among these rows increase.
IdsIncrease(rows) ==
    \A i, j \in DOMAIN rows :
        i < j /\ rows[i].kind = "start" /\ rows[j].kind = "start" => rows[i].id < rows[j].id

\* A complete turn is one that started among the rows.
LEMMA CompleteTurnsStarted ==
    ASSUME NEW rows \in Seq(LogRow)
    PROVE  /\ CompleteTurns(rows) \in Seq(Nat)
           /\ \A k \in DOMAIN CompleteTurns(rows) : \E i \in DOMAIN rows :
                  CompleteTurns(rows)[k] = rows[i].turn
<1> DEFINE In(s, turn) == \E i \in 1 .. Len(s) : s[i].turn = turn
           P == {s \in Seq(LogRow) :
                    /\ \A k \in 1 .. Len(Split(s).done) : In(s, Split(s).done[k])
                    /\ Split(s).cut # <<>> => In(s, Split(s).cut[1].turn)}
<1>1. <<>> \in P
  <2>1. Split(<<>>) = NothingRead /\ <<>> \in Seq(LogRow)
      BY EmptySeq, SplitStep
  <2>2. NothingRead.done = <<>> /\ NothingRead.cut = <<>> /\ Len(<<>>) = 0
      BY EmptySeq DEF NothingRead
  <2> QED  BY <2>1, <2>2
<1>2. ASSUME NEW s \in Seq(LogRow), NEW x \in LogRow, s \in P PROVE Append(s, x) \in P
  <2> DEFINE t == Append(s, x)
  <2>1. /\ t \in Seq(LogRow) /\ Len(t) = Len(s) + 1 /\ t[Len(s) + 1] = x
        /\ Len(s) \in Nat /\ \A i \in 1 .. Len(s) : t[i] = s[i]
      BY AppendProperties, LenProperties
  <2>2. Split(t) = WithRow(Split(s), x) /\ Split(s) \in SplitState
      BY SplitStep
  <2> HIDE DEF t
  <2>3. In(t, x.turn) /\ \A turn : In(s, turn) => In(t, turn)
      BY <2>1
  <2>4. /\ \A k \in 1 .. Len(Split(s).done) : In(s, Split(s).done[k])
        /\ Split(s).cut # <<>> => In(s, Split(s).cut[1].turn)
      BY <1>2
  <2> HIDE DEF In
  <2>5. /\ \A k \in 1 .. Len(Split(t).done) : In(t, Split(t).done[k])
        /\ Split(t).cut # <<>> => In(t, Split(t).cut[1].turn)
    <3>1. CASE x.kind = "start"
      <4>1. Split(t).done = Split(s).done /\ Split(t).cut = <<x>>
          BY <2>2, <3>1 DEF WithRow, SplitState
      <4>2. <<x>>[1] = x
          BY SingleRow
      <4> QED  BY <2>3, <2>4, <4>1, <4>2
    <3>2. CASE x.kind # "start" /\ Split(s).cut = <<>>
        BY <2>2, <2>3, <2>4, <3>2 DEF WithRow
    <3>3. CASE x.kind # "start" /\ Split(s).cut # <<>>
      <4>1. /\ Split(t).done = Append(Split(s).done, Split(s).cut[1].turn)
            /\ Split(t).cut = <<>>
          BY <2>2, <3>3 DEF WithRow
      <4>2. Split(s).done \in Seq(Nat) /\ Split(s).cut \in Seq(LogRow)
          BY <2>2 DEF SplitState
      <4>3. Split(s).cut[1] \in LogRow
          BY <3>3, <4>2, EmptySeq, LenProperties
      <4>4. Split(s).cut[1].turn \in Nat
          BY <4>3 DEF LogRow
      <4>5. \A k \in 1 .. Len(Split(t).done) :
                \/ k \in 1 .. Len(Split(s).done) /\ Split(t).done[k] = Split(s).done[k]
                \/ Split(t).done[k] = Split(s).cut[1].turn
          BY <4>1, <4>2, <4>4, AppendProperties, LenProperties
      <4> QED  BY <2>3, <2>4, <3>3, <4>1, <4>5
    <3> QED  BY <3>1, <3>2, <3>3
  <2>6. t \in P
      BY <2>1, <2>5
  <2> QED  BY <2>6 DEF t
<1> HIDE DEF P
<1>3. rows \in P
    BY <1>1, <1>2, Appending
<1>4. CompleteTurns(rows) \in Seq(Nat)
    BY SplitStep DEF CompleteTurns, SplitState
<1> QED  BY <1>3, <1>4, LenProperties DEF P, CompleteTurns

\* Where ids increase, n complete turns leave an id of at least n - 1, and one
\* more start after them leaves one of at least n.
HasId(s, n) == \E i \in 1 .. Len(s) : s[i].kind = "start" /\ s[i].id >= n
Counted(s, n) ==
    /\ Len(Split(s).done) = n
    /\ n > 0 => HasId(s, n - 1)
    /\ Split(s).cut # <<>> => HasId(s, n)

LEMMA TurnsCount ==
    ASSUME NEW rows \in Seq(LogRow), IdsIncrease(rows)
    PROVE  \E n \in Nat : Counted(rows, n)
<1> DEFINE P == {s \in Seq(LogRow) : IdsIncrease(s) => \E n \in Nat : Counted(s, n)}
<1>1. <<>> \in P
  <2>1. Split(<<>>) = NothingRead /\ <<>> \in Seq(LogRow)
      BY EmptySeq, SplitStep
  <2>2. NothingRead.done = <<>> /\ NothingRead.cut = <<>> /\ Len(<<>>) = 0
      BY EmptySeq DEF NothingRead
  <2>3. Counted(<<>>, 0)
      BY <2>1, <2>2 DEF Counted
  <2> QED  BY <2>1, <2>3
<1>2. ASSUME NEW s \in Seq(LogRow), NEW x \in LogRow, s \in P PROVE Append(s, x) \in P
  <2> DEFINE t == Append(s, x)
  <2>1. /\ t \in Seq(LogRow) /\ Len(t) = Len(s) + 1 /\ t[Len(s) + 1] = x
        /\ Len(s) \in Nat /\ DOMAIN s = 1 .. Len(s) /\ DOMAIN t = 1 .. Len(s) + 1
        /\ \A i \in 1 .. Len(s) : t[i] = s[i] /\ s[i] \in LogRow
      BY AppendProperties, LenProperties
  <2>2. Split(t) = WithRow(Split(s), x) /\ Split(s) \in SplitState
      BY SplitStep
  <2> HIDE DEF t
  <2> SUFFICES ASSUME IdsIncrease(t) PROVE \E n \in Nat : Counted(t, n)
      BY <2>1 DEF t
  <2>3. IdsIncrease(s)
      BY <2>1 DEF IdsIncrease
  <2>4. PICK n \in Nat : Counted(s, n)
      BY <1>2, <2>3
  <2>5. Split(s).done \in Seq(Nat) /\ Split(s).cut \in Seq(LogRow) /\ Len(Split(s).done) = n
      BY <2>2, <2>4 DEF SplitState, Counted
  <2>6. \A m \in Int : HasId(s, m) => HasId(t, m)
    <3>1. \A i \in 1 .. Len(s) : i \in 1 .. Len(t)
        BY <2>1
    <3> QED  BY <2>1, <3>1 DEF HasId
  <2>7. x.id \in Nat /\ \A i \in 1 .. Len(s) : s[i].id \in Nat
      BY <2>1 DEF LogRow
  <2>8. CASE x.kind = "start"
    <3>1. Split(t).done = Split(s).done
        BY <2>2, <2>8 DEF WithRow, SplitState
    <3>2. Len(t) \in 1 .. Len(t) /\ t[Len(t)] = x
        BY <2>1
    <3>3. x.id >= n
      <4>1. CASE n = 0
          BY <2>7, <4>1
      <4>2. CASE n > 0
        <5>1. PICK i \in 1 .. Len(s) : s[i].kind = "start" /\ s[i].id >= n - 1
            BY <2>4, <4>2 DEF Counted, HasId
        <5>2. i \in DOMAIN t /\ Len(t) \in DOMAIN t /\ i < Len(t) /\ t[i] = s[i]
            BY <2>1, <5>1
        <5>3. s[i].id < x.id
            BY <2>8, <3>2, <5>1, <5>2 DEF IdsIncrease
        <5>4. s[i].id \in Nat
            BY <2>7, <5>1
        <5> QED  BY <2>7, <5>1, <5>3, <5>4
      <4> QED  BY <4>1, <4>2
    <3>4. HasId(t, n)
        BY <2>8, <3>2, <3>3 DEF HasId
    <3>5. n > 0 => HasId(t, n - 1)
        BY <2>4, <2>6 DEF Counted
    <3> QED  BY <2>5, <3>1, <3>4, <3>5 DEF Counted
  <2>9. CASE x.kind # "start" /\ Split(s).cut = <<>>
    <3>1. Split(t) = Split(s)
        BY <2>2, <2>9 DEF WithRow
    <3>2. n > 0 => HasId(t, n - 1)
        BY <2>4, <2>6 DEF Counted
    <3> QED  BY <2>4, <2>9, <3>1, <3>2 DEF Counted
  <2>10. CASE x.kind # "start" /\ Split(s).cut # <<>>
    <3>1. /\ Split(t).done = Append(Split(s).done, Split(s).cut[1].turn)
          /\ Split(t).cut = <<>>
        BY <2>2, <2>10 DEF WithRow
    <3>2. Split(s).cut[1] \in LogRow
        BY <2>5, <2>10, EmptySeq, LenProperties
    <3>3. Split(s).cut[1].turn \in Nat
        BY <3>2 DEF LogRow
    <3>4. Len(Split(t).done) = n + 1
        BY <2>5, <3>1, <3>3, AppendProperties
    <3>5. HasId(t, (n + 1) - 1)
        BY <2>4, <2>6, <2>10 DEF Counted
    <3> QED  BY <3>1, <3>4, <3>5 DEF Counted
  <2> QED  BY <2>8, <2>9, <2>10
<1> HIDE DEF P
<1>3. rows \in P
    BY <1>1, <1>2, Appending
<1> QED  BY <1>3 DEF P

\* Halves, as the numbering of rows needs them.
LEMMA Halves ==
    \A k \in Nat \ {0} :
        /\ (k + 1) \div 2 \in Nat \ {0} /\ 2 * ((k + 1) \div 2) - 1 <= k
        /\ k <= 2 * ((k + 1) \div 2)
        /\ k % 2 = 1 => k = 2 * ((k + 1) \div 2) - 1
        /\ k % 2 # 1 => k = 2 * ((k + 1) \div 2)
  OBVIOUS

\* The kept turns, renumbered: two rows for each.
LEMMA RenumberedRows ==
    ASSUME NEW n \in Nat, NEW turns \in Seq(0 .. n)
    PROVE  /\ Renumbered(turns) \in Seq(RowsOf(n))
           /\ Len(Renumbered(turns)) = 2 * Len(turns)
           /\ \A k \in 1 .. 2 * Len(turns) :
                  /\ (k + 1) \div 2 \in 1 .. Len(turns)
                  /\ Renumbered(turns)[k] =
                         TurnRow(IF k % 2 = 1 THEN "start" ELSE "end",
                                 (k + 1) \div 2 + 1, turns[(k + 1) \div 2])
<1>1. PICK m \in Nat : m = Len(turns)
    BY LenProperties
<1>2. \A i \in 1 .. m : turns[i] \in 0 .. n
    BY <1>1, LenProperties
<1>3. \A k \in 1 .. 2 * m : (k + 1) \div 2 \in 1 .. m
    BY <1>1, Halves
<1>4. Renumbered(turns) = [k \in 1 .. 2 * m |->
                              TurnRow(IF k % 2 = 1 THEN "start" ELSE "end",
                                      (k + 1) \div 2 + 1, turns[(k + 1) \div 2])]
    BY <1>1 DEF Renumbered
<1>5. ASSUME NEW i \in 1 .. m, NEW kind \in {"start", "end"}
      PROVE  TurnRow(kind, i + 1, turns[i]) \in RowsOf(n)
  <2>1. turns[i] \in Nat /\ turns[i] <= n /\ i + 1 \in Nat
      BY <1>2
  <2> QED  BY <2>1 DEF TurnRow, RowsOf, LogRow, IsReadable
<1>6. Renumbered(turns) \in [1 .. 2 * m -> RowsOf(n)]
    BY <1>3, <1>4, <1>5
<1>7. 2 * m \in Nat
    BY <1>1
<1>8. Renumbered(turns) \in Seq(RowsOf(n))
    BY <1>6, <1>7, SeqDef
<1>9. Len(Renumbered(turns)) = 2 * m
    BY <1>6, <1>7, <1>8, LenProperties
<1> QED  BY <1>1, <1>3, <1>4, <1>8, <1>9

\* The file a compaction writes: readable rows of the turns it was given, their
\* ids increasing from 1 to the last kept turn's, and every kept turn among them.
LEMMA PlannedFile ==
    ASSUME NEW n \in Nat, NEW rows \in Seq(RowsOf(n)), WorthCompacting(rows)
    PROVE  /\ PlanCompaction(rows) \in Seq(RowsOf(n))
           /\ IdsIncrease(PlanCompaction(rows))
           /\ \A i \in DOMAIN PlanCompaction(rows) : PlanCompaction(rows)[i].id <= Keep + 1
           /\ \E i \in DOMAIN PlanCompaction(rows) : PlanCompaction(rows)[i].id > Keep
           /\ \A t \in {rows[i].turn : i \in DOMAIN rows} \ Told(rows) :
                  \E i \in DOMAIN PlanCompaction(rows) :
                      /\ PlanCompaction(rows)[i].kind = "end"
                      /\ PlanCompaction(rows)[i].turn = t
<1> DEFINE turns == CompleteTurns(rows)
           kept  == KeptTurns(turns)
           head  == <<TurnRow("start", 1, Summary), TurnRow("end", 1, Summary)>>
           plan  == PlanCompaction(rows)
<1>1. Keep \in Nat \ {0} /\ Threshold \in Nat /\ Keep < Threshold
    BY LogFileAssumption
<1>2. rows \in Seq(LogRow)
    BY SeqMonotonic DEF RowsOf
<1>3. turns \in Seq(0 .. n)
  <2>1. turns \in Seq(Nat) /\ \A k \in DOMAIN turns : \E i \in DOMAIN rows : turns[k] = rows[i].turn
      BY <1>2, CompleteTurnsStarted
  <2>2. \A i \in DOMAIN rows : rows[i] \in RowsOf(n)
      BY LenProperties
  <2>3. \A i \in DOMAIN rows : rows[i].turn \in 0 .. n
      BY <2>2 DEF RowsOf, LogRow
  <2>4. \A k \in 1 .. Len(turns) : turns[k] \in 0 .. n
      BY <2>1, <2>3, LenProperties
  <2>5. Len(turns) \in Nat /\ turns \in [1 .. Len(turns) -> 0 .. n]
      BY <2>1, <2>4, LenProperties
  <2> QED  BY <2>5, SeqDef
<1>4. PICK m \in Nat : m = Len(turns)
    BY <1>3, LenProperties
<1>5. m > Keep
  <2>1. m > Threshold
      BY <1>4 DEF WorthCompacting
  <2> QED  BY <1>1, <2>1
<1> HIDE DEF turns
<1>6. /\ kept \in Seq(0 .. n) /\ Len(kept) = Keep
      /\ \A i \in 1 .. Keep : kept[i] = turns[m - Keep + i]
  <2>1. \A i \in (m - Keep + 1) .. m : turns[i] \in 0 .. n
      BY <1>1, <1>3, <1>4, <1>5, LenProperties
  <2>2. m - Keep + 1 \in Int /\ m \in Int /\ m - Keep + 1 <= m
        /\ m - (m - Keep + 1) + 1 = Keep
      BY <1>1
  <2>3. /\ SubSeq(turns, m - Keep + 1, m) \in Seq(0 .. n)
        /\ Len(SubSeq(turns, m - Keep + 1, m)) = m - (m - Keep + 1) + 1
        /\ \A i \in 1 .. m - (m - Keep + 1) + 1 :
               SubSeq(turns, m - Keep + 1, m)[i] = turns[(m - Keep + 1) + i - 1]
      BY <2>1, <2>2, SubSeqProperties
  <2>4. \A i \in 1 .. Keep : (m - Keep + 1) + i - 1 = m - Keep + i
      BY <1>1
  <2>5. kept = SubSeq(turns, m - Keep + 1, m)
      BY <1>4 DEF KeptTurns
  <2> HIDE DEF kept
  <2> QED  BY <2>2, <2>3, <2>4, <2>5
<1> HIDE DEF kept
<1>7. /\ Renumbered(kept) \in Seq(RowsOf(n)) /\ Len(Renumbered(kept)) = 2 * Keep
      /\ \A k \in 1 .. 2 * Keep :
             /\ (k + 1) \div 2 \in 1 .. Keep
             /\ Renumbered(kept)[k] = TurnRow(IF k % 2 = 1 THEN "start" ELSE "end",
                                              (k + 1) \div 2 + 1, kept[(k + 1) \div 2])
    BY <1>6, RenumberedRows
<1>8. /\ head \in Seq(RowsOf(n)) /\ Len(head) = 2
      /\ head[1] = TurnRow("start", 1, Summary) /\ head[2] = TurnRow("end", 1, Summary)
  <2>1. TurnRow("start", 1, Summary) \in RowsOf(n) /\ TurnRow("end", 1, Summary) \in RowsOf(n)
      BY DEF TurnRow, Summary, RowsOf, LogRow, IsReadable
  <2> QED  BY <2>1
<1>9. plan = head \o Renumbered(kept)
    BY DEF PlanCompaction, kept, turns
<1> HIDE DEF head, plan
<1>10. /\ plan \in Seq(RowsOf(n)) /\ Len(plan) = 2 + 2 * Keep
       /\ \A i \in 1 .. 2 + 2 * Keep :
              plan[i] = IF i <= 2 THEN head[i] ELSE Renumbered(kept)[i - 2]
  <2> DEFINE tail == Renumbered(kept)
  <2>1. tail \in Seq(RowsOf(n)) /\ Len(tail) = 2 * Keep
      BY <1>7
  <2> HIDE DEF tail
  <2>2. /\ head \o tail \in Seq(RowsOf(n)) /\ Len(head \o tail) = Len(head) + Len(tail)
        /\ \A i \in 1 .. Len(head) + Len(tail) :
               (head \o tail)[i] = IF i <= Len(head) THEN head[i] ELSE tail[i - Len(head)]
      BY <1>8, <2>1, ConcatProperties
  <2>3. Len(head) + Len(tail) = 2 + 2 * Keep
      BY <1>8, <2>1
  <2>4. /\ head \o tail \in Seq(RowsOf(n)) /\ Len(head \o tail) = 2 + 2 * Keep
        /\ \A i \in 1 .. 2 + 2 * Keep :
               (head \o tail)[i] = IF i <= 2 THEN head[i] ELSE tail[i - 2]
      BY <1>8, <2>2, <2>3
  <2> QED  BY <1>9, <2>4 DEF tail
<1>11. DOMAIN plan = 1 .. 2 + 2 * Keep
    BY <1>10, LenProperties
<1>12. ASSUME NEW i \in 1 .. 2 + 2 * Keep
       PROVE  /\ plan[i].id = (i + 1) \div 2
              /\ plan[i].kind = IF i % 2 = 1 THEN "start" ELSE "end"
  <2>1. CASE i = 1
      BY <1>8, <1>10, <2>1 DEF TurnRow
  <2>2. CASE i = 2
      BY <1>8, <1>10, <2>2 DEF TurnRow
  <2>3. CASE i > 2
    <3>1. i - 2 \in 1 .. 2 * Keep /\ ((i - 2) + 1) \div 2 + 1 = (i + 1) \div 2
          /\ (i - 2) % 2 = i % 2
        BY <1>1, <2>3
    <3>2. PICK k \in 1 .. 2 * Keep : k = i - 2
        BY <3>1
    <3>3. (k + 1) \div 2 + 1 = (i + 1) \div 2 /\ k % 2 = i % 2
        BY <3>1, <3>2
    <3>4. plan[i] = Renumbered(kept)[k]
        BY <1>10, <2>3, <3>2
    <3>5. plan[i] = TurnRow(IF k % 2 = 1 THEN "start" ELSE "end",
                            (k + 1) \div 2 + 1, kept[(k + 1) \div 2])
        BY <1>7, <3>4
    <3> QED  BY <3>3, <3>5 DEF TurnRow
  <2> QED  BY <2>1, <2>2, <2>3
<1>13. IdsIncrease(plan)
  <2> SUFFICES ASSUME NEW i \in 1 .. 2 + 2 * Keep, NEW j \in 1 .. 2 + 2 * Keep,
                      i < j, plan[i].kind = "start", plan[j].kind = "start"
               PROVE  plan[i].id < plan[j].id
      BY <1>11 DEF IdsIncrease
  <2>1. i % 2 = 1 /\ j % 2 = 1
      BY <1>12
  <2>2. i = 2 * ((i + 1) \div 2) - 1 /\ j = 2 * ((j + 1) \div 2) - 1
      BY <1>1, <2>1, Halves
  <2> QED  BY <1>1, <1>12, <2>2
<1>14. \A i \in DOMAIN plan : plan[i].id <= Keep + 1
  <2> SUFFICES ASSUME NEW i \in 1 .. 2 + 2 * Keep PROVE (i + 1) \div 2 <= Keep + 1
      BY <1>11, <1>12
  <2> QED  BY <1>1
<1>15. \E i \in DOMAIN plan : plan[i].id > Keep
  <2>1. 2 + 2 * Keep \in DOMAIN plan /\ ((2 + 2 * Keep) + 1) \div 2 > Keep
      BY <1>1, <1>11
  <2> QED  BY <1>11, <1>12, <2>1
<1>16. ASSUME NEW t \in {rows[i].turn : i \in DOMAIN rows} \ Told(rows)
       PROVE  \E i \in DOMAIN plan : plan[i].kind = "end" /\ plan[i].turn = t
  <2>1. PICK k \in (m - Keep + 1) .. m : t = turns[k]
      BY <1>4 DEF Told, turns
  <2> DEFINE p == k - (m - Keep)
  <2>2. p \in 1 .. Keep /\ m - Keep + p = k
      BY <1>1, <1>5, <2>1
  <2>3. kept[p] = t
      BY <1>6, <2>1, <2>2
  <2> HIDE DEF p
  <2>4. 2 * p \in 1 .. 2 * Keep /\ (2 * p + 1) \div 2 = p /\ (2 * p) % 2 = 0
      BY <1>1, <2>2
  <2>5. Renumbered(kept)[2 * p] = TurnRow("end", p + 1, t)
    <3>1. PICK q \in 1 .. 2 * Keep : q = 2 * p
        BY <2>4
    <3>2. (q + 1) \div 2 = p /\ q % 2 # 1
        BY <2>4, <3>1
    <3>3. Renumbered(kept)[q] = TurnRow("end", p + 1, kept[p])
        BY <1>7, <3>2
    <3> QED  BY <2>3, <3>1, <3>3
  <2>6. 2 * p + 2 \in DOMAIN plan /\ plan[2 * p + 2] = Renumbered(kept)[2 * p]
      BY <1>1, <1>10, <1>11, <2>2, <2>4
  <2> QED  BY <2>5, <2>6 DEF TurnRow
<1> QED  BY <1>10, <1>13, <1>14, <1>15, <1>16 DEF plan

-----------------------------------------------------------------------------
(* What a list of rows says, and one more row *)

Ended(rows, turn) == \E i \in DOMAIN rows : rows[i].kind = "end" /\ rows[i].turn = turn
IdsBelow(rows, id) == \A i \in DOMAIN rows : rows[i].id < id
PastKept(rows) == \E i \in DOMAIN rows : rows[i].id > Keep

LEMMA EmptyRows ==
    IdsIncrease(<<>>) /\ \A id : IdsBelow(<<>>, id)
<1>1. DOMAIN <<>> = {}
    OBVIOUS
<1> QED  BY <1>1 DEF IdsIncrease, IdsBelow

LEMMA OneMoreRow ==
    ASSUME NEW rows \in Seq(LogRow), NEW x \in LogRow
    PROVE  /\ \A turn : Ended(rows, turn) => Ended(Append(rows, x), turn)
           /\ x.kind = "end" => Ended(Append(rows, x), x.turn)
           /\ \A id : IdsBelow(rows, id) /\ x.id < id => IdsBelow(Append(rows, x), id)
           /\ IdsIncrease(rows) /\ (x.kind = "start" => IdsBelow(rows, x.id))
                  => IdsIncrease(Append(rows, x))
           /\ PastKept(rows) => PastKept(Append(rows, x))
<1> DEFINE s == Append(rows, x)
<1>1. /\ Len(rows) \in Nat /\ DOMAIN rows = 1 .. Len(rows)
      /\ DOMAIN s = 1 .. Len(rows) + 1 /\ s[Len(rows) + 1] = x
      /\ \A i \in 1 .. Len(rows) : s[i] = rows[i]
    BY AppendProperties, LenProperties
<1> HIDE DEF s
<1>2. /\ \A i \in DOMAIN rows : i \in DOMAIN s
      /\ \A i \in DOMAIN s : i \in DOMAIN rows \/ i = Len(rows) + 1
      /\ Len(rows) + 1 \in DOMAIN s
    BY <1>1
<1>3. \A turn : Ended(rows, turn) => Ended(s, turn)
    BY <1>1, <1>2 DEF Ended
<1>4. x.kind = "end" => Ended(s, x.turn)
    BY <1>1, <1>2 DEF Ended
<1>5. \A id : IdsBelow(rows, id) /\ x.id < id => IdsBelow(s, id)
    BY <1>1, <1>2 DEF IdsBelow
<1>6. ASSUME IdsIncrease(rows), x.kind = "start" => IdsBelow(rows, x.id)
      PROVE  IdsIncrease(s)
  <2> SUFFICES ASSUME NEW i \in DOMAIN s, NEW j \in DOMAIN s, i < j,
                      s[i].kind = "start", s[j].kind = "start"
               PROVE  s[i].id < s[j].id
      BY DEF IdsIncrease
  <2>1. i \in DOMAIN rows /\ s[i] = rows[i]
      BY <1>1
  <2>2. CASE j \in DOMAIN rows
      BY <1>1, <1>6, <2>1, <2>2 DEF IdsIncrease
  <2>3. CASE j = Len(rows) + 1
      BY <1>1, <1>6, <2>1, <2>3 DEF IdsBelow
  <2> QED  BY <1>2, <2>2, <2>3
<1>7. PastKept(rows) => PastKept(s)
    BY <1>1, <1>2 DEF PastKept
<1> QED  BY <1>3, <1>4, <1>5, <1>6, <1>7 DEF s

LEMMA TwoParts ==
    ASSUME NEW s \in Seq(LogRow), NEW r \in Seq(LogRow)
    PROVE  /\ \A turn : Ended(s \o r, turn) <=> Ended(s, turn) \/ Ended(r, turn)
           /\ IdsIncrease(s \o r) => IdsIncrease(s) /\ IdsIncrease(r)
           /\ \A id : IdsBelow(s \o r, id) <=> IdsBelow(s, id) /\ IdsBelow(r, id)
           /\ PastKept(r) => PastKept(s \o r)
<1> DEFINE t == s \o r
<1>1. PICK m \in Nat, n \in Nat : m = Len(s) /\ n = Len(r)
    BY LenProperties
<1>2. /\ DOMAIN s = 1 .. m /\ DOMAIN r = 1 .. n /\ DOMAIN t = 1 .. m + n
      /\ \A i \in 1 .. m + n : t[i] = IF i <= m THEN s[i] ELSE r[i - m]
  <2>1. /\ t \in Seq(LogRow) /\ Len(t) = m + n
        /\ \A i \in 1 .. m + n : t[i] = IF i <= m THEN s[i] ELSE r[i - m]
      BY <1>1, ConcatProperties
  <2> HIDE DEF t
  <2> QED  BY <1>1, <2>1, LenProperties
<1> HIDE DEF t
<1>3. /\ \A i \in DOMAIN s : i \in DOMAIN t /\ t[i] = s[i]
      /\ \A i \in DOMAIN r : m + i \in DOMAIN t /\ t[m + i] = r[i]
    BY <1>2
<1>4. ASSUME NEW i \in DOMAIN t
      PROVE  (i \in DOMAIN s /\ t[i] = s[i]) \/ \E j \in DOMAIN r : t[i] = r[j]
  <2>1. CASE i <= m
      BY <1>2, <2>1
  <2>2. CASE i > m
    <3>1. i - m \in DOMAIN r
        BY <1>2, <2>2
    <3> QED  BY <1>2, <2>2, <3>1
  <2> QED  BY <1>2, <2>1, <2>2
<1>5. \A turn : Ended(t, turn) <=> Ended(s, turn) \/ Ended(r, turn)
    BY <1>3, <1>4 DEF Ended
<1>6. ASSUME IdsIncrease(t) PROVE IdsIncrease(s) /\ IdsIncrease(r)
  <2>1. IdsIncrease(s)
      BY <1>3, <1>6 DEF IdsIncrease
  <2>2. ASSUME NEW i \in DOMAIN r, NEW j \in DOMAIN r, i < j,
               r[i].kind = "start", r[j].kind = "start"
        PROVE  r[i].id < r[j].id
    <3>1. m + i < m + j
        BY <1>2, <2>2
    <3> QED  BY <1>3, <1>6, <2>2, <3>1 DEF IdsIncrease
  <2> QED  BY <2>1, <2>2 DEF IdsIncrease
<1>7. PastKept(r) => PastKept(t)
    BY <1>3 DEF PastKept
<1>8. \A id : IdsBelow(t, id) <=> IdsBelow(s, id) /\ IdsBelow(r, id)
    BY <1>3, <1>4 DEF IdsBelow
<1> QED  BY <1>5, <1>6, <1>7, <1>8 DEF t

LEMMA ConcatAppend ==
    ASSUME NEW T, NEW s \in Seq(T), NEW r \in Seq(T), NEW x \in T
    PROVE  s \o Append(r, x) = Append(s \o r, x)
<1>1. <<x>> \in Seq(T)
    OBVIOUS
<1>2. s \o r \in Seq(T)
    BY ConcatProperties
<1>3. Append(r, x) = r \o <<x>> /\ Append(s \o r, x) = (s \o r) \o <<x>>
    BY <1>2, AppendIsConcat
<1> QED  BY <1>1, <1>3, ConcatAssociative

\* A file that is worth compacting has an id above those the compaction gives.
LEMMA WorthPastKept ==
    ASSUME NEW rows \in Seq(LogRow), IdsIncrease(rows), WorthCompacting(rows)
    PROVE  PastKept(rows)
<1>1. PICK n \in Nat : Counted(rows, n)
    BY TurnsCount
<1>2. n > Threshold /\ Keep \in Nat \ {0} /\ Threshold \in Nat /\ Keep < Threshold
    BY <1>1, LogFileAssumption DEF WorthCompacting, CompleteTurns, Counted
<1>3. HasId(rows, n - 1) /\ n - 1 > Keep
    BY <1>1, <1>2 DEF Counted
<1>4. PICK i \in 1 .. Len(rows) : rows[i].id >= n - 1
    BY <1>3 DEF HasId
<1>5. i \in DOMAIN rows /\ rows[i] \in LogRow
    BY <1>4, LenProperties
<1>6. rows[i].id \in Nat
    BY <1>5 DEF LogRow
<1>7. rows[i].id > Keep
    BY <1>2, <1>3, <1>4, <1>6
<1> QED  BY <1>5, <1>7 DEF PastKept

-----------------------------------------------------------------------------
(* The invariants *)

Rows == Stream(Append(rolled, current))

LiveGen(n) == [live : {TRUE}, mirror : Seq(RowsOf(n)), counter : Nat, path : BOOLEAN,
               turn : 0 .. n, id : Nat]
Compacting(n) == [at : {"idle", "evicted", "summary"}, read : Seq(RowsOf(n)),
                  rebind : BOOLEAN, stale : BOOLEAN]

\* Every row of every file, mirror and reading is readable and of a turn that has
\* begun.
FilesInv ==
    /\ begun \in Nat /\ clearing \in BOOLEAN
    /\ crossed \in BOOLEAN /\ cutBehind \in BOOLEAN /\ revived \in BOOLEAN
    /\ current \in Seq(RowsOf(begun)) /\ rolled \in Seq(Seq(RowsOf(begun)))
    /\ gen \in {NoGen} \cup LiveGen(begun)
    /\ compaction \in [Compactors -> Compacting(begun)]
    /\ unsaved \subseteq RowsOf(begun)

\* Between the two steps of a clear nothing is current, shown or written.
ClearingInv ==
    clearing => /\ current = <<>> /\ gen = Open(<<>>, 0) /\ unsaved = {} /\ written = {}
                /\ \A c \in Compactors : compaction[c].at = "summary" => compaction[c].stale

\* Unless a compaction replaced a file under it, a generation writes to the path,
\* and the files are what it shows without what failed; its turn in flight has
\* no end yet.
Unended(turn) ==
    /\ \A r \in unsaved : ~(r.kind = "end" /\ r.turn = turn)
    /\ ~Ended(gen.mirror, turn)
MirrorInv ==
    gen.live => /\ gen.turn # Summary => Unended(gen.turn)
                /\ ~crossed => gen.path
                /\ ~crossed /\ ~clearing => Rows = Saved(gen.mirror, unsaved)

\* What was written has its end in the files, unless a summary tells of it.
WrittenInv == ~crossed => \A t \in written \ folded : Ended(Rows, t)

\* Ids increase in the current file and, as long as no compaction has replaced it in
\* front of segments, in all of them; the counter is above them; a compaction that
\* waits for its summary will give no id that is above the counter.
SoundIds ==
    /\ IdsIncrease(current)
    /\ ~cutBehind => IdsIncrease(Rows)
    /\ gen.live /\ ~clearing => IdsBelow(Rows, gen.counter)
    /\ \A c \in Compactors :
           compaction[c].at = "summary" /\ ~compaction[c].stale => PastKept(Rows)
IdsInv ==
    /\ gen.live /\ gen.turn # Summary => gen.id < gen.counter
    /\ \A c \in Compactors :
           compaction[c].at = "summary" => WorthCompacting(compaction[c].read)
    /\ ~revived => SoundIds

Sound == FilesInv /\ ClearingInv /\ MirrorInv /\ WrittenInv /\ IdsInv

\* All of it holds as long as no write was cut short.
IInv == tears \in Nat /\ (tears = 0 => Sound)

LEMMA RowsAre ==
    ASSUME FilesInv
    PROVE  /\ Rows = Stream(rolled) \o current /\ Stream(rolled) \in Seq(RowsOf(begun))
           /\ Rows \in Seq(RowsOf(begun)) /\ Replay = Rows
<1>1. /\ Stream(rolled) \in Seq(RowsOf(begun)) /\ Rows \in Seq(RowsOf(begun))
      /\ Rows = Stream(rolled) \o current
    BY StreamOfFiles DEF FilesInv, Rows
<1> QED  BY <1>1, ReadableFile DEF Replay, Rows

LEMMA RowsOfAreRows ==
    ASSUME NEW n, NEW rows \in Seq(RowsOf(n)) PROVE rows \in Seq(LogRow)
  BY SeqMonotonic DEF RowsOf

LEMMA GenLive ==
    ASSUME FilesInv
    PROVE  /\ gen.live \in BOOLEAN /\ (gen.live => gen \in LiveGen(begun))
           /\ NoGen.live = FALSE
<1>1. NoGen.live = FALSE
    BY DEF NoGen
<1>2. CASE gen = NoGen
    BY <1>1, <1>2
<1>3. CASE gen \in LiveGen(begun)
    BY <1>1, <1>3 DEF LiveGen
<1> QED  BY <1>1, <1>2, <1>3 DEF FilesInv

\* A generation as it is opened.
LEMMA Opened ==
    ASSUME NEW n \in Nat, NEW rows \in Seq(RowsOf(n)), NEW id \in Nat
    PROVE  /\ Open(rows, id) \in LiveGen(n)
           /\ Open(rows, id).live /\ Open(rows, id).path /\ Open(rows, id).turn = Summary
           /\ Open(rows, id).mirror = rows /\ Open(rows, id).counter = id
  BY DEF Open, LiveGen, Summary

-----------------------------------------------------------------------------
(* The steps: those that leave the files as they are *)

LEMMA SameFiles ==
    ASSUME Sound, ~clearing, UNCHANGED <<current, rolled, clearing, history>>,
           compaction' \in [Compactors -> Compacting(begun)],
           \A c \in Compactors : compaction'[c].at = "summary" =>
               \/ compaction'[c] = compaction[c]
               \/ compaction'[c].read = current /\ WorthCompacting(current),
           \/ UNCHANGED <<gen, unsaved>>
           \/ gen' = NoGen /\ unsaved' = unsaved
           \/ gen' = Open(Rows, NextTurnNumber(Rows)) /\ unsaved' = {}
    PROVE  Sound'
<1>1. /\ begun' = begun /\ written' = written /\ folded' = folded /\ crossed' = crossed
      /\ cutBehind' = cutBehind /\ revived' = revived
      /\ current' = current /\ rolled' = rolled /\ clearing' = FALSE /\ Rows' = Rows
    BY DEF history, Rows, Sound, FilesInv
<1>2. /\ Rows \in Seq(RowsOf(begun)) /\ Rows \in Seq(LogRow) /\ begun \in Nat
      /\ Rows = Stream(rolled) \o current /\ Stream(rolled) \in Seq(LogRow)
      /\ current \in Seq(LogRow)
    BY RowsAre, RowsOfAreRows DEF Sound, FilesInv
<1>3. /\ NextTurnNumber(Rows) \in Nat /\ IdsBelow(Rows, NextTurnNumber(Rows))
    BY <1>2, NextIsAbove DEF IdsBelow
<1> DEFINE opened == Open(Rows, NextTurnNumber(Rows))
<1>4. /\ opened \in LiveGen(begun) /\ opened.live /\ opened.path /\ opened.turn = Summary
      /\ opened.mirror = Rows /\ opened.counter = NextTurnNumber(Rows)
  <2>1. begun \in Nat /\ Rows \in Seq(RowsOf(begun)) /\ NextTurnNumber(Rows) \in Nat
      BY <1>2, <1>3
  <2> QED  BY ONLY <2>1, Opened
<1> HIDE DEF opened
<1>5. \/ gen' = gen /\ unsaved' = unsaved
      \/ gen' = NoGen /\ unsaved' = unsaved
      \/ gen' = opened /\ unsaved' = {}
    BY DEF opened
<1>6. NoGen.live = FALSE
    BY DEF NoGen
<1>7. FilesInv'
    BY <1>1, <1>4, <1>5 DEF Sound, FilesInv
<1>8. ClearingInv'
    BY <1>1 DEF ClearingInv
<1>9. MirrorInv'
  <2>1. CASE gen' = gen /\ unsaved' = unsaved
      BY <1>1, <2>1 DEF Sound, MirrorInv, Unended
  <2>2. CASE gen' = NoGen
      BY <1>6, <2>2 DEF MirrorInv
  <2>3. CASE gen' = opened /\ unsaved' = {}
    <3>1. Saved(Rows, {}) = Rows
        BY <1>2, SavedNone
    <3> QED  BY <1>1, <1>4, <2>3, <3>1 DEF MirrorInv
  <2> QED  BY <1>5, <2>1, <2>2, <2>3
<1>10. WrittenInv'
    BY <1>1 DEF Sound, WrittenInv
<1>11. IdsInv'
  <2>1. gen'.live /\ gen'.turn # Summary => gen'.id < gen'.counter
      BY <1>4, <1>5, <1>6 DEF Sound, IdsInv
  <2>2. \A c \in Compactors : compaction'[c].at = "summary" => WorthCompacting(compaction'[c].read)
      BY DEF Sound, IdsInv
  <2>3. ASSUME ~revived PROVE SoundIds'
    <3>1. SoundIds
        BY <2>3 DEF Sound, IdsInv
    <3>2. gen'.live => IdsBelow(Rows, gen'.counter)
        BY <1>1, <1>3, <1>4, <1>5, <1>6, <3>1 DEF SoundIds
    <3>3. WorthCompacting(current) => PastKept(Rows)
        BY <1>2, <3>1, WorthPastKept, TwoParts DEF SoundIds
    <3>4. \A c \in Compactors :
              compaction'[c].at = "summary" /\ ~compaction'[c].stale => PastKept(Rows)
        BY <3>1, <3>3 DEF SoundIds
    <3> QED  BY <1>1, <3>1, <3>2, <3>4 DEF SoundIds
  <2> QED  BY <1>1, <2>1, <2>2, <2>3 DEF IdsInv
<1> QED  BY <1>7, <1>8, <1>9, <1>10, <1>11 DEF Sound

\* What opening the log of the session as it is does.
LEMMA OpensSession ==
    ASSUME Sound, OpenLog(Append(rolled, current))
    PROVE  /\ rolled' = rolled /\ current' = current /\ unsaved' = {}
           /\ gen' = Open(Rows, NextTurnNumber(Rows))
<1>1. rolled \in Seq(Seq(RowsOf(begun))) /\ current \in Seq(RowsOf(begun))
    BY DEF Sound, FilesInv
<1> QED  BY <1>1, OpensClean DEF Rows

LEMMA ComposeStep == Sound /\ Compose => Sound'
<1> SUFFICES ASSUME Sound, Compose PROVE Sound'
    OBVIOUS
<1>1. /\ rolled' = rolled /\ current' = current /\ unsaved' = {}
      /\ gen' = Open(Rows, NextTurnNumber(Rows))
    BY OpensSession DEF Compose
<1>2. ~clearing /\ UNCHANGED <<clearing, compaction, history>>
    BY DEF Compose
<1>3. compaction' \in [Compactors -> Compacting(begun)]
    BY <1>2 DEF Sound, FilesInv
<1> QED  BY <1>1, <1>2, <1>3, SameFiles

LEMMA EvictStep == Sound /\ Evict => Sound'
<1> SUFFICES ASSUME Sound, Evict PROVE Sound'
    OBVIOUS
<1>1. /\ ~clearing /\ UNCHANGED <<current, rolled, clearing, compaction, history>>
      /\ gen' = NoGen /\ unsaved' = unsaved
    BY DEF Evict, disk
<1>2. compaction' \in [Compactors -> Compacting(begun)]
    BY <1>1 DEF Sound, FilesInv
<1> QED  BY <1>1, <1>2, SameFiles

\* One compaction moves on, the others stay.
LEMMA Moved ==
    ASSUME Sound, NEW c \in Compactors, NEW state \in Compacting(begun), Moves(c, state)
    PROVE  /\ compaction' \in [Compactors -> Compacting(begun)]
           /\ compaction'[c] = state
           /\ \A d \in Compactors : d # c => compaction'[d] = compaction[d]
           /\ compaction[c] \in Compacting(begun)
  BY DEF Moves, Sound, FilesInv

LEMMA IdleType == \A n : NotCompacting \in Compacting(n)
<1>1. \A n : <<>> \in Seq(RowsOf(n))
    BY EmptySeq
<1> QED  BY <1>1 DEF NotCompacting, Compacting

LEMMA CompactEvictsStep ==
    ASSUME Sound, NEW c \in Compactors, CompactEvicts(c) PROVE Sound'
<1> DEFINE state == [NotCompacting EXCEPT !.at = "evicted", !.rebind = gen.live]
<1>1. state \in Compacting(begun) /\ state.at = "evicted"
  <2>1. gen.live \in BOOLEAN
      BY GenLive DEF Sound
  <2> QED  BY <2>1, IdleType DEF Compacting, NotCompacting
<1>2. /\ ~clearing /\ UNCHANGED <<current, rolled, clearing, history>>
      /\ gen' = NoGen /\ unsaved' = unsaved /\ Moves(c, state)
    BY DEF CompactEvicts, disk
<1> HIDE DEF state
<1>3. /\ compaction' \in [Compactors -> Compacting(begun)] /\ compaction'[c] = state
      /\ \A d \in Compactors : d # c => compaction'[d] = compaction[d]
    BY <1>1, <1>2, Moved
<1>4. \A d \in Compactors : compaction'[d].at = "summary" => compaction'[d] = compaction[d]
    BY <1>1, <1>3
<1> QED  BY <1>2, <1>3, <1>4, SameFiles

LEMMA CompactReadsStep ==
    ASSUME Sound, NEW c \in Compactors, CompactReads(c) PROVE Sound'
<1> DEFINE state == [compaction[c] EXCEPT !.at = "summary", !.read = current]
<1>1. current \in Seq(RowsOf(begun)) /\ ValidPrefix(current) = current
    BY ReadableFile DEF Sound, FilesInv
<1>2. /\ ~clearing /\ UNCHANGED <<current, rolled, clearing, history, gen, unsaved>>
      /\ WorthCompacting(current) /\ Moves(c, state)
    BY <1>1 DEF CompactReads, disk
<1>3. state \in Compacting(begun) /\ state.read = current
    BY <1>1 DEF Sound, FilesInv, Compacting
<1> HIDE DEF state
<1>4. /\ compaction' \in [Compactors -> Compacting(begun)] /\ compaction'[c] = state
      /\ \A d \in Compactors : d # c => compaction'[d] = compaction[d]
    BY <1>2, <1>3, Moved
<1>5. \A d \in Compactors :
          compaction'[d] = compaction[d] \/ compaction'[d].read = current
    BY <1>3, <1>4
<1> QED  BY <1>2, <1>4, <1>5, SameFiles

LEMMA CompactSkipsStep ==
    ASSUME Sound, NEW c \in Compactors, CompactSkips(c) PROVE Sound'
<1>1. ~clearing /\ UNCHANGED <<clearing, history>> /\ Moves(c, NotCompacting)
    BY DEF CompactSkips
<1>2. /\ rolled' = rolled /\ current' = current
      /\ \/ UNCHANGED <<gen, unsaved>>
         \/ gen' = Open(Rows, NextTurnNumber(Rows)) /\ unsaved' = {}
  <2>1. CASE compaction[c].rebind /\ ~gen.live
      BY <2>1, OpensSession DEF CompactSkips
  <2>2. CASE ~(compaction[c].rebind /\ ~gen.live)
      BY <2>2 DEF CompactSkips
  <2> QED  BY <2>1, <2>2
<1>3. /\ compaction' \in [Compactors -> Compacting(begun)] /\ compaction'[c] = NotCompacting
      /\ \A d \in Compactors : d # c => compaction'[d] = compaction[d]
    BY <1>1, IdleType, Moved
<1>4. \A d \in Compactors : compaction'[d].at = "summary" => compaction'[d] = compaction[d]
    BY <1>3 DEF NotCompacting
<1> QED  BY <1>1, <1>2, <1>3, <1>4, SameFiles

LEMMA CompactFailsStep ==
    ASSUME Sound, NEW c \in Compactors, CompactFails(c) PROVE Sound'
<1>1. /\ ~clearing /\ UNCHANGED <<current, rolled, clearing, history, gen, unsaved>>
      /\ Moves(c, NotCompacting)
    BY DEF CompactFails, disk
<1>2. /\ compaction' \in [Compactors -> Compacting(begun)] /\ compaction'[c] = NotCompacting
      /\ \A d \in Compactors : d # c => compaction'[d] = compaction[d]
    BY <1>1, IdleType, Moved
<1>3. \A d \in Compactors : compaction'[d].at = "summary" => compaction'[d] = compaction[d]
    BY <1>2 DEF NotCompacting
<1> QED  BY <1>1, <1>2, <1>3, SameFiles

-----------------------------------------------------------------------------
(* The steps: a row is appended *)

\* What an append leaves, unless its write is cut short.
LEMMA Appends ==
    ASSUME Sound, gen.live, begun' \in Nat, begun <= begun',
           NEW row \in RowsOf(begun'), NEW outcome \in {"ok", "fails"}, NEW renamed \in BOOLEAN,
           AppendRow(row, outcome, renamed)
    PROVE  /\ current' \in Seq(RowsOf(begun')) /\ rolled' \in Seq(Seq(RowsOf(begun')))
           /\ current' \in {<<>>, current, Append(<<>>, row), Append(current, row)}
           /\ gen.path => gen'.path
           /\ Rows' = IF outcome = "ok" /\ gen'.path THEN Append(Rows, row) ELSE Rows
           /\ gen'.path \in BOOLEAN
           /\ gen' = [gen EXCEPT !.mirror = Append(gen.mirror, row), !.path = gen'.path,
                                 !.counter = IF row.kind = "start" THEN gen.counter + 1
                                             ELSE gen.counter,
                                 !.turn = IF row.kind = "start" THEN row.turn ELSE Summary,
                                 !.id = row.id]
           /\ unsaved' = IF outcome = "ok" THEN unsaved ELSE unsaved \cup {row}
           /\ UNCHANGED <<clearing, compaction, folded, crossed, cutBehind, revived>>
<1> DEFINE large  == Large(current)
           roll   == large /\ renamed
           onPath == large \/ gen.path
           file   == IF roll THEN <<>> ELSE current
           Row    == RowsOf(begun')
<1>1. /\ rolled' = IF roll THEN Append(rolled, current) ELSE rolled
      /\ current' = IF onPath THEN Written(file, row, outcome) ELSE file
      /\ gen' = [gen EXCEPT !.mirror = Append(gen.mirror, row), !.path = onPath,
                            !.counter = IF row.kind = "start" THEN gen.counter + 1
                                        ELSE gen.counter,
                            !.turn = IF row.kind = "start" THEN row.turn ELSE Summary,
                            !.id = row.id]
      /\ unsaved' = IF outcome = "ok" THEN unsaved ELSE unsaved \cup {row}
      /\ UNCHANGED <<clearing, compaction, folded, crossed, cutBehind, revived>>
    BY DEF AppendRow, Rolled
<1>2. onPath \in BOOLEAN /\ (gen.path => onPath)
  <2>1. gen.path \in BOOLEAN
      BY GenLive DEF Sound, LiveGen
  <2> QED  BY <2>1 DEF Large
<1>3. gen'.path = onPath
  <2>1. gen \in LiveGen(begun)
      BY GenLive DEF Sound
  <2> QED  BY <1>1, <2>1 DEF LiveGen
<1>4. rolled \in Seq(Seq(Row)) /\ current \in Seq(Row) /\ <<>> \in Seq(Row)
    BY RowsOfGrows, EmptySeq DEF Sound, FilesInv
<1>5. file \in Seq(Row) /\ rolled' \in Seq(Seq(Row))
    BY <1>1, <1>4, AppendProperties
<1>6. Stream(Append(rolled', file)) = Rows
  <2>1. CASE roll
    <3>1. Stream(Append(rolled', <<>>)) = Stream(rolled') \o <<>> /\ Stream(rolled') \in Seq(Row)
        BY <1>4, <1>5, StreamOfFiles
    <3>2. Stream(rolled') = Rows
        BY <1>1, <2>1 DEF Rows
    <3> QED  BY <2>1, <3>1, <3>2, ConcatEmptySeq
  <2>2. CASE ~roll
      BY <1>1, <2>2 DEF Rows
  <2> QED  BY <2>1, <2>2
<1>10. file = <<>> \/ file = current
    OBVIOUS
<1> HIDE DEF large, roll, onPath, file
<1>7. current' = IF outcome = "ok" /\ onPath THEN Append(file, row) ELSE file
  <2>1. ~EndsTorn(file)
      BY <1>5, ReadableFile
  <2> QED  BY <1>1, <2>1 DEF Written
<1>8. current' \in Seq(Row)
    BY <1>5, <1>7, AppendProperties
<1>9. Rows' = IF outcome = "ok" /\ onPath THEN Append(Rows, row) ELSE Rows
  <2>1. CASE outcome = "ok" /\ onPath
    <3>1. Stream(Append(rolled', file)) = Stream(rolled') \o file /\ Stream(rolled') \in Seq(Row)
        BY <1>5, StreamOfFiles
    <3>2. Append(file, row) \in Seq(Row)
        BY <1>5, AppendProperties
    <3>3. Stream(Append(rolled', Append(file, row))) = Stream(rolled') \o Append(file, row)
      <4>1. \A f \in Seq(Row) : Stream(Append(rolled', f)) = Stream(rolled') \o f
          BY <1>5, StreamOfFiles
      <4> HIDE DEF Row
      <4> QED  BY <3>2, <4>1
    <3>4. Rows' = Stream(Append(rolled', Append(file, row)))
        BY <1>7, <2>1 DEF Rows
    <3> QED  BY <1>5, <1>6, <2>1, <3>1, <3>3, <3>4, ConcatAppend
  <2>2. CASE ~(outcome = "ok" /\ onPath)
      BY <1>6, <1>7, <2>2 DEF Rows
  <2> QED  BY <2>1, <2>2
<1>11. current' \in {<<>>, current, Append(<<>>, row), Append(current, row)}
    BY <1>7, <1>10
<1> QED  BY <1>1, <1>2, <1>3, <1>5, <1>8, <1>9, <1>11

\* What appending a row of a turn asks of it: it is new among the rows that are
\* shown, and a start has the counter's id, an end that of its start.
LEMMA AppendStep ==
    ASSUME Sound, ~clearing, gen.live, begun' \in Nat, begun <= begun',
           NEW row \in RowsOf(begun'), NEW outcome \in {"ok", "fails"}, NEW renamed \in BOOLEAN,
           AppendRow(row, outcome, renamed),
           row \notin unsaved, \A i \in 1 .. Len(gen.mirror) : gen.mirror[i] # row,
           \/ /\ row.kind = "start" /\ row.id = gen.counter /\ row.turn # Summary
              /\ Unended(row.turn) /\ written' = written
           \/ /\ row.kind = "end" /\ row.id < gen.counter
              /\ \/ written' = written
                 \/ outcome = "ok" /\ written' = written \cup {row.turn}
    PROVE  Sound'
<1>1. /\ current' \in Seq(RowsOf(begun')) /\ rolled' \in Seq(Seq(RowsOf(begun')))
      /\ current' \in {<<>>, current, Append(<<>>, row), Append(current, row)}
      /\ gen.path => gen'.path
      /\ Rows' = IF outcome = "ok" /\ gen'.path THEN Append(Rows, row) ELSE Rows
      /\ gen'.path \in BOOLEAN
      /\ gen' = [gen EXCEPT !.mirror = Append(gen.mirror, row), !.path = gen'.path,
                            !.counter = IF row.kind = "start" THEN gen.counter + 1
                                        ELSE gen.counter,
                            !.turn = IF row.kind = "start" THEN row.turn ELSE Summary,
                            !.id = row.id]
      /\ unsaved' = IF outcome = "ok" THEN unsaved ELSE unsaved \cup {row}
      /\ UNCHANGED <<clearing, compaction, folded, crossed, cutBehind, revived>>
    BY Appends
<1>2. /\ gen \in LiveGen(begun) /\ begun \in Nat
      /\ Rows \in Seq(RowsOf(begun)) /\ Rows \in Seq(LogRow)
    BY GenLive, RowsAre, RowsOfAreRows DEF Sound, FilesInv
<1>3. /\ row \in LogRow /\ row.id \in Nat /\ row.turn \in Nat /\ row.turn <= begun'
      /\ row.kind \in {"start", "end"}
    BY DEF RowsOf, LogRow, IsReadable
<1>4. /\ gen.mirror \in Seq(RowsOf(begun)) /\ gen.mirror \in Seq(RowsOf(begun'))
      /\ gen.mirror \in Seq(LogRow) /\ gen.counter \in Nat
      /\ gen.path \in BOOLEAN /\ gen.turn \in 0 .. begun /\ gen.id \in Nat
    BY <1>2, RowsOfGrows, RowsOfAreRows DEF LiveGen
<1>5. /\ gen'.live = TRUE /\ gen'.mirror = Append(gen.mirror, row)
      /\ gen'.counter = IF row.kind = "start" THEN gen.counter + 1 ELSE gen.counter
      /\ gen'.turn = IF row.kind = "start" THEN row.turn ELSE Summary
      /\ gen'.id = row.id
    BY <1>1, <1>2 DEF LiveGen
<1>6. FilesInv'
  <2>1. gen' \in LiveGen(begun')
    <3>1. Append(gen.mirror, row) \in Seq(RowsOf(begun'))
        BY <1>4, AppendProperties
    <3>2. (IF row.kind = "start" THEN gen.counter + 1 ELSE gen.counter) \in Nat
        BY <1>4
    <3>3. (IF row.kind = "start" THEN row.turn ELSE Summary) \in 0 .. begun'
        BY <1>3 DEF Summary
    <3> QED  BY <1>1, <1>2, <1>3, <3>1, <3>2, <3>3 DEF LiveGen
  <2>2. compaction' \in [Compactors -> Compacting(begun')]
    <3>1. Compacting(begun) \subseteq Compacting(begun')
        BY <1>2, RowsOfGrows DEF Compacting
    <3> QED  BY <1>1, <3>1 DEF Sound, FilesInv
  <2>3. unsaved' \subseteq RowsOf(begun')
      BY <1>1, <1>2, RowsOfGrows DEF Sound, FilesInv
  <2> QED  BY <1>1, <2>1, <2>2, <2>3 DEF Sound, FilesInv
<1>7. ClearingInv'
    BY <1>1 DEF ClearingInv
<1>8. MirrorInv'
  <2>1. gen'.turn # Summary => Unended(gen.turn)'
    <3> SUFFICES ASSUME gen'.turn # Summary PROVE Unended(gen.turn)'
        OBVIOUS
    <3>1. row.kind = "start" /\ gen'.turn = row.turn /\ Unended(row.turn)
        BY <1>5
    <3>2. \A r \in unsaved' : ~(r.kind = "end" /\ r.turn = row.turn)
        BY <1>1, <3>1 DEF Unended
    <3>3. ~Ended(gen'.mirror, row.turn)
      <4> DEFINE s == Append(gen.mirror, row)
      <4>1. /\ DOMAIN gen.mirror = 1 .. Len(gen.mirror) /\ DOMAIN s = 1 .. Len(gen.mirror) + 1
            /\ Len(gen.mirror) \in Nat /\ s[Len(gen.mirror) + 1] = row
            /\ \A i \in 1 .. Len(gen.mirror) : s[i] = gen.mirror[i]
          BY <1>3, <1>4, AppendProperties, LenProperties
      <4> HIDE DEF s
      <4>2. \A i \in DOMAIN s : i \in DOMAIN gen.mirror \/ s[i] = row
          BY <4>1
      <4>3. ~Ended(s, row.turn)
          BY <3>1, <4>1, <4>2 DEF Ended, Unended
      <4> QED  BY <1>5, <4>3 DEF s
    <3> QED  BY <3>1, <3>2, <3>3 DEF Unended
  <2>2. ~crossed' => gen'.path
      BY <1>1 DEF Sound, MirrorInv
  <2>3. ASSUME ~crossed PROVE Rows' = Saved(gen'.mirror, unsaved')
    <3>1. Rows = Saved(gen.mirror, unsaved) /\ gen'.path
        BY <1>1, <2>3 DEF Sound, MirrorInv
    <3>2. CASE outcome = "ok"
      <4>1. Saved(Append(gen.mirror, row), unsaved) = Append(Saved(gen.mirror, unsaved), row)
          BY <1>3, <1>4, SavedStep
      <4> QED  BY <1>1, <1>5, <3>1, <3>2, <4>1
    <3>3. CASE outcome = "fails"
      <4> DEFINE failed == unsaved \cup {row}
      <4>1. row \in failed
          OBVIOUS
      <4> HIDE DEF failed
      <4>2. Saved(Append(gen.mirror, row), failed) = Saved(gen.mirror, failed)
          BY <1>3, <1>4, <4>1, SavedStep
      <4>3. Saved(gen.mirror, failed) = Saved(gen.mirror, unsaved)
          BY <1>4, SavedFresh DEF failed
      <4> QED  BY <1>1, <1>5, <3>1, <3>3, <4>2, <4>3 DEF failed
    <3> QED  BY <3>2, <3>3
  <2> QED  BY <1>1, <2>1, <2>2, <2>3 DEF MirrorInv
<1>9. WrittenInv'
  <2> SUFFICES ASSUME ~crossed, NEW t \in written' \ folded PROVE Ended(Rows, t)'
      BY <1>1 DEF WrittenInv
  <2>1. gen'.path
      BY <1>1 DEF Sound, MirrorInv
  <2>2. CASE t \in written
    <3>1. Ended(Rows, t)
        BY <2>2 DEF Sound, WrittenInv
    <3>2. Ended(Append(Rows, row), t)
        BY <1>2, <1>3, <3>1, OneMoreRow
    <3>3. Rows' = Rows \/ Rows' = Append(Rows, row)
        BY <1>1
    <3> QED  BY <3>1, <3>2, <3>3 DEF Ended
  <2>3. CASE t \notin written
    <3>1. row.kind = "end" /\ outcome = "ok" /\ t = row.turn
        BY <2>3
    <3>2. Ended(Append(Rows, row), t)
        BY <1>2, <1>3, <3>1, OneMoreRow
    <3>3. Rows' = Append(Rows, row)
        BY <1>1, <2>1, <3>1
    <3> QED  BY <3>2, <3>3 DEF Ended
  <2> QED  BY <2>2, <2>3
<1>10. IdsInv'
  <2>1. gen'.turn # Summary => gen'.id < gen'.counter
      BY <1>4, <1>5
  <2>2. \A c \in Compactors : compaction'[c].at = "summary" => WorthCompacting(compaction'[c].read)
      BY <1>1 DEF Sound, IdsInv
  <2>3. ASSUME ~revived PROVE SoundIds'
    <3>1. SoundIds /\ IdsBelow(Rows, gen.counter)
        BY <2>3 DEF Sound, IdsInv, SoundIds
    <3>2. IdsBelow(Rows, gen'.counter) /\ row.id < gen'.counter
      <4>1. gen.counter <= gen'.counter /\ gen'.counter \in Nat /\ row.id < gen'.counter
          BY <1>3, <1>4, <1>5
      <4>2. \A i \in DOMAIN Rows : Rows[i].id \in Nat
        <5>1. \A i \in DOMAIN Rows : Rows[i] \in LogRow
            BY <1>2, LenProperties
        <5> QED  BY <5>1 DEF LogRow
      <4> QED  BY <1>4, <3>1, <4>1, <4>2 DEF IdsBelow
    <3>3. row.kind = "start" => IdsBelow(Rows, row.id)
        BY <3>1
    <3>4. IdsIncrease(current')
      <4>1. /\ Rows = Stream(rolled) \o current
            /\ Stream(rolled) \in Seq(LogRow) /\ current \in Seq(LogRow)
          BY <1>2, RowsAre, RowsOfAreRows DEF Sound, FilesInv
      <4>2. row.kind = "start" => IdsBelow(current, row.id)
          BY <3>3, <4>1, TwoParts
      <4>3. IdsIncrease(Append(current, row))
          BY <1>3, <3>1, <4>1, <4>2, OneMoreRow DEF SoundIds
      <4>4. IdsIncrease(<<>>) /\ IdsIncrease(Append(<<>>, row))
        <5>1. <<>> \in Seq(LogRow) /\ IdsIncrease(<<>>) /\ IdsBelow(<<>>, row.id)
            BY EmptySeq, EmptyRows
        <5> QED  BY <1>3, <5>1, OneMoreRow
      <4> QED  BY <1>1, <3>1, <4>3, <4>4 DEF SoundIds
    <3>5. CASE Rows' = Rows
        BY <1>1, <3>1, <3>2, <3>4, <3>5 DEF SoundIds
    <3>6. CASE Rows' = Append(Rows, row)
      <4>1. /\ ~cutBehind => IdsIncrease(Rows')
            /\ IdsBelow(Rows', gen'.counter)
            /\ PastKept(Rows) => PastKept(Rows')
          BY <1>2, <1>3, <3>1, <3>2, <3>3, <3>6, OneMoreRow DEF SoundIds
      <4> QED  BY <1>1, <3>1, <3>4, <4>1 DEF SoundIds
    <3> QED  BY <1>1, <3>5, <3>6
  <2> QED  BY <1>1, <2>1, <2>2, <2>3 DEF IdsInv
<1> QED  BY <1>6, <1>7, <1>8, <1>9, <1>10 DEF Sound

LEMMA TurnStartsStep ==
    ASSUME Sound, NEW outcome \in {"ok", "fails"}, NEW renamed \in BOOLEAN,
           TurnStarts(outcome, renamed)
    PROVE  Sound'
<1> DEFINE row == TurnRow("start", gen.counter, begun + 1)
<1>1. /\ ~clearing /\ gen.live /\ begun' = begun + 1 /\ written' = written
      /\ AppendRow(row, outcome, renamed)
    BY DEF TurnStarts
<1>2. /\ gen \in LiveGen(begun) /\ begun \in Nat /\ unsaved \subseteq RowsOf(begun)
      /\ gen.counter \in Nat /\ gen.mirror \in Seq(RowsOf(begun))
    BY <1>1, GenLive DEF Sound, FilesInv, LiveGen
<1>3. /\ row \in RowsOf(begun') /\ row.kind = "start" /\ row.id = gen.counter
      /\ row.turn = begun + 1 /\ row.turn # Summary
    BY <1>1, <1>2 DEF TurnRow, RowsOf, LogRow, IsReadable, Summary
<1>4. \A r \in RowsOf(begun) : r.turn # begun + 1
    BY <1>2 DEF RowsOf, LogRow
<1> HIDE DEF row
<1>5. /\ DOMAIN gen.mirror = 1 .. Len(gen.mirror)
      /\ \A i \in DOMAIN gen.mirror : gen.mirror[i] \in RowsOf(begun)
    BY <1>2, LenProperties
<1>6. row \notin unsaved /\ \A i \in 1 .. Len(gen.mirror) : gen.mirror[i] # row
    BY <1>2, <1>3, <1>4, <1>5
<1>7. Unended(row.turn)
    BY <1>2, <1>3, <1>4, <1>5 DEF Unended, Ended
<1>8. begun' \in Nat /\ begun <= begun'
    BY <1>1, <1>2
<1> QED  BY <1>1, <1>3, <1>6, <1>7, <1>8, AppendStep

LEMMA TurnEndsStep ==
    ASSUME Sound, NEW outcome \in {"ok", "fails"}, NEW renamed \in BOOLEAN,
           TurnEnds(outcome, renamed)
    PROVE  Sound'
<1> DEFINE row == TurnRow("end", gen.id, gen.turn)
<1>1. /\ ~clearing /\ gen.live /\ gen.turn # Summary /\ begun' = begun
      /\ AppendRow(row, outcome, renamed)
      /\ \/ written' = written
         \/ outcome = "ok" /\ written' = written \cup {gen.turn}
    BY DEF TurnEnds
<1>2. /\ gen \in LiveGen(begun) /\ begun \in Nat
      /\ gen.id \in Nat /\ gen.turn \in 0 .. begun /\ gen.mirror \in Seq(RowsOf(begun))
    BY <1>1, GenLive DEF Sound, FilesInv, LiveGen
<1>3. /\ row \in RowsOf(begun') /\ row.kind = "end" /\ row.id = gen.id /\ row.turn = gen.turn
    BY <1>1, <1>2 DEF TurnRow, RowsOf, LogRow, IsReadable
<1> HIDE DEF row
<1>4. Unended(gen.turn) /\ gen.id < gen.counter
    BY <1>1 DEF Sound, MirrorInv, IdsInv
<1>5. DOMAIN gen.mirror = 1 .. Len(gen.mirror)
    BY <1>2, LenProperties
<1>6. row \notin unsaved /\ \A i \in 1 .. Len(gen.mirror) : gen.mirror[i] # row
    BY <1>3, <1>4, <1>5 DEF Unended, Ended
<1>7. begun' \in Nat /\ begun <= begun'
    BY <1>1, <1>2
<1> QED  BY <1>1, <1>3, <1>4, <1>6, <1>7, AppendStep

-----------------------------------------------------------------------------
(* The steps: a clear, a crash, a compaction *)

LEMMA ClearTruncatesStep == Sound /\ ClearTruncates => Sound'
<1> SUFFICES ASSUME Sound, ClearTruncates PROVE Sound'
    OBVIOUS
<1>1. /\ gen.live /\ current' = <<>> /\ clearing' = TRUE /\ gen' = Open(<<>>, 0)
      /\ unsaved' = {} /\ written' = {}
      /\ compaction' = [c \in Compactors |->
                           [compaction[c] EXCEPT !.stale = compaction[c].at = "summary"]]
      /\ UNCHANGED <<rolled, begun, crossed, cutBehind, revived>>
    BY DEF ClearTruncates
<1>2. /\ begun \in Nat /\ <<>> \in Seq(RowsOf(begun)) /\ rolled \in Seq(Seq(RowsOf(begun)))
      /\ compaction \in [Compactors -> Compacting(begun)]
    BY EmptySeq DEF Sound, FilesInv
<1>3. /\ Open(<<>>, 0) \in LiveGen(begun) /\ Open(<<>>, 0).turn = Summary
      /\ Open(<<>>, 0).path
    BY <1>2, Opened
<1>4. ASSUME NEW c \in Compactors
      PROVE  /\ compaction'[c] \in Compacting(begun)
             /\ compaction'[c].at = compaction[c].at /\ compaction'[c].read = compaction[c].read
             /\ compaction'[c].at = "summary" => compaction'[c].stale
    BY <1>1, <1>2 DEF Compacting
<1>5. FilesInv'
  <2>1. compaction' \in [Compactors -> Compacting(begun)]
      BY <1>1, <1>4
  <2> QED  BY <1>1, <1>2, <1>3, <2>1 DEF Sound, FilesInv
<1>6. ClearingInv'
    BY <1>1, <1>4 DEF ClearingInv
<1>7. MirrorInv'
    BY <1>1, <1>3 DEF MirrorInv
<1>8. WrittenInv'
    BY <1>1 DEF WrittenInv
<1>9. IdsInv'
  <2>1. ASSUME ~cutBehind, ~revived PROVE IdsIncrease(Rows')
    <3>1. Stream(rolled) \in Seq(RowsOf(begun)) /\ Rows' = Stream(rolled) \o <<>>
        BY <1>1, <1>2, StreamOfFiles DEF Rows
    <3>2. Rows' = Stream(rolled)
        BY <3>1, ConcatEmptySeq
    <3>3. IdsIncrease(Rows) /\ Rows = Stream(rolled) \o current /\ current \in Seq(RowsOf(begun))
        BY <2>1, RowsAre DEF Sound, IdsInv, SoundIds, FilesInv
    <3>4. Stream(rolled) \in Seq(LogRow) /\ current \in Seq(LogRow)
        BY <3>1, <3>3, RowsOfAreRows
    <3> QED  BY <3>2, <3>3, <3>4, TwoParts
  <2> QED  BY <1>1, <1>3, <1>4, <2>1, EmptyRows DEF Sound, IdsInv, SoundIds
<1> QED  BY <1>5, <1>6, <1>7, <1>8, <1>9 DEF Sound

LEMMA ClearRemovesStep == Sound /\ ClearRemoves => Sound'
<1> SUFFICES ASSUME Sound, ClearRemoves PROVE Sound'
    OBVIOUS
<1>1. /\ clearing /\ clearing' = FALSE /\ rolled' = <<>>
      /\ UNCHANGED <<current, gen, compaction, unsaved, begun, written, folded, crossed,
                     cutBehind, revived>>
    BY DEF ClearRemoves, ClearedSegments, history
<1>2. /\ current = <<>> /\ gen = Open(<<>>, 0) /\ unsaved = {} /\ written = {}
      /\ \A c \in Compactors : compaction[c].at = "summary" => compaction[c].stale
    BY <1>1 DEF Sound, ClearingInv
<1>3. begun \in Nat /\ <<>> \in Seq(RowsOf(begun)) /\ <<>> \in Seq(Seq(RowsOf(begun)))
    BY EmptySeq DEF Sound, FilesInv
<1>4. Rows' = <<>>
  <2>1. Stream(Append(<<>>, <<>>)) = Stream(<<>>) \o <<>> /\ Stream(<<>>) \in Seq(RowsOf(begun))
      BY <1>3, StreamOfFiles
  <2>2. Stream(<<>>) = <<>>
      BY <1>3, StreamStep
  <2>3. <<>> \o <<>> = <<>>
      BY <1>3, ConcatEmptySeq
  <2> QED  BY <1>1, <1>2, <2>1, <2>2, <2>3 DEF Rows
<1>5. /\ Open(<<>>, 0).live /\ Open(<<>>, 0).path /\ Open(<<>>, 0).turn = Summary
      /\ Open(<<>>, 0).mirror = <<>>
    BY DEF Open, Summary
<1>6. FilesInv'
    BY <1>1, <1>3 DEF Sound, FilesInv
<1>7. ClearingInv'
    BY <1>1 DEF ClearingInv
<1>8. MirrorInv'
  <2>1. Saved(<<>>, {}) = <<>>
      BY <1>3, SavedNone
  <2> QED  BY <1>1, <1>2, <1>4, <1>5, <2>1 DEF MirrorInv
<1>9. WrittenInv'
    BY <1>1, <1>2 DEF WrittenInv
<1>10. IdsInv'
  <2>1. IdsIncrease(Rows') /\ IdsBelow(Rows', gen'.counter)
      BY <1>4, EmptyRows
  <2> QED  BY <1>1, <1>2, <2>1, EmptyRows DEF Sound, IdsInv, SoundIds
<1> QED  BY <1>6, <1>7, <1>8, <1>9, <1>10 DEF Sound

LEMMA CrashStep == Sound /\ Crash => Sound'
<1> SUFFICES ASSUME Sound, Crash PROVE Sound'
    OBVIOUS
<1>1. /\ gen' = NoGen /\ clearing' = FALSE
      /\ compaction' = [c \in Compactors |-> NotCompacting]
      /\ UNCHANGED <<current, rolled, begun, written, folded, unsaved, crossed, cutBehind,
                     revived>>
    BY DEF Crash, disk
<1>2. NoGen.live = FALSE /\ Rows' = Rows
    BY <1>1 DEF NoGen, Rows
<1>3. \A c \in Compactors : compaction'[c].at # "summary"
    BY <1>1 DEF NotCompacting
<1>4. FilesInv'
    BY <1>1, IdleType DEF Sound, FilesInv
<1>5. ClearingInv' /\ MirrorInv'
    BY <1>1, <1>2 DEF ClearingInv, MirrorInv
<1>6. WrittenInv'
    BY <1>1, <1>2 DEF Sound, WrittenInv
<1>7. IdsInv'
    BY <1>1, <1>2, <1>3 DEF Sound, IdsInv, SoundIds
<1> QED  BY <1>4, <1>5, <1>6, <1>7 DEF Sound

\* What the replacement of the current file leaves.
LEMMA Replaces ==
    ASSUME Sound, NEW c \in Compactors, CompactReplaces(c),
           NEW rows, rows = compaction[c].read, NEW plan, plan = PlanCompaction(rows)
    PROVE  /\ rows \in Seq(RowsOf(begun)) /\ WorthCompacting(rows)
           /\ plan \in Seq(RowsOf(begun))
           /\ rolled' = rolled /\ current' = plan
           /\ Rows' = Stream(rolled) \o plan /\ Rows' \in Seq(RowsOf(begun))
           /\ \/ /\ ~gen.live /\ unsaved' = {}
                 /\ gen' = Open(Rows', NextTurnNumber(Rows'))
              \/ ~gen.live /\ unsaved' = unsaved /\ gen' = gen
              \/ /\ gen.live /\ unsaved' = unsaved
                 /\ gen' = [gen EXCEPT !.path = FALSE]
<1>1. /\ IF compaction[c].rebind /\ ~gen.live
         THEN OpenLog(Append(rolled, plan))
         ELSE /\ current' = plan /\ UNCHANGED <<rolled, unsaved>>
              /\ gen' = IF gen.live THEN [gen EXCEPT !.path = FALSE] ELSE gen
      /\ compaction[c].at = "summary"
    BY DEF CompactReplaces
<1>2. rows \in Seq(RowsOf(begun)) /\ rolled \in Seq(Seq(RowsOf(begun))) /\ begun \in Nat
    BY DEF Sound, FilesInv, Compacting
<1>3. WorthCompacting(rows)
    BY <1>1 DEF Sound, IdsInv
<1>4. plan \in Seq(RowsOf(begun))
    BY <1>2, <1>3, PlannedFile
<1>5. /\ Stream(Append(rolled, plan)) = Stream(rolled) \o plan
      /\ Stream(Append(rolled, plan)) \in Seq(RowsOf(begun))
    BY <1>2, <1>4, StreamOfFiles
<1>6. CASE compaction[c].rebind /\ ~gen.live
  <2>1. /\ rolled' = rolled /\ current' = plan /\ unsaved' = {}
        /\ gen' = Open(Stream(Append(rolled, plan)),
                       NextTurnNumber(Stream(Append(rolled, plan))))
      BY <1>1, <1>2, <1>4, <1>6, OpensClean
  <2>2. Rows' = Stream(Append(rolled, plan))
      BY <2>1 DEF Rows
  <2> QED  BY <1>2, <1>3, <1>4, <1>5, <1>6, <2>1, <2>2
<1>7. CASE ~(compaction[c].rebind /\ ~gen.live)
  <2>1. /\ rolled' = rolled /\ current' = plan /\ unsaved' = unsaved
        /\ gen' = IF gen.live THEN [gen EXCEPT !.path = FALSE] ELSE gen
      BY <1>1, <1>7
  <2>2. Rows' = Stream(Append(rolled, plan))
      BY <2>1 DEF Rows
  <2>3. gen.live \in BOOLEAN
      BY GenLive DEF Sound
  <2> QED  BY <1>2, <1>3, <1>4, <1>5, <2>1, <2>2, <2>3
<1> QED  BY <1>6, <1>7

LEMMA CompactReplacesStep ==
    ASSUME Sound, NEW c \in Compactors, CompactReplaces(c) PROVE Sound'
<1> DEFINE rows == compaction[c].read
           plan == PlanCompaction(rows)
<1>1. /\ ~clearing /\ compaction[c].at = "summary" /\ clearing' = clearing
      /\ Moves(c, NotCompacting) /\ folded' = folded \cup Told(rows)
      /\ crossed' = (crossed \/ gen.live \/ current # rows)
      /\ cutBehind' = (cutBehind \/ rolled # <<>>)
      /\ revived' = (revived \/ (gen.live /\ compaction[c].stale))
      /\ begun' = begun /\ written' = written
    BY DEF CompactReplaces
<1>2. /\ rows \in Seq(RowsOf(begun)) /\ WorthCompacting(rows)
      /\ plan \in Seq(RowsOf(begun))
      /\ rolled' = rolled /\ current' = plan
      /\ Rows' = Stream(rolled) \o plan /\ Rows' \in Seq(RowsOf(begun))
      /\ \/ /\ ~gen.live /\ unsaved' = {}
            /\ gen' = Open(Rows', NextTurnNumber(Rows'))
         \/ ~gen.live /\ unsaved' = unsaved /\ gen' = gen
         \/ /\ gen.live /\ unsaved' = unsaved
            /\ gen' = [gen EXCEPT !.path = FALSE]
    BY Replaces
<1>3. begun \in Nat
    BY DEF Sound, FilesInv
<1>4. /\ IdsIncrease(plan) /\ PastKept(plan)
      /\ \A i \in DOMAIN plan : plan[i].id <= Keep + 1
      /\ \A t \in {rows[i].turn : i \in DOMAIN rows} \ Told(rows) : Ended(plan, t)
    BY <1>2, <1>3, PlannedFile DEF PastKept, Ended
<1> HIDE DEF plan
<1>5. /\ Stream(rolled) \in Seq(LogRow) /\ current \in Seq(LogRow) /\ plan \in Seq(LogRow)
      /\ Rows = Stream(rolled) \o current /\ Rows' \in Seq(LogRow) /\ Rows \in Seq(LogRow)
    BY <1>2, RowsAre, RowsOfAreRows DEF Sound, FilesInv
<1>6. /\ NextTurnNumber(Rows') \in Nat /\ IdsBelow(Rows', NextTurnNumber(Rows'))
    BY <1>5, NextIsAbove DEF IdsBelow
<1> DEFINE opened == Open(Rows', NextTurnNumber(Rows'))
<1>7. /\ opened \in LiveGen(begun) /\ opened.live /\ opened.path /\ opened.turn = Summary
      /\ opened.mirror = Rows' /\ opened.counter = NextTurnNumber(Rows')
  <2>1. begun \in Nat /\ Rows' \in Seq(RowsOf(begun)) /\ NextTurnNumber(Rows') \in Nat
      BY <1>2, <1>3, <1>6
  <2> QED  BY ONLY <2>1, Opened
<1>8. gen.live => gen \in LiveGen(begun)
    BY GenLive DEF Sound
<1>9. gen.live => /\ gen' \in LiveGen(begun) /\ gen'.turn = gen.turn /\ gen'.id = gen.id
                  /\ gen'.mirror = gen.mirror /\ gen'.counter = gen.counter
    BY <1>2, <1>8 DEF LiveGen
<1>10. /\ compaction' \in [Compactors -> Compacting(begun)] /\ compaction'[c] = NotCompacting
       /\ \A d \in Compactors : d # c => compaction'[d] = compaction[d]
    BY <1>1, IdleType, Moved
<1> HIDE DEF opened
<1>11. \/ ~gen.live /\ unsaved' = {} /\ gen' = opened
       \/ ~gen.live /\ unsaved' = unsaved /\ gen' = gen
       \/ gen.live /\ unsaved' = unsaved
    BY <1>2 DEF opened
<1>12. FilesInv'
  <2>1. gen' \in {NoGen} \cup LiveGen(begun)
      BY <1>7, <1>9, <1>11 DEF Sound, FilesInv
  <2>2. crossed' \in BOOLEAN /\ cutBehind' \in BOOLEAN /\ revived' \in BOOLEAN
      BY <1>1
  <2>3. unsaved' \subseteq RowsOf(begun)
      BY <1>11 DEF Sound, FilesInv
  <2> QED  BY <1>1, <1>2, <1>10, <2>1, <2>2, <2>3 DEF Sound, FilesInv
<1>13. ClearingInv'
    BY <1>1 DEF ClearingInv
<1>14. MirrorInv'
  <2>1. CASE ~gen.live /\ unsaved' = {} /\ gen' = opened
    <3>1. Saved(Rows', {}) = Rows'
        BY <1>5, SavedNone
    <3> QED  BY <1>7, <2>1, <3>1 DEF MirrorInv
  <2>2. CASE ~gen.live /\ gen' = gen
      BY <2>2 DEF MirrorInv
  <2>3. CASE gen.live /\ unsaved' = unsaved
    <3>1. gen.turn # Summary => Unended(gen.turn)
        BY <2>3 DEF Sound, MirrorInv
    <3>2. gen'.turn # Summary => Unended(gen.turn)'
        BY <1>9, <2>3, <3>1 DEF Unended
    <3> QED  BY <1>1, <2>3, <3>2 DEF MirrorInv
  <2> QED  BY <1>11, <2>1, <2>2, <2>3
<1>15. WrittenInv'
  <2> SUFFICES ASSUME ~crossed', NEW t \in written \ folded' PROVE Ended(Rows', t)
      BY <1>1 DEF WrittenInv
  <2>1. ~crossed /\ current = rows /\ t \in written \ folded /\ t \notin Told(rows)
      BY <1>1
  <2>2. Ended(Stream(rolled), t) \/ Ended(current, t)
      BY <1>5, <2>1, TwoParts DEF Sound, WrittenInv
  <2>3. CASE Ended(Stream(rolled), t)
      BY <1>2, <1>5, <2>3, TwoParts
  <2>4. CASE Ended(current, t)
    <3>1. t \in {rows[i].turn : i \in DOMAIN rows}
        BY <2>1, <2>4 DEF Ended
    <3>2. Ended(plan, t)
        BY <1>4, <2>1, <3>1
    <3> QED  BY <1>2, <1>5, <3>2, TwoParts
  <2> QED  BY <2>2, <2>3, <2>4
<1>16. IdsInv'
  <2>1. gen'.live /\ gen'.turn # Summary => gen'.id < gen'.counter
      BY <1>7, <1>9, <1>11 DEF Sound, IdsInv
  <2>2. \A d \in Compactors : compaction'[d].at = "summary" =>
            compaction[d].at = "summary" /\ compaction'[d] = compaction[d]
      BY <1>10 DEF NotCompacting
  <2>3. \A d \in Compactors : compaction'[d].at = "summary" => WorthCompacting(compaction'[d].read)
      BY <2>2 DEF Sound, IdsInv
  <2>4. ASSUME ~revived' PROVE SoundIds'
    <3>1. ~revived /\ SoundIds
        BY <1>1, <2>4 DEF Sound, IdsInv
    <3>2. ASSUME ~cutBehind' PROVE IdsIncrease(Rows')
      <4>1. rolled = <<>>
          BY <1>1, <3>2
      <4>2. Stream(<<>>) = <<>>
          BY EmptySeq, StreamStep
      <4>3. Rows' = plan
          BY <1>2, <1>5, <4>1, <4>2, ConcatEmptySeq
      <4> QED  BY <1>4, <4>3
    <3>3. gen'.live => IdsBelow(Rows', gen'.counter)
      <4>1. CASE ~gen.live /\ gen' = opened
          BY <1>6, <1>7, <4>1
      <4>2. CASE ~gen.live /\ gen' = gen
          BY <4>2
      <4>3. CASE gen.live
        <5>1. ~compaction[c].stale
            BY <1>1, <2>4, <4>3
        <5>2. PastKept(Rows) /\ IdsBelow(Rows, gen.counter)
            BY <1>1, <3>1, <4>3, <5>1 DEF SoundIds
        <5>3. PICK i \in DOMAIN Rows : Rows[i].id > Keep /\ Rows[i].id < gen.counter
            BY <5>2 DEF PastKept, IdsBelow
        <5>4. Rows[i] \in LogRow
            BY <1>5, LenProperties
        <5>5. Rows[i].id \in Nat /\ gen.counter \in Nat /\ Keep \in Nat
            BY <1>8, <4>3, <5>4, LogFileAssumption DEF LogRow, LiveGen
        <5>6. Keep + 1 < gen.counter
            BY <5>3, <5>5
        <5>7. \A j \in DOMAIN plan : plan[j].id \in Nat
          <6>1. \A j \in DOMAIN plan : plan[j] \in LogRow
              BY <1>5, LenProperties
          <6> QED  BY <6>1 DEF LogRow
        <5>8. IdsBelow(plan, gen.counter)
            BY <1>4, <5>5, <5>6, <5>7 DEF IdsBelow
        <5>9. IdsBelow(Stream(rolled), gen.counter)
            BY <1>5, <5>2, TwoParts
        <5>10. IdsBelow(Rows', gen.counter)
            BY <1>2, <1>5, <5>8, <5>9, TwoParts
        <5> QED  BY <1>9, <4>3, <5>10
      <4> QED  BY <1>11, <4>1, <4>2, <4>3
    <3>4. PastKept(Rows')
        BY <1>2, <1>4, <1>5, TwoParts
    <3> QED  BY <1>2, <1>4, <3>2, <3>3, <3>4 DEF SoundIds
  <2> QED  BY <2>1, <2>3, <2>4 DEF IdsInv
<1> QED  BY <1>12, <1>13, <1>14, <1>15, <1>16 DEF Sound

-----------------------------------------------------------------------------
(* The theorems *)

LEMMA InitSound == Init => IInv
<1> SUFFICES ASSUME Init PROVE IInv
    OBVIOUS
<1>1. /\ current = <<>> /\ rolled = <<>> /\ gen = NoGen /\ clearing = FALSE
      /\ compaction = [c \in Compactors |-> NotCompacting]
      /\ begun = 0 /\ written = {} /\ folded = {} /\ unsaved = {} /\ tears = 0
      /\ crossed = FALSE /\ cutBehind = FALSE /\ revived = FALSE
    BY DEF Init
<1>2. FilesInv
  <2>1. <<>> \in Seq(RowsOf(begun)) /\ <<>> \in Seq(Seq(RowsOf(begun)))
      BY EmptySeq
  <2> QED  BY <1>1, <2>1, IdleType DEF FilesInv
<1>3. Rows = <<>>
  <2>1. Stream(Append(<<>>, <<>>)) = Stream(<<>>) \o <<>> /\ <<>> \in Seq(Seq(LogRow))
      BY EmptySeq, StreamOfFiles
  <2>2. Stream(<<>>) = <<>> /\ <<>> \o <<>> = <<>>
      BY <2>1, EmptySeq, StreamStep, ConcatEmptySeq
  <2> QED  BY <1>1, <2>1, <2>2 DEF Rows
<1>4. NoGen.live = FALSE /\ NotCompacting.at # "summary"
    BY DEF NoGen, NotCompacting
<1>5. ClearingInv /\ MirrorInv /\ WrittenInv
    BY <1>1, <1>4 DEF ClearingInv, MirrorInv, WrittenInv
<1>6. IdsInv
    BY <1>1, <1>3, <1>4, EmptyRows DEF IdsInv, SoundIds
<1> QED  BY <1>1, <1>2, <1>5, <1>6 DEF IInv, Sound

\* Only the short write of a row is not counted on.
LEMMA NextSound == IInv /\ [Next]_vars => IInv'
<1> SUFFICES ASSUME IInv, [Next]_vars PROVE IInv'
    OBVIOUS
<1>1. tears \in Nat /\ (tears = 0 => Sound)
    BY DEF IInv
<1>2. CASE UNCHANGED vars
  <2>1. UNCHANGED <<current, rolled, gen, clearing, compaction, unsaved, begun, written, folded,
                    tears, crossed, cutBehind, revived>>
      BY <1>2 DEF vars, disk, history
  <2>2. Rows' = Rows
      BY <2>1 DEF Rows
  <2>3. Sound => Sound'
      BY <2>1, <2>2 DEF Sound, FilesInv, ClearingInv, MirrorInv, Unended, WrittenInv, IdsInv, SoundIds
  <2> QED  BY <1>1, <2>1, <2>3 DEF IInv
<1>3. CASE Compose \/ Evict \/ ClearTruncates \/ ClearRemoves \/ Crash
  <2>1. tears' = tears
      BY <1>3 DEF Compose, Evict, ClearTruncates, ClearRemoves, Crash, history
  <2>2. Sound => Sound'
      BY <1>3, ComposeStep, EvictStep, ClearTruncatesStep, ClearRemovesStep, CrashStep
  <2> QED  BY <1>1, <2>1, <2>2 DEF IInv
<1>4. ASSUME NEW outcome \in Outcome, NEW renamed \in BOOLEAN,
             TurnStarts(outcome, renamed) \/ TurnEnds(outcome, renamed)
      PROVE  IInv'
  <2>1. tears' = IF outcome = "short" THEN tears + 1 ELSE tears
      BY <1>4 DEF TurnStarts, TurnEnds, AppendRow
  <2>2. CASE outcome = "short"
    <3>1. tears' \in Nat /\ tears' # 0
        BY <1>1, <2>1, <2>2
    <3> QED  BY <3>1 DEF IInv
  <2>3. CASE outcome # "short"
    <3>1. outcome \in {"ok", "fails"}
        BY <2>3 DEF Outcome
    <3>2. Sound => Sound'
        BY <1>4, <3>1, TurnStartsStep, TurnEndsStep
    <3> QED  BY <1>1, <2>1, <2>3, <3>2 DEF IInv
  <2> QED  BY <2>2, <2>3
<1>5. ASSUME NEW c \in Compactors,
             \/ CompactEvicts(c) \/ CompactReads(c) \/ CompactSkips(c)
             \/ CompactFails(c) \/ CompactReplaces(c)
      PROVE  IInv'
  <2>1. tears' = tears
      BY <1>5 DEF CompactEvicts, CompactReads, CompactSkips, CompactFails, CompactReplaces, history
  <2>2. Sound => Sound'
      BY <1>5, CompactEvictsStep, CompactReadsStep, CompactSkipsStep, CompactFailsStep,
         CompactReplacesStep
  <2> QED  BY <1>1, <2>1, <2>2 DEF IInv
<1> QED  BY <1>2, <1>3, <1>4, <1>5 DEF Next

LEMMA SpecSound == Spec => []IInv
  BY InitSound, NextSound, PTL DEF Spec

\* As long as no write was cut short, every row of every file, of what a generation
\* shows and of what a compaction has read is readable and of a turn that has begun,
\* through rolls, clears, compactions and crashes (persistent.ts replaySegments).
THEOREM FilesStayReadable == Spec => [](tears = 0 => FilesInv)
<1>1. IInv => (tears = 0 => FilesInv)
    BY DEF IInv, Sound
<1> QED  BY <1>1, SpecSound, PTL

\* A restart reads what the generation shows, without the rows whose write failed:
\* no roll, compaction, clear or crash loses, adds or reorders a row.
THEOREM RestartsShowTheMirror == Spec => []RestartShowsMirror
<1>1. IInv => RestartShowsMirror
  <2> SUFFICES ASSUME IInv, gen.live, gen.path, ~clearing, ~crossed, tears = 0
               PROVE  Replay = Saved(gen.mirror, unsaved)
      BY DEF RestartShowsMirror
  <2>1. Sound
      BY DEF IInv
  <2> QED  BY <2>1, RowsAre DEF Sound, MirrorInv
<1> QED  BY <1>1, SpecSound, PTL

\* A turn whose rows were written is read back or told of by a summary, unless a
\* compaction replaced a file that was no longer the one it had read.
THEOREM WrittenTurnsSurvive == Spec => []WrittenSurvivesApart
<1>1. IInv => WrittenSurvivesApart
  <2> SUFFICES ASSUME IInv, ~crossed, tears = 0 PROVE Lost = {}
      BY DEF WrittenSurvivesApart, WrittenSurvives
  <2>1. Sound
      BY DEF IInv
  <2>2. Replay = Rows /\ \A t \in written \ folded : Ended(Rows, t)
      BY <2>1, RowsAre DEF Sound, WrittenInv
  <2> QED  BY <2>2 DEF Lost, Ended
<1> QED  BY <1>1, SpecSound, PTL

\* The next turn's id is above all that is on disk and, unless a compaction replaced
\* the current file in front of segments, ids increase along the log: both unless a
\* compaction brought a cleared history back under a live generation (plan.ts:13).
THEOREM TurnIdsAlwaysIncrease == Spec => []TurnIdsIncreaseApart
<1>1. IInv => TurnIdsIncreaseApart
  <2> SUFFICES ASSUME IInv, ~revived, tears = 0
               PROVE  NextIdIsNew /\ (~cutBehind => TurnIdsIncrease)
      BY DEF TurnIdsIncreaseApart
  <2>1. Sound
      BY DEF IInv
  <2>2. Replay = Rows /\ SoundIds
      BY <2>1, RowsAre DEF Sound, IdsInv
  <2>3. NextIdIsNew
      BY <2>2 DEF NextIdIsNew, SoundIds, IdsBelow
  <2>4. ~cutBehind => TurnIdsIncrease
      BY <2>2 DEF TurnIdsIncrease, SoundIds, IdsIncrease
  <2> QED  BY <2>3, <2>4
<1> QED  BY <1>1, SpecSound, PTL
=============================================================================
