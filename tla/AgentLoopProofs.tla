------------------------- MODULE AgentLoopProofs -------------------------
(***************************************************************************)
(* Proofs about module AgentLoop, for every value of its bounds: types,    *)
(* the step budget, the reply of a completed turn, the close guard; and,   *)
(* while no crash interrupts a turn, that every request is one an upstream *)
(* accepts and that the session keeps the turn protocol.                   *)
(*                                                                         *)
(* The first half is about logs and messages alone: what                   *)
(* deriveMessagesFrom returns for the rows the loop appends, and that      *)
(* balanceToolCalls leaves a complete history as it is.                    *)
(***************************************************************************)
EXTENDS AgentLoop, FiniteSetTheorems, SequenceTheorems, WellFoundedInduction, TLAPS

(* Induction *)

\* The order of the naturals as a relation.
LessNat == {p \in Nat \X Nat : p[1] < p[2]}

\* Induction over the natural numbers for a set, from the least element of its
\* complement.
LEMMA Induction ==
    ASSUME NEW P, 0 \in P, \A n \in Nat : n \in P => n + 1 \in P
    PROVE  Nat \subseteq P
<1> DEFINE T == Nat \ P
<1> SUFFICES ASSUME T # {} PROVE FALSE
    OBVIOUS
<1>1. T \subseteq Nat
    OBVIOUS
<1>2. OpToRel(<, Nat) = LessNat
    BY DEF OpToRel, LessNat
<1> HIDE DEF T
<1>3. PICK x \in T : \A y \in T : <<y, x>> \notin LessNat
    BY <1>1, <1>2, WFMin, NatLessThanWellFounded
<1>4. x \in Nat /\ x # 0
    BY <1>3 DEF T
<1>5. x - 1 \in Nat /\ <<x - 1, x>> \in LessNat /\ x = (x - 1) + 1
    BY <1>4 DEF LessNat
<1>6. x - 1 \in P
    BY <1>3, <1>5 DEF T
<1> QED  BY <1>3, <1>5, <1>6 DEF T

\* Induction over the sequences of a set, one element appended at a time.
LEMMA SeqInduction ==
    ASSUME NEW T, NEW P, <<>> \in P,
           \A s \in Seq(T), x \in T : s \in P => Append(s, x) \in P
    PROVE  Seq(T) \subseteq P
<1> DEFINE Q == {n \in Nat : \A s \in Seq(T) : Len(s) = n => s \in P}
<1>1. 0 \in Q
    BY EmptySeq DEF Q
<1>2. ASSUME NEW n \in Nat, n \in Q PROVE n + 1 \in Q
  <2> SUFFICES ASSUME NEW s \in Seq(T), Len(s) = n + 1 PROVE s \in P
      OBVIOUS
  <2> DEFINE f == SubSeq(s, 1, n)
  <2>1. s \in [1 .. n + 1 -> T]
      BY LenProperties
  <2>2. f \in Seq(T) /\ Len(f) = n /\ \A i \in 1 .. n : f[i] = s[i]
      BY <2>1, SubSeqProperties
  <2>3. s[n + 1] \in T
      BY <2>1
  <2>4. s = Append(f, s[n + 1])
    <3> HIDE DEF f
    <3>1. /\ Append(f, s[n + 1]) \in Seq(T)
          /\ Len(Append(f, s[n + 1])) = n + 1
          /\ \A i \in 1 .. n : Append(f, s[n + 1])[i] = f[i]
          /\ Append(f, s[n + 1])[n + 1] = s[n + 1]
        BY <2>2, <2>3, AppendProperties
    <3>2. \A i \in 1 .. n + 1 : s[i] = Append(f, s[n + 1])[i]
        BY <3>1, <2>2
    <3> QED  BY <3>1, <3>2, SeqEqual
  <2>5. f \in P
      BY <1>2, <2>2
  <2> HIDE DEF f
  <2> QED  BY <2>2, <2>3, <2>4, <2>5
<1> HIDE DEF Q
<1>3. Nat \subseteq Q
    BY <1>1, <1>2, Induction
<1> QED  BY <1>3, LenProperties DEF Q

\* f is defined by recursion from the value before.
Iterates(f, n, first, step) ==
    \A i \in 0 .. n : f[i] = IF i = 0 THEN first ELSE step[i][f[i - 1]]

\* A function on 0..n that is defined by recursion from the value before exists.
LEMMA RecursionExists ==
    ASSUME NEW n \in Nat, NEW V, NEW first \in V, NEW step \in [1 .. n -> [V -> V]]
    PROVE  \E f \in [0 .. n -> V] : Iterates(f, n, first, step)
<1> DEFINE Holds(f, m) == \A i \in 0 .. m : f[i] = IF i = 0 THEN first ELSE step[i][f[i - 1]]
<1> DEFINE P == {m \in Nat : m <= n => \E f \in [0 .. m -> V] : Holds(f, m)}
<1>1. 0 \in P
  <2>1. [i \in 0 .. 0 |-> first] \in [0 .. 0 -> V] /\ Holds([i \in 0 .. 0 |-> first], 0)
      OBVIOUS
  <2> QED  BY <2>1
<1>2. ASSUME NEW m \in Nat, m \in P PROVE m + 1 \in P
  <2> SUFFICES ASSUME m + 1 <= n PROVE \E f \in [0 .. m + 1 -> V] : Holds(f, m + 1)
      OBVIOUS
  <2>1. PICK f \in [0 .. m -> V] : Holds(f, m)
      BY <1>2
  <2> DEFINE g == [i \in 0 .. m + 1 |-> IF i <= m THEN f[i] ELSE step[m + 1][f[m]]]
  <2>2. step[m + 1][f[m]] \in V
      BY <2>1
  <2>3. g \in [0 .. m + 1 -> V]
      BY <2>1, <2>2
  <2>4. ASSUME NEW i \in 0 .. m + 1
        PROVE  g[i] = IF i = 0 THEN first ELSE step[i][g[i - 1]]
    <3>1. CASE i = 0
      <4>1. g[0] = f[0]
          OBVIOUS
      <4> HIDE DEF g
      <4> QED  BY <4>1, <3>1, <2>1
    <3>2. CASE i # 0 /\ i <= m
      <4>1. i - 1 \in 0 .. m /\ g[i - 1] = f[i - 1] /\ g[i] = f[i]
          BY <3>2
      <4>2. i \in 0 .. m /\ f[i] = step[i][f[i - 1]]
          BY <3>2, <2>1
      <4> HIDE DEF g
      <4> QED  BY <4>1, <4>2, <3>2
    <3>3. CASE i = m + 1
      <4>1. g[i - 1] = f[m] /\ g[i] = step[m + 1][f[m]]
          BY <3>3
      <4> QED  BY <4>1, <3>3
    <3> QED  BY <3>1, <3>2, <3>3
  <2> HIDE DEF g
  <2> QED  BY <2>3, <2>4
<1> HIDE DEF P
<1>3. n \in P
    BY <1>1, <1>2, Induction
<1> QED  BY <1>3 DEF P, Iterates

-----------------------------------------------------------------------------
(* Kept *)

\* The recursive function of Kept.
IsKept(s, S, f) ==
    f = [i \in 0 .. Len(s) |->
            IF i = 0 THEN <<>>
            ELSE IF s[i] \in S THEN Append(f[i - 1], s[i]) ELSE f[i - 1]]

\* The recursive function of Kept exists, and its values are sequences.
LEMMA KeptFunction ==
    ASSUME NEW T, NEW S, NEW s \in Seq(T)
    PROVE  \E f \in [0 .. Len(s) -> Seq(T)] : IsKept(s, S, f)
<1> DEFINE step == [i \in 1 .. Len(s) |-> [t \in Seq(T) |->
                       IF s[i] \in S THEN Append(t, s[i]) ELSE t]]
<1>1. Len(s) \in Nat /\ s \in [1 .. Len(s) -> T] /\ <<>> \in Seq(T)
    BY LenProperties, EmptySeq
<1>2. ASSUME NEW i \in 1 .. Len(s), NEW t \in Seq(T)
      PROVE  (IF s[i] \in S THEN Append(t, s[i]) ELSE t) \in Seq(T)
    BY <1>1, AppendProperties
<1>3. step \in [1 .. Len(s) -> [Seq(T) -> Seq(T)]]
    BY <1>2
<1>4. ASSUME NEW i \in 1 .. Len(s), NEW t \in Seq(T)
      PROVE  step[i][t] = IF s[i] \in S THEN Append(t, s[i]) ELSE t
    OBVIOUS
<1> HIDE DEF step
<1>5. PICK f \in [0 .. Len(s) -> Seq(T)] : Iterates(f, Len(s), <<>>, step)
    BY <1>1, <1>3, RecursionExists
<1>6. ASSUME NEW i \in 0 .. Len(s)
      PROVE  f[i] = IF i = 0 THEN <<>>
                    ELSE IF s[i] \in S THEN Append(f[i - 1], s[i]) ELSE f[i - 1]
  <2>1. CASE i = 0
      BY <2>1, <1>5 DEF Iterates
  <2>2. CASE i # 0
    <3>1. i \in 1 .. Len(s) /\ i - 1 \in 0 .. Len(s) /\ f[i - 1] \in Seq(T)
        BY <2>2, <1>5, <1>1
    <3>2. step[i][f[i - 1]] = IF s[i] \in S THEN Append(f[i - 1], s[i]) ELSE f[i - 1]
        BY <3>1, <1>4
    <3> QED  BY <3>2, <2>2, <1>5 DEF Iterates
  <2> QED  BY <2>1, <2>2
<1>7. f = [i \in 0 .. Len(s) |->
              IF i = 0 THEN <<>>
              ELSE IF s[i] \in S THEN Append(f[i - 1], s[i]) ELSE f[i - 1]]
    BY <1>5, <1>6
<1> QED  BY <1>5, <1>7 DEF IsKept

\* Two sequences have the same kept elements as far as they agree.
LEMMA KeptAgrees ==
    ASSUME NEW T, NEW S, NEW s \in Seq(T), NEW t \in Seq(T), NEW f, NEW g,
           Len(s) <= Len(t), \A i \in 1 .. Len(s) : s[i] = t[i],
           IsKept(s, S, f), IsKept(t, S, g)
    PROVE  f[Len(s)] = g[Len(s)]
<1> DEFINE P == {n \in Nat : n <= Len(s) => f[n] = g[n]}
<1>0. Len(s) \in Nat /\ Len(t) \in Nat
    BY LenProperties
<1>1. /\ \A i \in 0 .. Len(s) : f[i] = IF i = 0 THEN <<>>
             ELSE IF s[i] \in S THEN Append(f[i - 1], s[i]) ELSE f[i - 1]
      /\ \A i \in 0 .. Len(t) : g[i] = IF i = 0 THEN <<>>
             ELSE IF t[i] \in S THEN Append(g[i - 1], t[i]) ELSE g[i - 1]
    BY DEF IsKept
<1>2. 0 \in P
    BY <1>0, <1>1
<1>3. ASSUME NEW n \in Nat, n \in P PROVE n + 1 \in P
  <2> SUFFICES ASSUME n + 1 <= Len(s) PROVE f[n + 1] = g[n + 1]
      OBVIOUS
  <2>1. f[n] = g[n] /\ s[n + 1] = t[n + 1] /\ (n + 1) - 1 = n /\ n + 1 # 0
      BY <1>3, <1>0
  <2>2. n + 1 \in 0 .. Len(s) /\ n + 1 \in 0 .. Len(t)
      BY <1>0
  <2> QED  BY <2>1, <2>2, <1>1
<1> HIDE DEF P
<1>4. Len(s) \in P
    BY <1>0, <1>2, <1>3, Induction
<1> QED  BY <1>4 DEF P

\* What Kept returns: nothing of nothing, and one more element where it is in
\* the set.
LEMMA KeptStep ==
    ASSUME NEW T, NEW S, NEW s \in Seq(T)
    PROVE  /\ Kept(s, S) \in Seq(T)
           /\ Kept(<<>>, S) = <<>>
           /\ \A x \in T : Kept(Append(s, x), S) =
                  IF x \in S THEN Append(Kept(s, S), x) ELSE Kept(s, S)
<1>1. \A r : Kept(r, S) = (CHOOSE f : IsKept(r, S, f))[Len(r)]
    BY DEF Kept, IsKept
<1>2. ASSUME NEW r \in Seq(T) 
      PROVE  \E f \in [0 .. Len(r) -> Seq(T)] : IsKept(r, S, f) /\ Kept(r, S) = f[Len(r)]
  <2>1. PICK f \in [0 .. Len(r) -> Seq(T)] : IsKept(r, S, f)
      BY KeptFunction
  <2>2. IsKept(r, S, CHOOSE g : IsKept(r, S, g))
      BY <2>1
  <2>3. Len(r) \in Nat
      BY LenProperties
  <2>4. (CHOOSE g : IsKept(r, S, g))[Len(r)] = f[Len(r)]
      BY <2>1, <2>2, <2>3, KeptAgrees
  <2> QED  BY <2>1, <2>4, <1>1
<1>3. PICK f \in [0 .. Len(s) -> Seq(T)] : IsKept(s, S, f) /\ Kept(s, S) = f[Len(s)]
    BY <1>2
<1>4. Len(s) \in Nat
    BY LenProperties
<1>5. Kept(s, S) \in Seq(T)
    BY <1>3, <1>4
<1>6. Kept(<<>>, S) = <<>>
  <2>1. PICK g \in [0 .. Len(<<>>) -> Seq(T)] : IsKept(<<>>, S, g) /\ Kept(<<>>, S) = g[Len(<<>>)]
      BY <1>2, EmptySeq
  <2>2. Len(<<>>) = 0
      BY EmptySeq
  <2>3. g[0] = <<>>
      BY <2>1, <2>2 DEF IsKept
  <2> QED  BY <2>1, <2>2, <2>3
<1>7. ASSUME NEW x \in T
      PROVE  Kept(Append(s, x), S) = IF x \in S THEN Append(Kept(s, S), x) ELSE Kept(s, S)
  <2> DEFINE t == Append(s, x)
  <2>1. t \in Seq(T) /\ Len(t) = Len(s) + 1 /\ t[Len(s) + 1] = x
        /\ \A i \in 1 .. Len(s) : s[i] = t[i]
      BY AppendProperties
  <2> HIDE DEF t
  <2>2. PICK g \in [0 .. Len(t) -> Seq(T)] : IsKept(t, S, g) /\ Kept(t, S) = g[Len(t)]
      BY <2>1, <1>2
  <2>3. f[Len(s)] = g[Len(s)]
      BY <2>1, <2>2, <1>3, <1>4, KeptAgrees
  <2>4. g[Len(t)] = IF t[Len(t)] \in S THEN Append(g[Len(t) - 1], t[Len(t)]) ELSE g[Len(t) - 1]
    <3>1. Len(t) \in 0 .. Len(t) /\ Len(t) # 0
        BY <2>1, <1>4
    <3> QED  BY <3>1, <2>2 DEF IsKept
  <2>5. Len(t) - 1 = Len(s)
      BY <2>1, <1>4
  <2>6. Kept(t, S) = IF x \in S THEN Append(Kept(s, S), x) ELSE Kept(s, S)
      BY <2>1, <2>2, <2>3, <2>4, <2>5, <1>3
  <2> QED  BY <2>6 DEF t
<1> QED  BY <1>5, <1>6, <1>7

\* A sequence of one element.
LEMMA Singleton ==
    ASSUME NEW T, NEW x \in T
    PROVE  <<x>> \in Seq(T) /\ Len(<<x>>) = 1 /\ <<x>>[1] = x
OBVIOUS

\* Appending to the second of two sequences appends to both together.
LEMMA ConcatAppend ==
    ASSUME NEW T, NEW s \in Seq(T), NEW t \in Seq(T), NEW x \in T
    PROVE  s \o Append(t, x) = Append(s \o t, x)
<1>1. /\ Len(s) \in Nat /\ Len(t) \in Nat
      /\ Append(t, x) \in Seq(T) /\ Len(Append(t, x)) = Len(t) + 1
      /\ \A i \in 1 .. Len(t) : Append(t, x)[i] = t[i]
      /\ Append(t, x)[Len(t) + 1] = x
    BY LenProperties, AppendProperties
<1>2. /\ s \o t \in Seq(T) /\ Len(s \o t) = Len(s) + Len(t)
      /\ \A i \in 1 .. Len(s) + Len(t) : (s \o t)[i] = IF i <= Len(s) THEN s[i] ELSE t[i - Len(s)]
    BY ConcatProperties
<1>3. /\ s \o Append(t, x) \in Seq(T) /\ Len(s \o Append(t, x)) = Len(s) + Len(t) + 1
      /\ \A i \in 1 .. Len(s) + Len(t) + 1 :
             (s \o Append(t, x))[i] = IF i <= Len(s) THEN s[i] ELSE Append(t, x)[i - Len(s)]
    BY <1>1, ConcatProperties
<1>4. /\ Append(s \o t, x) \in Seq(T) /\ Len(Append(s \o t, x)) = Len(s) + Len(t) + 1
      /\ \A i \in 1 .. Len(s) + Len(t) : Append(s \o t, x)[i] = (s \o t)[i]
      /\ Append(s \o t, x)[Len(s) + Len(t) + 1] = x
    BY <1>2, AppendProperties
<1>5. ASSUME NEW i \in 1 .. Len(s) + Len(t) + 1
      PROVE  (s \o Append(t, x))[i] = Append(s \o t, x)[i]
  <2>1. CASE i <= Len(s)
      BY <2>1, <1>1, <1>2, <1>3, <1>4
  <2>2. CASE i > Len(s) /\ i <= Len(s) + Len(t)
    <3>1. i - Len(s) \in 1 .. Len(t) /\ ~(i <= Len(s))
        BY <2>2, <1>1
    <3> QED  BY <3>1, <2>2, <1>1, <1>2, <1>3, <1>4
  <2>3. CASE i = Len(s) + Len(t) + 1
    <3>1. i - Len(s) = Len(t) + 1 /\ ~(i <= Len(s))
        BY <2>3, <1>1
    <3> QED  BY <3>1, <2>3, <1>1, <1>3, <1>4
  <2> QED  BY <2>1, <2>2, <2>3, <1>1
<1> QED  BY <1>3, <1>4, <1>5, SeqEqual

\* Kept of a concatenation.
LEMMA KeptConcat ==
    ASSUME NEW T, NEW S, NEW s \in Seq(T), NEW t \in Seq(T)
    PROVE  Kept(s \o t, S) = Kept(s, S) \o Kept(t, S)
<1> DEFINE P == {r \in Seq(T) : Kept(s \o r, S) = Kept(s, S) \o Kept(r, S)}
<1>1. <<>> \in P
  <2>1. s \o <<>> = s /\ Kept(s, S) \in Seq(T) /\ Kept(<<>>, S) = <<>>
      BY ConcatEmptySeq, KeptStep
  <2>2. Kept(s, S) \o <<>> = Kept(s, S)
      BY <2>1, ConcatEmptySeq
  <2> QED  BY <2>1, <2>2, EmptySeq
<1>2. ASSUME NEW r \in Seq(T), NEW x \in T, r \in P PROVE Append(r, x) \in P
  <2>1. Append(r, x) \in Seq(T) /\ s \o r \in Seq(T) /\ s \o Append(r, x) = Append(s \o r, x)
      BY AppendProperties, ConcatProperties, ConcatAppend
  <2>2. Kept(s, S) \in Seq(T) /\ Kept(r, S) \in Seq(T)
      BY KeptStep
  <2>3. Kept(s, S) \o Append(Kept(r, S), x) = Append(Kept(s, S) \o Kept(r, S), x)
      BY <2>2, ConcatAppend
  <2>4. Kept(Append(r, x), S) = IF x \in S THEN Append(Kept(r, S), x) ELSE Kept(r, S)
      BY KeptStep
  <2>5. Kept(Append(s \o r, x), S) = IF x \in S THEN Append(Kept(s \o r, S), x) ELSE Kept(s \o r, S)
    <3>1. \A q \in Seq(T) : Kept(Append(q, x), S) = IF x \in S THEN Append(Kept(q, S), x) ELSE Kept(q, S)
        BY KeptStep
    <3> QED  BY <3>1, <2>1
  <2>6. Kept(s \o Append(r, x), S) = Kept(s, S) \o Kept(Append(r, x), S)
      BY <2>1, <2>3, <2>4, <2>5, <1>2
  <2> QED  BY <2>1, <2>6
<1> HIDE DEF P
<1>3. t \in P
    BY <1>1, <1>2, SeqInduction
<1> QED  BY <1>3 DEF P

\* All is kept, or nothing.
LEMMA KeptAll ==
    ASSUME NEW T, NEW S, NEW s \in Seq(T)
    PROVE  /\ (\A i \in 1 .. Len(s) : s[i] \in S) => Kept(s, S) = s
           /\ (\A i \in 1 .. Len(s) : s[i] \notin S) => Kept(s, S) = <<>>
<1> DEFINE P == {r \in Seq(T) :
                    /\ (\A i \in 1 .. Len(r) : r[i] \in S) => Kept(r, S) = r
                    /\ (\A i \in 1 .. Len(r) : r[i] \notin S) => Kept(r, S) = <<>>}
<1>1. <<>> \in P
    BY EmptySeq, KeptStep
<1>2. ASSUME NEW r \in Seq(T), NEW x \in T, r \in P PROVE Append(r, x) \in P
  <2>1. /\ Append(r, x) \in Seq(T) /\ Len(Append(r, x)) = Len(r) + 1 /\ Len(r) \in Nat
        /\ \A i \in 1 .. Len(r) : Append(r, x)[i] = r[i]
        /\ Append(r, x)[Len(r) + 1] = x
      BY AppendProperties, LenProperties
  <2>2. Kept(Append(r, x), S) = IF x \in S THEN Append(Kept(r, S), x) ELSE Kept(r, S)
      BY KeptStep
  <2>3. ASSUME \A i \in 1 .. Len(Append(r, x)) : Append(r, x)[i] \in S
        PROVE  Kept(Append(r, x), S) = Append(r, x)
    <3>1. x \in S /\ \A i \in 1 .. Len(r) : r[i] \in S
        BY <2>1, <2>3
    <3> QED  BY <3>1, <2>2, <1>2
  <2>4. ASSUME \A i \in 1 .. Len(Append(r, x)) : Append(r, x)[i] \notin S
        PROVE  Kept(Append(r, x), S) = <<>>
    <3>1. x \notin S /\ \A i \in 1 .. Len(r) : r[i] \notin S
        BY <2>1, <2>4
    <3> QED  BY <3>1, <2>2, <1>2
  <2> QED  BY <2>1, <2>3, <2>4
<1> HIDE DEF P
<1>3. s \in P
    BY <1>1, <1>2, SeqInduction
<1> QED  BY <1>3 DEF P

\* What is kept of what was kept.
LEMMA KeptTwice ==
    ASSUME NEW T, NEW S, NEW R, NEW s \in Seq(T)
    PROVE  Kept(Kept(s, S), R) = Kept(s, S \cap R)
<1> DEFINE P == {r \in Seq(T) : Kept(Kept(r, S), R) = Kept(r, S \cap R)}
<1>1. <<>> \in P
    BY EmptySeq, KeptStep
<1>2. ASSUME NEW r \in Seq(T), NEW x \in T, r \in P PROVE Append(r, x) \in P
  <2>1. Append(r, x) \in Seq(T) /\ Kept(r, S) \in Seq(T)
      BY AppendProperties, KeptStep
  <2>2. Kept(Append(r, x), S) = IF x \in S THEN Append(Kept(r, S), x) ELSE Kept(r, S)
      BY KeptStep
  <2>3. Kept(Append(Kept(r, S), x), R)
            = IF x \in R THEN Append(Kept(Kept(r, S), R), x) ELSE Kept(Kept(r, S), R)
      BY <2>1, KeptStep
  <2>4. Kept(Append(r, x), S \cap R)
            = IF x \in S \cap R THEN Append(Kept(r, S \cap R), x) ELSE Kept(r, S \cap R)
      BY KeptStep
  <2>5. Kept(Kept(Append(r, x), S), R) = Kept(Append(r, x), S \cap R)
    <3>1. CASE x \in S /\ x \in R
        BY <3>1, <2>2, <2>3, <2>4, <1>2
    <3>3. CASE x \in S /\ x \notin R
        BY <3>3, <2>2, <2>3, <2>4, <1>2
    <3>2. CASE x \notin S
        BY <3>2, <2>2, <2>4, <1>2
    <3> QED  BY <3>1, <3>2, <3>3
  <2> QED  BY <2>1, <2>5
<1> HIDE DEF P
<1>3. s \in P
    BY <1>1, <1>2, SeqInduction
<1> QED  BY <1>3 DEF P

-----------------------------------------------------------------------------
(* Reading *)

\* A message, and the state of deriveMessagesFrom.
Msg == [role : {"user", "assistant", "tool"}, calls : Seq(Nat), answers : Nat]
Read == [messages : Seq(Msg), pending : Seq(Nat)]
Unread == [messages |-> <<>>, pending |-> <<>>]

\* The recursive function of Reading.
IsReading(s, f) == f = [i \in 0 .. Len(s) |-> IF i = 0 THEN Unread ELSE Reads(f[i - 1], s[i])]

\* Every row projects to at most one message, and reading a row keeps the types.
LEMMA ReadsType ==
    ASSUME NEW so \in Read, NEW row \in Row
    PROVE  /\ Reads(so, row) \in Read
           /\ Projected(row) \in Seq(Msg) /\ Flushed(so.pending) \in Seq(Msg)
<1>1. so.messages \in Seq(Msg) /\ so.pending \in Seq(Nat) /\ row.id \in Nat /\ row.kind \in Kind
    BY DEF Read, Row
<1>2. <<>> \in Seq(Nat) /\ <<>> \in Seq(Msg)
    BY EmptySeq
<1>3. Projected(row) \in Seq(Msg)
  <2>1. /\ Message("user", <<>>, 0) \in Msg /\ Message("assistant", <<>>, 0) \in Msg
        /\ ToolMessage(row.id) \in Msg
      BY <1>1, <1>2 DEF Msg, Message, ToolMessage
  <2>2. \A m \in Msg : <<m>> \in Seq(Msg)
      BY Singleton
  <2> QED  BY <2>1, <2>2, <1>2 DEF Projected
<1>4. Flushed(so.pending) \in Seq(Msg)
  <2>1. Message("assistant", so.pending, 0) \in Msg
      BY <1>1 DEF Msg, Message
  <2> QED  BY <2>1, <1>2, Singleton DEF Flushed
<1>5. so.messages \o Flushed(so.pending) \in Seq(Msg)
    BY <1>1, <1>4, ConcatProperties
<1>6. so.messages \o Flushed(so.pending) \o Projected(row) \in Seq(Msg)
    BY <1>3, <1>5, ConcatProperties
<1>7. Append(so.pending, row.id) \in Seq(Nat)
    BY <1>1, AppendProperties
<1> QED  BY <1>1, <1>2, <1>3, <1>4, <1>6, <1>7 DEF Reads, Read

\* The recursive function of Reading exists.
LEMMA ReadingFunction ==
    ASSUME NEW s \in Seq(Row)
    PROVE  \E f \in [0 .. Len(s) -> Read] : IsReading(s, f)
<1> DEFINE step == [i \in 1 .. Len(s) |-> [so \in Read |-> Reads(so, s[i])]]
<1>1. Len(s) \in Nat /\ s \in [1 .. Len(s) -> Row] /\ Unread \in Read
    BY LenProperties, EmptySeq DEF Unread, Read
<1>2. step \in [1 .. Len(s) -> [Read -> Read]]
    BY <1>1, ReadsType
<1>3. ASSUME NEW i \in 1 .. Len(s), NEW so \in Read PROVE step[i][so] = Reads(so, s[i])
    OBVIOUS
<1> HIDE DEF step
<1>4. PICK f \in [0 .. Len(s) -> Read] : Iterates(f, Len(s), Unread, step)
    BY <1>1, <1>2, RecursionExists
<1>5. ASSUME NEW i \in 0 .. Len(s)
      PROVE  f[i] = IF i = 0 THEN Unread ELSE Reads(f[i - 1], s[i])
  <2>1. CASE i = 0
      BY <2>1, <1>4 DEF Iterates
  <2>2. CASE i # 0
    <3>1. i \in 1 .. Len(s) /\ i - 1 \in 0 .. Len(s) /\ f[i - 1] \in Read
        BY <2>2, <1>4, <1>1
    <3>2. step[i][f[i - 1]] = Reads(f[i - 1], s[i])
        BY <3>1, <1>3
    <3> QED  BY <3>2, <2>2, <1>4 DEF Iterates
  <2> QED  BY <2>1, <2>2
<1> QED  BY <1>4, <1>5 DEF IsReading

\* Two logs are read the same as far as they agree.
LEMMA ReadingAgrees ==
    ASSUME NEW s \in Seq(Row), NEW t \in Seq(Row), NEW f, NEW g,
           Len(s) <= Len(t), \A i \in 1 .. Len(s) : s[i] = t[i],
           IsReading(s, f), IsReading(t, g)
    PROVE  f[Len(s)] = g[Len(s)]
<1> DEFINE P == {n \in Nat : n <= Len(s) => f[n] = g[n]}
<1>0. Len(s) \in Nat /\ Len(t) \in Nat
    BY LenProperties
<1>1. /\ \A i \in 0 .. Len(s) : f[i] = IF i = 0 THEN Unread ELSE Reads(f[i - 1], s[i])
      /\ \A i \in 0 .. Len(t) : g[i] = IF i = 0 THEN Unread ELSE Reads(g[i - 1], t[i])
    BY DEF IsReading
<1>2. 0 \in P
    BY <1>0, <1>1
<1>3. ASSUME NEW n \in Nat, n \in P PROVE n + 1 \in P
  <2> SUFFICES ASSUME n + 1 <= Len(s) PROVE f[n + 1] = g[n + 1]
      OBVIOUS
  <2>1. f[n] = g[n] /\ s[n + 1] = t[n + 1] /\ (n + 1) - 1 = n /\ n + 1 # 0
      BY <1>3, <1>0
  <2>2. n + 1 \in 0 .. Len(s) /\ n + 1 \in 0 .. Len(t)
      BY <1>0
  <2> QED  BY <2>1, <2>2, <1>1
<1> HIDE DEF P
<1>4. Len(s) \in P
    BY <1>0, <1>2, <1>3, Induction
<1> QED  BY <1>4 DEF P

\* The rows are read one after the other.
LEMMA ReadingStep ==
    ASSUME NEW s \in Seq(Row)
    PROVE  /\ Reading(s) \in Read
           /\ Reading(<<>>) = Unread
           /\ \A row \in Row : Reading(Append(s, row)) = Reads(Reading(s), row)
<1>1. \A r : Reading(r) = (CHOOSE f : IsReading(r, f))[Len(r)]
    BY DEF Reading, IsReading, Unread
<1>2. ASSUME NEW r \in Seq(Row)
      PROVE  \E f \in [0 .. Len(r) -> Read] : IsReading(r, f) /\ Reading(r) = f[Len(r)]
  <2>1. PICK f \in [0 .. Len(r) -> Read] : IsReading(r, f)
      BY ReadingFunction
  <2>2. IsReading(r, CHOOSE g : IsReading(r, g))
      BY <2>1
  <2>3. Len(r) \in Nat
      BY LenProperties
  <2>4. (CHOOSE g : IsReading(r, g))[Len(r)] = f[Len(r)]
      BY <2>1, <2>2, <2>3, ReadingAgrees
  <2> QED  BY <2>1, <2>4, <1>1
<1>3. PICK f \in [0 .. Len(s) -> Read] : IsReading(s, f) /\ Reading(s) = f[Len(s)]
    BY <1>2
<1>4. Len(s) \in Nat
    BY LenProperties
<1>5. Reading(s) \in Read
    BY <1>3, <1>4
<1>6. Reading(<<>>) = Unread
  <2>1. <<>> \in Seq(Row) /\ Len(<<>>) = 0
      BY EmptySeq
  <2>2. PICK g \in [0 .. Len(<<>>) -> Read] : IsReading(<<>>, g) /\ Reading(<<>>) = g[Len(<<>>)]
      BY <2>1, <1>2
  <2>3. g[0] = Unread
      BY <2>1, <2>2 DEF IsReading
  <2> QED  BY <2>1, <2>2, <2>3
<1>7. ASSUME NEW row \in Row PROVE Reading(Append(s, row)) = Reads(Reading(s), row)
  <2> DEFINE t == Append(s, row)
  <2>1. t \in Seq(Row) /\ Len(t) = Len(s) + 1 /\ t[Len(s) + 1] = row
        /\ \A i \in 1 .. Len(s) : s[i] = t[i]
      BY AppendProperties
  <2> HIDE DEF t
  <2>2. PICK g \in [0 .. Len(t) -> Read] : IsReading(t, g) /\ Reading(t) = g[Len(t)]
      BY <2>1, <1>2
  <2>3. f[Len(s)] = g[Len(s)]
      BY <2>1, <2>2, <1>3, <1>4, ReadingAgrees
  <2>4. g[Len(t)] = Reads(g[Len(t) - 1], t[Len(t)])
    <3>1. Len(t) \in 0 .. Len(t) /\ Len(t) # 0
        BY <2>1, <1>4
    <3> QED  BY <3>1, <2>2 DEF IsReading
  <2>5. Len(t) - 1 = Len(s)
      BY <2>1, <1>4
  <2>6. Reading(t) = Reads(Reading(s), row)
      BY <2>1, <2>2, <2>3, <2>4, <2>5, <1>3
  <2> QED  BY <2>6 DEF t
<1> QED  BY <1>5, <1>6, <1>7

-----------------------------------------------------------------------------
(* The messages of a log *)

\* The rows of a sequence of ids, and the tool messages.
Tools(ids) == [i \in DOMAIN ids |-> ToolMessage(ids[i])]

\* The rows of ids: their type, and how one more id adds one.
LEMMA RowsOfType ==
    ASSUME NEW kind \in Kind, NEW ids \in Seq(Nat)
    PROVE  /\ RowsOf(kind, ids) \in Seq(Row) /\ Len(RowsOf(kind, ids)) = Len(ids)
           /\ \A i \in 1 .. Len(ids) : RowsOf(kind, ids)[i] = [kind |-> kind, id |-> ids[i]]
           /\ \A x \in Nat : RowsOf(kind, Append(ids, x))
                                 = Append(RowsOf(kind, ids), [kind |-> kind, id |-> x])
<1>1. Len(ids) \in Nat /\ DOMAIN ids = 1 .. Len(ids) /\ \A i \in 1 .. Len(ids) : ids[i] \in Nat
    BY LenProperties
<1>2. \A i \in 1 .. Len(ids) : [kind |-> kind, id |-> ids[i]] \in Row
    BY <1>1 DEF Row
<1>3. /\ RowsOf(kind, ids) \in Seq(Row) /\ Len(RowsOf(kind, ids)) = Len(ids)
      /\ \A i \in 1 .. Len(ids) : RowsOf(kind, ids)[i] = [kind |-> kind, id |-> ids[i]]
    BY <1>1, <1>2 DEF RowsOf
<1>4. ASSUME NEW x \in Nat
      PROVE  RowsOf(kind, Append(ids, x)) = Append(RowsOf(kind, ids), [kind |-> kind, id |-> x])
  <2> DEFINE more == Append(ids, x)
             row == [kind |-> kind, id |-> x]
  <2>1. /\ more \in Seq(Nat) /\ Len(more) = Len(ids) + 1 /\ DOMAIN more = 1 .. Len(ids) + 1
        /\ \A i \in 1 .. Len(ids) : more[i] = ids[i]
        /\ more[Len(ids) + 1] = x
      BY AppendProperties, LenProperties
  <2>2. row \in Row
      BY DEF Row
  <2>3. \A i \in 1 .. Len(ids) + 1 : more[i] \in Nat
      BY <2>1, LenProperties
  <2>4. \A i \in 1 .. Len(ids) + 1 : [kind |-> kind, id |-> more[i]] \in Row
      BY <2>3 DEF Row
  <2>5. /\ RowsOf(kind, more) \in Seq(Row) /\ Len(RowsOf(kind, more)) = Len(ids) + 1
        /\ \A i \in 1 .. Len(ids) + 1 : RowsOf(kind, more)[i] = [kind |-> kind, id |-> more[i]]
    <3> HIDE DEF more
    <3> QED  BY <2>1, <2>4, <1>1 DEF RowsOf
  <2>6. /\ Append(RowsOf(kind, ids), row) \in Seq(Row)
        /\ Len(Append(RowsOf(kind, ids), row)) = Len(ids) + 1
        /\ \A i \in 1 .. Len(ids) : Append(RowsOf(kind, ids), row)[i] = RowsOf(kind, ids)[i]
        /\ Append(RowsOf(kind, ids), row)[Len(ids) + 1] = row
      BY <1>3, <2>2, AppendProperties
  <2>7. ASSUME NEW i \in 1 .. Len(ids) + 1
        PROVE  RowsOf(kind, more)[i] = Append(RowsOf(kind, ids), row)[i]
    <3>1. CASE i = Len(ids) + 1
        BY <3>1, <2>1, <2>5, <2>6
    <3>2. CASE i \in 1 .. Len(ids)
        BY <3>2, <2>1, <2>5, <2>6, <1>3
    <3>3. i = Len(ids) + 1 \/ i \in 1 .. Len(ids)
        BY <1>1
    <3> QED  BY <3>1, <3>2, <3>3
  <2> HIDE DEF more, row
  <2>8. RowsOf(kind, more) = Append(RowsOf(kind, ids), row)
      BY <2>5, <2>6, <2>7, SeqEqual
  <2> QED  BY <2>8 DEF more, row
<1> QED  BY <1>3, <1>4

\* The tool messages of ids: their type, and how one more id adds one.
LEMMA ToolsType ==
    ASSUME NEW ids \in Seq(Nat)
    PROVE  /\ Tools(ids) \in Seq(Msg) /\ Len(Tools(ids)) = Len(ids)
           /\ \A i \in 1 .. Len(ids) : Tools(ids)[i] = ToolMessage(ids[i])
           /\ \A x \in Nat : Tools(Append(ids, x)) = Append(Tools(ids), ToolMessage(x))
<1>1. Len(ids) \in Nat /\ DOMAIN ids = 1 .. Len(ids) /\ \A i \in 1 .. Len(ids) : ids[i] \in Nat
    BY LenProperties
<1>2. \A x \in Nat : ToolMessage(x) \in Msg
    BY EmptySeq DEF ToolMessage, Message, Msg
<1>3. /\ Tools(ids) \in Seq(Msg) /\ Len(Tools(ids)) = Len(ids)
      /\ \A i \in 1 .. Len(ids) : Tools(ids)[i] = ToolMessage(ids[i])
    BY <1>1, <1>2 DEF Tools
<1>4. ASSUME NEW x \in Nat
      PROVE  Tools(Append(ids, x)) = Append(Tools(ids), ToolMessage(x))
  <2> DEFINE more == Append(ids, x)
  <2>1. /\ more \in Seq(Nat) /\ Len(more) = Len(ids) + 1 /\ DOMAIN more = 1 .. Len(ids) + 1
        /\ \A i \in 1 .. Len(ids) : more[i] = ids[i]
        /\ more[Len(ids) + 1] = x
      BY AppendProperties, LenProperties
  <2>2. ToolMessage(x) \in Msg
      BY <1>2
  <2>3. \A i \in 1 .. Len(ids) + 1 : ToolMessage(more[i]) \in Msg
      BY <1>1, <1>2, <2>1, LenProperties
  <2>5. /\ Tools(more) \in Seq(Msg) /\ Len(Tools(more)) = Len(ids) + 1
        /\ \A i \in 1 .. Len(ids) + 1 : Tools(more)[i] = ToolMessage(more[i])
    <3> HIDE DEF more
    <3> QED  BY <2>1, <2>3, <1>1 DEF Tools
  <2>6. /\ Append(Tools(ids), ToolMessage(x)) \in Seq(Msg)
        /\ Len(Append(Tools(ids), ToolMessage(x))) = Len(ids) + 1
        /\ \A i \in 1 .. Len(ids) : Append(Tools(ids), ToolMessage(x))[i] = Tools(ids)[i]
        /\ Append(Tools(ids), ToolMessage(x))[Len(ids) + 1] = ToolMessage(x)
      BY <1>3, <2>2, AppendProperties
  <2>7. ASSUME NEW i \in 1 .. Len(ids) + 1
        PROVE  Tools(more)[i] = Append(Tools(ids), ToolMessage(x))[i]
    <3>1. CASE i = Len(ids) + 1
        BY <3>1, <2>1, <2>5, <2>6
    <3>2. CASE i \in 1 .. Len(ids)
        BY <3>2, <2>1, <2>5, <2>6, <1>3
    <3>3. i = Len(ids) + 1 \/ i \in 1 .. Len(ids)
        BY <1>1
    <3> QED  BY <3>1, <3>2, <3>3
  <2> HIDE DEF more
  <2>8. Tools(more) = Append(Tools(ids), ToolMessage(x))
      BY <2>5, <2>6, <2>7, SeqEqual
  <2> QED  BY <2>8 DEF more
<1> QED  BY <1>3, <1>4

-----------------------------------------------------------------------------
(* Derived *)

\* deriveMessagesFrom returns messages; the calls that wait are the only
\* difference between what it read and what it returns.
LEMMA DerivedType ==
    ASSUME NEW s \in Seq(Row)
    PROVE  /\ Derived(s) \in Seq(Msg) /\ Derived(<<>>) = <<>>
           /\ Reading(s).pending \in Seq(Nat) /\ Reading(s).messages \in Seq(Msg)
           /\ Reading(s).pending = <<>> => Derived(s) = Reading(s).messages
<1>1. Reading(s).pending \in Seq(Nat) /\ Reading(s).messages \in Seq(Msg)
    BY ReadingStep DEF Read
<1>2. Flushed(Reading(s).pending) \in Seq(Msg)
  <2>1. [kind |-> "start", id |-> 0] \in Row
      BY DEF Row, Kind
  <2> QED  BY <2>1, ReadingStep, ReadsType
<1>3. Derived(s) \in Seq(Msg)
    BY <1>1, <1>2, ConcatProperties DEF Derived
<1>4. Derived(<<>>) = <<>>
    BY ReadingStep, EmptySeq, ConcatEmptySeq DEF Derived, Unread, Flushed
<1>5. Reading(s).pending = <<>> => Derived(s) = Reading(s).messages
    BY <1>1, ConcatEmptySeq DEF Derived, Flushed
<1> QED  BY <1>1, <1>3, <1>4, <1>5

\* A row that is not a call adds its message, and no call waits after it.
LEMMA DerivedStep ==
    ASSUME NEW s \in Seq(Row), NEW row \in Row, row.kind # "call"
    PROVE  /\ Derived(Append(s, row)) = Derived(s) \o Projected(row)
           /\ Reading(Append(s, row)).pending = <<>>
<1>1. Reading(Append(s, row)) = [messages |-> Derived(s) \o Projected(row), pending |-> <<>>]
    BY ReadingStep DEF Reads, Derived
<1>2. Projected(row) \in Seq(Msg)
    BY ReadingStep, ReadsType
<1>3. Derived(s) \o Projected(row) \in Seq(Msg)
    BY <1>2, DerivedType, ConcatProperties
<1>4. (Derived(s) \o Projected(row)) \o <<>> = Derived(s) \o Projected(row)
    BY <1>3, ConcatEmptySeq
<1>5. Flushed(<<>>) = <<>>
    BY DEF Flushed
<1>6. Derived(Append(s, row)) = (Derived(s) \o Projected(row)) \o Flushed(<<>>)
  <2> DEFINE d == Derived(s) \o Projected(row)
  <2>1. Reading(Append(s, row)).messages = d /\ Reading(Append(s, row)).pending = <<>>
      BY <1>1
  <2> HIDE DEF d
  <2>2. Derived(Append(s, row)) = d \o Flushed(<<>>)
      BY <2>1 DEF Derived
  <2> QED  BY <2>2 DEF d
<1> QED  BY <1>1, <1>4, <1>5, <1>6

\* Results, or the results that a cancel synthesizes, are as many tool messages.
LEMMA DerivedResults ==
    ASSUME NEW s \in Seq(Row), NEW kind \in {"result", "cancelled"}, NEW ids \in Seq(Nat)
    PROVE  /\ Derived(s \o RowsOf(kind, ids)) = Derived(s) \o Tools(ids)
           /\ ids # <<>> => Reading(s \o RowsOf(kind, ids)).pending = <<>>
<1> DEFINE P == {r \in Seq(Nat) :
                    /\ Derived(s \o RowsOf(kind, r)) = Derived(s) \o Tools(r)
                    /\ r # <<>> => Reading(s \o RowsOf(kind, r)).pending = <<>>}
<1>0. kind \in Kind
    BY DEF Kind
<1>1. <<>> \in P
  <2>1. RowsOf(kind, <<>>) = <<>> /\ Tools(<<>>) = <<>>
      BY DEF RowsOf, Tools
  <2>2. s \o <<>> = s /\ Derived(s) \o <<>> = Derived(s)
      BY ConcatEmptySeq, DerivedType
  <2> QED  BY <2>1, <2>2, EmptySeq
<1>2. ASSUME NEW r \in Seq(Nat), NEW x \in Nat, r \in P PROVE Append(r, x) \in P
  <2> DEFINE row == [kind |-> kind, id |-> x]
             t == s \o RowsOf(kind, r)
  <2>1. row \in Row /\ row.kind # "call" /\ Projected(row) = <<ToolMessage(x)>>
      BY <1>0 DEF Row, Projected
  <2>2. RowsOf(kind, r) \in Seq(Row) /\ RowsOf(kind, Append(r, x)) = Append(RowsOf(kind, r), row)
      BY <1>0, RowsOfType
  <2>3. t \in Seq(Row) /\ s \o RowsOf(kind, Append(r, x)) = Append(t, row)
    <3>1. \A q \in Seq(Row), y \in Row :
              s \o q \in Seq(Row) /\ s \o Append(q, y) = Append(s \o q, y)
        BY ConcatProperties, ConcatAppend
    <3> HIDE DEF row
    <3> QED  BY <3>1, <2>1, <2>2
  <2>4. Tools(r) \in Seq(Msg) /\ Tools(Append(r, x)) = Append(Tools(r), ToolMessage(x))
      BY ToolsType
  <2>5. ToolMessage(x) \in Msg /\ <<ToolMessage(x)>> \in Seq(Msg)
      BY EmptySeq DEF ToolMessage, Message, Msg
  <2>6. (Derived(s) \o Tools(r)) \o <<ToolMessage(x)>> = Derived(s) \o Append(Tools(r), ToolMessage(x))
    <3>1. Derived(s) \in Seq(Msg) /\ Derived(s) \o Tools(r) \in Seq(Msg)
        BY <2>4, DerivedType, ConcatProperties
    <3>2. Append(Derived(s) \o Tools(r), ToolMessage(x)) = (Derived(s) \o Tools(r)) \o <<ToolMessage(x)>>
        BY <3>1, <2>5, AppendIsConcat
    <3>3. \A q \in Seq(Msg), y \in Msg : Derived(s) \o Append(q, y) = Append(Derived(s) \o q, y)
        BY <3>1, ConcatAppend
    <3> QED  BY <3>2, <3>3, <2>4, <2>5
  <2> HIDE DEF row, t
  <2>7. /\ Derived(Append(t, row)) = Derived(t) \o <<ToolMessage(x)>>
        /\ Reading(Append(t, row)).pending = <<>>
      BY <2>1, <2>3, DerivedStep
  <2>8. Derived(t) = Derived(s) \o Tools(r)
      BY <1>2 DEF t
  <2>9. Append(r, x) \in Seq(Nat)
      BY AppendProperties
  <2> QED  BY <2>3, <2>4, <2>6, <2>7, <2>8, <2>9
<1> HIDE DEF P
<1>3. ids \in P
    BY <1>1, <1>2, SeqInduction
<1> QED  BY <1>3 DEF P

\* Calls after a flushed history are one message.
LEMMA DerivedCalls ==
    ASSUME NEW s \in Seq(Row), NEW ids \in Seq(Nat), Reading(s).pending = <<>>
    PROVE  Derived(s \o RowsOf("call", ids)) = Derived(s) \o Flushed(ids)
<1> DEFINE P == {r \in Seq(Nat) :
                    Reading(s \o RowsOf("call", r)) = [messages |-> Reading(s).messages, pending |-> r]}
<1>0. "call" \in Kind
    BY DEF Kind
<1>1. <<>> \in P
  <2>1. RowsOf("call", <<>>) = <<>>
      BY DEF RowsOf
  <2>2. s \o <<>> = s
      BY ConcatEmptySeq
  <2>3. Reading(s) = [messages |-> Reading(s).messages, pending |-> <<>>]
      BY ReadingStep DEF Read
  <2> QED  BY <2>1, <2>2, <2>3, EmptySeq
<1>2. ASSUME NEW r \in Seq(Nat), NEW x \in Nat, r \in P PROVE Append(r, x) \in P
  <2> DEFINE row == [kind |-> "call", id |-> x]
             t == s \o RowsOf("call", r)
  <2>1. row \in Row /\ row.kind = "call" /\ row.id = x
      BY <1>0 DEF Row
  <2>2. RowsOf("call", r) \in Seq(Row) /\ RowsOf("call", Append(r, x)) = Append(RowsOf("call", r), row)
      BY <1>0, RowsOfType
  <2>3. t \in Seq(Row) /\ s \o RowsOf("call", Append(r, x)) = Append(t, row)
    <3>1. \A q \in Seq(Row), y \in Row :
              s \o q \in Seq(Row) /\ s \o Append(q, y) = Append(s \o q, y)
        BY ConcatProperties, ConcatAppend
    <3> HIDE DEF row
    <3> QED  BY <3>1, <2>1, <2>2
  <2>4. Reading(t) = [messages |-> Reading(s).messages, pending |-> r]
      BY <1>2
  <2> HIDE DEF row, t
  <2>5. Reading(Append(t, row)) = Reads(Reading(t), row)
      BY <2>1, <2>3, ReadingStep
  <2>6. Reads(Reading(t), row) = [messages |-> Reading(s).messages, pending |-> Append(r, x)]
      BY <2>1, <2>4 DEF Reads
  <2>7. Append(r, x) \in Seq(Nat)
      BY AppendProperties
  <2> QED  BY <2>3, <2>5, <2>6, <2>7
<1> HIDE DEF P
<1>3. ids \in P
    BY <1>1, <1>2, SeqInduction
<1>4. Derived(s) = Reading(s).messages
    BY DerivedType
<1>5. Reading(s \o RowsOf("call", ids)) = [messages |-> Derived(s), pending |-> ids]
    BY <1>3, <1>4 DEF P
<1>6. \A r : Derived(r) = Reading(r).messages \o Flushed(Reading(r).pending)
    BY DEF Derived
<1>7. /\ Reading(s \o RowsOf("call", ids)).messages = Derived(s)
      /\ Reading(s \o RowsOf("call", ids)).pending = ids
    BY <1>5
<1> QED  BY <1>6, <1>7

-----------------------------------------------------------------------------
(* Complete histories *)

\* The results of the message at i follow it, each its own, and nothing more.
Answered(m, i) ==
    LET ids == m[i].calls
    IN  /\ i + Len(ids) <= Len(m)
        /\ \A n \in 1 .. Len(ids) : m[i + n] = ToolMessage(ids[n])
        /\ i + Len(ids) + 1 <= Len(m) => m[i + Len(ids) + 1].role # "tool"
\* All results are there.
Complete(m) == \A i \in 1 .. Len(m) : m[i].calls # <<>> => Answered(m, i)

\* The messages from i on.
Rest(m, i) == SubSeq(m, i, Len(m))

\* The body of the recursive function of Balanced.
TailAt(m, f, i) ==
    IF i > Len(m) THEN <<>>
    ELSE IF m[i].calls = <<>> THEN <<m[i]>> \o f[i + 1]
    ELSE LET j == AfterResults(m, i)
             missing == Missing(m, i)
             skipped == SubSeq(m, j, IF j > Len(m) THEN j - 1 ELSE j)
         IN SubSeq(m, i, j - 1) \o [n \in DOMAIN missing |-> ToolMessage(missing[n])]
                \o skipped \o f[j + 1]

\* A tool message answers one call and makes none.
LEMMA ToolMessageIs ==
    \A x : ToolMessage(x).role = "tool" /\ ToolMessage(x).calls = <<>> /\ ToolMessage(x).answers = x
BY DEF ToolMessage, Message

\* Where all results of a message follow it, they are all that
\* balanceToolCalls finds, and none is missing.
LEMMA AfterAnswered ==
    ASSUME NEW m \in Seq(Msg), NEW i \in 1 .. Len(m), Answered(m, i)
    PROVE  AfterResults(m, i) = i + Len(m[i].calls) + 1 /\ Missing(m, i) = <<>>
<1> DEFINE ids == m[i].calls
           N == Len(ids)
           EndsAt(j) == /\ \A k \in i + 1 .. j - 1 : m[k].role = "tool"
                        /\ j <= Len(m) => m[j].role # "tool"
<1>1. ids \in Seq(Nat) /\ N \in Nat /\ Len(m) \in Nat /\ \A n \in 1 .. N : ids[n] \in Nat
  <2>1. m[i] \in Msg
      BY ElementOfSeq
  <2> QED  BY <2>1, LenProperties DEF Msg
<1>2. /\ i + N <= Len(m)
      /\ \A n \in 1 .. N : m[i + n] = ToolMessage(ids[n])
      /\ i + N + 1 <= Len(m) => m[i + N + 1].role # "tool"
    BY DEF Answered
<1> HIDE DEF ids, N
<1>3. \A k \in i + 1 .. i + N : m[k] = ToolMessage(ids[k - i])
  <2> SUFFICES ASSUME NEW k \in i + 1 .. i + N PROVE m[k] = ToolMessage(ids[k - i])
      OBVIOUS
  <2>1. k - i \in 1 .. N /\ i + (k - i) = k
      BY <1>1
  <2> QED  BY <2>1, <1>2
<1>4. \A k \in i + 1 .. i + N : m[k].role = "tool"
    BY <1>3, ToolMessageIs
<1>5. i + N + 1 \in i + 1 .. Len(m) + 1 /\ EndsAt(i + N + 1)
    BY <1>1, <1>2, <1>4
<1>6. ASSUME NEW j \in i + 1 .. Len(m) + 1, EndsAt(j) PROVE j = i + N + 1
  <2>1. CASE j < i + N + 1
    <3>1. j \in i + 1 .. i + N /\ j <= Len(m)
        BY <2>1, <1>1, <1>2
    <3> QED  BY <3>1, <1>4, <1>6
  <2>2. CASE j > i + N + 1
    <3>1. i + N + 1 \in i + 1 .. j - 1 /\ i + N + 1 <= Len(m)
        BY <2>2, <1>1
    <3> QED  BY <3>1, <1>2, <1>6
  <2> QED  BY <2>1, <2>2, <1>1
<1>7. AfterResults(m, i) = CHOOSE j \in i + 1 .. Len(m) + 1 : EndsAt(j)
    BY DEF AfterResults
<1>8. AfterResults(m, i) = i + N + 1
  <2> HIDE DEF EndsAt
  <2> QED  BY <1>5, <1>6, <1>7
<1>9. Missing(m, i) = <<>>
  <2> DEFINE answered == {m[k].answers : k \in i + 1 .. AfterResults(m, i) - 1}
  <2>1. \A n \in 1 .. N : ids[n] \in answered
    <3> SUFFICES ASSUME NEW n \in 1 .. N PROVE ids[n] \in answered
        OBVIOUS
    <3>1. i + n \in i + 1 .. AfterResults(m, i) - 1
        BY <1>1, <1>8
    <3>2. m[i + n].answers = ids[n]
        BY <1>2, ToolMessageIs
    <3> QED  BY <3>1, <3>2
  <2>2. Missing(m, i) = Kept(ids, Nat \ answered)
      BY DEF Missing, ids
  <2> HIDE DEF answered
  <2>3. \A n \in 1 .. Len(ids) : ids[n] \notin Nat \ answered
      BY <2>1 DEF N
  <2> QED  BY <2>2, <2>3, <1>1, KeptAll
<1> QED  BY <1>8, <1>9 DEF ids, N

\* Where all results are there, the body of Balanced passes the messages on.
LEMMA BalancedStep ==
    ASSUME NEW m \in Seq(Msg), Complete(m), NEW f, NEW i \in 1 .. Len(m) + 2,
           \A k \in i + 1 .. Len(m) + 2 : f[k] = Rest(m, k)
    PROVE  TailAt(m, f, i) = Rest(m, i)
<1>0. Len(m) \in Nat /\ \A k \in 1 .. Len(m) : m[k] \in Msg
    BY LenProperties
<1>1. CASE i > Len(m)
  <2>1. Rest(m, i) = <<>>
      BY <1>0, <1>1, SubSeqEmpty DEF Rest
  <2> QED  BY <2>1, <1>1 DEF TailAt
<1>2. CASE i <= Len(m) /\ m[i].calls = <<>>
  <2>1. i \in 1 .. Len(m) /\ Len(m) \in i .. Len(m) /\ i + 1 \in i + 1 .. Len(m) + 2
      BY <1>0, <1>2
  <2>2. Rest(m, i) = <<m[i]>> \o Rest(m, i + 1)
      BY <2>1, SubSeqRecursiveFirst DEF Rest
  <2>3. f[i + 1] = Rest(m, i + 1)
      BY <2>1
  <2>4. ~(i > Len(m))
      BY <2>1
  <2> QED  BY <1>2, <2>2, <2>3, <2>4 DEF TailAt
<1>3. CASE i <= Len(m) /\ m[i].calls # <<>>
  <2> DEFINE j == AfterResults(m, i)
  <2>0. i \in 1 .. Len(m) /\ m[i].calls \in Seq(Nat)
      BY <1>0, <1>3 DEF Msg
  <2>1. Answered(m, i)
      BY <1>3, <2>0 DEF Complete
  <2>2. j = i + Len(m[i].calls) + 1 /\ Missing(m, i) = <<>>
      BY <2>0, <2>1, AfterAnswered
  <2>3. j \in i + 1 .. Len(m) + 1
    <3>1. Len(m[i].calls) \in Nat /\ i + Len(m[i].calls) <= Len(m)
        BY <2>0, <2>1, LenProperties DEF Answered
    <3> HIDE DEF j
    <3> QED  BY <3>1, <2>2
  <2> HIDE DEF j
  <2>4. [n \in DOMAIN Missing(m, i) |-> ToolMessage(Missing(m, i)[n])] = <<>>
      BY <2>2
  <2>5. f[j + 1] = Rest(m, j + 1)
      BY <2>3, <1>0
  <2> DEFINE front == SubSeq(m, i, j - 1)
             skipped == SubSeq(m, j, IF j > Len(m) THEN j - 1 ELSE j)
  <2>6. front \in Seq(Msg) /\ front \o <<>> = front
    <3>1. \A k \in i .. j - 1 : m[k] \in Msg
        BY <1>0, <2>0, <2>3
    <3>2. front \in Seq(Msg)
        BY <3>1, <2>0, <2>3, SubSeqProperties
    <3> HIDE DEF front
    <3> QED  BY <3>2, ConcatEmptySeq
  <2>7. TailAt(m, f, i) = front \o <<>> \o skipped \o Rest(m, j + 1)
    <3>1. ~(i > Len(m)) /\ m[i].calls # <<>>
        BY <1>3, <1>0
    <3> QED  BY <3>1, <2>4, <2>5 DEF TailAt, j
  <2>8. (front \o skipped) \o Rest(m, j + 1) = Rest(m, i)
    <3>1. CASE j > Len(m)
      <4>1. skipped = <<>> /\ Rest(m, j + 1) = <<>>
          BY <3>1, <2>3, <1>0, SubSeqEmpty DEF Rest
      <4>2. j - 1 = Len(m)
          BY <3>1, <2>3, <1>0
      <4> QED  BY <4>1, <4>2, <2>6 DEF Rest
    <3>2. CASE j <= Len(m)
      <4>1. skipped = SubSeq(m, j, j)
          BY <3>2, <2>3, <1>0
      <4>2. /\ i \in 1 .. Len(m) + 1 /\ j - 1 \in i - 1 .. Len(m) /\ j \in j - 1 .. Len(m)
            /\ j \in i - 1 .. Len(m) /\ Len(m) \in j .. Len(m) /\ (j - 1) + 1 = j
          BY <3>2, <2>0, <2>3, <1>0
      <4>3. front \o skipped = SubSeq(m, i, j)
          BY <4>1, <4>2, ConcatAdjacentSubSeq
      <4>4. SubSeq(m, i, j) \o SubSeq(m, j + 1, Len(m)) = SubSeq(m, i, Len(m))
          BY <4>2, ConcatAdjacentSubSeq
      <4> QED  BY <4>3, <4>4 DEF Rest
    <3> QED  BY <3>1, <3>2, <2>3, <1>0
  <2> QED  BY <2>6, <2>7, <2>8
<1> QED  BY <1>0, <1>1, <1>2, <1>3

\* balanceToolCalls leaves a complete history as it is.
LEMMA BalancedComplete ==
    ASSUME NEW m \in Seq(Msg), Complete(m)
    PROVE  Balanced(m) = m
<1> DEFINE IsTail(f) == f = [i \in 1 .. Len(m) + 2 |-> TailAt(m, f, i)]
           rest == [i \in 1 .. Len(m) + 2 |-> Rest(m, i)]
           tail == CHOOSE f : IsTail(f)
<1>0. Len(m) \in Nat
    BY LenProperties
<1>1. IsTail(rest)
  <2>1. ASSUME NEW i \in 1 .. Len(m) + 2 PROVE TailAt(m, rest, i) = Rest(m, i)
    <3>1. \A k \in i + 1 .. Len(m) + 2 : rest[k] = Rest(m, k)
        BY <1>0
    <3> HIDE DEF rest
    <3> QED  BY <3>1, BalancedStep
  <2>2. rest = [i \in 1 .. Len(m) + 2 |-> TailAt(m, rest, i)]
      BY <2>1
  <2> QED  BY <2>2
<1>2. IsTail(tail)
  <2> HIDE DEF rest, IsTail
  <2> QED  BY <1>1
<1>3. \A i \in 1 .. Len(m) + 2 : tail[i] = TailAt(m, tail, i)
  <2> HIDE DEF tail
  <2> QED  BY <1>2
<1> HIDE DEF tail, IsTail
<1> DEFINE P == {n \in Nat : \A i \in 1 .. Len(m) + 2 : Len(m) + 2 - i <= n => tail[i] = Rest(m, i)}
<1>4. 0 \in P
  <2> SUFFICES ASSUME NEW i \in 1 .. Len(m) + 2, Len(m) + 2 - i <= 0 PROVE tail[i] = Rest(m, i)
      OBVIOUS
  <2>1. \A k \in i + 1 .. Len(m) + 2 : tail[k] = Rest(m, k)
      BY <1>0
  <2> QED  BY <2>1, <1>3, BalancedStep
<1>5. ASSUME NEW n \in Nat, n \in P PROVE n + 1 \in P
  <2> SUFFICES ASSUME NEW i \in 1 .. Len(m) + 2, Len(m) + 2 - i <= n + 1 PROVE tail[i] = Rest(m, i)
      OBVIOUS
  <2>1. ASSUME NEW k \in i + 1 .. Len(m) + 2 PROVE tail[k] = Rest(m, k)
    <3>1. k \in 1 .. Len(m) + 2 /\ Len(m) + 2 - k <= n
        BY <1>0
    <3> QED  BY <3>1, <1>5
  <2> QED  BY <2>1, <1>3, BalancedStep
<1> HIDE DEF P
<1>6. Nat \subseteq P
    BY <1>4, <1>5, Induction
<1>7. tail[1] = Rest(m, 1)
  <2>1. 1 \in 1 .. Len(m) + 2 /\ Len(m) + 1 \in P /\ Len(m) + 2 - 1 <= Len(m) + 1
      BY <1>0, <1>6
  <2> QED  BY <2>1 DEF P
<1>8. Balanced(m) = tail[1]
    BY DEF Balanced, tail, IsTail, TailAt
<1> QED  BY <1>7, <1>8, SubSeqFull DEF Rest

\* A complete history is one the upstream accepts.
LEMMA WellPairedComplete ==
    ASSUME NEW m \in Seq(Msg), Complete(m)
    PROVE  WellPaired(m)
<1>0. Len(m) \in Nat /\ DOMAIN m = 1 .. Len(m) /\ \A k \in 1 .. Len(m) : m[k] \in Msg
    BY LenProperties
<1>1. ASSUME NEW i \in 1 .. Len(m), m[i].calls # <<>>
      PROVE  /\ i + Len(m[i].calls) <= Len(m)
             /\ {m[i].calls[n] : n \in DOMAIN m[i].calls} = {m[i + n].answers : n \in DOMAIN m[i].calls}
             /\ AfterResults(m, i) = i + Len(m[i].calls) + 1
  <2>1. Answered(m, i)
      BY <1>1 DEF Complete
  <2>2. m[i].calls \in Seq(Nat) /\ DOMAIN m[i].calls = 1 .. Len(m[i].calls)
    <3>1. m[i].calls \in Seq(Nat)
        BY <1>0 DEF Msg
    <3> QED  BY <3>1, LenProperties
  <2>3. \A n \in DOMAIN m[i].calls : m[i + n].answers = m[i].calls[n]
      BY <2>1, <2>2, ToolMessageIs DEF Answered
  <2>4. i + Len(m[i].calls) <= Len(m)
      BY <2>1 DEF Answered
  <2>5. {m[i].calls[n] : n \in DOMAIN m[i].calls} = {m[i + n].answers : n \in DOMAIN m[i].calls}
      BY <2>3
  <2> QED  BY <2>1, <2>4, <2>5, AfterAnswered
<1> QED  BY <1>0, <1>1 DEF WellPaired

\* What keeps a history complete.
LEMMA CompletePlain ==
    ASSUME NEW m \in Seq(Msg), Complete(m), NEW x \in Msg, x.calls = <<>>, x.role # "tool"
    PROVE  Complete(Append(m, x))
<1> DEFINE more == Append(m, x)
<1>0. /\ Len(m) \in Nat /\ Len(more) = Len(m) + 1
      /\ \A i \in 1 .. Len(m) : more[i] = m[i] /\ m[i] \in Msg
      /\ more[Len(m) + 1] = x
    BY LenProperties, AppendProperties
<1> HIDE DEF more
<1>1. ASSUME NEW i \in 1 .. Len(more), more[i].calls # <<>> PROVE Answered(more, i)
  <2>1. i \in 1 .. Len(m) /\ m[i].calls # <<>> /\ more[i] = m[i]
      BY <1>0, <1>1
  <2> DEFINE N == Len(m[i].calls)
  <2>2. Answered(m, i) /\ m[i].calls \in Seq(Nat) /\ N \in Nat
    <3>1. m[i].calls \in Seq(Nat)
        BY <2>1, <1>0 DEF Msg
    <3> QED  BY <3>1, <2>1, LenProperties DEF Complete
  <2>3. /\ i + N <= Len(m)
        /\ \A n \in 1 .. N : m[i + n] = ToolMessage(m[i].calls[n])
        /\ i + N + 1 <= Len(m) => m[i + N + 1].role # "tool"
      BY <2>2 DEF Answered
  <2> HIDE DEF N
  <2>4. \A n \in 1 .. N : i + n \in 1 .. Len(m)
      BY <2>1, <2>2, <2>3, <1>0
  <2>5. i + N <= Len(more) /\ \A n \in 1 .. N : more[i + n] = ToolMessage(m[i].calls[n])
    <3>1. i + N <= Len(more)
        BY <2>1, <2>2, <2>3, <1>0
    <3>2. \A n \in 1 .. N : more[i + n] = m[i + n]
        BY <2>4, <1>0
    <3> QED  BY <3>1, <3>2, <2>3
  <2>6. i + N + 1 <= Len(more) => more[i + N + 1].role # "tool"
    <3>1. CASE i + N + 1 <= Len(m)
      <4>1. i + N + 1 \in 1 .. Len(m)
          BY <3>1, <2>1, <2>2, <1>0
      <4> QED  BY <4>1, <3>1, <2>3, <1>0
    <3>2. CASE i + N = Len(m)
        BY <3>2, <1>0
    <3>3. i + N + 1 <= Len(m) \/ i + N = Len(m)
      <4>1. Len(m) \in Nat /\ i \in Int /\ N \in Nat /\ i + N <= Len(m)
          BY <2>1, <2>2, <2>3, <1>0
      <4> QED  BY <4>1
    <3> QED  BY <3>1, <3>2, <3>3
  <2> QED  BY <2>1, <2>5, <2>6 DEF Answered, N
<1> QED  BY <1>1 DEF Complete, more

\* A message with calls and its results keep a history complete.
LEMMA CompleteBlock ==
    ASSUME NEW m \in Seq(Msg), Complete(m), NEW ids \in Seq(Nat)
    PROVE  Complete(m \o Flushed(ids) \o Tools(ids))
<1>1. CASE ids = <<>>
  <2>1. Flushed(ids) = <<>> /\ Tools(ids) = <<>>
      BY <1>1 DEF Flushed, Tools
  <2>2. m \o <<>> \o <<>> = m
      BY ConcatEmptySeq
  <2> QED  BY <2>1, <2>2
<1>2. CASE ids # <<>>
  <2> DEFINE x == Message("assistant", ids, 0)
             all == m \o <<x>> \o Tools(ids)
             N == Len(ids)
             L == Len(m)
  <2>1. x \in Msg /\ x.calls = ids /\ x.role # "tool" /\ Flushed(ids) = <<x>>
      BY <1>2 DEF Message, Msg, Flushed
  <2>2. <<x>> \in Seq(Msg) /\ Len(<<x>>) = 1 /\ <<x>>[1] = x
    <3> HIDE DEF x
    <3> QED  BY <2>1, Singleton
  <2>3. N \in Nat \ {0} /\ L \in Nat
      BY <1>2, EmptySeq, LenProperties
  <2>4. /\ Tools(ids) \in Seq(Msg) /\ Len(Tools(ids)) = N
        /\ \A n \in 1 .. N : Tools(ids)[n] = ToolMessage(ids[n])
      BY ToolsType
  <2> HIDE DEF x
  <2>5. /\ m \o <<x>> \in Seq(Msg) /\ Len(m \o <<x>>) = L + 1
        /\ \A i \in 1 .. L + 1 : (m \o <<x>>)[i] = IF i <= L THEN m[i] ELSE <<x>>[i - L]
      BY <2>2, ConcatProperties
  <2> HIDE DEF N, L
  <2>6. /\ all \in Seq(Msg) /\ Len(all) = L + 1 + N
        /\ \A i \in 1 .. L + 1 + N : all[i] = IF i <= L + 1 THEN (m \o <<x>>)[i] ELSE Tools(ids)[i - (L + 1)]
    <3> DEFINE left == m \o <<x>>
    <3>1. left \in Seq(Msg) /\ Len(left) = L + 1 /\ all = left \o Tools(ids)
        BY <2>5
    <3> HIDE DEF left, all
    <3>2. /\ all \in Seq(Msg) /\ Len(all) = L + 1 + N
          /\ \A i \in 1 .. L + 1 + N : all[i] = IF i <= L + 1 THEN left[i] ELSE Tools(ids)[i - (L + 1)]
      <4>1. \A s, t \in Seq(Msg) :
                /\ s \o t \in Seq(Msg) /\ Len(s \o t) = Len(s) + Len(t)
                /\ \A i \in 1 .. Len(s) + Len(t) :
                       (s \o t)[i] = IF i <= Len(s) THEN s[i] ELSE t[i - Len(s)]
          BY ConcatProperties
      <4> DEFINE right == Tools(ids)
      <4>2. right \in Seq(Msg) /\ Len(right) = N /\ all = left \o right
          BY <2>4, <3>1
      <4> HIDE DEF right
      <4>3. /\ left \o right \in Seq(Msg) /\ Len(left \o right) = Len(left) + Len(right)
            /\ \A i \in 1 .. Len(left) + Len(right) :
                   (left \o right)[i] = IF i <= Len(left) THEN left[i] ELSE right[i - Len(left)]
          BY <4>1, <4>2, <3>1
      <4>4. /\ all \in Seq(Msg) /\ Len(all) = L + 1 + N
            /\ \A i \in 1 .. L + 1 + N : all[i] = IF i <= L + 1 THEN left[i] ELSE right[i - (L + 1)]
          BY <4>2, <4>3, <3>1
      <4> QED  BY <4>4 DEF right
    <3> QED  BY <3>2 DEF left
  <2> HIDE DEF all
  <2>7. /\ \A i \in 1 .. L : all[i] = m[i]
        /\ all[L + 1] = x
        /\ \A n \in 1 .. N : all[L + 1 + n] = ToolMessage(ids[n])
    <3>1. ASSUME NEW i \in 1 .. L PROVE all[i] = m[i]
      <4>1. i \in 1 .. L + 1 /\ i \in 1 .. L + 1 + N /\ i <= L + 1 /\ i <= L
          BY <2>3
      <4> QED  BY <4>1, <2>5, <2>6
    <3>2. all[L + 1] = x
      <4>1. L + 1 \in 1 .. L + 1 /\ L + 1 \in 1 .. L + 1 + N /\ ~(L + 1 <= L) /\ L + 1 - L = 1
          BY <2>3
      <4> QED  BY <4>1, <2>2, <2>5, <2>6
    <3>3. ASSUME NEW n \in 1 .. N PROVE all[L + 1 + n] = ToolMessage(ids[n])
      <4>1. L + 1 + n \in 1 .. L + 1 + N /\ ~(L + 1 + n <= L + 1) /\ L + 1 + n - (L + 1) = n
          BY <2>3
      <4>2. all[L + 1 + n] = Tools(ids)[L + 1 + n - (L + 1)]
        <5>1. \A k \in 1 .. L + 1 + N : ~(k <= L + 1) => all[k] = Tools(ids)[k - (L + 1)]
            BY <2>6
        <5> QED  BY <5>1, <4>1, <2>3
      <4> QED  BY <4>1, <4>2, <2>4
    <3> QED  BY <3>1, <3>2, <3>3
  <2>8. ASSUME NEW i \in 1 .. Len(all), all[i].calls # <<>> PROVE Answered(all, i)
    <3>1. CASE i \in 1 .. L
      <4> DEFINE K == Len(m[i].calls)
      <4>1. all[i] = m[i] /\ m[i].calls \in Seq(Nat) /\ K \in Nat /\ Answered(m, i)
        <5>1. all[i] = m[i] /\ m[i] \in Msg
            BY <3>1, <2>7, LenProperties DEF L
        <5> QED  BY <5>1, <3>1, <2>8, LenProperties DEF Complete, Msg, L
      <4>2. /\ i + K <= L
            /\ \A n \in 1 .. K : m[i + n] = ToolMessage(m[i].calls[n])
            /\ i + K + 1 <= L => m[i + K + 1].role # "tool"
          BY <4>1 DEF Answered, L
      <4> HIDE DEF K
      <4>3. \A n \in 1 .. K : i + n \in 1 .. L
          BY <4>1, <4>2, <3>1, <2>3
      <4>4. i + K <= Len(all) /\ \A n \in 1 .. K : all[i + n] = ToolMessage(m[i].calls[n])
          BY <4>1, <4>2, <4>3, <3>1, <2>3, <2>6, <2>7
      <4>5. all[i + K + 1].role # "tool"
        <5>1. CASE i + K + 1 <= L
          <6>1. i + K + 1 \in 1 .. L
              BY <5>1, <4>1, <3>1, <2>3
          <6> QED  BY <6>1, <5>1, <4>2, <2>7
        <5>2. CASE i + K = L
            BY <5>2, <2>1, <2>7
        <5>3. i + K + 1 <= L \/ i + K = L
            BY <4>1, <4>2, <3>1, <2>3
        <5> QED  BY <5>1, <5>2, <5>3
      <4> QED  BY <4>1, <4>4, <4>5 DEF Answered, K
    <3>2. CASE i = L + 1
      <4>1. all[i].calls = ids
          BY <3>2, <2>1, <2>7
      <4>2. /\ i + N <= Len(all) /\ ~(i + N + 1 <= Len(all))
            /\ \A n \in 1 .. N : all[i + n] = ToolMessage(ids[n])
        <5>1. i + N <= Len(all) /\ ~(i + N + 1 <= Len(all))
            BY <3>2, <2>3, <2>6
        <5>2. \A n \in 1 .. N : all[i + n] = ToolMessage(ids[n])
            BY <3>2, <2>7
        <5> QED  BY <5>1, <5>2
      <4> QED  BY <4>1, <4>2 DEF Answered, N
    <3>3. CASE i > L + 1
      <4>1. i - (L + 1) \in 1 .. N /\ L + 1 + (i - (L + 1)) = i
          BY <3>3, <2>3, <2>6
      <4>2. all[i] = ToolMessage(ids[i - (L + 1)])
          BY <4>1, <2>7
      <4> QED  BY <4>2, <2>8, ToolMessageIs
    <3> QED  BY <3>1, <3>2, <3>3, <2>3, <2>6
  <2> QED  BY <2>1, <2>8 DEF Complete, all
<1> QED  BY <1>1, <1>2

\* The tool messages of two sequences of ids, one after the other.
LEMMA ToolsConcat ==
    ASSUME NEW a \in Seq(Nat), NEW b \in Seq(Nat)
    PROVE  Tools(a \o b) = Tools(a) \o Tools(b)
<1> DEFINE P == {r \in Seq(Nat) : Tools(a \o r) = Tools(a) \o Tools(r)}
<1>0. Tools(a) \in Seq(Msg) /\ Tools(<<>>) = <<>>
    BY ToolsType DEF Tools
<1>1. <<>> \in P
  <2>1. a \o <<>> = a /\ Tools(a) \o <<>> = Tools(a)
      BY <1>0, ConcatEmptySeq
  <2> QED  BY <2>1, <1>0, EmptySeq
<1>2. ASSUME NEW r \in Seq(Nat), NEW x \in Nat, r \in P PROVE Append(r, x) \in P
  <2>1. Append(r, x) \in Seq(Nat) /\ a \o r \in Seq(Nat) /\ a \o Append(r, x) = Append(a \o r, x)
      BY AppendProperties, ConcatProperties, ConcatAppend
  <2>2. \A q \in Seq(Nat) : Tools(q) \in Seq(Msg) /\ Tools(Append(q, x)) = Append(Tools(q), ToolMessage(x))
      BY ToolsType
  <2>3. ToolMessage(x) \in Msg
      BY EmptySeq DEF ToolMessage, Message, Msg
  <2>4. \A p, q \in Seq(Msg), y \in Msg : p \o Append(q, y) = Append(p \o q, y)
      BY ConcatAppend
  <2>5. Tools(a) \o Append(Tools(r), ToolMessage(x)) = Append(Tools(a) \o Tools(r), ToolMessage(x))
      BY <2>2, <2>3, <2>4, <1>0
  <2>6. Tools(a \o Append(r, x)) = Tools(a) \o Tools(Append(r, x))
      BY <2>1, <2>2, <2>5, <1>2
  <2> QED  BY <2>1, <2>6
<1> HIDE DEF P
<1>3. b \in P
    BY <1>1, <1>2, SeqInduction
<1> QED  BY <1>3 DEF P

-----------------------------------------------------------------------------
(* Rows that are neither a call nor a result *)

\* The elements of a sequence.
Ran(seq) == {seq[i] : i \in DOMAIN seq}

\* Rows that are neither a call nor a result.
PlainKind == {"start", "end", "user", "steer", "thinking", "reply"}
PlainRow == [kind : PlainKind, id : Nat]
\* The history of a log where no call waits.
Flush(s) == Reading(s).pending = <<>> /\ Complete(Derived(s))

\* Rows that are neither calls nor results keep the derived history complete.
LEMMA PlainRows ==
    ASSUME NEW s \in Seq(Row), NEW t \in Seq(PlainRow), Flush(s)
    PROVE  s \o t \in Seq(Row) /\ Flush(s \o t)
<1> DEFINE P == {r \in Seq(PlainRow) : s \o r \in Seq(Row) /\ Flush(s \o r)}
<1>1. <<>> \in P
    BY EmptySeq, ConcatEmptySeq
<1>2. ASSUME NEW r \in Seq(PlainRow), NEW row \in PlainRow, r \in P PROVE Append(r, row) \in P
  <2> DEFINE q == s \o r
  <2>1. row \in Row /\ row.kind # "call" /\ row.kind \in PlainKind /\ PlainRow \subseteq Row
      BY DEF PlainRow, PlainKind, Row, Kind
  <2>2. r \in Seq(Row) /\ q \in Seq(Row) /\ Append(r, row) \in Seq(PlainRow)
      BY <1>2, <2>1, SeqMonotonic, AppendProperties
  <2>3. s \o Append(r, row) = Append(q, row) /\ Append(q, row) \in Seq(Row)
      BY <2>1, <2>2, ConcatAppend, AppendProperties
  <2>4. Flush(q)
      BY <1>2
  <2> HIDE DEF q
  <2>5. Derived(Append(q, row)) = Derived(q) \o Projected(row) /\ Reading(Append(q, row)).pending = <<>>
      BY <2>1, <2>2, DerivedStep
  <2>6. Derived(q) \in Seq(Msg) /\ Complete(Derived(q))
      BY <2>2, <2>4, DerivedType DEF Flush
  <2>7. \A x \in Msg : x.calls = <<>> /\ x.role # "tool" =>
            Derived(q) \o <<x>> = Append(Derived(q), x) /\ Complete(Append(Derived(q), x))
      BY <2>6, CompletePlain, AppendIsConcat
  <2>8. Complete(Derived(q) \o Projected(row))
    <3> DEFINE U == Message("user", <<>>, 0)
               A == Message("assistant", <<>>, 0)
    <3>1. U \in Msg /\ U.calls = <<>> /\ U.role # "tool" /\ A \in Msg /\ A.calls = <<>> /\ A.role # "tool"
        BY EmptySeq DEF Message, Msg
    <3>2. Projected(row) = <<>> \/ Projected(row) = <<U>> \/ Projected(row) = <<A>>
        BY <2>1 DEF Projected, PlainKind
    <3>3. Complete(Derived(q) \o <<>>)
        BY <2>6, ConcatEmptySeq
    <3> HIDE DEF U, A
    <3> QED  BY <3>1, <3>2, <3>3, <2>7
  <2> QED  BY <2>2, <2>3, <2>5, <2>8 DEF Flush
<1> HIDE DEF P
<1>3. t \in P
    BY <1>1, <1>2, SeqInduction
<1> QED  BY <1>3 DEF P

-----------------------------------------------------------------------------
(* The ids in a log *)

\* The ids in two logs, one after the other.
LEMMA IdsConcat ==
    ASSUME NEW s \in Seq(Row), NEW t \in Seq(Row), NEW K
    PROVE  IdsOf(s \o t, K) = IdsOf(s, K) \cup IdsOf(t, K)
<1>1. /\ s \o t \in Seq(Row) /\ Len(s \o t) = Len(s) + Len(t)
      /\ \A i \in 1 .. Len(s) + Len(t) : (s \o t)[i] = IF i <= Len(s) THEN s[i] ELSE t[i - Len(s)]
    BY ConcatProperties
<1>2. /\ Len(s) \in Nat /\ Len(t) \in Nat /\ DOMAIN s = 1 .. Len(s) /\ DOMAIN t = 1 .. Len(t)
      /\ DOMAIN (s \o t) = 1 .. Len(s) + Len(t)
    BY <1>1, LenProperties
<1> DEFINE u == s \o t
<1> HIDE DEF u
<1>3. ASSUME NEW i \in DOMAIN u, u[i].kind \in K PROVE u[i].id \in IdsOf(s, K) \cup IdsOf(t, K)
  <2>1. CASE i <= Len(s)
    <3>1. i \in DOMAIN s /\ u[i] = s[i]
        BY <2>1, <1>1, <1>2 DEF u
    <3> QED  BY <3>1, <1>3 DEF IdsOf
  <2>2. CASE i > Len(s)
    <3>1. i - Len(s) \in DOMAIN t /\ u[i] = t[i - Len(s)]
        BY <2>2, <1>1, <1>2 DEF u
    <3> QED  BY <3>1, <1>3 DEF IdsOf
  <2>3. i <= Len(s) \/ i > Len(s)
      BY <1>2 DEF u
  <2> QED  BY <2>1, <2>2, <2>3
<1>4. ASSUME NEW i \in DOMAIN s, s[i].kind \in K PROVE s[i].id \in IdsOf(u, K)
  <2>1. i \in DOMAIN u /\ u[i] = s[i]
      BY <1>1, <1>2 DEF u
  <2> QED  BY <2>1, <1>4 DEF IdsOf
<1>5. ASSUME NEW i \in DOMAIN t, t[i].kind \in K PROVE t[i].id \in IdsOf(u, K)
  <2>1. Len(s) + i \in DOMAIN u /\ ~(Len(s) + i <= Len(s)) /\ Len(s) + i - Len(s) = i
      BY <1>2 DEF u
  <2>2. u[Len(s) + i] = t[i]
      BY <2>1, <1>1, <1>2 DEF u
  <2> QED  BY <2>1, <2>2, <1>5 DEF IdsOf
<1>6. IdsOf(u, K) = IdsOf(s, K) \cup IdsOf(t, K)
    BY <1>3, <1>4, <1>5 DEF IdsOf
<1> QED  BY <1>6 DEF u

\* The calls and the results of two logs, one after the other.
LEMMA LogIdsConcat ==
    ASSUME NEW s \in Seq(Row), NEW t \in Seq(Row)
    PROVE  /\ CallIds(s \o t) = CallIds(s) \cup CallIds(t)
           /\ ResultIds(s \o t) = ResultIds(s) \cup ResultIds(t)
<1>1. \A K : IdsOf(s \o t, K) = IdsOf(s, K) \cup IdsOf(t, K)
    BY IdsConcat
<1> QED  BY <1>1 DEF CallIds, ResultIds

\* The ids in the rows of ids are those ids.
LEMMA IdsOfRows ==
    ASSUME NEW kind \in Kind, NEW ids \in Seq(Nat), NEW K
    PROVE  /\ IdsOf(RowsOf(kind, ids), K) = IF kind \in K THEN Ran(ids) ELSE {}
           /\ Ids(RowsOf(kind, ids)) = ids
<1>1. /\ Len(ids) \in Nat /\ DOMAIN ids = 1 .. Len(ids) /\ ids \in [1 .. Len(ids) -> Nat]
      /\ DOMAIN RowsOf(kind, ids) = 1 .. Len(ids)
      /\ \A i \in 1 .. Len(ids) : RowsOf(kind, ids)[i].kind = kind /\ RowsOf(kind, ids)[i].id = ids[i]
    BY LenProperties DEF RowsOf
<1> QED  BY <1>1 DEF IdsOf, Ran, Ids

\* Rows that are neither calls nor results have no such ids.
LEMMA IdsOfPlain ==
    ASSUME NEW t \in Seq(PlainRow)
    PROVE  /\ t \in Seq(Row) /\ CallIds(t) = {} /\ ResultIds(t) = {}
           /\ \A S : Kept(t, [kind : {"call"}, id : S]) = <<>>
<1>1. PlainRow \subseteq Row
    BY DEF PlainRow, PlainKind, Row, Kind
<1>2. t \in Seq(Row) /\ DOMAIN t = 1 .. Len(t)
    BY <1>1, SeqMonotonic, LenProperties
<1>3. \A i \in 1 .. Len(t) : t[i].kind \in PlainKind
  <2>1. \A i \in 1 .. Len(t) : t[i] \in PlainRow
      BY ElementOfSeq
  <2> QED  BY <2>1 DEF PlainRow
<1>4. CallIds(t) = {} /\ ResultIds(t) = {}
    BY <1>2, <1>3 DEF CallIds, ResultIds, IdsOf, PlainKind
<1>5. ASSUME NEW S PROVE Kept(t, [kind : {"call"}, id : S]) = <<>>
  <2>1. \A i \in 1 .. Len(t) : t[i] \notin [kind : {"call"}, id : S]
      BY <1>3 DEF PlainKind
  <2> QED  BY <2>1, <1>2, KeptAll
<1> QED  BY <1>2, <1>4, <1>5

\* The calls without a result, as rows.
OpenRows(s) == Kept(s, [kind : {"call"}, id : CallIds(s) \ ResultIds(s)])

\* Rows that are neither calls nor results open and close no call.
LEMMA OpenPlain ==
    ASSUME NEW s \in Seq(Row), NEW t \in Seq(PlainRow)
    PROVE  /\ s \o t \in Seq(Row)
           /\ CallIds(s \o t) = CallIds(s) /\ ResultIds(s \o t) = ResultIds(s)
           /\ OpenRows(s \o t) = OpenRows(s)
<1>1. t \in Seq(Row) /\ CallIds(t) = {} /\ ResultIds(t) = {}
    BY IdsOfPlain
<1>2. CallIds(s \o t) = CallIds(s) /\ ResultIds(s \o t) = ResultIds(s)
  <2>1. /\ CallIds(s \o t) = CallIds(s) \cup CallIds(t)
        /\ ResultIds(s \o t) = ResultIds(s) \cup ResultIds(t)
      BY <1>1, LogIdsConcat
  <2> QED  BY <2>1, <1>1
<1> DEFINE S == [kind : {"call"}, id : CallIds(s) \ ResultIds(s)]
<1>3. Kept(s \o t, S) = Kept(s, S) \o Kept(t, S)
    BY <1>1, KeptConcat
<1>4. Kept(t, S) = <<>>
    BY IdsOfPlain
<1>5. Kept(s, S) \o <<>> = Kept(s, S)
  <2>1. Kept(s, S) \in Seq(Row)
      BY KeptStep
  <2> QED  BY <2>1, ConcatEmptySeq
<1>6. s \o t \in Seq(Row)
    BY <1>1, ConcatProperties
<1> QED  BY <1>2, <1>3, <1>4, <1>5, <1>6 DEF OpenRows

\* The calls of an answer: they are open, and only they.
LEMMA OpenCalls ==
    ASSUME NEW s \in Seq(Row), CallIds(s) = ResultIds(s),
           NEW ids \in Seq(Nat), Ran(ids) \cap CallIds(s) = {}
    PROVE  /\ s \o RowsOf("call", ids) \in Seq(Row)
           /\ CallIds(s \o RowsOf("call", ids)) = CallIds(s) \cup Ran(ids)
           /\ ResultIds(s \o RowsOf("call", ids)) = ResultIds(s)
           /\ OpenRows(s \o RowsOf("call", ids)) = RowsOf("call", ids)
<1> DEFINE t == RowsOf("call", ids)
           S == [kind : {"call"}, id : Ran(ids)]
<1>0. "call" \in Kind
    BY DEF Kind
<1>1. t \in Seq(Row) /\ Len(t) = Len(ids) /\ \A i \in 1 .. Len(ids) : t[i] = [kind |-> "call", id |-> ids[i]]
    BY <1>0, RowsOfType
<1>2. CallIds(t) = Ran(ids) /\ ResultIds(t) = {}
    BY <1>0, IdsOfRows DEF CallIds, ResultIds
<1> HIDE DEF t
<1>3. CallIds(s \o t) = CallIds(s) \cup Ran(ids) /\ ResultIds(s \o t) = ResultIds(s)
  <2>1. /\ CallIds(s \o t) = CallIds(s) \cup CallIds(t)
        /\ ResultIds(s \o t) = ResultIds(s) \cup ResultIds(t)
      BY <1>1, LogIdsConcat
  <2> QED  BY <2>1, <1>2
<1>4. CallIds(s \o t) \ ResultIds(s \o t) = Ran(ids)
    BY <1>3
<1>5. Kept(s \o t, S) = Kept(s, S) \o Kept(t, S)
    BY <1>1, KeptConcat
<1>6. Kept(s, S) = <<>>
  <2>1. ASSUME NEW i \in 1 .. Len(s) PROVE s[i] \notin S
    <3>1. i \in DOMAIN s
        BY LenProperties
    <3>2. s[i].kind = "call" => s[i].id \in CallIds(s)
        BY <3>1 DEF CallIds, IdsOf
    <3> QED  BY <3>2
  <2> HIDE DEF S
  <2> QED  BY <2>1, KeptAll
<1>7. Kept(t, S) = t
  <2>1. ASSUME NEW i \in 1 .. Len(t) PROVE t[i] \in S
    <3>1. ids[i] \in Ran(ids) /\ t[i] = [kind |-> "call", id |-> ids[i]]
        BY <1>1, LenProperties DEF Ran
    <3> QED  BY <3>1
  <2> HIDE DEF S
  <2> QED  BY <2>1, <1>1, KeptAll
<1>8. <<>> \o t = t /\ s \o t \in Seq(Row)
    BY <1>1, ConcatEmptySeq, ConcatProperties
<1>9. OpenRows(s \o t) = t
    BY <1>4, <1>5, <1>6, <1>7, <1>8 DEF OpenRows
<1> QED  BY <1>3, <1>8, <1>9 DEF t

\* Results, or what stands for them: those calls are no longer open.
LEMMA OpenResults ==
    ASSUME NEW s \in Seq(Row), NEW kind \in {"result", "cancelled"}, NEW ids \in Seq(Nat)
    PROVE  /\ s \o RowsOf(kind, ids) \in Seq(Row)
           /\ CallIds(s \o RowsOf(kind, ids)) = CallIds(s)
           /\ ResultIds(s \o RowsOf(kind, ids)) = ResultIds(s) \cup Ran(ids)
           /\ OpenRows(s \o RowsOf(kind, ids)) = Kept(OpenRows(s), [kind : {"call"}, id : Nat \ Ran(ids)])
<1> DEFINE t == RowsOf(kind, ids)
           C == CallIds(s)
           R == ResultIds(s)
           S == [kind : {"call"}, id : C \ R]
           Q == [kind : {"call"}, id : Nat \ Ran(ids)]
           Z == [kind : {"call"}, id : C \ (R \cup Ran(ids))]
<1>0. kind \in Kind /\ kind # "call"
    BY DEF Kind
<1>1. t \in Seq(Row) /\ Len(t) = Len(ids) /\ \A i \in 1 .. Len(ids) : t[i] = [kind |-> kind, id |-> ids[i]]
    BY <1>0, RowsOfType
<1>2. CallIds(t) = {} /\ ResultIds(t) = Ran(ids)
    BY <1>0, IdsOfRows DEF CallIds, ResultIds
<1> HIDE DEF t
<1>3. CallIds(s \o t) = C /\ ResultIds(s \o t) = R \cup Ran(ids)
  <2>1. /\ CallIds(s \o t) = CallIds(s) \cup CallIds(t)
        /\ ResultIds(s \o t) = ResultIds(s) \cup ResultIds(t)
      BY <1>1, LogIdsConcat
  <2> QED  BY <2>1, <1>2
<1>4. C \subseteq Nat
  <2>1. \A i \in DOMAIN s : s[i] \in Row
      BY LenProperties
  <2>2. \A i \in DOMAIN s : s[i].id \in Nat
      BY <2>1 DEF Row
  <2> QED  BY <2>2 DEF CallIds, IdsOf
<1>5. Z = S \cap Q
    BY <1>4
<1>6. Kept(s \o t, Z) = Kept(s, Z) \o Kept(t, Z)
  <2> HIDE DEF Z
  <2> QED  BY <1>1, KeptConcat
<1>7. Kept(t, Z) = <<>>
  <2>1. \A i \in 1 .. Len(t) : t[i] \notin Z
    <3>1. \A i \in 1 .. Len(t) : t[i].kind # "call"
      <4>1. ASSUME NEW i \in 1 .. Len(t) PROVE t[i].kind = kind
        <5>1. t[i] = [kind |-> kind, id |-> ids[i]]
            BY <1>1
        <5> QED  BY <5>1
      <4> QED  BY <4>1, <1>0
    <3> QED  BY <3>1
  <2> HIDE DEF Z
  <2> QED  BY <2>1, <1>1, KeptAll
<1>8. Kept(s, Z) = Kept(Kept(s, S), Q)
  <2> HIDE DEF S, Q, Z
  <2> QED  BY <1>5, KeptTwice
<1>9. Kept(s, Z) \o <<>> = Kept(s, Z) /\ s \o t \in Seq(Row)
  <2>1. Kept(s, Z) \in Seq(Row)
      BY KeptStep
  <2> QED  BY <2>1, <1>1, ConcatEmptySeq, ConcatProperties
<1>10. OpenRows(s \o t) = Kept(OpenRows(s), Q)
    BY <1>3, <1>6, <1>7, <1>8, <1>9 DEF OpenRows
<1> QED  BY <1>3, <1>9, <1>10 DEF t

-----------------------------------------------------------------------------
(* The calls of one answer *)

\* A sequence cut in two or three.
LEMMA Cut ==
    ASSUME NEW s \in Seq(Nat), NEW j \in 1 .. Len(s) + 1, NEW k \in j .. Len(s) + 1
    PROVE  /\ SubSeq(s, j, k - 1) \in Seq(Nat) /\ Len(SubSeq(s, j, k - 1)) = k - j
           /\ \A i \in 1 .. k - j : SubSeq(s, j, k - 1)[i] = s[j + i - 1]
           /\ SubSeq(s, k, Len(s)) \in Seq(Nat) /\ Len(SubSeq(s, k, Len(s))) = Len(s) + 1 - k
           /\ SubSeq(s, j, k - 1) \o SubSeq(s, k, Len(s)) = SubSeq(s, j, Len(s))
           /\ SubSeq(s, 1, j - 1) \o SubSeq(s, j, k - 1) = SubSeq(s, 1, k - 1)
           /\ SubSeq(s, 1, Len(s)) = s
<1>1. Len(s) \in Nat /\ j \in Int /\ k \in Int
    BY LenProperties
<1>2. ASSUME NEW a \in 1 .. Len(s) + 1, NEW b \in a .. Len(s) + 1
      PROVE  /\ SubSeq(s, a, b - 1) \in Seq(Nat) /\ Len(SubSeq(s, a, b - 1)) = b - a
             /\ \A i \in 1 .. b - a : SubSeq(s, a, b - 1)[i] = s[a + i - 1]
  <2>1. a \in 1 .. Len(s) + 1 /\ b - 1 \in a - 1 .. Len(s) /\ (b - 1) - a + 1 = b - a
      BY <1>1
  <2> QED  BY <2>1, SubSeqProperties
<1>3. ASSUME NEW a \in 1 .. Len(s) + 1, NEW b \in a .. Len(s) + 1, NEW c \in b .. Len(s) + 1
      PROVE  SubSeq(s, a, b - 1) \o SubSeq(s, b, c - 1) = SubSeq(s, a, c - 1)
  <2> DEFINE x == SubSeq(s, a, b - 1)
             y == SubSeq(s, b, c - 1)
             z == SubSeq(s, a, c - 1)
  <2>0. a \in Int /\ b \in Int /\ c \in Int /\ b \in 1 .. Len(s) + 1 /\ c \in a .. Len(s) + 1
      BY <1>1
  <2>1. /\ x \in Seq(Nat) /\ Len(x) = b - a /\ \A i \in 1 .. b - a : x[i] = s[a + i - 1]
        /\ y \in Seq(Nat) /\ Len(y) = c - b /\ \A i \in 1 .. c - b : y[i] = s[b + i - 1]
        /\ z \in Seq(Nat) /\ Len(z) = c - a /\ \A i \in 1 .. c - a : z[i] = s[a + i - 1]
      BY <2>0, <1>2
  <2> HIDE DEF x, y, z
  <2>2. /\ x \o y \in Seq(Nat) /\ Len(x \o y) = Len(x) + Len(y)
        /\ \A i \in 1 .. Len(x) + Len(y) : (x \o y)[i] = IF i <= Len(x) THEN x[i] ELSE y[i - Len(x)]
      BY <2>1, ConcatProperties
  <2>3. ASSUME NEW i \in 1 .. c - a PROVE (x \o y)[i] = z[i]
    <3>1. CASE i <= b - a
      <4>1. i \in 1 .. b - a /\ i \in 1 .. Len(x) + Len(y)
          BY <3>1, <2>0, <2>1
      <4> QED  BY <4>1, <3>1, <2>1, <2>2
    <3>2. CASE ~(i <= b - a)
      <4>0. i \in Int /\ i <= c - a /\ i >= 1 /\ b - a \in Int /\ i > b - a
          BY <3>2, <2>0
      <4>1. i - (b - a) \in 1 .. c - b /\ i \in 1 .. Len(x) + Len(y)
            /\ b + (i - (b - a)) - 1 = a + i - 1
        <5>1. i - (b - a) \in 1 .. c - b
            BY <4>0, <2>0
        <5>2. b + (i - (b - a)) - 1 = a + i - 1
            BY <4>0, <2>0
        <5>3. Len(x) + Len(y) = c - a
            BY <2>0, <2>1
        <5> QED  BY <5>1, <5>2, <5>3
      <4>2. (x \o y)[i] = y[i - (b - a)]
          BY <4>1, <3>2, <2>1, <2>2
      <4>3. y[i - (b - a)] = s[b + (i - (b - a)) - 1]
          BY <4>1, <2>1
      <4> QED  BY <4>1, <4>2, <4>3, <2>1
    <3> QED  BY <3>1, <3>2
  <2>4. Len(x \o y) = Len(z) /\ Len(z) = c - a
      BY <2>0, <2>1, <2>2
  <2>5. x \o y = z
      BY <2>1, <2>2, <2>3, <2>4, SeqEqual
  <2> QED  BY <2>5 DEF x, y, z
<1>4. 1 \in 1 .. Len(s) + 1 /\ j \in 1 .. Len(s) + 1 /\ k \in 1 .. Len(s) + 1
      /\ Len(s) + 1 \in k .. Len(s) + 1 /\ (Len(s) + 1) - 1 = Len(s)
      /\ Len(s) + 1 \in 1 .. Len(s) + 1
    BY <1>1
<1>5. /\ SubSeq(s, j, k - 1) \in Seq(Nat) /\ Len(SubSeq(s, j, k - 1)) = k - j
      /\ \A i \in 1 .. k - j : SubSeq(s, j, k - 1)[i] = s[j + i - 1]
    BY <1>2
<1>6. SubSeq(s, k, Len(s)) \in Seq(Nat) /\ Len(SubSeq(s, k, Len(s))) = Len(s) + 1 - k
    BY <1>2, <1>4
<1>7. SubSeq(s, j, k - 1) \o SubSeq(s, k, Len(s)) = SubSeq(s, j, Len(s))
    BY <1>3, <1>4
<1>8. SubSeq(s, 1, j - 1) \o SubSeq(s, j, k - 1) = SubSeq(s, 1, k - 1)
    BY <1>3, <1>4
<1>9. SubSeq(s, 1, Len(s)) = s
  <2>1. SubSeq(s, 1, Len(s)) \in Seq(Nat) /\ Len(SubSeq(s, 1, Len(s))) = Len(s)
        /\ \A i \in 1 .. Len(s) : SubSeq(s, 1, Len(s))[i] = s[1 + i - 1]
    <3>1. (Len(s) + 1) - 1 = Len(s) /\ Len(s) + 1 \in 1 .. Len(s) + 1
        BY <1>1
    <3> QED  BY <3>1, <1>2, <1>4
  <2>2. \A i \in 1 .. Len(s) : SubSeq(s, 1, Len(s))[i] = s[i]
      BY <2>1, <1>1
  <2> QED  BY <2>1, <2>2, SeqEqual
<1> QED  BY <1>5, <1>6, <1>7, <1>8, <1>9

\* Kept on the rows of calls is Kept on their ids.
LEMMA KeptRows ==
    ASSUME NEW ids \in Seq(Nat), NEW S
    PROVE  Kept(RowsOf("call", ids), [kind : {"call"}, id : S]) = RowsOf("call", Kept(ids, S))
<1> DEFINE C == [kind : {"call"}, id : S]
           P == {r \in Seq(Nat) : Kept(RowsOf("call", r), C) = RowsOf("call", Kept(r, S))}
<1>0. "call" \in Kind
    BY DEF Kind
<1>1. <<>> \in P
  <2>1. RowsOf("call", <<>>) = <<>> /\ <<>> \in Seq(Row) /\ <<>> \in Seq(Nat)
      BY EmptySeq DEF RowsOf
  <2>2. Kept(<<>>, S) = <<>> /\ Kept(<<>>, C) = <<>>
    <3> HIDE DEF C
    <3> QED  BY <2>1, KeptStep
  <2> QED  BY <2>1, <2>2
<1>2. ASSUME NEW r \in Seq(Nat), NEW x \in Nat, r \in P PROVE Append(r, x) \in P
  <2> DEFINE row == [kind |-> "call", id |-> x]
  <2>1. row \in Row /\ (row \in C <=> x \in S)
      BY <1>0 DEF Row
  <2>2. /\ RowsOf("call", r) \in Seq(Row)
        /\ RowsOf("call", Append(r, x)) = Append(RowsOf("call", r), row)
      BY <1>0, RowsOfType
  <2>3. Kept(r, S) \in Seq(Nat)
        /\ Kept(Append(r, x), S) = IF x \in S THEN Append(Kept(r, S), x) ELSE Kept(r, S)
      BY KeptStep
  <2>4. RowsOf("call", Append(Kept(r, S), x)) = Append(RowsOf("call", Kept(r, S)), row)
    <3>1. \A q \in Seq(Nat) : RowsOf("call", Append(q, x)) = Append(RowsOf("call", q), row)
        BY <1>0, RowsOfType
    <3> QED  BY <3>1, <2>3
  <2> HIDE DEF row
  <2>5. Kept(Append(RowsOf("call", r), row), C)
            = IF row \in C THEN Append(Kept(RowsOf("call", r), C), row) ELSE Kept(RowsOf("call", r), C)
    <3> HIDE DEF C
    <3> QED  BY <2>1, <2>2, KeptStep
  <2>6. Append(r, x) \in Seq(Nat)
      BY AppendProperties
  <2>7. Kept(RowsOf("call", Append(r, x)), C) = RowsOf("call", Kept(Append(r, x), S))
    <3> HIDE DEF C
    <3>1. Kept(RowsOf("call", r), C) = RowsOf("call", Kept(r, S))
        BY <1>2 DEF C
    <3> QED  BY <3>1, <2>1, <2>2, <2>3, <2>4, <2>5
  <2> QED  BY <2>6, <2>7
<1> HIDE DEF P
<1>3. ids \in P
    BY <1>1, <1>2, SeqInduction
<1> QED  BY <1>3 DEF P

\* The ids of the calls of one answer, n ids after those before.
Numbered(ids, n) == \A i \in 1 .. Len(ids) : ids[i] = n + i

\* S holds the ids of the calls from j to before k, and none of those from k on.
Splits(S, n, ids, j, k) ==
    /\ \A v \in n + j .. n + k - 1 : v \in S
    /\ \A v \in n + k .. n + Len(ids) : v \notin S

\* The calls from k on are what is left when those before it have results.
LEMMA KeptRun ==
    ASSUME NEW n \in Nat, NEW ids \in Seq(Nat), Numbered(ids, n),
           NEW j \in 1 .. Len(ids) + 1, NEW k \in j .. Len(ids) + 1, NEW S, Splits(S, n, ids, j, k)
    PROVE  Kept(SubSeq(ids, j, Len(ids)), Nat \ S) = SubSeq(ids, k, Len(ids))
<1> DEFINE x == SubSeq(ids, j, k - 1)
           y == SubSeq(ids, k, Len(ids))
           Q == Nat \ S
<1>0. Len(ids) \in Nat /\ j \in Int /\ k \in Int
    BY LenProperties
<1>1. /\ x \in Seq(Nat) /\ Len(x) = k - j
      /\ \A i \in 1 .. k - j : x[i] = ids[j + i - 1]
      /\ y \in Seq(Nat) /\ Len(y) = Len(ids) + 1 - k
      /\ x \o y = SubSeq(ids, j, Len(ids))
  <2>1. /\ SubSeq(ids, j, k - 1) \in Seq(Nat) /\ Len(SubSeq(ids, j, k - 1)) = k - j
        /\ \A i \in 1 .. k - j : SubSeq(ids, j, k - 1)[i] = ids[j + i - 1]
      BY Cut
  <2>2. SubSeq(ids, k, Len(ids)) \in Seq(Nat)
      BY Cut
  <2>3. Len(SubSeq(ids, k, Len(ids))) = Len(ids) + 1 - k
      BY Cut
  <2>4. SubSeq(ids, j, k - 1) \o SubSeq(ids, k, Len(ids)) = SubSeq(ids, j, Len(ids))
      BY Cut
  <2> QED  BY <2>1, <2>2, <2>3, <2>4
<1>2. \A i \in 1 .. Len(ids) + 1 - k : y[i] = ids[k + i - 1]
  <2>1. k \in 1 .. Len(ids) + 1 /\ Len(ids) + 1 \in k .. Len(ids) + 1 /\ (Len(ids) + 1) - 1 = Len(ids)
      BY <1>0
  <2>2. \A i \in 1 .. (Len(ids) + 1) - k : SubSeq(ids, k, (Len(ids) + 1) - 1)[i] = ids[k + i - 1]
      BY <2>1, Cut
  <2> QED  BY <2>1, <2>2
<1> HIDE DEF x, y
<1> USE DEF Numbered, Splits
<1>3. ASSUME NEW i \in 1 .. Len(x) PROVE x[i] \notin Q
  <2>1. j + i - 1 \in 1 .. Len(ids) /\ n + (j + i - 1) \in n + j .. n + k - 1
      BY <1>0, <1>1
  <2>2. x[i] = n + (j + i - 1)
      BY <2>1, <1>1
  <2> QED  BY <2>1, <2>2
<1>4. ASSUME NEW i \in 1 .. Len(y) PROVE y[i] \in Q
  <2>1. k + i - 1 \in 1 .. Len(ids) /\ n + (k + i - 1) \in n + k .. n + Len(ids)
      BY <1>0, <1>1
  <2>2. y[i] = n + (k + i - 1)
      BY <2>1, <1>1, <1>2
  <2>3. n + (k + i - 1) \in Nat
      BY <2>1
  <2> QED  BY <2>1, <2>2, <2>3
<1> HIDE DEF Q
<1>5. Kept(x, Q) = <<>> /\ Kept(y, Q) = y
    BY <1>1, <1>3, <1>4, KeptAll
<1>6. Kept(x \o y, Q) = Kept(x, Q) \o Kept(y, Q) /\ <<>> \o y = y
  <2>1. \A p \in Seq(Nat), q \in Seq(Nat) : Kept(p \o q, Q) = Kept(p, Q) \o Kept(q, Q)
      BY KeptConcat
  <2>2. Kept(x \o y, Q) = Kept(x, Q) \o Kept(y, Q)
    <3>1. x \in Seq(Nat) /\ y \in Seq(Nat)
        BY <1>1
    <3> QED  BY <3>1, <2>1
  <2>3. <<>> \o y = y
      BY <1>1, ConcatEmptySeq
  <2> QED  BY <2>2, <2>3
<1> QED  BY <1>1, <1>5, <1>6 DEF Q, y

\* The elements of two sequences, one after the other.
LEMMA RanConcat ==
    ASSUME NEW a \in Seq(Nat), NEW b \in Seq(Nat)
    PROVE  Ran(a \o b) = Ran(a) \cup Ran(b)
<1> DEFINE u == a \o b
<1>1. /\ Len(u) = Len(a) + Len(b) /\ DOMAIN u = 1 .. Len(u)
      /\ \A i \in 1 .. Len(a) + Len(b) : u[i] = IF i <= Len(a) THEN a[i] ELSE b[i - Len(a)]
      /\ Len(a) \in Nat /\ DOMAIN a = 1 .. Len(a) /\ Len(b) \in Nat /\ DOMAIN b = 1 .. Len(b)
    BY ConcatProperties, LenProperties
<1> HIDE DEF u
<1>2. ASSUME NEW i \in DOMAIN u PROVE u[i] \in Ran(a) \cup Ran(b)
  <2>1. CASE i <= Len(a)
      BY <2>1, <1>1 DEF Ran
  <2>2. CASE ~(i <= Len(a))
    <3>1. i - Len(a) \in DOMAIN b /\ u[i] = b[i - Len(a)]
        BY <2>2, <1>1
    <3> QED  BY <3>1 DEF Ran
  <2> QED  BY <2>1, <2>2
<1>3. ASSUME NEW i \in DOMAIN a PROVE a[i] \in Ran(u)
  <2>1. i \in DOMAIN u /\ u[i] = a[i]
      BY <1>1
  <2> QED  BY <2>1 DEF Ran
<1>4. ASSUME NEW i \in DOMAIN b PROVE b[i] \in Ran(u)
  <2>1. Len(a) + i \in DOMAIN u /\ ~(Len(a) + i <= Len(a)) /\ Len(a) + i - Len(a) = i
      BY <1>1
  <2>2. u[Len(a) + i] = b[i]
      BY <2>1, <1>1
  <2> QED  BY <2>1, <2>2 DEF Ran
<1>5. Ran(u) = Ran(a) \cup Ran(b)
    BY <1>2, <1>3, <1>4 DEF Ran
<1> QED  BY <1>5 DEF u

\* What results do to a log: ids are answered, in that order.
LEMMA AnswersAdd ==
    ASSUME NEW s \in Seq(Row), NEW a \in Seq(Nat), NEW b \in Seq(Nat), a \o b # <<>>
    PROVE  LET t == s \o RowsOf("result", a) \o RowsOf("cancelled", b)
           IN  /\ CallIds(t) = CallIds(s) /\ ResultIds(t) = ResultIds(s) \cup Ran(a \o b)
               /\ OpenRows(t) = Kept(OpenRows(s), [kind : {"call"}, id : Nat \ Ran(a \o b)])
               /\ Derived(t) = Derived(s) \o Tools(a \o b)
               /\ Reading(t).pending = <<>>
<1> DEFINE r == s \o RowsOf("result", a)
           t == r \o RowsOf("cancelled", b)
           A == [kind : {"call"}, id : Nat \ Ran(a)]
           B == [kind : {"call"}, id : Nat \ Ran(b)]
           AB == [kind : {"call"}, id : Nat \ Ran(a \o b)]
<1>1. Ran(a \o b) = Ran(a) \cup Ran(b)
    BY RanConcat
<1>2. /\ r \in Seq(Row) /\ CallIds(r) = CallIds(s) /\ ResultIds(r) = ResultIds(s) \cup Ran(a)
      /\ OpenRows(r) = Kept(OpenRows(s), A)
      /\ Derived(r) = Derived(s) \o Tools(a)
      /\ a # <<>> => Reading(r).pending = <<>>
    BY OpenResults, DerivedResults
<1> HIDE DEF r
<1>3. /\ t \in Seq(Row) /\ CallIds(t) = CallIds(r) /\ ResultIds(t) = ResultIds(r) \cup Ran(b)
      /\ OpenRows(t) = Kept(OpenRows(r), B)
      /\ Derived(t) = Derived(r) \o Tools(b)
      /\ b # <<>> => Reading(t).pending = <<>>
    BY <1>2, OpenResults, DerivedResults
<1>4. Kept(Kept(OpenRows(s), A), B) = Kept(OpenRows(s), A \cap B)
  <2>1. OpenRows(s) \in Seq(Row)
      BY KeptStep DEF OpenRows
  <2> HIDE DEF A, B
  <2> QED  BY <2>1, KeptTwice
<1>5. A \cap B = AB
    BY <1>1
<1>6. (Derived(s) \o Tools(a)) \o Tools(b) = Derived(s) \o Tools(a \o b)
  <2>1. Derived(s) \in Seq(Msg) /\ Tools(a) \in Seq(Msg) /\ Tools(b) \in Seq(Msg)
        /\ Tools(a \o b) = Tools(a) \o Tools(b)
      BY DerivedType, ToolsType, ToolsConcat
  <2> QED  BY <2>1, ConcatAssociative
<1>7. Reading(t).pending = <<>>
  <2>1. CASE b # <<>>
      BY <2>1, <1>3
  <2>2. CASE b = <<>>
    <3>1. a # <<>>
        BY <2>2, ConcatEmptySeq
    <3>2. t = r
      <4>1. RowsOf("cancelled", <<>>) = <<>>
          BY EmptySeq DEF RowsOf
      <4> QED  BY <4>1, <2>2, <1>2, ConcatEmptySeq
    <3> QED  BY <3>1, <3>2, <1>2
  <2> QED  BY <2>1, <2>2
<1>8. CallIds(t) = CallIds(s) /\ ResultIds(t) = ResultIds(s) \cup Ran(a \o b)
    BY <1>1, <1>2, <1>3
<1>9. OpenRows(t) = Kept(OpenRows(s), AB)
    BY <1>2, <1>3, <1>4, <1>5
<1>10. Derived(t) = Derived(s) \o Tools(a \o b)
    BY <1>2, <1>3, <1>6
<1> QED  BY <1>7, <1>8, <1>9, <1>10 DEF r

\* A log whose n calls all have their results.
Settled(s, n) ==
    Flush(s) /\ CallIds(s) = 1 .. n /\ ResultIds(s) = 1 .. n /\ OpenRows(s) = <<>>

\* A log that ends in the calls ids, and in results for those before the kth.
Batching(s, n, ids, k) ==
    /\ CallIds(s) = 1 .. n + Len(ids) /\ ResultIds(s) = 1 .. n + k - 1
    /\ OpenRows(s) = RowsOf("call", SubSeq(ids, k, Len(ids)))
    /\ k > 1 => Reading(s).pending = <<>>
    /\ \E m \in Seq(Msg) :
           Complete(m) /\ Derived(s) = m \o Flushed(ids) \o Tools(SubSeq(ids, 1, k - 1))

\* Rows that are neither calls nor results keep a log settled.
LEMMA SettledPlain ==
    ASSUME NEW s \in Seq(Row), NEW n \in Nat, Settled(s, n), NEW t \in Seq(PlainRow)
    PROVE  Settled(s \o t, n)
BY PlainRows, OpenPlain DEF Settled

\* flushToolCalls adds messages.
LEMMA FlushedType ==
    ASSUME NEW ids \in Seq(Nat)
    PROVE  Flushed(ids) \in Seq(Msg)
<1>1. Message("assistant", ids, 0) \in Msg
    BY DEF Message, Msg
<1>2. <<Message("assistant", ids, 0)>> \in Seq(Msg) /\ <<>> \in Seq(Msg)
    BY <1>1, EmptySeq
<1> QED  BY <1>2 DEF Flushed

\* Tool messages added in two goes.
LEMMA ToolsAfter ==
    ASSUME NEW p \in Seq(Msg), NEW w \in Seq(Nat), NEW x \in Seq(Nat)
    PROVE  (p \o Tools(w)) \o Tools(x) = p \o Tools(w \o x)
<1>1. Tools(w) \in Seq(Msg) /\ Tools(x) \in Seq(Msg) /\ Tools(w \o x) = Tools(w) \o Tools(x)
    BY ToolsType, ToolsConcat
<1> QED  BY <1>1, ConcatAssociative

\* The ids of consecutive calls are consecutive.
LEMMA RanRun ==
    ASSUME NEW n \in Nat, NEW ids \in Seq(Nat), Numbered(ids, n),
           NEW j \in 1 .. Len(ids) + 1, NEW k \in j .. Len(ids) + 1
    PROVE  Ran(SubSeq(ids, j, k - 1)) = n + j .. n + k - 1
<1> DEFINE x == SubSeq(ids, j, k - 1)
<1>0. Len(ids) \in Nat /\ j \in Int /\ k \in Int /\ 1 <= j /\ j <= k /\ k <= Len(ids) + 1
    BY LenProperties
<1>1. x \in Seq(Nat) /\ Len(x) = k - j /\ \A i \in 1 .. k - j : x[i] = ids[j + i - 1]
    BY Cut
<1>2. DOMAIN x = 1 .. k - j
    BY <1>1, LenProperties
<1> HIDE DEF x
<1>3. ASSUME NEW i \in 1 .. k - j PROVE x[i] = n + j + i - 1
  <2>1. j + i - 1 \in 1 .. Len(ids) /\ n + (j + i - 1) = n + j + i - 1
      BY <1>0
  <2>2. x[i] = ids[j + i - 1] /\ ids[j + i - 1] = n + (j + i - 1)
      BY <2>1, <1>1 DEF Numbered
  <2> QED  BY <2>1, <2>2
<1>4. ASSUME NEW v \in n + j .. n + k - 1 PROVE v \in Ran(x)
  <2>1. v - n - j + 1 \in 1 .. k - j /\ n + j + (v - n - j + 1) - 1 = v
      BY <1>0
  <2>2. x[v - n - j + 1] = v
      BY <2>1, <1>3
  <2> QED  BY <2>1, <2>2, <1>2 DEF Ran
<1>5. ASSUME NEW i \in 1 .. k - j PROVE x[i] \in n + j .. n + k - 1
  <2>1. n + j + i - 1 \in n + j .. n + k - 1
      BY <1>0
  <2> QED  BY <2>1, <1>3
<1>6. Ran(x) = n + j .. n + k - 1
    BY <1>2, <1>4, <1>5 DEF Ran
<1> QED  BY <1>6 DEF x

\* The calls of an answer after a settled log.
LEMMA BatchingStarts ==
    ASSUME NEW s \in Seq(Row), NEW n \in Nat, Settled(s, n),
           NEW ids \in Seq(Nat), Numbered(ids, n)
    PROVE  Batching(s \o RowsOf("call", ids), n, ids, 1)
<1> DEFINE t == s \o RowsOf("call", ids)
<1>0. Len(ids) \in Nat
    BY LenProperties
<1>1. SubSeq(ids, 1, Len(ids)) = ids /\ SubSeq(ids, 1, 1 - 1) = <<>>
    BY <1>0, SubSeqFull, SubSeqEmpty
<1>2. Ran(ids) = n + 1 .. n + Len(ids)
  <2>1. 1 \in 1 .. Len(ids) + 1 /\ Len(ids) + 1 \in 1 .. Len(ids) + 1
        /\ (Len(ids) + 1) - 1 = Len(ids) /\ n + (Len(ids) + 1) - 1 = n + Len(ids)
      BY <1>0
  <2>2. Ran(SubSeq(ids, 1, (Len(ids) + 1) - 1)) = n + 1 .. n + (Len(ids) + 1) - 1
      BY <2>1, RanRun
  <2> QED  BY <2>1, <2>2, <1>1
<1>3. Ran(ids) \cap CallIds(s) = {} /\ CallIds(s) = ResultIds(s)
    BY <1>0, <1>2 DEF Settled
<1>4. CallIds(t) = CallIds(s) \cup Ran(ids) /\ ResultIds(t) = ResultIds(s)
      /\ OpenRows(t) = RowsOf("call", ids)
    BY <1>3, OpenCalls
<1>5. CallIds(t) = 1 .. n + Len(ids) /\ ResultIds(t) = 1 .. n + 1 - 1
  <2>1. CallIds(t) = (1 .. n) \cup (n + 1 .. n + Len(ids)) /\ ResultIds(t) = 1 .. n
      BY <1>2, <1>4 DEF Settled
  <2>2. (1 .. n) \cup (n + 1 .. n + Len(ids)) = 1 .. n + Len(ids) /\ n + 1 - 1 = n
      BY <1>0
  <2> QED  BY <2>1, <2>2
<1>6. OpenRows(t) = RowsOf("call", SubSeq(ids, 1, Len(ids)))
    BY <1>1, <1>4
<1>7. \E m \in Seq(Msg) : Complete(m) /\ Derived(t) = m \o Flushed(ids) \o Tools(SubSeq(ids, 1, 1 - 1))
  <2>1. Derived(s) \in Seq(Msg) /\ Complete(Derived(s)) /\ Derived(t) = Derived(s) \o Flushed(ids)
      BY DerivedType, DerivedCalls DEF Settled, Flush
  <2>2. Derived(t) \in Seq(Msg)
    <3>1. "call" \in Kind
        BY DEF Kind
    <3>2. t \in Seq(Row)
        BY <3>1, RowsOfType, ConcatProperties
    <3> QED  BY <3>2, DerivedType
  <2>3. Tools(SubSeq(ids, 1, 1 - 1)) = <<>>
      BY <1>1 DEF Tools
  <2>4. Derived(t) = Derived(s) \o Flushed(ids) \o <<>>
      BY <2>1, <2>2, ConcatEmptySeq
  <2> QED  BY <2>1, <2>3, <2>4
<1> QED  BY <1>5, <1>6, <1>7 DEF Batching

\* Results for the calls from k to before j, in their order.
LEMMA BatchingAdds ==
    ASSUME NEW s \in Seq(Row), NEW n \in Nat, NEW ids \in Seq(Nat), Numbered(ids, n),
           NEW k \in 1 .. Len(ids), Batching(s, n, ids, k), NEW j \in k + 1 .. Len(ids) + 1,
           NEW a \in Seq(Nat), NEW b \in Seq(Nat), a \o b = SubSeq(ids, k, j - 1)
    PROVE  Batching(s \o RowsOf("result", a) \o RowsOf("cancelled", b), n, ids, j)
<1> DEFINE t == s \o RowsOf("result", a) \o RowsOf("cancelled", b)
           L == Len(ids)
           x == SubSeq(ids, k, j - 1)
           S == n + k .. n + j - 1
<1>0. L \in Nat /\ k \in Int /\ j \in Int /\ 1 <= k /\ k < j /\ j <= L + 1
    BY LenProperties
<1>1. k \in 1 .. L + 1 /\ j \in k .. L + 1
    BY <1>0
<1>2. x \in Seq(Nat) /\ Len(x) = j - k /\ Ran(x) = S
  <2>1. x \in Seq(Nat)
      BY <1>1, Cut
  <2>2. Len(x) = j - k
      BY <1>1, Cut
  <2>3. Ran(x) = S
      BY <1>1, RanRun
  <2> QED  BY <2>1, <2>2, <2>3
<1>3. x # <<>>
  <2>1. Len(<<>>) = 0
      BY EmptySeq
  <2> HIDE DEF x
  <2> QED  BY <2>1, <1>0, <1>2
<1>4. /\ CallIds(t) = CallIds(s) /\ ResultIds(t) = ResultIds(s) \cup Ran(x)
      /\ OpenRows(t) = Kept(OpenRows(s), [kind : {"call"}, id : Nat \ Ran(x)])
      /\ Derived(t) = Derived(s) \o Tools(x)
      /\ Reading(t).pending = <<>>
  <2>1. a \o b # <<>> /\ a \o b = x
      BY <1>3
  <2>2. /\ CallIds(t) = CallIds(s) /\ ResultIds(t) = ResultIds(s) \cup Ran(a \o b)
        /\ OpenRows(t) = Kept(OpenRows(s), [kind : {"call"}, id : Nat \ Ran(a \o b)])
        /\ Derived(t) = Derived(s) \o Tools(a \o b)
        /\ Reading(t).pending = <<>>
      BY <2>1, AnswersAdd
  <2> HIDE DEF x, t
  <2> QED  BY <2>1, <2>2
<1>5. CallIds(t) = 1 .. n + L /\ ResultIds(t) = 1 .. n + j - 1
  <2>1. CallIds(t) = 1 .. n + L
      BY <1>4 DEF Batching
  <2>2. ResultIds(t) = (1 .. n + k - 1) \cup (n + k .. n + j - 1)
      BY <1>2, <1>4 DEF Batching
  <2>3. (1 .. n + k - 1) \cup (n + k .. n + j - 1) = 1 .. n + j - 1
      BY <1>0
  <2> QED  BY <2>1, <2>2, <2>3
<1>6. OpenRows(t) = RowsOf("call", SubSeq(ids, j, L))
  <2>1. OpenRows(s) = RowsOf("call", SubSeq(ids, k, L)) /\ SubSeq(ids, k, L) \in Seq(Nat)
    <3>1. SubSeq(ids, k, Len(ids)) \in Seq(Nat)
      <4>1. k \in k .. L + 1
          BY <1>0
      <4> QED  BY <4>1, <1>1, Cut
    <3>2. OpenRows(s) = RowsOf("call", SubSeq(ids, k, Len(ids)))
        BY DEF Batching
    <3> QED  BY <3>1, <3>2
  <2>2. Kept(RowsOf("call", SubSeq(ids, k, L)), [kind : {"call"}, id : Nat \ S])
            = RowsOf("call", Kept(SubSeq(ids, k, L), Nat \ S))
      BY <2>1, KeptRows
  <2>3. (\A v \in n + k .. n + j - 1 : v \in S) /\ \A v \in n + j .. n + L : v \notin S
      BY <1>0
  <2>4. Kept(SubSeq(ids, k, L), Nat \ S) = SubSeq(ids, j, L)
    <3>1. Splits(S, n, ids, k, j)
        BY <2>3 DEF Splits
    <3> HIDE DEF S
    <3>2. Kept(SubSeq(ids, k, Len(ids)), Nat \ S) = SubSeq(ids, j, Len(ids))
        BY <3>1, <1>1, KeptRun
    <3> QED  BY <3>2
  <2> QED  BY <2>1, <2>2, <2>4, <1>2, <1>4
<1>7. \E m \in Seq(Msg) : Complete(m) /\ Derived(t) = m \o Flushed(ids) \o Tools(SubSeq(ids, 1, j - 1))
  <2>1. PICK m \in Seq(Msg) :
            Complete(m) /\ Derived(s) = m \o Flushed(ids) \o Tools(SubSeq(ids, 1, k - 1))
      BY DEF Batching
  <2>2. /\ SubSeq(ids, 1, k - 1) \in Seq(Nat)
        /\ SubSeq(ids, 1, k - 1) \o x = SubSeq(ids, 1, j - 1)
    <3>1. 1 \in 1 .. L + 1 /\ k \in 1 .. L + 1 /\ j \in k .. L + 1
        BY <1>0
    <3>2. SubSeq(ids, 1, k - 1) \in Seq(Nat)
        BY <3>1, Cut
    <3>3. SubSeq(ids, 1, k - 1) \o x = SubSeq(ids, 1, j - 1)
        BY <3>1, Cut
    <3> QED  BY <3>2, <3>3
  <2>3. Flushed(ids) \in Seq(Msg)
      BY FlushedType
  <2> DEFINE w == SubSeq(ids, 1, k - 1)
  <2>4. w \in Seq(Nat) /\ Tools(w) \in Seq(Msg) /\ Tools(x) \in Seq(Msg)
        /\ Tools(w \o x) = Tools(w) \o Tools(x)
    <3> HIDE DEF x, w
    <3>1. w \in Seq(Nat)
        BY <2>2 DEF w
    <3> QED  BY <3>1, <1>2, ToolsType, ToolsConcat
  <2> HIDE DEF w, x
  <2>5. (m \o Flushed(ids) \o Tools(w)) \o Tools(x) = m \o Flushed(ids) \o Tools(w \o x)
    <3>1. m \o Flushed(ids) \in Seq(Msg)
        BY <2>3, ConcatProperties
    <3> QED  BY <3>1, <2>4, <1>2, ToolsAfter
  <2>6. Derived(t) = m \o Flushed(ids) \o Tools(SubSeq(ids, 1, j - 1))
      BY <2>1, <2>2, <2>4, <2>5, <1>4 DEF w
  <2> QED  BY <2>1, <2>6
<1> QED  BY <1>4, <1>5, <1>6, <1>7 DEF Batching

\* When the last call has its result the log is settled.
LEMMA BatchingEnds ==
    ASSUME NEW s \in Seq(Row), NEW n \in Nat, NEW ids \in Seq(Nat), ids # <<>>,
           Batching(s, n, ids, Len(ids) + 1)
    PROVE  Settled(s, n + Len(ids))
<1>0. Len(ids) \in Nat \ {0}
    BY EmptySeq
<1>1. (Len(ids) + 1) - 1 = Len(ids) /\ n + (Len(ids) + 1) - 1 = n + Len(ids) /\ Len(ids) + 1 > 1
    BY <1>0
<1>2. CallIds(s) = 1 .. n + Len(ids) /\ ResultIds(s) = 1 .. n + Len(ids) /\ Reading(s).pending = <<>>
    BY <1>1 DEF Batching
<1>3. OpenRows(s) = <<>>
  <2>1. SubSeq(ids, Len(ids) + 1, Len(ids)) = <<>>
      BY <1>0, SubSeqEmpty
  <2> QED  BY <2>1 DEF Batching, RowsOf
<1>4. Complete(Derived(s))
  <2>1. PICK m \in Seq(Msg) :
            Complete(m) /\ Derived(s) = m \o Flushed(ids) \o Tools(SubSeq(ids, 1, (Len(ids) + 1) - 1))
      BY DEF Batching
  <2>2. Derived(s) = m \o Flushed(ids) \o Tools(ids)
      BY <2>1, <1>1, SubSeqFull
  <2> QED  BY <2>1, <2>2, CompleteBlock
<1> QED  BY <1>2, <1>3, <1>4 DEF Settled, Flush

-----------------------------------------------------------------------------
(* Types *)

\* Where the batches of an answer are worked on.
InTools == {"tools", "retain"}

\* The types, in parts that the prover can take one at a time.
DataType == calls \in Seq(Nat) /\ at \in Nat \ {0} /\ running \subseteq Nat
ControlType ==
    /\ pc \in Awaiting \cup {"idle", "top", "judge"}
    /\ outcome \in Outcome \cup {"none"} /\ verdict \in Verdict
SignalType == aborted \in BOOLEAN /\ stream \in [held : BOOLEAN, done : BOOLEAN]
CounterType ==
    /\ lane \in Nat /\ steps \in Int /\ extensions \in Nat /\ retries \in Nat
    /\ turns \in Nat /\ attempts \in Nat /\ discarded \in Nat /\ steers \in Nat /\ crashes \in Nat
TypeInv == log \in Seq(Row) /\ DataType /\ ControlType /\ SignalType /\ CounterType

\* A single row.
LEMMA OnlyIs ==
    ASSUME NEW kind \in PlainKind
    PROVE  Only(kind) \in Seq(PlainRow) /\ Len(Only(kind)) = 1 /\ Only(kind)[1].kind = kind
<1>1. [kind |-> kind, id |-> 0] \in PlainRow /\ [kind |-> kind, id |-> 0].kind = kind
    BY DEF PlainRow
<1> QED  BY <1>1, Singleton DEF Only

\* Adding rows that are neither calls nor results, once or twice.
LEMMA PlainConcat ==
    ASSUME NEW s \in Seq(Row), NEW t \in Seq(PlainRow), NEW u \in Seq(PlainRow)
    PROVE  /\ t \in Seq(Row) /\ s \o t \in Seq(Row) /\ t \o u \in Seq(PlainRow)
           /\ (s \o t) \o u = s \o (t \o u)
           /\ s \o <<>> = s /\ <<>> \in Seq(PlainRow)
<1>1. t \in Seq(Row) /\ u \in Seq(Row)
    BY IdsOfPlain
<1>2. t \o u \in Seq(PlainRow) /\ s \o t \in Seq(Row)
    BY <1>1, ConcatProperties
<1>3. (s \o t) \o u = s \o (t \o u)
    BY <1>1, ConcatAssociative
<1> QED  BY <1>1, <1>2, <1>3, ConcatEmptySeq, EmptySeq

\* The reasoning held back and the injected messages are neither calls nor
\* results; a step injects the whole lane.
LEMMA BurstIs ==
    ASSUME TypeInv
    PROVE  Burst \in Seq(PlainRow) /\ Injected \in Seq(PlainRow) /\ Len(Injected) = lane
<1>1. "thinking" \in PlainKind /\ "steer" \in PlainKind
    BY DEF PlainKind
<1>2. Burst \in Seq(PlainRow)
    BY <1>1, OnlyIs, EmptySeq DEF Burst
<1>3. [kind |-> "steer", id |-> 0] \in PlainRow /\ lane \in Nat
    BY <1>1 DEF PlainRow, TypeInv, CounterType
<1>4. Injected \in Seq(PlainRow) /\ Len(Injected) = lane
    BY <1>3 DEF Injected
<1> QED  BY <1>2, <1>4

\* A log has finitely many calls, so that the next id is a number.
LEMMA CallIdsFinite ==
    ASSUME NEW s \in Seq(Row)
    PROVE  Cardinality(CallIds(s)) \in Nat
<1> DEFINE D == {k \in DOMAIN s : s[k].kind \in {"call"}}
           f == [k \in D |-> s[k].id]
<1>0. Len(s) \in Nat /\ DOMAIN s = 1 .. Len(s)
    BY LenProperties
<1>1. IsFiniteSet(1 .. Len(s)) /\ D \subseteq 1 .. Len(s)
  <2>1. IsFiniteSet(1 .. Len(s))
    <3>1. 1 \in Int /\ Len(s) \in Int
        BY <1>0
    <3> QED  BY <3>1, FS_Interval
  <2> QED  BY <2>1, <1>0
<1>2. IsFiniteSet(D)
    BY <1>1, FS_Subset
<1>3. CallIds(s) = {f[k] : k \in D}
    BY DEF CallIds, IdsOf
<1>4. f \in Surjection(D, {f[k] : k \in D})
    BY DEF Surjection
<1>5. IsFiniteSet(CallIds(s))
  <2> HIDE DEF D, f
  <2> QED  BY <1>2, <1>3, <1>4, FS_Surjection
<1> QED  BY <1>5, FS_CardinalityType

\* Only rows that are neither calls nor results are added.
Plain == \E t \in Seq(PlainRow) : log' = log \o t

\* The forms in which the loop adds such rows.
LEMMA PlainIs ==
    ASSUME TypeInv
    PROVE  /\ log' = log => Plain
           /\ \A k \in PlainKind : log' = log \o Only(k) => Plain
           /\ log' = log \o Burst \/ log' = log \o Injected => Plain
           /\ \A k \in PlainKind, b \in Seq(PlainRow) : log' = log \o b \o Only(k) => Plain
           /\ \A k \in PlainKind, j \in PlainKind, b \in Seq(PlainRow) :
                  log' = log \o b \o Only(k) \o Only(j) => Plain
           /\ Plain => log' \in Seq(Row)
<1>1. log \in Seq(Row) /\ Burst \in Seq(PlainRow) /\ Injected \in Seq(PlainRow)
    BY BurstIs DEF TypeInv, DataType, CounterType
<1>2. \A k \in PlainKind : Only(k) \in Seq(PlainRow)
    BY OnlyIs
<1>3. \A t \in Seq(PlainRow), u \in Seq(PlainRow) :
          /\ log \o t \in Seq(Row) /\ t \o u \in Seq(PlainRow)
          /\ (log \o t) \o u = log \o (t \o u)
          /\ log \o <<>> = log /\ <<>> \in Seq(PlainRow)
  <2>1. \A s \in Seq(Row), t \in Seq(PlainRow), u \in Seq(PlainRow) :
            /\ s \o t \in Seq(Row) /\ t \o u \in Seq(PlainRow)
            /\ (s \o t) \o u = s \o (t \o u)
            /\ s \o <<>> = s /\ <<>> \in Seq(PlainRow)
      BY PlainConcat
  <2> QED  BY <2>1, <1>1
<1>4. log' = log => Plain
  <2>1. log = log \o <<>> /\ <<>> \in Seq(PlainRow)
      BY <1>1, <1>3
  <2> QED  BY <2>1 DEF Plain
<1>5. \A k \in PlainKind : log' = log \o Only(k) => Plain
    BY <1>2 DEF Plain
<1>6. log' = log \o Burst \/ log' = log \o Injected => Plain
    BY <1>1 DEF Plain
<1>7. ASSUME NEW k \in PlainKind, NEW b \in Seq(PlainRow), log' = log \o b \o Only(k) PROVE Plain
  <2>1. b \o Only(k) \in Seq(PlainRow) /\ (log \o b) \o Only(k) = log \o (b \o Only(k))
      BY <1>2, <1>3
  <2> QED  BY <2>1, <1>7 DEF Plain
<1>8. ASSUME NEW k \in PlainKind, NEW j \in PlainKind, NEW b \in Seq(PlainRow),
             log' = log \o b \o Only(k) \o Only(j)
      PROVE  Plain
  <2>1. /\ b \o Only(k) \in Seq(PlainRow) /\ (log \o b) \o Only(k) = log \o (b \o Only(k))
        /\ (b \o Only(k)) \o Only(j) \in Seq(PlainRow)
        /\ (log \o (b \o Only(k))) \o Only(j) = log \o ((b \o Only(k)) \o Only(j))
      BY <1>2, <1>3
  <2> QED  BY <2>1, <1>8 DEF Plain
<1>9. Plain => log' \in Seq(Row)
    BY <1>3 DEF Plain
<1> QED  BY <1>4, <1>5, <1>6, <1>7, <1>8, <1>9

\* What surrounds the batches: none of it touches the calls of a batch.
OutsideTools ==
    \/ StartTurn \/ StepLimit \/ CancelledAtTop \/ StepStarts \/ StepThrows
    \/ Continues \/ Retries \/ Extends \/ Closes \/ GenerateEnds
    \/ Thinks \/ Texts \/ Done \/ StreamAborted
    \/ CollapseDiscarded \/ CollapseTruncated \/ WrapUpEnds

\* Outside the batches every step adds rows that are neither calls nor results.
LEMMA OutsideIsPlain ==
    ASSUME TypeInv, OutsideTools
    PROVE  Plain /\ pc \notin InTools /\ pc' \notin InTools
<1>1. /\ {"start", "end", "user", "steer", "thinking", "reply"} \subseteq PlainKind
      /\ Burst \in Seq(PlainRow) /\ Injected \in Seq(PlainRow) /\ <<>> \in Seq(PlainRow)
      /\ log \o <<>> = log
    BY BurstIs, EmptySeq, ConcatEmptySeq DEF PlainKind, TypeInv
<1>2. /\ \A k \in PlainKind : Only(k) \in Seq(PlainRow)
      /\ \A t \in Seq(PlainRow) : log' = log \o t => Plain
      /\ \A k \in PlainKind, b \in Seq(PlainRow) : log' = log \o b \o Only(k) => Plain
      /\ \A k \in PlainKind, j \in PlainKind, b \in Seq(PlainRow) :
             log' = log \o b \o Only(k) \o Only(j) => Plain
      /\ log' = log => Plain
    BY OnlyIs, PlainIs DEF Plain
<1>3. CASE StartTurn
  <2>1. PICK input \in {<<>>, Only("user")} : log' = log \o Only("start") \o input
      BY <1>3 DEF StartTurn
  <2>2. log \o Only("start") \in Seq(Row)
    <3>1. \A s \in Seq(Row), t \in Seq(PlainRow) : s \o t \in Seq(Row)
        BY PlainConcat
    <3> QED  BY <3>1, <1>1, <1>2 DEF TypeInv
  <2>3. input = <<>> => log' = log \o Only("start")
      BY <2>1, <2>2, ConcatEmptySeq
  <2>4. input = Only("user") => log' = log \o <<>> \o Only("start") \o Only("user")
      BY <2>1, <1>1
  <2>5. Plain
      BY <2>1, <2>3, <2>4, <1>1, <1>2
  <2> QED  BY <2>5, <1>3 DEF StartTurn, InTools
<1>4. CASE StepLimit \/ CancelledAtTop \/ Closes
  <2>1. log' = log \o Only("end") /\ pc \in {"top", "judge"} /\ pc' = "idle"
      BY <1>4 DEF StepLimit, CancelledAtTop, Closes, EndTurn
  <2> QED  BY <2>1, <1>1, <1>2 DEF InTools
<1>5. CASE StepStarts
    BY <1>5, <1>1, <1>2 DEF StepStarts, InTools
<1>6. CASE StepThrows
    BY <1>6, <1>1, <1>2 DEF StepThrows, InTools
<1>7. CASE Continues \/ Retries \/ Extends \/ GenerateEnds \/ Thinks
    BY <1>7, <1>2 DEF Continues, Retries, Extends, GenerateEnds, Thinks, Receiving, Judge, InTools
<1>8. CASE Texts \/ Done \/ StreamAborted
  <2>1. log' = log \o Burst /\ pc = "stream" /\ pc' \in {"stream", "judge"}
      BY <1>8 DEF Texts, Done, StreamAborted, Receiving, Judge
  <2> QED  BY <2>1, <1>1, <1>2 DEF InTools
<1>9. CASE CollapseDiscarded
  <2>1. log' = log \/ log' = log \o Burst
      BY <1>9 DEF CollapseDiscarded, Convicted
  <2>2. pc = "stream" /\ pc' = "judge"
      BY <1>9 DEF CollapseDiscarded, Receiving, Judge
  <2> QED  BY <2>1, <2>2, <1>1, <1>2 DEF InTools
<1>10. CASE CollapseTruncated
  <2>1. PICK channel \in {"text", "thinking"} :
          \E kept \in {<<>>, Only(IF channel = "text" THEN "reply" ELSE "thinking")} :
              log' = Convicted(channel) \o kept \o Only("steer")
      BY <1>10 DEF CollapseTruncated
  <2>2. PICK kept \in {<<>>, Only(IF channel = "text" THEN "reply" ELSE "thinking")} :
              log' = Convicted(channel) \o kept \o Only("steer")
      BY <2>1
  <2>3. PICK b \in Seq(PlainRow) : Convicted(channel) = log \o b
      BY <1>1 DEF Convicted
  <2>4. PICK k \in PlainKind : kept = <<>> \/ kept = Only(k)
      BY <2>2, <1>1
  <2>5. log \o b \in Seq(Row)
    <3>1. \A s \in Seq(Row), t \in Seq(PlainRow) : s \o t \in Seq(Row)
        BY PlainConcat
    <3> QED  BY <3>1 DEF TypeInv
  <2>6. log' = log \o b \o Only("steer") \/ log' = log \o b \o Only(k) \o Only("steer")
      BY <2>2, <2>3, <2>4, <2>5, ConcatEmptySeq
  <2>7. pc = "stream" /\ pc' = "wrapup"
      BY <1>10 DEF CollapseTruncated, Receiving
  <2> QED  BY <2>6, <2>7, <1>1, <1>2 DEF InTools
<1>11. CASE WrapUpEnds
  <2>1. log' = log \o <<>> \/ log' = log \o Only("reply")
      BY <1>11 DEF WrapUpEnds
  <2>2. pc = "wrapup" /\ pc' = "judge"
      BY <1>11 DEF WrapUpEnds, Judge
  <2> QED  BY <2>1, <2>2, <1>1, <1>2 DEF InTools
<1> QED  BY <1>3, <1>4, <1>5, <1>6, <1>7, <1>8, <1>9, <1>10, <1>11 DEF OutsideTools

\* The stream ends with calls.
CallsStart ==
    /\ pc = "stream" /\ stream.done /\ calls # <<>>
    /\ log' = log \o Burst \o RowsOf("call", calls)
    /\ pc' = "tools" /\ at' = 1 /\ calls' = calls

\* The end of the stream either adds no call, or starts the batches.
LEMMA StreamEndsIs ==
    ASSUME TypeInv, StreamEnds
    PROVE  \/ Plain /\ pc = "stream" /\ pc' = "judge" /\ UNCHANGED <<calls, at>>
           \/ CallsStart
<1>1. "reply" \in PlainKind /\ Burst \in Seq(PlainRow)
    BY BurstIs DEF PlainKind
<1>2. /\ log' = log \o Burst => Plain
      /\ log' = log \o Burst \o Only("reply") => Plain
    BY <1>1, PlainIs
<1>3. pc = "stream"
    BY DEF StreamEnds, Receiving
<1>4. \/ /\ (log' = log \o Burst \/ log' = log \o Burst \o Only("reply"))
         /\ pc' = "judge" /\ UNCHANGED <<calls, at>>
      \/ CallsStart
    BY DEF StreamEnds, Receiving, Judge, tools, CallsStart
<1> QED  BY <1>2, <1>3, <1>4

\* The rows of calls and of results extend a log.
LEMMA RowsAppend ==
    ASSUME NEW s \in Seq(Row), NEW kind \in {"call", "result", "cancelled"}, NEW ids \in Seq(Nat)
    PROVE  s \o RowsOf(kind, ids) \in Seq(Row)
<1>1. kind \in Kind
    BY DEF Kind
<1>2. RowsOf(kind, ids) \in Seq(Row)
    BY <1>1, RowsOfType
<1> QED  BY <1>2, ConcatProperties

\* A batch runs calls of the answer.
LEMMA BatchType ==
    ASSUME TypeInv, NEW k \in Nat \ {0}
    PROVE  Batch(k) \subseteq Nat
<1>1. Len(calls) \in Nat /\ calls \in [1 .. Len(calls) -> Nat] /\ MaxParallel \in Nat
    BY LenProperties, BoundsAssumption DEF TypeInv, DataType
<1>2. \A i \in k .. Least(k + MaxParallel - 1, Len(calls)) : i \in 1 .. Len(calls)
    BY <1>1 DEF Least
<1> QED  BY <1>1, <1>2 DEF Batch

\* What a cancel synthesizes are rows of calls of the answer.
LEMMA SynthesizedIs ==
    ASSUME TypeInv, NEW rows
    PROVE  /\ Kept(calls, Nat \ ResultIds(rows)) \in Seq(Nat)
           /\ Synthesized(rows) = RowsOf("cancelled", Kept(calls, Nat \ ResultIds(rows)))
BY KeptStep DEF Synthesized, TypeInv, DataType

\* Every step leaves a log of rows.
LEMMA LogType ==
    ASSUME TypeInv, [Next]_vars
    PROVE  log' \in Seq(Row)
<1>1. Plain => log' \in Seq(Row)
    BY PlainIs
<1>2. /\ log \in Seq(Row) /\ calls \in Seq(Nat) /\ at \in Nat \ {0}
      /\ Burst \in Seq(PlainRow)
    BY BurstIs DEF TypeInv, DataType
<1>3. /\ \A s \in Seq(Row), ids \in Seq(Nat) : /\ s \o RowsOf("call", ids) \in Seq(Row)
                                               /\ s \o RowsOf("result", ids) \in Seq(Row)
                                               /\ s \o RowsOf("cancelled", ids) \in Seq(Row)
      /\ \A s \in Seq(Row), t \in Seq(PlainRow) : s \o t \in Seq(Row)
    BY RowsAppend, PlainConcat
<1>4. CASE OutsideTools
    BY <1>4, <1>1, OutsideIsPlain
<1>5. CASE StreamEnds
  <2>1. CallsStart => log' \in Seq(Row)
      BY <1>2, <1>3 DEF CallsStart
  <2> QED  BY <2>1, <1>5, <1>1, StreamEndsIs
<1>6. CASE BatchAborted
    BY <1>6, <1>2, <1>3, SynthesizedIs DEF BatchAborted
<1>7. CASE Records
  <2> DEFINE rows == log \o RowsOf("result", <<calls[at]>>)
  <2>1. calls[at] \in Nat
    <3>1. at \in 1 .. Len(calls)
        BY <1>7, <1>2, LenProperties DEF Records
    <3> QED  BY <3>1, <1>2, LenProperties
  <2>2. rows \in Seq(Row)
    <3>1. <<calls[at]>> \in Seq(Nat)
        BY <2>1
    <3> QED  BY <3>1, <1>2, <1>3
  <2>3. log' = rows \/ log' = rows \o Synthesized(rows)
      BY <1>7 DEF Records
  <2>4. rows \o Synthesized(rows) \in Seq(Row)
    <3> HIDE DEF rows
    <3> QED  BY <2>2, <1>3, SynthesizedIs
  <2> QED  BY <2>2, <2>3, <2>4
<1>8. CASE Crash
  <2>1. log' = log \/ log' = log \o Only("end")
      BY <1>8 DEF Crash
  <2>2. "end" \in PlainKind
      BY DEF PlainKind
  <2> QED  BY <2>1, <2>2, <1>1, PlainIs
<1>9. CASE (\E id \in running : ToolEnds(id)) \/ BatchSettles \/ Cancel \/ Steer \/ UNCHANGED vars
    BY <1>9, <1>2 DEF ToolEnds, BatchSettles, Cancel, Steer, vars
<1> QED  BY <1>4, <1>5, <1>6, <1>7, <1>8, <1>9 DEF Next, LoopMoves, ModelMoves, OutsideTools

\* The verdicts the steps of the loop reach.
LEMMA VerdictIs ==
    /\ Is("continue") \in Verdict /\ Is("retry") \in Verdict /\ Is("cancelled") \in Verdict
    /\ \A o \in Outcome : Final(o) \in Verdict
BY DEF Verdict, Is, Final

\* Every step keeps the types of the calls of the answer.
LEMMA DataTypeStep ==
    ASSUME TypeInv, [Next]_vars
    PROVE  DataType'
<1>1. DataType /\ \A k \in Nat \ {0} : Batch(k) \subseteq Nat
    BY BatchType DEF TypeInv
<1> USE DEF DataType
<1>2. CASE StepLimit \/ CancelledAtTop \/ Closes
    BY <1>2, <1>1 DEF StepLimit, CancelledAtTop, Closes, EndTurn, tools
<1>3. CASE StartTurn \/ StepStarts \/ StepThrows \/ Continues \/ Retries \/ Extends
    BY <1>3, <1>1 DEF StartTurn, StepStarts, StepThrows, Continues, Retries, Extends, tools
<1>4. CASE GenerateEnds
  <2>1. calls' = calls \/ calls' = <<>>
      BY <1>4 DEF GenerateEnds
  <2> QED  BY <2>1, <1>4, <1>1, EmptySeq DEF GenerateEnds
<1>5. CASE Thinks \/ Texts \/ StreamAborted \/ CollapseDiscarded \/ CollapseTruncated \/ WrapUpEnds
    BY <1>5, <1>1 DEF Thinks, Texts, StreamAborted, CollapseDiscarded, CollapseTruncated, WrapUpEnds, tools
<1>6. CASE Done
  <2>1. PICK n \in 0 .. (IF attempts < MaxAttempts THEN MaxCalls ELSE 0) :
            calls' = [i \in 1 .. n |-> Cardinality(CallIds(log)) + i]
      BY <1>6 DEF Done
  <2>2. Cardinality(CallIds(log)) \in Nat
      BY CallIdsFinite DEF TypeInv
  <2>3. n \in Nat
      BY <2>1, BoundsAssumption
  <2>4. calls' \in Seq(Nat)
      BY <2>1, <2>2, <2>3
  <2> QED  BY <2>4, <1>6, <1>1 DEF Done
<1>7. CASE StreamEnds
  <2>1. calls' = calls /\ (at' = at \/ at' = 1) /\ (running' = running \/ running' = running \cup Batch(1))
      BY <1>7 DEF StreamEnds, tools
  <2>2. Batch(1) \subseteq Nat
      BY <1>1
  <2>3. running' \subseteq Nat
      BY <2>1, <2>2, <1>1
  <2> QED  BY <2>1, <2>3, <1>1
<1>8. CASE Records
  <2>1. /\ calls' = calls /\ (at' = at \/ at' = at + 1)
        /\ (running' = running \/ running' = running \cup Batch(at + 1))
      BY <1>8 DEF Records, tools
  <2>2. at + 1 \in Nat \ {0}
      BY <1>1
  <2>3. Batch(at + 1) \subseteq Nat
      BY <2>2, <1>1
  <2>4. running' \subseteq Nat
      BY <2>1, <2>3, <1>1
  <2>5. at' \in Nat \ {0}
      BY <2>1, <2>2, <1>1
  <2> QED  BY <2>1, <2>4, <2>5, <1>1
<1>9. CASE (\E id \in running : ToolEnds(id)) \/ BatchSettles \/ BatchAborted \/ Cancel \/ Steer
           \/ Crash \/ UNCHANGED vars
    BY <1>9, <1>1 DEF ToolEnds, BatchSettles, BatchAborted, Cancel, Steer, Crash, vars, tools
<1> QED  BY <1>2, <1>3, <1>4, <1>5, <1>6, <1>7, <1>8, <1>9 DEF Next, LoopMoves, ModelMoves

\* Every step keeps the types of what decides where the loop goes.
LEMMA ControlTypeStep ==
    ASSUME TypeInv, [Next]_vars
    PROVE  ControlType'
<1>1. ControlType /\ {"top", "judge", "generate", "stream", "tools", "retain", "wrapup", "idle"}
          = Awaiting \cup {"idle", "top", "judge"}
    BY DEF TypeInv, Awaiting
<1>2. {"completed", "cancelled", "error", "step_limit", "interrupted"} = Outcome
    BY DEF Outcome
<1> USE DEF ControlType
<1>3. CASE StepLimit \/ CancelledAtTop \/ Closes
  <2>1. verdict.kind = "final" => verdict.outcome \in Outcome
      BY <1>1 DEF Verdict
  <2> QED  BY <2>1, <1>3, <1>1, <1>2 DEF StepLimit, CancelledAtTop, Closes, EndTurn
<1>4. CASE StartTurn \/ StepStarts \/ StepThrows \/ Continues \/ Retries \/ Extends
    BY <1>4, <1>1, <1>2 DEF StartTurn, StepStarts, StepThrows, Continues, Retries, Extends
<1>5. CASE GenerateEnds \/ WrapUpEnds
    BY <1>5, <1>1, <1>2, VerdictIs DEF GenerateEnds, WrapUpEnds, Judge
<1>6. CASE Thinks \/ Texts \/ Done
    BY <1>6, <1>1 DEF Thinks, Texts, Done
<1>7. CASE StreamAborted \/ CollapseDiscarded \/ CollapseTruncated
    BY <1>7, <1>1, VerdictIs DEF StreamAborted, CollapseDiscarded, CollapseTruncated, Judge
<1>8. CASE StreamEnds
  <2>1. \A f \in {"none", "error", "interrupted"} :
            /\ WithoutFrame(f) \in Outcome
            /\ (IF f = "none" THEN "completed" ELSE f) \in Outcome
            /\ f # "none" => f \in Outcome
      BY <1>2 DEF WithoutFrame
  <2> QED  BY <2>1, <1>8, <1>1, VerdictIs DEF StreamEnds, Judge
<1>9. CASE (\E id \in running : ToolEnds(id)) \/ BatchSettles \/ BatchAborted \/ Records
    BY <1>9, <1>1, VerdictIs DEF ToolEnds, BatchSettles, BatchAborted, Records, Judge
<1>10. CASE Cancel \/ Steer \/ Crash \/ UNCHANGED vars
    BY <1>10, <1>1, <1>2 DEF Cancel, Steer, Crash, vars
<1> QED  BY <1>3, <1>4, <1>5, <1>6, <1>7, <1>8, <1>9, <1>10 DEF Next, LoopMoves, ModelMoves

\* Every step keeps the types of the signals.
LEMMA SignalTypeStep ==
    ASSUME TypeInv, [Next]_vars
    PROVE  SignalType'
<1>1. SignalType
    BY DEF TypeInv
<1>2. \A h \in BOOLEAN, d \in BOOLEAN : [held |-> h, done |-> d] \in [held : BOOLEAN, done : BOOLEAN]
    OBVIOUS
<1> USE DEF SignalType
<1>3. aborted' \in {aborted, TRUE, FALSE}
    BY DEF Next, LoopMoves, ModelMoves, StartTurn, StepLimit, CancelledAtTop, EndTurn, StepStarts,
           StepThrows, Continues, Retries, Extends, Closes, GenerateEnds, Thinks, Texts, Done,
           StreamEnds, StreamAborted, CollapseDiscarded, CollapseTruncated, WrapUpEnds, ToolEnds,
           BatchSettles, BatchAborted, Records, Cancel, Steer, Crash, vars
<1>4. \/ stream' \in {stream, Silent, [held |-> FALSE, done |-> TRUE]}
      \/ \E h \in BOOLEAN : stream' = [stream EXCEPT !.held = h]
    BY DEF Next, LoopMoves, ModelMoves, StartTurn, StepLimit, CancelledAtTop, EndTurn, StepStarts,
           StepThrows, Continues, Retries, Extends, Closes, GenerateEnds, Thinks, Texts, Done,
           StreamEnds, StreamAborted, CollapseDiscarded, CollapseTruncated, WrapUpEnds, ToolEnds,
           BatchSettles, BatchAborted, Records, Cancel, Steer, Crash, vars
<1>5. stream' \in [held : BOOLEAN, done : BOOLEAN]
    BY <1>1, <1>2, <1>4 DEF Silent
<1>6. aborted' \in BOOLEAN
    BY <1>1, <1>3
<1> QED  BY <1>5, <1>6

\* Every step keeps the types of the counters.
LEMMA CounterTypeStep ==
    ASSUME TypeInv, [Next]_vars
    PROVE  CounterType'
<1>1. CounterType /\ Len(Injected) = lane
    BY BurstIs DEF TypeInv
<1> USE DEF CounterType
<1>2. CASE StepLimit \/ CancelledAtTop \/ Closes
    BY <1>2, <1>1 DEF StepLimit, CancelledAtTop, Closes, EndTurn, history
<1>3. CASE StartTurn \/ StepStarts \/ StepThrows
    BY <1>3, <1>1 DEF StartTurn, StepStarts, StepThrows, history
<1>4. CASE Continues \/ Extends
    BY <1>4, <1>1 DEF Continues, Extends, history
<1>7. CASE Retries
  <2>1. /\ retries' = retries + 1 /\ steps' = steps - 1 /\ discarded' = discarded + 1
        /\ UNCHANGED <<lane, extensions, turns, attempts, steers, crashes>>
      BY <1>7 DEF Retries, RetriesUsed, StepsAfterRetry
  <2> QED  BY <2>1, <1>1
<1>5. CASE GenerateEnds \/ Thinks \/ Texts \/ Done \/ StreamEnds \/ StreamAborted
           \/ CollapseDiscarded \/ CollapseTruncated \/ WrapUpEnds
    BY <1>5, <1>1 DEF GenerateEnds, Thinks, Texts, Done, StreamEnds, StreamAborted,
                      CollapseDiscarded, CollapseTruncated, WrapUpEnds, budget, history
<1>6. CASE (\E id \in running : ToolEnds(id)) \/ BatchSettles \/ BatchAborted \/ Records \/ UNCHANGED vars
  <2>1. UNCHANGED <<lane, budget, turns, attempts, discarded, steers, crashes>>
      BY <1>6 DEF ToolEnds, BatchSettles, BatchAborted, Records, vars, history
  <2> QED  BY <2>1, <1>1 DEF budget
<1>8. CASE Cancel
    BY <1>8, <1>1 DEF Cancel, budget, history
<1>9. CASE Steer
    BY <1>9, <1>1 DEF Steer, budget, history
<1>10. CASE Crash
    BY <1>10, <1>1 DEF Crash, budget, history
<1> QED  BY <1>2, <1>3, <1>4, <1>5, <1>6, <1>7, <1>8, <1>9, <1>10 DEF Next, LoopMoves, ModelMoves

\* Every step keeps the types.
LEMMA TypeStep ==
    ASSUME TypeInv, [Next]_vars
    PROVE  TypeInv'
BY LogType, DataTypeStep, ControlTypeStep, SignalTypeStep, CounterTypeStep DEF TypeInv

\* The types hold initially.
LEMMA TypeInit == ASSUME Init PROVE TypeInv
<1>1. <<>> \in Seq(Row) /\ <<>> \in Seq(Nat)
    BY EmptySeq
<1>2. DataType
    BY <1>1 DEF Init, DataType
<1>3. ControlType
    BY VerdictIs DEF Init, ControlType
<1>4. SignalType
    BY DEF Init, SignalType, Silent
<1>5. CounterType
    BY DEF Init, CounterType
<1> QED  BY <1>1, <1>2, <1>3, <1>4, <1>5 DEF TypeInv, Init

\* Type correctness of the loop, for every bound.
THEOREM SpecTypeInv == Spec => []TypeInv
<1>1. Init => TypeInv
    BY TypeInit
<1>2. TypeInv /\ [Next]_vars => TypeInv'
    BY TypeStep
<1> QED  BY <1>1, <1>2, PTL DEF Spec

-----------------------------------------------------------------------------
(* The budget *)

\* The budget, wherever the loop is within a turn.
BudgetInv == pc # "idle" => steps = attempts - discarded

LEMMA BudgetAlways == Spec => []BudgetInv
<1>1. Init => BudgetInv
    BY DEF Init, BudgetInv
<1>2. TypeInv /\ BudgetInv /\ [Next]_vars => BudgetInv'
  <2> SUFFICES ASSUME TypeInv, BudgetInv, [Next]_vars PROVE BudgetInv'
      OBVIOUS
  <2>1. steps \in Int /\ attempts \in Nat /\ discarded \in Nat
      BY DEF TypeInv, CounterType
  <2> USE DEF BudgetInv
  <2>2. CASE StepLimit \/ CancelledAtTop \/ Closes
      BY <2>2 DEF StepLimit, CancelledAtTop, Closes, EndTurn
  <2>3. CASE StartTurn \/ StepThrows
      BY <2>3 DEF StartTurn, StepThrows
  <2>4. CASE StepStarts
      BY <2>4, <2>1 DEF StepStarts
  <2>5. CASE Retries
    <3>1. steps' = steps - 1 /\ discarded' = discarded + 1 /\ attempts' = attempts /\ pc # "idle"
        BY <2>5 DEF Retries, StepsAfterRetry
    <3> QED  BY <3>1, <2>1
  <2>6. CASE Continues \/ Extends
      BY <2>6 DEF Continues, Extends, history
  <2>7. CASE GenerateEnds \/ Thinks \/ Texts \/ Done \/ StreamEnds \/ StreamAborted
             \/ CollapseDiscarded \/ CollapseTruncated \/ WrapUpEnds
      BY <2>7 DEF GenerateEnds, Thinks, Texts, Done, StreamEnds, StreamAborted, Receiving,
                  CollapseDiscarded, CollapseTruncated, WrapUpEnds, budget, history
  <2>8. CASE (\E id \in running : ToolEnds(id)) \/ BatchSettles \/ BatchAborted \/ Records
             \/ Cancel \/ Steer \/ Crash \/ UNCHANGED vars
      BY <2>8 DEF ToolEnds, BatchSettles, BatchAborted, Records, Cancel, Steer, Crash, vars,
                  budget, history
  <2> QED  BY <2>2, <2>3, <2>4, <2>5, <2>6, <2>7, <2>8 DEF Next, LoopMoves, ModelMoves
<1> QED  BY <1>1, <1>2, SpecTypeInv, PTL DEF Spec

\* Whatever is discarded and retried, the budget of a turn counts the attempts
\* that were not discarded (steps is debited at packages/agent-loop/src/loop.ts before
\* the model is called and given back by a retry).
THEOREM BudgetHolds == Spec => []BudgetCountsSteps
<1>1. BudgetInv => BudgetCountsSteps
    BY DEF BudgetInv, BudgetCountsSteps
<1> QED  BY <1>1, BudgetAlways, PTL

-----------------------------------------------------------------------------
(* How often the model is called *)

\* Every step of the budget has paid for the attempts discarded before it; those of
\* the step in hand are counted by `retries`.
CallsInv ==
    /\ CallsAreBounded
    /\ pc # "idle" => retries <= MaxRetries /\ (MaxSteps > 0 => steps <= MaxSteps)
    /\ pc = "top" => steps >= 0 /\ discarded <= MaxRetries * steps + retries
    /\ pc \notin {"idle", "top"} =>
           steps >= 1 /\ discarded + MaxRetries <= MaxRetries * steps + retries
    /\ pc = "judge" /\ verdict.kind = "retry" => RetriesUsed <= MaxRetries

\* The calls that n steps may make.
LEMMA StepsPay ==
    /\ \A n \in Nat : /\ MaxRetries * n \in Nat
                      /\ MaxRetries * (n + 1) = MaxRetries * n + MaxRetries
    /\ \A k \in Nat, n \in Nat : k <= n => k + MaxRetries * k <= n * (1 + MaxRetries)
<1>1. MaxRetries \in Nat
    BY BoundsAssumption
<1>2. ASSUME NEW k \in Nat, NEW n \in Nat, k <= n
      PROVE  k + MaxRetries * k <= n * (1 + MaxRetries)
  <2>1. n - k \in Nat /\ (n - k) * (1 + MaxRetries) >= 0
      BY <1>1, <1>2
  <2>2. n * (1 + MaxRetries) = k * (1 + MaxRetries) + (n - k) * (1 + MaxRetries)
      BY <1>1
  <2>3. k * (1 + MaxRetries) = k + MaxRetries * k
      BY <1>1
  <2>4. k * (1 + MaxRetries) \in Int /\ (n - k) * (1 + MaxRetries) \in Int
      BY <1>1
  <2> QED  BY <2>1, <2>2, <2>3, <2>4
<1> QED  BY <1>1, <1>2

\* A turn with a step limit asks the model at most as often as its steps and the
\* retries of each allow, although a discarded attempt gives its step back
\* (packages/agent-loop/src/loop.ts driveSteps).
THEOREM CallsHold == Spec => []CallsAreBounded
<1>1. Init => CallsInv
  <2>1. MaxSteps * (1 + MaxRetries) >= 0
      BY BoundsAssumption
  <2> QED  BY <2>1 DEF Init, CallsInv, CallsAreBounded
<1>2. TypeInv /\ BudgetInv /\ CallsInv /\ [Next]_vars => CallsInv'
  <2> SUFFICES ASSUME TypeInv, BudgetInv, CallsInv, [Next]_vars PROVE CallsInv'
      OBVIOUS
  <2>1. /\ steps \in Int /\ retries \in Nat /\ attempts \in Nat /\ discarded \in Nat
        /\ MaxSteps \in Nat /\ MaxRetries \in Nat
      BY BoundsAssumption DEF TypeInv, CounterType
  <2>2. CASE StepLimit \/ CancelledAtTop \/ Closes \/ StepThrows \/ Crash
      BY <2>2 DEF StepLimit, CancelledAtTop, Closes, StepThrows, Crash, EndTurn, history,
                  CallsInv, CallsAreBounded
  <2>3. CASE StartTurn
    <3>1. /\ pc' = "top" /\ steps' = 0 /\ retries' = 0 /\ attempts' = 0 /\ discarded' = 0
        BY <2>3 DEF StartTurn
    <3>2. MaxSteps * (1 + MaxRetries) >= 0 /\ MaxRetries * 0 = 0
        BY <2>1
    <3> QED  BY <2>1, <3>1, <3>2 DEF CallsInv, CallsAreBounded
  <2>4. CASE StepStarts
    <3>1. /\ pc = "top" /\ ~OutOfSteps /\ pc' = "generate"
          /\ steps' = steps + 1 /\ attempts' = attempts + 1
          /\ retries' = retries /\ discarded' = discarded
        BY <2>4 DEF StepStarts
    <3>2. /\ steps \in Nat /\ retries <= MaxRetries
          /\ discarded <= MaxRetries * steps + retries
        BY <2>1, <3>1 DEF CallsInv
    <3>3. /\ MaxRetries * steps \in Nat
          /\ MaxRetries * (steps + 1) = MaxRetries * steps + MaxRetries
        BY <3>2, StepsPay
    <3>4. MaxSteps > 0 => steps + 1 <= MaxSteps
        BY <2>1, <3>1, <3>2 DEF OutOfSteps
    <3>5. CallsAreBounded'
      <4> SUFFICES ASSUME MaxSteps > 0 PROVE attempts + 1 <= MaxSteps * (1 + MaxRetries)
          BY <3>1 DEF CallsAreBounded
      <4>1. attempts = steps + discarded
          BY <2>1, <3>1 DEF BudgetInv
      <4>2. attempts + 1 <= (steps + 1) + MaxRetries * (steps + 1)
          BY <2>1, <3>2, <3>3, <4>1
      <4>3. (steps + 1) + MaxRetries * (steps + 1) <= MaxSteps * (1 + MaxRetries)
          BY <2>1, <3>2, <3>4, StepsPay
      <4>4. /\ (steps + 1) + MaxRetries * (steps + 1) \in Int
            /\ MaxSteps * (1 + MaxRetries) \in Int
          BY <2>1
      <4> QED  BY <2>1, <4>2, <4>3, <4>4
    <3> QED  BY <2>1, <3>1, <3>2, <3>3, <3>4, <3>5 DEF CallsInv
  <2>5. CASE Retries
    <3>1. /\ pc = "judge" /\ pc' = "top" /\ RetriesUsed <= MaxRetries
          /\ retries' = retries + 1 /\ steps' = steps - 1
          /\ discarded' = discarded + 1 /\ attempts' = attempts
        BY <2>5 DEF Retries, RetriesUsed, StepsAfterRetry, CallsInv
    <3>2. /\ steps - 1 \in Nat /\ (MaxSteps > 0 => steps <= MaxSteps)
          /\ discarded + MaxRetries <= MaxRetries * steps + retries
        BY <2>1, <3>1 DEF CallsInv
    <3>3. /\ MaxRetries * (steps - 1) \in Nat
          /\ MaxRetries * ((steps - 1) + 1) = MaxRetries * (steps - 1) + MaxRetries
        BY <3>2, StepsPay
    <3>4. (steps - 1) + 1 = steps
        BY <2>1
    <3>5. discarded + 1 <= MaxRetries * (steps - 1) + (retries + 1)
        BY <2>1, <3>2, <3>3, <3>4
    <3> QED  BY <2>1, <3>1, <3>2, <3>5 DEF CallsInv, CallsAreBounded, RetriesUsed
  <2>6. CASE Continues \/ Extends
    <3>1. /\ pc = "judge" /\ pc' = "top" /\ retries' \in {0, retries}
          /\ steps' = steps /\ discarded' = discarded /\ attempts' = attempts
        BY <2>6 DEF Continues, Extends, history
    <3>2. /\ steps >= 1 /\ retries <= MaxRetries /\ (MaxSteps > 0 => steps <= MaxSteps)
          /\ discarded + MaxRetries <= MaxRetries * steps + retries
        BY <3>1 DEF CallsInv
    <3>3. PICK paid \in Int : paid = MaxRetries * steps
        BY <2>1
    <3>4. retries' = 0 \/ retries' = retries
        BY <3>1
    <3>5. retries' <= MaxRetries /\ discarded <= paid + retries'
        BY <2>1, <3>2, <3>3, <3>4
    <3>6. discarded' <= MaxRetries * steps' + retries'
        BY <3>1, <3>3, <3>5
    <3>7. steps' >= 0
        BY <2>1, <3>1, <3>2
    <3>8. CallsAreBounded'
        BY <3>1 DEF CallsInv, CallsAreBounded
    <3> QED  BY <3>1, <3>2, <3>5, <3>6, <3>7, <3>8 DEF CallsInv
  <2>7. CASE CollapseDiscarded
    <3>1. /\ pc = "stream" /\ pc' = "judge" /\ RetriesUsed <= MaxRetries
          /\ UNCHANGED <<retries, steps, discarded, attempts>>
        BY <2>7 DEF CollapseDiscarded, Receiving, MayDiscard, Judge, budget, history
    <3> QED  BY <3>1 DEF CallsInv, CallsAreBounded, RetriesUsed
  <2>8. CASE \/ GenerateEnds \/ Thinks \/ Texts \/ Done \/ StreamEnds \/ StreamAborted
             \/ CollapseTruncated \/ WrapUpEnds \/ BatchSettles \/ BatchAborted \/ Records
             \/ Cancel \/ Steer \/ (\E id \in running : ToolEnds(id)) \/ UNCHANGED vars
    <3>1. /\ UNCHANGED <<retries, steps, discarded, attempts>>
          /\ pc' = pc \/ (pc \notin {"idle", "top"} /\ pc' \notin {"idle", "top"})
          /\ pc' = "judge" /\ verdict'.kind = "retry" => pc = "judge" /\ verdict' = verdict
        BY <2>8 DEF GenerateEnds, Thinks, Texts, Done, StreamEnds, StreamAborted, Receiving,
                    CollapseTruncated, WrapUpEnds, BatchSettles, BatchAborted, Records, Cancel,
                    Steer, ToolEnds, Judge, Is, Final, Awaiting, vars, budget, history
    <3> QED  BY <3>1 DEF CallsInv, CallsAreBounded, RetriesUsed
  <2> QED  BY <2>2, <2>3, <2>4, <2>5, <2>6, <2>7, <2>8 DEF Next, LoopMoves, ModelMoves
<1>3. CallsInv => CallsAreBounded
    BY DEF CallsInv
<1> QED  BY <1>1, <1>2, <1>3, BudgetAlways, SpecTypeInv, PTL DEF Spec

-----------------------------------------------------------------------------
(* The reply *)

\* The reply is the last row when the verdict is reached, and the one before the
\* turn_end afterwards.
CompletedInv ==
    /\ pc = "judge" /\ verdict = Final("completed") =>
           log # <<>> /\ log[Len(log)].kind = "reply"
    /\ pc = "idle" /\ outcome = "completed" =>
           Len(log) > 1 /\ log[Len(log) - 1].kind = "reply"

\* The end of a log after one more row.
LEMMA LastRow ==
    ASSUME NEW s \in Seq(Row), NEW kind \in PlainKind
    PROVE  /\ Len(s) \in Nat /\ Len(s \o Only(kind)) = Len(s) + 1
           /\ (s \o Only(kind))[Len(s) + 1].kind = kind
           /\ s # <<>> => Len(s) > 0 /\ (s \o Only(kind))[Len(s)] = s[Len(s)]
<1>1. Only(kind) \in Seq(PlainRow) /\ Len(Only(kind)) = 1 /\ Only(kind)[1].kind = kind
    BY OnlyIs
<1>2. Only(kind) \in Seq(Row)
    BY <1>1, IdsOfPlain
<1>3. Len(s) \in Nat
    BY LenProperties
<1>4. /\ Len(s \o Only(kind)) = Len(s) + Len(Only(kind))
      /\ \A i \in 1 .. Len(s) + Len(Only(kind)) :
             (s \o Only(kind))[i] = IF i <= Len(s) THEN s[i] ELSE Only(kind)[i - Len(s)]
    BY <1>2, ConcatProperties
<1>5. (s \o Only(kind))[Len(s) + 1] = Only(kind)[1]
  <2>1. Len(s) + 1 \in 1 .. Len(s) + Len(Only(kind)) /\ ~(Len(s) + 1 <= Len(s))
        /\ Len(s) + 1 - Len(s) = 1
      BY <1>1, <1>3
  <2> QED  BY <2>1, <1>4
<1>6. s # <<>> => Len(s) > 0 /\ (s \o Only(kind))[Len(s)] = s[Len(s)]
  <2> SUFFICES ASSUME s # <<>> PROVE Len(s) > 0 /\ (s \o Only(kind))[Len(s)] = s[Len(s)]
      OBVIOUS
  <2>1. Len(s) > 0
      BY <1>3, EmptySeq
  <2>2. Len(s) \in 1 .. Len(s) + Len(Only(kind)) /\ Len(s) <= Len(s)
      BY <2>1, <1>1, <1>3
  <2> QED  BY <2>1, <2>2, <1>4
<1> QED  BY <1>1, <1>3, <1>4, <1>5, <1>6

\* A turn that reports completed ends with the reply of the model before its
\* turn_end, whatever steers, extensions and crashes came before.
THEOREM CompletedHolds == Spec => []CompletedIsAnswered
<1>1. Init => CompletedInv
    BY DEF Init, CompletedInv
<1>2. TypeInv /\ CompletedInv /\ [Next]_vars => CompletedInv'
  <2> SUFFICES ASSUME TypeInv, CompletedInv, [Next]_vars PROVE CompletedInv'
      OBVIOUS
  <2> USE DEF CompletedInv
  <2>1. log \in Seq(Row) /\ Burst \in Seq(PlainRow) /\ {"end", "reply"} \subseteq PlainKind
      BY BurstIs DEF TypeInv, PlainKind
  <2>2. CASE StepLimit \/ CancelledAtTop
      BY <2>2 DEF StepLimit, CancelledAtTop, EndTurn
  <2>3. CASE Closes
    <3>1. log' = log \o Only("end") /\ pc = "judge" /\ pc' = "idle"
          /\ (outcome' = "cancelled" \/ (verdict.kind = "final" /\ outcome' = verdict.outcome))
        BY <2>3 DEF Closes, EndTurn
    <3>2. verdict.kind = "final" /\ verdict.outcome = "completed" => verdict = Final("completed")
        BY DEF TypeInv, ControlType, Verdict, Final
    <3>3. outcome' = "completed" => log # <<>> /\ log[Len(log)].kind = "reply"
        BY <3>1, <3>2
    <3>4. outcome' = "completed" => Len(log') > 1 /\ log'[Len(log') - 1].kind = "reply"
      <4> SUFFICES ASSUME outcome' = "completed"
                   PROVE  Len(log') > 1 /\ log'[Len(log') - 1].kind = "reply"
          OBVIOUS
      <4>1. /\ Len(log) \in Nat /\ Len(log') = Len(log) + 1
            /\ Len(log) > 0 /\ log'[Len(log)] = log[Len(log)]
          BY <3>1, <3>3, <2>1, LastRow
      <4>2. Len(log') > 1 /\ Len(log') - 1 = Len(log)
          BY <4>1
      <4> QED  BY <4>1, <4>2, <3>3
    <3> QED  BY <3>1, <3>4
  <2>4. CASE StartTurn \/ StepStarts \/ StepThrows \/ Continues \/ Retries \/ Extends
      BY <2>4 DEF StartTurn, StepStarts, StepThrows, Continues, Retries, Extends
  <2>5. CASE GenerateEnds \/ WrapUpEnds \/ StreamAborted \/ CollapseDiscarded \/ BatchAborted
      BY <2>5 DEF GenerateEnds, WrapUpEnds, StreamAborted, CollapseDiscarded, BatchAborted, Judge,
                  Is, Final
  <2>6. CASE Thinks \/ Texts \/ Done \/ CollapseTruncated
      BY <2>6 DEF Thinks, Texts, Done, CollapseTruncated, Receiving
  <2>7. CASE StreamEnds
    <3>1. PICK failure \in {"none", "error", "interrupted"} :
              \/ verdict' = Final(WithoutFrame(failure)) /\ pc' = "judge"
              \/ log' = log \o Burst \o Only("reply") /\ pc' = "judge"
              \/ failure # "none" /\ verdict' = Final(failure) /\ pc' = "judge"
              \/ pc' = "tools"
        BY <2>7 DEF StreamEnds, Judge
    <3>2. WithoutFrame(failure) # "completed" /\ failure # "completed" /\ pc' # "idle"
        BY <3>1 DEF WithoutFrame
    <3>3. verdict' = Final("completed") /\ pc' = "judge" => log' = log \o Burst \o Only("reply")
        BY <3>1, <3>2 DEF Final
    <3>4. log \o Burst \in Seq(Row)
        BY <2>1, PlainConcat
    <3>5. log' = log \o Burst \o Only("reply") => log' # <<>> /\ log'[Len(log')].kind = "reply"
      <4> DEFINE q == log \o Burst
      <4> HIDE DEF q
      <4>1. \A s \in Seq(Row) : Len(s) \in Nat /\ Len(s \o Only("reply")) = Len(s) + 1
                                /\ (s \o Only("reply"))[Len(s) + 1].kind = "reply"
          BY <2>1, LastRow
      <4>2. q \in Seq(Row)
          BY <3>4 DEF q
      <4>3. Len(q) \in Nat /\ Len(q \o Only("reply")) = Len(q) + 1
            /\ (q \o Only("reply"))[Len(q) + 1].kind = "reply"
          BY <4>1, <4>2
      <4>4. q \o Only("reply") # <<>>
          BY <4>3, EmptySeq
      <4> QED  BY <4>3, <4>4 DEF q
    <3> QED  BY <3>2, <3>3, <3>5
  <2>8. CASE \E id \in running : ToolEnds(id)
      BY <2>8 DEF ToolEnds
  <2>9. CASE BatchSettles \/ Records
      BY <2>9 DEF BatchSettles, Records, Judge, Is, Final
  <2>10. CASE Cancel \/ Steer \/ UNCHANGED vars
      BY <2>10 DEF Cancel, Steer, vars
  <2>11. CASE Crash
      BY <2>11 DEF Crash
  <2> HIDE DEF CompletedInv
  <2> QED  BY <2>2, <2>3, <2>4, <2>5, <2>6, <2>7, <2>8, <2>9, <2>10, <2>11
           DEF Next, LoopMoves, ModelMoves
<1>3. CompletedInv => CompletedIsAnswered
    BY DEF CompletedInv, CompletedIsAnswered
<1> QED  BY <1>1, <1>2, <1>3, SpecTypeInv, PTL DEF Spec

-----------------------------------------------------------------------------
(* Requests *)

\* Outside the batches the log is settled; inside them it ends in the calls of
\* the answer and in the results for those before at.
HistoryInv ==
    \E n \in Nat :
        IF pc \in InTools
        THEN at <= Len(calls) /\ Numbered(calls, n) /\ Batching(log, n, calls, at)
        ELSE Settled(log, n) /\ (pc = "stream" /\ stream.done => Numbered(calls, n))

\* A step gives results to the calls from at to before j.
Answers(j) ==
    /\ pc \in InTools /\ calls' = calls
    /\ \E a \in Seq(Nat), b \in Seq(Nat) :
           /\ a \o b = SubSeq(calls, at, j - 1)
           /\ log' = log \o RowsOf("result", a) \o RowsOf("cancelled", b)
    /\ IF j <= Len(calls) THEN pc' \in InTools /\ at' = j ELSE pc' = "judge"

\* The results that a cancel synthesizes.
LEMMA SynthesizedRun ==
    ASSUME TypeInv, NEW n \in Nat, Numbered(calls, n), NEW k \in 1 .. Len(calls) + 1,
           NEW rows, ResultIds(rows) = 1 .. n + k - 1
    PROVE  Synthesized(rows) = RowsOf("cancelled", SubSeq(calls, k, Len(calls)))
<1>1. calls \in Seq(Nat) /\ Len(calls) \in Nat
    BY LenProperties DEF TypeInv, DataType
<1>2. 1 \in 1 .. Len(calls) + 1
    BY <1>1
<1>3. Splits(1 .. n + k - 1, n, calls, 1, k)
    BY <1>1 DEF Splits
<1>4. Kept(SubSeq(calls, 1, Len(calls)), Nat \ ResultIds(rows)) = SubSeq(calls, k, Len(calls))
    BY <1>1, <1>2, <1>3, KeptRun
<1>5. SubSeq(calls, 1, Len(calls)) = calls
    BY <1>1, SubSeqFull
<1> QED  BY <1>4, <1>5 DEF Synthesized

\* The call at k and those after it.
LEMMA FirstCall ==
    ASSUME NEW n \in Nat, NEW ids \in Seq(Nat), Numbered(ids, n), NEW k \in 1 .. Len(ids)
    PROVE  /\ <<ids[k]>> \in Seq(Nat) /\ SubSeq(ids, k, k) = <<ids[k]>>
           /\ (1 .. n + k - 1) \cup Ran(<<ids[k]>>) = 1 .. n + k
           /\ SubSeq(ids, k, Len(ids)) \in Seq(Nat) /\ SubSeq(ids, k + 1, Len(ids)) \in Seq(Nat)
           /\ <<ids[k]>> \o SubSeq(ids, k + 1, Len(ids)) = SubSeq(ids, k, Len(ids))
<1>1. Len(ids) \in Nat /\ ids[k] \in Nat /\ ids[k] = n + k /\ <<ids[k]>> \in Seq(Nat)
    BY LenProperties DEF Numbered
<1>2. k \in 1 .. Len(ids) + 1 /\ k + 1 \in k .. Len(ids) + 1 /\ k \in k .. Len(ids) + 1
    BY <1>1
<1>3. SubSeq(ids, k, Len(ids)) \in Seq(Nat) /\ SubSeq(ids, k + 1, Len(ids)) \in Seq(Nat)
  <2>1. SubSeq(ids, k, Len(ids)) \in Seq(Nat)
      BY <1>2, Cut
  <2>2. SubSeq(ids, k + 1, Len(ids)) \in Seq(Nat)
      BY <1>2, Cut
  <2> QED  BY <2>1, <2>2
<1>4. <<ids[k]>> \o SubSeq(ids, k + 1, Len(ids)) = SubSeq(ids, k, Len(ids))
  <2>1. Len(ids) \in k .. Len(ids)
      BY <1>1
  <2> QED  BY <2>1, SubSeqRecursiveFirst
<1>5. SubSeq(ids, k, k) = <<ids[k]>>
  <2>1. k \in k .. Len(ids) /\ k + 1 \in Int /\ k \in Int /\ k < k + 1
      BY <1>1
  <2>2. SubSeq(ids, k, k) = <<ids[k]>> \o SubSeq(ids, k + 1, k)
      BY <2>1, SubSeqRecursiveFirst
  <2>3. SubSeq(ids, k + 1, k) = <<>>
      BY <2>1, SubSeqEmpty
  <2> QED  BY <2>2, <2>3, <1>1, ConcatEmptySeq
<1>6. Ran(<<ids[k]>>) = {n + k}
    BY <1>1 DEF Ran
<1>7. (1 .. n + k - 1) \cup {n + k} = 1 .. n + k
  <2>1. n + k \in Nat /\ n + k >= 1
      BY <1>1
  <2> DEFINE p == n + k
  <2> HIDE DEF p
  <2>2. (1 .. p - 1) \cup {p} = 1 .. p
      BY <2>1 DEF p
  <2> QED  BY <2>2 DEF p
<1> QED  BY <1>1, <1>3, <1>4, <1>5, <1>6, <1>7

\* How a step is shown to give results.
LEMMA AnswersIntro ==
    ASSUME NEW j, NEW a \in Seq(Nat), NEW b \in Seq(Nat), pc \in InTools, calls' = calls,
           a \o b = SubSeq(calls, at, j - 1),
           log' = log \o RowsOf("result", a) \o RowsOf("cancelled", b),
           IF j <= Len(calls) THEN pc' \in InTools /\ at' = j ELSE pc' = "judge"
    PROVE  Answers(j)
BY DEF Answers

\* A recorded result, and the results a cancel synthesizes, are results for the
\* next calls in the order of the model, and the last one ends the batches.
LEMMA AnswersStep ==
    ASSUME TypeInv, BatchAborted \/ Records, NEW n \in Nat, at <= Len(calls), Numbered(calls, n),
           ResultIds(log) = 1 .. n + at - 1
    PROVE  \E j \in at + 1 .. Len(calls) + 1 : Answers(j)
<1>1. /\ calls \in Seq(Nat) /\ Len(calls) \in Nat /\ at \in Nat \ {0} /\ log \in Seq(Row)
      /\ at \in 1 .. Len(calls) /\ calls[at] \in Nat
    BY LenProperties DEF TypeInv, DataType
<1>2. CASE BatchAborted
  <2> DEFINE b == SubSeq(calls, at, Len(calls))
             j == Len(calls) + 1
  <2>1. Synthesized(log) = RowsOf("cancelled", b)
    <3>1. at \in 1 .. Len(calls) + 1
        BY <1>1
    <3> QED  BY <3>1, SynthesizedRun
  <2>2. b \in Seq(Nat) /\ <<>> \in Seq(Nat) /\ <<>> \o b = b
    <3>1. at \in 1 .. Len(calls) + 1 /\ at \in at .. Len(calls) + 1
        BY <1>1
    <3>2. b \in Seq(Nat)
        BY <3>1, <1>1, Cut
    <3> QED  BY <3>2, EmptySeq, ConcatEmptySeq
  <2>3. log \o RowsOf("result", <<>>) = log
    <3>1. RowsOf("result", <<>>) = <<>>
        BY EmptySeq DEF RowsOf
    <3> QED  BY <3>1, <1>1, ConcatEmptySeq
  <2>4. log' = log \o RowsOf("result", <<>>) \o RowsOf("cancelled", b)
      BY <1>2, <2>1, <2>3 DEF BatchAborted
  <2>5. pc = "tools" /\ calls' = calls /\ pc' = "judge"
      BY <1>2 DEF BatchAborted, Judge, tools
  <2>6. j \in at + 1 .. Len(calls) + 1 /\ ~(j <= Len(calls)) /\ j - 1 = Len(calls)
      BY <1>1
  <2>7. <<>> \o b = SubSeq(calls, at, j - 1)
      BY <2>2, <2>6
  <2> HIDE DEF b, j
  <2>8. Answers(j)
      BY <2>2, <2>4, <2>5, <2>6, <2>7 DEF Answers, InTools
  <2> QED  BY <2>6, <2>8
<1>3. CASE Records
  <2> DEFINE a == <<calls[at]>>
             rows == log \o RowsOf("result", a)
             b == SubSeq(calls, at + 1, Len(calls))
  <2>1. /\ a \in Seq(Nat) /\ SubSeq(calls, at, at) = a /\ b \in Seq(Nat)
        /\ (1 .. n + at - 1) \cup Ran(a) = 1 .. n + at
        /\ a \o b = SubSeq(calls, at, Len(calls))
      BY <1>1, FirstCall
  <2>2. <<>> \in Seq(Nat) /\ a \o <<>> = a
      BY <2>1, EmptySeq, ConcatEmptySeq
  <2>3. rows \in Seq(Row) /\ ResultIds(rows) = 1 .. n + at
        /\ log \o RowsOf("result", a) \o RowsOf("cancelled", <<>>) = rows
    <3>1. rows \in Seq(Row) /\ ResultIds(rows) = ResultIds(log) \cup Ran(a)
      <4> HIDE DEF a
      <4> QED  BY <1>1, <2>1, OpenResults
    <3>2. RowsOf("cancelled", <<>>) = <<>>
        BY EmptySeq DEF RowsOf
    <3>3. rows \o <<>> = rows
      <4> HIDE DEF rows
      <4> QED  BY <3>1, ConcatEmptySeq
    <3> QED  BY <3>1, <3>2, <3>3, <2>1
  <2>4. pc \in InTools /\ calls' = calls
      BY <1>3 DEF Records, tools, InTools
  <2>5. \/ at = Len(calls) /\ log' = rows /\ pc' = "judge"
        \/ at < Len(calls) /\ log' = rows /\ at' = at + 1 /\ pc' \in InTools
        \/ at < Len(calls) /\ log' = rows \o Synthesized(rows) /\ pc' = "judge"
      BY <1>3 DEF Records, Judge, InTools
  <2> HIDE DEF a, b, rows
  <2>6. CASE at = Len(calls) /\ log' = rows /\ pc' = "judge"
    <3> DEFINE j == at + 1
    <3>1. j \in at + 1 .. Len(calls) + 1 /\ ~(j <= Len(calls)) /\ j - 1 = at
        BY <2>6, <1>1
    <3> HIDE DEF j
    <3>2. Answers(j)
        BY <3>1, <2>1, <2>2, <2>3, <2>4, <2>6, AnswersIntro DEF rows
    <3> QED  BY <3>1, <3>2
  <2>7. CASE at < Len(calls) /\ log' = rows /\ at' = at + 1 /\ pc' \in InTools
    <3> DEFINE j == at + 1
    <3>1. j \in at + 1 .. Len(calls) + 1 /\ j <= Len(calls) /\ j - 1 = at /\ at' = j
        BY <2>7, <1>1
    <3> HIDE DEF j
    <3>2. Answers(j)
        BY <3>1, <2>1, <2>2, <2>3, <2>4, <2>7, AnswersIntro DEF rows
    <3> QED  BY <3>1, <3>2
  <2>8. CASE at < Len(calls) /\ log' = rows \o Synthesized(rows) /\ pc' = "judge"
    <3> DEFINE j == Len(calls) + 1
    <3>1. Synthesized(rows) = RowsOf("cancelled", b)
      <4> DEFINE k == at + 1
      <4>1. k \in 1 .. Len(calls) + 1 /\ n + at = n + k - 1
          BY <1>1
      <4> HIDE DEF k
      <4>2. Synthesized(rows) = RowsOf("cancelled", SubSeq(calls, k, Len(calls)))
          BY <4>1, <2>3, SynthesizedRun
      <4> QED  BY <4>2 DEF k, b
    <3>2. j \in at + 1 .. Len(calls) + 1 /\ ~(j <= Len(calls)) /\ j - 1 = Len(calls)
        BY <1>1
    <3> HIDE DEF j
    <3>3. Answers(j)
        BY <3>1, <3>2, <2>1, <2>4, <2>8, AnswersIntro DEF rows
    <3> QED  BY <3>2, <3>3
  <2> QED  BY <2>5, <2>6, <2>7, <2>8
<1> QED  BY <1>2, <1>3

\* Every step but a crash keeps the history invariant.
LEMMA HistoryStep ==
    ASSUME TypeInv, ~Crash, HistoryInv, [Next]_vars
    PROVE  HistoryInv'
<1> USE DEF HistoryInv
<1>1. log \in Seq(Row) /\ calls \in Seq(Nat) /\ at \in Nat \ {0} /\ Len(calls) \in Nat
      /\ crashes \in Nat
    BY LenProperties DEF TypeInv, DataType, CounterType
<1>2. CASE OutsideTools
  <2>1. Plain /\ pc \notin InTools /\ pc' \notin InTools
      BY <1>2, OutsideIsPlain
  <2>2. PICK n \in Nat : Settled(log, n) /\ (pc = "stream" /\ stream.done => Numbered(calls, n))
      BY <2>1
  <2>3. Settled(log', n)
      BY <2>1, <2>2, <1>1, SettledPlain DEF Plain
  <2>4. pc' = "stream" /\ stream'.done => Numbered(calls', n)
    <3>1. CASE Done
      <4>1. Cardinality(CallIds(log)) = n
        <5>1. CallIds(log) = 1 .. n
            BY <2>2 DEF Settled
        <5>2. Cardinality(1 .. n) = IF 1 > n THEN 0 ELSE n - 1 + 1
            BY FS_Interval
        <5> QED  BY <5>1, <5>2
      <4>2. PICK k \in 0 .. (IF attempts < MaxAttempts THEN MaxCalls ELSE 0) :
                calls' = [i \in 1 .. k |-> n + i]
          BY <3>1, <4>1 DEF Done
      <4>3. k \in Nat
          BY <4>2, BoundsAssumption
      <4>4. Len(calls') = k
          BY <4>2, <4>3
      <4> QED  BY <4>2, <4>4 DEF Numbered
    <3>2. CASE Thinks \/ Texts
      <4>1. pc = "stream" /\ calls' = calls /\ stream'.done = stream.done
          BY <3>2 DEF Thinks, Texts, Receiving, tools, TypeInv, SignalType
      <4> QED  BY <4>1, <2>2
    <3>3. CASE GenerateEnds
        BY <3>3 DEF GenerateEnds, Silent, Judge
    <3>4. CASE ~(Done \/ Thinks \/ Texts \/ GenerateEnds)
      <4>1. pc' # "stream"
          BY <3>4, <1>2, <2>1 DEF OutsideTools, StartTurn, StepLimit, CancelledAtTop, EndTurn,
             StepStarts, StepThrows, Continues, Retries, Extends, Closes, StreamAborted, Judge,
             CollapseDiscarded, CollapseTruncated, WrapUpEnds
      <4> QED  BY <4>1
    <3> QED  BY <3>1, <3>2, <3>3, <3>4
  <2> QED  BY <2>1, <2>3, <2>4
<1>3. CASE StreamEnds
  <2>1. pc = "stream" /\ pc \notin InTools
      BY <1>3 DEF StreamEnds, Receiving, InTools
  <2>2. PICK n \in Nat : Settled(log, n) /\ (stream.done => Numbered(calls, n))
      BY <2>1
  <2>3. CASE Plain /\ pc' = "judge"
    <3>1. Settled(log', n)
        BY <2>2, <2>3, <1>1, SettledPlain DEF Plain
    <3> QED  BY <3>1, <2>3 DEF InTools
  <2>4. CASE CallsStart
    <3>1. log \o Burst \in Seq(Row) /\ Settled(log \o Burst, n)
        BY <1>1, <2>2, BurstIs, PlainConcat, SettledPlain
    <3>2. Numbered(calls, n) /\ calls # <<>> /\ pc' = "tools" /\ at' = 1 /\ calls' = calls
        BY <2>2, <2>4 DEF CallsStart
    <3>3. Batching(log', n, calls, 1)
        BY <3>1, <3>2, <2>4, <1>1, BatchingStarts DEF CallsStart
    <3>4. 1 <= Len(calls)
        BY <3>2, <1>1, EmptySeq
    <3> QED  BY <3>2, <3>3, <3>4 DEF InTools
  <2> QED  BY <2>3, <2>4, <1>3, StreamEndsIs
<1>4. CASE BatchAborted \/ Records
  <2>1. pc \in InTools
      BY <1>4 DEF BatchAborted, Records, InTools
  <2>2. PICK n \in Nat : at <= Len(calls) /\ Numbered(calls, n) /\ Batching(log, n, calls, at)
      BY <2>1
  <2>3. PICK j \in at + 1 .. Len(calls) + 1 : Answers(j)
      BY <2>2, <1>4, AnswersStep DEF Batching
  <2>4. calls' = calls /\ Batching(log', n, calls, j)
    <3>1. PICK a \in Seq(Nat), b \in Seq(Nat) :
              /\ a \o b = SubSeq(calls, at, j - 1)
              /\ log' = log \o RowsOf("result", a) \o RowsOf("cancelled", b)
        BY <2>3 DEF Answers
    <3>2. at \in 1 .. Len(calls)
        BY <1>1, <2>2
    <3>3. Batching(log \o RowsOf("result", a) \o RowsOf("cancelled", b), n, calls, j)
        BY <3>1, <3>2, <1>1, <2>2, BatchingAdds
    <3> QED  BY <3>1, <3>3, <2>3 DEF Answers
  <2>5. CASE j <= Len(calls)
    <3>1. pc' \in InTools /\ at' = j
        BY <2>3, <2>5 DEF Answers
    <3> QED  BY <3>1, <2>2, <2>4, <2>5
  <2>6. CASE ~(j <= Len(calls))
    <3>1. pc' = "judge" /\ j = Len(calls) + 1
        BY <2>3, <2>6, <1>1 DEF Answers
    <3>2. calls # <<>>
      <4>1. Len(<<>>) = 0
          BY EmptySeq
      <4> QED  BY <4>1, <2>2, <1>1
    <3>3. Settled(log', n + Len(calls)) /\ n + Len(calls) \in Nat
      <4>1. Batching(log', n, calls, Len(calls) + 1) /\ log' \in Seq(Row)
          BY <3>1, <2>4, LogType
      <4>2. Settled(log', n + Len(calls))
          BY <4>1, <3>2, <1>1, BatchingEnds
      <4> QED  BY <4>2, <1>1
    <3> QED  BY <3>1, <3>3 DEF InTools
  <2> QED  BY <2>5, <2>6
<1>5. CASE (\E id \in running : ToolEnds(id)) \/ Cancel \/ Steer \/ UNCHANGED vars
    BY <1>5 DEF ToolEnds, Cancel, Steer, vars, tools
<1>6. CASE BatchSettles
    BY <1>6 DEF BatchSettles, tools, InTools
<1> QED  BY <1>2, <1>3, <1>4, <1>5, <1>6 DEF Next, LoopMoves, ModelMoves, OutsideTools

\* Only a crash counts as one.
LEMMA CrashesCount ==
    ASSUME TypeInv, [Next]_vars
    PROVE  /\ ~Crash => crashes' = crashes
           /\ crashes' = 0 \/ MaxCrashes = 0 => ~Crash
<1>1. crashes \in Nat
    BY DEF TypeInv, CounterType
<1>2. Crash => crashes' # 0 /\ MaxCrashes # 0
    BY <1>1 DEF Crash
<1>3. \/ Crash
      \/ crashes' = crashes
    BY DEF Next, LoopMoves, ModelMoves, StartTurn, StepLimit, CancelledAtTop, StepStarts,
           StepThrows, Continues, Retries, Extends, Closes, EndTurn, GenerateEnds, Thinks, Texts,
           Done, StreamEnds, StreamAborted, CollapseDiscarded, CollapseTruncated, WrapUpEnds,
           ToolEnds, BatchSettles, BatchAborted, Records, Cancel, Steer, Judge, vars, history
<1> QED  BY <1>2, <1>3

\* The history invariant holds initially.
LEMMA HistoryInit == ASSUME Init PROVE HistoryInv
<1>1. Derived(<<>>) = <<>> /\ Reading(<<>>).pending = <<>>
  <2>1. <<>> \in Seq(Row)
      BY EmptySeq
  <2>2. Derived(<<>>) = <<>>
      BY <2>1, DerivedType
  <2>3. Reading(<<>>) = Unread
      BY <2>1, ReadingStep
  <2> QED  BY <2>2, <2>3 DEF Unread
<1>2. Complete(<<>>)
    BY EmptySeq DEF Complete
<1>3. CallIds(<<>>) = {} /\ ResultIds(<<>>) = {} /\ OpenRows(<<>>) = <<>>
  <2>1. CallIds(<<>>) = {} /\ ResultIds(<<>>) = {}
      BY EmptySeq DEF CallIds, ResultIds, IdsOf
  <2>2. \A S : Kept(<<>>, S) = <<>>
      BY KeptStep, EmptySeq
  <2> QED  BY <2>1, <2>2 DEF OpenRows
<1>4. Settled(<<>>, 0)
    BY <1>1, <1>2, <1>3 DEF Settled, Flush
<1> QED  BY <1>4 DEF Init, HistoryInv, InTools

\* Until a crash interrupts a turn, whatever the model is asked has been derived from
\* a complete history.
THEOREM RequestHolds == Spec => [](crashes = 0 => RequestValid)
<1> DEFINE Inv == crashes = 0 => HistoryInv
<1>1. Init => Inv
    BY HistoryInit
<1>2. TypeInv /\ Inv /\ [Next]_vars => Inv'
    BY HistoryStep, CrashesCount
<1>3. TypeInv /\ HistoryInv => RequestValid
  <2> SUFFICES ASSUME TypeInv, HistoryInv, pc \in {"generate", "wrapup"}
               PROVE  WellPaired(History(log))
      BY DEF RequestValid
  <2>1. log \in Seq(Row) /\ pc \notin InTools
      BY DEF TypeInv, InTools
  <2>2. Derived(log) \in Seq(Msg) /\ Complete(Derived(log))
      BY <2>1, DerivedType DEF HistoryInv, Settled, Flush
  <2> QED  BY <2>2, BalancedComplete, WellPairedComplete DEF History
<1>4. TypeInv /\ Inv => (crashes = 0 => RequestValid)
    BY <1>3
<1> HIDE DEF Inv
<1> QED  BY <1>1, <1>2, <1>4, SpecTypeInv, PTL DEF Spec

-----------------------------------------------------------------------------
(* The turn protocol *)

\* The calls of the batches that have no result yet.
Left == IF pc \in InTools THEN SubSeq(calls, at, Len(calls)) ELSE <<>>

\* The calls without a result are those of the batches from at on.
LEMMA LeftIs ==
    ASSUME TypeInv, HistoryInv
    PROVE  Unanswered(log) = Left /\ Left \in Seq(Nat)
<1>1. Unanswered(log) = Ids(OpenRows(log))
    BY DEF Unanswered, OpenRows
<1>2. "call" \in Kind /\ <<>> \in Seq(Nat) /\ RowsOf("call", <<>>) = <<>>
    BY EmptySeq DEF Kind, RowsOf
<1>3. CASE pc \in InTools
  <2>1. /\ OpenRows(log) = RowsOf("call", SubSeq(calls, at, Len(calls)))
        /\ at <= Len(calls) /\ at \in Nat \ {0} /\ calls \in Seq(Nat) /\ Len(calls) \in Nat
      BY <1>3, LenProperties DEF HistoryInv, Batching, TypeInv, DataType
  <2>2. at \in 1 .. Len(calls) + 1 /\ at \in at .. Len(calls) + 1
      BY <2>1
  <2>3. SubSeq(calls, at, Len(calls)) \in Seq(Nat)
      BY <2>1, <2>2, Cut
  <2>4. Ids(RowsOf("call", SubSeq(calls, at, Len(calls)))) = SubSeq(calls, at, Len(calls))
      BY <1>2, <2>3, IdsOfRows
  <2> QED  BY <1>1, <1>3, <2>1, <2>3, <2>4 DEF Left
<1>4. CASE pc \notin InTools
  <2>1. OpenRows(log) = RowsOf("call", <<>>)
      BY <1>2, <1>4 DEF HistoryInv, Settled
  <2>2. Ids(RowsOf("call", <<>>)) = <<>>
      BY <1>2, IdsOfRows
  <2> QED  BY <1>1, <1>2, <1>4, <2>1, <2>2 DEF Left
<1> QED  BY <1>3, <1>4

\* Results for the calls up to j leave those from j on.
LEMMA LeftAfter ==
    ASSUME NEW ids \in Seq(Nat), NEW k \in 1 .. Len(ids), NEW j \in k + 1 .. Len(ids) + 1
    PROVE  LET left == SubSeq(ids, k, Len(ids))
           IN  /\ left # <<>> /\ j - k \in 1 .. Len(left)
               /\ SubSeq(left, (j - k) + 1, Len(left)) = SubSeq(ids, j, Len(ids))
<1> DEFINE L == Len(ids)
           left == SubSeq(ids, k, L)
           n == j - k
           rest == SubSeq(left, n + 1, Len(left))
           goal == SubSeq(ids, j, L)
<1>0. L \in Nat /\ k \in Int /\ j \in Int /\ 1 <= k /\ k < j /\ j <= L + 1
    BY LenProperties
<1>1. k \in 1 .. L + 1 /\ k \in k .. L + 1 /\ j \in 1 .. L + 1 /\ j \in j .. L + 1
      /\ L + 1 \in k .. L + 1 /\ L + 1 \in j .. L + 1 /\ (L + 1) - 1 = L
    BY <1>0
<1>2. left \in Seq(Nat) /\ Len(left) = L + 1 - k /\ \A i \in 1 .. (L + 1) - k : left[i] = ids[k + i - 1]
  <2>1. left \in Seq(Nat)
      BY <1>1, Cut
  <2>2. Len(left) = L + 1 - k
      BY <1>1, Cut
  <2>3. \A i \in 1 .. (L + 1) - k : SubSeq(ids, k, (L + 1) - 1)[i] = ids[k + i - 1]
      BY <1>1, Cut
  <2> QED  BY <2>1, <2>2, <2>3, <1>1
<1>3. goal \in Seq(Nat) /\ Len(goal) = L + 1 - j /\ \A i \in 1 .. (L + 1) - j : goal[i] = ids[j + i - 1]
  <2>1. goal \in Seq(Nat)
      BY <1>1, Cut
  <2>2. Len(goal) = L + 1 - j
      BY <1>1, Cut
  <2>3. \A i \in 1 .. (L + 1) - j : SubSeq(ids, j, (L + 1) - 1)[i] = ids[j + i - 1]
      BY <1>1, Cut
  <2> QED  BY <2>1, <2>2, <2>3, <1>1
<1> HIDE DEF left, goal
<1>4. left # <<>> /\ n \in 1 .. Len(left)
  <2>1. Len(<<>>) = 0
      BY EmptySeq
  <2> QED  BY <2>1, <1>0, <1>2
<1>5. rest \in Seq(Nat) /\ Len(rest) = L + 1 - j /\ \A i \in 1 .. (L + 1) - j : rest[i] = left[n + 1 + i - 1]
  <2> DEFINE q == n + 1
             M == Len(left)
  <2>1. q \in 1 .. M + 1 /\ q \in q .. M + 1 /\ M + 1 \in q .. M + 1 /\ (M + 1) - 1 = M
        /\ M + 1 - q = L + 1 - j /\ (M + 1) - q = (L + 1) - j
      BY <1>0, <1>2
  <2> HIDE DEF q
  <2>2. SubSeq(left, q, M) \in Seq(Nat)
      BY <1>2, <2>1, Cut
  <2>3. Len(SubSeq(left, q, M)) = M + 1 - q
      BY <1>2, <2>1, Cut
  <2>4. \A i \in 1 .. (M + 1) - q : SubSeq(left, q, (M + 1) - 1)[i] = left[q + i - 1]
      BY <1>2, <2>1, Cut
  <2> QED  BY <2>1, <2>2, <2>3, <2>4 DEF q
<1> HIDE DEF rest
<1>6. ASSUME NEW i \in 1 .. (L + 1) - j PROVE rest[i] = goal[i]
  <2>1. n + 1 + i - 1 \in 1 .. (L + 1) - k /\ k + (n + 1 + i - 1) - 1 = j + i - 1
      BY <1>0
  <2>2. rest[i] = left[n + 1 + i - 1] /\ left[n + 1 + i - 1] = ids[k + (n + 1 + i - 1) - 1]
      BY <2>1, <1>2, <1>5
  <2> QED  BY <2>1, <2>2, <1>3
<1>7. rest = goal
  <2>1. Len(rest) = Len(goal) /\ \A i \in 1 .. Len(rest) : rest[i] = goal[i]
      BY <1>0, <1>3, <1>5, <1>6
  <2> QED  BY <2>1, <1>3, <1>5, SeqEqual
<1> QED  BY <1>4, <1>7 DEF left, rest, goal

\* Every step but a crash is a step of the protocol, or leaves it alone.
LEMMA ProtocolStep ==
    ASSUME TypeInv, MaxCrashes = 0, HistoryInv, TypeInv', HistoryInv', [Next]_vars
    PROVE  [Protocol!Next]_<<Phase, Unanswered(log)>>
<1>1. Unanswered(log) = Left /\ Unanswered(log') = Left' /\ Left \in Seq(Nat) /\ Left' \in Seq(Nat)
  <2>1. Unanswered(log) = Left /\ Left \in Seq(Nat)
      BY LeftIs
  <2>2. (Unanswered(log) = Left /\ Left \in Seq(Nat))'
      BY LeftIs, PTL
  <2> QED  BY <2>1, <2>2
<1>2. pc \notin InTools /\ pc' \notin InTools => Left = <<>> /\ Left' = <<>>
    BY DEF Left
<1>3. Phase \in {"closed", "open", "asking"} /\ Phase' \in {"closed", "open", "asking"}
    BY DEF Phase
<1> USE DEF Protocol!Next
<1>4. CASE pc = "idle" /\ pc' = "top"
    BY <1>4, <1>1, <1>2 DEF Phase, InTools, Protocol!Open
<1>5. CASE pc \in {"top", "judge"} /\ pc' = "idle"
    BY <1>5, <1>1, <1>2 DEF Phase, InTools, Protocol!Close
<1>6. CASE pc = "top" /\ pc' = "generate"
    BY <1>6, <1>1, <1>2 DEF Phase, InTools, Protocol!Consult
<1>7. CASE pc \in {"generate", "stream", "wrapup"} /\ pc' \in {"judge", "tools"}
  <2>1. Left = <<>> /\ Phase = "asking" /\ Phase' = "open"
      BY <1>7 DEF Left, Phase, InTools
  <2>2. Protocol!Ask
      BY <2>1, <1>1 DEF Protocol!Ask
  <2> QED  BY <2>2
<1>8. CASE \/ pc \in {"generate", "stream"} /\ pc' \in {"stream", "wrapup"}
           \/ pc = "judge" /\ pc' = "top"
    BY <1>8, <1>1, <1>2 DEF Phase, InTools
<1>9. CASE pc' = pc /\ UNCHANGED <<calls, at>>
    BY <1>9, <1>1 DEF Phase, Left
<1>10. CASE BatchSettles
    BY <1>10, <1>1 DEF Phase, Left, BatchSettles, tools, InTools
<1>11. CASE BatchAborted \/ Records
  <2>1. pc \in InTools /\ Phase = "open"
      BY <1>11 DEF BatchAborted, Records, InTools, Phase
  <2>2. PICK b \in Nat : at <= Len(calls) /\ Numbered(calls, b) /\ Batching(log, b, calls, at)
      BY <2>1 DEF HistoryInv
  <2>3. PICK j \in at + 1 .. Len(calls) + 1 : Answers(j)
      BY <2>2, <1>11, AnswersStep DEF Batching
  <2>4. at \in 1 .. Len(calls) /\ Len(calls) \in Nat /\ calls \in Seq(Nat)
      BY <2>2, LenProperties DEF TypeInv, DataType
  <2>5. /\ Left # <<>> /\ j - at \in 1 .. Len(Left)
        /\ SubSeq(Left, (j - at) + 1, Len(Left)) = SubSeq(calls, j, Len(calls))
      BY <2>1, <2>4, LeftAfter DEF Left
  <2>6. Left' = SubSeq(calls, j, Len(calls))
    <3>1. CASE j <= Len(calls)
        BY <3>1, <2>3 DEF Answers, Left
    <3>2. CASE ~(j <= Len(calls))
      <4>0. j = Len(calls) + 1
          BY <3>2, <2>4
      <4>1. pc' = "judge" /\ j = Len(calls) + 1
          BY <4>0, <3>2, <2>3 DEF Answers
      <4>2. SubSeq(calls, j, Len(calls)) = <<>>
          BY <4>1, <2>4, SubSeqEmpty
      <4> QED  BY <4>1, <4>2 DEF Left, InTools
    <3> QED  BY <3>1, <3>2
  <2>7. Phase' = "open"
      BY <2>3 DEF Answers, Phase, InTools
  <2>8. \E n \in 1 .. Len(Left) : Left' = SubSeq(Left, n + 1, Len(Left))
      BY <2>5, <2>6
  <2>9. Protocol!Answer
      BY <2>1, <2>5, <2>7, <2>8, <1>1 DEF Protocol!Answer
  <2> QED  BY <2>9
<1> HIDE DEF Protocol!Next
<1>12. CASE StartTurn
    BY <1>12, <1>4 DEF StartTurn
<1>13. CASE StepLimit \/ CancelledAtTop \/ StepThrows \/ Closes
    BY <1>13, <1>5 DEF StepLimit, CancelledAtTop, StepThrows, Closes, EndTurn
<1>14. CASE StepStarts
    BY <1>14, <1>6 DEF StepStarts
<1>15. CASE Continues \/ Retries \/ Extends \/ CollapseTruncated
    BY <1>15, <1>8 DEF Continues, Retries, Extends, CollapseTruncated, Receiving
<1>16. CASE GenerateEnds
    BY <1>16, <1>7, <1>8 DEF GenerateEnds, Judge
<1>17. CASE StreamAborted \/ CollapseDiscarded \/ WrapUpEnds
    BY <1>17, <1>7 DEF StreamAborted, CollapseDiscarded, WrapUpEnds, Receiving, Judge
<1>18. CASE StreamEnds
  <2>1. pc = "stream" /\ pc' \in {"judge", "tools"}
      BY <1>18 DEF StreamEnds, Receiving, Judge
  <2> QED  BY <2>1, <1>7
<1>19. CASE Done
  <2>1. pc = "stream" /\ pc' = "stream"
      BY <1>19 DEF Done, Receiving
  <2> QED  BY <2>1, <1>8
<1>20. CASE Thinks \/ Texts \/ (\E id \in running : ToolEnds(id)) \/ Cancel \/ Steer \/ UNCHANGED vars
    BY <1>20, <1>9 DEF Thinks, Texts, ToolEnds, Cancel, Steer, vars, tools
<1>21. CASE Crash
  <2>1. crashes \in Nat
      BY DEF TypeInv, CounterType
  <2> QED  BY <1>21, <2>1 DEF Crash
<1> QED  BY <1>10, <1>11, <1>12, <1>13, <1>14, <1>15, <1>16, <1>17, <1>18, <1>19, <1>20, <1>21
         DEF Next, LoopMoves, ModelMoves

\* While no crash interrupts it, a session keeps the turn protocol.
THEOREM LoopKeepsProtocol ==
    ASSUME MaxCrashes = 0
    PROVE  Spec => ImplementsProtocol
<1>1. Init => Protocol!Init
  <2> SUFFICES ASSUME Init PROVE Protocol!Init
      OBVIOUS
  <2>1. Unanswered(log) = Left
      BY TypeInit, HistoryInit, LeftIs
  <2> QED  BY <2>1 DEF Init, Protocol!Init, Phase, Left, InTools
<1>2. Init => TypeInv /\ HistoryInv
    BY TypeInit, HistoryInit
<1>3. TypeInv /\ HistoryInv /\ [Next]_vars => TypeInv' /\ HistoryInv'
    BY TypeStep, HistoryStep, CrashesCount
<1>4. TypeInv /\ HistoryInv /\ TypeInv' /\ HistoryInv' /\ [Next]_vars
          => [Protocol!Next]_<<Phase, Unanswered(log)>>
    BY ProtocolStep
<1> QED  BY <1>1, <1>2, <1>3, <1>4, PTL DEF Spec, ImplementsProtocol, Protocol!Spec, Protocol!vars
=============================================================================
