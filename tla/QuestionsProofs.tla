---------------------------- MODULE QuestionsProofs ----------------------------
(***************************************************************************)
(* What holds of questions, their frames and their cards for every set of  *)
(* sessions, every capacity of the event stream and every bound on         *)
(* questions, lists and troubles.                                          *)
(*                                                                         *)
(* A question keeps its session and its id for ever, and ends once; so     *)
(* what a row, a frame, a list, an answer or a card says of its question   *)
(* stays true, and QuestionInv collects what each of them says.            *)
(***************************************************************************)
EXTENDS Questions, SequenceTheorems, WellFoundedInduction, TLAPS

-----------------------------------------------------------------------------
(* Numbers and sequences *)

\* Induction over the naturals, from a least counterexample.
LEMMA CountingUp ==
    ASSUME NEW P, 0 \in P, \A n \in Nat : n \in P => n + 1 \in P
    PROVE  Nat \subseteq P
<1> SUFFICES ASSUME Nat \ P # {} PROVE FALSE
    OBVIOUS
<1>1. IsWellFoundedOn(OpToRel(<, Nat), Nat)
    BY NatLessThanWellFounded
<1>2. PICK x \in Nat \ P : \A y \in Nat \ P : <<y, x>> \notin OpToRel(<, Nat)
    BY <1>1, WFMin
<1>3. x # 0 /\ x \in Nat
    BY <1>2
<1>4. x - 1 \in Nat /\ (x - 1) + 1 = x
    BY <1>3
<1>5. <<x - 1, x>> \in OpToRel(<, Nat)
    BY <1>3, <1>4 DEF OpToRel
<1> QED  BY <1>2, <1>4, <1>5

\* A set of positions that is not empty has a first and a last one.
LEMMA FirstAndLast ==
    ASSUME NEW n \in Nat, NEW S \in SUBSET (1 .. n), S # {}
    PROVE  Min(S) \in S /\ Max(S) \in S
<1> DEFINE P == {m \in Nat : \A R \in SUBSET (1 .. m) : R # {} =>
                    /\ \E x \in R : \A y \in R : x <= y
                    /\ \E x \in R : \A y \in R : y <= x}
<1>1. 0 \in P
  <2>1. 1 .. 0 = {}
      OBVIOUS
  <2> QED  BY <2>1
<1>2. ASSUME NEW m \in Nat, m \in P PROVE m + 1 \in P
  <2> SUFFICES ASSUME NEW R \in SUBSET (1 .. m + 1), R # {}
               PROVE  /\ \E x \in R : \A y \in R : x <= y
                      /\ \E x \in R : \A y \in R : y <= x
      OBVIOUS
  <2> DEFINE Q == R \ {m + 1}
  <2>1. Q \in SUBSET (1 .. m)
      OBVIOUS
  <2>2. CASE Q = {}
    <3>1. R = {m + 1}
        BY <2>2
    <3> QED  BY <3>1
  <2>3. CASE Q # {}
    <3>1. PICK a \in Q : \A y \in Q : a <= y
        BY <1>2, <2>1, <2>3
    <3>2. PICK z \in Q : \A y \in Q : y <= z
        BY <1>2, <2>1, <2>3
    <3>3. a \in R /\ \A y \in R : a <= y
        BY <2>1, <3>1
    <3>4. \E x \in R : \A y \in R : y <= x
      <4>1. CASE m + 1 \in R
          BY <4>1
      <4>2. CASE m + 1 \notin R
          BY <3>2, <4>2
      <4> QED  BY <4>1, <4>2
    <3> QED  BY <3>3, <3>4
  <2> QED  BY <2>2, <2>3
<1> HIDE DEF P
<1>3. n \in P
    BY <1>1, <1>2, CountingUp
<1>4. /\ \E x \in S : \A y \in S : x <= y
      /\ \E x \in S : \A y \in S : y <= x
    BY <1>3 DEF P
<1>5. Min(S) \in S
    BY <1>4 DEF Min
<1>6. Max(S) \in S
  <2>1. \A x, y \in S : x >= y <=> y <= x
      OBVIOUS
  <2> QED  BY <1>4, <2>1 DEF Max
<1> QED  BY <1>5, <1>6

\* The sequences over a set are built from the empty one by appending.
LEMMA Appending ==
    ASSUME NEW T, NEW P, <<>> \in P,
           \A s \in Seq(T), x \in T : s \in P => Append(s, x) \in P
    PROVE  Seq(T) \subseteq P
<1> DEFINE Q == {n \in Nat : \A s \in Seq(T) : Len(s) = n => s \in P}
<1>1. 0 \in Q
    BY EmptySeq
<1>2. ASSUME NEW n \in Nat, n \in Q PROVE n + 1 \in Q
  <2> SUFFICES ASSUME NEW s \in Seq(T), Len(s) = n + 1 PROVE s \in P
      OBVIOUS
  <2>1. PICK r \in Seq(T), x \in T : s = Append(r, x)
      BY EmptySeq, SequenceEmptyOrAppend
  <2>2. Len(r) = n
      BY <2>1, AppendProperties, LenProperties
  <2> QED  BY <1>2, <2>1, <2>2
<1> HIDE DEF Q
<1>3. Nat \subseteq Q
    BY <1>1, <1>2, CountingUp
<1> QED  BY <1>3, LenProperties DEF Q

-----------------------------------------------------------------------------
(* The frames of one session in the queue of all *)

\* The recursive function of Part.
IsPart(frames, S, f) ==
    f = [i \in 0 .. Len(frames) |->
            IF i = 0 THEN <<>>
            ELSE IF frames[i].session \in S THEN Append(f[i - 1], frames[i])
            ELSE f[i - 1]]

\* That function exists, and its values are queues of frames.
LEMMA PartExists ==
    ASSUME NEW F, NEW S, NEW frames \in Seq(F)
    PROVE  \E f \in [0 .. Len(frames) -> Seq(F)] : IsPart(frames, S, f)
<1> DEFINE P == {q \in Seq(F) : \E f \in [0 .. Len(q) -> Seq(F)] : IsPart(q, S, f)}
<1>1. <<>> \in P
  <2> DEFINE f == [i \in 0 .. 0 |-> <<>>]
  <2>1. Len(<<>>) = 0 /\ <<>> \in Seq(F)
      BY EmptySeq
  <2>2. f \in [0 .. 0 -> Seq(F)]
      BY <2>1
  <2>3. IsPart(<<>>, S, f)
      BY <2>1 DEF IsPart
  <2> QED  BY <2>1, <2>2, <2>3
<1>2. ASSUME NEW q \in Seq(F), NEW x \in F, q \in P PROVE Append(q, x) \in P
  <2> DEFINE r == Append(q, x)
             n == Len(q)
             last(t) == IF x.session \in S THEN Append(t, x) ELSE t
  <2>1. /\ r \in Seq(F) /\ Len(r) = n + 1 /\ n \in Nat
        /\ \A i \in 1 .. n : r[i] = q[i]
        /\ r[n + 1] = x
      BY AppendProperties, LenProperties
  <2>2. PICK f \in [0 .. n -> Seq(F)] : IsPart(q, S, f)
      BY <1>2
  <2> HIDE DEF r, n
  <2> DEFINE g == [i \in 0 .. n + 1 |-> IF i <= n THEN f[i] ELSE last(f[n])]
  <2>3. f[n] \in Seq(F)
      BY <2>1
  <2>4. last(f[n]) \in Seq(F)
      BY <2>3, AppendProperties
  <2> HIDE DEF last
  <2>5. g \in [0 .. n + 1 -> Seq(F)]
      BY <2>1, <2>4
  <2>6. ASSUME NEW i \in 0 .. n + 1
        PROVE  g[i] = IF i = 0 THEN <<>>
                      ELSE IF r[i].session \in S THEN Append(g[i - 1], r[i])
                      ELSE g[i - 1]
    <3>1. CASE i <= n
      <4>1. i \in 0 .. n /\ g[i] = f[i] /\ (i # 0 => g[i - 1] = f[i - 1] /\ r[i] = q[i])
          BY <2>1, <3>1
      <4>2. f[i] = IF i = 0 THEN <<>>
                   ELSE IF q[i].session \in S THEN Append(f[i - 1], q[i]) ELSE f[i - 1]
          BY <2>2, <4>1 DEF IsPart, n
      <4> HIDE DEF g
      <4> QED  BY <4>1, <4>2
    <3>2. CASE i = n + 1
      <4>1. i # 0 /\ g[i] = last(f[n]) /\ g[i - 1] = f[n] /\ r[i] = x
          BY <2>1, <3>2
      <4> HIDE DEF g
      <4> QED  BY <4>1 DEF last
    <3> QED  BY <2>1, <3>1, <3>2
  <2>7. IsPart(r, S, g)
      BY <2>1, <2>6 DEF IsPart
  <2> QED  BY <2>1, <2>5, <2>7 DEF r
<1> HIDE DEF P
<1>3. frames \in P
    BY <1>1, <1>2, Appending
<1> QED  BY <1>3 DEF P

\* It depends on no later frame.
LEMMA PartIsLocal ==
    ASSUME NEW F, NEW S, NEW q \in Seq(F), NEW r \in Seq(F), NEW f, NEW g,
           Len(q) <= Len(r), \A i \in 1 .. Len(q) : r[i] = q[i],
           IsPart(q, S, f), IsPart(r, S, g)
    PROVE  f[Len(q)] = g[Len(q)]
<1> DEFINE P == {n \in Nat : n <= Len(q) => f[n] = g[n]}
<1>1. Len(q) \in Nat /\ Len(r) \in Nat
    BY LenProperties
<1>2. /\ \A i \in 0 .. Len(q) : f[i] = IF i = 0 THEN <<>>
             ELSE IF q[i].session \in S THEN Append(f[i - 1], q[i]) ELSE f[i - 1]
      /\ \A i \in 0 .. Len(r) : g[i] = IF i = 0 THEN <<>>
             ELSE IF r[i].session \in S THEN Append(g[i - 1], r[i]) ELSE g[i - 1]
    BY DEF IsPart
<1>3. 0 \in P
    BY <1>1, <1>2
<1>4. ASSUME NEW n \in Nat, n \in P PROVE n + 1 \in P
  <2> SUFFICES ASSUME n + 1 <= Len(q) PROVE f[n + 1] = g[n + 1]
      OBVIOUS
  <2>1. f[n] = g[n] /\ q[n + 1] = r[n + 1] /\ (n + 1) - 1 = n /\ n + 1 # 0
      BY <1>1, <1>4
  <2>2. n + 1 \in 0 .. Len(q) /\ n + 1 \in 0 .. Len(r)
      BY <1>1
  <2> QED  BY <1>2, <2>1, <2>2
<1> HIDE DEF P
<1>5. Len(q) \in P
    BY <1>1, <1>3, <1>4, CountingUp
<1> QED  BY <1>5 DEF P

\* What Part returns for a queue and for one with a frame more.
LEMMA PartStep ==
    ASSUME NEW F, NEW S, NEW frames \in Seq(F)
    PROVE  /\ Part(frames, S) \in Seq(F)
           /\ Part(<<>>, S) = <<>>
           /\ \A x \in F : Part(Append(frames, x), S) =
                  IF x.session \in S THEN Append(Part(frames, S), x)
                  ELSE Part(frames, S)
<1>1. \A q : Part(q, S) = (CHOOSE f : IsPart(q, S, f))[Len(q)]
    BY DEF Part, IsPart
<1>2. ASSUME NEW q \in Seq(F)
      PROVE  \E f \in [0 .. Len(q) -> Seq(F)] : IsPart(q, S, f) /\ Part(q, S) = f[Len(q)]
  <2>1. PICK f \in [0 .. Len(q) -> Seq(F)] : IsPart(q, S, f)
      BY PartExists
  <2>2. IsPart(q, S, CHOOSE g : IsPart(q, S, g))
      BY <2>1
  <2>3. (CHOOSE g : IsPart(q, S, g))[Len(q)] = f[Len(q)]
      BY <2>1, <2>2, LenProperties, PartIsLocal
  <2> QED  BY <1>1, <2>1, <2>3
<1>3. Len(frames) \in Nat
    BY LenProperties
<1>4. PICK f \in [0 .. Len(frames) -> Seq(F)] :
          IsPart(frames, S, f) /\ Part(frames, S) = f[Len(frames)]
    BY <1>2
<1>5. Part(frames, S) \in Seq(F)
    BY <1>3, <1>4
<1>6. Part(<<>>, S) = <<>>
  <2>1. Len(<<>>) = 0 /\ <<>> \in Seq(F)
      BY EmptySeq
  <2>2. PICK g \in [0 .. 0 -> Seq(F)] : IsPart(<<>>, S, g) /\ Part(<<>>, S) = g[0]
      BY <1>2, <2>1
  <2> QED  BY <2>1, <2>2 DEF IsPart
<1>7. ASSUME NEW x \in F
      PROVE  Part(Append(frames, x), S) =
                  IF x.session \in S THEN Append(Part(frames, S), x)
                  ELSE Part(frames, S)
  <2> DEFINE r == Append(frames, x)
  <2>1. r \in Seq(F) /\ Len(r) = Len(frames) + 1 /\ r[Len(frames) + 1] = x
        /\ \A i \in 1 .. Len(frames) : r[i] = frames[i]
      BY AppendProperties
  <2> HIDE DEF r
  <2>2. PICK g \in [0 .. Len(r) -> Seq(F)] : IsPart(r, S, g) /\ Part(r, S) = g[Len(r)]
      BY <1>2, <2>1
  <2>3. g[Len(frames)] = Part(frames, S)
      BY <1>3, <1>4, <2>1, <2>2, PartIsLocal
  <2>4. g[Len(r)] = IF r[Len(r)].session \in S THEN Append(g[Len(r) - 1], r[Len(r)])
                    ELSE g[Len(r) - 1]
    <3>1. Len(r) \in 0 .. Len(r) /\ Len(r) # 0
        BY <1>3, <2>1
    <3> QED  BY <2>2, <3>1 DEF IsPart
  <2>5. Len(r) - 1 = Len(frames)
      BY <1>3, <2>1
  <2>6. Part(r, S) = IF x.session \in S THEN Append(Part(frames, S), x)
                          ELSE Part(frames, S)
      BY <2>1, <2>2, <2>3, <2>4, <2>5
  <2> QED  BY <2>6 DEF r
<1> QED  BY <1>5, <1>6, <1>7

\* The part of a queue with a frame more.
LEMMA PartAppend ==
    ASSUME NEW F, NEW S, NEW frames \in Seq(F), NEW x \in F
    PROVE  Part(Append(frames, x), S) =
               IF x.session \in S THEN Append(Part(frames, S), x) ELSE Part(frames, S)
BY PartStep

\* The part of a part.
LEMMA PartOfPart ==
    ASSUME NEW F, NEW S, NEW R, NEW frames \in Seq(F)
    PROVE  Part(Part(frames, S), R) = Part(frames, S \cap R)
<1> DEFINE P == {q \in Seq(F) : Part(Part(q, S), R) = Part(q, S \cap R)}
<1>1. ASSUME NEW A PROVE <<>> \in Seq(F) /\ Part(<<>>, A) = <<>>
    BY EmptySeq, PartStep
<1>2. <<>> \in P
    BY <1>1
<1>3. ASSUME NEW q \in Seq(F), NEW x \in F, q \in P PROVE Append(q, x) \in P
  <2>1. /\ Append(q, x) \in Seq(F) /\ Part(q, S) \in Seq(F)
        /\ Part(Append(q, x), S) = IF x.session \in S THEN Append(Part(q, S), x) ELSE Part(q, S)
      BY AppendProperties, PartStep
  <2>2. Part(Append(Part(q, S), x), R) =
            IF x.session \in R THEN Append(Part(Part(q, S), R), x) ELSE Part(Part(q, S), R)
      BY <2>1, PartStep
  <2>3. Part(Append(q, x), S \cap R) =
            IF x.session \in S \cap R THEN Append(Part(q, S \cap R), x) ELSE Part(q, S \cap R)
      BY PartStep
  <2>4. Part(Part(q, S), R) = Part(q, S \cap R)
      BY <1>3
  <2>5. Part(Part(Append(q, x), S), R) = Part(Append(q, x), S \cap R)
    <3>1. CASE x.session \in S
      <4>1. Part(Append(q, x), S) = Append(Part(q, S), x)
          BY <2>1, <3>1
      <4>2. x.session \in S \cap R <=> x.session \in R
          BY <3>1
      <4> QED  BY <2>2, <2>3, <2>4, <4>1, <4>2
    <3>2. CASE x.session \notin S
        BY <2>1, <2>3, <2>4, <3>2
    <3> QED  BY <3>1, <3>2
  <2> QED  BY <2>1, <2>5
<1> HIDE DEF P
<1>4. frames \in P
    BY <1>2, <1>3, Appending
<1> QED  BY <1>4 DEF P

\* The part of sessions that have no frame in the queue.
LEMMA PartOfNone ==
    ASSUME NEW F, NEW S, NEW frames \in Seq(F),
           \A i \in DOMAIN frames : frames[i].session \notin S
    PROVE  Part(frames, S) = <<>>
<1> DEFINE P == {q \in Seq(F) : (\A i \in DOMAIN q : q[i].session \notin S) => Part(q, S) = <<>>}
<1>1. <<>> \in P
    BY EmptySeq, PartStep
<1>2. ASSUME NEW q \in Seq(F), NEW x \in F, q \in P PROVE Append(q, x) \in P
  <2>1. /\ Append(q, x) \in Seq(F)
        /\ DOMAIN Append(q, x) = 1 .. Len(q) + 1 /\ DOMAIN q = 1 .. Len(q) /\ Len(q) \in Nat
        /\ \A i \in 1 .. Len(q) : Append(q, x)[i] = q[i]
        /\ Append(q, x)[Len(q) + 1] = x
      BY AppendProperties, LenProperties
  <2>2. Part(Append(q, x), S) = IF x.session \in S THEN Append(Part(q, S), x) ELSE Part(q, S)
      BY PartStep
  <2>3. ASSUME \A i \in DOMAIN Append(q, x) : Append(q, x)[i].session \notin S
        PROVE  Part(Append(q, x), S) = <<>>
    <3>1. x.session \notin S /\ \A i \in DOMAIN q : q[i].session \notin S
        BY <2>1, <2>3
    <3> QED  BY <1>2, <2>2, <3>1
  <2> QED  BY <2>1, <2>3
<1> HIDE DEF P
<1>3. frames \in P
    BY <1>1, <1>2, Appending
<1> QED  BY <1>3 DEF P

\* A part has the frames of its sessions and no others.
LEMMA PartElements ==
    ASSUME NEW F, NEW S, NEW frames \in Seq(F)
    PROVE  /\ \A i \in DOMAIN Part(frames, S) :
                  \E k \in DOMAIN frames : Part(frames, S)[i] = frames[k]
           /\ \A k \in DOMAIN frames : frames[k].session \in S =>
                  \E i \in DOMAIN Part(frames, S) : Part(frames, S)[i] = frames[k]
<1> DEFINE P == {q \in Seq(F) :
                   /\ \A i \in DOMAIN Part(q, S) : \E k \in DOMAIN q : Part(q, S)[i] = q[k]
                   /\ \A k \in DOMAIN q : q[k].session \in S =>
                          \E i \in DOMAIN Part(q, S) : Part(q, S)[i] = q[k]}
<1>1. <<>> \in P
    BY EmptySeq, PartStep
<1>2. ASSUME NEW q \in Seq(F), NEW x \in F, q \in P PROVE Append(q, x) \in P
  <2> DEFINE r == Append(q, x)
             p == Part(q, S)
             u == Part(r, S)
  <2>1. /\ r \in Seq(F) /\ DOMAIN r = 1 .. Len(q) + 1 /\ DOMAIN q = 1 .. Len(q) /\ Len(q) \in Nat
        /\ \A i \in 1 .. Len(q) : r[i] = q[i]
        /\ r[Len(q) + 1] = x
      BY AppendProperties, LenProperties
  <2>2. p \in Seq(F) /\ u = IF x.session \in S THEN Append(p, x) ELSE p
      BY PartStep
  <2>3. /\ \A i \in DOMAIN p : \E k \in DOMAIN q : p[i] = q[k]
        /\ \A k \in DOMAIN q : q[k].session \in S => \E i \in DOMAIN p : p[i] = q[k]
      BY <1>2
  <2> HIDE DEF p, r, u
  <2>4. /\ DOMAIN Append(p, x) = 1 .. Len(p) + 1 /\ DOMAIN p = 1 .. Len(p) /\ Len(p) \in Nat
        /\ \A i \in 1 .. Len(p) : Append(p, x)[i] = p[i]
        /\ Append(p, x)[Len(p) + 1] = x
      BY <2>2, AppendProperties, LenProperties
  <2>5. \A i \in DOMAIN p : i \in DOMAIN u /\ u[i] = p[i]
      BY <2>2, <2>4
  <2>6. ASSUME NEW i \in DOMAIN u PROVE \E k \in DOMAIN r : u[i] = r[k]
    <3>1. CASE i \in DOMAIN p
      <4>1. PICK k \in DOMAIN q : p[i] = q[k]
          BY <2>3, <3>1
      <4> QED  BY <2>1, <2>5, <3>1, <4>1
    <3>2. CASE i \notin DOMAIN p
      <4>1. u = Append(p, x)
          BY <2>2, <2>6, <3>2
      <4>2. i = Len(p) + 1
          BY <2>4, <2>6, <3>2, <4>1
      <4>3. u[i] = r[Len(q) + 1] /\ Len(q) + 1 \in DOMAIN r
          BY <2>1, <2>4, <4>1, <4>2
      <4> QED  BY <4>3
    <3> QED  BY <3>1, <3>2
  <2>7. ASSUME NEW k \in DOMAIN r, r[k].session \in S PROVE \E i \in DOMAIN u : u[i] = r[k]
    <3>1. CASE k \in DOMAIN q
      <4>1. PICK i \in DOMAIN p : p[i] = q[k]
          BY <2>1, <2>3, <2>7, <3>1
      <4> QED  BY <2>1, <2>5, <3>1, <4>1
    <3>2. CASE k = Len(q) + 1
      <4>1. u = Append(p, x)
          BY <2>1, <2>2, <2>7, <3>2
      <4>2. Len(p) + 1 \in DOMAIN u /\ u[Len(p) + 1] = r[k]
          BY <2>1, <2>4, <3>2, <4>1
      <4> QED  BY <4>2
    <3> QED  BY <2>1, <3>1, <3>2
  <2> QED  BY <2>1, <2>6, <2>7 DEF r, u
<1> HIDE DEF P
<1>3. frames \in P
    BY <1>1, <1>2, Appending
<1> QED  BY <1>3 DEF P

-----------------------------------------------------------------------------
(* The event stream *)

Frame == [session : Sessions, kind : {"question", "other", "lagged"}, n : Nat]

\* Every frame is of a session that has been counted.
Buckets(b) ==
    /\ b \in [frames : Seq(Frame), sessions : SUBSET Sessions]
    /\ \A i \in DOMAIN b.frames : b.frames[i].session \in b.sessions

\* A queue begins every queue it has grown to.
LEMMA GrownQueue ==
    ASSUME NEW F, NEW s \in Seq(F)
    PROVE  IsPrefix(s, s) /\ \A x \in F : IsPrefix(s, Append(s, x))
<1>1. Len(s) \in Nat
    BY LenProperties
<1>2. ASSUME NEW x \in F PROVE IsPrefix(s, Append(s, x))
  <2>1. /\ Append(s, x) \in Seq(F) /\ Len(Append(s, x)) = Len(s) + 1
        /\ \A i \in 1 .. Len(s) : Append(s, x)[i] = s[i]
      BY AppendProperties
  <2> DEFINE r == Append(s, x)
  <2> HIDE DEF r
  <2>2. (\A i \in 1 .. Len(s) : s[i] \in F) /\ \A i \in 1 .. Len(s) : r[i] \in F
      BY <2>1, LenProperties DEF r
  <2>3. SubSeq(s, 1, Len(s)) = SubSeq(r, 1, Len(s))
    <3> DEFINE p == SubSeq(s, 1, Len(s))
               q == SubSeq(r, 1, Len(s))
    <3>1. /\ p \in Seq(F) /\ Len(p) = Len(s) /\ \A i \in 1 .. Len(s) : p[i] = s[i]
        BY <1>1, <2>2, SubSeqProperties
    <3>2. /\ q \in Seq(F) /\ Len(q) = Len(s) /\ \A i \in 1 .. Len(s) : q[i] = r[i]
        BY <1>1, <2>2, SubSeqProperties
    <3>3. \A i \in 1 .. Len(s) : r[i] = s[i]
        BY <2>1 DEF r
    <3> HIDE DEF p, q
    <3>4. p = q
        BY <3>1, <3>2, <3>3, SeqEqual
    <3> QED  BY <3>4 DEF p, q
  <2>4. Len(s) <= Len(r)
      BY <1>1, <2>1 DEF r
  <2> QED  BY <2>3, <2>4 DEF IsPrefix, r
<1>3. IsPrefix(s, s)
    BY <1>1 DEF IsPrefix
<1> QED  BY <1>2, <1>3

\* What a frame of session s does to the queue where s has filled its share: the
\* frames of s make room for the marker, the others stay.
LEMMA DropStep ==
    ASSUME NEW b, Buckets(b), NEW s \in Sessions
    PROVE  LET kept == DropBucket(b, s)
               frames == Append(kept, LaggedMarker(s, Len(OwnFrames(b, s)) + 1))
           IN /\ kept \in Seq(Frame)
              /\ LaggedMarker(s, Len(OwnFrames(b, s)) + 1) \in Frame
              /\ \A i \in DOMAIN kept : \E k \in DOMAIN b.frames : kept[i] = b.frames[k]
              /\ \A k \in DOMAIN b.frames : b.frames[k].session # s =>
                     \E i \in DOMAIN kept : kept[i] = b.frames[k]
              /\ Part(frames, {s}) = << LaggedMarker(s, Len(OwnFrames(b, s)) + 1) >>
              /\ \A t \in Sessions \ {s} : Part(frames, {t}) = OwnFrames(b, t)
<1> DEFINE kept == DropBucket(b, s)
           marker == LaggedMarker(s, Len(OwnFrames(b, s)) + 1)
           rest == b.sessions \ {s}
<1>1. b.frames \in Seq(Frame) /\ \A k \in DOMAIN b.frames : b.frames[k].session \in b.sessions
    BY DEF Buckets
<1>2. marker \in Frame /\ marker.session = s
  <2>1. OwnFrames(b, s) \in Seq(Frame)
      BY <1>1, PartStep DEF OwnFrames
  <2>2. Len(OwnFrames(b, s)) + 1 \in Nat
      BY <2>1, LenProperties
  <2> QED  BY <2>2 DEF Frame, LaggedMarker
<1>3. kept = Part(b.frames, rest) /\ kept \in Seq(Frame)
    BY <1>1, PartStep DEF DropBucket
<1>4. /\ \A i \in DOMAIN kept : \E k \in DOMAIN b.frames : kept[i] = b.frames[k]
      /\ \A k \in DOMAIN b.frames : b.frames[k].session \in rest =>
             \E i \in DOMAIN kept : kept[i] = b.frames[k]
  <2> DEFINE q == b.frames
  <2>1. q \in Seq(Frame) /\ kept = Part(q, rest)
      BY <1>1, <1>3
  <2> HIDE DEF q, kept, rest
  <2>2. /\ \A i \in DOMAIN Part(q, rest) : \E k \in DOMAIN q : Part(q, rest)[i] = q[k]
        /\ \A k \in DOMAIN q : q[k].session \in rest =>
               \E i \in DOMAIN Part(q, rest) : Part(q, rest)[i] = q[k]
      BY <2>1, PartElements
  <2> QED  BY <2>1, <2>2 DEF q
<1>5. \A t : Part(kept, {t}) = Part(b.frames, rest \cap {t})
    BY <1>1, <1>3, PartOfPart
<1>6. Part(kept, {s}) = <<>>
  <2>1. rest \cap {s} = {} /\ \A i \in DOMAIN b.frames : b.frames[i].session \notin {}
      OBVIOUS
  <2>2. Part(b.frames, {}) = <<>>
      BY <1>1, PartOfNone
  <2> QED  BY <1>5, <2>1, <2>2
<1>7. ASSUME NEW t \in Sessions \ {s} PROVE Part(kept, {t}) = OwnFrames(b, t)
  <2>1. CASE t \in b.sessions
    <3>1. rest \cap {t} = {t}
        BY <1>7, <2>1
    <3> QED  BY <1>5, <3>1 DEF OwnFrames
  <2>2. CASE t \notin b.sessions
    <3>1. rest \cap {t} = {} /\ \A i \in DOMAIN b.frames : b.frames[i].session \notin {}
        BY <2>2
    <3>2. \A i \in DOMAIN b.frames : b.frames[i].session \notin {t}
        BY <1>1, <2>2
    <3>3. Part(b.frames, {}) = <<>> /\ Part(b.frames, {t}) = <<>>
        BY <1>1, <3>1, <3>2, PartOfNone
    <3> QED  BY <1>5, <3>1, <3>3 DEF OwnFrames
  <2> QED  BY <2>1, <2>2
<1> HIDE DEF kept, marker, rest
<1>8. ASSUME NEW t
      PROVE  Part(Append(kept, marker), {t}) =
             IF marker.session \in {t} THEN Append(Part(kept, {t}), marker) ELSE Part(kept, {t})
  <2> DEFINE S == {t}
  <2> HIDE DEF S
  <2>1. kept \in Seq(Frame) /\ marker \in Frame
      BY <1>2, <1>3
  <2>2. Part(Append(kept, marker), S) =
            IF marker.session \in S THEN Append(Part(kept, S), marker) ELSE Part(kept, S)
      BY <2>1, PartAppend
  <2> QED  BY <2>2 DEF S
<1>9. Part(Append(kept, marker), {s}) = << marker >>
  <2>1. Append(<<>>, marker) = << marker >>
      OBVIOUS
  <2> QED  BY <1>2, <1>6, <1>8, <2>1
<1>10. \A t \in Sessions \ {s} : Part(Append(kept, marker), {t}) = OwnFrames(b, t)
    BY <1>2, <1>7, <1>8
<1>11. \A k \in DOMAIN b.frames : b.frames[k].session # s => b.frames[k].session \in rest
    BY <1>1 DEF rest
<1> QED  BY <1>2, <1>3, <1>4, <1>9, <1>10, <1>11 DEF kept, marker

\* A frame either follows those of its session or takes their place with a marker;
\* the other sessions keep theirs.
LEMMA PushStep ==
    ASSUME NEW b, Buckets(b), NEW frame \in Frame
    PROVE  LET s == frame.session
               p == Push(b, frame)
           IN /\ Buckets(p)
              /\ \A i \in DOMAIN p.frames : \/ p.frames[i] = frame
                                            \/ p.frames[i].kind = "lagged"
                                            \/ \E k \in DOMAIN b.frames : p.frames[i] = b.frames[k]
              /\ \A k \in DOMAIN b.frames : b.frames[k].session # s \/ ~Overflows(b, s) =>
                     \E i \in DOMAIN p.frames : p.frames[i] = b.frames[k]
              /\ ~Overflows(b, s) => \E i \in DOMAIN p.frames : p.frames[i] = frame
              /\ \/ OwnFrames(p, s) = Append(OwnFrames(b, s), frame)
                 \/ OwnFrames(p, s) = << LaggedMarker(s, Len(OwnFrames(b, s)) + 1) >>
              /\ \A t \in Sessions \ {s} : OwnFrames(p, t) = OwnFrames(b, t)
<1> DEFINE s == frame.session
           p == Push(b, frame)
           kept == DropBucket(b, s)
           marker == LaggedMarker(s, Len(OwnFrames(b, s)) + 1)
<1>1. /\ b.frames \in Seq(Frame) /\ b.sessions \in SUBSET Sessions /\ s \in Sessions
      /\ \A k \in DOMAIN b.frames : b.frames[k].session \in b.sessions
    BY DEF Buckets, Frame
<1>2. /\ kept \in Seq(Frame) /\ marker \in Frame
      /\ \A i \in DOMAIN kept : \E k \in DOMAIN b.frames : kept[i] = b.frames[k]
      /\ \A k \in DOMAIN b.frames : b.frames[k].session # s =>
             \E i \in DOMAIN kept : kept[i] = b.frames[k]
      /\ Part(Append(kept, marker), {s}) = << marker >>
      /\ \A t \in Sessions \ {s} : Part(Append(kept, marker), {t}) = OwnFrames(b, t)
    BY <1>1, DropStep
<1>3. /\ p.frames = IF Overflows(b, s) THEN Append(kept, marker) ELSE Append(b.frames, frame)
      /\ p.sessions = b.sessions \cup {s}
      /\ p = [frames |-> p.frames, sessions |-> p.sessions]
    BY DEF Push
<1>4. marker.session = s /\ marker.kind = "lagged"
    BY DEF LaggedMarker
<1>5. ASSUME NEW q \in Seq(Frame), NEW x \in Frame
      PROVE  /\ Append(q, x) \in Seq(Frame)
             /\ DOMAIN Append(q, x) = 1 .. Len(q) + 1 /\ DOMAIN q = 1 .. Len(q) /\ Len(q) \in Nat
             /\ \A i \in 1 .. Len(q) : Append(q, x)[i] = q[i]
             /\ Append(q, x)[Len(q) + 1] = x
    BY AppendProperties, LenProperties
<1>6. ASSUME NEW q \in Seq(Frame), NEW x \in Frame
      PROVE  /\ \A i \in DOMAIN q : i \in DOMAIN Append(q, x) /\ Append(q, x)[i] = q[i]
             /\ \E i \in DOMAIN Append(q, x) : Append(q, x)[i] = x
             /\ \A i \in DOMAIN Append(q, x) : Append(q, x)[i] = x \/ \E k \in DOMAIN q : Append(q, x)[i] = q[k]
  <2> DEFINE r == Append(q, x)
  <2>1. /\ DOMAIN r = 1 .. Len(q) + 1 /\ DOMAIN q = 1 .. Len(q) /\ Len(q) \in Nat
        /\ \A i \in 1 .. Len(q) : r[i] = q[i]
        /\ r[Len(q) + 1] = x
      BY <1>5
  <2> HIDE DEF r
  <2>2. \A i \in DOMAIN q : i \in DOMAIN r /\ r[i] = q[i]
      BY <2>1
  <2>3. \E i \in DOMAIN r : r[i] = x
      BY <2>1
  <2>4. \A i \in DOMAIN r : r[i] = x \/ \E k \in DOMAIN q : r[i] = q[k]
      BY <2>1
  <2> QED  BY <2>2, <2>3, <2>4 DEF r
<1> HIDE DEF s, p, kept, marker
<1>7. CASE Overflows(b, s)
  <2>1. p.frames = Append(kept, marker)
      BY <1>3, <1>7
  <2>2. p.frames \in Seq(Frame)
      BY <1>2, <1>5, <2>1
  <2>3. ASSUME NEW i \in DOMAIN p.frames
        PROVE  p.frames[i] = marker \/ \E k \in DOMAIN b.frames : p.frames[i] = b.frames[k]
    <3>1. p.frames[i] = marker \/ \E k \in DOMAIN kept : p.frames[i] = kept[k]
        BY <1>2, <1>6, <2>1
    <3> QED  BY <1>2, <3>1
  <2>4. \A i \in DOMAIN p.frames : p.frames[i].session \in p.sessions
      BY <1>1, <1>3, <1>4, <2>3
  <2>5. Buckets(p)
      BY <1>1, <1>3, <2>2, <2>4 DEF Buckets
  <2>6. \A k \in DOMAIN b.frames : b.frames[k].session # s => \E i \in DOMAIN p.frames : p.frames[i] = b.frames[k]
      BY <1>2, <1>6, <2>1
  <2>7. OwnFrames(p, s) = << marker >> /\ \A t \in Sessions \ {s} : OwnFrames(p, t) = OwnFrames(b, t)
      BY <1>2, <2>1 DEF OwnFrames
  <2> QED  BY <1>4, <1>7, <2>3, <2>5, <2>6, <2>7 DEF s, p, marker
<1>8. CASE ~Overflows(b, s)
  <2>1. p.frames = Append(b.frames, frame)
      BY <1>3, <1>8
  <2>2. p.frames \in Seq(Frame)
      BY <1>1, <1>5, <2>1
  <2>3. \A i \in DOMAIN p.frames : p.frames[i] = frame \/ \E k \in DOMAIN b.frames : p.frames[i] = b.frames[k]
      BY <1>1, <1>6, <2>1
  <2>4. \A i \in DOMAIN p.frames : p.frames[i].session \in p.sessions
      BY <1>1, <1>3, <2>3 DEF s
  <2>5. Buckets(p)
      BY <1>1, <1>3, <2>2, <2>4 DEF Buckets
  <2>6. /\ \A k \in DOMAIN b.frames : \E i \in DOMAIN p.frames : p.frames[i] = b.frames[k]
        /\ \E i \in DOMAIN p.frames : p.frames[i] = frame
      BY <1>1, <1>6, <2>1
  <2>7. ASSUME NEW t
        PROVE  OwnFrames(p, t) = IF s = t THEN Append(OwnFrames(b, t), frame) ELSE OwnFrames(b, t)
    <3>1. Part(Append(b.frames, frame), {t}) =
              IF frame.session \in {t} THEN Append(Part(b.frames, {t}), frame) ELSE Part(b.frames, {t})
      <4> DEFINE S == {t}
                 q == b.frames
      <4>1. q \in Seq(Frame)
          BY <1>1
      <4> HIDE DEF S, q
      <4>2. Part(Append(q, frame), S) =
                IF frame.session \in S THEN Append(Part(q, S), frame) ELSE Part(q, S)
          BY <4>1, PartAppend
      <4> QED  BY <4>2 DEF S, q
    <3> QED  BY <2>1, <3>1 DEF OwnFrames, s
  <2> QED  BY <1>8, <2>3, <2>5, <2>6, <2>7 DEF s, p
<1> QED  BY <1>7, <1>8

-----------------------------------------------------------------------------
(* The inductive invariant *)

Asked == [session : Sessions, id : Ids, state : {"parked", "answered", "timed_out", "lost"},
          by : 0 .. MaxAsks]
LogRow == [kind : {"asked", "answered", "timed_out"}, id : Ids, ask : Asks]
Post == [id : Ids, ask : Asks, stage : {"sent", "ok", "refused", "failed"}, live : BOOLEAN]
CardStates == {"none", "pending", "done", "expired", "closed"}

\* Question k is one of the session of the pane, and has the id i.
Mine(k) == k \in DOMAIN asks /\ asks[k].session = Shown
Shows(k, i) == Mine(k) /\ asks[k].id = i

\* The ids of the questions that wait are those the counter of this process gave.
AsksInv ==
    /\ asks \in Seq(Asked) /\ Len(asks) <= MaxAsks
    /\ counter \in Nat /\ counter <= Len(asks)
    /\ \A k \in DOMAIN asks : Parked(k) => asks[k].id <= counter
    /\ \A j, k \in DOMAIN asks : Parked(j) /\ Parked(k) /\ asks[j].id = asks[k].id => j = k
    /\ \A k \in DOMAIN asks : asks[k].state = "answered" => Mine(k) /\ Mine(asks[k].by)

RowsTrue(rows) ==
    /\ rows \in Seq(LogRow)
    /\ \A n \in DOMAIN rows :
         /\ Shows(rows[n].ask, rows[n].id)
         /\ rows[n].kind = "answered" => asks[rows[n].ask].state = "answered"

StreamInv ==
    /\ Buckets(buckets) /\ online \in BOOLEAN
    /\ \A i \in DOMAIN buckets.frames :
         LET frame == buckets.frames[i]
         IN frame.kind = "question" => frame.n \in DOMAIN asks /\ asks[frame.n].session = frame.session

ListsInv ==
    \A request \in lists :
        /\ request \in [served : BOOLEAN, open : SUBSET Asks]
        /\ \A j \in request.open : Mine(j)
        /\ \A j, k \in request.open : asks[j].id = asks[k].id => j = k

PostTrue(p) ==
    /\ p \in Post /\ Shows(p.ask, p.id)
    /\ p.live => cards[p.id].ask = p.ask /\ cards[p.id].state = "done"
    /\ ~p.live => p.stage = "sent"
    /\ p.stage = "refused" => asks[p.ask].state # "parked"
    /\ p.stage = "ok" /\ OnlyOne(p.ask) => asks[p.ask].state = "answered"
PostsInv ==
    /\ \A p \in posts : PostTrue(p)
    /\ \A p, q \in posts : p.live /\ q.live /\ p.id = q.id => p = q

CardTrue(i) ==
    LET card == cards[i]
    IN /\ card = NoCard \/ (Shows(card.ask, i) /\ card.state # "none")
       /\ card.state = "closed" => asks[card.ask].state # "parked"
       /\ card.state \in {"done", "closed"} => card.settled
       /\ card.state = "done" /\ ~LivePost(i) /\ OnlyOne(card.ask) => asks[card.ask].state = "answered"
CardsInv ==
    /\ cards \in [Ids -> [ask : Nat, state : CardStates, settled : BOOLEAN]]
    /\ \A i \in Ids : CardTrue(i)

QuestionInv ==
    /\ AsksInv /\ RowsTrue(log) /\ RowsTrue(fetched) /\ StreamInv /\ ListsInv
    /\ PostsInv /\ CardsInv /\ PendingHasCard

-----------------------------------------------------------------------------
(* The table of questions *)

\* No question changes its session or its id, and one that has ended stays as it is.
LaterAsks ==
    /\ DOMAIN asks \subseteq DOMAIN asks'
    /\ \A k \in DOMAIN asks :
         /\ asks'[k].session = asks[k].session /\ asks'[k].id = asks[k].id
         /\ asks[k].state # "parked" => asks'[k] = asks[k]

\* What stays true of a question.
LEMMA StaysTrue ==
    ASSUME LaterAsks
    PROVE  /\ \A k : Mine(k) => Mine(k)'
           /\ \A k, i : Shows(k, i) => Shows(k, i)'
           /\ \A k \in DOMAIN asks : OnlyOne(k)' => OnlyOne(k)
           /\ \A k \in DOMAIN asks : asks[k].state # "parked" => asks'[k].state = asks[k].state
           /\ \A k \in DOMAIN asks : Parked(k)' => Parked(k)
BY DEF LaterAsks, Mine, Shows, OnlyOne, Parked

\* The three ways in which the table changes.
Asking(s) ==
    /\ s \in Sessions /\ Len(asks) < MaxAsks
    /\ counter' = counter + 1
    /\ asks' = Append(asks, Question(s, counter + 1))
    /\ log' = IF s = Shown THEN Append(log, Row("asked", counter + 1, Len(asks) + 1)) ELSE log
Settling(k, how, by) ==
    /\ k \in Asks /\ Parked(k) /\ Settle(k, how, by)
    /\ \/ how = "timed_out" /\ by = 0
       \/ how = "answered" /\ Mine(k) /\ Mine(by)
Losing ==
    /\ counter' = 0 /\ UNCHANGED log
    /\ asks' = [k \in DOMAIN asks |->
                  IF Parked(k) THEN [asks[k] EXCEPT !.state = "lost"] ELSE asks[k]]
ServerStep ==
    \/ \E s : Asking(s)
    \/ \E k, how, by : Settling(k, how, by)
    \/ Losing
    \/ UNCHANGED server

\* A step changes the table in one of these ways or not at all.
LEMMA ServerShapes ==
    ASSUME PostsInv, [Next]_vars
    PROVE  ServerStep
<1>1. ASSUME NEW s \in Sessions, AskUser(s) PROVE Asking(s)
    BY <1>1 DEF AskUser, Asking, NextRequestId
<1>2. ASSUME NEW k \in Asks, TimeOut(k) PROVE Settling(k, "timed_out", 0)
    BY <1>2 DEF TimeOut, Settling
<1>3. ASSUME NEW p \in posts, AnswerArrives(p) PROVE ServerStep
  <2>1. CASE UNCHANGED server
      BY <2>1 DEF ServerStep
  <2>2. CASE \E k \in Asks : Accepts(p, k) /\ Settle(k, "answered", p.ask)
    <3>1. PICK k \in Asks : Accepts(p, k) /\ Settle(k, "answered", p.ask)
        BY <2>2
    <3>2. Mine(p.ask)
        BY DEF PostsInv, PostTrue, Shows
    <3>3. Parked(k) /\ Mine(k)
        BY <3>1 DEF Accepts, Parked, Mine
    <3>4. Settling(k, "answered", p.ask)
        BY <3>1, <3>2, <3>3 DEF Settling
    <3> QED  BY <3>4 DEF ServerStep
  <2> QED  BY <1>3, <2>1, <2>2 DEF AnswerArrives
<1>4. ASSUME Restart PROVE Losing
    BY <1>4 DEF Restart, Losing
<1>5. ASSUME \/ Deliver \/ ConnectionLost \/ Reconnect \/ Reload
             \/ OpenSession \/ OpenAgain \/ HistoryArrives \/ HistoryDropped \/ ListIsServed
             \/ \E s \in Sessions : EmitOther(s)
             \/ \E p \in posts : PostFails(p) \/ ReplyArrives(p)
             \/ \E request \in lists : ListArrives(request) \/ ListFails(request)
             \/ \E i \in Ids : CountdownEnds(i) \/ Submit(i)
             \/ UNCHANGED vars
      PROVE  UNCHANGED server
    BY <1>5 DEF Deliver, ConnectionLost, Reconnect, Reload, OpenSession, OpenAgain, HistoryArrives,
         HistoryDropped, ListIsServed, EmitOther, PostFails, ReplyArrives, ListArrives, ListFails,
         CountdownEnds, Submit, vars, server
<1> QED  BY <1>1, <1>2, <1>3, <1>4, <1>5 DEF Next, ServerStep

\* A question joins the table.
LEMMA AskingStep ==
    ASSUME AsksInv, NEW s, Asking(s)
    PROVE  /\ AsksInv' /\ LaterAsks
           /\ Len(asks) + 1 \in DOMAIN asks' /\ asks'[Len(asks) + 1] = Question(s, counter + 1)
           /\ DOMAIN asks' = DOMAIN asks \cup {Len(asks) + 1}
           /\ Len(asks) + 1 \in Asks /\ counter + 1 \in Ids
<1> DEFINE n == Len(asks) + 1
           q == Question(s, counter + 1)
<1>1. /\ asks \in Seq(Asked) /\ Len(asks) \in Nat /\ counter \in Nat /\ counter <= Len(asks)
      /\ MaxAsks \in Nat /\ Len(asks) < MaxAsks
    BY LenProperties, QuestionsAssumption DEF AsksInv, Asking
<1>2. n \in Asks /\ counter + 1 \in Ids /\ 0 \in 0 .. MaxAsks
    BY <1>1 DEF Asks, Ids
<1>3. q \in Asked
    BY <1>2 DEF Asking, Question, Asked
<1>4. /\ asks' \in Seq(Asked) /\ Len(asks') = n
      /\ \A k \in 1 .. Len(asks) : asks'[k] = asks[k]
      /\ asks'[n] = q
    BY <1>1, <1>3, AppendProperties DEF Asking
<1>5. DOMAIN asks = 1 .. Len(asks) /\ DOMAIN asks' = 1 .. n
    BY <1>1, <1>4, LenProperties
<1>6. q.state = "parked" /\ q.id = counter + 1
    BY DEF Question
<1> HIDE DEF q
<1>7. \A k \in DOMAIN asks : k \in DOMAIN asks' /\ asks'[k] = asks[k]
    BY <1>1, <1>4, <1>5
<1>8. DOMAIN asks' = DOMAIN asks \cup {n}
    BY <1>1, <1>5
<1> HIDE DEF n
<1>9. LaterAsks
    BY <1>7 DEF LaterAsks
<1>10. \A k \in DOMAIN asks : Parked(k)' => Parked(k) /\ asks'[k].id <= counter /\ asks[k].id \in Nat
  <2>1. ASSUME NEW k \in DOMAIN asks, Parked(k)' PROVE Parked(k) /\ asks'[k].id <= counter
      BY <1>7, <2>1 DEF Parked, AsksInv
  <2>2. ASSUME NEW k \in DOMAIN asks PROVE asks[k].id \in Nat
    <3>1. asks[k] \in Asked
        BY <1>1, <1>5, ElementOfSeq
    <3> QED  BY <3>1 DEF Asked, Ids
  <2> QED  BY <2>1, <2>2
<1>11. AsksInv'
  <2>1. asks' \in Seq(Asked) /\ Len(asks') <= MaxAsks
      BY <1>1, <1>4 DEF n
  <2>2. counter' \in Nat /\ counter' <= Len(asks')
      BY <1>1, <1>4 DEF n, Asking
  <2>3. ASSUME NEW k \in DOMAIN asks', Parked(k)' PROVE asks'[k].id <= counter'
    <3>1. counter' = counter + 1
        BY DEF Asking
    <3>2. CASE k \in DOMAIN asks
        BY <1>1, <1>7, <1>10, <2>3, <3>1, <3>2
    <3>3. CASE k = n
        BY <1>1, <1>4, <1>6, <3>1, <3>3
    <3> QED  BY <1>8, <3>2, <3>3
  <2>4. ASSUME NEW j \in DOMAIN asks', NEW k \in DOMAIN asks', Parked(j)', Parked(k)',
               asks'[j].id = asks'[k].id
        PROVE  j = k
    <3>1. \A i \in DOMAIN asks : Parked(i)' => asks'[i].id # asks'[n].id
        BY <1>1, <1>4, <1>6, <1>7, <1>10
    <3>2. CASE j \in DOMAIN asks /\ k \in DOMAIN asks
        BY <1>7, <1>10, <2>4, <3>2 DEF AsksInv
    <3> QED  BY <1>8, <2>4, <3>1, <3>2
  <2>5. ASSUME NEW k \in DOMAIN asks', asks'[k].state = "answered" PROVE Mine(k)' /\ Mine(asks[k].by)'
    <3>1. k \in DOMAIN asks /\ asks[k].state = "answered"
        BY <1>4, <1>6, <1>7, <1>8, <2>5
    <3>2. Mine(k) /\ Mine(asks[k].by) /\ asks'[k].by = asks[k].by
        BY <1>7, <3>1 DEF AsksInv
    <3> QED  BY <1>9, <3>2, StaysTrue DEF Mine, LaterAsks
  <2> QED  BY <2>1, <2>2, <2>3, <2>4, <2>5 DEF AsksInv
<1> QED  BY <1>2, <1>4, <1>8, <1>9, <1>11 DEF n, q

\* A question that waits is answered or timed out.
LEMMA SettlingStep ==
    ASSUME AsksInv, NEW k, NEW how, NEW by, Settling(k, how, by)
    PROVE  /\ AsksInv' /\ LaterAsks /\ DOMAIN asks' = DOMAIN asks
           /\ asks'[k].state = how /\ asks'[k].id = asks[k].id
           /\ \A j \in DOMAIN asks : j # k => asks'[j] = asks[j]
<1>1. /\ asks \in Seq(Asked) /\ DOMAIN asks = 1 .. Len(asks) /\ Len(asks) \in Nat
      /\ k \in DOMAIN asks /\ asks[k].state = "parked" /\ UNCHANGED counter
      /\ asks' = [asks EXCEPT ![k] = [asks[k] EXCEPT !.state = how, !.by = by]]
    BY LenProperties DEF AsksInv, Settling, Settle, Parked
<1> DEFINE q == [asks[k] EXCEPT !.state = how, !.by = by]
<1>2. asks[k] \in Asked
    BY <1>1, ElementOfSeq
<1>3. how \in {"answered", "timed_out"} /\ by \in 0 .. MaxAsks
  <2>1. Mine(by) => by \in 1 .. Len(asks)
      BY <1>1 DEF Mine
  <2>2. Len(asks) <= MaxAsks /\ MaxAsks \in Nat
      BY QuestionsAssumption DEF AsksInv
  <2>3. by = 0 \/ Mine(by)
      BY DEF Settling
  <2>4. by \in 0 .. MaxAsks
      BY <1>1, <2>1, <2>2, <2>3
  <2> QED  BY <2>4 DEF Settling
<1>4. q \in Asked /\ q.state = how /\ q.by = by /\ q.id = asks[k].id /\ q.session = asks[k].session
    BY <1>2, <1>3 DEF Asked
<1> HIDE DEF q
<1>5. /\ asks' \in Seq(Asked) /\ Len(asks') = Len(asks) /\ DOMAIN asks' = DOMAIN asks
      /\ asks'[k] = q /\ \A j \in DOMAIN asks : j # k => asks'[j] = asks[j]
  <2>1. asks' = [asks EXCEPT ![k] = q]
      BY <1>1 DEF q
  <2> QED  BY <1>1, <1>4, <2>1, ExceptSeq
<1>6. LaterAsks
    BY <1>1, <1>4, <1>5 DEF LaterAsks
<1>7. \A j \in DOMAIN asks : Parked(j)' => Parked(j) /\ asks'[j] = asks[j]
    BY <1>3, <1>4, <1>5 DEF Parked
<1>8. AsksInv'
  <2>1. asks' \in Seq(Asked) /\ Len(asks') <= MaxAsks
      BY <1>5 DEF AsksInv
  <2>2. counter' \in Nat /\ counter' <= Len(asks')
      BY <1>1, <1>5 DEF AsksInv
  <2>3. \A j \in DOMAIN asks' : Parked(j)' => asks'[j].id <= counter'
      BY <1>1, <1>5, <1>7 DEF AsksInv
  <2>4. \A i, j \in DOMAIN asks' : Parked(i)' /\ Parked(j)' /\ asks'[i].id = asks'[j].id => i = j
      BY <1>5, <1>7 DEF AsksInv
  <2>5. ASSUME NEW j \in DOMAIN asks', asks'[j].state = "answered" PROVE Mine(j)' /\ Mine(asks[j].by)'
    <3>1. Mine(j) /\ Mine(asks'[j].by)
      <4>1. CASE j = k
          BY <1>4, <1>5, <2>5, <4>1 DEF Settling
      <4>2. CASE j # k
          BY <1>5, <2>5, <4>2 DEF AsksInv
      <4> QED  BY <4>1, <4>2
    <3> QED  BY <1>6, <3>1, StaysTrue DEF Mine, LaterAsks
  <2> QED  BY <2>1, <2>2, <2>3, <2>4, <2>5 DEF AsksInv
<1> QED  BY <1>4, <1>5, <1>6, <1>8

\* The questions that wait are lost with the process.
LEMMA LosingStep ==
    ASSUME AsksInv, Losing
    PROVE  /\ AsksInv' /\ LaterAsks /\ DOMAIN asks' = DOMAIN asks
           /\ \A k \in DOMAIN asks : ~Parked(k)'
<1>1. /\ asks \in Seq(Asked) /\ DOMAIN asks = 1 .. Len(asks) /\ Len(asks) \in Nat
      /\ DOMAIN asks' = DOMAIN asks /\ counter' = 0
      /\ \A k \in DOMAIN asks :
           asks'[k] = IF Parked(k) THEN [asks[k] EXCEPT !.state = "lost"] ELSE asks[k]
    BY LenProperties DEF AsksInv, Losing
<1>2. ASSUME NEW k \in DOMAIN asks
      PROVE  /\ asks'[k] \in Asked /\ asks'[k].state # "parked"
             /\ asks'[k].session = asks[k].session /\ asks'[k].id = asks[k].id
             /\ asks[k].state # "parked" => asks'[k] = asks[k]
             /\ asks'[k].state = "answered" => asks'[k] = asks[k]
  <2>1. asks[k] \in Asked
      BY <1>1, ElementOfSeq
  <2>2. CASE Parked(k)
      BY <1>1, <2>1, <2>2 DEF Asked, Parked
  <2>3. CASE ~Parked(k)
      BY <1>1, <2>1, <2>3 DEF Asked, Parked
  <2> QED  BY <2>2, <2>3
<1>3. asks' \in Seq(Asked) /\ Len(asks') = Len(asks)
  <2>1. asks' = [k \in 1 .. Len(asks) |-> asks'[k]]
      BY <1>1 DEF Losing
  <2>2. asks' \in [1 .. Len(asks) -> Asked]
      BY <1>1, <1>2, <2>1
  <2>3. asks' \in Seq(Asked)
      BY <1>1, <2>2, SeqDef
  <2>4. DOMAIN asks' = 1 .. Len(asks') /\ Len(asks') \in Nat
      BY <2>3, LenProperties
  <2> QED  BY <1>1, <2>3, <2>4
<1>4. LaterAsks
    BY <1>1, <1>2 DEF LaterAsks
<1>5. \A k \in DOMAIN asks : ~Parked(k)'
    BY <1>1, <1>2 DEF Parked
<1>6. AsksInv'
  <2>1. Len(asks') <= MaxAsks /\ counter' \in Nat /\ counter' <= Len(asks')
      BY <1>1, <1>3 DEF AsksInv
  <2>2. ASSUME NEW k \in DOMAIN asks', asks'[k].state = "answered" PROVE Mine(k)' /\ Mine(asks[k].by)'
    <3>1. Mine(k) /\ Mine(asks'[k].by)
        BY <1>1, <1>2, <2>2 DEF AsksInv
    <3> QED  BY <1>4, <3>1, StaysTrue DEF Mine, LaterAsks
  <2> QED  BY <1>1, <1>3, <1>5, <2>1, <2>2 DEF AsksInv
<1> QED  BY <1>1, <1>4, <1>5, <1>6

\* The table is left alone.
LEMMA SameTable ==
    ASSUME AsksInv, UNCHANGED server
    PROVE  AsksInv' /\ LaterAsks
BY DEF AsksInv, LaterAsks, server, Mine, Parked

\* Every step keeps the table as it should be, and what has ended ended.
LEMMA ServerSteps ==
    ASSUME AsksInv, ServerStep
    PROVE  AsksInv' /\ LaterAsks
BY AskingStep, SettlingStep, LosingStep, SameTable DEF ServerStep

-----------------------------------------------------------------------------
(* The rows of the log *)

\* Rows stay true of their questions.
LEMMA RowsStay ==
    ASSUME LaterAsks
    PROVE  /\ RowsTrue(log) /\ UNCHANGED log => RowsTrue(log)'
           /\ RowsTrue(fetched) /\ UNCHANGED fetched => RowsTrue(fetched)'
           /\ RowsTrue(log) /\ fetched' = log => RowsTrue(fetched)'
<1>1. \A k, i : Shows(k, i) => Shows(k, i)' /\ k \in DOMAIN asks
    BY StaysTrue DEF Shows, Mine
<1>2. \A k \in DOMAIN asks : asks[k].state = "answered" => asks'[k].state = "answered"
    BY StaysTrue
<1> QED  BY <1>1, <1>2 DEF RowsTrue

\* A row is appended that is true of its question.
LEMMA RowAppended ==
    ASSUME LaterAsks, RowsTrue(log), NEW row \in LogRow, log' = Append(log, row),
           Shows(row.ask, row.id)', row.kind = "answered" => asks'[row.ask].state = "answered"
    PROVE  RowsTrue(log)'
<1>1. /\ log' \in Seq(LogRow) /\ DOMAIN log' = 1 .. Len(log) + 1 /\ DOMAIN log = 1 .. Len(log)
      /\ Len(log) \in Nat
      /\ \A n \in 1 .. Len(log) : log'[n] = log[n]
      /\ log'[Len(log) + 1] = row
    BY AppendProperties, LenProperties DEF RowsTrue
<1>2. ASSUME NEW n \in DOMAIN log'
      PROVE  /\ Shows(log[n].ask, log[n].id)'
             /\ log'[n].kind = "answered" => asks'[log'[n].ask].state = "answered"
  <2>1. CASE n \in DOMAIN log
    <3>1. log'[n] = log[n] /\ Shows(log[n].ask, log[n].id) /\ log[n].ask \in DOMAIN asks
          /\ (log[n].kind = "answered" => asks[log[n].ask].state = "answered")
        BY <1>1, <2>1 DEF RowsTrue, Shows, Mine
    <3>2. asks'[log[n].ask].id = asks[log[n].ask].id /\ asks'[log[n].ask].session = asks[log[n].ask].session
          /\ log[n].ask \in DOMAIN asks'
          /\ (asks[log[n].ask].state = "answered" => asks'[log[n].ask].state = "answered")
        BY <3>1 DEF LaterAsks
    <3> QED  BY <3>1, <3>2 DEF Shows, Mine
  <2>2. CASE n = Len(log) + 1
      BY <1>1, <2>2 DEF Shows, Mine
  <2> QED  BY <1>1, <2>1, <2>2
<1> QED  BY <1>1, <1>2 DEF RowsTrue

\* Every step keeps the rows true: the row that is written is of its question.
LEMMA LogSteps ==
    ASSUME AsksInv, RowsTrue(log), ServerStep
    PROVE  RowsTrue(log)'
<1>1. LaterAsks
    BY ServerSteps
<1>2. ASSUME NEW s, Asking(s) PROVE RowsTrue(log)'
  <2>1. CASE s # Shown
      BY <1>1, <1>2, <2>1, RowsStay DEF Asking
  <2>2. CASE s = Shown
    <3>0. PICK row : row = Row("asked", counter + 1, Len(asks) + 1)
        OBVIOUS
    <3>1. /\ Len(asks) + 1 \in DOMAIN asks' /\ asks'[Len(asks) + 1] = Question(s, counter + 1)
          /\ Len(asks) + 1 \in Asks /\ counter + 1 \in Ids
        BY <1>2, AskingStep
    <3>2. row \in LogRow /\ row.kind = "asked" /\ row.ask = Len(asks) + 1 /\ row.id = counter + 1
        BY <3>0, <3>1 DEF Row, LogRow
    <3>3. Shows(row.ask, row.id)'
        BY <2>2, <3>1, <3>2 DEF Shows, Mine, Question
    <3>4. log' = Append(log, row)
        BY <1>2, <2>2, <3>0 DEF Asking
    <3> QED  BY <1>1, <3>2, <3>3, <3>4, RowAppended
  <2> QED  BY <2>1, <2>2
<1>3. ASSUME NEW k, NEW how, NEW by, Settling(k, how, by) PROVE RowsTrue(log)'
  <2>1. CASE asks[k].session # Shown
      BY <1>1, <1>3, <2>1, RowsStay DEF Settling, Settle
  <2>2. CASE asks[k].session = Shown
    <3>0. PICK row : row = Row(how, asks[k].id, k)
        OBVIOUS
    <3>1. k \in DOMAIN asks /\ k \in Asks /\ how \in {"answered", "timed_out"}
        BY <1>3 DEF Settling, Parked
    <3>2. asks[k].id \in Ids
      <4>1. asks[k] \in Asked
          BY <3>1, LenProperties, ElementOfSeq DEF AsksInv
      <4> QED  BY <4>1 DEF Asked
    <3>3. row \in LogRow /\ row.kind = how /\ row.ask = k /\ row.id = asks[k].id
        BY <3>0, <3>1, <3>2 DEF Row, LogRow
    <3>4. Shows(row.ask, row.id)' /\ asks'[row.ask].state = how
      <4>1. asks'[k].state = how /\ asks'[k].id = asks[k].id
          BY <1>3, SettlingStep
      <4>2. Shows(k, asks[k].id)
          BY <2>2, <3>1 DEF Shows, Mine
      <4>3. asks'[k].session = Shown /\ k \in DOMAIN asks'
          BY <1>1, <2>2, <3>1 DEF LaterAsks
      <4> QED  BY <3>3, <4>1, <4>3 DEF Shows, Mine
    <3>5. log' = Append(log, row)
        BY <1>3, <2>2, <3>0 DEF Settling, Settle
    <3> QED  BY <1>1, <3>3, <3>4, <3>5, RowAppended
  <2> QED  BY <2>1, <2>2
<1>4. ASSUME Losing \/ UNCHANGED server PROVE RowsTrue(log)'
    BY <1>1, <1>4, RowsStay DEF Losing, server
<1> QED  BY <1>2, <1>3, <1>4 DEF ServerStep

\* The history that the page has read.
LEMMA FetchedSteps ==
    ASSUME LaterAsks, RowsTrue(log), RowsTrue(fetched), [Next]_vars
    PROVE  RowsTrue(fetched)'
<1>1. fetched' = <<>> \/ fetched' = log \/ UNCHANGED fetched
    BY DEF Next, Restart, Deliver, ConnectionLost, Reconnect, Reload, OpenSession, OpenAgain,
         HistoryArrives, HistoryDropped, ListIsServed, AskUser, EmitOther, TimeOut, AnswerArrives,
         PostFails, ReplyArrives, ListArrives, ListFails, CountdownEnds, Submit, vars, page
<1>2. CASE fetched' = <<>>
  <2>1. fetched' \in Seq(LogRow) /\ DOMAIN fetched' = {}
      BY <1>2, EmptySeq
  <2> QED  BY <2>1 DEF RowsTrue
<1>3. CASE fetched' = log \/ UNCHANGED fetched
    BY <1>3, RowsStay
<1> QED  BY <1>1, <1>2, <1>3

-----------------------------------------------------------------------------
(* The frames on their way *)

\* A frame that announces a question is of the session that asks it.
FrameTrue(frame) ==
    frame.kind = "question" => frame.n \in DOMAIN asks /\ asks[frame.n].session = frame.session

\* What is emitted for a session that the page is subscribed to.
LEMMA EmitStep ==
    ASSUME StreamInv, LaterAsks, NEW frame \in Frame, FrameTrue(frame)', Emit(frame),
           UNCHANGED online
    PROVE  StreamInv'
<1>1. CASE ~online
  <2>1. buckets' = buckets
      BY <1>1 DEF Emit
  <2> QED  BY <2>1 DEF StreamInv, Buckets, LaterAsks
<1>2. CASE online
  <2>1. buckets' = Push(buckets, frame)
      BY <1>2 DEF Emit
  <2>2. /\ Buckets(Push(buckets, frame))
        /\ \A i \in DOMAIN Push(buckets, frame).frames :
               \/ Push(buckets, frame).frames[i] = frame
               \/ Push(buckets, frame).frames[i].kind = "lagged"
               \/ \E k \in DOMAIN buckets.frames : Push(buckets, frame).frames[i] = buckets.frames[k]
      BY PushStep DEF StreamInv
  <2>3. Buckets(buckets')
      BY <2>1, <2>2
  <2>4. ASSUME NEW i \in DOMAIN buckets'.frames
        PROVE  LET f == buckets'.frames[i]
               IN f.kind = "question" => f.n \in DOMAIN asks' /\ asks'[f.n].session = f.session
    <3>1. CASE buckets'.frames[i] = frame
        BY <3>1 DEF FrameTrue
    <3>2. CASE buckets'.frames[i].kind = "lagged"
        BY <3>2
    <3>3. CASE \E k \in DOMAIN buckets.frames : buckets'.frames[i] = buckets.frames[k]
        BY <3>3 DEF StreamInv, LaterAsks
    <3> QED  BY <2>1, <2>2, <3>1, <3>2, <3>3
  <2> QED  BY <2>3, <2>4 DEF StreamInv, Buckets
<1> QED  BY <1>1, <1>2 DEF StreamInv

\* A queue that is emptied or shortened from its head.
LEMMA ShortenedQueue ==
    ASSUME StreamInv, LaterAsks, online' \in BOOLEAN,
           \/ UNCHANGED buckets
           \/ buckets' = EmptyBuckets
           \/ buckets.frames # <<>> /\ buckets' = Shift(buckets)
    PROVE  StreamInv'
<1>1. CASE UNCHANGED buckets
    BY <1>1 DEF StreamInv, Buckets, LaterAsks
<1>2. CASE buckets' = EmptyBuckets
  <2>1. buckets'.frames = <<>> /\ buckets'.sessions = {}
        /\ buckets' = [frames |-> <<>>, sessions |-> {}]
      BY <1>2 DEF EmptyBuckets
  <2>2. <<>> \in Seq(Frame) /\ DOMAIN <<>> = {}
      BY EmptySeq
  <2> QED  BY <2>1, <2>2 DEF StreamInv, Buckets
<1>3. CASE buckets.frames # <<>> /\ buckets' = Shift(buckets)
  <2>1. buckets \in [frames : Seq(Frame), sessions : SUBSET Sessions]
      BY DEF StreamInv, Buckets
  <2>2. buckets' = [buckets EXCEPT !.frames = Tail(buckets.frames)]
      BY <1>3 DEF Shift
  <2>3. buckets'.frames = Tail(buckets.frames) /\ buckets'.sessions = buckets.sessions
      BY <2>1, <2>2
  <2>4. /\ Tail(buckets.frames) \in Seq(Frame)
        /\ Len(Tail(buckets.frames)) = Len(buckets.frames) - 1
        /\ \A i \in 1 .. Len(Tail(buckets.frames)) : Tail(buckets.frames)[i] = buckets.frames[i + 1]
      BY <1>3, <2>1, HeadTailProperties
  <2>5. /\ DOMAIN buckets.frames = 1 .. Len(buckets.frames) /\ Len(buckets.frames) \in Nat
        /\ DOMAIN Tail(buckets.frames) = 1 .. Len(Tail(buckets.frames))
      BY <2>1, <2>4, LenProperties
  <2>6. \A i \in DOMAIN buckets'.frames :
            \E k \in DOMAIN buckets.frames : buckets'.frames[i] = buckets.frames[k]
    <3>1. \A i \in DOMAIN Tail(buckets.frames) :
              i + 1 \in DOMAIN buckets.frames /\ Tail(buckets.frames)[i] = buckets.frames[i + 1]
        BY <2>4, <2>5
    <3> QED  BY <2>3, <3>1
  <2>7. buckets' \in [frames : Seq(Frame), sessions : SUBSET Sessions]
      BY <2>1, <2>2, <2>4
  <2>8. Buckets(buckets')
    <3>1. \A i \in DOMAIN buckets'.frames : buckets'.frames[i].session \in buckets'.sessions
        BY <2>3, <2>6 DEF StreamInv, Buckets
    <3> QED  BY <2>7, <3>1 DEF Buckets
  <2>9. ASSUME NEW i \in DOMAIN buckets'.frames
        PROVE  LET f == buckets'.frames[i]
               IN f.kind = "question" => f.n \in DOMAIN asks' /\ asks'[f.n].session = f.session
      BY <2>6 DEF StreamInv, LaterAsks
  <2> QED  BY <2>8, <2>9 DEF StreamInv, Buckets
<1> QED  BY <1>1, <1>2, <1>3

\* Every step keeps the queue true of the questions it announces.
LEMMA StreamSteps ==
    ASSUME AsksInv, StreamInv, PostsInv, [Next]_vars
    PROVE  StreamInv'
<1>0. LaterAsks
    BY ServerShapes, ServerSteps
<1>1. ASSUME NEW s \in Sessions, AskUser(s) PROVE StreamInv'
  <2>0. PICK frame : frame = [session |-> s, kind |-> "question", n |-> Len(asks) + 1]
      OBVIOUS
  <2>1. Asking(s)
      BY <1>1 DEF AskUser, Asking, NextRequestId
  <2>2. /\ Len(asks) + 1 \in DOMAIN asks' /\ asks'[Len(asks) + 1] = Question(s, counter + 1)
        /\ Len(asks) + 1 \in Asks
      BY <2>1, AskingStep
  <2>3. frame \in Frame
      BY <2>0, <2>2 DEF Frame, Asks
  <2>4. FrameTrue(frame)'
      BY <2>0, <2>2 DEF FrameTrue, Question
  <2>5. Emit(frame) /\ UNCHANGED online
      BY <1>1, <2>0 DEF AskUser
  <2> QED  BY <1>0, <2>3, <2>4, <2>5, EmitStep
<1>2. ASSUME NEW s \in Sessions, EmitOther(s) PROVE StreamInv'
  <2>0. PICK frame : frame = [session |-> s, kind |-> "other", n |-> 0]
      OBVIOUS
  <2>1. frame \in Frame /\ FrameTrue(frame)'
      BY <2>0 DEF Frame, FrameTrue
  <2>2. Emit(frame) /\ UNCHANGED online
      BY <1>2, <2>0 DEF EmitOther
  <2> QED  BY <1>0, <2>1, <2>2, EmitStep
<1>3. ASSUME \/ Restart \/ Deliver \/ ConnectionLost \/ Reconnect \/ Reload
             \/ OpenSession \/ OpenAgain \/ HistoryArrives \/ HistoryDropped \/ ListIsServed
             \/ \E k \in Asks : TimeOut(k)
             \/ \E p \in posts : AnswerArrives(p) \/ PostFails(p) \/ ReplyArrives(p)
             \/ \E request \in lists : ListArrives(request) \/ ListFails(request)
             \/ \E i \in Ids : CountdownEnds(i) \/ Submit(i)
             \/ UNCHANGED vars
      PROVE  StreamInv'
  <2>1. /\ \/ UNCHANGED buckets
           \/ buckets' = EmptyBuckets
           \/ buckets.frames # <<>> /\ buckets' = Shift(buckets)
        /\ online' = online \/ online' = TRUE \/ online' = FALSE
      BY <1>3 DEF Restart, Deliver, ConnectionLost, Reconnect, Reload, OpenSession, OpenAgain,
         HistoryArrives, HistoryDropped, ListIsServed, TimeOut, AnswerArrives, PostFails,
         ReplyArrives, ListArrives, ListFails, CountdownEnds, Submit, vars
  <2>2. online' \in BOOLEAN
      BY <2>1 DEF StreamInv
  <2> QED  BY <1>0, <2>1, <2>2, ShortenedQueue
<1> QED  BY <1>1, <1>2, <1>3 DEF Next

-----------------------------------------------------------------------------
(* The requests for the pending questions *)

\* What a served list says stays true, and the table serves what is.
LEMMA ListsSteps ==
    ASSUME AsksInv, ListsInv, LaterAsks, [Next]_vars
    PROVE  ListsInv'
<1> DEFINE open == {k \in Asks : Parked(k) /\ asks[k].session = Shown}
<1>1. \A request \in lists' : \/ request \in lists
                              \/ request = Unserved
                              \/ request = Served(open)
    BY DEF Next, Restart, Deliver, ConnectionLost, Reconnect, Reload, OpenSession, OpenAgain,
         HistoryArrives, HistoryDropped, ListIsServed, AskUser, EmitOther, TimeOut, AnswerArrives,
         PostFails, ReplyArrives, ListArrives, ListFails, CountdownEnds, Submit, vars, page, server,
         RequestList
<1>2. ASSUME NEW request \in lists'
      PROVE  /\ request \in [served : BOOLEAN, open : SUBSET Asks]
             /\ \A j \in request.open : Mine(j)
             /\ \A j, k \in request.open : asks[j].id = asks[k].id => j = k
  <2>1. CASE request \in lists
      BY <2>1 DEF ListsInv
  <2>2. CASE request = Unserved
      BY <2>2 DEF Unserved
  <2>3. CASE request = Served(open)
    <3>1. \A j \in open : j \in DOMAIN asks /\ Parked(j) /\ asks[j].session = Shown
        BY DEF Parked
    <3>2. \A j, k \in open : asks[j].id = asks[k].id => j = k
        BY <3>1 DEF AsksInv
    <3>3. request \in [served : BOOLEAN, open : SUBSET Asks] /\ request.open = open
        BY <2>3 DEF Served
    <3> HIDE DEF open
    <3> QED  BY <3>1, <3>2, <3>3 DEF Mine
  <2> QED  BY <1>1, <2>1, <2>2, <2>3
<1>3. ASSUME NEW request \in lists'
      PROVE  /\ request \in [served : BOOLEAN, open : SUBSET Asks]
             /\ \A j \in request.open : Mine(j)'
             /\ \A j, k \in request.open : asks'[j].id = asks'[k].id => j = k
    BY <1>2, StaysTrue DEF Mine, LaterAsks
<1> QED  BY <1>3 DEF ListsInv

-----------------------------------------------------------------------------
(* The cards and the answers given on them *)

CardRec == [ask : Nat, state : CardStates, settled : BOOLEAN]

\* An answer stays true of its card while the card stays as it is.
LEMMA PostStays ==
    ASSUME LaterAsks, NEW p, PostTrue(p), p.live => cards'[p.id] = cards[p.id]
    PROVE  PostTrue(p)'
<1>1. p \in Post /\ Shows(p.ask, p.id) /\ p.ask \in DOMAIN asks
    BY DEF PostTrue, Shows, Mine
<1>2. Shows(p.ask, p.id)'
  <2>1. asks'[p.ask].id = asks[p.ask].id /\ asks'[p.ask].session = asks[p.ask].session
        /\ p.ask \in DOMAIN asks'
      BY <1>1 DEF LaterAsks
  <2> QED  BY <1>1, <2>1 DEF Shows, Mine
<1>3. OnlyOne(p.ask)' => OnlyOne(p.ask)
    BY <1>1 DEF OnlyOne, LaterAsks
<1>4. asks[p.ask].state # "parked" => asks'[p.ask].state = asks[p.ask].state
    BY <1>1 DEF LaterAsks
<1> QED  BY <1>1, <1>2, <1>3, <1>4 DEF PostTrue

\* A card that does not change stays true, unless its live answer is gone.
LEMMA CardStays ==
    ASSUME LaterAsks, NEW i, CardTrue(i), cards'[i] = cards[i], LivePost(i) => LivePost(i)'
    PROVE  CardTrue(i)'
<1>1. CASE cards[i] = NoCard
    BY <1>1 DEF CardTrue, NoCard
<1>2. CASE cards[i] # NoCard
  <2>1. cards[i].ask \in DOMAIN asks /\ Shows(cards[i].ask, i)
      BY <1>2 DEF CardTrue, Shows, Mine
  <2>2. cards'[i].ask = cards[i].ask
      OBVIOUS
  <2>3. Shows(cards[i].ask, i)'
      BY <2>1, <2>2 DEF Shows, Mine, LaterAsks
  <2>4. OnlyOne(cards[i].ask)' => OnlyOne(cards[i].ask)
      BY <2>1, <2>2 DEF OnlyOne, LaterAsks
  <2>5. asks[cards[i].ask].state # "parked" => asks'[cards[i].ask].state = asks[cards[i].ask].state
      BY <2>1 DEF LaterAsks
  <2> QED  BY <1>2, <2>1, <2>2, <2>3, <2>4, <2>5 DEF CardTrue
<1> QED  BY <1>1, <1>2

\* A card on which an answer may be given, or could.
LEMMA OpenCard ==
    ASSUME NEW i, Shows(cards'[i].ask, i), LaterAsks, cards'[i].state \in {"pending", "expired"}
    PROVE  CardTrue(i)'
<1>1. Shows(cards[i].ask, i)'
    BY DEF Shows, Mine, LaterAsks
<1> QED  BY <1>1 DEF CardTrue

\* Nothing happens on the page.
LEMMA PageStays ==
    ASSUME PostsInv, CardsInv, LaterAsks, UNCHANGED <<cards, posts>>
    PROVE  PostsInv' /\ CardsInv'
<1>1. \A p \in posts : PostTrue(p)'
    BY PostStays DEF PostsInv
<1>2. \A i : LivePost(i) => LivePost(i)'
    BY DEF LivePost
<1>3. \A i \in Ids : CardTrue(i)'
    BY <1>2, CardStays DEF CardsInv
<1> QED  BY <1>1, <1>3 DEF PostsInv, CardsInv

\* The outcome of the request that carries an answer.
LEMMA RepliedStep ==
    ASSUME PostsInv, CardsInv, LaterAsks, UNCHANGED cards, NEW p \in posts,
           NEW reply \in {"ok", "refused", "failed"}, posts' = Replied(p, reply),
           reply = "refused" => asks[p.ask].state # "parked",
           reply = "ok" /\ OnlyOne(p.ask)' => asks'[p.ask].state = "answered"
    PROVE  PostsInv' /\ CardsInv'
<1> DEFINE r == [p EXCEPT !.stage = reply]
<1>1. p \in Post /\ PostTrue(p)
    BY DEF PostsInv, PostTrue
<1>2. r \in Post /\ r.id = p.id /\ r.ask = p.ask /\ r.live = p.live /\ r.stage = reply
    BY <1>1 DEF Post
<1>3. posts' = (posts \ {p}) \cup (IF p.live THEN {r} ELSE {})
    BY DEF Replied
<1> HIDE DEF r
<1>4. PostTrue(p)'
    BY <1>1, PostStays
<1>5. p.live => PostTrue(r)'
    BY <1>1, <1>2, <1>4 DEF PostTrue, LaterAsks, Shows, Mine
<1>6. \A q \in posts' : PostTrue(q)'
  <2>1. \A q \in posts : PostTrue(q)'
      BY PostStays DEF PostsInv
  <2> QED  BY <1>3, <1>5, <2>1
<1>7. \A q, s \in posts' : q.live /\ s.live /\ q.id = s.id => q = s
    BY <1>2, <1>3 DEF PostsInv
<1>8. \A i : LivePost(i) => LivePost(i)'
    BY <1>2, <1>3 DEF LivePost
<1>9. \A i \in Ids : CardTrue(i)'
    BY <1>8, CardStays DEF CardsInv
<1> QED  BY <1>6, <1>7, <1>9 DEF PostsInv, CardsInv

\* An answer that settles a question is ok; one that is refused finds its own settled.
LEMMA AnswerArrivesPage ==
    ASSUME AsksInv, PostsInv, CardsInv, LaterAsks, NEW p \in posts, AnswerArrives(p)
    PROVE  PostsInv' /\ CardsInv'
<1>1. UNCHANGED cards /\ Shows(p.ask, p.id)
    BY DEF AnswerArrives, PostsInv, PostTrue
<1>2. CASE \E k \in Asks : Accepts(p, k) /\ Settle(k, "answered", p.ask) /\ posts' = Replied(p, "ok")
  <2>1. PICK k \in Asks : Accepts(p, k) /\ Settle(k, "answered", p.ask) /\ posts' = Replied(p, "ok")
      BY <1>2
  <2>2. k \in DOMAIN asks /\ asks[k].id = p.id /\ asks[k].session = Shown
      BY <2>1 DEF Accepts, Parked
  <2>3. Settling(k, "answered", p.ask)
      BY <1>1, <2>1, <2>2 DEF Settling, Accepts, Mine, Shows
  <2>4. asks'[k].state = "answered"
      BY <2>3, SettlingStep
  <2>5. OnlyOne(p.ask)' => p.ask = k
    <3>1. /\ k \in DOMAIN asks' /\ asks'[k].id = p.id /\ asks'[k].session = Shown
          /\ asks'[p.ask].id = p.id /\ asks'[p.ask].session = Shown
        BY <1>1, <2>2 DEF LaterAsks, Shows, Mine
    <3> QED  BY <3>1 DEF OnlyOne
  <2> QED  BY <1>1, <2>1, <2>4, <2>5, RepliedStep
<1>3. CASE (~ \E k \in Asks : Accepts(p, k)) /\ posts' = Replied(p, "refused")
  <2>1. p.ask \in Asks
      BY DEF PostsInv, PostTrue, Post
  <2>2. asks[p.ask].state # "parked"
      BY <1>1, <1>3, <2>1 DEF Accepts, Parked, Shows, Mine
  <2> QED  BY <1>1, <1>3, <2>2, RepliedStep
<1> QED  BY <1>2, <1>3 DEF AnswerArrives

\* The answers on their way fail with the process, and those without a card go.
LEMMA RestartPage ==
    ASSUME PostsInv, CardsInv, LaterAsks, Restart
    PROVE  PostsInv' /\ CardsInv'
<1> DEFINE after(p) == IF p.stage = "sent" THEN [p EXCEPT !.stage = "failed"] ELSE p
<1>1. UNCHANGED cards /\ posts' = {after(p) : p \in {q \in posts : q.live}}
    BY DEF Restart
<1>2. ASSUME NEW p \in posts
      PROVE  /\ after(p) \in Post /\ after(p).id = p.id /\ after(p).ask = p.ask
             /\ after(p).live = p.live
             /\ after(p).stage # "sent" /\ (after(p).stage # "failed" => after(p).stage = p.stage)
             /\ PostTrue(p)'
  <2>1. PostTrue(p) /\ PostTrue(p)' /\ p \in Post
      BY <1>1, PostStays DEF PostsInv, PostTrue
  <2> QED  BY <2>1 DEF Post
<1> HIDE DEF after
<1>3. ASSUME NEW p \in posts, p.live PROVE PostTrue(after(p))'
  <2>1. PICK r : r = after(p)
      OBVIOUS
  <2>2. /\ r \in Post /\ r.id = p.id /\ r.ask = p.ask /\ r.live
        /\ r.stage # "sent" /\ (r.stage # "failed" => r.stage = p.stage) /\ PostTrue(p)'
      BY <1>2, <1>3, <2>1
  <2>3. PostTrue(r)'
      BY <1>3, <2>2 DEF PostTrue
  <2> QED  BY <2>1, <2>3
<1>4. \A q \in posts' : PostTrue(q)'
    BY <1>1, <1>3
<1>5. \A q, s \in posts' : q.live /\ s.live /\ q.id = s.id => q = s
    BY <1>1, <1>2 DEF PostsInv
<1>6. \A i : LivePost(i) => LivePost(i)'
    BY <1>1, <1>2 DEF LivePost
<1>7. \A i \in Ids : CardTrue(i)'
    BY <1>1, <1>6, CardStays DEF CardsInv
<1> QED  BY <1>1, <1>4, <1>5, <1>7 DEF PostsInv, CardsInv

\* Cards without an answer in flight are drawn as pending or expired.
LEMMA QuietCards ==
    ASSUME PostsInv, CardsInv, UNCHANGED <<asks, posts>>, cards' \in [Ids -> CardRec],
           \A i \in Ids : \/ cards'[i] = cards[i]
                          \/ /\ cards[i].state # "done"
                             /\ cards'[i].state \in {"pending", "expired"}
                             /\ Shows(cards'[i].ask, i)
    PROVE  PostsInv' /\ CardsInv'
<1>1. LaterAsks
    BY DEF LaterAsks
<1>2. \A p \in posts : PostTrue(p)'
  <2>1. ASSUME NEW p \in posts PROVE PostTrue(p)'
    <3>1. PostTrue(p) /\ p.id \in Ids
        BY DEF PostsInv, PostTrue, Post
    <3>2. p.live => cards'[p.id] = cards[p.id]
        BY <3>1 DEF PostTrue
    <3> QED  BY <1>1, <3>1, <3>2, PostStays
  <2> QED  BY <2>1
<1>3. ASSUME NEW i \in Ids PROVE CardTrue(i)'
  <2>1. CASE cards'[i] = cards[i]
    <3>1. LivePost(i) => LivePost(i)'
        BY DEF LivePost
    <3> QED  BY <1>1, <2>1, <3>1, CardStays DEF CardsInv
  <2>2. CASE cards'[i].state \in {"pending", "expired"} /\ Shows(cards'[i].ask, i)
      BY <1>1, <2>2, OpenCard
  <2> QED  BY <2>1, <2>2
<1> QED  BY <1>2, <1>3 DEF PostsInv, CardsInv, CardRec

\* A card that is refreshed for a question stays, or is drawn as pending for it.
LEMMA RefreshStep ==
    ASSUME CardsInv, NEW i \in Ids, NEW k, Shows(k, i), k \in Nat
    PROVE  LET card == Refreshed(cards[i], k)
           IN /\ card \in CardRec
              /\ \/ card = cards[i]
                 \/ cards[i].state # "done" /\ card.state = "pending" /\ Shows(card.ask, i)
<1>1. cards[i] \in CardRec /\ CardTrue(i)
    BY DEF CardsInv, CardRec
<1>2. CASE cards[i] = NoCard
    BY <1>2 DEF Refreshed, Card, CardRec, CardStates, NoCard
<1>3. CASE cards[i] # NoCard
  <2>1. Shows(cards[i].ask, i)
      BY <1>1, <1>3 DEF CardTrue
  <2>2. CASE cards[i].state = "expired" /\ ~cards[i].settled
    <3>1. Refreshed(cards[i], k) = [cards[i] EXCEPT !.state = "pending"]
        BY <1>3, <2>2 DEF Refreshed
    <3>2. /\ [cards[i] EXCEPT !.state = "pending"] \in CardRec
          /\ [cards[i] EXCEPT !.state = "pending"].state = "pending"
          /\ [cards[i] EXCEPT !.state = "pending"].ask = cards[i].ask
        BY <1>1 DEF CardRec, CardStates
    <3> QED  BY <2>1, <2>2, <3>1, <3>2
  <2>3. CASE ~(cards[i].state = "expired" /\ ~cards[i].settled)
    <3>1. Refreshed(cards[i], k) = cards[i]
        BY <1>3, <2>3 DEF Refreshed
    <3> QED  BY <1>1, <3>1
  <2> QED  BY <2>2, <2>3
<1> QED  BY <1>2, <1>3

\* The head of the queue draws or refreshes a card.
LEMMA DeliverPage ==
    ASSUME AsksInv, StreamInv, PostsInv, CardsInv, Deliver
    PROVE  PostsInv' /\ CardsInv'
<1> DEFINE frame == Head(buckets.frames)
           k == frame.n
           i == asks[k].id
<1>1. UNCHANGED <<asks, posts>>
    BY DEF Deliver, server
<1>2. CASE UNCHANGED cards
  <2>1. LaterAsks
      BY <1>1 DEF LaterAsks
  <2> QED  BY <1>1, <1>2, <2>1, PageStays
<1>3. CASE frame.kind = "question" /\ frame.session = Shown /\ SetCard(i, Refreshed(cards[i], k))
  <2>1. buckets.frames \in Seq(Frame) /\ buckets.frames # <<>>
      BY DEF Deliver, StreamInv, Buckets
  <2>2. Len(buckets.frames) \in Nat \ {0} /\ DOMAIN buckets.frames = 1 .. Len(buckets.frames)
      BY <2>1, EmptySeq, LenProperties
  <2>3. frame = buckets.frames[1] /\ 1 \in DOMAIN buckets.frames
      BY <2>1, <2>2
  <2>4. k \in DOMAIN asks /\ asks[k].session = Shown
      BY <1>3, <2>3 DEF StreamInv
  <2>5. DOMAIN asks = 1 .. Len(asks) /\ Len(asks) \in Nat /\ asks \in Seq(Asked)
      BY LenProperties DEF AsksInv
  <2>6. k \in Nat /\ asks[k] \in Asked
      BY <2>4, <2>5, ElementOfSeq
  <2>7. i \in Ids /\ Shows(k, i)
      BY <2>4, <2>6 DEF Asked, Shows, Mine
  <2>8. cards' = [cards EXCEPT ![i] = Refreshed(cards[i], k)]
      BY <1>3 DEF SetCard
  <2> HIDE DEF frame, k, i
  <2>9. /\ Refreshed(cards[i], k) \in CardRec
        /\ \/ Refreshed(cards[i], k) = cards[i]
           \/ /\ cards[i].state # "done" /\ Refreshed(cards[i], k).state = "pending"
              /\ Shows(Refreshed(cards[i], k).ask, i)
      BY <2>6, <2>7, RefreshStep
  <2>10. cards \in [Ids -> CardRec]
      BY DEF CardsInv, CardRec
  <2>11. cards' \in [Ids -> CardRec]
      BY <2>7, <2>8, <2>9, <2>10
  <2>12. ASSUME NEW j \in Ids
         PROVE  \/ cards'[j] = cards[j]
                \/ /\ cards[j].state # "done"
                   /\ cards'[j].state \in {"pending", "expired"}
                   /\ Shows(cards'[j].ask, j)
    <3>1. CASE j = i
        BY <2>7, <2>8, <2>9, <2>10, <3>1
    <3>2. CASE j # i
        BY <2>8, <2>10, <3>2
    <3> QED  BY <3>1, <3>2
  <2> QED  BY <1>1, <2>11, <2>12, QuietCards
<1> QED  BY <1>2, <1>3 DEF Deliver

\* The list draws or refreshes the cards of its questions.
LEMMA ListArrivesPage ==
    ASSUME ListsInv, PostsInv, CardsInv, NEW request \in lists, ListArrives(request)
    PROVE  PostsInv' /\ CardsInv'
<1>1. /\ UNCHANGED <<asks, posts>> /\ cards' = RefreshedAll(request.open)
      /\ \A k \in request.open : Mine(k) /\ k \in Nat
  <2>1. request.open \subseteq Nat
      BY DEF ListsInv, Asks
  <2> QED  BY <2>1 DEF ListArrives, ListsInv, server
<1>2. cards \in [Ids -> CardRec]
    BY DEF CardsInv, CardRec
<1>3. ASSUME NEW i \in Ids
      PROVE  /\ cards'[i] \in CardRec
             /\ \/ cards'[i] = cards[i]
                \/ /\ cards[i].state # "done"
                   /\ cards'[i].state \in {"pending", "expired"}
                   /\ Shows(cards'[i].ask, i)
  <2>1. CASE \E k \in request.open : asks[k].id = i
    <3>1. PICK k \in request.open : asks[k].id = i /\ cards'[i] = Refreshed(cards[i], k)
        BY <1>1, <2>1 DEF RefreshedAll
    <3>2. Shows(k, i) /\ k \in Nat
        BY <1>1, <3>1 DEF Shows
    <3>3. /\ Refreshed(cards[i], k) \in CardRec
          /\ \/ Refreshed(cards[i], k) = cards[i]
             \/ /\ cards[i].state # "done" /\ Refreshed(cards[i], k).state = "pending"
                /\ Shows(Refreshed(cards[i], k).ask, i)
        BY <3>2, RefreshStep
    <3> QED  BY <3>1, <3>3
  <2>2. CASE ~ \E k \in request.open : asks[k].id = i
      BY <1>1, <1>2, <2>2 DEF RefreshedAll
  <2> QED  BY <2>1, <2>2
<1>4. cards' \in [Ids -> CardRec]
    BY <1>1, <1>3 DEF RefreshedAll
<1> QED  BY <1>1, <1>3, <1>4, QuietCards

\* A card expires by the clock of the page.
LEMMA CountdownPage ==
    ASSUME PostsInv, CardsInv, NEW i \in Ids, CountdownEnds(i)
    PROVE  PostsInv' /\ CardsInv'
<1> DEFINE card == [cards[i] EXCEPT !.state = "expired"]
<1>1. cards \in [Ids -> CardRec] /\ cards[i] \in CardRec /\ CardTrue(i)
    BY DEF CardsInv, CardRec
<1>2. cards[i].state = "pending" /\ UNCHANGED <<asks, posts>> /\ cards' = [cards EXCEPT ![i] = card]
    BY DEF CountdownEnds, SetCard, server
<1>3. Shows(cards[i].ask, i)
    BY <1>1, <1>2 DEF CardTrue, NoCard
<1>4. card \in CardRec /\ card.state = "expired" /\ card.ask = cards[i].ask
    BY <1>1 DEF CardRec, CardStates
<1> HIDE DEF card
<1>5. cards' \in [Ids -> CardRec]
    BY <1>1, <1>2, <1>4
<1>6. ASSUME NEW j \in Ids
      PROVE  \/ cards'[j] = cards[j]
             \/ /\ cards[j].state # "done"
                /\ cards'[j].state \in {"pending", "expired"}
                /\ Shows(cards'[j].ask, j)
    BY <1>1, <1>2, <1>3, <1>4
<1> QED  BY <1>2, <1>5, <1>6, QuietCards

\* The card is drawn as answered, and its answer is the only one on the way from it.
LEMMA SubmitPage ==
    ASSUME AsksInv, PostsInv, CardsInv, NEW i \in Ids, Submit(i)
    PROVE  PostsInv' /\ CardsInv'
<1>a. PICK card : card = [cards[i] EXCEPT !.state = "done", !.settled = TRUE]
    OBVIOUS
<1>b. PICK r : r = [id |-> i, ask |-> cards[i].ask, stage |-> "sent", live |-> TRUE]
    OBVIOUS
<1>1. cards \in [Ids -> CardRec] /\ cards[i] \in CardRec /\ CardTrue(i)
    BY DEF CardsInv, CardRec
<1>2. /\ cards[i].state = "pending" /\ UNCHANGED asks
      /\ cards' = [cards EXCEPT ![i] = card] /\ posts' = posts \cup {r}
    BY <1>a, <1>b DEF Submit, SetCard, server
<1>3. Shows(cards[i].ask, i)
    BY <1>1, <1>2 DEF CardTrue, NoCard
<1>4. cards[i].ask \in Asks
  <2>1. DOMAIN asks = 1 .. Len(asks) /\ Len(asks) \in Nat /\ Len(asks) <= MaxAsks /\ MaxAsks \in Nat
      BY LenProperties, QuestionsAssumption DEF AsksInv
  <2>2. cards[i].ask \in DOMAIN asks
      BY <1>3 DEF Shows, Mine
  <2> QED  BY <2>1, <2>2 DEF Asks
<1>5. card \in CardRec /\ card.state = "done" /\ card.ask = cards[i].ask /\ card.settled
    BY <1>1, <1>a DEF CardRec, CardStates
<1>6. r \in Post /\ r.id = i /\ r.ask = cards[i].ask /\ r.stage = "sent" /\ r.live
    BY <1>4, <1>b DEF Post
<1>7. LaterAsks
    BY <1>2 DEF LaterAsks
<1>8. cards' \in [Ids -> CardRec] /\ cards'[i] = card /\ \A j \in Ids : j # i => cards'[j] = cards[j]
    BY <1>1, <1>2, <1>5
<1>9. \A p \in posts : p.live => p.id # i /\ p.id \in Ids
    BY <1>2 DEF PostsInv, PostTrue, Post
<1>10. \A p \in posts' : PostTrue(p)'
  <2>1. ASSUME NEW p \in posts PROVE PostTrue(p)'
      BY <1>7, <1>8, <1>9, PostStays DEF PostsInv
  <2>2. PostTrue(r)'
    <3>1. Shows(r.ask, r.id)'
        BY <1>2, <1>3, <1>6 DEF Shows, Mine
    <3> QED  BY <1>5, <1>6, <1>8, <3>1 DEF PostTrue
  <2> QED  BY <1>2, <2>1, <2>2
<1>11. \A p, q \in posts' : p.live /\ q.live /\ p.id = q.id => p = q
    BY <1>2, <1>6, <1>9 DEF PostsInv
<1>12. ASSUME NEW j \in Ids PROVE CardTrue(j)'
  <2>1. CASE j = i
    <3>1. Shows(card.ask, i)'
        BY <1>2, <1>3, <1>5 DEF Shows, Mine
    <3>2. LivePost(i)'
        BY <1>2, <1>6 DEF LivePost
    <3> QED  BY <1>5, <1>8, <2>1, <3>1, <3>2 DEF CardTrue
  <2>2. CASE j # i
    <3>1. LivePost(j) => LivePost(j)'
        BY <1>2 DEF LivePost
    <3> QED  BY <1>7, <1>8, <2>2, <3>1, CardStays DEF CardsInv
  <2> QED  BY <2>1, <2>2
<1> QED  BY <1>8, <1>10, <1>11, <1>12 DEF PostsInv, CardsInv, CardRec

\* The reply reaches the card that is still drawn as answered.
LEMMA ReplyArrivesPage ==
    ASSUME PostsInv, CardsInv, NEW p \in posts, ReplyArrives(p)
    PROVE  PostsInv' /\ CardsInv'
<1> DEFINE i == p.id
<1>a. PICK card : card = AfterReply(cards[i], p.stage)
    OBVIOUS
<1>1. /\ p.live /\ i \in Ids /\ Shows(p.ask, i) /\ p.stage \in {"ok", "refused", "failed"}
      /\ cards[i].ask = p.ask /\ cards[i].state = "done"
      /\ p.stage = "refused" => asks[p.ask].state # "parked"
      /\ p.stage = "ok" /\ OnlyOne(p.ask) => asks[p.ask].state = "answered"
    BY DEF PostsInv, PostTrue, Post, ReplyArrives
<1>2. /\ UNCHANGED asks /\ posts' = posts \ {p}
      /\ cards' = [cards EXCEPT ![i] = card]
    BY <1>a DEF ReplyArrives, SetCard, server
<1>3. cards \in [Ids -> CardRec] /\ cards[i] \in CardRec /\ CardTrue(i)
    BY <1>1 DEF CardsInv, CardRec
<1>4. /\ card \in CardRec /\ card.ask = p.ask
      /\ \/ p.stage = "ok" /\ card.state = "done" /\ card.settled
         \/ p.stage = "refused" /\ card.state = "closed" /\ card.settled
         \/ p.stage = "failed" /\ card.state = "pending"
  <2>1. CASE p.stage = "ok"
    <3>1. card = cards[i]
        BY <1>a, <2>1 DEF AfterReply
    <3> QED  BY <1>1, <1>3, <2>1, <3>1 DEF CardTrue
  <2>2. CASE p.stage = "refused"
    <3>1. card = [cards[i] EXCEPT !.state = "closed", !.settled = TRUE]
        BY <1>a, <2>2 DEF AfterReply
    <3> QED  BY <1>1, <1>3, <2>2, <3>1 DEF CardRec, CardStates
  <2>3. CASE p.stage = "failed"
    <3>1. card = [cards[i] EXCEPT !.state = "pending", !.settled = FALSE]
        BY <1>a, <2>3 DEF AfterReply
    <3> QED  BY <1>1, <1>3, <2>3, <3>1 DEF CardRec, CardStates
  <2> QED  BY <1>1, <2>1, <2>2, <2>3
<1>5. LaterAsks
    BY <1>2 DEF LaterAsks
<1>6. cards' \in [Ids -> CardRec] /\ cards'[i] = card /\ \A j \in Ids : j # i => cards'[j] = cards[j]
    BY <1>1, <1>2, <1>3, <1>4
<1>7. \A q \in posts' : q \in posts /\ (q.live => q.id # i /\ q.id \in Ids)
    BY <1>1, <1>2 DEF PostsInv, PostTrue, Post
<1>8. \A q \in posts' : PostTrue(q)'
    BY <1>5, <1>6, <1>7, PostStays DEF PostsInv
<1>9. \A q, s \in posts' : q.live /\ s.live /\ q.id = s.id => q = s
    BY <1>7 DEF PostsInv
<1>10. ASSUME NEW j \in Ids PROVE CardTrue(j)'
  <2>1. CASE j = i
    <3>1. Shows(card.ask, i)' /\ (OnlyOne(card.ask)' => OnlyOne(p.ask))
        BY <1>1, <1>2, <1>4 DEF Shows, Mine, OnlyOne
    <3>2. UNCHANGED asks
        BY <1>2
    <3> QED  BY <1>1, <1>4, <1>6, <2>1, <3>1, <3>2 DEF CardTrue
  <2>2. CASE j # i
    <3>1. LivePost(j) => LivePost(j)'
        BY <1>2, <2>2 DEF LivePost
    <3> QED  BY <1>5, <1>6, <2>2, <3>1, CardStays DEF CardsInv
  <2> QED  BY <2>1, <2>2
<1> QED  BY <1>6, <1>8, <1>9, <1>10 DEF PostsInv, CardsInv, CardRec

\* The answers on their way when the cards go: none of them is live.
LEMMA OrphanedPosts ==
    ASSUME PostsInv, LaterAsks, posts' = Orphaned
    PROVE  PostsInv' /\ \A i : ~LivePost(i)'
<1> DEFINE alone(q) == [q EXCEPT !.live = FALSE]
<1>1. posts' = {alone(q) : q \in {q \in posts : q.stage = "sent"}}
    BY DEF Orphaned
<1>2. ASSUME NEW q \in posts, q.stage = "sent"
      PROVE  PostTrue(alone(q))' /\ ~alone(q).live
  <2>1. PICK r : r = alone(q)
      OBVIOUS
  <2>2. q \in Post /\ Shows(q.ask, q.id)
      BY DEF PostsInv, PostTrue
  <2>3. r \in Post /\ r.id = q.id /\ r.ask = q.ask /\ r.stage = "sent" /\ ~r.live
      BY <1>2, <2>1, <2>2 DEF Post
  <2>4. Shows(r.ask, r.id)'
      BY <2>2, <2>3 DEF Shows, Mine, LaterAsks
  <2>5. PostTrue(r)'
      BY <2>3, <2>4 DEF PostTrue
  <2> QED  BY <2>1, <2>3, <2>5
<1> HIDE DEF alone
<1>3. \A p \in posts' : PostTrue(p)' /\ ~p.live
    BY <1>1, <1>2
<1> QED  BY <1>3 DEF PostsInv, LivePost

\* The page is loaded anew: no cards.
LEMMA ReloadPage ==
    ASSUME PostsInv, LaterAsks, Reload
    PROVE  PostsInv' /\ CardsInv'
<1>1. posts' = Orphaned /\ cards' = NoCards
    BY DEF Reload
<1>2. PostsInv'
    BY <1>1, OrphanedPosts
<1>3. NoCard \in [ask : Nat, state : CardStates, settled : BOOLEAN]
    BY DEF NoCard, CardStates
<1>4. cards' \in [Ids -> [ask : Nat, state : CardStates, settled : BOOLEAN]]
      /\ \A i \in Ids : cards'[i] = NoCard
    BY <1>1, <1>3 DEF NoCards
<1>5. \A i \in Ids : CardTrue(i)'
    BY <1>4 DEF CardTrue, NoCard
<1> QED  BY <1>2, <1>4, <1>5 DEF CardsInv

\* What the history says of an id.  If several questions had it, nothing is promised.
LEMMA HistoryCardStep ==
    ASSUME NEW rows, RowsTrue(rows), NEW i \in Ids
    PROVE  LET card == HistoryCard(rows, i)
           IN /\ card \in CardRec
              /\ \/ card = NoCard
                 \/ /\ Shows(card.ask, i) /\ card.state \in {"expired", "done"}
                    /\ card.state = "done" => card.settled
                    /\ card.state = "done" /\ OnlyOne(card.ask) =>
                           asks[card.ask].state = "answered"
<1> DEFINE asked == {n \in DOMAIN rows : rows[n].id = i /\ rows[n].kind = "asked"}
           first == Min(asked)
           ends == {n \in DOMAIN rows : rows[n].id = i /\ rows[n].kind # "asked" /\ n > first}
           last == Max(ends)
<1>1. HistoryCard(rows, i) =
        IF asked = {} THEN NoCard
        ELSE IF ends = {} THEN Card(rows[first].ask, "expired", FALSE)
        ELSE IF rows[last].kind = "timed_out" THEN Card(rows[first].ask, "expired", TRUE)
        ELSE Card(rows[first].ask, "done", TRUE)
    BY DEF HistoryCard
<1>2. DOMAIN rows = 1 .. Len(rows) /\ Len(rows) \in Nat
    BY LenProperties DEF RowsTrue
<1>3. asked \in SUBSET (1 .. Len(rows)) /\ ends \in SUBSET (1 .. Len(rows))
    BY <1>2
<1>4. CASE asked = {}
  <2>1. HistoryCard(rows, i) = NoCard /\ NoCard \in CardRec
      BY <1>1, <1>4 DEF NoCard, CardRec, CardStates
  <2> QED  BY <2>1
<1>5. CASE asked # {}
  <2>1. first \in asked
      BY <1>2, <1>3, <1>5, FirstAndLast
  <2>2. rows[first] \in LogRow /\ first \in DOMAIN rows /\ rows[first].id = i
      BY <1>2, <2>1, ElementOfSeq DEF RowsTrue
  <2>3. rows[first].ask \in Nat /\ Shows(rows[first].ask, i)
      BY <2>2 DEF LogRow, Asks, RowsTrue
  <2>4. CASE ends = {} \/ rows[last].kind = "timed_out"
    <3>1. PICK s \in BOOLEAN : HistoryCard(rows, i) = Card(rows[first].ask, "expired", s)
        BY <1>1, <1>5, <2>4
    <3> QED  BY <2>3, <3>1 DEF Card, CardRec, CardStates
  <2>5. CASE ends # {} /\ rows[last].kind # "timed_out"
    <3>1. HistoryCard(rows, i) = Card(rows[first].ask, "done", TRUE)
        BY <1>1, <1>5, <2>5
    <3>2. last \in ends
        BY <1>2, <1>3, <2>5, FirstAndLast
    <3>3. rows[last] \in LogRow /\ last \in DOMAIN rows /\ rows[last].id = i
          /\ rows[last].kind # "asked"
        BY <1>2, <3>2, ElementOfSeq DEF RowsTrue
    <3>4. rows[last].kind = "answered"
        BY <2>5, <3>3 DEF LogRow
    <3>5. Shows(rows[last].ask, i) /\ asks[rows[last].ask].state = "answered"
        BY <3>3, <3>4 DEF RowsTrue
    <3>6. OnlyOne(rows[first].ask) => rows[last].ask = rows[first].ask
        BY <2>3, <3>5 DEF OnlyOne, Shows, Mine
    <3>7. /\ Card(rows[first].ask, "done", TRUE) \in CardRec
          /\ Card(rows[first].ask, "done", TRUE).ask = rows[first].ask
          /\ Card(rows[first].ask, "done", TRUE).state = "done"
          /\ Card(rows[first].ask, "done", TRUE).settled
        BY <2>3 DEF Card, CardRec, CardStates
    <3> QED  BY <2>3, <3>1, <3>5, <3>6, <3>7
  <2> QED  BY <2>4, <2>5
<1> QED  BY <1>4, <1>5

\* The pane is drawn anew from the history.
LEMMA HistoryPage ==
    ASSUME RowsTrue(fetched), PostsInv, LaterAsks, HistoryArrives
    PROVE  PostsInv' /\ CardsInv'
<1>1. posts' = Orphaned /\ cards' = [i \in Ids |-> HistoryCard(fetched, i)] /\ UNCHANGED asks
    BY DEF HistoryArrives, server
<1>2. PostsInv' /\ \A i : ~LivePost(i)'
    BY <1>1, OrphanedPosts
<1>3. ASSUME NEW i \in Ids
      PROVE  cards'[i] \in CardRec /\ CardTrue(i)'
  <2>1. cards'[i] = HistoryCard(fetched, i)
      BY <1>1
  <2>2. /\ cards'[i] \in CardRec
        /\ \/ cards'[i] = NoCard
           \/ /\ Shows(cards'[i].ask, i) /\ cards'[i].state \in {"expired", "done"}
              /\ cards'[i].state = "done" => cards'[i].settled
              /\ cards'[i].state = "done" /\ OnlyOne(cards'[i].ask) =>
                     asks[cards'[i].ask].state = "answered"
      BY <2>1, HistoryCardStep
  <2>3. CASE cards'[i] = NoCard
      BY <2>2, <2>3 DEF CardTrue, NoCard
  <2>4. CASE cards'[i] # NoCard
    <3>1. Shows(cards[i].ask, i)' /\ (OnlyOne(cards[i].ask)' => OnlyOne(cards'[i].ask))
        BY <1>1, <2>2, <2>4 DEF Shows, Mine, OnlyOne
    <3> QED  BY <1>1, <2>2, <2>4, <3>1 DEF CardTrue
  <2> QED  BY <2>2, <2>3, <2>4
<1>4. cards' \in [Ids -> CardRec]
    BY <1>1, <1>3
<1> QED  BY <1>2, <1>3, <1>4 DEF CardsInv, CardRec

\* Every step keeps the answers and the cards true.
LEMMA PageSteps ==
    ASSUME AsksInv, RowsTrue(fetched), StreamInv, ListsInv, PostsInv, CardsInv, [Next]_vars
    PROVE  PostsInv' /\ CardsInv'
<1>1. LaterAsks
    BY ServerShapes, ServerSteps
<1>2. ASSUME \/ ConnectionLost \/ Reconnect \/ OpenSession \/ OpenAgain \/ HistoryDropped \/ ListIsServed
             \/ \E s \in Sessions : AskUser(s) \/ EmitOther(s)
             \/ \E k \in Asks : TimeOut(k)
             \/ \E request \in lists : ListFails(request)
             \/ UNCHANGED vars
      PROVE  UNCHANGED <<cards, posts>>
    BY <1>2 DEF ConnectionLost, Reconnect, OpenSession, OpenAgain, HistoryDropped, ListIsServed,
         AskUser, EmitOther, TimeOut, ListFails, vars, page
<1>3. ASSUME NEW p \in posts, PostFails(p) PROVE PostsInv' /\ CardsInv'
    BY <1>1, <1>3, RepliedStep DEF PostFails
<1> QED  BY <1>1, <1>2, <1>3, PageStays, RestartPage, DeliverPage, ReloadPage, HistoryPage,
         AnswerArrivesPage, ReplyArrivesPage, ListArrivesPage, CountdownPage, SubmitPage DEF Next

-----------------------------------------------------------------------------
(* The questions that wait for their user *)

Waits(k) == Parked(k) /\ asks[k].session = Shown /\ OnlyOne(k)
Drawn == {"pending", "expired", "done"}

\* After the step the card of question k shows it.
Stays(k) == cards'[asks[k].id].ask = k /\ cards'[asks[k].id].state \in Drawn

\* Question k stays on the page or on its way.
LEMMA ReachesStill ==
    ASSUME LaterAsks, NEW k \in DOMAIN asks, ShowsQuestion(k) \/ OnItsWay(k),
           ShowsQuestion(k) => Stays(k),
           \A i \in DOMAIN buckets.frames :
               buckets.frames[i].kind = "question" /\ buckets.frames[i].n = k =>
                   Stays(k) \/ \E j \in DOMAIN buckets'.frames : buckets'.frames[j] = buckets.frames[i],
           Unserved \in lists =>
               Stays(k) \/ Unserved \in lists' \/ \E r \in lists' : k \in r.open,
           \A q \in lists : k \in q.open =>
               Stays(k) \/ Unserved \in lists' \/ \E r \in lists' : k \in r.open
    PROVE  ShowsQuestion(k)' \/ OnItsWay(k)'
<1>1. asks'[k].id = asks[k].id
    BY DEF LaterAsks
<1>2. Stays(k) => ShowsQuestion(k)'
    BY <1>1 DEF Stays, Drawn, ShowsQuestion
<1>3. CASE ShowsQuestion(k)
    BY <1>2, <1>3
<1>4. CASE \E i \in DOMAIN buckets.frames : buckets.frames[i].kind = "question" /\ buckets.frames[i].n = k
    BY <1>2, <1>4 DEF OnItsWay
<1>5. CASE Unserved \in lists \/ \E q \in lists : k \in q.open
    BY <1>2, <1>5 DEF OnItsWay
<1> QED  BY <1>3, <1>4, <1>5 DEF OnItsWay

\* A card that shows a question still does when it is refreshed, for any question.
LEMMA RefreshKeeps ==
    ASSUME NEW card \in CardRec, NEW k, k # 0, card.ask = k, card.state \in Drawn, NEW j
    PROVE  Refreshed(card, j).ask = k /\ Refreshed(card, j).state \in Drawn
<1>1. card # NoCard
    BY DEF NoCard
<1>2. CASE card.state = "expired" /\ ~card.settled
  <2>1. Refreshed(card, j) = [card EXCEPT !.state = "pending"]
      BY <1>1, <1>2 DEF Refreshed
  <2> QED  BY <2>1 DEF CardRec, Drawn
<1>3. CASE ~(card.state = "expired" /\ ~card.settled)
  <2>1. Refreshed(card, j) = card
      BY <1>1, <1>3 DEF Refreshed
  <2> QED  BY <2>1
<1> QED  BY <1>2, <1>3

\* The places where a question that waits is known.
LEMMA WaitingQuestion ==
    ASSUME AsksInv, NEW k, Waits(k)
    PROVE  k \in DOMAIN asks /\ k \in Asks /\ k # 0 /\ asks[k].id \in Ids /\ Shows(k, asks[k].id)
<1>1. /\ k \in DOMAIN asks /\ asks \in Seq(Asked) /\ DOMAIN asks = 1 .. Len(asks)
      /\ Len(asks) \in Nat /\ Len(asks) <= MaxAsks /\ MaxAsks \in Nat
    BY LenProperties, QuestionsAssumption DEF AsksInv, Waits, Parked
<1>2. asks[k] \in Asked
    BY <1>1, ElementOfSeq
<1>3. asks[k].id \in Ids
    BY <1>2 DEF Asked
<1>4. k \in Asks /\ k # 0
    BY <1>1 DEF Asks
<1> QED  BY <1>1, <1>3, <1>4 DEF Shows, Mine, Waits

\* The card that is refreshed for a question that waits shows it.
LEMMA RefreshShows ==
    ASSUME AsksInv, CardsInv, NEW k, Waits(k)
    PROVE  LET card == Refreshed(cards[asks[k].id], k)
           IN card.ask = k /\ card.state \in Drawn
<1> DEFINE i == asks[k].id
<1>1. k \in DOMAIN asks /\ k # 0 /\ i \in Ids /\ Shows(k, i)
    BY WaitingQuestion
<1>2. cards[i] \in CardRec /\ CardTrue(i)
    BY <1>1 DEF CardsInv, CardRec
<1>3. CASE cards[i] = NoCard
    BY <1>3 DEF Refreshed, Card, Drawn
<1>4. CASE cards[i] # NoCard
  <2>1. Shows(cards[i].ask, i) /\ cards[i].state # "none"
      BY <1>2, <1>4 DEF CardTrue
  <2>2. cards[i].ask = k
      BY <1>1, <2>1 DEF Waits, OnlyOne, Shows, Mine
  <2>3. cards[i].state # "closed"
      BY <1>2, <2>2 DEF CardTrue, Waits, Parked
  <2>4. cards[i].state \in Drawn
      BY <1>2, <2>1, <2>3 DEF CardRec, CardStates, Drawn
  <2> HIDE DEF i
  <2> QED  BY <1>1, <1>2, <2>2, <2>4, RefreshKeeps DEF i
<1> QED  BY <1>3, <1>4

\* What the page knew before, if nothing went missing.
LEMMA WaitedBefore ==
    ASSUME PendingHasCard, LaterAsks, online, view = "shown", ~missed,
           NEW k \in DOMAIN asks, Waits(k)'
    PROVE  Waits(k) /\ (ShowsQuestion(k) \/ OnItsWay(k))
<1>1. Waits(k)
  <2>1. Parked(k)
      BY DEF Waits, Parked, LaterAsks
  <2>2. asks[k].session = Shown
      BY DEF Waits, LaterAsks
  <2>3. OnlyOne(k)
      BY DEF Waits, OnlyOne, LaterAsks
  <2> QED  BY <2>1, <2>2, <2>3 DEF Waits
<1> QED  BY <1>1 DEF PendingHasCard, Waits

\* A frame is emitted: an overflow of the session shown is known to be one.
LEMMA EmitReaches ==
    ASSUME StreamInv, PendingHasCard, LaterAsks, NEW frame \in Frame, Emit(frame),
           UNCHANGED <<online, cards, view, lists>>, online', view' = "shown", ~missed',
           NEW k \in DOMAIN asks, Waits(k)'
    PROVE  ShowsQuestion(k)' \/ OnItsWay(k)'
<1> DEFINE s == frame.session
<1>1. /\ online /\ view = "shown" /\ ~missed /\ buckets' = Push(buckets, frame)
      /\ ~(s = Shown /\ Overflows(buckets, Shown))
    BY DEF Emit
<1>2. Waits(k) /\ (ShowsQuestion(k) \/ OnItsWay(k))
    BY <1>1, WaitedBefore
<1>3. /\ \A i \in DOMAIN buckets.frames : buckets.frames[i].session # s \/ ~Overflows(buckets, s) =>
             \E j \in DOMAIN Push(buckets, frame).frames :
                 Push(buckets, frame).frames[j] = buckets.frames[i]
    BY PushStep DEF StreamInv
<1>4. ASSUME NEW i \in DOMAIN buckets.frames, buckets.frames[i].kind = "question",
             buckets.frames[i].n = k
      PROVE  \E j \in DOMAIN buckets'.frames : buckets'.frames[j] = buckets.frames[i]
  <2>1. buckets.frames[i].session = Shown
      BY <1>2, <1>4 DEF StreamInv, Waits
  <2> QED  BY <1>1, <1>3, <2>1
<1>5. ShowsQuestion(k) => Stays(k)
    BY DEF ShowsQuestion, Stays, Drawn
<1> QED  BY <1>2, <1>4, <1>5, ReachesStill

\* A question that is asked is on its way, and those before it still are.
LEMMA AskUserReaches ==
    ASSUME AsksInv, StreamInv, PendingHasCard, NEW s \in Sessions, AskUser(s),
           online', view' = "shown", ~missed', NEW k \in DOMAIN asks', Waits(k)'
    PROVE  ShowsQuestion(k)' \/ OnItsWay(k)'
<1> PICK frame : frame = [session |-> s, kind |-> "question", n |-> Len(asks) + 1]
    OBVIOUS
<1>1. Asking(s)
    BY DEF AskUser, Asking, NextRequestId
<1>2. /\ LaterAsks /\ asks'[Len(asks) + 1] = Question(s, counter + 1)
      /\ DOMAIN asks' = DOMAIN asks \cup {Len(asks) + 1} /\ Len(asks) + 1 \in Asks
    BY <1>1, AskingStep
<1>3. /\ frame \in Frame /\ frame.session = s /\ frame.kind = "question" /\ frame.n = Len(asks) + 1
    BY <1>2 DEF Frame, Asks
<1>4. Emit(frame) /\ UNCHANGED <<online, cards, view, lists>>
    BY DEF AskUser
<1>5. CASE k \in DOMAIN asks
    BY <1>2, <1>3, <1>4, <1>5, EmitReaches
<1>6. CASE k = Len(asks) + 1
  <2>1. s = Shown
      BY <1>2, <1>6 DEF Waits, Question
  <2>2. buckets' = Push(buckets, frame) /\ ~Overflows(buckets, s)
      BY <1>3, <1>4, <2>1 DEF Emit
  <2>3. ~Overflows(buckets, s) =>
            \E j \in DOMAIN Push(buckets, frame).frames : Push(buckets, frame).frames[j] = frame
      BY <1>3, PushStep DEF StreamInv
  <2> QED  BY <1>3, <1>6, <2>2, <2>3 DEF OnItsWay
<1> QED  BY <1>2, <1>5, <1>6

\* The head of the queue draws its card; the other frames are a step nearer.
LEMMA DeliverReaches ==
    ASSUME AsksInv, StreamInv, CardsInv, PendingHasCard, Deliver,
           online', view' = "shown", ~missed', NEW k \in DOMAIN asks', Waits(k)'
    PROVE  ShowsQuestion(k)' \/ OnItsWay(k)'
<1> DEFINE frames == buckets.frames
           head == Head(frames)
           i == asks[k].id
<1>1. /\ UNCHANGED <<server, online, view, lists, missed>> /\ buckets' = Shift(buckets)
      /\ IF head.kind = "question" /\ head.session = Shown
         THEN SetCard(asks[head.n].id, Refreshed(cards[asks[head.n].id], head.n))
         ELSE UNCHANGED cards
    BY DEF Deliver
<1>2. LaterAsks /\ k \in DOMAIN asks /\ online /\ view = "shown" /\ ~missed
    BY <1>1 DEF LaterAsks, server
<1>3. Waits(k) /\ (ShowsQuestion(k) \/ OnItsWay(k))
    BY <1>2, WaitedBefore
<1>4. k # 0 /\ i \in Ids
    BY <1>3, WaitingQuestion
<1>5. frames \in Seq(Frame) /\ frames # <<>>
    BY DEF Deliver, StreamInv, Buckets
<1>6. /\ Len(frames) \in Nat \ {0} /\ DOMAIN frames = 1 .. Len(frames) /\ head = frames[1]
      /\ DOMAIN Tail(frames) = 1 .. Len(frames) - 1
      /\ \A j \in 1 .. Len(frames) - 1 : Tail(frames)[j] = frames[j + 1]
  <2> HIDE DEF frames
  <2>1. Len(frames) \in Nat \ {0} /\ DOMAIN frames = 1 .. Len(frames) /\ Head(frames) = frames[1]
      BY <1>5, EmptySeq, LenProperties
  <2>2. /\ Tail(frames) \in Seq(Frame) /\ Len(Tail(frames)) = Len(frames) - 1
        /\ \A j \in 1 .. Len(Tail(frames)) : Tail(frames)[j] = frames[j + 1]
      BY <1>5, HeadTailProperties
  <2>3. DOMAIN Tail(frames) = 1 .. Len(frames) - 1
      BY <2>2, LenProperties
  <2> QED  BY <2>1, <2>2, <2>3
<1>7. buckets'.frames = Tail(frames)
  <2>1. buckets \in [frames : Seq(Frame), sessions : SUBSET Sessions]
      BY DEF StreamInv, Buckets
  <2> QED  BY <1>1, <2>1 DEF Shift
<1>8. cards \in [Ids -> CardRec] /\ cards[i] \in CardRec
    BY <1>4 DEF CardsInv, CardRec
<1> HIDE DEF frames, i
<1>9. ASSUME ShowsQuestion(k) PROVE Stays(k)
  <2>1. cards[i].ask = k /\ cards[i].state \in Drawn
      BY <1>9 DEF ShowsQuestion, Drawn, i
  <2>2. \A j : Refreshed(cards[i], j).ask = k /\ Refreshed(cards[i], j).state \in Drawn
      BY <1>4, <1>8, <2>1, RefreshKeeps
  <2>3. cards'[i] = cards[i] \/ \E j : cards'[i] = Refreshed(cards[i], j)
    <3>1. cards' = cards \/ \E j, n : cards' = [cards EXCEPT ![n] = Refreshed(cards[n], j)]
        BY <1>1 DEF SetCard
    <3> QED  BY <1>4, <1>8, <3>1
  <2> QED  BY <2>1, <2>2, <2>3 DEF Stays, i
<1>10. ASSUME NEW j \in DOMAIN frames, frames[j].kind = "question", frames[j].n = k
       PROVE  Stays(k) \/ \E n \in DOMAIN buckets'.frames : buckets'.frames[n] = frames[j]
  <2>1. CASE j = 1
    <3>1. frames[j].session = Shown
        BY <1>3, <1>10 DEF StreamInv, Waits, frames
    <3>2. cards' = [cards EXCEPT ![i] = Refreshed(cards[i], k)]
        BY <1>1, <1>6, <1>10, <2>1, <3>1 DEF SetCard, i
    <3>3. Refreshed(cards[i], k).ask = k /\ Refreshed(cards[i], k).state \in Drawn
        BY <1>3, RefreshShows DEF i
    <3> QED  BY <1>4, <1>8, <3>2, <3>3 DEF Stays, i
  <2>2. CASE j # 1
    <3>1. j - 1 \in 1 .. Len(frames) - 1 /\ (j - 1) + 1 = j
        BY <1>6, <2>2
    <3>2. j - 1 \in DOMAIN Tail(frames) /\ Tail(frames)[j - 1] = frames[j]
        BY <1>6, <3>1
    <3> QED  BY <1>7, <3>2
  <2> QED  BY <2>1, <2>2
<1> QED  BY <1>1, <1>2, <1>3, <1>9, <1>10, ReachesStill DEF frames

\* The list that is served has the question.
LEMMA ListIsServedReaches ==
    ASSUME AsksInv, PendingHasCard, ListIsServed,
           online', view' = "shown", ~missed', NEW k \in DOMAIN asks', Waits(k)'
    PROVE  ShowsQuestion(k)' \/ OnItsWay(k)'
<1> DEFINE open == {j \in Asks : Parked(j) /\ asks[j].session = Shown}
<1>1. /\ UNCHANGED <<server, buckets, online, cards, view, missed>>
      /\ lists' = (lists \cup {Served(open)}) \ {Unserved, Served({})}
    BY DEF ListIsServed
<1>2. LaterAsks /\ k \in DOMAIN asks /\ online /\ view = "shown" /\ ~missed
    BY <1>1 DEF LaterAsks, server
<1>3. Waits(k) /\ (ShowsQuestion(k) \/ OnItsWay(k))
    BY <1>2, WaitedBefore
<1>4. k \in open
    BY <1>3, WaitingQuestion DEF Waits
<1> HIDE DEF open
<1>5. \A q : k \in q.open => q # Unserved /\ q # Served({})
    BY DEF Unserved, Served
<1>6. Served(open).open = open
    BY DEF Served
<1>7. Served(open) \in lists' /\ k \in Served(open).open
    BY <1>1, <1>4, <1>5, <1>6
<1>8. ShowsQuestion(k) => Stays(k)
    BY <1>1 DEF ShowsQuestion, Stays, Drawn
<1> QED  BY <1>1, <1>2, <1>3, <1>7, <1>8, ReachesStill

\* The list that arrives draws the cards of its questions.
LEMMA ListArrivesReaches ==
    ASSUME AsksInv, ListsInv, CardsInv, PendingHasCard, NEW request \in lists, ListArrives(request),
           online', view' = "shown", ~missed', NEW k \in DOMAIN asks', Waits(k)'
    PROVE  ShowsQuestion(k)' \/ OnItsWay(k)'
<1> DEFINE i == asks[k].id
           chosen == CHOOSE j \in request.open : asks[j].id = i
<1>1. /\ UNCHANGED <<server, buckets, online, view, missed>> /\ request.served
      /\ lists' = lists \ {request} /\ cards' = RefreshedAll(request.open)
    BY DEF ListArrives
<1>2. LaterAsks /\ k \in DOMAIN asks /\ online /\ view = "shown" /\ ~missed
    BY <1>1 DEF LaterAsks, server
<1>3. Waits(k) /\ (ShowsQuestion(k) \/ OnItsWay(k))
    BY <1>2, WaitedBefore
<1>4. k # 0 /\ i \in Ids
    BY <1>3, WaitingQuestion
<1>5. cards'[i] = IF \E j \in request.open : asks[j].id = i THEN Refreshed(cards[i], chosen)
                  ELSE cards[i]
    BY <1>1, <1>4 DEF RefreshedAll
<1>6. cards[i] \in CardRec
    BY <1>4 DEF CardsInv, CardRec
<1> HIDE DEF chosen
<1>7. ASSUME ShowsQuestion(k) PROVE Stays(k)
  <2>1. cards[i].ask = k /\ cards[i].state \in Drawn
      BY <1>7 DEF ShowsQuestion, Drawn
  <2>2. Refreshed(cards[i], chosen).ask = k /\ Refreshed(cards[i], chosen).state \in Drawn
    <3> HIDE DEF i
    <3> QED  BY <1>4, <1>6, <2>1, RefreshKeeps
  <2> QED  BY <1>5, <2>1, <2>2 DEF Stays
<1>8. ASSUME k \in request.open PROVE Stays(k)
  <2>1. chosen \in request.open /\ asks[chosen].id = asks[k].id
      BY <1>8 DEF chosen
  <2>2. chosen = k
      BY <1>8, <2>1 DEF ListsInv
  <2>3. Refreshed(cards[i], k).ask = k /\ Refreshed(cards[i], k).state \in Drawn
      BY <1>3, RefreshShows
  <2> QED  BY <1>5, <1>8, <2>2, <2>3 DEF Stays
<1>9. Unserved \in lists => Unserved \in lists'
    BY <1>1 DEF Unserved
<1>10. \A q \in lists : k \in q.open => Stays(k) \/ \E r \in lists' : k \in r.open
    BY <1>1, <1>8
<1> QED  BY <1>1, <1>2, <1>3, <1>7, <1>9, <1>10, ReachesStill

\* Nothing but a card changes, and the card of the question keeps it.
LEMMA CardReaches ==
    ASSUME PendingHasCard, LaterAsks, UNCHANGED <<buckets, online, view, lists, missed>>,
           online', view' = "shown", ~missed', NEW k \in DOMAIN asks, Waits(k)',
           Waits(k) /\ ShowsQuestion(k) => Stays(k)
    PROVE  ShowsQuestion(k)' \/ OnItsWay(k)'
<1>1. Waits(k) /\ (ShowsQuestion(k) \/ OnItsWay(k))
    BY WaitedBefore
<1> QED  BY <1>1, ReachesStill

\* A countdown, an answer given, a reply: the card still shows its question, unless
\* the question waits no more.
LEMMA CardsKeep ==
    ASSUME AsksInv, PostsInv, CardsInv, NEW k, Waits(k), ShowsQuestion(k),
           \/ \E i \in Ids : CountdownEnds(i) \/ Submit(i)
           \/ \E p \in posts : ReplyArrives(p)
    PROVE  Stays(k)
<1> DEFINE i == asks[k].id
<1>1. i \in Ids
    BY WaitingQuestion
<1>2. cards \in [Ids -> CardRec] /\ cards[i] \in CardRec /\ cards[i].ask = k /\ cards[i].state \in Drawn
    BY <1>1 DEF CardsInv, CardRec, ShowsQuestion, Drawn
<1> HIDE DEF i
<1>3. ASSUME NEW j \in Ids, CountdownEnds(j) \/ Submit(j) PROVE Stays(k)
  <2>1. \/ cards' = [cards EXCEPT ![j] = [cards[j] EXCEPT !.state = "expired"]]
        \/ cards' = [cards EXCEPT ![j] = [cards[j] EXCEPT !.state = "done", !.settled = TRUE]]
      BY <1>3 DEF CountdownEnds, Submit, SetCard
  <2>2. \/ cards'[i] = cards[i]
        \/ cards'[i] = [cards[i] EXCEPT !.state = "expired"]
        \/ cards'[i] = [cards[i] EXCEPT !.state = "done", !.settled = TRUE]
      BY <1>1, <1>2, <2>1
  <2>3. cards'[i].ask = k /\ cards'[i].state \in Drawn
      BY <1>2, <2>2 DEF CardRec, Drawn
  <2> QED  BY <2>3 DEF Stays, i
<1>4. ASSUME NEW p \in posts, ReplyArrives(p) PROVE Stays(k)
  <2>1. /\ p.live /\ p.stage \in {"ok", "refused", "failed"} /\ cards[p.id].ask = p.ask
        /\ p.stage = "refused" => asks[p.ask].state # "parked"
      BY <1>4 DEF PostsInv, PostTrue, Post, ReplyArrives
  <2>2. cards' = [cards EXCEPT ![p.id] = AfterReply(cards[p.id], p.stage)]
      BY <1>4 DEF ReplyArrives, SetCard
  <2>3. CASE p.id # i
    <3>1. cards'[i] = cards[i]
        BY <1>1, <1>2, <2>2, <2>3
    <3> QED  BY <1>2, <3>1 DEF Stays, i
  <2>4. CASE p.id = i
    <3>1. cards'[i] = AfterReply(cards[i], p.stage)
        BY <1>1, <1>2, <2>2, <2>4
    <3>2. p.stage # "refused"
        BY <1>2, <2>1, <2>4 DEF Waits, Parked
    <3>3. CASE p.stage = "ok"
      <4>1. cards'[i] = cards[i]
          BY <3>1, <3>3 DEF AfterReply
      <4> QED  BY <1>2, <4>1 DEF Stays, i
    <3>4. CASE p.stage = "failed"
      <4>1. cards'[i] = [cards[i] EXCEPT !.state = "pending", !.settled = FALSE]
          BY <3>1, <3>4 DEF AfterReply
      <4>2. cards'[i].ask = k /\ cards'[i].state \in Drawn
          BY <1>2, <4>1 DEF CardRec, Drawn
      <4> QED  BY <4>2 DEF Stays, i
    <3> QED  BY <2>1, <3>2, <3>3, <3>4
  <2> QED  BY <2>3, <2>4
<1> QED  BY <1>3, <1>4

\* Every step keeps the questions that wait on the page or on their way.
LEMMA PendingSteps ==
    ASSUME QuestionInv, [Next]_vars
    PROVE  PendingHasCard'
<1> SUFFICES ASSUME online', view' = "shown", ~missed', NEW k \in DOMAIN asks', Waits(k)'
             PROVE  ShowsQuestion(k)' \/ OnItsWay(k)'
    BY DEF PendingHasCard, Waits
<1>1. /\ AsksInv /\ StreamInv /\ ListsInv /\ PostsInv /\ CardsInv /\ PendingHasCard
      /\ LaterAsks
    BY ServerShapes, ServerSteps DEF QuestionInv
<1>2. ASSUME \/ Restart \/ ConnectionLost \/ Reload \/ OpenSession \/ HistoryDropped
             \/ \E request \in lists : ListFails(request)
      PROVE  FALSE
    BY <1>2 DEF Restart, ConnectionLost, Reload, OpenSession, HistoryDropped, ListFails
<1>3. ASSUME Reconnect \/ OpenAgain \/ HistoryArrives PROVE OnItsWay(k)'
  <2>1. Unserved \in lists'
      BY <1>3 DEF Reconnect, OpenAgain, HistoryArrives, RequestList
  <2> QED  BY <2>1 DEF OnItsWay
<1>4. ASSUME NEW s \in Sessions, EmitOther(s) PROVE ShowsQuestion(k)' \/ OnItsWay(k)'
  <2>1. PICK frame : frame = [session |-> s, kind |-> "other", n |-> 0]
      OBVIOUS
  <2>2. frame \in Frame /\ Emit(frame) /\ UNCHANGED <<asks, online, cards, view, lists>>
      BY <1>4, <2>1 DEF Frame, EmitOther, server
  <2> QED  BY <1>1, <2>2, EmitReaches
<1>5. ASSUME \/ \E j \in Asks : TimeOut(j)
             \/ \E p \in posts : AnswerArrives(p) \/ PostFails(p)
             \/ UNCHANGED vars
      PROVE  ShowsQuestion(k)' \/ OnItsWay(k)'
  <2>1. UNCHANGED <<buckets, online, cards, view, lists, missed>>
      BY <1>5 DEF TimeOut, AnswerArrives, PostFails, vars, page
  <2>2. k \in DOMAIN asks
    <3>1. DOMAIN asks' = DOMAIN asks
        BY <1>5 DEF TimeOut, AnswerArrives, PostFails, Settle, vars, server
    <3> QED  BY <3>1
  <2>3. ShowsQuestion(k) => Stays(k)
      BY <2>1 DEF ShowsQuestion, Stays, Drawn
  <2> QED  BY <1>1, <2>1, <2>2, <2>3, CardReaches
<1>6. ASSUME \/ \E i \in Ids : CountdownEnds(i) \/ Submit(i)
             \/ \E p \in posts : ReplyArrives(p)
      PROVE  ShowsQuestion(k)' \/ OnItsWay(k)'
  <2>1. UNCHANGED <<asks, buckets, online, view, lists, missed>>
      BY <1>6 DEF CountdownEnds, Submit, ReplyArrives, server
  <2>2. Waits(k) /\ ShowsQuestion(k) => Stays(k)
      BY <1>1, <1>6, CardsKeep
  <2> QED  BY <1>1, <2>1, <2>2, CardReaches
<1> QED  BY <1>1, <1>2, <1>3, <1>4, <1>5, <1>6, AskUserReaches, DeliverReaches,
         ListIsServedReaches, ListArrivesReaches DEF Next

-----------------------------------------------------------------------------
(* The theorems *)

\* Nothing is asked yet.
LEMMA QuestionInit == Init => QuestionInv
<1> SUFFICES ASSUME Init PROVE QuestionInv
    OBVIOUS
<1>1. /\ asks = <<>> /\ log = <<>> /\ fetched = <<>> /\ counter = 0
      /\ buckets = [frames |-> <<>>, sessions |-> {}] /\ online = TRUE
      /\ lists = {} /\ posts = {} /\ cards = NoCards
    BY DEF Init, EmptyBuckets
<1>2. /\ DOMAIN <<>> = {} /\ Len(<<>>) = 0
      /\ <<>> \in Seq(Asked) /\ <<>> \in Seq(LogRow) /\ <<>> \in Seq(Frame)
    BY EmptySeq
<1>3. AsksInv
    BY <1>1, <1>2, QuestionsAssumption DEF AsksInv
<1>4. RowsTrue(log) /\ RowsTrue(fetched)
    BY <1>1, <1>2 DEF RowsTrue
<1>5. StreamInv
  <2>1. buckets \in [frames : Seq(Frame), sessions : SUBSET Sessions] /\ DOMAIN buckets.frames = {}
      BY <1>1, <1>2
  <2> QED  BY <1>1, <2>1 DEF StreamInv, Buckets
<1>6. ListsInv /\ PostsInv
    BY <1>1 DEF ListsInv, PostsInv
<1>7. CardsInv
  <2>1. NoCard \in [ask : Nat, state : CardStates, settled : BOOLEAN]
      BY DEF NoCard, CardStates
  <2>2. cards \in [Ids -> [ask : Nat, state : CardStates, settled : BOOLEAN]]
        /\ \A i \in Ids : cards[i] = NoCard
      BY <1>1, <2>1 DEF NoCards
  <2>3. \A i \in Ids : CardTrue(i)
      BY <2>2 DEF CardTrue, NoCard
  <2> QED  BY <2>2, <2>3 DEF CardsInv
<1>8. PendingHasCard
    BY <1>1, <1>2 DEF PendingHasCard
<1> QED  BY <1>3, <1>4, <1>5, <1>6, <1>7, <1>8 DEF QuestionInv

\* Every step keeps the invariant.
LEMMA QuestionSteps ==
    ASSUME QuestionInv, [Next]_vars
    PROVE  QuestionInv'
<1>1. /\ AsksInv /\ RowsTrue(log) /\ RowsTrue(fetched) /\ StreamInv /\ ListsInv /\ PostsInv /\ CardsInv
    BY DEF QuestionInv
<1>2. AsksInv' /\ LaterAsks /\ RowsTrue(log)'
    BY <1>1, ServerShapes, ServerSteps, LogSteps
<1>3. RowsTrue(fetched)' /\ StreamInv' /\ ListsInv'
    BY <1>1, <1>2, FetchedSteps, StreamSteps, ListsSteps
<1>4. PostsInv' /\ CardsInv'
    BY <1>1, PageSteps
<1>5. PendingHasCard'
    BY PendingSteps
<1> QED  BY <1>2, <1>3, <1>4, <1>5 DEF QuestionInv

\* The invariant of the questions holds in every reachable state.
THEOREM QuestionsHold == Spec => []QuestionInv
<1>1. QuestionInv /\ [Next]_vars => QuestionInv'
    BY QuestionSteps
<1> QED  BY QuestionInit, <1>1, PTL DEF Spec

\* The types, and no two questions that wait have one id: the failure of the
\* registry on an id that is taken (question-registry.ts:226) is out of reach.
THEOREM QuestionsTypeInv == Spec => []TypeOK
<1>1. QuestionInv => TypeOK
  <2> SUFFICES ASSUME QuestionInv PROVE TypeOK
      OBVIOUS
  <2>1. AsksInv /\ StreamInv /\ CardsInv
      BY DEF QuestionInv
  <2>2. /\ asks \in Seq(Asked) /\ DOMAIN asks = 1 .. Len(asks) /\ Len(asks) \in Nat
        /\ Len(asks) <= MaxAsks /\ MaxAsks \in Nat
      BY <2>1, LenProperties, QuestionsAssumption DEF AsksInv
  <2>3. counter \in 0 .. MaxAsks
      BY <2>1, <2>2 DEF AsksInv
  <2>4. ASSUME NEW k \in DOMAIN asks PROVE asks[k] \in Asked
      BY <2>2, ElementOfSeq
  <2>5. \A k \in DOMAIN asks :
          /\ asks[k].session \in Sessions /\ asks[k].id \in Ids /\ asks[k].by \in 0..MaxAsks
          /\ asks[k].state \in {"parked", "answered", "timed_out", "lost"}
      BY <2>4 DEF Asked
  <2>6. \A j, k \in Asks : Parked(j) /\ Parked(k) /\ asks[j].id = asks[k].id => j = k
      BY <2>1 DEF AsksInv, Parked
  <2>7. online \in BOOLEAN
      BY <2>1 DEF StreamInv
  <2>8. ASSUME NEW i \in Ids
        PROVE  /\ cards[i].ask \in 0..Len(asks)
               /\ cards[i].state \in {"none", "pending", "done", "expired", "closed"}
               /\ cards[i].state \in {"done", "closed"} => cards[i].settled
    <3>1. cards[i] \in CardRec /\ CardTrue(i)
        BY <2>1 DEF CardsInv, CardRec
    <3>2. cards[i].state \in {"none", "pending", "done", "expired", "closed"}
        BY <3>1 DEF CardRec, CardStates
    <3>3. cards[i].ask \in 0..Len(asks)
        BY <2>2, <3>1 DEF CardTrue, Shows, Mine, NoCard
    <3> QED  BY <3>1, <3>2, <3>3 DEF CardTrue
  <2> QED  BY <2>3, <2>5, <2>6, <2>7, <2>8 DEF TypeOK
<1> QED  BY <1>1, QuestionsHold, PTL

\* An answer settles a question of the session on whose card it was given, also
\* when the ids have started again.
THEOREM AnswersStayInTheirSession == Spec => []AnswerStaysInSession
<1>1. QuestionInv => AnswerStaysInSession
    BY DEF QuestionInv, AsksInv, AnswerStaysInSession, Mine
<1> QED  BY <1>1, QuestionsHold, PTL

\* A question that waits for its user is on the page of its session, or on its way
\* there, unless an overflow of that session or a failed list lost it.
THEOREM PendingQuestionsAreShown == Spec => []PendingHasCard
<1>1. QuestionInv => PendingHasCard
    BY DEF QuestionInv
<1> QED  BY <1>1, QuestionsHold, PTL

\* A card drawn as answered is the card of an answered question when no reply to it
\* is outstanding, and one drawn as closed is the card of one that waits no more.
THEOREM CardsTellTheTruth == Spec => []CardTellsTruth
<1>1. QuestionInv => CardTellsTruth
    BY DEF QuestionInv, CardsInv, CardTrue, CardTellsTruth
<1> QED  BY <1>1, QuestionsHold, PTL

\* A step that neither delivers nor disconnects leaves every session its frames, or
\* costs the one that fills its share what it had, and it gets the marker.
LEMMA OverflowSteps ==
    ASSUME StreamInv, [Next]_vars, online, online', ~Deliver, NEW s \in Sessions
    PROVE  \/ IsPrefix(OwnFrames(buckets, s), OwnFrames(buckets', s))
           \/ /\ OwnFrames(buckets', s) = << LaggedMarker(s, Len(OwnFrames(buckets, s)) + 1) >>
              /\ \A t \in Sessions \ {s} : OwnFrames(buckets', t) = OwnFrames(buckets, t)
<1>1. OwnFrames(buckets, s) \in Seq(Frame)
  <2>1. buckets.frames \in Seq(Frame)
      BY DEF StreamInv, Buckets
  <2> QED  BY <2>1, PartStep DEF OwnFrames
<1>2. CASE UNCHANGED buckets
    BY <1>1, <1>2, GrownQueue
<1>3. ASSUME NEW frame, frame \in Frame, buckets' = Push(buckets, frame)
      PROVE  \/ IsPrefix(OwnFrames(buckets, s), OwnFrames(buckets', s))
             \/ /\ OwnFrames(buckets', s) = << LaggedMarker(s, Len(OwnFrames(buckets, s)) + 1) >>
                /\ \A t \in Sessions \ {s} : OwnFrames(buckets', t) = OwnFrames(buckets, t)
  <2>1. LET r == frame.session
        IN /\ \/ OwnFrames(buckets', r) = Append(OwnFrames(buckets, r), frame)
              \/ OwnFrames(buckets', r) = << LaggedMarker(r, Len(OwnFrames(buckets, r)) + 1) >>
           /\ \A t \in Sessions \ {r} : OwnFrames(buckets', t) = OwnFrames(buckets, t)
      BY <1>3, PushStep DEF StreamInv
  <2>2. IsPrefix(OwnFrames(buckets, s), OwnFrames(buckets, s))
        /\ IsPrefix(OwnFrames(buckets, s), Append(OwnFrames(buckets, s), frame))
      BY <1>1, <1>3, GrownQueue
  <2> QED  BY <2>1, <2>2
<1>4. ASSUME NEW r \in Sessions, AskUser(r)
      PROVE  \E frame \in Frame : buckets' = Push(buckets, frame)
  <2>1. Len(asks) + 1 \in Nat
      BY <1>4 DEF AskUser
  <2> QED  BY <1>4, <2>1 DEF AskUser, Emit, Frame
<1>5. ASSUME NEW r \in Sessions, EmitOther(r)
      PROVE  \E frame \in Frame : buckets' = Push(buckets, frame)
    BY <1>5 DEF EmitOther, Emit, Frame
<1>6. ASSUME \/ Restart \/ ConnectionLost \/ Reconnect \/ Reload
      PROVE  FALSE
    BY <1>6 DEF Restart, ConnectionLost, Reconnect, Reload
<1>7. ASSUME \/ OpenSession \/ OpenAgain \/ HistoryArrives \/ HistoryDropped \/ ListIsServed
             \/ \E k \in Asks : TimeOut(k)
             \/ \E p \in posts : AnswerArrives(p) \/ PostFails(p) \/ ReplyArrives(p)
             \/ \E request \in lists : ListArrives(request) \/ ListFails(request)
             \/ \E i \in Ids : CountdownEnds(i) \/ Submit(i)
             \/ UNCHANGED vars
      PROVE  UNCHANGED buckets
    BY <1>7 DEF OpenSession, OpenAgain, HistoryArrives, HistoryDropped, ListIsServed, TimeOut,
         AnswerArrives, PostFails, ReplyArrives, ListArrives, ListFails, CountdownEnds, Submit, vars
<1> QED  BY <1>2, <1>3, <1>4, <1>5, <1>6, <1>7 DEF Next

\* What one session emits never costs another its frames, and a session that loses
\* its own gets a marker that counts them (sse.ts:10-14).
THEOREM OverflowIsIsolated == Spec => IsolatedOverflow
<1>1. StreamInv /\ [Next]_vars =>
        [ online /\ online' /\ ~Deliver =>
          \A s \in Sessions :
              \/ IsPrefix(OwnFrames(buckets, s), OwnFrames(buckets', s))
              \/ /\ OwnFrames(buckets', s) =
                      << LaggedMarker(s, Len(OwnFrames(buckets, s)) + 1) >>
                 /\ \A t \in Sessions \ {s} : OwnFrames(buckets', t) = OwnFrames(buckets, t) ]_vars
    BY OverflowSteps
<1>2. QuestionInv => StreamInv
    BY DEF QuestionInv
<1> QED  BY <1>1, <1>2, QuestionsHold, PTL DEF Spec, IsolatedOverflow
=============================================================================
