------------------------ MODULE PayloadCollectionProofs -----------------------
(***************************************************************************)
(* Theorems about PayloadCollection, for every value of its constants.     *)
(*                                                                         *)
(* The buffer, the extraction and the collection are folds, so what they   *)
(* compute is proved by induction: over a set of naturals that holds 0 and *)
(* every successor, which the well-founded order of finite sets justifies. *)
(* FoldIsIterated then gives each fold as a function from 0 to the number  *)
(* of elements, each value a step from the one before.                     *)
(***************************************************************************)
EXTENDS PayloadCollection, FiniteSetTheorems, WellFoundedInduction, TLAPS

-----------------------------------------------------------------------------
(* Induction and folds *)

\* Every nonempty set of naturals has a least element: among the intervals that its
\* elements begin, ordered by inclusion, there is a smallest.
LEMMA LeastElement ==
    ASSUME NEW T, T \subseteq Nat, T # {}
    PROVE  \E x \in T : \A y \in T : x <= y
  <1>. DEFINE Below(x) == {n \in Nat : n < x}
              Intervals == {Below(x) : x \in T}
  <1>1. \A x \in T : IsFiniteSet(Below(x))
    <2>. SUFFICES ASSUME NEW x \in T PROVE IsFiniteSet(Below(x))
      OBVIOUS
    <2>1. \A s \in Below(x) : s <= x
      OBVIOUS
    <2>2. Below(x) \in SUBSET Nat /\ x \in Nat
      OBVIOUS
    <2>. HIDE DEF Below
    <2>. QED BY <2>1, <2>2, FS_BoundedSetOfNaturals
  <1>2. Intervals \subseteq FiniteSubsetsOf(Nat) /\ Intervals # {}
    BY <1>1 DEF FiniteSubsetsOf
  <1>3. IsWellFoundedOn(StrictSubsetOrdering(Nat), FiniteSubsetsOf(Nat))
    BY FS_StrictSubsetOrderingWellFounded
  <1>4. PICK I \in Intervals : \A J \in Intervals : <<J, I>> \notin StrictSubsetOrdering(Nat)
    <2>. HIDE DEF Intervals
    <2>. QED BY <1>2, <1>3, WFMin
  <1>5. PICK x \in T : I = Below(x)
    OBVIOUS
  <1>6. ASSUME NEW y \in T, ~(x <= y)
        PROVE  FALSE
    <2>1. y \in Nat /\ x \in Nat /\ y < x
      BY <1>6
    <2>2. Below(y) \subseteq Below(x) /\ y \in Below(x) /\ y \notin Below(y)
      BY <2>1
    <2>3. <<Below(y), I>> \in StrictSubsetOrdering(Nat)
      BY <2>2, <1>5 DEF StrictSubsetOrdering
    <2>. QED BY <1>4, <2>3
  <1>. QED BY <1>6

\* Induction, said of a set.
LEMMA SetInduction ==
    ASSUME NEW S, 0 \in S, \A n \in Nat : n \in S => n + 1 \in S
    PROVE  Nat \subseteq S
  <1>. SUFFICES ASSUME Nat \ S # {} PROVE FALSE
    OBVIOUS
  <1>1. PICK x \in Nat \ S : \A y \in Nat \ S : x <= y
    BY LeastElement
  <1>2. x # 0 /\ x \in Nat
    OBVIOUS
  <1>3. x - 1 \in Nat /\ x - 1 \in S /\ (x - 1) + 1 = x
    BY <1>1, <1>2
  <1>. QED BY <1>1, <1>3

\* What FoldLeft iterates: there is a function on the sets of indices that takes
\* the last one of a set last.
IsFold(f, n, base, step) ==
    \A s \in SUBSET (1 .. n) :
        f[s] = IF s = {} THEN base ELSE step[<<f[s \ {Max(s)}], Max(s)>>]

LEMMA IterationExists ==
    ASSUME NEW N \in Nat, NEW A, NEW base \in A, NEW step \in [A \X (1 .. N) -> A]
    PROVE  \E f \in [SUBSET (1 .. N) -> A] : IsFold(f, N, base, step)
  <1>. DEFINE Iterates(f, n) == IsFold(f, n, base, step)
              Good == {n \in Nat : n <= N => \E f \in [SUBSET (1 .. n) -> A] : Iterates(f, n)}
  <1>1. 0 \in Good
    <2>1. [s \in SUBSET (1 .. 0) |-> base] \in [SUBSET (1 .. 0) -> A]
      OBVIOUS
    <2>2. \A s \in SUBSET (1 .. 0) : s = {}
      OBVIOUS
    <2>. QED BY <2>1, <2>2 DEF IsFold
  <1>2. ASSUME NEW n \in Nat, n \in Good, n + 1 <= N
        PROVE  \E f \in [SUBSET (1 .. n + 1) -> A] : Iterates(f, n + 1)
    <2>1. PICK g \in [SUBSET (1 .. n) -> A] : Iterates(g, n)
      <3>. HIDE DEF Iterates
      <3>1. n <= N
        BY <1>2
      <3>. QED BY <1>2, <3>1
    <2>. DEFINE f == [s \in SUBSET (1 .. n + 1) |->
                        IF n + 1 \in s THEN step[<<g[s \ {n + 1}], n + 1>>] ELSE g[s]]
    <2>2. ASSUME NEW s \in SUBSET (1 .. n + 1)
          PROVE  /\ n + 1 \notin s => s \in SUBSET (1 .. n)
                 /\ s \ {n + 1} \in SUBSET (1 .. n) /\ n + 1 \notin s \ {n + 1}
      OBVIOUS
    <2>3. f \in [SUBSET (1 .. n + 1) -> A]
      <3>1. ASSUME NEW s \in SUBSET (1 .. n + 1), n + 1 \in s
            PROVE  step[<<g[s \ {n + 1}], n + 1>>] \in A
        <4>1. g[s \ {n + 1}] \in A /\ n + 1 \in 1 .. N
          BY <2>2, <1>2
        <4>. QED BY <4>1
      <3>. QED BY <3>1, <2>2
    <2>4. ASSUME NEW s \in SUBSET (1 .. n + 1), n + 1 \in s
          PROVE  Max(s) = n + 1
      <3>1. \A y \in s : n + 1 >= y
        OBVIOUS
      <3>2. \A x \in s : (\A y \in s : x >= y) => x = n + 1
        <4>. SUFFICES ASSUME NEW x \in s, x >= n + 1 PROVE x = n + 1
          BY <2>4
        <4>. QED OBVIOUS
      <3>. QED BY <3>1, <3>2, <2>4 DEF Max
    <2>5. ASSUME NEW s \in SUBSET (1 .. n)
          PROVE  s \in SUBSET (1 .. n + 1) /\ f[s] = g[s]
      OBVIOUS
    <2>6. ASSUME NEW s \in SUBSET (1 .. n), s # {}
          PROVE  f[s \ {Max(s)}] = g[s \ {Max(s)}]
      <3>1. s \ {Max(s)} \in SUBSET (1 .. n)
        OBVIOUS
      <3>. QED BY <3>1, <2>5
    <2>7. ASSUME NEW s \in SUBSET (1 .. n + 1)
          PROVE  f[s] = IF s = {} THEN base ELSE step[<<f[s \ {Max(s)}], Max(s)>>]
      <3>1. CASE n + 1 \in s
        <4>1. f[s] = step[<<g[s \ {n + 1}], n + 1>>]
          BY <3>1
        <4>2. f[s \ {n + 1}] = g[s \ {n + 1}]
          BY <2>2, <2>5
        <4>. HIDE DEF f
        <4>. QED BY <3>1, <4>1, <4>2, <2>4
      <3>2. CASE n + 1 \notin s
        <4>1. s \in SUBSET (1 .. n)
          BY <3>2, <2>2
        <4>2. f[s] = g[s]
          BY <4>1, <2>5
        <4>3. g[s] = IF s = {} THEN base ELSE step[<<g[s \ {Max(s)}], Max(s)>>]
          BY <2>1, <4>1 DEF IsFold
        <4>. HIDE DEF f
        <4>. QED BY <4>1, <4>2, <4>3, <2>6
      <3>. QED BY <3>1, <3>2
    <2>8. Iterates(f, n + 1)
      <3>. HIDE DEF f
      <3>. QED BY <2>7 DEF IsFold
    <2>. HIDE DEF f, Iterates
    <2>. QED BY <2>3, <2>8
  <1>. HIDE DEF Iterates
  <1>3. ASSUME NEW n \in Nat, n \in Good
        PROVE  n + 1 \in Good
    <2>1. n + 1 \in Nat
      OBVIOUS
    <2>. QED BY <1>2, <1>3, <2>1
  <1>4. N \in Good
    <2>. HIDE DEF Good
    <2>1. Nat \subseteq Good
      BY <1>1, <1>3, SetInduction
    <2>. QED BY <2>1
  <1>5. \E f \in [SUBSET (1 .. N) -> A] : Iterates(f, N)
    <2>1. N <= N
      OBVIOUS
    <2>. QED BY <1>4, <2>1, Zenon
  <1>. QED BY <1>5 DEF Iterates

\* A set of numbers up to n has a largest one.
LEMMA LargestMember ==
    ASSUME NEW n \in Nat, NEW s \in SUBSET (1 .. n), s # {}
    PROVE  Max(s) \in s /\ \A y \in s : Max(s) >= y
  <1>. DEFINE Gaps == {n - x : x \in s}
  <1>1. Gaps \subseteq Nat /\ Gaps # {}
    <2>1. \A x \in s : x \in 1 .. n
      OBVIOUS
    <2>2. \A x \in 1 .. n : n - x \in Nat
      OBVIOUS
    <2>. QED BY <2>1, <2>2
  <1>2. PICK g \in Gaps : \A y \in Gaps : g <= y
    <2>. HIDE DEF Gaps
    <2>. QED BY <1>1, LeastElement
  <1>3. PICK x \in s : g = n - x
    OBVIOUS
  <1>4. \A y \in s : x >= y
    <2>. SUFFICES ASSUME NEW y \in s PROVE x >= y
      OBVIOUS
    <2>1. n - x <= n - y
      BY <1>2, <1>3
    <2>. QED BY <2>1
  <1>. QED BY <1>4 DEF Max

\* The elements up to n, and the last of them
LEMMA LastOfFirst ==
    ASSUME NEW n \in Nat, n > 0
    PROVE  Max(1 .. n) = n /\ (1 .. n) \ {Max(1 .. n)} = 1 .. (n - 1) /\ 1 .. n # {}
  <1>1. \A x \in 1 .. n : (\A y \in 1 .. n : x >= y) => x = n
    <2>. SUFFICES ASSUME NEW x \in 1 .. n, x >= n PROVE x = n
      OBVIOUS
    <2>. QED OBVIOUS
  <1>2. n \in 1 .. n /\ \A y \in 1 .. n : n >= y
    OBVIOUS
  <1>3. Max(1 .. n) = n
    BY <1>1, <1>2 DEF Max
  <1>. QED BY <1>2, <1>3

\* The same step by step: from base, one index after the other.
StepByStep(result, n, A, base, step) ==
    \E h \in [0 .. n -> A] : /\ h[0] = base
                             /\ \A k \in 1 .. n : h[k] = step[<<h[k - 1], k>>]
                             /\ h[n] = result

\* What IsFold says, as far as the values are known to be of the right type.
Unrolls(F, n, A, base, step) ==
    /\ F[{}] = base
    /\ \A s \in SUBSET (1 .. n) :
          s # {} /\ F[s \ {Max(s)}] \in A => F[s] = step[<<F[s \ {Max(s)}], Max(s)>>]

\* A function on the sets of indices that takes the last one last takes 1 to n in
\* turn.
LEMMA FoldIsIterated ==
    ASSUME NEW N \in Nat, NEW A, NEW base \in A, NEW step \in [A \X (1 .. N) -> A], NEW F,
           Unrolls(F, N, A, base, step)
    PROVE  StepByStep(F[1 .. N], N, A, base, step)
  <1>. DEFINE h == [n \in 0 .. N |-> F[1 .. n]]
              Typed == {n \in Nat : n <= N => F[1 .. n] \in A}
  <1>1. F[1 .. 0] = base
    BY 1 .. 0 = {} DEF Unrolls
  <1>2. ASSUME NEW n \in 1 .. N, F[1 .. (n - 1)] \in A
        PROVE  F[1 .. n] = step[<<F[1 .. (n - 1)], n>>]
    <2>1. 1 .. n \in SUBSET (1 .. N) /\ n \in Nat /\ n > 0
      OBVIOUS
    <2>2. Max(1 .. n) = n /\ (1 .. n) \ {Max(1 .. n)} = 1 .. (n - 1) /\ 1 .. n # {}
      BY <2>1, LastOfFirst
    <2>. QED BY <1>2, <2>1, <2>2 DEF Unrolls
  <1>3. \A n \in Nat : n \in Typed => n + 1 \in Typed
    <2>. SUFFICES ASSUME NEW n \in Nat, n \in Typed, n + 1 <= N PROVE F[1 .. (n + 1)] \in A
      OBVIOUS
    <2>1. n + 1 \in 1 .. N /\ (n + 1) - 1 = n /\ F[1 .. n] \in A
      OBVIOUS
    <2>2. F[1 .. (n + 1)] = step[<<F[1 .. n], n + 1>>]
      BY <2>1, <1>2
    <2>. QED BY <2>1, <2>2
  <1>4. \A n \in 0 .. N : F[1 .. n] \in A
    <2>1. 0 \in Typed
      BY <1>1
    <2>. HIDE DEF Typed
    <2>2. Nat \subseteq Typed
      BY <2>1, <1>3, SetInduction
    <2>. QED BY <2>2 DEF Typed
  <1>5. h \in [0 .. N -> A]
    BY <1>4
  <1>6. ASSUME NEW k \in 1 .. N
        PROVE  h[k] = step[<<h[k - 1], k>>]
    <2>1. k - 1 \in 0 .. N /\ k \in 0 .. N
      OBVIOUS
    <2>2. h[k] = F[1 .. k] /\ h[k - 1] = F[1 .. (k - 1)]
      BY <2>1
    <2>3. F[1 .. (k - 1)] \in A
      BY <2>1, <1>4
    <2>. HIDE DEF h
    <2>. QED BY <2>2, <2>3, <1>2
  <1>7. h[0] = base /\ h[N] = F[1 .. N]
    BY <1>1
  <1>. HIDE DEF h
  <1>. QED BY <1>5, <1>6, <1>7 DEF StepByStep

\* A captured body and where it came from
Payload == [url : STRING, body : Seq(Node)]

LEMMA RecordedType ==
    ASSUME NEW buffer \in Seq(Payload), NEW url \in STRING, NEW body \in Seq(Node)
    PROVE  Recorded(buffer, url, body) \in Seq(Payload)
  <1>1. [url |-> url, body |-> body] \in Payload
    BY DEF Payload
  <1>. HIDE DEF Payload
  <1>. QED BY <1>1 DEF Recorded

RecordAll(buffer, url, bodies) ==
    FoldLeft(LAMBDA b, body : Recorded(b, url, body), buffer, bodies)

\* A response's bodies are recorded one by one.
LEMMA RecordingOneByOne ==
    ASSUME NEW buffer \in Seq(Payload), NEW url \in STRING, NEW bodies \in Seq(Seq(Node))
    PROVE  \E h \in [0 .. Len(bodies) -> Seq(Payload)] :
              /\ h[0] = buffer
              /\ \A n \in 1 .. Len(bodies) : h[n] = Recorded(h[n - 1], url, bodies[n])
              /\ h[Len(bodies)] = RecordAll(buffer, url, bodies)
  <1>. DEFINE N == Len(bodies)
              A == Seq(Payload)
              Iterates(f) == f = [s \in SUBSET (1 .. N) |->
                 IF s = {} THEN buffer ELSE Recorded(f[s \ {Max(s)}], url, bodies[Max(s)])]
              step == [q \in A \X (1 .. N) |-> Recorded(q[1], url, bodies[q[2]])]
              F == CHOOSE f : Iterates(f)
  <1>1. N \in Nat /\ DOMAIN bodies = 1 .. N /\ buffer \in A
    OBVIOUS
  <1>2. step \in [A \X (1 .. N) -> A]
    <2>1. ASSUME NEW q \in A \X (1 .. N) PROVE Recorded(q[1], url, bodies[q[2]]) \in A
      <3>1. q[1] \in A /\ bodies[q[2]] \in Seq(Node)
        OBVIOUS
      <3>. QED BY <3>1, RecordedType
    <2>. QED BY <2>1
  <1>3. \A b \in A, k \in 1 .. N : step[<<b, k>>] = Recorded(b, url, bodies[k])
    OBVIOUS
  <1>4. \A s \in SUBSET (1 .. N) : s # {} => Max(s) \in 1 .. N /\ s \ {Max(s)} \in SUBSET (1 .. N)
    BY <1>1, LargestMember
  <1>5. RecordAll(buffer, url, bodies) = F[1 .. N]
    BY <1>1 DEF RecordAll, FoldLeft, MapThenFoldSet
  <1>. HIDE DEF step, A, N
  <1>6. PICK g \in [SUBSET (1 .. N) -> A] : IsFold(g, N, buffer, step)
    BY <1>1, <1>2, IterationExists
  <1>7. Iterates(g)
    BY <1>3, <1>4, <1>6 DEF IsFold
  <1>8. Iterates(F)
    <2>. HIDE DEF Iterates
    <2>. QED BY <1>7
  <1>. HIDE DEF F
  <1>9. Unrolls(F, N, A, buffer, step)
    BY <1>3, <1>4, <1>8 DEF Unrolls
  <1>. HIDE DEF Iterates
  <1>10. StepByStep(F[1 .. N], N, A, buffer, step)
    BY <1>1, <1>2, <1>9, FoldIsIterated
  <1>11. PICK h \in [0 .. N -> A] :
            /\ h[0] = buffer
            /\ \A k \in 1 .. N : h[k] = step[<<h[k - 1], k>>]
            /\ h[N] = F[1 .. N]
    BY <1>10 DEF StepByStep
  <1>12. ASSUME NEW k \in 1 .. N
         PROVE  h[k] = Recorded(h[k - 1], url, bodies[k])
    <2>1. h[k - 1] \in A
      BY <1>1
    <2>. QED BY <1>3, <1>11, <2>1
  <1>. QED BY <1>5, <1>11, <1>12 DEF A, N

NoRepeats(buffer) ==
    \A i \in DOMAIN buffer, j \in DOMAIN buffer : buffer[i] = buffer[j] => i = j

\* Nothing is lost of a buffer and the first n bodies are in it.
Holds(more, buffer, url, bodies, n) ==
    /\ more \in Seq(Payload)
    /\ Range(buffer) \subseteq Range(more)
    /\ \A i \in 1 .. n : [url |-> url, body |-> bodies[i]] \in Range(more)
    /\ NoRepeats(buffer) => NoRepeats(more)

LEMMA RecordOne ==
    ASSUME NEW buffer \in Seq(Payload), NEW url \in STRING, NEW body \in Seq(Node)
    PROVE  /\ Recorded(buffer, url, body) \in Seq(Payload)
           /\ Range(buffer) \subseteq Range(Recorded(buffer, url, body))
           /\ [url |-> url, body |-> body] \in Range(Recorded(buffer, url, body))
           /\ NoRepeats(buffer) => NoRepeats(Recorded(buffer, url, body))
  <1>. DEFINE p == [url |-> url, body |-> body]
              more == Append(buffer, p)
  <1>1. p \in Payload
    BY DEF Payload
  <1>2. CASE p \in Range(buffer)
    BY <1>2 DEF Recorded
  <1>3. CASE p \notin Range(buffer)
    <2>1. Recorded(buffer, url, body) = more
      BY <1>3 DEF Recorded
    <2>. HIDE DEF p, Payload
    <2>2. /\ more \in Seq(Payload) /\ Len(buffer) \in Nat
          /\ DOMAIN more = 1 .. Len(buffer) + 1 /\ DOMAIN buffer = 1 .. Len(buffer)
          /\ \A k \in DOMAIN buffer : k \in DOMAIN more /\ more[k] = buffer[k]
          /\ more[Len(buffer) + 1] = p /\ Len(buffer) + 1 \in DOMAIN more
      BY <1>1
    <2>. HIDE DEF more
    <2>3. Range(buffer) \subseteq Range(more) /\ p \in Range(more)
      BY <2>2 DEF Range
    <2>4. \A k \in DOMAIN buffer : buffer[k] # p
      BY <1>3 DEF Range
    <2>5. \A k \in DOMAIN more : k \in DOMAIN buffer \/ k = Len(buffer) + 1
      BY <2>2
    <2>6. ASSUME NoRepeats(buffer), NEW i \in DOMAIN more, NEW j \in DOMAIN more, more[i] = more[j]
          PROVE  i = j
      <3>1. CASE i \in DOMAIN buffer /\ j \in DOMAIN buffer
        BY <2>2, <2>6, <3>1 DEF NoRepeats
      <3>2. CASE i = Len(buffer) + 1 \/ j = Len(buffer) + 1
        BY <2>2, <2>4, <2>5, <2>6, <3>2
      <3>. QED BY <2>5, <3>1, <3>2
    <2>. QED BY <2>1, <2>2, <2>3, <2>6 DEF NoRepeats, p
  <1>. QED BY <1>2, <1>3

\* A response that was read is in the buffer with all its bodies, and what was
\* there before still is.
LEMMA RecordedAll ==
    ASSUME NEW buffer \in Seq(Payload), NEW url \in STRING, NEW bodies \in Seq(Seq(Node))
    PROVE  Holds(RecordAll(buffer, url, bodies), buffer, url, bodies, Len(bodies))
  <1>1. PICK h \in [0 .. Len(bodies) -> Seq(Payload)] :
              /\ h[0] = buffer
              /\ \A n \in 1 .. Len(bodies) : h[n] = Recorded(h[n - 1], url, bodies[n])
              /\ h[Len(bodies)] = RecordAll(buffer, url, bodies)
    BY RecordingOneByOne
  <1>. DEFINE Good == {n \in Nat : n <= Len(bodies) => Holds(h[n], buffer, url, bodies, n)}
  <1>2. 0 \in Good
    <2>1. 1 .. 0 = {}
      OBVIOUS
    <2>. QED BY <1>1, <2>1 DEF Holds
  <1>3. ASSUME NEW n \in Nat, n \in Good
        PROVE  n + 1 \in Good
    <2>. SUFFICES ASSUME n + 1 <= Len(bodies) PROVE Holds(h[n + 1], buffer, url, bodies, n + 1)
      <3>1. n + 1 \in Nat
        OBVIOUS
      <3>. QED BY <3>1, Zenon
    <2>1. n + 1 \in 1 .. Len(bodies) /\ n + 1 \in DOMAIN bodies /\ (n + 1) - 1 = n
      OBVIOUS
    <2>2. Holds(h[n], buffer, url, bodies, n)
      <3>1. n <= Len(bodies)
        BY <2>1
      <3>. HIDE DEF Holds
      <3>. QED BY <1>3, <3>1, Zenon
    <2>3. h[n + 1] = Recorded(h[n], url, bodies[n + 1])
      BY <1>1, <2>1
    <2>4. bodies[n + 1] \in Seq(Node) /\ h[n] \in Seq(Payload)
      BY <2>1, <2>2 DEF Holds
    <2>5. /\ h[n + 1] \in Seq(Payload)
          /\ Range(h[n]) \subseteq Range(h[n + 1])
          /\ [url |-> url, body |-> bodies[n + 1]] \in Range(h[n + 1])
          /\ NoRepeats(h[n]) => NoRepeats(h[n + 1])
      BY <2>3, <2>4, RecordOne
    <2>6. \A i \in 1 .. n + 1 : i \in 1 .. n \/ i = n + 1
      OBVIOUS
    <2>. QED BY <2>2, <2>5, <2>6 DEF Holds
  <1>4. Nat \subseteq Good
    <2>. HIDE DEF Good
    <2>. QED BY <1>2, <1>3, SetInduction
  <1>5. Len(bodies) \in Nat /\ Len(bodies) <= Len(bodies)
    OBVIOUS
  <1>. QED BY <1>1, <1>4, <1>5

-----------------------------------------------------------------------------
(* What the extraction returns *)

CandidateRecord == [post : Posts, text : 0 .. 2, publisher : Publishers \cup {Null}]

\* A set of numbers from 1 to n has a smallest one.
LEMMA SmallestOf ==
    ASSUME NEW s \in SUBSET Nat, s # {}
    PROVE  Min(s) \in s /\ \A y \in s : Min(s) <= y
  <1>1. \E x \in s : \A y \in s : x <= y
    BY LeastElement
  <1>. QED BY <1>1 DEF Min

LEMMA SmallestMember ==
    ASSUME NEW n \in Nat, NEW s \in SUBSET (1 .. n), s # {}
    PROVE  Min(s) \in s /\ \A y \in s : Min(s) <= y
  <1>1. s \subseteq Nat
    OBVIOUS
  <1>2. \E x \in s : \A y \in s : x <= y
    BY <1>1, LeastElement
  <1>. QED BY <1>2 DEF Min

LEMMA CandidateType ==
    ASSUME NEW m \in Modes, NEW t \in Seq(Node), NEW i \in DOMAIN t, Accepted(m, t, i)
    PROVE  /\ Candidate(m, t, i) \in CandidateRecord
           /\ m = "HOME_FEED" => Candidate(m, t, i).publisher \in Publishers
  <1>0. Len(t) \in Nat
    OBVIOUS
  <1>1. /\ t[i] \in Node /\ t[i].post \in Posts
    <2>1. t[i] \in Node /\ t[i].post # Null
      BY DEF Accepted, IsPost
    <2>. QED BY <2>1 DEF Node
  <1>2. \A kind \in Kinds : Referred(t, i, kind) \in SUBSET (1 .. Len(t))
    BY DEF Referred, WithinStory, Within
  <1>3. TextOf(t, i) \in 0 .. 2
    <2>. DEFINE told == {j \in WithinStory(t, i) : t[j].text > 0}
    <2>1. told \in SUBSET (1 .. Len(t))
      BY DEF WithinStory, Within
    <2>2. CASE told = {}
      BY <2>2 DEF TextOf
    <2>3. CASE told # {}
      <3>. HIDE DEF told
      <3>1. Min(told) \in 1 .. Len(t)
        BY <1>0, <2>1, <2>3, SmallestMember
      <3>2. t[Min(told)] \in Node
        BY <3>1
      <3>3. TextOf(t, i) = t[Min(told)].text
        BY <2>3 DEF TextOf, told
      <3>. QED BY <3>2, <3>3 DEF Node
    <2>. QED BY <2>2, <2>3
  <1>4. PublisherOf(t, i) \in Publishers \cup {Null}
    <2>. DEFINE resolved == Referred(t, i, "PUBLISHER")
    <2>1. resolved \in SUBSET (1 .. Len(t))
      BY <1>2 DEF Kinds
    <2>. HIDE DEF resolved
    <2>2. CASE resolved = {}
      BY <2>2 DEF PublisherOf, resolved
    <2>3. CASE resolved # {}
      <3>1. Min(resolved) \in 1 .. Len(t)
        BY <1>0, <2>1, <2>3, SmallestMember
      <3>2. t[Min(resolved)] \in Node
        BY <3>1
      <3>3. PublisherOf(t, i) = t[Min(resolved)].publisher
        BY <2>3 DEF PublisherOf, resolved
      <3>. QED BY <3>2, <3>3 DEF Node
    <2>. QED BY <2>2, <2>3
  <1>5. m = "HOME_FEED" => PublisherOf(t, i) # Null
    BY DEF Accepted
  <1>. QED BY <1>1, <1>3, <1>4, <1>5 DEF Candidate, CandidateRecord, Modes

\* Each post once, every kept candidate one of the first n fragments, and as rich
\* as any of them.
Kept(kept, m, t, n) ==
    /\ kept \in Seq(CandidateRecord)
    /\ \A k \in DOMAIN kept, l \in DOMAIN kept : kept[k].post = kept[l].post => k = l
    /\ \A k \in DOMAIN kept : \E i \in 1 .. n :
          Accepted(m, t, i) /\ kept[k] = Candidate(m, t, i)
    /\ \A i \in 1 .. n : Accepted(m, t, i) =>
          \E k \in DOMAIN kept : /\ kept[k].post = Candidate(m, t, i).post
                                 /\ Candidate(m, t, i).text <= kept[k].text

Keeping(kept, m, t, i) ==
    IF Accepted(m, t, i) THEN Keep(kept, Candidate(m, t, i)) ELSE kept

LEMMA KeepType ==
    ASSUME NEW kept \in Seq(CandidateRecord), NEW c \in CandidateRecord
    PROVE  Keep(kept, c) \in Seq(CandidateRecord)
  <1>. DEFINE other == [k \in DOMAIN kept |->
                          IF kept[k].post = c.post /\ c.text > kept[k].text
                          THEN c ELSE kept[k]]
  <1>1. other \in Seq(CandidateRecord)
    <2>1. Len(kept) \in Nat /\ DOMAIN kept = 1 .. Len(kept)
      OBVIOUS
    <2>2. \A k \in 1 .. Len(kept) : kept[k] \in CandidateRecord
      OBVIOUS
    <2>3. other \in [1 .. Len(kept) -> CandidateRecord]
      BY <2>1, <2>2
    <2>. HIDE DEF other
    <2>. QED BY <2>1, <2>3
  <1>2. Append(kept, c) \in Seq(CandidateRecord)
    OBVIOUS
  <1>. QED BY <1>1, <1>2 DEF Keep

LEMMA KeepOne ==
    ASSUME NEW m \in Modes, NEW t \in Seq(Node), NEW n \in Nat, n + 1 \in DOMAIN t,
           NEW kept, Kept(kept, m, t, n)
    PROVE  Kept(Keeping(kept, m, t, n + 1), m, t, n + 1)
  <1>1. CASE ~Accepted(m, t, n + 1)
    <2>1. Keeping(kept, m, t, n + 1) = kept
      BY <1>1 DEF Keeping
    <2>2. \A i \in 1 .. n + 1 : i \in 1 .. n \/ i = n + 1
      OBVIOUS
    <2>3. \A i \in 1 .. n : i \in 1 .. n + 1
      OBVIOUS
    <2>. QED BY <1>1, <2>1, <2>2, <2>3 DEF Kept
  <1>2. CASE Accepted(m, t, n + 1)
    <2>. DEFINE c == Candidate(m, t, n + 1)
                more == Keep(kept, c)
    <2>1. c \in CandidateRecord /\ Keeping(kept, m, t, n + 1) = more
      BY <1>2, CandidateType DEF Keeping
    <2>2. /\ kept \in Seq(CandidateRecord) /\ c.text \in Nat
          /\ \A k \in DOMAIN kept : kept[k] \in CandidateRecord /\ kept[k].text \in Nat
      <3>1. \A r \in CandidateRecord : r.text \in Nat
        BY DEF CandidateRecord
      <3>2. kept \in Seq(CandidateRecord)
        BY DEF Kept
      <3>3. \A k \in DOMAIN kept : kept[k] \in CandidateRecord
        BY <3>2
      <3>. HIDE DEF c
      <3>. QED BY <2>1, <3>1, <3>2, <3>3
    <2>3. more \in Seq(CandidateRecord)
      BY <2>1, <2>2, KeepType
    <2>4. ASSUME NEW i \in 1 .. n + 1
          PROVE  (i \in 1 .. n) \/ i = n + 1
      OBVIOUS
    <2>5. \A i \in 1 .. n : i \in 1 .. n + 1
      OBVIOUS
    <2>6. n + 1 \in 1 .. n + 1
      OBVIOUS
    <2>. DEFINE Known1 == \E k \in DOMAIN kept : kept[k].post = c.post
    <2>7. CASE Known1
      <3>1. /\ DOMAIN more = DOMAIN kept
            /\ \A k \in DOMAIN kept :
                 more[k] = IF kept[k].post = c.post /\ c.text > kept[k].text
                           THEN c ELSE kept[k]
        BY <2>7 DEF Keep
      <3>. HIDE DEF c, more
      <3>2. \A k \in DOMAIN kept : /\ more[k].post = kept[k].post
                                   /\ kept[k].text <= more[k].text
                                   /\ more[k].post = c.post => c.text <= more[k].text
                                   /\ more[k] = c \/ more[k] = kept[k]
        BY <2>2, <3>1
      <3>3. \A k \in DOMAIN more, l \in DOMAIN more : more[k].post = more[l].post => k = l
        BY <3>1, <3>2 DEF Kept
      <3>4. ASSUME NEW k \in DOMAIN more
            PROVE  \E i \in 1 .. n + 1 : Accepted(m, t, i) /\ more[k] = Candidate(m, t, i)
        <4>1. CASE more[k] = c
          BY <1>2, <2>6, <4>1 DEF c
        <4>2. CASE more[k] = kept[k]
          BY <4>2, <2>5, <3>1 DEF Kept
        <4>. QED BY <3>1, <3>2, <4>1, <4>2
      <3>5. ASSUME NEW i \in 1 .. n + 1, Accepted(m, t, i)
            PROVE  \E k \in DOMAIN more : /\ more[k].post = Candidate(m, t, i).post
                                          /\ Candidate(m, t, i).text <= more[k].text
        <4>1. CASE i \in 1 .. n
          <5>1. PICK k \in DOMAIN kept : /\ kept[k].post = Candidate(m, t, i).post
                                         /\ Candidate(m, t, i).text <= kept[k].text
            BY <3>5, <4>1 DEF Kept
          <5>2. Candidate(m, t, i).text \in Nat
            <6>1. Candidate(m, t, i) \in CandidateRecord
              BY <3>5, <4>1, CandidateType
            <6>. QED BY <6>1 DEF CandidateRecord
          <5>3. more[k].text \in Nat
            BY <2>2, <3>1
          <5>. QED BY <5>1, <5>2, <5>3, <3>1, <3>2, <2>2
        <4>2. CASE i = n + 1
          <5>1. PICK k \in DOMAIN kept : kept[k].post = c.post
            BY <2>7
          <5>. QED BY <5>1, <4>2, <3>1, <3>2 DEF c
        <4>. QED BY <4>1, <4>2, <2>4
      <3>. QED BY <2>1, <2>3, <3>3, <3>4, <3>5 DEF Kept
    <2>8. CASE ~Known1
      <3>1. more = Append(kept, c)
        BY <2>8 DEF Keep
      <3>. HIDE DEF c, more
      <3>2. /\ DOMAIN more = 1 .. Len(kept) + 1 /\ DOMAIN kept = 1 .. Len(kept)
            /\ Len(kept) \in Nat
            /\ \A k \in 1 .. Len(kept) : more[k] = kept[k]
            /\ more[Len(kept) + 1] = c
        BY <2>1, <2>2, <3>1
      <3>3. \A k \in DOMAIN more : k \in DOMAIN kept \/ k = Len(kept) + 1
        BY <3>2
      <3>4. ASSUME NEW k \in DOMAIN more, NEW l \in DOMAIN more, more[k].post = more[l].post
            PROVE  k = l
        <4>1. CASE k \in DOMAIN kept /\ l \in DOMAIN kept
          <5>1. kept[k].post = kept[l].post
            BY <3>2, <3>4, <4>1
          <5>. QED BY <4>1, <5>1 DEF Kept
        <4>2. CASE k \in DOMAIN kept /\ l = Len(kept) + 1
          BY <2>8, <3>2, <3>4, <4>2
        <4>3. CASE l \in DOMAIN kept /\ k = Len(kept) + 1
          BY <2>8, <3>2, <3>4, <4>3
        <4>. QED BY <3>3, <4>1, <4>2, <4>3
      <3>5. ASSUME NEW k \in DOMAIN more
            PROVE  \E i \in 1 .. n + 1 : Accepted(m, t, i) /\ more[k] = Candidate(m, t, i)
        <4>1. CASE k \in DOMAIN kept
          <5>1. more[k] = kept[k]
            BY <3>2, <4>1
          <5>2. PICK i \in 1 .. n : Accepted(m, t, i) /\ kept[k] = Candidate(m, t, i)
            BY <4>1 DEF Kept
          <5>. QED BY <2>5, <5>1, <5>2
        <4>2. CASE k = Len(kept) + 1
          BY <1>2, <2>6, <3>2, <4>2 DEF c
        <4>. QED BY <3>3, <4>1, <4>2
      <3>6. ASSUME NEW i \in 1 .. n + 1, Accepted(m, t, i)
            PROVE  \E k \in DOMAIN more : /\ more[k].post = Candidate(m, t, i).post
                                          /\ Candidate(m, t, i).text <= more[k].text
        <4>1. CASE i \in 1 .. n
          <5>1. PICK k \in DOMAIN kept : /\ kept[k].post = Candidate(m, t, i).post
                                         /\ Candidate(m, t, i).text <= kept[k].text
            BY <3>6, <4>1 DEF Kept
          <5>2. k \in DOMAIN more /\ more[k] = kept[k]
            BY <3>2
          <5>. QED BY <5>1, <5>2
        <4>2. CASE i = n + 1
          <5>1. Len(kept) + 1 \in DOMAIN more /\ c.text <= c.text
            BY <3>2, <2>2
          <5>. QED BY <5>1, <4>2, <3>2 DEF c
        <4>. QED BY <4>1, <4>2, <2>4
      <3>. QED BY <2>1, <2>3, <3>4, <3>5, <3>6 DEF Kept
    <2>. QED BY <2>7, <2>8
  <1>. QED BY <1>1, <1>2

\* An extraction keeps one fragment after the other.
LEMMA ExtractionStepByStep ==
    ASSUME NEW m \in Modes, NEW t \in Seq(Node)
    PROVE  \E h \in [0 .. Len(t) -> Seq(CandidateRecord)] :
              /\ h[0] = <<>>
              /\ \A n \in 1 .. Len(t) : h[n] = Keeping(h[n - 1], m, t, n)
              /\ h[Len(t)] = Extract(m, t)
  <1>. DEFINE N == Len(t)
              A == Seq(CandidateRecord)
              ids == [i \in DOMAIN t |-> i]
              none == <<>>
              Iterates(f) == f = [s \in SUBSET (1 .. N) |->
                 IF s = {} THEN none ELSE Keeping(f[s \ {Max(s)}], m, t, ids[Max(s)])]
              step == [q \in A \X (1 .. N) |-> Keeping(q[1], m, t, q[2])]
              F == CHOOSE f : Iterates(f)
  <1>1. N \in Nat /\ DOMAIN t = 1 .. N /\ none \in A /\ DOMAIN ids = 1 .. N
    OBVIOUS
  <1>2. step \in [A \X (1 .. N) -> A]
    <2>1. ASSUME NEW q \in A \X (1 .. N) PROVE Keeping(q[1], m, t, q[2]) \in A
      <3>1. q[1] \in A /\ q[2] \in DOMAIN t
        OBVIOUS
      <3>. QED BY <3>1, CandidateType, KeepType DEF Keeping
    <2>. QED BY <2>1
  <1>3. \A b \in A, k \in 1 .. N : step[<<b, k>>] = Keeping(b, m, t, k)
    OBVIOUS
  <1>4. \A s \in SUBSET (1 .. N) : s # {} => Max(s) \in 1 .. N /\ s \ {Max(s)} \in SUBSET (1 .. N)
    BY <1>1, LargestMember
  <1>5. Extract(m, t) = F[1 .. N]
    BY <1>1 DEF Extract, FoldLeftDomain, FoldLeft, MapThenFoldSet, Keeping
  <1>6. \A k \in 1 .. N : ids[k] = k
    OBVIOUS
  <1>. HIDE DEF step, A, N, ids, none
  <1>7. PICK g \in [SUBSET (1 .. N) -> A] : IsFold(g, N, none, step)
    BY <1>1, <1>2, IterationExists
  <1>8. Iterates(g)
    <2>1. ASSUME NEW s \in SUBSET (1 .. N), s # {}
          PROVE  g[s] = Keeping(g[s \ {Max(s)}], m, t, ids[Max(s)])
      <3>1. g[s \ {Max(s)}] \in A /\ Max(s) \in 1 .. N /\ ids[Max(s)] = Max(s)
        BY <1>4, <1>6, <2>1
      <3>2. g[s] = step[<<g[s \ {Max(s)}], Max(s)>>]
        BY <1>7, <2>1 DEF IsFold
      <3>. QED BY <1>3, <3>1, <3>2
    <2>2. {} \in SUBSET (1 .. N) /\ g[{}] = none
      BY <1>7 DEF IsFold
    <2>. QED BY <2>1, <2>2
  <1>9. Iterates(F)
    <2>. HIDE DEF Iterates
    <2>. QED BY <1>8
  <1>. HIDE DEF F
  <1>10. Unrolls(F, N, A, none, step)
    <2>1. F[{}] = none
      BY <1>9
    <2>2. ASSUME NEW s \in SUBSET (1 .. N), s # {}, F[s \ {Max(s)}] \in A
          PROVE  F[s] = step[<<F[s \ {Max(s)}], Max(s)>>]
      <3>1. F[s] = Keeping(F[s \ {Max(s)}], m, t, ids[Max(s)])
        BY <1>9, <2>2
      <3>2. Max(s) \in 1 .. N /\ ids[Max(s)] = Max(s)
        BY <1>4, <1>6, <2>2
      <3>. QED BY <1>3, <2>2, <3>1, <3>2
    <2>. QED BY <2>1, <2>2 DEF Unrolls
  <1>. HIDE DEF Iterates
  <1>11. StepByStep(F[1 .. N], N, A, none, step)
    BY <1>1, <1>2, <1>10, FoldIsIterated
  <1>12. PICK h \in [0 .. N -> A] :
            /\ h[0] = none
            /\ \A k \in 1 .. N : h[k] = step[<<h[k - 1], k>>]
            /\ h[N] = F[1 .. N]
    BY <1>11 DEF StepByStep
  <1>13. ASSUME NEW k \in 1 .. N
         PROVE  h[k] = Keeping(h[k - 1], m, t, k)
    <2>1. h[k - 1] \in A
      BY <1>1
    <2>. QED BY <1>3, <1>12, <2>1
  <1>. QED BY <1>5, <1>12, <1>13 DEF A, N, none

\* An extraction returns each post of the payload that is told at all once, as its
\* richest fragment tells it.
LEMMA Extracted ==
    ASSUME NEW m \in Modes, NEW t \in Seq(Node)
    PROVE  Kept(Extract(m, t), m, t, Len(t))
  <1>1. PICK h \in [0 .. Len(t) -> Seq(CandidateRecord)] :
              /\ h[0] = <<>>
              /\ \A n \in 1 .. Len(t) : h[n] = Keeping(h[n - 1], m, t, n)
              /\ h[Len(t)] = Extract(m, t)
    BY ExtractionStepByStep
  <1>. DEFINE Good == {n \in Nat : n <= Len(t) => Kept(h[n], m, t, n)}
  <1>2. 0 \in Good
    <2>1. <<>> \in Seq(CandidateRecord) /\ DOMAIN <<>> = {} /\ 1 .. 0 = {}
      OBVIOUS
    <2>. QED BY <1>1, <2>1 DEF Kept
  <1>3. ASSUME NEW n \in Nat, n \in Good
        PROVE  n + 1 \in Good
    <2>. SUFFICES ASSUME n + 1 <= Len(t) PROVE Kept(h[n + 1], m, t, n + 1)
      OBVIOUS
    <2>1. n + 1 \in 1 .. Len(t) /\ n + 1 \in DOMAIN t /\ (n + 1) - 1 = n
      OBVIOUS
    <2>2. Kept(h[n], m, t, n)
      BY <1>3, <2>1
    <2>3. h[n + 1] = Keeping(h[n], m, t, n + 1)
      BY <1>1, <2>1
    <2>. QED BY <2>1, <2>2, <2>3, KeepOne
  <1>4. Nat \subseteq Good
    <2>. HIDE DEF Good
    <2>. QED BY <1>2, <1>3, SetInduction
  <1>5. Len(t) \in Nat /\ Len(t) <= Len(t)
    OBVIOUS
  <1>. QED BY <1>1, <1>4, <1>5

-----------------------------------------------------------------------------
(* What is collected of several payloads *)

Collecting(kept, before, c) ==
    IF Fresh(c, before, kept) /\ Len(kept) < MaxPosts THEN Append(kept, c) ELSE kept

LEMMA CollectType ==
    ASSUME NEW kept \in Seq(CandidateRecord), NEW before, NEW c \in CandidateRecord
    PROVE  Collecting(kept, before, c) \in Seq(CandidateRecord)
  BY DEF Collecting

LEMMA CollectionStepByStep ==
    ASSUME NEW so \in Seq(CandidateRecord), NEW cs \in Seq(CandidateRecord)
    PROVE  \E h \in [0 .. Len(cs) -> Seq(CandidateRecord)] :
              /\ h[0] = so
              /\ \A n \in 1 .. Len(cs) : h[n] = Collecting(h[n - 1], Len(so), cs[n])
              /\ h[Len(cs)] = Collected(so, cs)
  <1>. DEFINE N == Len(cs)
              A == Seq(CandidateRecord)
              Iterates(f) == f = [s \in SUBSET (1 .. N) |->
                 IF s = {} THEN so ELSE Collecting(f[s \ {Max(s)}], Len(so), cs[Max(s)])]
              step == [q \in A \X (1 .. N) |-> Collecting(q[1], Len(so), cs[q[2]])]
              F == CHOOSE f : Iterates(f)
  <1>1. N \in Nat /\ DOMAIN cs = 1 .. N /\ so \in A
    OBVIOUS
  <1>2. step \in [A \X (1 .. N) -> A]
    <2>1. ASSUME NEW q \in A \X (1 .. N) PROVE Collecting(q[1], Len(so), cs[q[2]]) \in A
      <3>1. q[1] \in A /\ cs[q[2]] \in CandidateRecord
        OBVIOUS
      <3>. QED BY <3>1, CollectType
    <2>. QED BY <2>1
  <1>3. \A b \in A, k \in 1 .. N : step[<<b, k>>] = Collecting(b, Len(so), cs[k])
    OBVIOUS
  <1>4. \A s \in SUBSET (1 .. N) : s # {} => Max(s) \in 1 .. N /\ s \ {Max(s)} \in SUBSET (1 .. N)
    BY <1>1, LargestMember
  <1>5. Collected(so, cs) = F[1 .. N]
    BY <1>1 DEF Collected, FoldLeft, MapThenFoldSet, Collecting
  <1>. HIDE DEF step, A, N
  <1>7. PICK g \in [SUBSET (1 .. N) -> A] : IsFold(g, N, so, step)
    BY <1>1, <1>2, IterationExists
  <1>8. Iterates(g)
    BY <1>3, <1>4, <1>7 DEF IsFold
  <1>9. Iterates(F)
    <2>. HIDE DEF Iterates
    <2>. QED BY <1>8
  <1>. HIDE DEF F
  <1>10. Unrolls(F, N, A, so, step)
    BY <1>3, <1>4, <1>9 DEF Unrolls
  <1>. HIDE DEF Iterates
  <1>11. StepByStep(F[1 .. N], N, A, so, step)
    BY <1>1, <1>2, <1>10, FoldIsIterated
  <1>12. PICK h \in [0 .. N -> A] :
            /\ h[0] = so
            /\ \A k \in 1 .. N : h[k] = step[<<h[k - 1], k>>]
            /\ h[N] = F[1 .. N]
    BY <1>11 DEF StepByStep
  <1>13. ASSUME NEW k \in 1 .. N
         PROVE  h[k] = Collecting(h[k - 1], Len(so), cs[k])
    <2>1. h[k - 1] \in A
      BY <1>1
    <2>. QED BY <1>3, <1>12, <2>1
  <1>. QED BY <1>5, <1>12, <1>13 DEF A, N

\* What was accepted stays, new are some of the first n candidates, each post is
\* there once, and while there is room each of these candidates' posts is there.
Taken(kept, so, cs, n) ==
    /\ kept \in Seq(CandidateRecord)
    /\ DOMAIN so \subseteq DOMAIN kept /\ \A k \in DOMAIN so : kept[k] = so[k]
    /\ \A k \in DOMAIN kept : k \notin DOMAIN so => \E i \in 1 .. n : kept[k] = cs[i]
    /\ \A k \in DOMAIN kept, l \in DOMAIN kept : kept[k].post = kept[l].post => k = l
    /\ Len(kept) <= MaxPosts
    /\ Len(kept) < MaxPosts => \A i \in 1 .. n : \E k \in DOMAIN kept : kept[k].post = cs[i].post

LEMMA TakeOne ==
    ASSUME NEW so \in Seq(CandidateRecord), NEW cs \in Seq(CandidateRecord),
           NEW n \in Nat, n + 1 \in DOMAIN cs, NEW kept, Taken(kept, so, cs, n)
    PROVE  Taken(Collecting(kept, Len(so), cs[n + 1]), so, cs, n + 1)
  <1>. DEFINE c == cs[n + 1]
              more == Collecting(kept, Len(so), c)
  <1>1. c \in CandidateRecord /\ kept \in Seq(CandidateRecord) /\ MaxPosts \in Nat
    BY CollectionBounds DEF Taken
  <1>2. more \in Seq(CandidateRecord)
    BY <1>1, CollectType
  <1>3. n + 1 \in 1 .. n + 1 /\ \A i \in 1 .. n : i \in 1 .. n + 1
    OBVIOUS
  <1>4. \A i \in 1 .. n + 1 : i \in 1 .. n \/ i = n + 1
    OBVIOUS
  <1>5. CASE Fresh(c, Len(so), kept) /\ Len(kept) < MaxPosts
    <2>1. more = Append(kept, c)
      BY <1>5 DEF Collecting
    <2>. HIDE DEF more
    <2>2. /\ DOMAIN more = 1 .. Len(kept) + 1 /\ DOMAIN kept = 1 .. Len(kept)
          /\ Len(kept) \in Nat /\ Len(more) = Len(kept) + 1
          /\ \A k \in DOMAIN kept : k \in DOMAIN more /\ more[k] = kept[k]
          /\ more[Len(kept) + 1] = c /\ Len(kept) + 1 \in DOMAIN more
      <3>. HIDE DEF c
      <3>. QED BY <1>1, <2>1
    <2>3. \A k \in DOMAIN more : k \in DOMAIN kept \/ k = Len(kept) + 1
      BY <2>2
    <2>4. \A k \in DOMAIN kept : kept[k].post # c.post
      BY <1>5 DEF Fresh
    <2>. HIDE DEF c
    <2>5. DOMAIN so \subseteq DOMAIN more /\ \A k \in DOMAIN so : more[k] = so[k]
      BY <2>2 DEF Taken
    <2>6. ASSUME NEW k \in DOMAIN more, k \notin DOMAIN so
          PROVE  \E i \in 1 .. n + 1 : more[k] = cs[i]
      <3>1. CASE k \in DOMAIN kept
        BY <1>3, <2>2, <2>6, <3>1 DEF Taken
      <3>2. CASE k = Len(kept) + 1
        BY <1>3, <2>2, <3>2 DEF c
      <3>. QED BY <2>3, <3>1, <3>2
    <2>7. ASSUME NEW k \in DOMAIN more, NEW l \in DOMAIN more, more[k].post = more[l].post
          PROVE  k = l
      <3>1. CASE k \in DOMAIN kept /\ l \in DOMAIN kept
        <4>1. kept[k].post = kept[l].post
          BY <2>2, <2>7, <3>1
        <4>. QED BY <3>1, <4>1 DEF Taken
      <3>2. CASE k \in DOMAIN kept /\ l = Len(kept) + 1
        BY <2>2, <2>4, <2>7, <3>2
      <3>3. CASE l \in DOMAIN kept /\ k = Len(kept) + 1
        BY <2>2, <2>4, <2>7, <3>3
      <3>. QED BY <2>3, <3>1, <3>2, <3>3
    <2>8. Len(more) <= MaxPosts
      BY <1>1, <1>5, <2>2
    <2>9. ASSUME NEW i \in 1 .. n + 1
          PROVE  \E k \in DOMAIN more : more[k].post = cs[i].post
      <3>1. CASE i \in 1 .. n
        <4>1. PICK k \in DOMAIN kept : kept[k].post = cs[i].post
          BY <1>5, <3>1 DEF Taken
        <4>. QED BY <2>2, <4>1
      <3>2. CASE i = n + 1
        BY <2>2, <3>2 DEF c
      <3>. QED BY <1>4, <3>1, <3>2
    <2>. QED BY <1>2, <2>5, <2>6, <2>7, <2>8, <2>9 DEF Taken, more, c
  <1>6. CASE ~(Fresh(c, Len(so), kept) /\ Len(kept) < MaxPosts)
    <2>1. more = kept
      BY <1>6 DEF Collecting
    <2>. HIDE DEF more
    <2>2. Len(kept) < MaxPosts => \E k \in DOMAIN kept : kept[k].post = c.post
      BY <1>6 DEF Fresh
    <2>3. Len(kept) < MaxPosts =>
            \A i \in 1 .. n + 1 : \E k \in DOMAIN kept : kept[k].post = cs[i].post
      BY <1>4, <2>2 DEF Taken
    <2>4. \A k \in DOMAIN kept : k \notin DOMAIN so => \E i \in 1 .. n + 1 : kept[k] = cs[i]
      BY <1>3 DEF Taken
    <2>. QED BY <2>1, <2>3, <2>4 DEF Taken, more
  <1>. QED BY <1>5, <1>6

LEMMA CollectedWhat ==
    ASSUME NEW so \in Seq(CandidateRecord), NEW cs \in Seq(CandidateRecord),
           \A k \in DOMAIN so, l \in DOMAIN so : so[k].post = so[l].post => k = l,
           Len(so) <= MaxPosts
    PROVE  Taken(Collected(so, cs), so, cs, Len(cs))
  <1>1. PICK h \in [0 .. Len(cs) -> Seq(CandidateRecord)] :
              /\ h[0] = so
              /\ \A n \in 1 .. Len(cs) : h[n] = Collecting(h[n - 1], Len(so), cs[n])
              /\ h[Len(cs)] = Collected(so, cs)
    BY CollectionStepByStep
  <1>. DEFINE Good == {n \in Nat : n <= Len(cs) => Taken(h[n], so, cs, n)}
  <1>2. 0 \in Good
    <2>1. 1 .. 0 = {}
      OBVIOUS
    <2>. QED BY <1>1, <2>1 DEF Taken
  <1>3. ASSUME NEW n \in Nat, n \in Good
        PROVE  n + 1 \in Good
    <2>. SUFFICES ASSUME n + 1 <= Len(cs) PROVE Taken(h[n + 1], so, cs, n + 1)
      OBVIOUS
    <2>1. n + 1 \in 1 .. Len(cs) /\ n + 1 \in DOMAIN cs /\ (n + 1) - 1 = n
      OBVIOUS
    <2>2. Taken(h[n], so, cs, n)
      BY <1>3, <2>1
    <2>3. h[n + 1] = Collecting(h[n], Len(so), cs[n + 1])
      BY <1>1, <2>1
    <2>. QED BY <2>1, <2>2, <2>3, TakeOne
  <1>4. Nat \subseteq Good
    <2>. HIDE DEF Good
    <2>. QED BY <1>2, <1>3, SetInduction
  <1>5. Len(cs) \in Nat /\ Len(cs) <= Len(cs)
    OBVIOUS
  <1>. QED BY <1>1, <1>4, <1>5

-----------------------------------------------------------------------------
(* Types *)

Phases == {"DRIVING", "SETTLING", "EXTRACTING", "SUBMITTING", "FAILED",
           "INTERRUPTED", "SUCCEEDED", "PARTIAL"}

Summary == [extracted : Nat, deduplicated : Nat, submitted : Nat, failed : Nat,
            unobserved : Nat]

CaptureTypes ==
    /\ mode \in Modes /\ feed \in Feeds /\ phase \in Phases
    /\ net \in [Responses -> {"NONE", "READING", "READ", "FAILED"}]
    /\ sending \in [Responses -> Seq(Seq(Node))]
    /\ \A r \in Responses : net[r] # "NONE" \/ sending[r] # <<>> => feed[r] \in Answer
    /\ captured \in Seq(Payload) /\ NoRepeats(captured)
    /\ awaited \subseteq {r \in Responses : net[r] # "NONE"}
    /\ cut \in BOOLEAN /\ aborted \in BOOLEAN

\* Nothing is extracted before the buffer is handed over.
CollectionTypes ==
    /\ passed \in Seq(Seq(Node))
    /\ accepted \in Seq(CandidateRecord)
    /\ mode = "HOME_FEED" => \A k \in DOMAIN accepted : accepted[k].publisher \in Publishers
    /\ at \in 0 .. Len(passed) /\ broken \subseteq 1 .. at /\ next \in 0 .. Len(accepted)
    /\ phase \in {"DRIVING", "SETTLING", "FAILED"} => at = 0 /\ accepted = <<>> /\ next = 0
    /\ Known \subseteq Publishers
    /\ observations \in [Publishers -> Nat]
    /\ summary \in Summary

TypeInv == CaptureTypes /\ CollectionTypes

\* What the listener has read is in the buffer.
HeardInv ==
    \A r \in Responses : net[r] = "READ" =>
        \A i \in DOMAIN feed[r].bodies :
            [url |-> feed[r].got, body |-> feed[r].bodies[i]] \in Range(captured)

\* Each publisher of a run is observed once.
ObservedInv == \A p \in Publishers : observations[p] = IF p \in Known THEN 1 ELSE 0

\* Every candidate dealt with is submitted or failed, and what was taken from the
\* payloads is counted.
CountInv ==
    /\ summary.submitted + summary.failed = next
    /\ Len(accepted) = IF mode = "GROUP" THEN summary.extracted ELSE summary.deduplicated
    /\ mode = "GROUP" /\ phase = "EXTRACTING" => next = Len(accepted)
    /\ phase \in {"SUCCEEDED", "PARTIAL"} =>
          next = Len(accepted) /\ (phase = "SUCCEEDED" <=> FullyDone)
    /\ mode = "GROUP" /\ phase \in {"SUCCEEDED", "PARTIAL"} => at = Len(passed)
    /\ mode = "HOME_FEED" /\ phase \in {"SUBMITTING", "SUCCEEDED", "PARTIAL"} =>
          at = Len(passed) \/ Len(accepted) = MaxPosts

\* Tellings, of a given mode
ToldIn(m, post, t) ==
    {c \in {Candidate(m, t, i) : i \in {j \in DOMAIN t : Accepted(m, t, j)}} : c.post = post}

\* The richest telling of its post in a payload, when no earlier payload that was
\* extracted tells it
FirstTold(m, payloads, c, n, read) ==
    /\ c \in ToldIn(m, c.post, payloads[n])
    /\ \A d \in ToldIn(m, c.post, payloads[n]) : d.text <= c.text
    /\ \A k \in read : k < n => ToldIn(m, c.post, payloads[k]) = {}

\* What was taken of the payloads of a home feed that were extracted
CollectedOnce(so, payloads, read) ==
    /\ Len(so) <= MaxPosts
    /\ \A k \in DOMAIN so, l \in DOMAIN so : so[k].post = so[l].post => k = l
    /\ \A k \in DOMAIN so : \E i \in read : FirstTold("HOME_FEED", payloads, so[k], i, read)
    /\ Len(so) < MaxPosts =>
          \A i \in read : \A j \in DOMAIN Extract("HOME_FEED", payloads[i]) :
              \E k \in DOMAIN so : so[k].post = Extract("HOME_FEED", payloads[i])[j].post

TakenInv == mode = "HOME_FEED" => CollectedOnce(accepted, passed, Legible)

\* A group's candidates are all that was extracted.
AllTaken(so, payloads, read) ==
    \A i \in read : \A j \in DOMAIN Extract("GROUP", payloads[i]) :
        \E k \in DOMAIN so : so[k].post = Extract("GROUP", payloads[i])[j].post

GroupInv == mode = "GROUP" => AllTaken(accepted, passed, Legible)

LEMMA FeedIs ==
    ASSUME NEW f \in Feeds, NEW r \in Responses
    PROVE  f[r] = Null \/ f[r] \in Answer
  BY FeedsAnswer

LEMMA AnswerIs ==
    ASSUME NEW a \in Answer
    PROVE  /\ a.asked \in STRING /\ a.got \in STRING /\ a.scripted \in BOOLEAN
           /\ a.bodies \in Seq(Seq(Node))
  BY DEF Answer

LEMMA CollectionKept ==
    ASSUME CollectionTypes, mode' = mode, UNCHANGED handlingVars,
           phase' \in {"DRIVING", "SETTLING", "FAILED"} =>
              phase \in {"DRIVING", "SETTLING", "FAILED"}
    PROVE  CollectionTypes'
  BY DEF CollectionTypes, handlingVars, Known

LEMMA CaptureKept ==
    ASSUME CaptureTypes, UNCHANGED chosen, UNCHANGED captureVars, phase' \in Phases,
           awaited' = awaited, cut' \in BOOLEAN, aborted' \in BOOLEAN
    PROVE  CaptureTypes'
  BY DEF CaptureTypes, chosen, captureVars, NoRepeats

LEMMA InitTypes == Init => TypeInv
  <1>. SUFFICES ASSUME Init PROVE TypeInv
    OBVIOUS
  <1>1. <<>> \in Seq(Payload) /\ <<>> \in Seq(Seq(Node)) /\ <<>> \in Seq(CandidateRecord)
        /\ Len(<<>>) = 0 /\ DOMAIN <<>> = {}
    OBVIOUS
  <1>2. CaptureTypes
    BY <1>1 DEF Init, CaptureTypes, Phases, NoRepeats
  <1>3. CollectionTypes
    <2>1. summary \in Summary
      BY DEF Init, NoSummary, Summary
    <2>. QED BY <1>1, <2>1 DEF Init, CollectionTypes, Known
  <1>. QED BY <1>2, <1>3 DEF TypeInv

\* What a step of the capture in the page or on the network leaves alone
LEMMA CaptureSteps ==
    ASSUME CaptureTypes, NEW r \in Responses,
           Respond(r) \/ PageTells(r) \/ PageFails(r) \/ NetworkTells(r) \/ NetworkFails(r)
    PROVE  /\ CaptureTypes' /\ Range(captured) \subseteq Range(captured')
           /\ phase' = phase /\ mode' = mode /\ feed' = feed /\ cut' = cut /\ aborted' = aborted
           /\ UNCHANGED handlingVars
           /\ phase \in {"DRIVING", "SETTLING"}
  <1>1. /\ phase' = phase /\ mode' = mode /\ feed' = feed /\ cut' = cut /\ aborted' = aborted
        /\ UNCHANGED handlingVars
        /\ phase \in {"DRIVING", "SETTLING"}
    BY DEF Respond, PageTells, PageFails, NetworkTells, NetworkFails, chosen, Capturing
  <1>2. CASE Respond(r)
    <2>1. feed[r] \in Answer
      BY <1>2, FeedIs DEF Respond, CaptureTypes
    <2>2. (IF feed[r].scripted THEN feed[r].bodies ELSE <<>>) \in Seq(Seq(Node))
      BY <2>1, AnswerIs
    <2>3. net' \in [Responses -> {"NONE", "READING", "READ", "FAILED"}]
      BY <1>2 DEF Respond, CaptureTypes
    <2>4. sending' \in [Responses -> Seq(Seq(Node))]
      BY <1>2, <2>2 DEF Respond, CaptureTypes
    <2>5. captured' = captured
      BY <1>2 DEF Respond
    <2>6. ASSUME NEW q \in Responses, net'[q] # "NONE" \/ sending'[q] # <<>>
          PROVE  feed[q] \in Answer
      BY <1>2, <2>1, <2>6 DEF Respond, CaptureTypes
    <2>7. awaited' \subseteq {q \in Responses : net'[q] # "NONE"}
      BY <1>2 DEF Respond, CaptureTypes
    <2>. QED BY <1>1, <2>3, <2>4, <2>5, <2>6, <2>7 DEF CaptureTypes, NoRepeats
  <1>3. CASE PageTells(r)
    <2>1. feed[r] \in Answer /\ feed[r].asked \in STRING
      BY <1>3, AnswerIs DEF PageTells, CaptureTypes
    <2>2. sending[r] \in Seq(Seq(Node)) /\ sending[r] # <<>>
      BY <1>3 DEF PageTells, CaptureTypes
    <2>3. Head(sending[r]) \in Seq(Node) /\ Tail(sending[r]) \in Seq(Seq(Node))
      BY <2>2
    <2>4. /\ captured' \in Seq(Payload) /\ Range(captured) \subseteq Range(captured')
          /\ NoRepeats(captured) => NoRepeats(captured)'
      <3>1. captured' = Recorded(captured, feed[r].asked, Head(sending[r]))
            /\ captured \in Seq(Payload)
        BY <1>3 DEF PageTells, CaptureTypes
      <3>2. NoRepeats(captured) => NoRepeats(captured')
        BY <2>1, <2>3, <3>1, RecordOne
      <3>. QED BY <2>1, <2>3, <3>1, <3>2, RecordOne
    <2>5. sending' \in [Responses -> Seq(Seq(Node))] /\ net' = net /\ awaited' = awaited
      BY <1>3, <2>3 DEF PageTells, CaptureTypes
    <2>6. ASSUME NEW q \in Responses, sending'[q] # <<>>
          PROVE  feed[q] \in Answer
      BY <1>3, <2>1, <2>6 DEF PageTells, CaptureTypes
    <2>. QED BY <1>1, <2>4, <2>5, <2>6 DEF CaptureTypes
  <1>4. CASE PageFails(r)
    <2>1. sending' \in [Responses -> Seq(Seq(Node))] /\ net' = net /\ awaited' = awaited
          /\ captured' = captured
      BY <1>4 DEF PageFails, CaptureTypes
    <2>2. ASSUME NEW q \in Responses, sending'[q] # <<>>
          PROVE  feed[q] \in Answer
      BY <1>4, <2>2 DEF PageFails, CaptureTypes
    <2>. QED BY <1>1, <2>1, <2>2 DEF CaptureTypes, NoRepeats
  <1>5. CASE NetworkTells(r)
    <2>1. feed[r] \in Answer /\ feed[r].got \in STRING /\ feed[r].bodies \in Seq(Seq(Node))
      BY <1>5, AnswerIs DEF NetworkTells, CaptureTypes
    <2>2. captured' = RecordAll(captured, feed[r].got, feed[r].bodies)
          /\ captured \in Seq(Payload)
      BY <1>5 DEF NetworkTells, CaptureTypes, RecordAll
    <2>3. Holds(captured', captured, feed[r].got, feed[r].bodies, Len(feed[r].bodies))
      BY <2>1, <2>2, RecordedAll
    <2>4. net' \in [Responses -> {"NONE", "READING", "READ", "FAILED"}]
          /\ (\A q \in Responses : net'[q] # "NONE" <=> net[q] # "NONE")
          /\ sending' = sending /\ awaited' = awaited
      BY <1>5 DEF NetworkTells, CaptureTypes
    <2>. QED BY <1>1, <2>3, <2>4 DEF CaptureTypes, Holds
  <1>6. CASE NetworkFails(r)
    <2>1. net' \in [Responses -> {"NONE", "READING", "READ", "FAILED"}]
          /\ (\A q \in Responses : net'[q] # "NONE" <=> net[q] # "NONE")
          /\ sending' = sending /\ awaited' = awaited /\ captured' = captured
      BY <1>6 DEF NetworkFails, CaptureTypes
    <2>. QED BY <1>1, <2>1 DEF CaptureTypes, NoRepeats
  <1>. QED BY <1>1, <1>2, <1>3, <1>4, <1>5, <1>6

LEMMA ExtractedIs ==
    ASSUME NEW m \in Modes, NEW t \in Seq(Node)
    PROVE  LET found == Extract(m, t) IN
           /\ found \in Seq(CandidateRecord)
           /\ m = "HOME_FEED" => \A k \in DOMAIN found : found[k].publisher \in Publishers
           /\ \A k \in DOMAIN found :
                 /\ found[k] \in ToldIn(m, found[k].post, t)
                 /\ \A d \in ToldIn(m, found[k].post, t) : d.text <= found[k].text
           /\ \A post : ToldIn(m, post, t) # {} => \E k \in DOMAIN found : found[k].post = post
  <1>. DEFINE found == Extract(m, t)
  <1>1. Kept(found, m, t, Len(t)) /\ Len(t) \in Nat /\ DOMAIN t = 1 .. Len(t)
    BY Extracted
  <1>. HIDE DEF found
  <1>2. \A k \in DOMAIN found : \E i \in DOMAIN t :
            Accepted(m, t, i) /\ found[k] = Candidate(m, t, i)
    BY <1>1 DEF Kept
  <1>3. ASSUME NEW k \in DOMAIN found
        PROVE  /\ m = "HOME_FEED" => found[k].publisher \in Publishers
               /\ found[k] \in ToldIn(m, found[k].post, t)
    <2>1. PICK i \in DOMAIN t : Accepted(m, t, i) /\ found[k] = Candidate(m, t, i)
      BY <1>2
    <2>2. m = "HOME_FEED" => found[k].publisher \in Publishers
      BY <2>1, CandidateType
    <2>. QED BY <2>1, <2>2 DEF ToldIn
  <1>4. ASSUME NEW post, NEW d \in ToldIn(m, post, t)
        PROVE  \E k \in DOMAIN found : found[k].post = post /\ d.text <= found[k].text
    <2>1. PICK i \in DOMAIN t : Accepted(m, t, i) /\ d = Candidate(m, t, i) /\ d.post = post
      BY DEF ToldIn
    <2>. QED BY <1>1, <2>1 DEF Kept
  <1>5. ASSUME NEW k \in DOMAIN found, NEW d \in ToldIn(m, found[k].post, t)
        PROVE  d.text <= found[k].text
    <2>1. PICK l \in DOMAIN found : found[l].post = found[k].post /\ d.text <= found[l].text
      BY <1>4
    <2>. QED BY <1>1, <2>1 DEF Kept
  <1>6. found \in Seq(CandidateRecord)
    BY <1>1 DEF Kept
  <1>. QED BY <1>3, <1>4, <1>5, <1>6 DEF found

\* One more payload of a home feed
LEMMA CollectPayload ==
    ASSUME NEW payloads \in Seq(Seq(Node)), NEW n \in Nat, n < Len(payloads),
           NEW read \in SUBSET (1 .. n),
           NEW so \in Seq(CandidateRecord), Len(so) < MaxPosts,
           \A k \in DOMAIN so : so[k].publisher \in Publishers,
           CollectedOnce(so, payloads, read)
    PROVE  LET all == Collected(so, Extract("HOME_FEED", payloads[n + 1])) IN
           /\ all \in Seq(CandidateRecord) /\ Len(so) <= Len(all)
           /\ \A k \in DOMAIN all : all[k].publisher \in Publishers
           /\ CollectedOnce(all, payloads, read \cup {n + 1})
  <1>. DEFINE t == payloads[n + 1]
              found == Extract("HOME_FEED", t)
              all == Collected(so, found)
  <1>1. t \in Seq(Node) /\ "HOME_FEED" \in Modes
    BY DEF Modes
  <1>2. /\ found \in Seq(CandidateRecord)
        /\ \A k \in DOMAIN found : found[k].publisher \in Publishers
        /\ \A k \in DOMAIN found :
              /\ found[k] \in ToldIn("HOME_FEED", found[k].post, t)
              /\ \A d \in ToldIn("HOME_FEED", found[k].post, t) : d.text <= found[k].text
        /\ \A post : ToldIn("HOME_FEED", post, t) # {} =>
              \E k \in DOMAIN found : found[k].post = post
    <2>. HIDE DEF t
    <2>. QED BY <1>1, ExtractedIs
  <1>3. Taken(all, so, found, Len(found))
    <2>1. Len(so) <= MaxPosts
      BY DEF CollectedOnce
    <2>2. \A k \in DOMAIN so, l \in DOMAIN so : so[k].post = so[l].post => k = l
      BY DEF CollectedOnce
    <2>. HIDE DEF found
    <2>. QED BY <1>2, <2>1, <2>2, CollectedWhat
  <1>4. DOMAIN found = 1 .. Len(found) /\ Len(found) \in Nat /\ Len(so) \in Nat
    BY <1>2
  <1>. HIDE DEF found, all
  <1>5. all \in Seq(CandidateRecord) /\ Len(so) <= Len(all)
    <2>1. all \in Seq(CandidateRecord) /\ DOMAIN so \subseteq DOMAIN all
      BY <1>3 DEF Taken
    <2>2. DOMAIN so = 1 .. Len(so) /\ DOMAIN all = 1 .. Len(all) /\ Len(all) \in Nat
      BY <2>1
    <2>3. ASSUME Len(so) > 0 PROVE Len(so) \in DOMAIN all
      <3>1. Len(so) \in 1 .. Len(so)
        BY <1>4, <2>3
      <3>. QED BY <2>1, <2>2, <3>1
    <2>4. Len(so) > 0 => Len(so) <= Len(all)
      BY <2>2, <2>3
    <2>5. Len(so) <= Len(all)
      BY <1>4, <2>2, <2>4
    <2>. QED BY <2>1, <2>5
  <1>6. ASSUME NEW k \in DOMAIN all, k \notin DOMAIN so
        PROVE  \E i \in DOMAIN found : all[k] = found[i]
    BY <1>3, <1>4, <1>6 DEF Taken
  <1>7. \A k \in DOMAIN so : k \in DOMAIN all /\ all[k] = so[k]
    BY <1>3 DEF Taken
  <1>8. \A k \in DOMAIN all : all[k].publisher \in Publishers
    BY <1>2, <1>6, <1>7
  <1>9. \A i \in read : i \in 1 .. n /\ i < n + 1 /\ ~(n + 1 < i)
    OBVIOUS
  <1>11. ASSUME NEW k \in DOMAIN all
         PROVE  \E i \in read \cup {n + 1} :
                    FirstTold("HOME_FEED", payloads, all[k], i, read \cup {n + 1})
    <2>1. CASE k \in DOMAIN so
      <3>1. PICK i \in read : FirstTold("HOME_FEED", payloads, so[k], i, read)
        BY <2>1 DEF CollectedOnce
      <3>2. FirstTold("HOME_FEED", payloads, so[k], i, read \cup {n + 1})
        BY <1>9, <3>1 DEF FirstTold
      <3>. QED BY <1>7, <2>1, <3>2
    <2>2. CASE k \notin DOMAIN so
      <3>1. PICK j \in DOMAIN found : all[k] = found[j]
        BY <1>6, <2>2
      <3>2. \A l \in DOMAIN so : so[l].post # all[k].post
        BY <1>3, <1>7, <2>2 DEF Taken
      <3>3. ASSUME NEW i \in read, ToldIn("HOME_FEED", all[k].post, payloads[i]) # {}
            PROVE  FALSE
        <4>1. payloads[i] \in Seq(Node)
          BY <1>9
        <4>2. \E l \in DOMAIN Extract("HOME_FEED", payloads[i]) :
                  Extract("HOME_FEED", payloads[i])[l].post = all[k].post
          <5>1. \A post : ToldIn("HOME_FEED", post, payloads[i]) # {} =>
                   \E l \in DOMAIN Extract("HOME_FEED", payloads[i]) :
                      Extract("HOME_FEED", payloads[i])[l].post = post
            BY <1>1, <4>1, ExtractedIs
          <5>. QED BY <3>3, <5>1, Zenon
        <4>3. PICK l \in DOMAIN so : so[l].post = all[k].post
          <5>1. PICK g \in DOMAIN Extract("HOME_FEED", payloads[i]) :
                    Extract("HOME_FEED", payloads[i])[g].post = all[k].post
            BY <4>2
          <5>2. \A h \in read : \A q \in DOMAIN Extract("HOME_FEED", payloads[h]) :
                    \E l \in DOMAIN so : so[l].post = Extract("HOME_FEED", payloads[h])[q].post
            BY DEF CollectedOnce
          <5>3. \E l \in DOMAIN so : so[l].post = Extract("HOME_FEED", payloads[i])[g].post
            BY <5>2, Zenon
          <5>. QED BY <5>1, <5>3
        <4>. QED BY <3>2, <4>3
      <3>4. FirstTold("HOME_FEED", payloads, all[k], n + 1, read \cup {n + 1})
        <4>1. \A i \in read \cup {n + 1} :
                 i < n + 1 => ToldIn("HOME_FEED", all[k].post, payloads[i]) = {}
          <5>. SUFFICES ASSUME NEW i \in read \cup {n + 1}, i < n + 1,
                               ToldIn("HOME_FEED", all[k].post, payloads[i]) # {}
                        PROVE  FALSE
            OBVIOUS
          <5>1. i \in read
            OBVIOUS
          <5>. QED BY <3>3, <5>1
        <4>2. all[k] \in ToldIn("HOME_FEED", all[k].post, t)
              /\ \A d \in ToldIn("HOME_FEED", all[k].post, t) : d.text <= all[k].text
          BY <1>2, <3>1, Zenon
        <4>. QED BY <4>1, <4>2 DEF FirstTold
      <3>. QED BY <3>4
    <2>. QED BY <2>1, <2>2
  <1>12. ASSUME Len(all) < MaxPosts, NEW i \in read \cup {n + 1},
                NEW j \in DOMAIN Extract("HOME_FEED", payloads[i])
         PROVE  \E k \in DOMAIN all : all[k].post = Extract("HOME_FEED", payloads[i])[j].post
    <2>1. CASE i \in read
      <3>1. PICK k \in DOMAIN so : so[k].post = Extract("HOME_FEED", payloads[i])[j].post
        BY <2>1 DEF CollectedOnce
      <3>. QED BY <1>7, <3>1
    <2>2. CASE i = n + 1
      BY <1>3, <1>4, <1>12, <2>2 DEF Taken, found
    <2>. QED BY <2>1, <2>2
  <1>13. CollectedOnce(all, payloads, read \cup {n + 1})
    <2>1. Len(all) <= MaxPosts
          /\ \A k \in DOMAIN all, l \in DOMAIN all : all[k].post = all[l].post => k = l
      BY <1>3 DEF Taken
    <2>. QED BY <1>11, <1>12, <2>1 DEF CollectedOnce
  <1>. QED BY <1>5, <1>8, <1>13 DEF all, found

-----------------------------------------------------------------------------
(* The steps of a run *)

\* The steps that change nothing but the phase or the signal
Passes ==
    CaptureFails \/ Settle \/ Abort \/ FeedExtracted \/ PayloadSubmitted \/ Interrupted \/ Finish

Submits == SubmitToGroup \/ ObservePublisher \/ SkipUnobserved \/ SubmitToFeed

Tells(r) == Respond(r) \/ PageTells(r) \/ PageFails(r) \/ NetworkTells(r) \/ NetworkFails(r)

LEMMA Steps ==
    ASSUME [Next]_vars
    PROVE  \/ \E r \in Responses : Tells(r)
           \/ Passes \/ Settled \/ CutShort
           \/ CollectFeedPayload \/ ExtractGroupPayload \/ ExtractionFails
           \/ Submits
           \/ UNCHANGED vars
  BY Zenon DEF Next, Capture, Executor, Tells, Passes, Submits

LEMMA PassesKeep ==
    ASSUME TypeInv, Passes
    PROVE  /\ UNCHANGED chosen /\ UNCHANGED captureVars /\ UNCHANGED handlingVars
           /\ awaited' = awaited /\ cut' = cut
           /\ phase' \in Phases /\ aborted' \in BOOLEAN
           /\ phase' \in {"DRIVING", "SETTLING"} => phase \in {"DRIVING", "SETTLING"}
           /\ phase' = "FAILED" => phase \in {"DRIVING", "FAILED"}
  BY DEF Passes, CaptureFails, Settle, Abort, FeedExtracted, PayloadSubmitted, Interrupted,
         Finish, Phases, TypeInv, CaptureTypes, Candidates

LEMMA SubmitsKeep ==
    ASSUME TypeInv, Submits
    PROVE  /\ UNCHANGED chosen /\ UNCHANGED captureVars
           /\ UNCHANGED <<phase, awaited, cut, aborted, passed, at, broken, accepted>>
           /\ phase = "SUBMITTING" /\ next < Len(accepted)
           /\ next' = next + 1 \/ next' = next
  BY DEF Submits, SubmitToGroup, ObservePublisher, SkipUnobserved, SubmitToFeed, Candidates, Count

LEMMA FailsKeeps ==
    ASSUME TypeInv, ExtractionFails
    PROVE  /\ UNCHANGED chosen /\ UNCHANGED captureVars
           /\ UNCHANGED <<phase, awaited, cut, aborted, passed, accepted, next, cache,
                          observations, summary>>
           /\ phase = "EXTRACTING" /\ at' = at + 1 /\ broken' = broken \cup {at + 1}
           /\ at' \in 0 .. Len(passed) /\ broken' \subseteq 1 .. at' /\ Legible' = Legible
  <1>1. /\ UNCHANGED chosen /\ UNCHANGED captureVars
        /\ UNCHANGED <<phase, awaited, cut, aborted, passed, accepted, next, cache,
                       observations, summary>>
        /\ phase = "EXTRACTING" /\ at' = at + 1 /\ broken' = broken \cup {at + 1}
        /\ at < Len(passed)
    BY DEF ExtractionFails, PayloadLeft
  <1>2. at \in Nat /\ Len(passed) \in Nat /\ broken \subseteq 1 .. at
    BY DEF TypeInv, CollectionTypes
  <1>3. at' \in 0 .. Len(passed) /\ broken' \subseteq 1 .. at'
    BY <1>1, <1>2
  <1>4. (1 .. at + 1) \ (broken \cup {at + 1}) = (1 .. at) \ broken
    BY <1>2
  <1>. QED BY <1>1, <1>3, <1>4 DEF Legible

LEMMA FailsTypes ==
    ASSUME TypeInv, ExtractionFails
    PROVE  TypeInv'
  <1>1. CaptureTypes'
    BY FailsKeeps, CaptureKept DEF TypeInv, CaptureTypes
  <1>2. CollectionTypes'
    BY FailsKeeps DEF TypeInv, CollectionTypes, Known, chosen
  <1>. QED BY <1>1, <1>2 DEF TypeInv

LEMMA HandOverTypes ==
    ASSUME TypeInv, Settled \/ CutShort
    PROVE  TypeInv'
  <1>1. /\ phase = "SETTLING" /\ HandOver /\ cut' \in BOOLEAN
    BY DEF Settled, CutShort, TypeInv, CaptureTypes
  <1>2. CaptureTypes'
    BY <1>1, CaptureKept DEF HandOver, TypeInv, Phases, CaptureTypes
  <1>3. passed' \in Seq(Seq(Node))
    <2>1. captured \in Seq(Payload) /\ passed' = [k \in DOMAIN captured |-> captured[k].body]
      BY <1>1 DEF HandOver, TypeInv, CaptureTypes
    <2>2. \A p \in Payload : p.body \in Seq(Node)
      BY DEF Payload
    <2>3. DOMAIN captured = 1 .. Len(captured) /\ Len(captured) \in Nat
          /\ \A k \in 1 .. Len(captured) : captured[k] \in Payload
      <3>. HIDE DEF Payload
      <3>. QED BY <2>1
    <2>4. passed' \in [1 .. Len(captured) -> Seq(Node)]
      BY <2>1, <2>2, <2>3
    <2>. QED BY <2>3, <2>4
  <1>4. at = 0 /\ accepted = <<>> /\ next = 0
    BY <1>1 DEF TypeInv, CollectionTypes
  <1>5. CollectionTypes'
    <2>1. 0 \in 0 .. Len(passed') /\ broken' = broken /\ broken \subseteq 1 .. at
      BY <1>1, <1>3 DEF HandOver, TypeInv, CollectionTypes
    <2>. QED BY <1>1, <1>3, <1>4, <2>1 DEF HandOver, TypeInv, CollectionTypes, chosen, Known
  <1>. QED BY <1>2, <1>5 DEF TypeInv

LEMMA LegibleMore ==
    ASSUME at \in Nat, broken \subseteq 1 .. at, at' = at + 1, broken' = broken
    PROVE  Legible' = Legible \cup {at + 1}
  <1>1. (1 .. at + 1) \ broken = ((1 .. at) \ broken) \cup {at + 1}
    OBVIOUS
  <1>. QED BY <1>1 DEF Legible

LEMMA AllTakenMore ==
    ASSUME NEW so \in Seq(CandidateRecord), NEW payloads, NEW read, NEW n,
           Extract("GROUP", payloads[n]) \in Seq(CandidateRecord),
           AllTaken(so, payloads, read)
    PROVE  AllTaken(so \o Extract("GROUP", payloads[n]), payloads, read \cup {n})
  <1>. DEFINE found == Extract("GROUP", payloads[n])
              all == so \o found
  <1>. HIDE DEF found
  <1>1. /\ Len(so) \in Nat /\ Len(found) \in Nat /\ Len(all) = Len(so) + Len(found)
        /\ DOMAIN so = 1 .. Len(so) /\ DOMAIN found = 1 .. Len(found)
        /\ DOMAIN all = 1 .. Len(all)
    BY DEF found
  <1>2. \A k \in DOMAIN so : k \in DOMAIN all /\ all[k] = so[k]
    BY <1>1 DEF found
  <1>3. \A j \in DOMAIN found : Len(so) + j \in DOMAIN all /\ all[Len(so) + j] = found[j]
    BY <1>1 DEF found
  <1>. HIDE DEF all
  <1>4. ASSUME NEW i \in read \cup {n}, NEW j \in DOMAIN Extract("GROUP", payloads[i])
        PROVE  \E k \in DOMAIN all : all[k].post = Extract("GROUP", payloads[i])[j].post
    <2>1. CASE i \in read
      <3>1. PICK k \in DOMAIN so : so[k].post = Extract("GROUP", payloads[i])[j].post
        BY <2>1 DEF AllTaken
      <3>. QED BY <1>2, <3>1
    <2>2. CASE i = n
      BY <1>3, <2>2 DEF found
    <2>. QED BY <2>1, <2>2
  <1>. QED BY <1>4 DEF AllTaken, all, found

LEMMA CollectTypes ==
    ASSUME TypeInv, TakenInv, CollectFeedPayload
    PROVE  TypeInv' /\ TakenInv' /\ Len(accepted) <= Len(accepted')
  <1>. DEFINE candidates == Extract("HOME_FEED", passed[at + 1])
              collected == Collected(accepted, candidates)
  <1>1. /\ phase = "EXTRACTING" /\ mode = "HOME_FEED" /\ at < Len(passed)
        /\ Len(accepted) < MaxPosts /\ accepted' = collected /\ at' = at + 1
        /\ summary' = [summary EXCEPT
                !.extracted = @ + Len(candidates),
                !.deduplicated = @ + Len(collected) - Len(accepted)]
        /\ UNCHANGED <<phase, awaited, cut, aborted, passed, broken, next, cache, observations>>
        /\ UNCHANGED chosen /\ UNCHANGED captureVars
    BY DEF CollectFeedPayload, PayloadLeft
  <1>2. /\ passed \in Seq(Seq(Node)) /\ at \in Nat /\ accepted \in Seq(CandidateRecord)
        /\ summary \in Summary /\ next \in 0 .. Len(accepted)
        /\ \A k \in DOMAIN accepted : accepted[k].publisher \in Publishers
        /\ CollectedOnce(accepted, passed, Legible)
        /\ broken \subseteq 1 .. at /\ Legible \in SUBSET (1 .. at)
    BY <1>1 DEF TypeInv, CollectionTypes, TakenInv, Legible
  <1>3. /\ collected \in Seq(CandidateRecord) /\ Len(accepted) <= Len(collected)
        /\ \A k \in DOMAIN collected : collected[k].publisher \in Publishers
        /\ CollectedOnce(collected, passed, Legible \cup {at + 1})
    BY <1>1, <1>2, CollectPayload
  <1>4. candidates \in Seq(CandidateRecord)
    <2>1. passed[at + 1] \in Seq(Node) /\ "HOME_FEED" \in Modes
      BY <1>1, <1>2 DEF Modes
    <2>. QED BY <2>1, ExtractedIs
  <1>. HIDE DEF candidates, collected
  <1>5. CaptureTypes'
    BY <1>1, CaptureKept DEF TypeInv, CaptureTypes
  <1>6. summary' \in Summary
    <2>1. Len(candidates) \in Nat /\ Len(collected) \in Nat /\ Len(accepted) \in Nat
      BY <1>2, <1>3, <1>4
    <2>2. summary.extracted + Len(candidates) \in Nat
          /\ summary.deduplicated + Len(collected) - Len(accepted) \in Nat
      BY <1>2, <1>3, <2>1 DEF Summary
    <2>. QED BY <1>1, <1>2, <2>2 DEF Summary
  <1>7. next' \in 0 .. Len(accepted') /\ at' \in 0 .. Len(passed')
    BY <1>1, <1>2, <1>3
  <1>8. CollectionTypes'
    <2>1. broken' \subseteq 1 .. at'
      BY <1>1, <1>2
    <2>. QED BY <1>1, <1>3, <1>6, <1>7, <2>1 DEF TypeInv, CollectionTypes, Known
  <1>9. TakenInv'
    <2>1. Legible' = Legible \cup {at + 1}
      BY <1>1, <1>2, LegibleMore
    <2>. QED BY <1>1, <1>3, <2>1 DEF TakenInv
  <1>. QED BY <1>1, <1>3, <1>5, <1>8, <1>9 DEF TypeInv

LEMMA GroupTypes ==
    ASSUME TypeInv, ExtractGroupPayload
    PROVE  /\ TypeInv' /\ mode = "GROUP" /\ mode' = mode
           /\ summary'.extracted - summary.extracted = Len(accepted') - Len(accepted)
           /\ GroupInv => GroupInv'
  <1>. DEFINE candidates == Extract("GROUP", passed[at + 1])
  <1>1. /\ phase = "EXTRACTING" /\ mode = "GROUP" /\ at < Len(passed)
        /\ accepted' = accepted \o candidates /\ at' = at + 1
        /\ summary' = [summary EXCEPT !.extracted = @ + Len(candidates)]
        /\ phase' = "SUBMITTING"
        /\ UNCHANGED <<awaited, cut, aborted, passed, broken, next, cache, observations>>
        /\ UNCHANGED chosen /\ UNCHANGED captureVars
    BY DEF ExtractGroupPayload, PayloadLeft
  <1>2. /\ passed \in Seq(Seq(Node)) /\ at \in Nat /\ accepted \in Seq(CandidateRecord)
        /\ summary \in Summary /\ next \in 0 .. Len(accepted) /\ broken \subseteq 1 .. at
    BY DEF TypeInv, CollectionTypes
  <1>3. candidates \in Seq(CandidateRecord)
    <2>1. passed[at + 1] \in Seq(Node) /\ "GROUP" \in Modes
      BY <1>1, <1>2 DEF Modes
    <2>. QED BY <2>1, ExtractedIs
  <1>. HIDE DEF candidates
  <1>4. CaptureTypes'
    BY <1>1, CaptureKept DEF TypeInv, CaptureTypes, Phases
  <1>5. accepted' \in Seq(CandidateRecord) /\ Len(accepted') = Len(accepted) + Len(candidates)
        /\ Len(accepted) \in Nat /\ Len(candidates) \in Nat
    BY <1>1, <1>2, <1>3
  <1>6. summary' \in Summary /\ summary'.extracted = summary.extracted + Len(candidates)
        /\ summary.extracted \in Nat
    <2>1. summary.extracted \in Nat /\ summary.extracted + Len(candidates) \in Nat
      BY <1>2, <1>5 DEF Summary
    <2>2. summary' = [summary EXCEPT !.extracted = summary.extracted + Len(candidates)]
      BY <1>1
    <2>. QED BY <1>2, <2>1, <2>2 DEF Summary
  <1>7. next' \in 0 .. Len(accepted') /\ at' \in 0 .. Len(passed')
    BY <1>1, <1>2, <1>5
  <1>8. CollectionTypes'
    <2>1. broken' \subseteq 1 .. at'
      BY <1>1, <1>2
    <2>. QED BY <1>1, <1>5, <1>6, <1>7, <2>1 DEF TypeInv, CollectionTypes, Known, chosen
  <1>9. ASSUME GroupInv PROVE GroupInv'
    <2>1. Legible' = Legible \cup {at + 1} /\ passed' = passed
      BY <1>1, <1>2, LegibleMore
    <2>2. AllTaken(accepted, passed, Legible)
      BY <1>1, <1>9 DEF GroupInv
    <2>3. AllTaken(accepted \o candidates, passed, Legible \cup {at + 1})
      <3>. HIDE DEF Legible
      <3>. QED BY <1>2, <1>3, <2>2, AllTakenMore DEF candidates
    <2>. QED BY <1>1, <2>1, <2>3 DEF GroupInv
  <1>. QED BY <1>1, <1>4, <1>5, <1>6, <1>8, <1>9 DEF TypeInv, chosen

LEMMA SubmitTypes ==
    ASSUME TypeInv, Submits
    PROVE  TypeInv'
  <1>1. CaptureTypes'
    BY SubmitsKeep, CaptureKept DEF TypeInv, CaptureTypes
  <1>2. summary \in Summary /\ accepted \in Seq(CandidateRecord)
        /\ next \in 0 .. Len(accepted) /\ observations \in [Publishers -> Nat]
    BY DEF TypeInv, CollectionTypes
  <1>3. CASE SubmitToGroup \/ SkipUnobserved \/ SubmitToFeed
    <2>1. next < Len(accepted) /\ next' = next + 1 /\ cache' = cache /\ observations' = observations
          /\ phase' = "SUBMITTING"
      BY <1>3 DEF SubmitToGroup, SkipUnobserved, SubmitToFeed, Candidates, Count
    <2>2. summary' \in Summary
      <3>. DEFINE s == summary.submitted + 1
                  f == summary.failed + 1
      <3>1. summary' = [summary EXCEPT !.submitted = s] \/ summary' = [summary EXCEPT !.failed = f]
        BY <1>3 DEF SubmitToGroup, SkipUnobserved, SubmitToFeed, Count
      <3>2. s \in Nat /\ f \in Nat
        BY <1>2 DEF Summary
      <3>. HIDE DEF s, f
      <3>. QED BY <1>2, <3>1, <3>2 DEF Summary
    <2>3. next' \in 0 .. Len(accepted)
      BY <1>2, <2>1
    <2>. QED BY <1>1, <2>1, <2>2, <2>3, SubmitsKeep DEF TypeInv, CollectionTypes, Known, chosen
  <1>4. CASE ObservePublisher
    <2>1. /\ next < Len(accepted) /\ mode = "HOME_FEED" /\ phase' = "SUBMITTING"
          /\ observations' = [observations EXCEPT ![Current.publisher] = @ + 1]
          /\ DOMAIN cache' = Known \cup {Current.publisher}
          /\ next' = next \/ next' = next + 1
      BY <1>4 DEF ObservePublisher, Candidates, Count
    <2>2. Current.publisher \in Publishers
      <3>1. next + 1 \in DOMAIN accepted
        <4>1. next \in Nat /\ Len(accepted) \in Nat /\ DOMAIN accepted = 1 .. Len(accepted)
          BY <1>2
        <4>. QED BY <2>1, <4>1
      <3>. QED BY <2>1, <3>1 DEF Current, TypeInv, CollectionTypes
    <2>3. summary' \in Summary
      <3>1. \/ summary' = summary
            \/ summary' = [summary EXCEPT !.failed = @ + 1, !.unobserved = @ + 1]
        BY <1>4 DEF ObservePublisher, Count
      <3>2. summary.failed + 1 \in Nat /\ summary.unobserved + 1 \in Nat
        BY <1>2 DEF Summary
      <3>. DEFINE f == summary.failed + 1
                  u == summary.unobserved + 1
      <3>3. summary' = summary \/ summary' = [summary EXCEPT !.failed = f, !.unobserved = u]
        BY <3>1
      <3>. HIDE DEF f, u
      <3>4. f \in Nat /\ u \in Nat
        BY <3>2 DEF f, u
      <3>. QED BY <1>2, <3>3, <3>4 DEF Summary
    <2>4. next' \in 0 .. Len(accepted)
      BY <1>2, <2>1
    <2>5. observations' \in [Publishers -> Nat]
      <3>1. observations[Current.publisher] + 1 \in Nat
        BY <1>2, <2>2
      <3>. HIDE DEF Current
      <3>. QED BY <1>2, <2>1, <3>1
    <2>6. Known' \subseteq Publishers
      BY <2>1, <2>2 DEF Known, TypeInv, CollectionTypes
    <2>. QED BY <1>1, <2>1, <2>3, <2>4, <2>5, <2>6, SubmitsKeep DEF TypeInv, CollectionTypes, chosen
  <1>. QED BY <1>3, <1>4 DEF Submits

-----------------------------------------------------------------------------
(* Types, and what was taken of the payloads *)

LEMMA TakenNone ==
    ASSUME NEW payloads
    PROVE  CollectedOnce(<<>>, payloads, {}) /\ AllTaken(<<>>, payloads, {})
  BY CollectionBounds DEF CollectedOnce, AllTaken

LEMMA TakenKept ==
    ASSUME TakenInv, GroupInv, mode' = mode, accepted' = accepted, passed' = passed,
           Legible' = Legible
    PROVE  TakenInv' /\ GroupInv'
  BY DEF TakenInv, GroupInv

LEMMA InitTaken == Init => TakenInv /\ GroupInv
  <1>1. Init => Legible = {}
    BY DEF Init, Legible
  <1>. QED BY <1>1, TakenNone DEF Init, TakenInv, GroupInv

LEMMA TypesStep ==
    ASSUME TypeInv, TakenInv, GroupInv, [Next]_vars
    PROVE  TypeInv' /\ TakenInv' /\ GroupInv'
  <1>1. CASE \E r \in Responses : Tells(r)
    <2>1. PICK r \in Responses : Tells(r)
      BY <1>1
    <2>2. /\ CaptureTypes' /\ mode' = mode /\ UNCHANGED handlingVars
          /\ phase' = phase
      BY <2>1, CaptureSteps DEF Tells, TypeInv
    <2>3. CollectionTypes'
      BY <2>2, CollectionKept DEF TypeInv
    <2>. QED BY <2>2, <2>3, TakenKept DEF TypeInv, handlingVars, Legible
  <1>2. CASE Passes
    <2>1. /\ UNCHANGED chosen /\ UNCHANGED captureVars /\ UNCHANGED handlingVars
          /\ awaited' = awaited /\ cut' = cut
          /\ phase' \in Phases /\ aborted' \in BOOLEAN
          /\ phase' \in {"DRIVING", "SETTLING", "FAILED"} =>
                phase \in {"DRIVING", "SETTLING", "FAILED"}
      BY <1>2, PassesKeep
    <2>2. CaptureTypes'
      BY <2>1, CaptureKept DEF TypeInv, CaptureTypes
    <2>3. CollectionTypes'
      BY <2>1, CollectionKept DEF TypeInv, chosen
    <2>. QED BY <2>1, <2>2, <2>3, TakenKept DEF TypeInv, handlingVars, chosen, Legible
  <1>3. CASE Settled \/ CutShort
    <2>1. accepted = <<>> /\ at = 0 /\ accepted' = accepted /\ at' = at /\ broken' = broken
      BY <1>3 DEF Settled, CutShort, HandOver, TypeInv, CollectionTypes
    <2>2. TakenInv' /\ GroupInv'
      <3>1. Legible' = {}
        BY <2>1 DEF Legible
      <3>. QED BY <2>1, <3>1, TakenNone DEF TakenInv, GroupInv
    <2>. QED BY <1>3, <2>2, HandOverTypes
  <1>4. CASE CollectFeedPayload
    BY <1>4, CollectTypes DEF CollectFeedPayload, GroupInv, chosen
  <1>5. CASE ExtractGroupPayload
    BY <1>5, GroupTypes DEF TakenInv
  <1>6. CASE Submits
    BY <1>6, SubmitTypes, SubmitsKeep, TakenKept DEF chosen, Legible
  <1>8. CASE ExtractionFails
    BY <1>8, FailsTypes, FailsKeeps, TakenKept DEF chosen
  <1>7. CASE UNCHANGED vars
    <2>1. /\ UNCHANGED chosen /\ UNCHANGED captureVars /\ UNCHANGED handlingVars
          /\ awaited' = awaited /\ cut' = cut /\ phase' = phase /\ aborted' = aborted
      BY <1>7 DEF vars, chosen, captureVars, handlingVars
    <2>2. CaptureTypes'
      BY <2>1, CaptureKept DEF TypeInv, CaptureTypes
    <2>3. CollectionTypes'
      BY <2>1, CollectionKept DEF TypeInv, chosen
    <2>. QED BY <2>1, <2>2, <2>3, TakenKept DEF TypeInv, handlingVars, chosen, Legible
  <1>. QED BY <1>1, <1>2, <1>3, <1>4, <1>5, <1>6, <1>7, <1>8, Steps

\* The types, and that each post of a home feed is taken once.
THEOREM TakenSafe == Spec => [](TypeInv /\ TakenInv /\ GroupInv)
  <1>1. Init => TypeInv /\ TakenInv /\ GroupInv
    BY InitTypes, InitTaken
  <1>2. TypeInv /\ TakenInv /\ GroupInv /\ [Next]_vars
            => (TypeInv /\ TakenInv /\ GroupInv)'
    BY TypesStep
  <1>. QED BY <1>1, <1>2, PTL DEF Spec

\* A sequence that repeats nothing is as long as the set of what it holds.
LEMMA AsLongAsItsRange ==
    ASSUME NEW S, NEW s \in Seq(S), NoRepeats(s)
    PROVE  Len(s) = Cardinality(Range(s))
  <1>1. Len(s) \in Nat /\ DOMAIN s = 1 .. Len(s)
    OBVIOUS
  <1>2. Range(s) = {s[k] : k \in DOMAIN s}
    BY DEF Range
  <1>3. s \in Bijection(1 .. Len(s), Range(s))
    <2>1. s \in [1 .. Len(s) -> Range(s)]
      BY <1>1, <1>2
    <2>2. s \in Injection(1 .. Len(s), Range(s))
      BY <1>1, <2>1 DEF NoRepeats, Injection, IsInjective
    <2>3. s \in Surjection(1 .. Len(s), Range(s))
      BY <1>1, <1>2, <2>1 DEF Surjection
    <2>. QED BY <2>2, <2>3 DEF Bijection
  <1>4. ExistsBijection(1 .. Len(s), Range(s))
    BY <1>3 DEF ExistsBijection
  <1>. QED BY <1>1, <1>4, FS_CountingElements

LEMMA TypesTypeOK == TypeInv => TypeOK
  <1>. SUFFICES ASSUME TypeInv PROVE TypeOK
    OBVIOUS
  <1>1. captured \in Seq(Payload) /\ NoRepeats(captured)
    BY DEF TypeInv, CaptureTypes
  <1>2. Len(captured) = Cardinality(Range(captured))
    <2>. HIDE DEF Payload
    <2>. QED BY <1>1, AsLongAsItsRange
  <1>3. DOMAIN summary = DOMAIN NoSummary /\ Range(summary) \subseteq Nat
    <2>1. summary \in Summary
      BY DEF TypeInv, CollectionTypes
    <2>2. DOMAIN summary = DOMAIN NoSummary
      BY <2>1 DEF Summary, NoSummary
    <2>3. \A k \in DOMAIN summary : summary[k] \in Nat
      BY <2>1 DEF Summary
    <2>4. Range(summary) = {summary[k] : k \in DOMAIN summary}
      BY DEF Range
    <2>. QED BY <2>2, <2>3, <2>4
  <1>. QED BY <1>2, <1>3 DEF TypeInv, CaptureTypes, CollectionTypes, TypeOK, Phases

\* Types of the capture, of the hand-over and of what is collected; the buffer
\* holds nothing twice.
THEOREM Typing == Spec => []TypeOK
  BY TakenSafe, TypesTypeOK, PTL

-----------------------------------------------------------------------------
(* Each post of a home feed once *)

LEMMA TellingsAre ==
    ASSUME mode = "HOME_FEED", NEW post, NEW t
    PROVE  Tellings(post, t) = ToldIn("HOME_FEED", post, t)
  BY Zenon DEF Tellings, ToldIn

LEMMA FirstTelling ==
    ASSUME NEW payloads, NEW read \in SUBSET Nat, NEW c, NEW k \in read,
           FirstTold("HOME_FEED", payloads, c, k, read)
    PROVE  LET telling == {i \in read : ToldIn("HOME_FEED", c.post, payloads[i]) # {}}
           IN  Min(telling) = k
  <1>. DEFINE telling == {i \in read : ToldIn("HOME_FEED", c.post, payloads[i]) # {}}
  <1>1. k \in telling
    BY Zenon DEF FirstTold
  <1>2. \A i \in telling : k <= i
    <2>. SUFFICES ASSUME NEW i \in telling, ~(k <= i) PROVE FALSE
      OBVIOUS
    <2>1. i \in read /\ i < k
      OBVIOUS
    <2>. QED BY <2>1 DEF FirstTold
  <1>3. telling \in SUBSET Nat
    OBVIOUS
  <1>. HIDE DEF telling
  <1>4. Min(telling) \in telling /\ \A y \in telling : Min(telling) <= y
    BY <1>1, <1>3, SmallestOf
  <1>5. k \in Int /\ Min(telling) \in Int
    <2>1. Min(telling) \in Nat
      BY <1>3, <1>4
    <2>. QED BY <2>1
  <1>6. Min(telling) = k
    BY <1>1, <1>2, <1>4, <1>5
  <1>. QED BY <1>6 DEF telling

LEMMA TakenOnce == TypeInv /\ TakenInv => EachPostOnce
  <1>. SUFFICES ASSUME TypeInv, TakenInv, mode = "HOME_FEED"
                PROVE  /\ Len(accepted) <= MaxPosts
                       /\ \A k \in DOMAIN accepted :
                             LET c == accepted[k]
                                 telling == {n \in Legible : Tellings(c.post, passed[n]) # {}}
                             IN  /\ \A l \in DOMAIN accepted : accepted[l].post = c.post => l = k
                                 /\ c \in Tellings(c.post, passed[Min(telling)])
                                 /\ \A d \in Tellings(c.post, passed[Min(telling)]) :
                                       d.text <= c.text
    BY DEF EachPostOnce
  <1>1. CollectedOnce(accepted, passed, Legible) /\ Legible \in SUBSET Nat
    BY DEF TakenInv, TypeInv, CollectionTypes, Legible
  <1>2. Len(accepted) <= MaxPosts
    BY <1>1 DEF CollectedOnce
  <1>3. ASSUME NEW k \in DOMAIN accepted
        PROVE  LET c == accepted[k]
                   telling == {n \in Legible : Tellings(c.post, passed[n]) # {}}
               IN  /\ \A l \in DOMAIN accepted : accepted[l].post = c.post => l = k
                   /\ c \in Tellings(c.post, passed[Min(telling)])
                   /\ \A d \in Tellings(c.post, passed[Min(telling)]) : d.text <= c.text
    <2>. DEFINE c == accepted[k]
                telling == {n \in Legible : Tellings(c.post, passed[n]) # {}}
                told == {n \in Legible : ToldIn("HOME_FEED", c.post, passed[n]) # {}}
    <2>1. \A l \in DOMAIN accepted : accepted[l].post = c.post => l = k
      BY <1>1 DEF CollectedOnce
    <2>2. PICK i \in Legible : FirstTold("HOME_FEED", passed, c, i, Legible)
      BY <1>1 DEF CollectedOnce
    <2>3. Min(told) = i
      <3>. HIDE DEF c
      <3>. QED BY <1>1, <2>2, FirstTelling
    <2>4. \A post, t : Tellings(post, t) = ToldIn("HOME_FEED", post, t)
      BY TellingsAre
    <2>5. telling = told
      BY <2>4, Zenon
    <2>6. Min(telling) = i
      <3>. HIDE DEF telling, told
      <3>. QED BY <2>3, <2>5
    <2>7. c \in ToldIn("HOME_FEED", c.post, passed[i])
          /\ \A d \in ToldIn("HOME_FEED", c.post, passed[i]) : d.text <= c.text
      BY <2>2 DEF FirstTold
    <2>8. Tellings(c.post, passed[i]) = ToldIn("HOME_FEED", c.post, passed[i])
      BY <2>4
    <2>. HIDE DEF telling, c
    <2>9. c \in Tellings(c.post, passed[Min(telling)])
          /\ \A d \in Tellings(c.post, passed[Min(telling)]) : d.text <= c.text
      BY <2>6, <2>7, <2>8
    <2>. QED BY <2>1, <2>9 DEF telling, c
  <1>. QED BY <1>2, <1>3

\* A home feed run takes each post once and no more than it may: as the richest
\* fragment tells it in the first payload that has it and can be extracted.
THEOREM PostsTakenOnce == Spec => []EachPostOnce
  BY TakenSafe, TakenOnce, PTL

-----------------------------------------------------------------------------
(* Nothing that was heard is lost *)

LEMMA HeardKept ==
    ASSUME HeardInv, net' = net, feed' = feed, Range(captured) \subseteq Range(captured)'
    PROVE  HeardInv'
  BY DEF HeardInv

LEMMA CapturedKept ==
    ASSUME captured' = captured
    PROVE  Range(captured) \subseteq Range(captured)'
  BY DEF Range

LEMMA NetworkHeard ==
    ASSUME TypeInv, HeardInv, NEW r \in Responses, NetworkTells(r)
    PROVE  HeardInv'
  <1>1. feed[r] \in Answer /\ feed[r].got \in STRING /\ feed[r].bodies \in Seq(Seq(Node))
    BY AnswerIs DEF NetworkTells, TypeInv, CaptureTypes
  <1>2. captured' = RecordAll(captured, feed[r].got, feed[r].bodies)
        /\ captured \in Seq(Payload)
    BY DEF NetworkTells, TypeInv, CaptureTypes, RecordAll
  <1>3. Holds(captured', captured, feed[r].got, feed[r].bodies, Len(feed[r].bodies))
    BY <1>1, <1>2, RecordedAll
  <1>4. feed' = feed /\ net' = [net EXCEPT ![r] = "READ"]
        /\ net \in [Responses -> {"NONE", "READING", "READ", "FAILED"}]
    BY DEF NetworkTells, chosen, TypeInv, CaptureTypes
  <1>5. Range(captured) \subseteq Range(captured)'
        /\ \A i \in 1 .. Len(feed[r].bodies) :
              [url |-> feed[r].got, body |-> feed[r].bodies[i]] \in Range(captured)'
    BY <1>3 DEF Holds
  <1>6. DOMAIN feed[r].bodies = 1 .. Len(feed[r].bodies)
    BY <1>1
  <1>. SUFFICES ASSUME NEW q \in Responses, net'[q] = "READ", NEW i \in DOMAIN feed[q].bodies
                PROVE  [url |-> feed[q].got, body |-> feed[q].bodies[i]] \in Range(captured)'
    BY <1>4 DEF HeardInv
  <1>7. CASE q = r
    BY <1>5, <1>6, <1>7
  <1>8. CASE q # r
    <2>1. net[q] = "READ"
      BY <1>4, <1>8
    <2>2. [url |-> feed[q].got, body |-> feed[q].bodies[i]] \in Range(captured)
      BY <2>1 DEF HeardInv
    <2>. QED BY <1>5, <2>2
  <1>. QED BY <1>7, <1>8

LEMMA HeardStep ==
    ASSUME TypeInv, HeardInv, [Next]_vars
    PROVE  HeardInv'
  <1>1. ASSUME NEW r \in Responses, Tells(r) PROVE HeardInv'
    <2>1. CASE NetworkTells(r)
      BY <2>1, NetworkHeard
    <2>2. CASE Respond(r) \/ PageTells(r) \/ PageFails(r) \/ NetworkFails(r)
      <3>1. Range(captured) \subseteq Range(captured)' /\ feed' = feed
        BY <1>1, CaptureSteps DEF Tells, TypeInv
      <3>2. net \in [Responses -> {"NONE", "READING", "READ", "FAILED"}]
        BY DEF TypeInv, CaptureTypes
      <3>3. \A q \in Responses : net'[q] = "READ" => net[q] = "READ"
        BY <2>2, <3>2 DEF Respond, PageTells, PageFails, NetworkFails
      <3>. QED BY <3>1, <3>3 DEF HeardInv
    <2>. QED BY <1>1, <2>1, <2>2 DEF Tells
  <1>2. ASSUME UNCHANGED captureVars, UNCHANGED chosen PROVE HeardInv'
    BY <1>2, HeardKept, CapturedKept DEF captureVars, chosen
  <1>3. CASE Passes
    BY <1>2, <1>3, PassesKeep
  <1>4. CASE Settled \/ CutShort
    BY <1>2, <1>4 DEF Settled, CutShort, HandOver
  <1>5. CASE CollectFeedPayload \/ ExtractGroupPayload \/ ExtractionFails
    BY <1>2, <1>5 DEF CollectFeedPayload, ExtractGroupPayload, ExtractionFails
  <1>6. CASE Submits
    BY <1>2, <1>6, SubmitsKeep
  <1>7. CASE UNCHANGED vars
    BY <1>2, <1>7 DEF vars, captureVars, chosen
  <1>. QED BY <1>1, <1>3, <1>4, <1>5, <1>6, <1>7, Steps

\* The hand-over
LEMMA HandsOverWhatWasHeard ==
    ASSUME TypeInv, HeardInv, Settled, NEW r \in awaited
    PROVE  net[r] = "FAILED" \/ Range(feed[r].bodies) \subseteq Range(passed')
  <1>1. /\ r \in Responses /\ net[r] \in {"READ", "FAILED"}
        /\ passed' = [k \in DOMAIN captured |-> captured[k].body]
    BY DEF Settled, HandOver, TypeInv, CaptureTypes
  <1>2. ASSUME net[r] = "READ", NEW i \in DOMAIN feed[r].bodies
        PROVE  feed[r].bodies[i] \in Range(passed')
    <2>1. [url |-> feed[r].got, body |-> feed[r].bodies[i]] \in Range(captured)
      BY <1>1, <1>2 DEF HeardInv
    <2>2. PICK k \in DOMAIN captured :
              captured[k] = [url |-> feed[r].got, body |-> feed[r].bodies[i]]
      BY <2>1 DEF Range
    <2>3. k \in DOMAIN passed' /\ passed'[k] = feed[r].bodies[i]
      BY <1>1, <2>2
    <2>. QED BY <2>3 DEF Range
  <1>3. Range(feed[r].bodies) = {feed[r].bodies[i] : i \in DOMAIN feed[r].bodies}
    BY DEF Range
  <1>. QED BY <1>1, <1>2, <1>3

LEMMA NothingLostKept ==
    ASSUME NothingHeardIsLost, HandedOver' => HandedOver,
           UNCHANGED <<net, feed, awaited, cut, passed>>
    PROVE  NothingHeardIsLost'
  BY DEF NothingHeardIsLost

LEMMA NothingLostStep ==
    ASSUME TypeInv, HeardInv, NothingHeardIsLost, [Next]_vars
    PROVE  NothingHeardIsLost'
  <1>1. ASSUME NEW r \in Responses, Tells(r) PROVE NothingHeardIsLost'
    <2>1. phase' = phase /\ phase \in {"DRIVING", "SETTLING"}
      BY <1>1, CaptureSteps DEF Tells, TypeInv
    <2>. QED BY <2>1 DEF NothingHeardIsLost, HandedOver
  <1>2. CASE Passes
    <2>1. HandedOver' => HandedOver
      BY <1>2 DEF Passes, CaptureFails, Settle, Abort, FeedExtracted, PayloadSubmitted,
                  Interrupted, Finish, Candidates, HandedOver
    <2>. QED BY <1>2, <2>1, PassesKeep, NothingLostKept DEF chosen, captureVars, handlingVars
  <1>3. CASE Settled
    <2>1. \A r \in awaited : net[r] = "FAILED" \/ Range(feed[r].bodies) \subseteq Range(passed')
      BY <1>3, HandsOverWhatWasHeard
    <2>2. UNCHANGED <<net, feed, awaited>>
      BY <1>3 DEF Settled, HandOver, captureVars, chosen
    <2>. QED BY <2>1, <2>2 DEF NothingHeardIsLost, Range
  <1>4. CASE CutShort
    BY <1>4 DEF CutShort, NothingHeardIsLost
  <1>5. CASE CollectFeedPayload \/ ExtractGroupPayload \/ ExtractionFails
    <2>1. HandedOver /\ UNCHANGED <<net, feed, awaited, cut, passed>>
      BY <1>5 DEF CollectFeedPayload, ExtractGroupPayload, ExtractionFails, PayloadLeft,
                  HandedOver, captureVars, chosen
    <2>. QED BY <2>1, NothingLostKept
  <1>6. CASE Submits
    <2>1. HandedOver /\ UNCHANGED <<net, feed, awaited, cut, passed>>
      BY <1>6, SubmitsKeep DEF HandedOver, captureVars, chosen
    <2>. QED BY <2>1, NothingLostKept
  <1>7. CASE UNCHANGED vars
    BY <1>7, NothingLostKept DEF vars, HandedOver
  <1>. QED BY <1>1, <1>2, <1>3, <1>4, <1>5, <1>6, <1>7, Steps

\* Every body of an answer that came while the page was driven is handed over,
\* unless the listener could not read it or the wait was cut short.
THEOREM NothingHeardLost == Spec => []NothingHeardIsLost
  <1>1. Init => HeardInv /\ NothingHeardIsLost
    BY DEF Init, HeardInv, NothingHeardIsLost, HandedOver
  <1>2. TypeInv /\ HeardInv /\ NothingHeardIsLost /\ [Next]_vars
            => (HeardInv /\ NothingHeardIsLost)'
    BY HeardStep, NothingLostStep
  <1>. QED BY <1>1, <1>2, TakenSafe, PTL DEF Spec

-----------------------------------------------------------------------------
(* The summary adds up *)

LEMMA CountKept ==
    ASSUME CountInv, phase' = phase, mode' = mode,
           UNCHANGED <<passed, at, broken, accepted, next, summary>>
    PROVE  CountInv'
  BY DEF CountInv, FullyDone

LEMMA ObservedKept ==
    ASSUME ObservedInv, cache' = cache, observations' = observations
    PROVE  ObservedInv'
  BY DEF ObservedInv, Known

LEMMA InitCounts == Init => ObservedInv /\ CountInv
  <1>. SUFFICES ASSUME Init PROVE ObservedInv /\ CountInv
    OBVIOUS
  <1>1. Known = {}
    BY DEF Init, Known
  <1>2. ObservedInv
    BY <1>1 DEF Init, ObservedInv
  <1>3. CountInv
    BY DEF Init, CountInv, NoSummary
  <1>. QED BY <1>2, <1>3

LEMMA PassesCount ==
    ASSUME TypeInv, CountInv, Passes
    PROVE  CountInv'
  <1>1. mode' = mode /\ UNCHANGED <<passed, at, broken, accepted, next, summary>>
    BY PassesKeep DEF chosen, handlingVars
  <1>2. CASE CaptureFails \/ Settle \/ Interrupted
    <2>1. phase' \in {"FAILED", "SETTLING", "INTERRUPTED"}
      BY <1>2 DEF CaptureFails, Settle, Interrupted
    <2>. QED BY <1>1, <2>1 DEF CountInv
  <1>3. CASE Abort
    <2>1. phase' = phase
      BY <1>3 DEF Abort
    <2>. QED BY <1>1, <2>1, CountKept
  <1>4. CASE FeedExtracted
    <2>1. mode = "HOME_FEED" /\ phase' = "SUBMITTING"
          /\ (at = Len(passed) \/ Len(accepted) = MaxPosts)
      BY <1>4 DEF FeedExtracted
    <2>. QED BY <1>1, <2>1 DEF CountInv
  <1>5. CASE PayloadSubmitted
    <2>1. mode = "GROUP" /\ phase' = "EXTRACTING" /\ next = Len(accepted)
      BY <1>5 DEF PayloadSubmitted
    <2>. QED BY <1>1, <2>1 DEF CountInv
  <1>6. CASE Finish
    <2>1. phase' = IF FullyDone THEN "SUCCEEDED" ELSE "PARTIAL"
      BY <1>6 DEF Finish
    <2>2. \/ mode = "GROUP" /\ phase = "EXTRACTING" /\ at = Len(passed)
          \/ mode = "HOME_FEED" /\ phase = "SUBMITTING" /\ next = Len(accepted)
      BY <1>6 DEF Finish
    <2>3. FullyDone' = FullyDone
      BY <1>1 DEF FullyDone
    <2>. QED BY <1>1, <2>1, <2>2, <2>3 DEF CountInv
  <1>. QED BY <1>2, <1>3, <1>4, <1>5, <1>6 DEF Passes

LEMMA CollectCounts ==
    ASSUME TypeInv, CountInv, CollectFeedPayload
    PROVE  CountInv'
  <1>. DEFINE candidates == Extract("HOME_FEED", passed[at + 1])
              collected == Collected(accepted, candidates)
              x == summary.extracted + Len(candidates)
              d == summary.deduplicated + Len(collected) - Len(accepted)
  <1>1. /\ phase = "EXTRACTING" /\ mode = "HOME_FEED" /\ accepted' = collected
        /\ summary' = [summary EXCEPT !.extracted = x, !.deduplicated = d]
        /\ next' = next /\ phase' = phase /\ mode' = mode
    BY DEF CollectFeedPayload, PayloadLeft, chosen
  <1>2. summary \in Summary
    BY DEF TypeInv, CollectionTypes
  <1>3. Len(accepted) = summary.deduplicated
    BY <1>1 DEF CountInv
  <1>4. Len(collected) \in Nat
    <2>1. (accepted \in Seq(CandidateRecord)) /\ candidates \in Seq(CandidateRecord)
      <3>1. passed[at + 1] \in Seq(Node) /\ "HOME_FEED" \in Modes
        BY DEF CollectFeedPayload, PayloadLeft, TypeInv, CollectionTypes, Modes
      <3>. QED BY <3>1, ExtractedIs DEF TypeInv, CollectionTypes
    <2>. HIDE DEF candidates
    <2>2. PICK h \in [0 .. Len(candidates) -> Seq(CandidateRecord)] :
              h[Len(candidates)] = Collected(accepted, candidates)
      BY <2>1, CollectionStepByStep
    <2>3. Len(candidates) \in 0 .. Len(candidates)
      BY <2>1
    <2>4. collected \in Seq(CandidateRecord)
      BY <2>2, <2>3
    <2>. HIDE DEF collected
    <2>. QED BY <2>4
  <1>. HIDE DEF candidates, collected
  <1>5. d = Len(collected)
    BY <1>2, <1>3, <1>4 DEF Summary
  <1>. HIDE DEF x, d
  <1>6. summary'.submitted = summary.submitted /\ summary'.failed = summary.failed
        /\ summary'.deduplicated = d
    BY <1>1, <1>2 DEF Summary
  <1>. QED BY <1>1, <1>5, <1>6 DEF CountInv

LEMMA GroupCounts ==
    ASSUME TypeInv, CountInv, ExtractGroupPayload
    PROVE  CountInv'
  <1>. DEFINE x == summary.extracted + Len(Extract(mode, passed[at + 1]))
  <1>1. /\ TypeInv' /\ mode = "GROUP" /\ mode' = mode
        /\ summary'.extracted - summary.extracted = Len(accepted') - Len(accepted)
    BY GroupTypes
  <1>2. phase' = "SUBMITTING" /\ next' = next
        /\ summary' = [summary EXCEPT !.extracted = x]
    BY DEF ExtractGroupPayload
  <1>3. /\ summary \in Summary /\ summary' \in Summary
        /\ accepted \in Seq(CandidateRecord) /\ accepted' \in Seq(CandidateRecord)
    BY <1>1 DEF TypeInv, CollectionTypes
  <1>. HIDE DEF x
  <1>4. summary'.submitted = summary.submitted /\ summary'.failed = summary.failed
    BY <1>2, <1>3 DEF Summary
  <1>5. Len(accepted') = summary'.extracted
    <2>1. Len(accepted) \in Nat /\ Len(accepted') \in Nat
          /\ summary.extracted \in Nat /\ summary'.extracted \in Nat
      BY <1>3 DEF Summary
    <2>2. Len(accepted) = summary.extracted
      BY <1>1 DEF CountInv
    <2>. QED BY <1>1, <2>1, <2>2
  <1>. QED BY <1>1, <1>2, <1>4, <1>5 DEF CountInv

LEMMA SubmitCounts ==
    ASSUME TypeInv, CountInv, Submits
    PROVE  CountInv'
  <1>. DEFINE s == summary.submitted + 1
              f == summary.failed + 1
              u == summary.unobserved + 1
  <1>1. /\ phase = "SUBMITTING" /\ phase' = phase /\ mode' = mode
        /\ UNCHANGED <<passed, at, accepted>>
    BY SubmitsKeep DEF chosen
  <1>2. summary \in Summary /\ s \in Nat /\ f \in Nat /\ next \in Nat
        /\ summary.submitted \in Nat /\ summary.failed \in Nat
    BY DEF TypeInv, CollectionTypes, Summary
  <1>3. \/ next' = next /\ summary' = summary
        \/ next' = next + 1 /\ summary' = [summary EXCEPT !.submitted = s]
        \/ next' = next + 1 /\ summary' = [summary EXCEPT !.failed = f]
        \/ next' = next + 1 /\ summary' = [summary EXCEPT !.failed = f, !.unobserved = u]
    BY DEF Submits, SubmitToGroup, ObservePublisher, SkipUnobserved, SubmitToFeed, Count
  <1>4. /\ s + summary.failed = (summary.submitted + summary.failed) + 1
        /\ summary.submitted + f = (summary.submitted + summary.failed) + 1
    BY <1>2
  <1>. HIDE DEF s, f, u
  <1>5. summary'.extracted = summary.extracted /\ summary'.deduplicated = summary.deduplicated
    BY <1>2, <1>3 DEF Summary
  <1>6. summary'.submitted + summary'.failed = next'
    <2>1. summary.submitted + summary.failed = next
      BY DEF CountInv
    <2>2. CASE next' = next /\ summary' = summary
      BY <2>1, <2>2
    <2>3. CASE next' = next + 1 /\ summary' = [summary EXCEPT !.submitted = s]
      <3>1. summary'.submitted = s /\ summary'.failed = summary.failed
        BY <1>2, <2>3 DEF Summary
      <3>. QED BY <1>4, <2>1, <2>3, <3>1
    <2>4. CASE next' = next + 1 /\ (\/ summary' = [summary EXCEPT !.failed = f]
                                    \/ summary' = [summary EXCEPT !.failed = f, !.unobserved = u])
      <3>1. summary'.submitted = summary.submitted /\ summary'.failed = f
        BY <1>2, <2>4 DEF Summary
      <3>. QED BY <1>4, <2>1, <2>4, <3>1
    <2>. QED BY <1>3, <2>2, <2>3, <2>4
  <1>. QED BY <1>1, <1>5, <1>6 DEF CountInv

LEMMA CountStep ==
    ASSUME TypeInv, TakenInv, GroupInv, CountInv, [Next]_vars
    PROVE  CountInv'
  <1>1. ASSUME NEW r \in Responses, Tells(r) PROVE CountInv'
    BY <1>1, CaptureSteps, CountKept DEF Tells, TypeInv, handlingVars
  <1>2. CASE Passes
    BY <1>2, PassesCount
  <1>3. CASE Settled \/ CutShort
    <2>1. phase = "SETTLING" /\ phase' = "EXTRACTING" /\ mode' = mode
          /\ UNCHANGED <<at, accepted, next, summary>>
      BY <1>3 DEF Settled, CutShort, HandOver, chosen
    <2>2. next = 0 /\ accepted = <<>> /\ Len(<<>>) = 0
      BY <2>1 DEF TypeInv, CollectionTypes
    <2>. QED BY <2>1, <2>2 DEF CountInv
  <1>4. CASE CollectFeedPayload
    BY <1>4, CollectCounts
  <1>5. CASE ExtractGroupPayload
    BY <1>5, GroupCounts
  <1>6. CASE Submits
    BY <1>6, SubmitCounts
  <1>7. CASE UNCHANGED vars
    BY <1>7, CountKept DEF vars
  <1>8. CASE ExtractionFails
    <2>1. /\ phase = "EXTRACTING" /\ phase' = phase /\ mode' = mode
          /\ UNCHANGED <<passed, accepted, next, summary>>
      BY <1>8, FailsKeeps DEF chosen
    <2>. QED BY <2>1 DEF CountInv
  <1>. QED BY <1>1, <1>2, <1>3, <1>4, <1>5, <1>6, <1>7, <1>8, Steps

LEMMA ObservedStep ==
    ASSUME TypeInv, ObservedInv, [Next]_vars
    PROVE  ObservedInv'
  <1>1. ASSUME NEW r \in Responses, Tells(r) PROVE ObservedInv'
    BY <1>1, CaptureSteps, ObservedKept DEF Tells, TypeInv, handlingVars
  <1>2. CASE Passes
    BY <1>2, PassesKeep, ObservedKept DEF handlingVars
  <1>3. CASE \/ Settled \/ CutShort \/ CollectFeedPayload \/ ExtractGroupPayload
             \/ ExtractionFails
    BY <1>3, ObservedKept DEF Settled, CutShort, HandOver, CollectFeedPayload,
                              ExtractGroupPayload, ExtractionFails
  <1>4. CASE SubmitToGroup \/ SkipUnobserved \/ SubmitToFeed
    BY <1>4, ObservedKept DEF SubmitToGroup, SkipUnobserved, SubmitToFeed
  <1>5. CASE ObservePublisher
    <2>. DEFINE q == Current.publisher
    <2>1. /\ observations' = [observations EXCEPT ![q] = @ + 1]
          /\ DOMAIN cache' = Known \cup {q} /\ q \notin Known
      BY <1>5 DEF ObservePublisher
    <2>2. observations \in [Publishers -> Nat]
      BY DEF TypeInv, CollectionTypes
    <2>. HIDE DEF q
    <2>. SUFFICES ASSUME NEW p \in Publishers
                  PROVE  observations'[p] = IF p \in DOMAIN cache' THEN 1 ELSE 0
      BY DEF ObservedInv, Known
    <2>3. observations[p] = IF p \in Known THEN 1 ELSE 0
      BY DEF ObservedInv
    <2>. QED BY <2>1, <2>2, <2>3
  <1>6. CASE UNCHANGED vars
    BY <1>6, ObservedKept DEF vars
  <1>. QED BY <1>1, <1>2, <1>3, <1>4, <1>5, <1>6, Steps DEF Submits

LEMMA CountsAddUp ==
    ASSUME TypeInv, TakenInv, GroupInv, ObservedInv, CountInv
    PROVE  SummaryAddsUp
  <1>1. \A p \in Publishers : observations[p] <= 1
    BY DEF ObservedInv
  <1>. SUFFICES ASSUME phase \in {"SUCCEEDED", "PARTIAL"}
                PROVE  /\ summary.submitted + summary.failed = Len(accepted)
                       /\ Len(accepted) = IF mode = "GROUP" THEN summary.extracted
                                                            ELSE summary.deduplicated
                       /\ mode = "GROUP" \/ Len(accepted) < MaxPosts =>
                             \A n \in DOMAIN passed \ broken :
                                \A c \in Range(Extract(mode, passed[n])) :
                                    \E d \in Range(accepted) : d.post = c.post
                       /\ phase = "SUCCEEDED" <=>
                             /\ summary.submitted = Len(accepted)
                             /\ mode = "GROUP" => Legible = DOMAIN passed
    BY <1>1 DEF SummaryAddsUp
  <1>2. summary.submitted + summary.failed = Len(accepted)
    BY DEF CountInv
  <1>3. /\ passed \in Seq(Seq(Node)) /\ accepted \in Seq(CandidateRecord)
        /\ DOMAIN passed = 1 .. Len(passed) /\ at \in Nat /\ broken \subseteq 1 .. at
        /\ mode \in Modes
    BY DEF TypeInv, CaptureTypes, CollectionTypes
  <1>4. phase = "SUCCEEDED" <=>
            /\ summary.submitted = Len(accepted)
            /\ mode = "GROUP" => Legible = DOMAIN passed
    <2>1. summary.submitted \in Nat /\ summary.failed \in Nat
      BY DEF TypeInv, CollectionTypes, Summary
    <2>2. phase = "SUCCEEDED" <=> summary.failed = 0 /\ (mode = "GROUP" => broken = {})
      BY DEF CountInv, FullyDone
    <2>3. summary.failed = 0 <=> summary.submitted = Len(accepted)
      BY <1>2, <2>1
    <2>4. ASSUME mode = "GROUP" PROVE broken = {} <=> Legible = DOMAIN passed
      <3>1. DOMAIN passed = 1 .. at
        BY <1>3, <2>4 DEF CountInv
      <3>. QED BY <1>3, <3>1 DEF Legible
    <2>. QED BY <2>2, <2>3, <2>4
  <1>5. Len(accepted) = IF mode = "GROUP" THEN summary.extracted ELSE summary.deduplicated
    BY DEF CountInv
  <1>6. ASSUME mode = "GROUP" \/ Len(accepted) < MaxPosts,
               NEW n \in DOMAIN passed \ broken, NEW c \in Range(Extract(mode, passed[n]))
        PROVE  \E d \in Range(accepted) : d.post = c.post
    <2>1. at = Len(passed)
      <3>1. Len(accepted) \in Nat /\ (mode = "GROUP" \/ mode = "HOME_FEED")
        BY <1>3 DEF Modes
      <3>2. mode = "HOME_FEED" => at = Len(passed) \/ Len(accepted) = MaxPosts
        BY DEF CountInv
      <3>3. mode = "GROUP" => at = Len(passed)
        BY DEF CountInv
      <3>. QED BY <1>6, <3>1, <3>2, <3>3, CollectionBounds
    <2>2. n \in Legible
      BY <1>3, <2>1 DEF Legible
    <2>3. PICK j \in DOMAIN Extract(mode, passed[n]) : c = Extract(mode, passed[n])[j]
      BY <1>6 DEF Range
    <2>4. \E k \in DOMAIN accepted : accepted[k].post = Extract(mode, passed[n])[j].post
      <3>1. CASE mode = "GROUP"
        <4>1. \A i \in Legible : \A g \in DOMAIN Extract("GROUP", passed[i]) :
                 \E k \in DOMAIN accepted :
                     accepted[k].post = Extract("GROUP", passed[i])[g].post
          BY <3>1 DEF GroupInv, AllTaken
        <4>. QED BY <2>2, <2>3, <3>1, <4>1, Zenon
      <3>2. CASE mode = "HOME_FEED"
        <4>1. CollectedOnce(accepted, passed, Legible) /\ Len(accepted) < MaxPosts
          BY <1>6, <3>2 DEF TakenInv
        <4>2. \A i \in Legible : \A g \in DOMAIN Extract("HOME_FEED", passed[i]) :
                 \E k \in DOMAIN accepted :
                     accepted[k].post = Extract("HOME_FEED", passed[i])[g].post
          BY <4>1 DEF CollectedOnce
        <4>. QED BY <2>2, <2>3, <3>2, <4>2, Zenon
      <3>. QED BY <1>3, <3>1, <3>2 DEF Modes
    <2>5. PICK k \in DOMAIN accepted : accepted[k].post = c.post
      BY <2>3, <2>4
    <2>6. accepted[k] \in Range(accepted)
      BY DEF Range
    <2>. QED BY <2>5, <2>6
  <1>. QED BY <1>2, <1>4, <1>5, <1>6

\* The summary of a run that was not interrupted accounts for every candidate of
\* every payload that could be extracted, a publisher is observed once at most, and
\* a group's run in which a payload could not be extracted does not succeed.
THEOREM SummaryCounts == Spec => []SummaryAddsUp
  <1>1. Init => ObservedInv /\ CountInv
    BY InitCounts
  <1>2. TypeInv /\ TakenInv /\ GroupInv /\ ObservedInv /\ CountInv /\ [Next]_vars
            => (ObservedInv /\ CountInv)'
    BY ObservedStep, CountStep
  <1>3. TypeInv /\ TakenInv /\ GroupInv /\ ObservedInv /\ CountInv => SummaryAddsUp
    BY CountsAddUp
  <1>. QED BY <1>1, <1>2, <1>3, TakenSafe, PTL DEF Spec
=============================================================================
