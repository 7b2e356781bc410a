-------------------------- MODULE StateStoreProofs --------------------------
(***************************************************************************)
(* Proofs about StateStore for any paths, values, subscribers and bounds:  *)
(* what stop() and start() mean for the deliveries scheduled before them,  *)
(* that the counters are true, and that the events tell a subscriber all   *)
(* of its part of the tree, each with the value it saw before.             *)
(*                                                                         *)
(* The batches, the callbacks and what is replayed are folds over          *)
(* sequences.  The first part turns such a fold into a run, a function on  *)
(* 0..n that takes one element at a time, once and for all; the rest       *)
(* argues about runs.                                                      *)
(***************************************************************************)
EXTENDS StateStore, FiniteSetTheorems, SequenceTheorems, WellFoundedInduction, TLAPS

-----------------------------------------------------------------------------
(* Induction over the subsets of a finite set, with the members of a set   *)
(* in the place of the predicate.                                          *)
LEMMA FiniteSubsets ==
  ASSUME NEW S, IsFiniteSet(S), NEW Z, {} \in Z,
         \A T \in (SUBSET S) \ {{}} : (\A U \in SUBSET T : U # T => U \in Z) => T \in Z
  PROVE  \A T \in SUBSET S : T \in Z
<1> DEFINE bad == {T \in FiniteSubsetsOf(S) : T \notin Z}
<1>1. \A T \in SUBSET S : T \in FiniteSubsetsOf(S)
  BY FS_Subset DEF FiniteSubsetsOf
<1>2. SUFFICES ASSUME bad # {} PROVE FALSE
  BY <1>1
<1>3. PICK T \in bad : \A U \in bad : <<U, T>> \notin StrictSubsetOrdering(S)
  <2>1. bad \subseteq FiniteSubsetsOf(S)
    OBVIOUS
  <2> HIDE DEF bad
  <2> QED
    BY <1>2, <2>1, FS_StrictSubsetOrderingWellFounded, WFMin
<1>4. T \in SUBSET S /\ T \notin Z
  BY DEF FiniteSubsetsOf
<1>5. \A U \in SUBSET T : U # T => U \in Z
  <2> SUFFICES ASSUME NEW U \in SUBSET T, U # T, U \notin Z PROVE FALSE
    OBVIOUS
  <2>1. U \in bad
    BY <1>1, <1>4
  <2>2. <<U, T>> \in StrictSubsetOrdering(S)
    BY <1>4 DEF StrictSubsetOrdering
  <2> QED
    BY <1>3, <2>1, <2>2
<1> QED
  BY <1>4, <1>5

(* What the folds of the community modules are made of: f folds F over     *)
(* every subset of S, from base, taking c[T] first.                        *)
Folds(f, S, base, F, c) ==
    f = [T \in SUBSET S |-> IF T = {} THEN base ELSE F[<<c[T], f[T \ {c[T]}]>>]]

Chooses(c, S) == \A T \in (SUBSET S) \ {{}} : c[T] \in T

LEMMA FoldsAgree ==
  ASSUME NEW S, IsFiniteSet(S), NEW base, NEW F, NEW c, Chooses(c, S),
         NEW A \in SUBSET S, NEW B \in SUBSET S, NEW f, NEW g,
         Folds(f, A, base, F, c), Folds(g, B, base, F, c)
  PROVE  \A T \in SUBSET (A \cap B) : f[T] = g[T]
<1> DEFINE Z == {T \in SUBSET (A \cap B) : f[T] = g[T]}
<1>0. IsFiniteSet(A \cap B)
  BY FS_Subset
<1>1. {} \in Z
  BY DEF Folds
<1>2. ASSUME NEW T \in (SUBSET (A \cap B)) \ {{}}, \A U \in SUBSET T : U # T => U \in Z
      PROVE  T \in Z
  <2>1. c[T] \in T /\ T \ {c[T]} \in SUBSET T /\ T \ {c[T]} # T
    BY DEF Chooses
  <2>2. f[T \ {c[T]}] = g[T \ {c[T]}]
    BY <1>2, <2>1
  <2> QED
    BY <2>1, <2>2 DEF Folds
<1>3. \A T \in SUBSET (A \cap B) : T \in Z
  <2> HIDE DEF Z
  <2> QED
    BY <1>0, <1>1, <1>2, FiniteSubsets
<1> QED
  BY <1>3

LEMMA FoldsExist ==
  ASSUME NEW S, IsFiniteSet(S), NEW base, NEW F, NEW c, Chooses(c, S)
  PROVE  \E f : Folds(f, S, base, F, c)
<1> DEFINE Z == {T \in SUBSET S : \E f : Folds(f, T, base, F, c)}
<1>1. {} \in Z
  <2>1. Folds([T \in SUBSET {} |-> base], {}, base, F, c)
    BY DEF Folds
  <2> QED
    BY <2>1
<1>2. ASSUME NEW A \in (SUBSET S) \ {{}}, \A U \in SUBSET A : U # A => U \in Z
      PROVE  A \in Z
  <2> DEFINE G(U) == CHOOSE f : Folds(f, U, base, F, c)
             f == [T \in SUBSET A |->
                     IF T = {} THEN base ELSE F[<<c[T], G(T \ {c[T]})[T \ {c[T]}]>>]]
  <2>1. ASSUME NEW U \in SUBSET A, U # A PROVE Folds(G(U), U, base, F, c)
    BY <1>2, <2>1
  <2>2. ASSUME NEW U \in SUBSET A, U # A PROVE f[U] = G(U)[U]
    <3>1. CASE U = {}
      <4>1. Folds(G(U), U, base, F, c) /\ U \in SUBSET U /\ U \in SUBSET A
        BY <2>1, <2>2
      <4>2. G(U)[U] = base
        BY <3>1, <4>1 DEF Folds
      <4>3. f[U] = base
        BY <3>1
      <4> QED
        BY <4>2, <4>3
    <3>2. CASE U # {}
      <4> DEFINE V == U \ {c[U]}
      <4>1. c[U] \in U /\ V \in SUBSET U /\ V # U /\ V \in SUBSET A /\ V # A
        BY <2>2, <3>2 DEF Chooses
      <4>2. Folds(G(U), U, base, F, c) /\ Folds(G(V), V, base, F, c)
        BY <2>1, <2>2, <4>1
      <4>3. G(U)[V] = G(V)[V]
        <5> HIDE DEF G, V
        <5>1. U \in SUBSET S /\ V \in SUBSET S /\ V \in SUBSET (U \cap V)
          BY <4>1
        <5> QED
          BY <4>2, <5>1, FoldsAgree
      <4>4. G(U)[U] = F[<<c[U], G(U)[V]>>]
        BY <3>2, <4>2 DEF Folds
      <4>5. f[U] = F[<<c[U], G(V)[V]>>]
        BY <3>2
      <4> QED
        BY <4>3, <4>4, <4>5
    <3> QED
      BY <3>1, <3>2
  <2>3. Folds(f, A, base, F, c)
    <3>1. ASSUME NEW T \in SUBSET A, T # {}
          PROVE  f[T] = F[<<c[T], f[T \ {c[T]}]>>]
      <4>1. c[T] \in T
        BY <3>1 DEF Chooses
      <4>2. T \ {c[T]} \in SUBSET A /\ T \ {c[T]} # A
        BY <4>1
      <4>3. f[T \ {c[T]}] = G(T \ {c[T]})[T \ {c[T]}]
        BY <2>2, <4>2
      <4>4. f[T] = F[<<c[T], G(T \ {c[T]})[T \ {c[T]}]>>]
        BY <3>1
      <4> QED
        BY <4>3, <4>4
    <3>2. f[{}] = base
      OBVIOUS
    <3>3. f = [T \in SUBSET A |-> f[T]]
      OBVIOUS
    <3> HIDE DEF f
    <3>4. f = [T \in SUBSET A |-> IF T = {} THEN base ELSE F[<<c[T], f[T \ {c[T]}]>>]]
      BY <3>1, <3>2, <3>3
    <3> QED
      BY <3>4 DEF Folds
  <2> HIDE DEF f
  <2> QED
    BY <2>3
<1>3. \A T \in SUBSET S : T \in Z
  <2> HIDE DEF Z
  <2> QED
    BY <1>1, <1>2, FiniteSubsets
<1> QED
  BY <1>3

(* A set the fold starts in, and never leaves, holds its result.           *)
LEMMA FoldsInto ==
  ASSUME NEW S, IsFiniteSet(S), NEW base, NEW F, NEW c, Chooses(c, S), NEW U, base \in U,
         \A x \in S, y \in U : F[<<x, y>>] \in U
  PROVE  \E f \in [SUBSET S -> U] : Folds(f, S, base, F, c)
<1>1. PICK f : Folds(f, S, base, F, c)
  BY FoldsExist
<1> DEFINE Z == {T \in SUBSET S : f[T] \in U}
<1>2. {} \in Z
  BY <1>1 DEF Folds
<1>3. ASSUME NEW T \in (SUBSET S) \ {{}}, \A V \in SUBSET T : V # T => V \in Z
      PROVE  T \in Z
  <2>1. c[T] \in T /\ T \ {c[T]} \in SUBSET T /\ T \ {c[T]} # T
    BY DEF Chooses
  <2>2. f[T \ {c[T]}] \in U
    BY <1>3, <2>1
  <2> QED
    BY <1>1, <2>1, <2>2 DEF Folds
<1>4. \A T \in SUBSET S : T \in Z
  <2> HIDE DEF Z
  <2> QED
    BY <1>2, <1>3, FiniteSubsets
<1>5. f = [T \in SUBSET S |-> f[T]]
  BY <1>1 DEF Folds
<1> QED
  BY <1>1, <1>4, <1>5

LEMMA MaxIn ==
  ASSUME NEW n \in Nat, NEW T \in SUBSET (1 .. n), T # {}
  PROVE  Max(T) \in T
<1> DEFINE Z == {V \in SUBSET (1 .. n) : V = {} \/ \E x \in V : \A y \in V : x >= y}
<1>1. IsFiniteSet(1 .. n)
  BY FS_Interval
<1>2. {} \in Z
  OBVIOUS
<1>3. ASSUME NEW V \in (SUBSET (1 .. n)) \ {{}}, \A W \in SUBSET V : W # V => W \in Z
      PROVE  V \in Z
  <2>1. PICK v \in V : TRUE
    BY <1>3
  <2>2. V \ {v} \in Z
    BY <1>3, <2>1
  <2>3. CASE V \ {v} = {}
    <3>1. \A y \in V : v >= y
      BY <2>1, <2>3
    <3> QED
      BY <2>1, <3>1
  <2>4. CASE V \ {v} # {}
    <3>1. PICK x \in V \ {v} : \A y \in V \ {v} : x >= y
      BY <2>2, <2>4
    <3>2. CASE x >= v
      <4>1. \A y \in V : x >= y
        BY <3>1, <3>2
      <4> QED
        BY <3>1, <4>1
    <3>3. CASE ~(x >= v)
      <4>1. \A y \in V : v >= y
        BY <2>1, <3>1, <3>3
      <4> QED
        BY <2>1, <4>1
    <3> QED
      BY <3>2, <3>3
  <2> QED
    BY <2>3, <2>4
<1>4. \A V \in SUBSET (1 .. n) : V \in Z
  <2> HIDE DEF Z
  <2> QED
    BY <1>1, <1>2, <1>3, FiniteSubsets
<1> QED
  BY <1>4 DEF Max

(* Induction up to a bound, again with a set in the place of a predicate.  *)
LEMMA Upto ==
  ASSUME NEW n \in Nat, NEW Z, 0 \in Z, \A i \in 1 .. n : i - 1 \in Z => i \in Z
  PROVE  \A i \in 0 .. n : i \in Z
<1> DEFINE Y == {T \in SUBSET (1 .. n) : \A i \in 0 .. n : T = 1 .. i => i \in Z}
<1>1. {} \in Y
  OBVIOUS
<1>2. ASSUME NEW T \in (SUBSET (1 .. n)) \ {{}}, \A U \in SUBSET T : U # T => U \in Y
      PROVE  T \in Y
  <2> SUFFICES ASSUME NEW i \in 0 .. n, T = 1 .. i PROVE i \in Z
    OBVIOUS
  <2>1. i \in 1 .. n /\ i \in T /\ i \notin 1 .. (i - 1) /\ 1 .. (i - 1) \in SUBSET T
    OBVIOUS
  <2>2. 1 .. (i - 1) \in Y
    BY <1>2, <2>1
  <2>3. i - 1 \in 0 .. n
    BY <2>1
  <2> QED
    BY <2>1, <2>2, <2>3
<1>3. \A T \in SUBSET (1 .. n) : T \in Y
  <2>1. IsFiniteSet(1 .. n)
    BY FS_Interval
  <2> HIDE DEF Y
  <2> QED
    BY <1>1, <1>2, <2>1, FiniteSubsets
<1>4. \A i \in 0 .. n : 1 .. i \in SUBSET (1 .. n)
  OBVIOUS
<1> QED
  BY <1>3, <1>4

(* A fold over a sequence of n takes the last index of what is left first: *)
(* f is its recursion over sets of indices, r its result.  Inside U it is  *)
(* made of F.                                                              *)
FoldsLeft(r, f, n, U, base, F) ==
    /\ r = f[1 .. n] /\ f[{}] = base
    /\ \A T \in (SUBSET (1 .. n)) \ {{}} :
          f[T \ {Max(T)}] \in U => f[T] = F[<<Max(T), f[T \ {Max(T)}]>>]

(* Seen from the front it goes one element at a time. *)
Runs(r, g, n, U, base, F) ==
    /\ g \in [0 .. n -> U] /\ r = g[n] /\ g[0] = base
    /\ \A i \in 1 .. n : g[i] = F[<<i, g[i - 1]>>]

LEMMA FoldRuns ==
  ASSUME NEW n \in Nat, NEW U, NEW base \in U,
         NEW F \in [(1 .. n) \X U -> U],
         NEW r, NEW f, FoldsLeft(r, f, n, U, base, F)
  PROVE  \E g : Runs(r, g, n, U, base, F)
<1> DEFINE Z == {i \in 0 .. n : f[1 .. i] \in U}
           g == [i \in 0 .. n |-> f[1 .. i]]
<1>0. f[1 .. 0] = base
  <2>1. 1 .. 0 = {}
    OBVIOUS
  <2> QED
    BY <2>1 DEF FoldsLeft
<1>1. ASSUME NEW i \in 1 .. n
      PROVE  f[1 .. (i - 1)] \in U => f[1 .. i] = F[<<i, f[1 .. (i - 1)]>>]
  <2> DEFINE T == 1 .. i
  <2>1. T \in (SUBSET (1 .. n)) \ {{}} /\ T \ {i} = 1 .. (i - 1)
    OBVIOUS
  <2>2. Max(T) = i
    <3>1. i \in T /\ \A y \in T : i >= y
      OBVIOUS
    <3>2. \A x \in T : (\A y \in T : x >= y) => x = i
      OBVIOUS
    <3> HIDE DEF T
    <3> QED
      BY <3>1, <3>2 DEF Max
  <2> HIDE DEF T
  <2>3. f[T \ {i}] \in U => f[T] = F[<<i, f[T \ {i}]>>]
    BY <2>1, <2>2 DEF FoldsLeft
  <2> QED
    BY <2>1, <2>3 DEF T
<1>2. \A i \in 0 .. n : i \in Z
  <2>1. 0 \in Z
    BY <1>0
  <2>2. ASSUME NEW i \in 1 .. n, i - 1 \in Z PROVE i \in Z
    <3>1. f[1 .. (i - 1)] \in U /\ i \in 0 .. n
      BY <2>2
    <3>2. f[1 .. i] = F[<<i, f[1 .. (i - 1)]>>]
      BY <1>1, <3>1
    <3> HIDE DEF Z
    <3>3. f[1 .. i] \in U
      BY <3>1, <3>2
    <3> QED
      BY <3>1, <3>3 DEF Z
  <2> HIDE DEF Z
  <2> QED
    BY <2>1, <2>2, Upto
<1>3. g \in [0 .. n -> U]
  BY <1>2
<1>4. r = g[n]
  BY DEF FoldsLeft
<1>5. g[0] = base /\ \A i \in 1 .. n : g[i] = F[<<i, g[i - 1]>>]
  BY <1>0, <1>1, <1>2
<1>6. Runs(r, g, n, U, base, F)
  BY <1>3, <1>4, <1>5 DEF Runs
<1> QED
  BY <1>6

Solves(f, n, U, base, F) ==
    /\ f \in [SUBSET (1 .. n) -> U] /\ f[{}] = base
    /\ \A T \in (SUBSET (1 .. n)) \ {{}} :
          /\ Max(T) \in T /\ f[T \ {Max(T)}] \in U
          /\ f[T] = F[<<Max(T), f[T \ {Max(T)}]>>]

LEMMA FoldSolves ==
  ASSUME NEW n \in Nat, NEW U, NEW base \in U, NEW F \in [(1 .. n) \X U -> U]
  PROVE  \E f : Solves(f, n, U, base, F)
<1> DEFINE S == 1 .. n
           c == [T \in SUBSET S |-> Max(T)]
<1>1. IsFiniteSet(S)
  BY FS_Interval
<1>2. \A T \in (SUBSET S) \ {{}} : Max(T) \in T
  BY MaxIn
<1>3. Chooses(c, S)
  BY <1>2 DEF Chooses
<1>4. PICK f \in [SUBSET S -> U] : Folds(f, S, base, F, c)
  <2> HIDE DEF S, c
  <2> QED
    BY <1>1, <1>3, FoldsInto DEF S
<1>5. f[{}] = base
  BY <1>4 DEF Folds
<1>6. ASSUME NEW T \in (SUBSET S) \ {{}}
      PROVE  f[T \ {Max(T)}] \in U /\ f[T] = F[<<Max(T), f[T \ {Max(T)}]>>]
  <2>1. c[T] = Max(T) /\ T \ {Max(T)} \in SUBSET S
    OBVIOUS
  <2> HIDE DEF c
  <2> QED
    BY <1>4, <2>1 DEF Folds
<1>7. f \in [SUBSET (1 .. n) -> U]
  BY <1>4
<1>8. Solves(f, n, U, base, F)
  BY <1>2, <1>5, <1>6, <1>7 DEF Solves
<1> QED
  BY <1>8

-----------------------------------------------------------------------------
(* What stop() and start() mean for what is scheduled.  What the batches   *)
(* hold does not matter here; of the queue it is enough that it is a       *)
(* sequence, of whatever it holds.                                         *)
Held(q) == {q[i] : i \in DOMAIN q}

(* The generation only grows, and one of a running store is its last: what *)
(* is scheduled is of the past, or of now while the store runs.            *)
Scheduled ==
    /\ generation \in Nat
    /\ queue \in Seq(Held(queue))
    /\ \A i \in DOMAIN queue :
          /\ queue[i].generation \in Nat /\ queue[i].generation <= generation
          /\ queue[i].generation = generation => running

(* Callbacks under way are of now: start() and stop() wait for the loop.   *)
UnderWay ==
    /\ current = [calls |-> current.calls, changes |-> current.changes,
                  depth |-> current.depth, generation |-> current.generation]
    /\ current.calls # <<>> => current.generation = generation /\ running

DeliveryInv == Scheduled /\ UnderWay

-----------------------------------------------------------------------------
LEMMA HeldBySeq ==
  ASSUME NEW S, NEW q \in Seq(S)
  PROVE  q \in Seq(Held(q))
<1>1. q \in [1..Len(q) -> S] /\ Len(q) \in Nat /\ DOMAIN q = 1..Len(q)
  OBVIOUS
<1>2. q \in [1..Len(q) -> Held(q)]
  BY <1>1 DEF Held
<1> QED
  BY <1>1, <1>2

(* A write schedules nothing, or one batch of now.                         *)
LEMMA EnqueueScheduled ==
  ASSUME DeliveryInv, NEW changes, NEW depth, Enqueue(changes, depth), UNCHANGED <<running, generation>>
  PROVE  Scheduled'
<1>1. CASE queue' = queue
  BY <1>1 DEF DeliveryInv, Scheduled, Held
<1>2. CASE queue' # queue
  <2> DEFINE batch == [changes |-> changes, generation |-> generation, depth |-> depth, seq |-> subSeq]
             S     == Held(queue) \cup {batch}
  <2>1. running /\ queue' = Append(queue, batch)
    BY <1>2 DEF Enqueue
  <2>2. batch.generation = generation
    OBVIOUS
  <2> HIDE DEF batch
  <2>3. queue \in Seq(Held(queue)) /\ generation \in Nat
    BY DEF DeliveryInv, Scheduled
  <2>4. queue \in Seq(S) /\ batch \in S
    BY <2>3
  <2> HIDE DEF S
  <2>5. /\ queue' \in Seq(S) /\ Len(queue') = Len(queue) + 1 /\ Len(queue) \in Nat
        /\ \A i \in 1..Len(queue) : queue'[i] = queue[i]
        /\ queue'[Len(queue) + 1] = batch
    BY <2>1, <2>4, AppendProperties
  <2>6. queue' \in Seq(Held(queue'))
    BY <2>5, HeldBySeq
  <2>7. DOMAIN queue' = 1..(Len(queue) + 1) /\ DOMAIN queue = 1..Len(queue)
    BY <2>4, <2>5
  <2>8. ASSUME NEW i \in DOMAIN queue'
        PROVE  queue'[i] = batch \/ (i \in DOMAIN queue /\ queue'[i] = queue[i])
    BY <2>5, <2>7
  <2> QED
    BY <2>1, <2>2, <2>3, <2>6, <2>8 DEF DeliveryInv, Scheduled, Held
<1> QED
  BY <1>1, <1>2

LEMMA SetScheduled ==
  ASSUME DeliveryInv, NEW p, NEW new, NEW depth, Set(p, new, depth), UNCHANGED <<running, generation>>
  PROVE  Scheduled'
<1>1. CASE UNCHANGED queue
  BY <1>1 DEF DeliveryInv, Scheduled, Held
<1>2. CASE \E changes : Enqueue(changes, depth)
  BY <1>2, EnqueueScheduled
<1> QED
  BY <1>1, <1>2 DEF Set

LEMMA WriteInv ==
  ASSUME DeliveryInv, Write
  PROVE  DeliveryInv'
<1>1. UNCHANGED <<running, generation, current>>
  BY DEF Write
<1>2. Scheduled'
  <2>1. CASE \E p \in Path : \E new \in Payload(p) : Set(p, new, 1)
    BY <1>1, <2>1, SetScheduled
  <2>2. CASE \E p \in Path : Delete(p, 1)
    BY <1>1, <2>2, EnqueueScheduled DEF Delete
  <2>3. CASE Clear(1)
    BY <1>1, <2>3, EnqueueScheduled DEF Clear
  <2> QED
    BY <2>1, <2>2, <2>3 DEF Write
<1> QED
  BY <1>1, <1>2 DEF DeliveryInv, UnderWay

LEMMA SwitchInv ==
  ASSUME DeliveryInv, Start \/ Stop
  PROVE  DeliveryInv'
<1>1. /\ generation' = generation + 1 /\ UNCHANGED <<queue, current>> /\ current.calls = <<>>
  BY DEF Start, Stop
<1>2. generation \in Nat
  BY DEF DeliveryInv, Scheduled
<1>3. Scheduled'
  BY <1>1, <1>2 DEF DeliveryInv, Scheduled, Held
<1> QED
  BY <1>1, <1>3 DEF DeliveryInv, UnderWay

LEMMA DispatchInv ==
  ASSUME DeliveryInv, Dispatch
  PROVE  DeliveryInv'
<1>1. /\ queue # <<>> /\ current.calls = <<>> /\ queue' = Tail(queue)
      /\ UNCHANGED <<running, generation>>
      /\ \/ UNCHANGED current
         \/ /\ Head(queue).generation = generation
            /\ current' = [calls |-> Callbacks(Head(queue)), changes |-> Head(queue).changes,
                           depth |-> Head(queue).depth, generation |-> Head(queue).generation]
  BY DEF Dispatch
<1>2. queue \in Seq(Held(queue)) /\ queue # <<>>
  BY <1>1 DEF DeliveryInv, Scheduled
<1>3. /\ queue' \in Seq(Held(queue)) /\ Head(queue) = queue[1]
      /\ Len(queue') = Len(queue) - 1 /\ Len(queue) \in Nat \ {0}
      /\ \A i \in 1..Len(queue') : queue'[i] = queue[i + 1]
  BY <1>1, <1>2, HeadTailProperties
<1>4. DOMAIN queue = 1..Len(queue) /\ DOMAIN queue' = 1..Len(queue')
  BY <1>2, <1>3
<1>5. queue' \in Seq(Held(queue'))
  BY <1>3, HeldBySeq
<1>6. ASSUME NEW i \in DOMAIN queue' PROVE i + 1 \in DOMAIN queue /\ queue'[i] = queue[i + 1]
  BY <1>3, <1>4
<1>7. Scheduled'
  BY <1>1, <1>5, <1>6 DEF DeliveryInv, Scheduled
<1>8. UnderWay'
  <2>1. 1 \in DOMAIN queue
    BY <1>3, <1>4
  <2>2. Head(queue).generation = generation => running
    BY <1>3, <2>1 DEF DeliveryInv, Scheduled
  <2> QED
    BY <1>1, <2>2 DEF DeliveryInv, UnderWay
<1> QED
  BY <1>7, <1>8 DEF DeliveryInv

LEMMA DeliverInv ==
  ASSUME DeliveryInv, Deliver
  PROVE  DeliveryInv'
<1>1. /\ UNCHANGED <<running, generation>> /\ current.calls # <<>>
      /\ current' = [current EXCEPT !.calls = Tail(@)]
      /\ \/ UNCHANGED queue
         \/ \E p, v : Set(p, [Nothing EXCEPT ![p] = v], EchoDepth)
  BY DEF Deliver
<1>2. Scheduled'
  <2>1. CASE UNCHANGED queue
    BY <1>1, <2>1 DEF DeliveryInv, Scheduled, Held
  <2>2. CASE \E p, v : Set(p, [Nothing EXCEPT ![p] = v], EchoDepth)
    BY <1>1, <2>2, SetScheduled
  <2> QED
    BY <1>1, <2>1, <2>2
<1>3. UnderWay'
  <2>1. current = [calls |-> current.calls, changes |-> current.changes,
                   depth |-> current.depth, generation |-> current.generation]
    BY DEF DeliveryInv, UnderWay
  <2>2. current' = [calls |-> Tail(current.calls), changes |-> current.changes,
                    depth |-> current.depth, generation |-> current.generation]
    BY <1>1, <2>1
  <2>3. current'.generation = current.generation
    BY <2>2
  <2> QED
    BY <1>1, <2>2, <2>3 DEF DeliveryInv, UnderWay
<1> QED
  BY <1>2, <1>3 DEF DeliveryInv

LEMMA InitDelivery == Init => DeliveryInv
<1> SUFFICES ASSUME Init PROVE DeliveryInv
  OBVIOUS
<1>1. queue = <<>> /\ generation = 0
  BY DEF Init
<1>2. DOMAIN queue = {} /\ queue \in Seq(Held(queue))
  BY <1>1
<1>3. Scheduled
  BY <1>1, <1>2 DEF Scheduled
<1>4. UnderWay
  BY DEF Init, UnderWay
<1> QED
  BY <1>3, <1>4 DEF DeliveryInv

LEMMA StepDelivery ==
  ASSUME DeliveryInv, [Next]_vars
  PROVE  DeliveryInv'
<1>1. CASE UNCHANGED <<running, generation, queue, current>>
  BY <1>1 DEF DeliveryInv, Scheduled, UnderWay, Held
<1>2. CASE Write
  BY <1>2, WriteInv
<1>3. CASE Start \/ Stop
  BY <1>3, SwitchInv
<1>4. CASE Dispatch
  BY <1>4, DispatchInv
<1>5. CASE Deliver
  BY <1>5, DeliverInv
<1> QED
  BY <1>1, <1>2, <1>3, <1>4, <1>5 DEF Next, vars, Subscribe, Unsubscribe

(* What stands on the loop and what runs on it belong to a life of the     *)
(* store that is over, or to the present one, in which it is running.      *)
THEOREM DeliveriesKept == Spec => []DeliveryInv
<1>1. DeliveryInv /\ [Next]_vars => DeliveryInv'
  BY StepDelivery
<1> QED
  BY InitDelivery, <1>1, PTL DEF Spec

(* After a stop nothing that was committed before it is delivered, however *)
(* many starts and stops come before the loop gets to the batch.           *)
THEOREM StopIsFinal == Spec => NothingFromBeforeStop
<1>1. DeliveryInv' => (current'.calls # <<>> => current'.generation = generation' /\ running')
  BY DEF DeliveryInv, UnderWay
<1>2. DeliveryInv /\ [Next]_vars => DeliveryInv'
  BY StepDelivery
<1> QED
  BY DeliveriesKept, <1>1, <1>2, PTL DEF NothingFromBeforeStop, Spec

-----------------------------------------------------------------------------
(* What a subscriber makes of its events.                                  *)
Tree == [Path -> Value \cup {Missing}]

LEMMA SeenType ==
  ASSUME NEW m \in Tree, NEW c \in Change
  PROVE  Seen(m, c) \in Tree
  BY DEF Seen, Tree, Change

(* Replaying events goes one event at a time. *)
LEMMA ReplayRuns ==
  ASSUME NEW m \in Tree, NEW cs \in Seq(Change)
  PROVE  \E g \in [0 .. Len(cs) -> Tree] :
            /\ g[0] = m /\ \A i \in 1 .. Len(cs) : g[i] = Seen(g[i - 1], cs[i])
            /\ Replay(m, cs) = g[Len(cs)]
<1> DEFINE n == Len(cs)
           F == [p \in (1 .. n) \X Tree |-> Seen(p[2], cs[p[1]])]
           Is(f) == f = [T \in SUBSET (DOMAIN cs) |->
                           IF T = {} THEN m ELSE Seen(f[T \ {Max(T)}], cs[Max(T)])]
<1>0. n \in Nat /\ DOMAIN cs = 1 .. n
  OBVIOUS
<1>1. m \in Tree
  OBVIOUS
<1>2. \A i \in 1 .. n, y \in Tree : F[<<i, y>>] = Seen(y, cs[i])
  OBVIOUS
<1>a. F \in [(1 .. n) \X Tree -> Tree]
  BY SeenType
<1>3. PICK h : Solves(h, n, Tree, m, F)
  <2> HIDE DEF F, n
  <2> QED
    BY <1>0, <1>1, <1>a, FoldSolves
<1> HIDE DEF F
<1>4. Is(h)
  <2>1. ASSUME NEW T \in SUBSET (1 .. n), T # {}
        PROVE  h[T] = Seen(h[T \ {Max(T)}], cs[Max(T)])
    <3>1. Max(T) \in 1 .. n /\ h[T \ {Max(T)}] \in Tree /\ h[T] = F[<<Max(T), h[T \ {Max(T)}]>>]
      BY <1>3, <2>1 DEF Solves
    <3> QED
      BY <1>2, <3>1
  <2>2. h = [T \in SUBSET (1 .. n) |-> h[T]]
    BY <1>3 DEF Solves
  <2> QED
    BY <1>0, <1>3, <2>1, <2>2 DEF Solves
<1>5. ASSUME NEW f, Is(f) PROVE FoldsLeft(f[1 .. n], f, n, Tree, m, F)
  <2>1. ASSUME NEW T \in (SUBSET (1 .. n)) \ {{}}, f[T \ {Max(T)}] \in Tree
        PROVE  f[T] = F[<<Max(T), f[T \ {Max(T)}]>>]
    <3>1. Max(T) \in 1 .. n
      BY <1>3, <2>1 DEF Solves
    <3>2. f[T] = Seen(f[T \ {Max(T)}], cs[Max(T)])
      BY <1>0, <1>5, <2>1
    <3> QED
      BY <1>2, <2>1, <3>1, <3>2
  <2>2. f[{}] = m
    BY <1>0, <1>5
  <2> QED
    BY <2>1, <2>2 DEF FoldsLeft
<1>6. Replay(m, cs) = (CHOOSE f : Is(f))[DOMAIN cs]
  BY DEF Replay, FoldLeft, MapThenFoldSet
<1> DEFINE v == CHOOSE f : Is(f)
           r == v[1 .. n]
<1> HIDE DEF Is, n
<1>7. Is(v)
  BY <1>4
<1> HIDE DEF v
<1>8. FoldsLeft(r, v, n, Tree, m, F)
  BY <1>5, <1>7
<1> HIDE DEF r
<1>9. PICK g : Runs(r, g, n, Tree, m, F)
  BY <1>0, <1>1, <1>8, <1>a, FoldRuns
<1>10. \A i \in 1 .. n : g[i] = Seen(g[i - 1], cs[i])
  <2>1. \A i \in 1 .. n : g[i - 1] \in Tree
    BY <1>0, <1>9 DEF Runs
  <2> QED
    BY <1>2, <1>9, <2>1 DEF Runs
<1> QED
  BY <1>0, <1>6, <1>9, <1>10 DEF Runs, n, v, r

(* So does the choice of the events that match. *)
LEMMA MatchingRuns ==
  ASSUME NEW s \in Sub, NEW cs \in Seq(Change)
  PROVE  \E g \in [0 .. Len(cs) -> Seq(Change)] :
            /\ g[0] = <<>> /\ \A i \in 1 .. Len(cs) : g[i] = (IF Matches(PatternOf[s], cs[i].path) THEN Append(g[i - 1], cs[i]) ELSE g[i - 1])
            /\ Matching(s, cs) = g[Len(cs)]
<1> DEFINE n == Len(cs)
           F == [p \in (1 .. n) \X Seq(Change) |-> (IF Matches(PatternOf[s], cs[p[1]].path) THEN Append(p[2], cs[p[1]]) ELSE p[2])]
           Is(f) == f = [T \in SUBSET (DOMAIN cs) |->
                           IF T = {} THEN <<>> ELSE (IF Matches(PatternOf[s], cs[Max(T)].path) THEN Append(f[T \ {Max(T)}], cs[Max(T)]) ELSE f[T \ {Max(T)}])]
<1>0. n \in Nat /\ DOMAIN cs = 1 .. n
  OBVIOUS
<1>1. <<>> \in Seq(Change)
  OBVIOUS
<1>2. \A i \in 1 .. n, y \in Seq(Change) : F[<<i, y>>] = (IF Matches(PatternOf[s], cs[i].path) THEN Append(y, cs[i]) ELSE y)
  OBVIOUS
<1>a. F \in [(1 .. n) \X Seq(Change) -> Seq(Change)]
  OBVIOUS
<1>3. PICK h : Solves(h, n, Seq(Change), <<>>, F)
  <2> HIDE DEF F, n
  <2> QED
    BY <1>0, <1>1, <1>a, FoldSolves
<1> HIDE DEF F
<1>4. Is(h)
  <2>1. ASSUME NEW T \in SUBSET (1 .. n), T # {}
        PROVE  h[T] = (IF Matches(PatternOf[s], cs[Max(T)].path) THEN Append(h[T \ {Max(T)}], cs[Max(T)]) ELSE h[T \ {Max(T)}])
    <3>1. Max(T) \in 1 .. n /\ h[T \ {Max(T)}] \in Seq(Change) /\ h[T] = F[<<Max(T), h[T \ {Max(T)}]>>]
      BY <1>3, <2>1 DEF Solves
    <3> QED
      BY <1>2, <3>1
  <2>2. h = [T \in SUBSET (1 .. n) |-> h[T]]
    BY <1>3 DEF Solves
  <2> QED
    BY <1>0, <1>3, <2>1, <2>2 DEF Solves
<1>5. ASSUME NEW f, Is(f) PROVE FoldsLeft(f[1 .. n], f, n, Seq(Change), <<>>, F)
  <2>1. ASSUME NEW T \in (SUBSET (1 .. n)) \ {{}}, f[T \ {Max(T)}] \in Seq(Change)
        PROVE  f[T] = F[<<Max(T), f[T \ {Max(T)}]>>]
    <3>1. Max(T) \in 1 .. n
      BY <1>3, <2>1 DEF Solves
    <3>2. f[T] = (IF Matches(PatternOf[s], cs[Max(T)].path) THEN Append(f[T \ {Max(T)}], cs[Max(T)]) ELSE f[T \ {Max(T)}])
      BY <1>0, <1>5, <2>1
    <3> QED
      BY <1>2, <2>1, <3>1, <3>2
  <2>2. f[{}] = <<>>
    BY <1>0, <1>5
  <2> QED
    BY <2>1, <2>2 DEF FoldsLeft
<1>6. Matching(s, cs) = (CHOOSE f : Is(f))[DOMAIN cs]
  BY DEF Matching, FoldLeft, MapThenFoldSet
<1> DEFINE v == CHOOSE f : Is(f)
           r == v[1 .. n]
<1> HIDE DEF Is, n
<1>7. Is(v)
  BY <1>4
<1> HIDE DEF v
<1>8. FoldsLeft(r, v, n, Seq(Change), <<>>, F)
  BY <1>5, <1>7
<1> HIDE DEF r
<1>9. PICK g : Runs(r, g, n, Seq(Change), <<>>, F)
  BY <1>0, <1>1, <1>8, <1>a, FoldRuns
<1>10. \A i \in 1 .. n : g[i] = (IF Matches(PatternOf[s], cs[i].path) THEN Append(g[i - 1], cs[i]) ELSE g[i - 1])
  <2>1. \A i \in 1 .. n : g[i - 1] \in Seq(Change)
    BY <1>0, <1>9 DEF Runs
  <2> QED
    BY <1>2, <1>9, <2>1 DEF Runs
<1> QED
  BY <1>0, <1>6, <1>9, <1>10 DEF Runs, n, v, r

LEMMA ReplayPrefix ==
  ASSUME NEW m \in Tree, NEW cs \in Seq(Change), NEW ds \in Seq(Change),
         Len(ds) <= Len(cs), \A i \in 1 .. Len(ds) : ds[i] = cs[i],
         NEW g, g[0] = m, \A i \in 1 .. Len(cs) : g[i] = Seen(g[i - 1], cs[i])
  PROVE  Replay(m, ds) = g[Len(ds)]
<1> DEFINE n == Len(ds)
<1>1. PICK h \in [0 .. n -> Tree] :
         /\ h[0] = m /\ \A i \in 1 .. n : h[i] = Seen(h[i - 1], ds[i])
         /\ Replay(m, ds) = h[n]
  BY ReplayRuns
<1> DEFINE Z == {i \in 0 .. n : h[i] = g[i]}
<1>2. n \in Nat /\ Len(cs) \in Nat /\ n <= Len(cs)
  OBVIOUS
<1>3. \A i \in 0 .. n : i \in Z
  <2>1. 0 \in Z
    BY <1>1, <1>2
  <2>2. ASSUME NEW i \in 1 .. n, i - 1 \in Z PROVE i \in Z
    <3>1. i \in 0 .. n /\ i \in 1 .. Len(cs) /\ h[i - 1] = g[i - 1]
      BY <1>2, <2>2
    <3>2. h[i] = Seen(h[i - 1], ds[i]) /\ g[i] = Seen(g[i - 1], cs[i]) /\ ds[i] = cs[i]
      BY <1>1, <3>1
    <3> QED
      BY <3>1, <3>2
  <2> HIDE DEF Z, n
  <2> QED
    BY <1>2, <2>1, <2>2, Upto
<1> QED
  BY <1>1, <1>2, <1>3

LEMMA ReplayEffect ==
  ASSUME NEW m \in Tree, NEW cs \in Seq(Change)
  PROVE  /\ Replay(m, cs) \in Tree /\ Replay(m, <<>>) = m
         /\ \A c \in Change : Replay(m, Append(cs, c)) = Seen(Replay(m, cs), c)
<1>1. Replay(m, cs) \in Tree
  <2>1. PICK g \in [0 .. Len(cs) -> Tree] : Replay(m, cs) = g[Len(cs)]
    BY ReplayRuns
  <2>2. Len(cs) \in 0 .. Len(cs)
    OBVIOUS
  <2> QED
    BY <2>1, <2>2
<1>2. Replay(m, <<>>) = m
  <2> DEFINE ds == <<>>
  <2>1. ds \in Seq(Change) /\ Len(ds) = 0
    OBVIOUS
  <2> HIDE DEF ds
  <2>2. PICK g \in [0 .. Len(ds) -> Tree] : g[0] = m /\ Replay(m, ds) = g[Len(ds)]
    BY <2>1, ReplayRuns
  <2> QED
    BY <2>1, <2>2 DEF ds
<1>3. ASSUME NEW c \in Change PROVE Replay(m, Append(cs, c)) = Seen(Replay(m, cs), c)
  <2> DEFINE ds == Append(cs, c)
  <2>1. /\ ds \in Seq(Change) /\ Len(ds) = Len(cs) + 1 /\ Len(cs) \in Nat
        /\ \A i \in 1 .. Len(cs) : cs[i] = ds[i]
        /\ ds[Len(cs) + 1] = c
    OBVIOUS
  <2> HIDE DEF ds
  <2>2. PICK g \in [0 .. Len(ds) -> Tree] :
           /\ g[0] = m /\ \A i \in 1 .. Len(ds) : g[i] = Seen(g[i - 1], ds[i])
           /\ Replay(m, ds) = g[Len(ds)]
    BY <2>1, ReplayRuns
  <2>3. Replay(m, cs) = g[Len(cs)]
    BY <2>1, <2>2, ReplayPrefix
  <2>4. g[Len(cs) + 1] = Seen(g[Len(cs)], c)
    BY <2>1, <2>2
  <2> QED
    BY <2>1, <2>2, <2>3, <2>4 DEF ds
<1> QED
  BY <1>1, <1>2, <1>3

(* The events cs lead from m to n, each of them with the value that was    *)
(* there before it.                                                        *)
Leads(m, cs, n) ==
    /\ Replay(m, cs) = n
    /\ \A i \in DOMAIN cs : Replay(m, SubSeq(cs, 1, i - 1))[cs[i].path] = cs[i].old

LEMMA LeadsNowhere ==
  ASSUME NEW m \in Tree
  PROVE  Leads(m, <<>>, m)
<1>1. <<>> \in Seq(Change) /\ DOMAIN <<>> = {}
  OBVIOUS
<1> QED
  BY <1>1, ReplayEffect DEF Leads

LEMMA LeadsOn ==
  ASSUME NEW m \in Tree, NEW cs \in Seq(Change), NEW n, Leads(m, cs, n),
         NEW c \in Change, n[c.path] = c.old
  PROVE  Leads(m, Append(cs, c), Seen(n, c))
<1> DEFINE ds == Append(cs, c)
           k == Len(cs)
<1>1. /\ ds \in Seq(Change) /\ k \in Nat /\ DOMAIN ds = 1 .. (k + 1) /\ DOMAIN cs = 1 .. k
      /\ \A i \in 1 .. k : ds[i] = cs[i]
      /\ ds[k + 1] = c
  OBVIOUS
<1>2. Replay(m, ds) = Seen(n, c)
  BY ReplayEffect DEF Leads
<1>3. \A i \in 1 .. k : SubSeq(ds, 1, i - 1) = SubSeq(cs, 1, i - 1)
  OBVIOUS
<1>4. SubSeq(ds, 1, k) = cs
  OBVIOUS
<1> HIDE DEF ds, k
<1>5. ASSUME NEW i \in DOMAIN ds
      PROVE  Replay(m, SubSeq(ds, 1, i - 1))[ds[i].path] = ds[i].old
  <2>1. CASE i \in 1 .. k
    BY <1>1, <1>3, <2>1 DEF Leads
  <2>2. CASE i = k + 1
    <3>1. i - 1 = k
      BY <1>1, <2>2
    <3> QED
      BY <1>1, <1>4, <2>2, <3>1 DEF Leads
  <2> QED
    BY <1>1, <2>1, <2>2
<1>6. Leads(m, ds, Seen(n, c))
  BY <1>2, <1>5 DEF Leads
<1> QED
  BY <1>6 DEF ds

-----------------------------------------------------------------------------
(* Paths. *)
LEMMA PrefixAt ==
  ASSUME NEW p \in Path, NEW q \in Path
  PROVE  IsPrefix(p, q) <=> Len(p) <= Len(q) /\ \A i \in 1 .. Len(p) : p[i] = q[i]
<1>1. p \in Seq(STRING) /\ q \in Seq(STRING) /\ Len(p) \in Nat /\ Len(q) \in Nat
  BY StoreAssumption
<1>2. SubSeq(p, 1, Len(p)) = p
  BY <1>1
<1>3. ASSUME Len(p) <= Len(q)
      PROVE  /\ SubSeq(q, 1, Len(p)) \in Seq(STRING) /\ Len(SubSeq(q, 1, Len(p))) = Len(p)
             /\ \A i \in 1 .. Len(p) : SubSeq(q, 1, Len(p))[i] = q[i]
  BY <1>1, <1>3
<1>4. ASSUME Len(p) <= Len(q)
      PROVE  p = SubSeq(q, 1, Len(p)) <=> \A i \in 1 .. Len(p) : p[i] = q[i]
  <2> DEFINE r == SubSeq(q, 1, Len(p))
  <2>1. r \in Seq(STRING) /\ Len(r) = Len(p) /\ \A i \in 1 .. Len(p) : r[i] = q[i]
    BY <1>3, <1>4
  <2> HIDE DEF r
  <2>2. (\A i \in 1 .. Len(p) : p[i] = r[i]) => p = r
    BY <1>1, <2>1, SeqEqual
  <2>3. p = r => \A i \in 1 .. Len(p) : p[i] = q[i]
    BY <2>1
  <2> QED
    BY <2>1, <2>2, <2>3 DEF r
<1> QED
  BY <1>2, <1>4 DEF IsPrefix

LEMMA PrefixOrder ==
  ASSUME NEW p \in Path, NEW q \in Path, NEW r \in Path
  PROVE  /\ IsPrefix(p, p)
         /\ IsPrefix(p, q) /\ IsPrefix(q, r) => IsPrefix(p, r)
         /\ IsPrefix(p, r) /\ IsPrefix(q, r) => IsPrefix(p, q) \/ IsPrefix(q, p)
<1>1. Len(p) \in Nat /\ Len(q) \in Nat /\ Len(r) \in Nat
  BY StoreAssumption
<1>2. IsPrefix(p, p)
  BY <1>1, PrefixAt
<1>3. ASSUME IsPrefix(p, q), IsPrefix(q, r) PROVE IsPrefix(p, r)
  BY <1>1, <1>3, PrefixAt
<1>4. ASSUME IsPrefix(p, r), IsPrefix(q, r) PROVE IsPrefix(p, q) \/ IsPrefix(q, p)
  BY <1>1, <1>4, PrefixAt
<1> QED
  BY <1>2, <1>3, <1>4

LEMMA ReplacedShape ==
  ASSUME tree \in Tree, Shaped(tree), IsFiniteSet(Leaves(tree)),
         NEW p \in Path, NEW new \in Payload(p)
  PROVE  /\ Replaced(p, new) \in Tree /\ Shaped(Replaced(p, new))
         /\ IsFiniteSet(Leaves(Replaced(p, new)))
<1> DEFINE after == Replaced(p, new)
<1>1. /\ new \in Tree /\ Shaped(new) /\ IsFiniteSet(Leaves(new))
      /\ \A q \in Leaves(new) : IsPrefix(p, q)
  BY DEF Payload, Tree
<1>2. after \in Tree
  BY <1>1 DEF Replaced, Tree
<1>3. \A q \in Path : after[q] = IF IsPrefix(p, q) THEN new[q]
                                 ELSE IF IsPrefix(q, p) THEN Missing ELSE tree[q]
  BY DEF Replaced
<1> HIDE DEF after
<1>4. ASSUME NEW q \in Leaves(after)
      PROVE  /\ q \in Path
             /\ IsPrefix(p, q) => q \in Leaves(new)
             /\ ~IsPrefix(p, q) => ~IsPrefix(q, p) /\ q \in Leaves(tree)
  BY <1>3 DEF Leaves
<1>5. Shaped(after)
  <2> SUFFICES ASSUME NEW a \in Leaves(after), NEW b \in Leaves(after), IsPrefix(a, b) PROVE a = b
    BY DEF Shaped
  <2>1. CASE IsPrefix(p, a)
    <3>1. IsPrefix(p, b)
      BY <1>4, <2>1, PrefixOrder
    <3> QED
      BY <1>1, <1>4, <2>1, <3>1 DEF Shaped
  <2>2. CASE ~IsPrefix(p, a)
    <3>1. ~IsPrefix(a, p) /\ a \in Path /\ b \in Path
      BY <1>4, <2>2
    <3>2. ~IsPrefix(p, b)
      BY <2>2, <3>1, PrefixOrder
    <3> QED
      BY <1>4, <2>2, <3>2 DEF Shaped
  <2> QED
    BY <2>1, <2>2
<1>6. IsFiniteSet(Leaves(after))
  <2>1. Leaves(after) \subseteq Leaves(new) \cup Leaves(tree)
    BY <1>4
  <2>2. IsFiniteSet(Leaves(new) \cup Leaves(tree))
    BY <1>1, FS_Union
  <2> QED
    BY <2>1, <2>2, FS_Subset
<1> QED
  BY <1>2, <1>5, <1>6 DEF after

LEMMA SetToSeqEffect ==
  ASSUME NEW S, IsFiniteSet(S)
  PROVE  /\ SetToSeq(S) \in Seq(S) /\ Len(SetToSeq(S)) = Cardinality(S)
         /\ \A x \in S : \E i \in DOMAIN SetToSeq(S) : SetToSeq(S)[i] = x
         /\ \A i, j \in DOMAIN SetToSeq(S) : SetToSeq(S)[i] = SetToSeq(S)[j] => i = j
<1> DEFINE n == Cardinality(S)
           q == SetToSeq(S)
           R == {q[i] : i \in 1 .. n}
<1>1. n \in Nat /\ ExistsBijection(1 .. n, S)
  BY FS_CardinalityType
<1>2. PICK f : f \in Bijection(1 .. n, S)
  BY <1>1 DEF ExistsBijection
<1>3. f \in [1 .. n -> S] /\ IsInjective(f)
  BY <1>2 DEF Bijection, Injection
<1>4. q \in [1 .. n -> S] /\ IsInjective(q)
  BY <1>3 DEF SetToSeq
<1> HIDE DEF q, n
<1>5. q \in Seq(S) /\ Len(q) = n /\ DOMAIN q = 1 .. n
  BY <1>1, <1>4
<1>6. R \subseteq S
  BY <1>4
<1>7. q \in Bijection(1 .. n, R)
  BY <1>4 DEF Bijection, Injection, Surjection
<1>8. IsFiniteSet(R) /\ Cardinality(R) = n
  <2>1. ExistsBijection(1 .. n, R)
    BY <1>7 DEF ExistsBijection
  <2> HIDE DEF R
  <2>2. Cardinality(R) = n
    BY <1>1, <2>1, FS_CountingElements
  <2> QED
    BY <1>6, <2>2, FS_Subset
<1>9. R = S
  <2> HIDE DEF R
  <2> QED
    BY <1>6, <1>8, FS_Subset DEF n
<1> QED
  BY <1>4, <1>5, <1>9 DEF q, n, IsInjective

-----------------------------------------------------------------------------
(* The events of a write: every leaf that changes, once, with what it was  *)
(* and what it is, those that are gone before the others.                  *)
Diff(cs, from, to) ==
    /\ cs \in Seq(Change)
    /\ \A i \in DOMAIN cs : /\ cs[i].old = from[cs[i].path] /\ cs[i].new = to[cs[i].path]
                            /\ cs[i].old # cs[i].new
    /\ \A p \in Path : from[p] # to[p] => \E i \in DOMAIN cs : cs[i].path = p
    /\ \A i, j \in DOMAIN cs : cs[i].path = cs[j].path => i = j
    /\ \A i, j \in DOMAIN cs : i < j /\ cs[j].new = Missing => cs[i].new = Missing

LEMMA ChangesDiff ==
  ASSUME NEW from \in Tree, NEW to \in Tree, IsFiniteSet(Leaves(from)), IsFiniteSet(Leaves(to))
  PROVE  Diff(Changes(from, to), from, to)
<1> DEFINE change(p) == [path |-> p, old |-> from[p], new |-> to[p]]
           D == Leaves(from) \ Leaves(to)
           E == {q \in Leaves(to) : to[q] # from[q]}
           deleted  == {change(p) : p \in D}
           upserted == {change(p) : p \in E}
           a == SetToSeq(deleted)
           b == SetToSeq(upserted)
           cs == a \o b
<1>0. D \subseteq Path /\ E \subseteq Path
  BY DEF Leaves
<1>1. \A p \in Path : /\ change(p) \in Change /\ change(p).path = p
                      /\ change(p).old = from[p] /\ change(p).new = to[p]
  BY DEF Tree, Change
<1>2. \A p \in Path : from[p] # to[p] => p \in D \/ p \in E
  BY DEF Leaves
<1>3. /\ \A p \in D : from[p] # Missing /\ to[p] = Missing
      /\ \A p \in E : to[p] # Missing /\ to[p] # from[p]
  BY DEF Leaves
<1>4. IsFiniteSet(deleted) /\ IsFiniteSet(upserted)
  <2>1. IsFiniteSet(D) /\ IsFiniteSet(E)
    BY FS_Subset
  <2> DEFINE f == [p \in D |-> change(p)]
             g == [p \in E |-> change(p)]
  <2>2. f \in Surjection(D, deleted) /\ g \in Surjection(E, upserted)
    <3> HIDE DEF D, E, change
    <3> QED
      BY DEF Surjection
  <2> HIDE DEF D, E, f, g, deleted, upserted
  <2> QED
    BY <2>1, <2>2, FS_Surjection
<1> HIDE DEF D, E, change
<1>5. deleted \subseteq Change /\ upserted \subseteq Change
  BY <1>0, <1>1
<1>6. /\ a \in Seq(Change) /\ b \in Seq(Change)
      /\ \A i \in DOMAIN a : a[i] \in deleted
      /\ \A i \in DOMAIN b : b[i] \in upserted
      /\ \A x \in deleted : \E i \in DOMAIN a : a[i] = x
      /\ \A x \in upserted : \E i \in DOMAIN b : b[i] = x
      /\ \A i, j \in DOMAIN a : a[i] = a[j] => i = j
      /\ \A i, j \in DOMAIN b : b[i] = b[j] => i = j
  <2> HIDE DEF deleted, upserted
  <2>1. a \in Seq(deleted) /\ b \in Seq(upserted)
    BY <1>4, SetToSeqEffect
  <2> QED
    BY <1>4, <1>5, <2>1, SetToSeqEffect
<1>7. /\ \A i \in DOMAIN a : a[i] = change(a[i].path) /\ a[i].path \in D
      /\ \A i \in DOMAIN b : b[i] = change(b[i].path) /\ b[i].path \in E
      /\ \A p \in D : \E i \in DOMAIN a : a[i].path = p
      /\ \A p \in E : \E i \in DOMAIN b : b[i].path = p
  <2> HIDE DEF a, b
  <2>1. ASSUME NEW i \in DOMAIN a PROVE a[i] = change(a[i].path) /\ a[i].path \in D
    <3>1. PICK p \in D : a[i] = change(p)
      BY <1>6
    <3> QED
      BY <1>0, <1>1, <3>1
  <2>2. ASSUME NEW i \in DOMAIN b PROVE b[i] = change(b[i].path) /\ b[i].path \in E
    <3>1. PICK p \in E : b[i] = change(p)
      BY <1>6
    <3> QED
      BY <1>0, <1>1, <3>1
  <2>3. ASSUME NEW p \in D PROVE \E i \in DOMAIN a : a[i].path = p
    <3>1. PICK i \in DOMAIN a : a[i] = change(p)
      BY <1>6
    <3> QED
      BY <1>0, <1>1, <3>1
  <2>4. ASSUME NEW p \in E PROVE \E i \in DOMAIN b : b[i].path = p
    <3>1. PICK i \in DOMAIN b : b[i] = change(p)
      BY <1>6
    <3> QED
      BY <1>0, <1>1, <3>1
  <2> QED
    BY <2>1, <2>2, <2>3, <2>4
<1> HIDE DEF a, b, deleted, upserted
<1>8. /\ cs \in Seq(Change) /\ DOMAIN cs = 1 .. (Len(a) + Len(b))
      /\ Len(a) \in Nat /\ Len(b) \in Nat
      /\ DOMAIN a = 1 .. Len(a) /\ DOMAIN b = 1 .. Len(b)
      /\ \A i \in 1 .. Len(a) : cs[i] = a[i]
      /\ \A i \in (Len(a) + 1) .. (Len(a) + Len(b)) : cs[i] = b[i - Len(a)]
      /\ \A i \in 1 .. Len(b) : cs[i + Len(a)] = b[i]
  BY <1>6
<1> HIDE DEF cs
<1>9. ASSUME NEW i \in DOMAIN cs
      PROVE  \/ i \in DOMAIN a /\ cs[i] = a[i]
             \/ i - Len(a) \in DOMAIN b /\ cs[i] = b[i - Len(a)] /\ i > Len(a)
  BY <1>8
<1>10. ASSUME NEW i \in DOMAIN cs
       PROVE  /\ cs[i] = change(cs[i].path) /\ cs[i].path \in Path
              /\ \/ cs[i].path \in D /\ i \in DOMAIN a
                 \/ cs[i].path \in E /\ i > Len(a)
  <2>1. CASE i \in DOMAIN a /\ cs[i] = a[i]
    BY <1>0, <1>7, <2>1
  <2>2. CASE i - Len(a) \in DOMAIN b /\ cs[i] = b[i - Len(a)] /\ i > Len(a)
    BY <1>0, <1>7, <2>2
  <2> QED
    BY <1>9, <2>1, <2>2
<1>11. ASSUME NEW i \in DOMAIN cs
       PROVE  /\ cs[i].old = from[cs[i].path] /\ cs[i].new = to[cs[i].path]
              /\ cs[i].old # cs[i].new
  <2>1. cs[i].old = from[cs[i].path] /\ cs[i].new = to[cs[i].path]
    BY <1>1, <1>10
  <2> QED
    BY <1>3, <1>10, <2>1
<1>12. ASSUME NEW p \in Path, from[p] # to[p] PROVE \E i \in DOMAIN cs : cs[i].path = p
  <2>1. CASE p \in D
    <3>1. PICK i \in DOMAIN a : a[i].path = p
      BY <1>7, <2>1
    <3> QED
      BY <1>8, <3>1
  <2>2. CASE p \in E
    <3>1. PICK i \in DOMAIN b : b[i].path = p
      BY <1>7, <2>2
    <3>2. i + Len(a) \in DOMAIN cs /\ cs[i + Len(a)] = b[i]
      BY <1>8, <3>1
    <3> QED
      BY <3>1, <3>2
  <2> QED
    BY <1>2, <1>12, <2>1, <2>2
<1>13. ASSUME NEW i \in DOMAIN cs, NEW j \in DOMAIN cs, cs[i].path = cs[j].path PROVE i = j
  <2>1. cs[i] = cs[j]
    BY <1>10, <1>13
  <2>2. CASE cs[i].path \in D
    <3>1. i \in DOMAIN a /\ j \in DOMAIN a
      BY <1>3, <1>10, <1>13, <2>2
    <3> QED
      BY <1>6, <1>8, <2>1, <3>1
  <2>3. CASE cs[i].path \in E
    <3>1. i > Len(a) /\ j > Len(a)
      BY <1>3, <1>10, <1>13, <2>3
    <3>2. /\ i - Len(a) \in DOMAIN b /\ j - Len(a) \in DOMAIN b
          /\ cs[i] = b[i - Len(a)] /\ cs[j] = b[j - Len(a)]
      BY <1>8, <3>1
    <3>3. i - Len(a) = j - Len(a)
      BY <1>6, <2>1, <3>2
    <3> QED
      BY <1>8, <3>3
  <2> QED
    BY <1>10, <2>2, <2>3
<1>14. ASSUME NEW i \in DOMAIN cs, NEW j \in DOMAIN cs, i < j, cs[j].new = Missing
       PROVE  cs[i].new = Missing
  <2>1. cs[j].path \in D
    BY <1>3, <1>10, <1>11, <1>14
  <2>2. i \in DOMAIN a
    <3>1. j \in DOMAIN a
      BY <1>3, <1>10, <2>1
    <3> QED
      BY <1>8, <1>14, <3>1
  <2> QED
    BY <1>3, <1>8, <1>10, <1>11, <2>2
<1>15. Changes(from, to) = cs
  BY DEF Changes, cs, a, b, deleted, upserted, change, D, E
<1> QED
  BY <1>8, <1>11, <1>12, <1>13, <1>14, <1>15 DEF Diff

LEMMA PartTree ==
  ASSUME NEW s \in Sub, NEW t \in Tree
  PROVE  Part(s, t) \in Tree
  BY DEF Part, Tree

(* Whoever has seen its part of the tree as it was, and gets the events of *)
(* a write that match, has seen its part of the tree as it is.             *)
LEMMA DiffLeads ==
  ASSUME NEW from \in Tree, NEW to \in Tree, Shaped(from), NEW cs, Diff(cs, from, to), NEW s \in Sub
  PROVE  /\ Matching(s, cs) \in Seq(Change)
         /\ Leads(Part(s, from), Matching(s, cs), Part(s, to))
<1> DEFINE n == Len(cs)
           m == Part(s, from)
           k == Part(s, to)
           match(p) == Matches(PatternOf[s], p)
           R(i) == [p \in Path |-> IF \E j \in 1 .. i : cs[j].path = p THEN k[p] ELSE m[p]]
<1>0. cs \in Seq(Change) /\ n \in Nat /\ DOMAIN cs = 1 .. n
  BY DEF Diff
<1>1. PICK g \in [0 .. n -> Seq(Change)] :
         /\ g[0] = <<>>
         /\ \A i \in 1 .. n : g[i] = (IF match(cs[i].path) THEN Append(g[i - 1], cs[i]) ELSE g[i - 1])
         /\ Matching(s, cs) = g[n]
  BY <1>0, MatchingRuns
<1>2. /\ m \in Tree /\ k \in Tree
      /\ \A p \in Path : /\ match(p) => m[p] = from[p] /\ k[p] = to[p]
                         /\ ~match(p) => m[p] = Missing /\ k[p] = Missing
  BY DEF Part, Tree
<1> HIDE DEF n, m, k, match
<1>3. \A i \in 0 .. n : R(i) \in Tree
  BY <1>2 DEF Tree
<1> DEFINE Z == {i \in 0 .. n : Leads(m, g[i], R(i))}
<1>4. 0 \in Z
  <2>1. R(0) = m
    BY <1>2 DEF Tree
  <2>2. Leads(m, g[0], m)
    BY <1>1, <1>2, LeadsNowhere
  <2>3. 0 \in 0 .. n
    BY <1>0
  <2> HIDE DEF R
  <2>4. Leads(m, g[0], R(0))
    BY <2>1, <2>2
  <2> QED
    BY <2>3, <2>4
<1>5. ASSUME NEW i \in 1 .. n, i - 1 \in Z PROVE i \in Z
  <2> DEFINE c == cs[i]
             q == c.path
             r == R(i - 1)
  <2>0. i \in 0 .. n /\ i - 1 \in 0 .. n /\ Leads(m, g[i - 1], r)
    BY <1>0, <1>5
  <2>1. c \in Change /\ q \in Path /\ c.old = from[q] /\ c.new = to[q] /\ from[q] # to[q]
    <3>1. i \in DOMAIN cs
      BY <1>0
    <3>2. c \in Change
      BY <1>0, <3>1
    <3>3. c.path \in Path
      BY <3>2 DEF Change
    <3>4. c.old = from[q] /\ c.new = to[q] /\ c.old # c.new
      BY <3>1 DEF Diff
    <3> HIDE DEF c
    <3> QED
      BY <3>2, <3>3, <3>4
  <2>2. /\ \A j \in 1 .. (i - 1) : cs[j].path # q
        /\ to[q] = Missing => \A j \in 1 .. (i - 1) : to[cs[j].path] = Missing
    <3>1. ASSUME NEW j \in 1 .. (i - 1)
          PROVE cs[j].path # q /\ (to[q] = Missing => to[cs[j].path] = Missing)
      <4>1. j \in DOMAIN cs /\ i \in DOMAIN cs /\ j < i
        BY <1>0
      <4> QED
        BY <2>1, <4>1 DEF Diff
    <3> QED
      BY <3>1
  <2>3. ASSUME NEW p \in Path
        PROVE  /\ p = q => r[p] = m[p] /\ R(i)[p] = k[p]
               /\ p # q => R(i)[p] = r[p]
    <3>1. p = q => ~\E j \in 1 .. (i - 1) : cs[j].path = p
      BY <2>2
    <3>2. p = q => \E j \in 1 .. i : cs[j].path = p
      BY <1>0
    <3>3. p # q => ((\E j \in 1 .. i : cs[j].path = p) <=> (\E j \in 1 .. (i - 1) : cs[j].path = p))
      <4>1. \A j \in 1 .. i : j = i \/ j \in 1 .. (i - 1)
        BY <1>0
      <4>2. \A j \in 1 .. (i - 1) : j \in 1 .. i
        BY <1>0
      <4> QED
        BY <4>1, <4>2
    <3> QED
      BY <3>1, <3>2, <3>3
  <2>4. r \in Tree /\ R(i) \in Tree
    BY <1>3, <2>0
  <2>5. g[i - 1] \in Seq(Change)
    BY <1>1, <2>0
  <2>6. CASE ~match(q)
    <3>1. g[i] = g[i - 1]
      BY <1>1, <2>6
    <3>2. m[q] = k[q]
      BY <1>2, <2>1, <2>6
    <3>3. R(i) = r
      <4> HIDE DEF R, r, q
      <4>1. \A p \in Path : R(i)[p] = r[p]
        BY <2>3, <3>2
      <4> QED
        BY <2>4, <4>1 DEF Tree
    <3> QED
      BY <2>0, <3>1, <3>3
  <2>7. CASE match(q)
    <3>1. g[i] = Append(g[i - 1], c)
      BY <1>1, <2>7
    <3>2. m[q] = from[q] /\ k[q] = to[q] /\ r[q] = c.old
      BY <1>2, <2>1, <2>3, <2>7
    <3>3. Seen(r, c) = R(i)
      <4>1. CASE c.new # Missing
        <5> HIDE DEF R, r, q
        <5>1. Seen(r, c) = [r EXCEPT ![q] = c.new]
          BY <4>1 DEF Seen, q
        <5> HIDE DEF c
        <5>2. \A p \in Path : [r EXCEPT ![q] = c.new][p] = R(i)[p]
          BY <2>1, <2>3, <2>4, <3>2 DEF Tree
        <5>3. [r EXCEPT ![q] = c.new] \in [Path -> Value \cup {Missing}]
          BY <2>1, <2>4 DEF Tree, Change
        <5> QED
          BY <2>4, <5>1, <5>2, <5>3 DEF Tree
      <4>2. CASE c.new = Missing
        <5>1. Seen(r, c) = [p \in Path |-> IF IsPrefix(q, p) THEN Missing ELSE r[p]]
          BY <4>2 DEF Seen
        <5>2. ASSUME NEW p \in Path
              PROVE  (IF IsPrefix(q, p) THEN Missing ELSE r[p]) = R(i)[p]
          <6>1. CASE p = q
            <7>1. IsPrefix(q, p)
              BY <2>1, <6>1, PrefixOrder
            <7>2. R(i)[p] = Missing
              BY <2>1, <2>3, <3>2, <4>2, <6>1
            <7> QED
              BY <7>1, <7>2
          <6>2. CASE p # q /\ IsPrefix(q, p)
            <7>1. from[p] = Missing
              <8>1. q \in Leaves(from)
                BY <2>1, <4>2 DEF Leaves
              <8> QED
                BY <6>2, <8>1 DEF Shaped, Leaves
            <7>2. m[p] = Missing
              BY <1>2, <7>1
            <7>3. r[p] = Missing
              <8>1. CASE \E j \in 1 .. (i - 1) : cs[j].path = p
                <9>1. to[p] = Missing
                  BY <2>1, <2>2, <4>2, <8>1
                <9>2. k[p] = Missing
                  BY <1>2, <9>1
                <9> QED
                  BY <8>1, <9>2
              <8>2. CASE ~\E j \in 1 .. (i - 1) : cs[j].path = p
                BY <7>2, <8>2
              <8> QED
                BY <8>1, <8>2
            <7> HIDE DEF R, r, q
            <7> QED
              BY <2>3, <6>2, <7>3
          <6>3. CASE p # q /\ ~IsPrefix(q, p)
            <7> HIDE DEF R, r, q
            <7> QED
              BY <2>3, <6>3
          <6> QED
            BY <6>1, <6>2, <6>3
        <5> HIDE DEF R, r, q
        <5>3. R(i) = [p \in Path |-> R(i)[p]]
          BY <2>4 DEF Tree
        <5> QED
          BY <5>1, <5>2, <5>3
      <4> QED
        BY <4>1, <4>2
    <3>4. Leads(m, Append(g[i - 1], c), Seen(r, c))
      <4> HIDE DEF R, r, c
      <4> QED
        BY <1>2, <2>0, <2>1, <2>5, <3>2, LeadsOn DEF q
    <3> QED
      BY <2>0, <3>1, <3>3, <3>4
  <2> QED
    BY <2>6, <2>7
<1>6. Leads(m, g[n], R(n))
  <2>1. \A i \in 0 .. n : i \in Z
    <3> HIDE DEF Z
    <3> QED
      BY <1>0, <1>4, <1>5, Upto
  <2> QED
    BY <1>0, <2>1
<1>7. R(n) = k
  <2>1. ASSUME NEW p \in Path PROVE R(n)[p] = k[p]
    <3>1. CASE \E j \in 1 .. n : cs[j].path = p
      BY <3>1
    <3>2. CASE ~\E j \in 1 .. n : cs[j].path = p
      <4>1. from[p] = to[p]
        BY <1>0, <3>2 DEF Diff
      <4>2. m[p] = k[p]
        BY <1>2, <4>1
      <4> QED
        BY <3>2, <4>2
    <3> QED
      BY <3>1, <3>2
  <2>2. R(n) \in Tree
    <3>1. n \in 0 .. n
      BY <1>0
    <3> HIDE DEF R
    <3> QED
      BY <1>3, <3>1
  <2> HIDE DEF R
  <2> QED
    BY <1>2, <2>1, <2>2 DEF Tree
<1>8. g[n] \in Seq(Change)
  BY <1>0, <1>1
<1> QED
  BY <1>1, <1>6, <1>7, <1>8 DEF m, k

(* A write without events for a subscriber leaves its part as it is. *)
LEMMA DiffElsewhere ==
  ASSUME NEW from \in Tree, NEW to \in Tree, Shaped(from), NEW cs, Diff(cs, from, to), NEW s \in Sub,
         Matching(s, cs) = <<>>
  PROVE  Part(s, from) = Part(s, to)
<1>1. Part(s, from) \in Tree /\ Part(s, to) \in Tree
  BY PartTree
<1>2. Leads(Part(s, from), <<>>, Part(s, to))
  BY DiffLeads
<1>3. <<>> \in Seq(Change)
  OBVIOUS
<1> QED
  BY <1>1, <1>2, <1>3, ReplayEffect DEF Leads

LEMMA MatchingNothing ==
  ASSUME NEW s \in Sub
  PROVE  Matching(s, <<>>) = <<>>
<1> DEFINE cs == <<>>
<1>1. cs \in Seq(Change) /\ Len(cs) = 0
  OBVIOUS
<1> HIDE DEF cs
<1>2. PICK g \in [0 .. Len(cs) -> Seq(Change)] : g[0] = <<>> /\ Matching(s, cs) = g[Len(cs)]
  BY <1>1, MatchingRuns
<1> QED
  BY <1>1, <1>2 DEF cs

LEMMA MatchingType ==
  ASSUME NEW s \in Sub, NEW cs \in Seq(Change)
  PROVE  Matching(s, cs) \in Seq(Change)
<1>1. PICK g \in [0 .. Len(cs) -> Seq(Change)] : Matching(s, cs) = g[Len(cs)]
  BY MatchingRuns
<1>2. Len(cs) \in 0 .. Len(cs)
  OBVIOUS
<1> QED
  BY <1>1, <1>2

Call == [sub : Sub, seq : Nat]

LEMMA CallType ==
  ASSUME NEW calls \in Seq(Call), NEW k \in Nat
  PROVE  CallNext(calls, k) \in Seq(Call)
<1> DEFINE s == CHOOSE s \in Registered(k) : TRUE
           c == [sub |-> s, seq |-> k]
<1>1. CASE Registered(k) = {}
  BY <1>1 DEF CallNext
<1>2. CASE Registered(k) # {}
  <2>1. s \in Registered(k)
    BY <1>2
  <2>2. s \in Sub
    BY <2>1 DEF Registered
  <2> HIDE DEF s
  <2>3. c \in Call
    BY <2>2 DEF Call
  <2>4. CallNext(calls, k) = Append(calls, c)
    BY <1>2 DEF CallNext, s
  <2> HIDE DEF c
  <2> QED
    BY <2>3, <2>4
<1> QED
  BY <1>1, <1>2

(* The callbacks of a batch are found one registration number at a time. *)
LEMMA CallRuns ==
  ASSUME NEW b, NEW k \in Nat, b.seq = k
  PROVE  \E g \in [0 .. k -> Seq(Call)] :
            /\ g[0] = <<>> /\ \A i \in 1 .. k : g[i] = CallNext(g[i - 1], [j \in 1 .. k |-> j][i])
            /\ Callbacks(b) = g[k]
<1> DEFINE n == k
           F == [p \in (1 .. n) \X Seq(Call) |-> CallNext(p[2], [j \in 1 .. k |-> j][p[1]])]
           Is(f) == f = [T \in SUBSET (DOMAIN [j \in 1 .. k |-> j]) |->
                           IF T = {} THEN <<>> ELSE CallNext(f[T \ {Max(T)}], [j \in 1 .. k |-> j][Max(T)])]
<1>0. n \in Nat /\ DOMAIN [j \in 1 .. k |-> j] = 1 .. n
  OBVIOUS
<1>1. <<>> \in Seq(Call)
  OBVIOUS
<1>2. \A i \in 1 .. n, y \in Seq(Call) : F[<<i, y>>] = CallNext(y, [j \in 1 .. k |-> j][i])
  OBVIOUS
<1>a. F \in [(1 .. n) \X Seq(Call) -> Seq(Call)]
  BY CallType
<1>3. PICK h : Solves(h, n, Seq(Call), <<>>, F)
  <2> HIDE DEF F, n
  <2> QED
    BY <1>0, <1>1, <1>a, FoldSolves
<1> HIDE DEF F
<1>4. Is(h)
  <2>1. ASSUME NEW T \in SUBSET (1 .. n), T # {}
        PROVE  h[T] = CallNext(h[T \ {Max(T)}], [j \in 1 .. k |-> j][Max(T)])
    <3>1. Max(T) \in 1 .. n /\ h[T \ {Max(T)}] \in Seq(Call) /\ h[T] = F[<<Max(T), h[T \ {Max(T)}]>>]
      BY <1>3, <2>1 DEF Solves
    <3> QED
      BY <1>2, <3>1
  <2>2. h = [T \in SUBSET (1 .. n) |-> h[T]]
    BY <1>3 DEF Solves
  <2> QED
    BY <1>0, <1>3, <2>1, <2>2 DEF Solves
<1>5. ASSUME NEW f, Is(f) PROVE FoldsLeft(f[1 .. n], f, n, Seq(Call), <<>>, F)
  <2>1. ASSUME NEW T \in (SUBSET (1 .. n)) \ {{}}, f[T \ {Max(T)}] \in Seq(Call)
        PROVE  f[T] = F[<<Max(T), f[T \ {Max(T)}]>>]
    <3>1. Max(T) \in 1 .. n
      BY <1>3, <2>1 DEF Solves
    <3>2. f[T] = CallNext(f[T \ {Max(T)}], [j \in 1 .. k |-> j][Max(T)])
      BY <1>0, <1>5, <2>1
    <3> QED
      BY <1>2, <2>1, <3>1, <3>2
  <2>2. f[{}] = <<>>
    BY <1>0, <1>5
  <2> QED
    BY <2>1, <2>2 DEF FoldsLeft
<1>6. Callbacks(b) = (CHOOSE f : Is(f))[DOMAIN [j \in 1 .. k |-> j]]
  BY DEF Callbacks, FoldLeft, MapThenFoldSet
<1> DEFINE v == CHOOSE f : Is(f)
           r == v[1 .. n]
<1> HIDE DEF Is, n
<1>7. Is(v)
  BY <1>4
<1> HIDE DEF v
<1>8. FoldsLeft(r, v, n, Seq(Call), <<>>, F)
  BY <1>5, <1>7
<1> HIDE DEF r
<1>9. PICK g : Runs(r, g, n, Seq(Call), <<>>, F)
  BY <1>0, <1>1, <1>8, <1>a, FoldRuns
<1>10. \A i \in 1 .. n : g[i] = CallNext(g[i - 1], [j \in 1 .. k |-> j][i])
  <2>1. \A i \in 1 .. n : g[i - 1] \in Seq(Call)
    BY <1>0, <1>9 DEF Runs
  <2> QED
    BY <1>2, <1>9, <2>1 DEF Runs
<1> QED
  BY <1>0, <1>6, <1>9, <1>10 DEF Runs, n, v, r

(* Registrations have numbers of their own. *)
Numbered == \A s, t \in Sub : subs[s] > 0 /\ subs[s] = subs[t] => s = t

Ascending(calls, k) ==
    /\ calls \in Seq(Call)
    /\ \A i \in DOMAIN calls : calls[i].seq \in 1 .. k
    /\ \A i, j \in DOMAIN calls : i < j => calls[i].seq < calls[j].seq

Reaches(calls, c) == \E i \in DOMAIN calls : calls[i] = c

LEMMA CallNextEffect ==
  ASSUME subs \in [Sub -> Nat], Numbered, NEW k \in Nat \ {0}, NEW calls, Ascending(calls, k - 1),
         \A s \in Sub : subs[s] \in 1 .. (k - 1) => Reaches(calls, [sub |-> s, seq |-> subs[s]])
  PROVE  /\ Ascending(CallNext(calls, k), k)
         /\ \A s \in Sub : subs[s] \in 1 .. k => Reaches(CallNext(calls, k), [sub |-> s, seq |-> subs[s]])
<1> DEFINE t == CHOOSE s \in Registered(k) : TRUE
           c == [sub |-> t, seq |-> k]
           n == Len(calls)
<1>0. calls \in Seq(Call) /\ n \in Nat /\ DOMAIN calls = 1 .. n
  BY DEF Ascending
<1>1. CASE Registered(k) = {}
  <2>1. CallNext(calls, k) = calls
    BY <1>1 DEF CallNext
  <2>2. \A s \in Sub : subs[s] \in 1 .. k => subs[s] \in 1 .. (k - 1)
    BY <1>1 DEF Registered
  <2>3. Ascending(calls, k)
    BY DEF Ascending
  <2> QED
    BY <2>1, <2>2, <2>3
<1>2. CASE Registered(k) # {}
  <2> DEFINE e == Append(calls, c)
  <2>1. t \in Sub /\ subs[t] = k
    <3>1. t \in Registered(k)
      BY <1>2
    <3> QED
      BY <3>1 DEF Registered
  <2>2. CallNext(calls, k) = e
    BY <1>2 DEF CallNext
  <2> HIDE DEF t
  <2>3. c \in Call /\ c.seq = k
    BY <2>1 DEF Call
  <2> HIDE DEF c
  <2>4. /\ e \in Seq(Call) /\ DOMAIN e = 1 .. (n + 1) /\ e[n + 1] = c
        /\ \A i \in 1 .. n : e[i] = calls[i]
    BY <1>0, <2>3
  <2> HIDE DEF e
  <2>5. \A i \in 1 .. n : calls[i].seq \in 1 .. (k - 1)
    BY <1>0 DEF Ascending
  <2>6. ASSUME NEW i \in DOMAIN e PROVE e[i].seq \in 1 .. k
    <3>1. CASE i \in 1 .. n
      BY <2>4, <2>5, <3>1
    <3>2. CASE i = n + 1
      BY <2>3, <2>4, <3>2
    <3> QED
      BY <1>0, <2>4, <3>1, <3>2
  <2>7. ASSUME NEW i \in DOMAIN e, NEW j \in DOMAIN e, i < j PROVE e[i].seq < e[j].seq
    <3>0. i \in 1 .. n /\ e[i] = calls[i]
      BY <1>0, <2>4, <2>7
    <3>1. CASE j \in 1 .. n
      BY <1>0, <2>4, <2>7, <3>0, <3>1 DEF Ascending
    <3>2. CASE j = n + 1
      BY <2>3, <2>4, <2>5, <3>0, <3>2
    <3> QED
      BY <1>0, <2>4, <3>1, <3>2
  <2>8. ASSUME NEW s \in Sub, subs[s] \in 1 .. k PROVE Reaches(e, [sub |-> s, seq |-> subs[s]])
    <3>1. CASE subs[s] = k
      <4>1. s = t
        BY <2>1, <3>1 DEF Numbered
      <4>2. [sub |-> s, seq |-> subs[s]] = c
        BY <2>1, <4>1 DEF c
      <4>3. n + 1 \in DOMAIN e
        BY <1>0, <2>4
      <4> QED
        BY <2>4, <4>2, <4>3 DEF Reaches
    <3>2. CASE subs[s] # k
      <4>1. subs[s] \in 1 .. (k - 1)
        BY <2>8, <3>2
      <4>2. PICK i \in DOMAIN calls : calls[i] = [sub |-> s, seq |-> subs[s]]
        BY <4>1 DEF Reaches
      <4>3. i \in DOMAIN e /\ e[i] = calls[i]
        BY <1>0, <2>4
      <4> QED
        BY <4>2, <4>3 DEF Reaches
    <3> QED
      BY <3>1, <3>2
  <2> QED
    BY <2>2, <2>4, <2>6, <2>7, <2>8 DEF Ascending
<1> QED
  BY <1>1, <1>2

LEMMA CallbacksEffect ==
  ASSUME subs \in [Sub -> Nat], Numbered, NEW b, NEW k \in Nat, b.seq = k
  PROVE  /\ Ascending(Callbacks(b), k)
         /\ \A s \in Sub : subs[s] \in 1 .. k => Reaches(Callbacks(b), [sub |-> s, seq |-> subs[s]])
<1>1. PICK g \in [0 .. k -> Seq(Call)] :
         /\ g[0] = <<>> /\ \A i \in 1 .. k : g[i] = CallNext(g[i - 1], [j \in 1 .. k |-> j][i])
         /\ Callbacks(b) = g[k]
  BY CallRuns
<1> DEFINE Good(calls, i) == /\ Ascending(calls, i)
                             /\ \A s \in Sub : subs[s] \in 1 .. i => Reaches(calls, [sub |-> s, seq |-> subs[s]])
           Z == {i \in 0 .. k : Good(g[i], i)}
<1>2. 0 \in Z
  <2>1. Ascending(<<>>, 0)
    BY DEF Ascending
  <2> QED
    BY <1>1, <2>1
<1>3. ASSUME NEW i \in 1 .. k, i - 1 \in Z PROVE i \in Z
  <2>1. g[i] = CallNext(g[i - 1], i)
    BY <1>1
  <2>2. i \in 0 .. k /\ i \in Nat \ {0} /\ Good(g[i - 1], i - 1)
    BY <1>3
  <2>3. Good(CallNext(g[i - 1], i), i)
    BY <2>2, CallNextEffect
  <2> HIDE DEF Good
  <2> QED
    BY <2>1, <2>2, <2>3
<1>4. \A i \in 0 .. k : i \in Z
  <2> HIDE DEF Z
  <2> QED
    BY <1>2, <1>3, Upto
<1>5. k \in 0 .. k
  OBVIOUS
<1>6. Good(g[k], k)
  <2> HIDE DEF Good
  <2> QED
    BY <1>4, <1>5
<1> QED
  BY <1>1, <1>6

-----------------------------------------------------------------------------
(* What the queue holds. *)
Batch == [changes : Seq(Change), generation : Nat, depth : 1 .. MaxDepth, seq : Nat]

Total(q) == FoldLeft(LAMBDA n, b : n + Len(b.changes), 0, q)

(* The changes of a queue are counted one batch at a time. *)
LEMMA TotalRuns ==
  ASSUME NEW q \in Seq(Batch)
  PROVE  \E g \in [0 .. Len(q) -> Nat] :
            /\ g[0] = 0 /\ \A i \in 1 .. Len(q) : g[i] = g[i - 1] + Len(q[i].changes)
            /\ Total(q) = g[Len(q)]
<1> DEFINE n == Len(q)
           F == [p \in (1 .. n) \X Nat |-> p[2] + Len(q[p[1]].changes)]
           Is(f) == f = [T \in SUBSET (DOMAIN q) |->
                           IF T = {} THEN 0 ELSE f[T \ {Max(T)}] + Len(q[Max(T)].changes)]
<1>0. n \in Nat /\ DOMAIN q = 1 .. n
  OBVIOUS
<1>1. 0 \in Nat
  OBVIOUS
<1>2. \A i \in 1 .. n, y \in Nat : F[<<i, y>>] = y + Len(q[i].changes)
  OBVIOUS
<1>a. F \in [(1 .. n) \X Nat -> Nat]
  <2>1. \A i \in 1 .. n : Len(q[i].changes) \in Nat
    <3>1. \A i \in 1 .. n : q[i] \in Batch
      OBVIOUS
    <3>2. \A b \in Batch : Len(b.changes) \in Nat
      BY DEF Batch
    <3> QED
      BY <3>1, <3>2
  <2> QED
    BY <2>1
<1>3. PICK h : Solves(h, n, Nat, 0, F)
  <2> HIDE DEF F, n
  <2> QED
    BY <1>0, <1>1, <1>a, FoldSolves
<1> HIDE DEF F
<1>4. Is(h)
  <2>1. ASSUME NEW T \in SUBSET (1 .. n), T # {}
        PROVE  h[T] = h[T \ {Max(T)}] + Len(q[Max(T)].changes)
    <3>1. Max(T) \in 1 .. n /\ h[T \ {Max(T)}] \in Nat /\ h[T] = F[<<Max(T), h[T \ {Max(T)}]>>]
      BY <1>3, <2>1 DEF Solves
    <3> QED
      BY <1>2, <3>1
  <2>2. h = [T \in SUBSET (1 .. n) |-> h[T]]
    BY <1>3 DEF Solves
  <2> QED
    BY <1>0, <1>3, <2>1, <2>2 DEF Solves
<1>5. ASSUME NEW f, Is(f) PROVE FoldsLeft(f[1 .. n], f, n, Nat, 0, F)
  <2>1. ASSUME NEW T \in (SUBSET (1 .. n)) \ {{}}, f[T \ {Max(T)}] \in Nat
        PROVE  f[T] = F[<<Max(T), f[T \ {Max(T)}]>>]
    <3>1. Max(T) \in 1 .. n
      BY <1>3, <2>1 DEF Solves
    <3>2. f[T] = f[T \ {Max(T)}] + Len(q[Max(T)].changes)
      BY <1>0, <1>5, <2>1
    <3> QED
      BY <1>2, <2>1, <3>1, <3>2
  <2>2. f[{}] = 0
    BY <1>0, <1>5
  <2> QED
    BY <2>1, <2>2 DEF FoldsLeft
<1>6. Total(q) = (CHOOSE f : Is(f))[DOMAIN q]
  BY DEF Total, FoldLeft, MapThenFoldSet
<1> DEFINE v == CHOOSE f : Is(f)
           r == v[1 .. n]
<1> HIDE DEF Is, n
<1>7. Is(v)
  BY <1>4
<1> HIDE DEF v
<1>8. FoldsLeft(r, v, n, Nat, 0, F)
  BY <1>5, <1>7
<1> HIDE DEF r
<1>9. PICK g : Runs(r, g, n, Nat, 0, F)
  BY <1>0, <1>1, <1>8, <1>a, FoldRuns
<1>10. \A i \in 1 .. n : g[i] = g[i - 1] + Len(q[i].changes)
  <2>1. \A i \in 1 .. n : g[i - 1] \in Nat
    BY <1>0, <1>9 DEF Runs
  <2> QED
    BY <1>2, <1>9, <2>1 DEF Runs
<1> QED
  BY <1>0, <1>6, <1>9, <1>10 DEF Runs, n, v, r

LEMMA TotalEffect ==
  ASSUME NEW q \in Seq(Batch)
  PROVE  /\ Total(q) \in Nat
         /\ \A b \in Batch : Total(Append(q, b)) = Total(q) + Len(b.changes)
         /\ q # <<>> => Total(q) = Len(Head(q).changes) + Total(Tail(q))
<1> DEFINE size(b) == Len(b.changes)
           n == Len(q)
<1>0. n \in Nat /\ \A b \in Batch : size(b) \in Nat
  BY DEF Batch
<1>1. PICK g \in [0 .. n -> Nat] :
         /\ g[0] = 0 /\ \A i \in 1 .. n : g[i] = g[i - 1] + size(q[i])
         /\ Total(q) = g[n]
  BY TotalRuns
<1>2. Total(q) \in Nat
  BY <1>0, <1>1
<1>3. ASSUME NEW b \in Batch PROVE Total(Append(q, b)) = Total(q) + size(b)
  <2> DEFINE r == Append(q, b)
  <2>1. r \in Seq(Batch) /\ Len(r) = n + 1 /\ r[n + 1] = b /\ \A i \in 1 .. n : r[i] = q[i]
    BY <1>3
  <2> HIDE DEF r
  <2>2. PICK h \in [0 .. Len(r) -> Nat] :
           /\ h[0] = 0 /\ \A i \in 1 .. Len(r) : h[i] = h[i - 1] + size(r[i])
           /\ Total(r) = h[Len(r)]
    BY <2>1, TotalRuns
  <2> DEFINE Z == {i \in 0 .. n : h[i] = g[i]}
  <2>3. 0 \in Z
    BY <1>0, <1>1, <2>2
  <2>4. ASSUME NEW i \in 1 .. n, i - 1 \in Z PROVE i \in Z
    <3>1. i \in 0 .. n /\ i \in 1 .. Len(r)
      BY <1>0, <2>1
    <3>2. h[i] = h[i - 1] + size(r[i]) /\ g[i] = g[i - 1] + size(q[i])
      BY <1>1, <2>2, <3>1
    <3> QED
      BY <2>1, <2>4, <3>1, <3>2
  <2>5. \A i \in 0 .. n : i \in Z
    <3> HIDE DEF Z, n
    <3> QED
      BY <1>0, <2>3, <2>4, Upto
  <2>6. n \in 0 .. n /\ n + 1 \in 1 .. Len(r) /\ (n + 1) - 1 = n
    BY <1>0, <2>1
  <2>7. h[n] = g[n]
    BY <2>5, <2>6
  <2>8. h[n + 1] = h[n] + size(r[n + 1])
    <3> HIDE DEF size, n
    <3> QED
      BY <2>2, <2>6
  <2> QED
    BY <1>1, <2>1, <2>2, <2>7, <2>8 DEF r
<1>4. ASSUME q # <<>> PROVE Total(q) = size(Head(q)) + Total(Tail(q))
  <2> DEFINE r == Tail(q)
  <2>1. /\ r \in Seq(Batch) /\ Len(r) = n - 1 /\ n \in Nat \ {0} /\ Head(q) = q[1]
        /\ q[1] \in Batch
        /\ \A i \in 1 .. (n - 1) : r[i] = q[i + 1]
    BY <1>4
  <2> HIDE DEF r
  <2>2. PICK h \in [0 .. Len(r) -> Nat] :
           /\ h[0] = 0 /\ \A i \in 1 .. Len(r) : h[i] = h[i - 1] + size(r[i])
           /\ Total(r) = h[Len(r)]
    BY <2>1, TotalRuns
  <2> DEFINE k == n - 1
             Z == {i \in 0 .. k : g[i + 1] = size(q[1]) + h[i]}
  <2> HIDE DEF n, size
  <2>k. k \in Nat /\ k + 1 = n /\ Len(r) = k
    BY <2>1
  <2>3. 0 \in Z
    <3>1. g[1] = g[0] + size(q[1])
      <4>1. 1 \in 1 .. n /\ 1 - 1 = 0
        BY <2>1
      <4> QED
        BY <1>1, <4>1
    <3>2. 0 \in 0 .. k /\ 0 + 1 = 1
      BY <2>k
    <3> QED
      BY <1>0, <1>1, <2>1, <2>2, <3>1, <3>2
  <2>4. ASSUME NEW i \in 1 .. k, i - 1 \in Z PROVE i \in Z
    <3>1. i \in 0 .. k /\ i \in 1 .. Len(r) /\ i + 1 \in 1 .. n /\ (i + 1) - 1 = i /\ i \in 0 .. n
          /\ (i - 1) + 1 = i /\ i - 1 \in 0 .. k /\ i \in 1 .. (n - 1)
      BY <2>k
    <3>2. h[i] = h[i - 1] + size(r[i]) /\ g[i + 1] = g[i] + size(q[i + 1])
      BY <1>1, <2>2, <3>1
    <3>3. g[i] = size(q[1]) + h[i - 1] /\ r[i] = q[i + 1]
      BY <2>1, <2>4, <3>1
    <3>4. h[i - 1] \in Nat /\ size(q[1]) \in Nat /\ size(q[i + 1]) \in Nat
      <4>1. q[i + 1] \in Batch
        BY <3>1 DEF n
      <4> QED
        BY <1>0, <2>1, <2>2, <2>k, <3>1, <4>1
    <3> QED
      BY <3>1, <3>2, <3>3, <3>4
  <2>5. \A i \in 0 .. k : i \in Z
    <3> HIDE DEF Z, k
    <3> QED
      BY <2>k, <2>3, <2>4, Upto
  <2>6. k \in 0 .. k
    BY <2>k
  <2>7. g[n] = size(q[1]) + h[k]
    BY <2>5, <2>6, <2>k
  <2> QED
    BY <1>1, <2>1, <2>2, <2>k, <2>7 DEF r
<1> QED
  BY <1>2, <1>3, <1>4

LEMMA TotalNothing == Total(<<>>) = 0
<1> DEFINE q == <<>>
<1>1. q \in Seq(Batch) /\ Len(q) = 0
  OBVIOUS
<1> HIDE DEF q
<1>2. PICK g \in [0 .. Len(q) -> Nat] : g[0] = 0 /\ Total(q) = g[Len(q)]
  BY <1>1, TotalRuns
<1> QED
  BY <1>1, <1>2 DEF q

-----------------------------------------------------------------------------
(* The counter of the leaves is kept by what the changes add and remove.   *)
LEMMA DiffCount ==
  ASSUME NEW from \in Tree, NEW to \in Tree, IsFiniteSet(Leaves(from)), IsFiniteSet(Leaves(to)),
         NEW cs, Diff(cs, from, to)
  PROVE  /\ Count(cs, TRUE) \in Nat /\ Count(cs, FALSE) \in Nat
         /\ Cardinality(Leaves(to)) = (Cardinality(Leaves(from)) + Count(cs, TRUE)) - Count(cs, FALSE)
         /\ (\A p \in Path : to[p] \in {from[p], Missing}) =>
              Cardinality(Leaves(to)) = Cardinality(Leaves(from)) - Len(cs)
<1> DEFINE A == Leaves(from)
           B == Leaves(to)
           I == {i \in DOMAIN cs : cs[i].old = Missing}
           J == {i \in DOMAIN cs : cs[i].new = Missing}
           f == [i \in I |-> cs[i].path]
           g == [i \in J |-> cs[i].path]
<1>0. Count(cs, TRUE) = Cardinality(I) /\ Count(cs, FALSE) = Cardinality(J)
  BY DEF Count
<1>1. cs \in Seq(Change) /\ DOMAIN cs = 1 .. Len(cs) /\ Len(cs) \in Nat
  BY DEF Diff
<1>2. ASSUME NEW i \in DOMAIN cs
      PROVE  /\ cs[i].path \in Path /\ cs[i].old = from[cs[i].path] /\ cs[i].new = to[cs[i].path]
             /\ cs[i].old # cs[i].new
  <2>1. cs[i] \in Change
    BY <1>1
  <2>2. cs[i].path \in Path
    BY <2>1 DEF Change
  <2> QED
    BY <2>2 DEF Diff
<1>3. \A i, j \in DOMAIN cs : cs[i].path = cs[j].path => i = j
  BY DEF Diff
<1>4. \A p \in Path : from[p] # to[p] => \E i \in DOMAIN cs : cs[i].path = p
  BY DEF Diff
<1>5. f \in [I -> B \ A] /\ g \in [J -> A \ B]
  BY <1>2 DEF Leaves
<1>6. f \in Bijection(I, B \ A)
  <2>1. \A i, j \in I : f[i] = f[j] => i = j
    BY <1>3
  <2>2. ASSUME NEW p \in B \ A PROVE \E i \in I : f[i] = p
    <3>1. p \in Path /\ from[p] = Missing /\ to[p] # Missing
      BY DEF Leaves
    <3>2. PICK i \in DOMAIN cs : cs[i].path = p
      BY <1>4, <3>1
    <3> QED
      BY <1>2, <3>1, <3>2
  <2> HIDE DEF A, B, I, f
  <2> QED
    BY <1>5, <2>1, <2>2 DEF Bijection, Injection, Surjection, IsInjective
<1>7. g \in Bijection(J, A \ B)
  <2>1. \A i, j \in J : g[i] = g[j] => i = j
    BY <1>3
  <2>2. ASSUME NEW p \in A \ B PROVE \E i \in J : g[i] = p
    <3>1. p \in Path /\ to[p] = Missing /\ from[p] # Missing
      BY DEF Leaves
    <3>2. PICK i \in DOMAIN cs : cs[i].path = p
      BY <1>4, <3>1
    <3> QED
      BY <1>2, <3>1, <3>2
  <2> HIDE DEF A, B, J, g
  <2> QED
    BY <1>5, <2>1, <2>2 DEF Bijection, Injection, Surjection, IsInjective
<1> HIDE DEF A, B, f, g
<1>8. IsFiniteSet(I) /\ IsFiniteSet(J) /\ IsFiniteSet(DOMAIN cs) /\ Cardinality(DOMAIN cs) = Len(cs)
  <2>1. IsFiniteSet(DOMAIN cs) /\ Cardinality(DOMAIN cs) = Len(cs)
    BY <1>1, FS_Interval
  <2>2. I \subseteq DOMAIN cs /\ J \subseteq DOMAIN cs
    OBVIOUS
  <2> HIDE DEF I, J
  <2> QED
    BY <2>1, <2>2, FS_Subset
<1>9. Cardinality(I) = Cardinality(B \ A) /\ Cardinality(J) = Cardinality(A \ B)
  <2>1. ExistsBijection(I, B \ A) /\ ExistsBijection(J, A \ B)
    BY <1>6, <1>7 DEF ExistsBijection
  <2> HIDE DEF I, J
  <2> QED
    BY <1>8, <2>1, FS_Bijection
<1>10. IsFiniteSet(A) /\ IsFiniteSet(B)
  BY DEF A, B
<1> DEFINE C == A \cap B
<1>11. /\ Cardinality(A \ B) = Cardinality(A) - Cardinality(C)
       /\ Cardinality(B \ A) = Cardinality(B) - Cardinality(C)
  <2>1. Cardinality(A \ B) = Cardinality(A) - Cardinality(A \cap B)
    BY <1>10, FS_Difference
  <2>2. Cardinality(B \ A) = Cardinality(B) - Cardinality(B \cap A)
    BY <1>10, FS_Difference
  <2>3. B \cap A = C
    OBVIOUS
  <2> QED
    BY <2>1, <2>2, <2>3
<1>12. /\ Cardinality(A) \in Nat /\ Cardinality(B) \in Nat /\ Cardinality(C) \in Nat
       /\ Cardinality(I) \in Nat /\ Cardinality(J) \in Nat
  <2>1. IsFiniteSet(C)
    BY <1>10, FS_Subset
  <2> HIDE DEF I, J
  <2> QED
    BY <1>8, <1>10, <2>1, FS_CardinalityType
<1>13. Cardinality(B) = (Cardinality(A) + Cardinality(I)) - Cardinality(J)
  <2> HIDE DEF I, J, C
  <2>1. Cardinality(I) = Cardinality(B) - Cardinality(C) /\ Cardinality(J) = Cardinality(A) - Cardinality(C)
    BY <1>9, <1>11
  <2> QED
    BY <1>12, <2>1
<1>14. ASSUME \A p \in Path : to[p] \in {from[p], Missing} PROVE Cardinality(B) = Cardinality(A) - Len(cs)
  <2>1. \A i \in DOMAIN cs : cs[i].new = Missing
    BY <1>2, <1>14
  <2>2. J = DOMAIN cs
    BY <2>1
  <2>3. B \ A = {}
    BY <1>14 DEF A, B, Leaves
  <2>4. Cardinality({}) = 0
    BY FS_EmptySet
  <2>5. Cardinality(I) = 0 /\ Cardinality(J) = Len(cs)
    BY <1>8, <1>9, <2>2, <2>3, <2>4
  <2> HIDE DEF I, J
  <2> QED
    BY <1>12, <1>13, <2>5
<1> QED
  BY <1>0, <1>12, <1>13, <1>14 DEF A, B

-----------------------------------------------------------------------------
(* The inductive invariant, by what it is about. *)
TreeKept ==
    /\ tree \in Tree /\ Shaped(tree) /\ IsFiniteSet(Leaves(tree))
    /\ leafCount = Cardinality(Leaves(tree)) /\ leafCount \in 0 .. MaxLeaves

(* A write that was taken: what it left, the changes cs it made and the    *)
(* batch they go to.                                                       *)
Commits(cs, depth) ==
    /\ tree' \in Tree /\ Shaped(tree') /\ IsFiniteSet(Leaves(tree'))
    /\ leafCount' = Cardinality(Leaves(tree')) /\ leafCount' \in 0 .. MaxLeaves
    /\ Diff(cs, tree, tree')
    /\ Enqueue(cs, depth) /\ depth \in 1 .. MaxDepth

LEMMA SetCommits ==
  ASSUME TreeKept, NEW p \in Path, NEW new \in Payload(p), NEW depth \in Nat \ {0}, Set(p, new, depth)
  PROVE  \/ UNCHANGED <<content, queue, pending, lossy>>
         \/ \E cs : Commits(cs, depth)
<1> DEFINE after == Replaced(p, new)
           cs == Changes(tree, after)
           total == (leafCount + Count(cs, TRUE)) - Count(cs, FALSE)
<1>1. CASE depth > MaxDepth \/ total > MaxLeaves
  BY <1>1 DEF Set
<1>2. CASE ~(depth > MaxDepth \/ total > MaxLeaves)
  <2>1. tree' = after /\ leafCount' = total /\ Enqueue(cs, depth)
    BY <1>2 DEF Set
  <2>2. after \in Tree /\ Shaped(after) /\ IsFiniteSet(Leaves(after))
    BY ReplacedShape DEF TreeKept
  <2> HIDE DEF after
  <2>3. Diff(cs, tree, after)
    BY <2>2, ChangesDiff DEF TreeKept
  <2> HIDE DEF cs
  <2>4. total = Cardinality(Leaves(after))
    BY <2>2, <2>3, DiffCount DEF TreeKept
  <2>5. total \in Nat
    BY <2>2, <2>4, FS_CardinalityType
  <2> HIDE DEF total
  <2>6. depth \in 1 .. MaxDepth /\ total \in 0 .. MaxLeaves
    BY <1>2, <2>5, StoreAssumption
  <2>7. Commits(cs, depth)
    BY <2>1, <2>2, <2>3, <2>4, <2>6 DEF Commits
  <2> QED
    BY <2>7
<1> QED
  BY <1>1, <1>2

(* Taking leaves away. *)
LEMMA RemovalCommits ==
  ASSUME TreeKept, NEW after \in Tree, \A q \in Path : after[q] \in {tree[q], Missing},
         tree' = after, leafCount' = Cardinality(Leaves(after)), Enqueue(Changes(tree, after), 1)
  PROVE  \E cs : Commits(cs, 1)
<1> DEFINE cs == Changes(tree, after)
<1>1. Leaves(after) \subseteq Leaves(tree)
  BY DEF Leaves
<1>2. /\ IsFiniteSet(Leaves(after)) /\ Cardinality(Leaves(after)) <= Cardinality(Leaves(tree))
      /\ Cardinality(Leaves(after)) \in Nat
  BY <1>1, FS_Subset, FS_CardinalityType DEF TreeKept
<1>3. Shaped(after)
  BY <1>1 DEF Shaped, TreeKept
<1>4. Diff(cs, tree, after)
  BY <1>2, ChangesDiff DEF TreeKept
<1> HIDE DEF cs
<1>5. leafCount' \in 0 .. MaxLeaves
  BY <1>2, StoreAssumption DEF TreeKept
<1>6. 1 \in 1 .. MaxDepth
  BY StoreAssumption
<1>7. Commits(cs, 1)
  BY <1>2, <1>3, <1>4, <1>5, <1>6 DEF Commits, cs
<1> QED
  BY <1>7

LEMMA DeleteCommits ==
  ASSUME TreeKept, NEW p \in Path, Delete(p, 1)
  PROVE  \E cs : Commits(cs, 1)
<1> DEFINE after == [q \in Path |-> IF IsPrefix(p, q) THEN Missing ELSE tree[q]]
           cs == Changes(tree, after)
<1>1. after \in Tree /\ \A q \in Path : after[q] \in {tree[q], Missing}
  BY DEF TreeKept, Tree
<1>2. tree' = after /\ leafCount' = leafCount - Len(cs) /\ Enqueue(cs, 1)
  BY DEF Delete
<1> HIDE DEF after
<1>3. IsFiniteSet(Leaves(after))
  <2>1. Leaves(after) \subseteq Leaves(tree)
    BY <1>1 DEF Leaves
  <2> QED
    BY <2>1, FS_Subset DEF TreeKept
<1>4. Diff(cs, tree, after)
  BY <1>1, <1>3, ChangesDiff DEF TreeKept
<1>5. Cardinality(Leaves(after)) = Cardinality(Leaves(tree)) - Len(cs)
  <2> HIDE DEF cs
  <2> QED
    BY <1>1, <1>3, <1>4, DiffCount DEF TreeKept
<1>6. leafCount' = Cardinality(Leaves(after))
  BY <1>2, <1>5 DEF TreeKept
<1> QED
  BY <1>1, <1>2, <1>6, RemovalCommits

LEMMA ClearCommits ==
  ASSUME TreeKept, Clear(1)
  PROVE  \E cs : Commits(cs, 1)
<1>1. Nothing \in Tree /\ \A q \in Path : Nothing[q] \in {tree[q], Missing}
  BY DEF Nothing, Tree
<1>2. Leaves(Nothing) = {}
  BY DEF Nothing, Leaves
<1>3. Cardinality(Leaves(Nothing)) = 0
  BY <1>2, FS_EmptySet
<1> QED
  BY <1>1, <1>3, RemovalCommits DEF Clear

(* The write of a callback. *)
LEMMA ScalarPayload ==
  ASSUME NEW p \in Path, NEW v \in Value
  PROVE  [Nothing EXCEPT ![p] = v] \in Payload(p)
<1> DEFINE new == [Nothing EXCEPT ![p] = v]
<1>1. new \in [Path -> Value \cup {Missing}] /\ \A q \in Path : new[q] = IF q = p THEN v ELSE Missing
  BY DEF Nothing
<1> HIDE DEF new
<1>2. Leaves(new) = {p}
  BY <1>1, StoreAssumption DEF Leaves
<1>3. IsPrefix(p, p)
  BY PrefixOrder
<1>4. IsFiniteSet({p})
  BY FS_Singleton
<1>5. new \in Payload(p)
  BY <1>1, <1>2, <1>3, <1>4 DEF Payload, Shaped
<1> QED
  BY <1>5 DEF new

-----------------------------------------------------------------------------
(* Of the batch b, what the registration number n of s will get when the   *)
(* generation is g.                                                        *)
Own(s, n, g, b) == IF b.seq >= n /\ b.generation = g THEN Matching(s, b.changes) ELSE <<>>

(* T tells what the subscriber will have seen after each batch of the      *)
(* queue q, when it has seen m, gets the events r first, and in the end t. *)
Tells(T, m, r, q, t, s, n, g) ==
    /\ T \in [0 .. Len(q) -> Tree]
    /\ Leads(m, r, T[0])
    /\ \A i \in 1 .. Len(q) : Leads(T[i - 1], Own(s, n, g, q[i]), T[i])
    /\ T[Len(q)] = t

(* The callback under way that is still to come. *)
Rest(s) ==
    IF Reaches(current.calls, [sub |-> s, seq |-> subs[s]]) THEN Matching(s, current.changes) ELSE <<>>

(* Nothing of the queue that concerns s is from before a stop.             *)
Fresh(s, q, g) == \A i \in DOMAIN q : q[i].generation = g \/ Matching(s, q[i].changes) = <<>>

Told(s) == \E T : Tells(T, mirror[s], Rest(s), queue, Part(s, tree), s, subs[s], generation)

Story == \A s \in Sub : subs[s] > 0 /\ ~lossy[s] /\ Fresh(s, queue, generation) => Told(s)

LEMMA LeadsStays ==
  ASSUME NEW m \in Tree, NEW k, Leads(m, <<>>, k)
  PROVE  k = m
<1>1. <<>> \in Seq(Change)
  OBVIOUS
<1> QED
  BY <1>1, ReplayEffect DEF Leads

(* A batch at the end. *)
LEMMA TellsMore ==
  ASSUME NEW q \in Seq(Batch), NEW b \in Batch, NEW s \in Sub, NEW n, NEW g, NEW m, NEW r, NEW t, NEW u \in Tree,
         NEW T, Tells(T, m, r, q, t, s, n, g), Leads(t, Own(s, n, g, b), u)
  PROVE  \E V : Tells(V, m, r, Append(q, b), u, s, n, g)
<1> DEFINE k == Len(q)
           p == Append(q, b)
           V == [i \in 0 .. (k + 1) |-> IF i = k + 1 THEN u ELSE T[i]]
<1>1. k \in Nat /\ p \in Seq(Batch) /\ Len(p) = k + 1 /\ p[k + 1] = b /\ \A i \in 1 .. k : p[i] = q[i]
  OBVIOUS
<1>2. /\ T \in [0 .. k -> Tree] /\ Leads(m, r, T[0]) /\ T[k] = t
      /\ \A i \in 1 .. k : Leads(T[i - 1], Own(s, n, g, q[i]), T[i])
  BY DEF Tells
<1> HIDE DEF k, p
<1>3. V \in [0 .. (k + 1) -> Tree] /\ V[k + 1] = u /\ \A i \in 0 .. k : V[i] = T[i]
  BY <1>1, <1>2
<1> HIDE DEF V
<1>4. Leads(m, r, V[0])
  <2>1. 0 \in 0 .. k
    BY <1>1
  <2> QED
    BY <1>2, <1>3, <2>1
<1>5. ASSUME NEW i \in 1 .. (k + 1) PROVE Leads(V[i - 1], Own(s, n, g, p[i]), V[i])
  <2>1. CASE i = k + 1
    <3>1. i - 1 = k /\ k \in 0 .. k
      BY <1>1, <2>1
    <3> QED
      BY <1>1, <1>2, <1>3, <2>1, <3>1
  <2>2. CASE i \in 1 .. k
    <3>1. i - 1 \in 0 .. k /\ i \in 0 .. k
      BY <1>1, <2>2
    <3> QED
      BY <1>1, <1>2, <1>3, <2>2, <3>1
  <2> QED
    BY <1>1, <2>1, <2>2
<1>6. Tells(V, m, r, p, u, s, n, g)
  BY <1>1, <1>3, <1>4, <1>5 DEF Tells
<1> QED
  BY <1>6 DEF p

(* The first batch, with nothing left of the one before. *)
LEMMA TellsLess ==
  ASSUME NEW q \in Seq(Batch), q # <<>>, NEW s \in Sub, NEW n, NEW g, NEW m \in Tree, NEW t,
         NEW T, Tells(T, m, <<>>, q, t, s, n, g)
  PROVE  \E V : Tells(V, m, Own(s, n, g, Head(q)), Tail(q), t, s, n, g)
<1> DEFINE k == Len(q) - 1
           p == Tail(q)
           h == Head(q)
           V == [i \in 0 .. k |-> T[i + 1]]
<1>1. k \in Nat /\ Len(q) = k + 1 /\ p \in Seq(Batch) /\ Len(p) = k /\ h = q[1] /\ \A i \in 1 .. k : p[i] = q[i + 1]
  OBVIOUS
<1> HIDE DEF k, p, h
<1>2. /\ T \in [0 .. (k + 1) -> Tree] /\ Leads(m, <<>>, T[0]) /\ T[k + 1] = t
      /\ \A i \in 1 .. (k + 1) : Leads(T[i - 1], Own(s, n, g, q[i]), T[i])
  BY <1>1 DEF Tells
<1>3. V \in [0 .. k -> Tree] /\ \A i \in 0 .. k : V[i] = T[i + 1]
  <2>1. \A i \in 0 .. k : i + 1 \in 0 .. (k + 1)
    BY <1>1
  <2> QED
    BY <1>2, <2>1
<1> HIDE DEF V
<1>4. Leads(m, Own(s, n, g, h), V[0])
  <2>1. T[0] = m
    BY <1>2, LeadsStays
  <2>2. 1 \in 1 .. (k + 1) /\ 1 - 1 = 0 /\ 0 \in 0 .. k /\ 0 + 1 = 1
    BY <1>1
  <2>3. Leads(T[0], Own(s, n, g, q[1]), T[1])
    BY <1>2, <2>2
  <2>4. V[0] = T[1]
    BY <1>3, <2>2
  <2> QED
    BY <1>1, <2>1, <2>3, <2>4
<1>5. ASSUME NEW i \in 1 .. k PROVE Leads(V[i - 1], Own(s, n, g, p[i]), V[i])
  <2>1. i - 1 \in 0 .. k /\ i \in 0 .. k /\ (i - 1) + 1 = i /\ i + 1 \in 1 .. (k + 1) /\ (i + 1) - 1 = i
    BY <1>1
  <2>2. Leads(T[i], Own(s, n, g, q[i + 1]), T[i + 1])
    BY <1>2, <2>1
  <2>3. V[i - 1] = T[i] /\ V[i] = T[i + 1]
    BY <1>3, <2>1
  <2> QED
    BY <1>1, <2>2, <2>3
<1>6. V[k] = t
  <2>1. k \in 0 .. k
    BY <1>1
  <2> QED
    BY <1>2, <1>3, <2>1
<1>7. Tells(V, m, Own(s, n, g, h), p, t, s, n, g)
  BY <1>1, <1>3, <1>4, <1>5, <1>6 DEF Tells
<1> QED
  BY <1>7 DEF p, h

(* Nothing under way and nothing to come. *)
LEMMA TellsNothing ==
  ASSUME NEW q \in Seq(Batch), NEW s \in Sub, NEW n, NEW g, NEW m \in Tree,
         \A i \in DOMAIN q : Own(s, n, g, q[i]) = <<>>
  PROVE  \E V : Tells(V, m, <<>>, q, m, s, n, g)
<1> DEFINE k == Len(q)
           V == [i \in 0 .. k |-> m]
<1>1. k \in Nat /\ DOMAIN q = 1 .. k
  OBVIOUS
<1> HIDE DEF k
<1>2. V \in [0 .. k -> Tree] /\ \A i \in 0 .. k : V[i] = m
  OBVIOUS
<1> HIDE DEF V
<1>3. Leads(m, <<>>, m)
  BY LeadsNowhere
<1>4. V[0] = m /\ V[k] = m /\ \A i \in 1 .. k : V[i - 1] = m /\ V[i] = m
  <2>1. 0 \in 0 .. k /\ k \in 0 .. k /\ \A i \in 1 .. k : i - 1 \in 0 .. k /\ i \in 0 .. k
    BY <1>1
  <2> QED
    BY <1>2, <2>1
<1>5. Tells(V, m, <<>>, q, m, s, n, g)
  BY <1>1, <1>2, <1>3, <1>4 DEF Tells, k
<1> QED
  BY <1>5

LEMMA TellsSilence ==
  ASSUME NEW q \in Seq(Batch), NEW s \in Sub, NEW n, NEW g, NEW m \in Tree, NEW t,
         \A i \in DOMAIN q : Own(s, n, g, q[i]) = <<>>,
         NEW T, Tells(T, m, <<>>, q, t, s, n, g)
  PROVE  t = m
<1> DEFINE k == Len(q)
           Z == {i \in 0 .. k : T[i] = m}
<1>1. k \in Nat /\ DOMAIN q = 1 .. k
  OBVIOUS
<1>2. /\ T \in [0 .. k -> Tree] /\ Leads(m, <<>>, T[0]) /\ T[k] = t
      /\ \A i \in 1 .. k : Leads(T[i - 1], Own(s, n, g, q[i]), T[i])
  BY DEF Tells
<1> HIDE DEF k
<1>3. 0 \in Z
  <2>1. T[0] = m
    BY <1>2, LeadsStays
  <2> QED
    BY <1>1, <2>1
<1>4. ASSUME NEW i \in 1 .. k, i - 1 \in Z PROVE i \in Z
  <2>1. Leads(T[i - 1], <<>>, T[i]) /\ T[i - 1] = m
    BY <1>1, <1>2, <1>4
  <2>2. T[i] = m
    BY <2>1, LeadsStays
  <2> QED
    BY <1>1, <2>2
<1>5. \A i \in 0 .. k : i \in Z
  <2> HIDE DEF Z
  <2> QED
    BY <1>1, <1>3, <1>4, Upto
<1>6. k \in 0 .. k
  BY <1>1
<1> QED
  BY <1>2, <1>5, <1>6

-----------------------------------------------------------------------------
(* The rest of the inductive invariant. *)
QueueKept ==
    /\ queue \in Seq(Batch) /\ pending = Total(queue)
    /\ \A i \in DOMAIN queue : queue[i].seq <= subSeq /\ queue[i].generation <= generation
    /\ \A i, j \in DOMAIN queue : i < j => queue[i].generation <= queue[j].generation

Registry == subSeq \in 0 .. MaxSubs /\ subs \in [Sub -> 0 .. subSeq] /\ Numbered

AllOf(q, g) == \A i \in DOMAIN q : q[i].generation = g

CallsKept ==
    /\ current \in [calls : Seq(Call), changes : Seq(Change), depth : 0 .. MaxDepth, generation : Nat]
    /\ Ascending(current.calls, subSeq)
    /\ current.calls # <<>> => AllOf(queue, generation)

Others ==
    /\ running \in BOOLEAN /\ generation = switches
    /\ writes \in 0 .. MaxWrites /\ switches \in 0 .. MaxSwitches
    /\ mirror \in [Sub -> Tree] /\ lossy \in [Sub -> BOOLEAN]

IndInv == TreeKept /\ QueueKept /\ Registry /\ CallsKept /\ Others /\ Story

(* What a write puts in the queue. *)
NewBatch(cs, depth) == [changes |-> cs, generation |-> generation, depth |-> depth, seq |-> subSeq]

LEMMA CommitCases ==
  ASSUME QueueKept, Registry, Others, NEW cs, NEW depth, Commits(cs, depth)
  PROVE  /\ cs \in Seq(Change)
         /\ \/ cs = <<>> /\ UNCHANGED <<queue, pending, lossy>>
            \/ lossy' = Lossy(cs) /\ UNCHANGED <<queue, pending>>
            \/ /\ NewBatch(cs, depth) \in Batch
               /\ queue' = Append(queue, NewBatch(cs, depth))
               /\ pending' = pending + Len(cs) /\ UNCHANGED lossy
<1>1. cs \in Seq(Change) /\ Enqueue(cs, depth) /\ depth \in 1 .. MaxDepth
  BY DEF Commits, Diff
<1>2. NewBatch(cs, depth) \in Batch
  BY <1>1, StoreAssumption DEF NewBatch, Batch, Registry, Others
<1> QED
  BY <1>1, <1>2 DEF Enqueue, NewBatch

LEMMA CommitQueue ==
  ASSUME QueueKept, Registry, Others, NEW cs, NEW depth, Commits(cs, depth), UNCHANGED <<subSeq, generation>>
  PROVE  /\ QueueKept' /\ lossy' \in [Sub -> BOOLEAN]
         /\ AllOf(queue, generation) => AllOf(queue', generation)
<1>1. CASE cs = <<>> /\ UNCHANGED <<queue, pending, lossy>>
  BY <1>1 DEF QueueKept, Others, AllOf
<1>2. CASE lossy' = Lossy(cs) /\ UNCHANGED <<queue, pending>>
  <2>1. Lossy(cs) \in [Sub -> BOOLEAN]
    BY DEF Lossy, Others
  <2> QED
    BY <1>2, <2>1 DEF QueueKept, AllOf
<1>3. CASE /\ NewBatch(cs, depth) \in Batch
           /\ queue' = Append(queue, NewBatch(cs, depth))
           /\ pending' = pending + Len(cs) /\ UNCHANGED lossy
  <2> DEFINE b == NewBatch(cs, depth)
             k == Len(queue)
  <2>1. b \in Batch /\ b.seq = subSeq /\ b.generation = generation /\ b.changes = cs
    BY <1>3 DEF NewBatch
  <2>2. queue' = Append(queue, b)
    BY <1>3
  <2> HIDE DEF b
  <2>3. /\ queue' \in Seq(Batch) /\ DOMAIN queue' = 1 .. (k + 1) /\ DOMAIN queue = 1 .. k /\ k \in Nat
        /\ queue'[k + 1] = b /\ \A i \in 1 .. k : queue'[i] = queue[i]
    BY <2>1, <2>2 DEF QueueKept
  <2> HIDE DEF k
  <2>4. pending' = Total(queue')
    BY <1>3, <2>1, <2>2, TotalEffect DEF QueueKept
  <2>5. subSeq \in Nat /\ generation \in Nat
    BY StoreAssumption DEF Registry, Others
  <2>6. ASSUME NEW i \in DOMAIN queue' PROVE queue'[i].seq <= subSeq /\ queue'[i].generation <= generation
    <3>1. CASE i \in 1 .. k
      BY <2>3, <3>1 DEF QueueKept
    <3>2. CASE i = k + 1
      BY <2>1, <2>3, <2>5, <3>2
    <3> QED
      BY <2>3, <3>1, <3>2
  <2>7. ASSUME NEW i \in DOMAIN queue', NEW j \in DOMAIN queue', i < j
        PROVE  queue'[i].generation <= queue'[j].generation
    <3>0. i \in 1 .. k
      BY <2>3, <2>7
    <3>1. CASE j \in 1 .. k
      BY <2>3, <2>7, <3>0, <3>1 DEF QueueKept
    <3>2. CASE j = k + 1
      BY <2>1, <2>3, <2>6, <3>2
    <3> QED
      BY <2>3, <3>1, <3>2
  <2>8. AllOf(queue, generation) => AllOf(queue', generation)
    <3>1. \A i \in DOMAIN queue' : i = k + 1 \/ (i \in DOMAIN queue /\ queue'[i] = queue[i])
      BY <2>3
    <3> QED
      BY <2>1, <2>3, <3>1 DEF AllOf
  <2> QED
    BY <1>3, <2>3, <2>4, <2>6, <2>7, <2>8 DEF QueueKept, Others
<1> QED
  BY <1>1, <1>2, <1>3, CommitCases

LEMMA CommitBefore ==
  ASSUME QueueKept, Registry, Others, NEW cs, NEW depth, Commits(cs, depth),
         NEW s \in Sub, ~lossy'[s], Fresh(s, queue', generation)
  PROVE  ~lossy[s] /\ Fresh(s, queue, generation)
<1>1. CASE cs = <<>> /\ UNCHANGED <<queue, pending, lossy>>
  BY <1>1
<1>2. CASE lossy' = Lossy(cs) /\ UNCHANGED <<queue, pending>>
  BY <1>2 DEF Lossy
<1>3. CASE /\ NewBatch(cs, depth) \in Batch
           /\ queue' = Append(queue, NewBatch(cs, depth))
           /\ pending' = pending + Len(cs) /\ UNCHANGED lossy
  <2> DEFINE b == NewBatch(cs, depth)
  <2>1. b \in Batch /\ queue' = Append(queue, b) /\ ~lossy[s]
    BY <1>3
  <2> HIDE DEF b
  <2>2. \A i \in DOMAIN queue : i \in DOMAIN queue' /\ queue'[i] = queue[i]
    BY <2>1 DEF QueueKept
  <2> QED
    BY <2>1, <2>2 DEF Fresh
<1> QED
  BY <1>1, <1>2, <1>3, CommitCases

LEMMA CommitTells ==
  ASSUME TreeKept, QueueKept, Registry, Others, NEW cs, NEW depth, Commits(cs, depth),
         NEW s \in Sub, subs[s] > 0, ~lossy'[s],
         NEW m, NEW r, NEW T, Tells(T, m, r, queue, Part(s, tree), s, subs[s], generation)
  PROVE  \E V : Tells(V, m, r, queue', Part(s, tree'), s, subs[s], generation)
<1> DEFINE t == Part(s, tree)
           u == Part(s, tree')
           n == subs[s]
<1>0. Diff(cs, tree, tree') /\ tree \in Tree /\ tree' \in Tree /\ Shaped(tree)
  BY DEF Commits, TreeKept
<1>1. u \in Tree /\ Leads(t, Matching(s, cs), u)
  BY <1>0, PartTree, DiffLeads
<1>2. Matching(s, cs) = <<>> => u = t
  BY <1>0, DiffElsewhere
<1> HIDE DEF t, u
<1>3. CASE cs = <<>> /\ UNCHANGED <<queue, pending, lossy>>
  <2>1. u = t
    BY <1>2, <1>3, MatchingNothing
  <2> QED
    BY <1>3, <2>1 DEF t, u
<1>4. CASE lossy' = Lossy(cs) /\ UNCHANGED <<queue, pending>>
  <2>1. u = t
    BY <1>2, <1>4 DEF Lossy
  <2> QED
    BY <1>4, <2>1 DEF t, u
<1>5. CASE /\ NewBatch(cs, depth) \in Batch
           /\ queue' = Append(queue, NewBatch(cs, depth))
           /\ pending' = pending + Len(cs) /\ UNCHANGED lossy
  <2> DEFINE b == NewBatch(cs, depth)
  <2>1. b \in Batch /\ b.seq = subSeq /\ b.generation = generation /\ b.changes = cs
    BY <1>5 DEF NewBatch
  <2>2. queue' = Append(queue, b)
    BY <1>5
  <2> HIDE DEF b
  <2>3. subSeq >= n
    BY StoreAssumption DEF Registry
  <2> HIDE DEF n
  <2>4. Own(s, n, generation, b) = Matching(s, cs)
    BY <2>1, <2>3 DEF Own
  <2>5. queue \in Seq(Batch) /\ Leads(t, Own(s, n, generation, b), u)
    BY <1>1, <2>4 DEF QueueKept
  <2>6. Tells(T, m, r, queue, t, s, n, generation)
    BY DEF t, n
  <2>7. \E V : Tells(V, m, r, Append(queue, b), u, s, n, generation)
    BY <1>1, <2>1, <2>5, <2>6, TellsMore
  <2> QED
    BY <2>2, <2>7 DEF n, u
<1> QED
  BY <1>3, <1>4, <1>5, CommitCases

-----------------------------------------------------------------------------
(* Every step keeps the invariant. *)
LEMMA WriteKeeps ==
  ASSUME IndInv, Write
  PROVE  IndInv'
<1>1. /\ UNCHANGED <<running, generation, subSeq, subs, current, mirror, switches>>
      /\ writes < MaxWrites /\ writes' = writes + 1
  BY DEF Write, registry
<1>2. UNCHANGED <<content, queue, pending, lossy>> \/ \E cs : Commits(cs, 1)
  <2>1. ASSUME NEW p \in Path, NEW new \in Payload(p), Set(p, new, 1)
        PROVE  UNCHANGED <<content, queue, pending, lossy>> \/ \E cs : Commits(cs, 1)
    BY <2>1, SetCommits DEF IndInv
  <2>2. ASSUME NEW p \in Path, Delete(p, 1) PROVE \E cs : Commits(cs, 1)
    BY <2>2, DeleteCommits DEF IndInv
  <2>3. ASSUME Clear(1) PROVE \E cs : Commits(cs, 1)
    BY <2>3, ClearCommits DEF IndInv
  <2> QED
    BY <2>1, <2>2, <2>3 DEF Write
<1>3. writes' \in 0 .. MaxWrites
  BY <1>1, StoreAssumption DEF IndInv, Others
<1>4. CASE UNCHANGED <<content, queue, pending, lossy>>
  <2>1. TreeKept'
    BY <1>4 DEF content, IndInv, TreeKept
  <2>2. QueueKept' /\ Registry' /\ CallsKept'
    BY <1>1, <1>4 DEF IndInv, QueueKept, Registry, Numbered, CallsKept, Ascending
  <2>3. Others'
    BY <1>1, <1>3, <1>4 DEF IndInv, Others
  <2>4. ASSUME NEW s \in Sub PROVE Told(s)' = Told(s)
    BY <1>1, <1>4 DEF content, Told, Rest, Tells
  <2>5. Story'
    BY <1>1, <1>4, <2>4 DEF IndInv, Story
  <2> QED
    BY <2>1, <2>2, <2>3, <2>5 DEF IndInv
<1>5. ASSUME NEW cs, Commits(cs, 1) PROVE IndInv'
  <2>1. TreeKept'
    BY <1>5 DEF Commits, TreeKept
  <2>2. /\ QueueKept' /\ lossy' \in [Sub -> BOOLEAN]
        /\ AllOf(queue, generation) => AllOf(queue', generation)
    BY <1>1, <1>5, CommitQueue DEF IndInv
  <2>3. Registry'
    BY <1>1 DEF IndInv, Registry, Numbered
  <2>4. CallsKept'
    BY <1>1, <2>2 DEF IndInv, CallsKept, Ascending
  <2>5. Others'
    BY <1>1, <1>3, <2>2 DEF IndInv, Others
  <2>6. ASSUME NEW s \in Sub, subs'[s] > 0, ~lossy'[s], Fresh(s, queue', generation')
        PROVE  Told(s)'
    <3>1. ~lossy[s] /\ Fresh(s, queue, generation)
      BY <1>1, <1>5, <2>6, CommitBefore DEF IndInv
    <3>2. PICK T : Tells(T, mirror[s], Rest(s), queue, Part(s, tree), s, subs[s], generation)
      BY <1>1, <2>6, <3>1 DEF IndInv, Story, Told
    <3>3. \E V : Tells(V, mirror[s], Rest(s), queue', Part(s, tree'), s, subs[s], generation)
      BY <1>1, <1>5, <2>6, <3>2, CommitTells DEF IndInv
    <3>4. Rest(s)' = Rest(s)
      BY <1>1 DEF Rest
    <3> QED
      BY <1>1, <3>3, <3>4 DEF Told
  <2>7. Story'
    BY <2>6 DEF Story
  <2> QED
    BY <2>1, <2>2, <2>3, <2>4, <2>5, <2>7 DEF IndInv
<1> QED
  BY <1>2, <1>4, <1>5

(* The head of the calls is the only one for its registration. *)
LEMMA CallOnce ==
  ASSUME NEW calls, NEW k \in Nat, Ascending(calls, k), calls # <<>>
  PROVE  /\ Ascending(Tail(calls), k) /\ Head(calls) \in Call /\ Reaches(calls, Head(calls))
         /\ ~Reaches(Tail(calls), Head(calls))
         /\ \A c : c # Head(calls) => (Reaches(Tail(calls), c) <=> Reaches(calls, c))
<1> DEFINE n == Len(calls) - 1
           t == Tail(calls)
           h == Head(calls)
<1>1. /\ calls \in Seq(Call) /\ n \in Nat /\ DOMAIN calls = 1 .. (n + 1) /\ h = calls[1]
      /\ t \in Seq(Call) /\ DOMAIN t = 1 .. n /\ \A i \in 1 .. n : t[i] = calls[i + 1]
  BY DEF Ascending
<1> HIDE DEF t, h, n
<1>2. /\ \A i \in DOMAIN calls : calls[i].seq \in 1 .. k
      /\ \A i, j \in DOMAIN calls : i < j => calls[i].seq < calls[j].seq
  BY DEF Ascending
<1>3. 1 \in DOMAIN calls /\ h \in Call
  BY <1>1
<1>4. Reaches(calls, h)
  BY <1>1, <1>3 DEF Reaches
<1>5. \A i \in 1 .. n : i + 1 \in DOMAIN calls /\ 1 < i + 1
  BY <1>1
<1>6. Ascending(t, k)
  <2>1. \A i \in DOMAIN t : t[i].seq \in 1 .. k
    BY <1>1, <1>2, <1>5
  <2>2. ASSUME NEW i \in DOMAIN t, NEW j \in DOMAIN t, i < j PROVE t[i].seq < t[j].seq
    <3>1. i + 1 \in DOMAIN calls /\ j + 1 \in DOMAIN calls /\ i + 1 < j + 1
      BY <1>1, <2>2
    <3> QED
      BY <1>1, <1>2, <3>1
  <2> QED
    BY <1>1, <2>1, <2>2 DEF Ascending
<1>7. ~Reaches(t, h)
  <2>1. ASSUME NEW i \in DOMAIN t PROVE t[i].seq > h.seq
    <3>1. calls[1].seq < calls[i + 1].seq
      BY <1>1, <1>2, <1>3, <1>5
    <3>2. calls[1].seq \in Nat /\ calls[i + 1].seq \in Nat
      BY <1>1, <1>2, <1>3, <1>5
    <3> QED
      BY <1>1, <3>1, <3>2
  <2>2. h.seq \in Nat
    BY <1>3 DEF Call
  <2> QED
    BY <2>1, <2>2 DEF Reaches
<1>8. ASSUME NEW c, c # h PROVE Reaches(t, c) <=> Reaches(calls, c)
  <2>1. ASSUME Reaches(t, c) PROVE Reaches(calls, c)
    BY <1>1, <1>5, <2>1 DEF Reaches
  <2>2. ASSUME Reaches(calls, c) PROVE Reaches(t, c)
    <3>1. PICK i \in DOMAIN calls : calls[i] = c
      BY <2>2 DEF Reaches
    <3>2. i - 1 \in DOMAIN t /\ t[i - 1] = calls[i]
      <4>1. i # 1
        BY <1>1, <1>8, <3>1
      <4>2. i - 1 \in 1 .. n /\ (i - 1) + 1 = i
        BY <1>1, <3>1, <4>1
      <4> QED
        BY <1>1, <4>2
    <3> QED
      BY <3>1, <3>2 DEF Reaches
  <2> QED
    BY <2>1, <2>2
<1> QED
  BY <1>3, <1>4, <1>6, <1>7, <1>8 DEF t, h

(* The callback that is called has seen what was there before each of its  *)
(* events, and sees the events as they are told.                           *)
LEMMA DeliverTold ==
  ASSUME IndInv, current.calls # <<>>, NEW s \in Sub, subs[s] > 0, ~lossy[s]
  PROVE  \E T : Tells(T, mirror[s], Rest(s), queue, Part(s, tree), s, subs[s], generation)
<1>1. AllOf(queue, generation)
  BY DEF IndInv, CallsKept
<1>2. Fresh(s, queue, generation)
  BY <1>1 DEF AllOf, Fresh
<1> QED
  BY <1>2 DEF IndInv, Story, Told

LEMMA DeliverKeeps ==
  ASSUME IndInv, Deliver
  PROVE  IndInv'
<1> DEFINE call == Head(current.calls)
           events == Matching(call.sub, current.changes)
           depth == EchoDepth
<1>1. /\ UNCHANGED <<running, generation, subSeq, subs, writes, switches>>
      /\ current.calls # <<>>
      /\ current' = [current EXCEPT !.calls = Tail(@)]
      /\ mirror' = IF subs[call.sub] = call.seq
                     THEN [mirror EXCEPT ![call.sub] = Replay(@, events)] ELSE mirror
  BY DEF Deliver, registry, bounds
<1>2. /\ current.calls \in Seq(Call) /\ current.changes \in Seq(Change) /\ current.depth \in 0 .. MaxDepth
      /\ current.generation \in Nat /\ Ascending(current.calls, subSeq) /\ subSeq \in Nat
      /\ AllOf(queue, generation)
  BY <1>1 DEF IndInv, CallsKept, Registry
<1>3. /\ Ascending(Tail(current.calls), subSeq) /\ call \in Call
      /\ ~Reaches(Tail(current.calls), call) /\ Reaches(current.calls, call)
      /\ \A c : c # call => (Reaches(Tail(current.calls), c) <=> Reaches(current.calls, c))
  BY <1>1, <1>2, CallOnce
<1>4. /\ current'.calls = Tail(current.calls) /\ current'.changes = current.changes
      /\ current' \in [calls : Seq(Call), changes : Seq(Change), depth : 0 .. MaxDepth, generation : Nat]
  <2>1. Tail(current.calls) \in Seq(Call)
    BY <1>3 DEF Ascending
  <2>2. current \in [calls : Seq(Call), changes : Seq(Change), depth : 0 .. MaxDepth, generation : Nat]
    BY DEF IndInv, CallsKept
  <2> QED
    BY <1>1, <2>1, <2>2
<1>5. UNCHANGED <<content, queue, pending, lossy>> \/ \E cs : Commits(cs, depth)
  <2>1. depth \in Nat \ {0}
    BY <1>2, StoreAssumption DEF EchoDepth
  <2> HIDE DEF depth
  <2>2. ASSUME NEW p \in EchoOf[call.sub], NEW v \in Value, Set(p, [Nothing EXCEPT ![p] = v], depth)
        PROVE  UNCHANGED <<content, queue, pending, lossy>> \/ \E cs : Commits(cs, depth)
    <3>1. call.sub \in Sub
      BY <1>3 DEF Call
    <3>2. p \in Path
      BY <3>1, StoreAssumption
    <3>3. [Nothing EXCEPT ![p] = v] \in Payload(p)
      BY <3>2, ScalarPayload
    <3> QED
      BY <2>1, <2>2, <3>2, <3>3, SetCommits DEF IndInv
  <2> QED
    BY <2>2 DEF Deliver, depth
<1> HIDE DEF call, events, depth
<1>6. call.sub \in Sub /\ call.seq \in Nat /\ call = [sub |-> call.sub, seq |-> call.seq]
  BY <1>3 DEF Call
<1>7. mirror \in [Sub -> Tree] /\ mirror' \in [Sub -> Tree]
      /\ \A s \in Sub : mirror'[s] = IF s = call.sub /\ subs[s] = call.seq THEN Replay(mirror[s], events)
                                     ELSE mirror[s]
  <2>1. mirror \in [Sub -> Tree]
    BY DEF IndInv, Others
  <2>2. Replay(mirror[call.sub], events) \in Tree
    <3>1. events \in Seq(Change)
      BY <1>2, <1>6, MatchingType DEF events
    <3>2. mirror[call.sub] \in Tree
      BY <1>6, <2>1
    <3> QED
      BY <3>1, <3>2, ReplayEffect
  <2> QED
    BY <1>1, <1>6, <2>1, <2>2
<1>8. ASSUME NEW s \in Sub, subs[s] > 0, ~lossy[s]
      PROVE  \E T : Tells(T, mirror'[s], Rest(s)', queue, Part(s, tree), s, subs[s], generation)
  <2> DEFINE c == [sub |-> s, seq |-> subs[s]]
             rest == Rest(s)
  <2>1. PICK T : Tells(T, mirror[s], rest, queue, Part(s, tree), s, subs[s], generation)
    BY <1>1, <1>8, DeliverTold
  <2>2. Rest(s)' = IF Reaches(Tail(current.calls), c) THEN Matching(s, current.changes) ELSE <<>>
    BY <1>1, <1>4 DEF Rest
  <2>3. CASE c # call
    <3>1. Rest(s)' = rest
      BY <1>3, <2>2, <2>3 DEF Rest
    <3>2. mirror'[s] = mirror[s]
      BY <1>6, <1>7, <2>3
    <3> QED
      BY <2>1, <3>1, <3>2
  <2>4. CASE c = call
    <3>1. s = call.sub /\ subs[s] = call.seq
      BY <1>6, <2>4
    <3>2. Rest(s)' = <<>>
      BY <1>3, <2>2, <2>4
    <3>3. rest = events
      BY <1>3, <2>4, <3>1 DEF Rest, events
    <3>4. mirror'[s] = Replay(mirror[s], rest)
      BY <1>7, <3>1, <3>3
    <3> HIDE DEF rest, c
    <3>5. T[0] = mirror'[s] /\ mirror'[s] \in Tree
      BY <1>7, <2>1, <3>4 DEF Tells, Leads
    <3>6. Leads(mirror'[s], <<>>, T[0])
      BY <3>5, LeadsNowhere
    <3>7. Tells(T, mirror'[s], Rest(s)', queue, Part(s, tree), s, subs[s], generation)
      BY <2>1, <3>2, <3>6 DEF Tells
    <3> QED
      BY <3>7
  <2> QED
    BY <2>3, <2>4
<1>9. writes' \in 0 .. MaxWrites /\ Registry'
  BY <1>1 DEF IndInv, Others, Registry, Numbered
<1>10. CASE UNCHANGED <<content, queue, pending, lossy>>
  <2>1. TreeKept'
    BY <1>10 DEF content, IndInv, TreeKept
  <2>2. QueueKept'
    BY <1>1, <1>10 DEF IndInv, QueueKept
  <2>3. CallsKept'
    BY <1>1, <1>2, <1>3, <1>4, <1>10 DEF CallsKept
  <2>4. Others'
    BY <1>1, <1>7, <1>10 DEF IndInv, Others
  <2>5. ASSUME NEW s \in Sub, subs'[s] > 0, ~lossy'[s] PROVE Told(s)'
    <3>1. \E T : Tells(T, mirror'[s], Rest(s)', queue, Part(s, tree), s, subs[s], generation)
      BY <1>1, <1>8, <1>10, <2>5
    <3> QED
      BY <1>1, <1>10, <3>1 DEF Told, content
  <2>6. Story'
    BY <2>5 DEF Story
  <2> QED
    BY <1>9, <2>1, <2>2, <2>3, <2>4, <2>6 DEF IndInv
<1>11. ASSUME NEW cs, Commits(cs, depth) PROVE IndInv'
  <2>1. TreeKept'
    BY <1>11 DEF Commits, TreeKept
  <2>2. /\ QueueKept' /\ lossy' \in [Sub -> BOOLEAN] /\ AllOf(queue', generation)
    BY <1>1, <1>2, <1>11, CommitQueue DEF IndInv
  <2>3. CallsKept'
    BY <1>1, <1>3, <1>4, <2>2 DEF CallsKept
  <2>4. Others'
    BY <1>1, <1>7, <2>2 DEF IndInv, Others
  <2>5. ASSUME NEW s \in Sub, subs'[s] > 0, ~lossy'[s], Fresh(s, queue', generation')
        PROVE  Told(s)'
    <3>1. ~lossy[s] /\ subs[s] > 0
      BY <1>1, <1>11, <2>5, CommitBefore DEF IndInv
    <3> DEFINE m == mirror'[s]
               r == Rest(s)'
    <3>2. PICK T : Tells(T, m, r, queue, Part(s, tree), s, subs[s], generation)
      BY <1>8, <3>1
    <3> HIDE DEF m, r
    <3>3. \E V : Tells(V, m, r, queue', Part(s, tree'), s, subs[s], generation)
      BY <1>1, <1>11, <2>5, <3>1, <3>2, CommitTells DEF IndInv
    <3> QED
      BY <1>1, <3>3 DEF Told, m, r
  <2>6. Story'
    BY <2>5 DEF Story
  <2> QED
    BY <1>9, <2>1, <2>2, <2>3, <2>4, <2>6 DEF IndInv
<1> QED
  BY <1>5, <1>10, <1>11

LEMMA DispatchKeeps ==
  ASSUME IndInv, Dispatch
  PROVE  IndInv'
<1> DEFINE b == Head(queue)
           q == Tail(queue)
           k == Len(queue) - 1
<1>1. /\ UNCHANGED <<tree, leafCount, running, generation, subSeq, subs, mirror, writes, switches>>
      /\ queue # <<>> /\ current.calls = <<>>
      /\ queue' = q /\ pending' = pending - Len(b.changes)
      /\ b.generation # generation => lossy' = Lossy(b.changes) /\ UNCHANGED current
      /\ b.generation = generation =>
           /\ current' = [calls |-> Callbacks(b), changes |-> b.changes,
                          depth |-> b.depth, generation |-> b.generation]
           /\ UNCHANGED lossy
  BY DEF Dispatch, content, registry, bounds
<1>2. /\ queue \in Seq(Batch) /\ k \in Nat /\ DOMAIN queue = 1 .. (k + 1) /\ b = queue[1] /\ b \in Batch
      /\ q \in Seq(Batch) /\ DOMAIN q = 1 .. k /\ \A i \in 1 .. k : q[i] = queue[i + 1]
  BY <1>1 DEF IndInv, QueueKept
<1>3. \A i \in DOMAIN q : i + 1 \in DOMAIN queue /\ q[i] = queue[i + 1]
  BY <1>2
<1>4. subSeq \in Nat /\ generation \in Nat /\ b.seq \in Nat /\ b.seq <= subSeq /\ b.generation <= generation
      /\ b.generation \in Nat /\ b.changes \in Seq(Change) /\ b.depth \in 1 .. MaxDepth
  <2>1. subSeq \in Nat /\ generation \in Nat
    BY StoreAssumption DEF IndInv, Registry, Others
  <2>2. b.seq <= subSeq /\ b.generation <= generation
    <3>1. 1 \in DOMAIN queue
      BY <1>2
    <3> HIDE DEF b
    <3> QED
      BY <1>2, <3>1 DEF IndInv, QueueKept
  <2> HIDE DEF b
  <2> QED
    BY <1>2, <2>1, <2>2 DEF Batch
<1>5. QueueKept'
  <2>1. pending' = Total(q)
    <3>1. Total(queue) = Len(b.changes) + Total(q)
      BY <1>1, <1>2, TotalEffect
    <3>2. Total(q) \in Nat /\ pending = Total(queue)
      BY <1>2, TotalEffect DEF IndInv, QueueKept
    <3>3. Len(b.changes) \in Nat
      BY <1>4
    <3> HIDE DEF b, q
    <3> QED
      BY <1>1, <3>1, <3>2, <3>3
  <2>2. \A i \in DOMAIN q : q[i].seq <= subSeq /\ q[i].generation <= generation
    BY <1>3 DEF IndInv, QueueKept
  <2>3. ASSUME NEW i \in DOMAIN q, NEW j \in DOMAIN q, i < j PROVE q[i].generation <= q[j].generation
    <3>1. i + 1 < j + 1
      BY <1>2, <2>3
    <3> QED
      BY <1>3, <3>1 DEF IndInv, QueueKept
  <2> HIDE DEF q
  <2> QED
    BY <1>1, <1>2, <2>1, <2>2, <2>3 DEF QueueKept
<1>6. TreeKept' /\ Registry'
  BY <1>1 DEF IndInv, TreeKept, Registry, Numbered
<1>7. Others'
  <2>1. Lossy(b.changes) \in [Sub -> BOOLEAN]
    BY DEF Lossy, IndInv, Others
  <2> QED
    BY <1>1, <2>1 DEF IndInv, Others
<1>8. Numbered /\ subs \in [Sub -> Nat]
  BY <1>4 DEF IndInv, Registry
<1>9. /\ Ascending(Callbacks(b), b.seq)
      /\ \A s \in Sub : subs[s] \in 1 .. b.seq => Reaches(Callbacks(b), [sub |-> s, seq |-> subs[s]])
  <2> DEFINE n == b.seq
  <2>1. n \in Nat /\ b.seq = n
    BY <1>4
  <2> HIDE DEF b
  <2> QED
    BY <1>8, <2>1, CallbacksEffect
<1>10. CallsKept'
  <2>1. CASE b.generation # generation
    BY <1>1, <2>1 DEF IndInv, CallsKept, Ascending
  <2>2. CASE b.generation = generation
    <3>1. AllOf(q, generation)
      <4>1. ASSUME NEW i \in DOMAIN q PROVE q[i].generation = generation
        <5>1. i + 1 \in DOMAIN queue /\ 1 \in DOMAIN queue /\ 1 < i + 1
          BY <1>2
        <5>2. b.generation <= q[i].generation /\ q[i].generation <= generation
          BY <1>2, <1>3, <5>1 DEF IndInv, QueueKept
        <5>3. q[i].generation \in Nat
          <6>1. q[i] \in Batch
            BY <1>2
          <6> HIDE DEF q
          <6> QED
            BY <6>1 DEF Batch
        <5> QED
          BY <1>4, <2>2, <5>2, <5>3
      <4> QED
        BY <4>1 DEF AllOf
    <3>2. Callbacks(b) \in Seq(Call) /\ Ascending(Callbacks(b), subSeq)
      BY <1>4, <1>9 DEF Ascending
    <3>3. b.depth \in 0 .. MaxDepth
      BY <1>4
    <3> HIDE DEF b, q
    <3>4. current' \in [calls : Seq(Call), changes : Seq(Change), depth : 0 .. MaxDepth, generation : Nat]
      BY <1>1, <1>4, <2>2, <3>2, <3>3
    <3>5. current'.calls = Callbacks(b)
      BY <1>1, <2>2
    <3> QED
      BY <1>1, <3>1, <3>2, <3>4, <3>5 DEF CallsKept
  <2> QED
    BY <2>1, <2>2
<1> HIDE DEF q, b
<1>11. ASSUME NEW s \in Sub, subs'[s] > 0, ~lossy'[s], Fresh(s, queue', generation')
       PROVE  Told(s)'
  <2> DEFINE n == subs[s]
             m == mirror[s]
             t == Part(s, tree)
             r == Rest(s)'
  <2>0. m \in Tree /\ n \in Nat /\ n > 0
    BY <1>1, <1>8, <1>11 DEF IndInv, Others
  <2>1. /\ ~lossy[s]
        /\ b.generation = generation \/ Matching(s, b.changes) = <<>>
    BY <1>1, <1>11 DEF Lossy
  <2>2. Fresh(s, queue, generation)
    <3>1. ASSUME NEW i \in DOMAIN queue
          PROVE  queue[i].generation = generation \/ Matching(s, queue[i].changes) = <<>>
      <4>1. CASE i = 1
        BY <1>2, <2>1, <4>1
      <4>2. CASE i # 1
        <5>1. i - 1 \in DOMAIN q /\ (i - 1) + 1 = i
          BY <1>2, <4>2
        <5>2. q[i - 1] = queue[i]
          BY <1>3, <5>1
        <5> QED
          BY <1>1, <1>11, <5>1, <5>2 DEF Fresh
      <4> QED
        BY <4>1, <4>2
    <3> QED
      BY <3>1 DEF Fresh
  <2>3. Rest(s) = <<>>
    <3>1. DOMAIN current.calls = {}
      BY <1>1
    <3> QED
      BY <3>1 DEF Rest, Reaches
  <2>4. PICK T : Tells(T, m, <<>>, queue, t, s, n, generation)
    BY <1>1, <1>11, <2>1, <2>2, <2>3 DEF IndInv, Story, Told
  <2>5. r = Own(s, n, generation, b)
    <3>1. CASE b.generation # generation
      BY <1>1, <2>3, <3>1 DEF Rest, Own
    <3>2. CASE b.generation = generation
      <4>1. current'.calls = Callbacks(b) /\ current'.changes = b.changes
        BY <1>1, <3>2
      <4>2. r = IF Reaches(Callbacks(b), [sub |-> s, seq |-> n]) THEN Matching(s, b.changes) ELSE <<>>
        BY <1>1, <4>1 DEF Rest
      <4>3. b.seq >= n <=> Reaches(Callbacks(b), [sub |-> s, seq |-> n])
        <5>1. ASSUME b.seq >= n PROVE Reaches(Callbacks(b), [sub |-> s, seq |-> n])
          <6>1. subs[s] \in 1 .. b.seq
            BY <1>4, <2>0, <5>1
          <6> QED
            BY <1>9, <6>1
        <5>2. ASSUME Reaches(Callbacks(b), [sub |-> s, seq |-> n]) PROVE b.seq >= n
          <6>1. PICK i \in DOMAIN Callbacks(b) : Callbacks(b)[i] = [sub |-> s, seq |-> n]
            BY <5>2 DEF Reaches
          <6>2. Callbacks(b)[i].seq \in 1 .. b.seq
            BY <1>9 DEF Ascending
          <6> HIDE DEF n
          <6>3. n \in 1 .. b.seq
            BY <6>1, <6>2
          <6> QED
            BY <1>4, <2>0, <6>3
        <5> QED
          BY <5>1, <5>2
      <4> QED
        BY <3>2, <4>2, <4>3 DEF Own
    <3> QED
      BY <3>1, <3>2
  <2> HIDE DEF n, m, t, r
  <2>6. \E V : Tells(V, m, Own(s, n, generation, b), q, t, s, n, generation)
    BY <1>1, <1>2, <2>0, <2>4, TellsLess DEF q, b
  <2> QED
    BY <1>1, <2>5, <2>6 DEF Told, n, m, t, r
<1>12. Story'
  BY <1>11 DEF Story
<1> QED
  BY <1>5, <1>6, <1>7, <1>10, <1>12 DEF IndInv

LEMMA SubscribeKeeps ==
  ASSUME IndInv, NEW u \in Sub, Subscribe(u)
  PROVE  IndInv'
<1> DEFINE k == subSeq + 1
<1>1. /\ UNCHANGED <<tree, leafCount, running, generation, queue, pending, current, writes, switches>>
      /\ subs[u] = 0 /\ subSeq < MaxSubs /\ subSeq' = k
      /\ subs' = [subs EXCEPT ![u] = k]
      /\ mirror' = [mirror EXCEPT ![u] = Part(u, tree)]
      /\ lossy' = [lossy EXCEPT ![u] = FALSE]
  BY DEF Subscribe, content, bounds
<1>2. /\ subSeq \in Nat /\ subs \in [Sub -> 0 .. subSeq] /\ Numbered
      /\ mirror \in [Sub -> Tree] /\ lossy \in [Sub -> BOOLEAN] /\ tree \in Tree
  BY StoreAssumption DEF IndInv, Registry, Others, TreeKept
<1>3. TreeKept'
  BY <1>1 DEF IndInv, TreeKept
<1>4. QueueKept'
  <2>1. \A i \in DOMAIN queue : queue[i].seq <= subSeq'
    <3>1. ASSUME NEW i \in DOMAIN queue PROVE queue[i].seq <= k
      <4>1. queue[i] \in Batch /\ queue[i].seq <= subSeq
        BY DEF IndInv, QueueKept
      <4>2. queue[i].seq \in Nat
        BY <4>1 DEF Batch
      <4> QED
        BY <1>2, <4>1, <4>2
    <3> QED
      BY <1>1, <3>1
  <2> QED
    BY <1>1, <2>1 DEF IndInv, QueueKept
<1>5. Registry'
  <2>1. k \in 0 .. MaxSubs
    BY <1>1, <1>2, StoreAssumption
  <2>2. subs' \in [Sub -> 0 .. k]
    BY <1>1, <1>2
  <2>3. ASSUME NEW s \in Sub, NEW t \in Sub, subs'[s] > 0, subs'[s] = subs'[t] PROVE s = t
    <3>1. \A x \in Sub : subs[x] \in 0 .. subSeq /\ subs'[x] = IF x = u THEN k ELSE subs[x]
      BY <1>1, <1>2
    <3>2. subs[s] # k /\ subs[t] # k
      BY <1>2, <3>1
    <3> QED
      BY <1>2, <2>3, <3>1, <3>2 DEF Numbered
  <2> QED
    BY <1>1, <2>1, <2>2, <2>3 DEF Registry, Numbered
<1>6. CallsKept'
  <2>1. \A n \in 1 .. subSeq : n \in 1 .. k
    BY <1>2
  <2>2. Ascending(current.calls, k)
    BY <2>1 DEF IndInv, CallsKept, Ascending
  <2> QED
    BY <1>1, <2>2 DEF IndInv, CallsKept
<1>7. Others'
  <2>1. Part(u, tree) \in Tree
    BY <1>2, PartTree
  <2> QED
    BY <1>1, <1>2, <2>1 DEF IndInv, Others
<1>8. ASSUME NEW s \in Sub, subs'[s] > 0, ~lossy'[s], Fresh(s, queue', generation')
      PROVE  Told(s)'
  <2>1. CASE s # u
    <3>1. subs'[s] = subs[s] /\ lossy'[s] = lossy[s] /\ mirror'[s] = mirror[s]
      BY <1>1, <1>2, <2>1
    <3>2. Rest(s)' = Rest(s)
      BY <1>1, <3>1 DEF Rest
    <3>3. Told(s)
      BY <1>1, <1>8, <3>1 DEF IndInv, Story
    <3> QED
      BY <1>1, <3>1, <3>2, <3>3 DEF Told
  <2>2. CASE s = u
    <3> DEFINE m == Part(s, tree)
    <3>1. subs'[s] = k /\ mirror'[s] = m /\ m \in Tree
      BY <1>1, <1>2, <2>2, PartTree
    <3>2. Rest(s)' = <<>>
      <4>1. ASSUME NEW i \in DOMAIN current.calls PROVE current.calls[i] # [sub |-> s, seq |-> k]
        <5>1. current.calls[i].seq \in 1 .. subSeq
          BY DEF IndInv, CallsKept, Ascending
        <5> QED
          BY <1>2, <5>1
      <4> QED
        BY <1>1, <3>1, <4>1 DEF Rest, Reaches
    <3>3. ASSUME NEW i \in DOMAIN queue PROVE Own(s, k, generation, queue[i]) = <<>>
      <4>1. queue[i] \in Batch /\ queue[i].seq <= subSeq
        BY DEF IndInv, QueueKept
      <4>2. queue[i].seq \in Nat
        BY <4>1 DEF Batch
      <4>3. ~(queue[i].seq >= k)
        BY <1>2, <4>1, <4>2
      <4> QED
        BY <4>3 DEF Own
    <3> HIDE DEF m, k
    <3>4. queue \in Seq(Batch)
      BY DEF IndInv, QueueKept
    <3>5. \E V : Tells(V, m, <<>>, queue, m, s, k, generation)
      BY <3>1, <3>3, <3>4, TellsNothing
    <3> QED
      BY <1>1, <3>1, <3>2, <3>5 DEF Told, m
  <2> QED
    BY <2>1, <2>2
<1>9. Story'
  BY <1>8 DEF Story
<1> QED
  BY <1>3, <1>4, <1>5, <1>6, <1>7, <1>9 DEF IndInv

LEMMA UnsubscribeKeeps ==
  ASSUME IndInv, NEW u \in Sub, Unsubscribe(u)
  PROVE  IndInv'
<1>1. /\ UNCHANGED <<tree, leafCount, running, generation, subSeq, queue, pending, current, mirror, lossy, writes, switches>>
      /\ subs' = [subs EXCEPT ![u] = 0]
  BY DEF Unsubscribe, content, bounds
<1>2. subSeq \in Nat /\ subs \in [Sub -> 0 .. subSeq] /\ Numbered
  BY StoreAssumption DEF IndInv, Registry
<1>3. TreeKept' /\ QueueKept' /\ CallsKept' /\ Others'
  BY <1>1 DEF IndInv, TreeKept, QueueKept, CallsKept, Others
<1>4. \A s \in Sub : subs'[s] = IF s = u THEN 0 ELSE subs[s]
  BY <1>1, <1>2
<1>5. Registry'
  <2>1. subs' \in [Sub -> 0 .. subSeq]
    BY <1>1, <1>2
  <2> QED
    BY <1>1, <1>2, <1>4, <2>1 DEF IndInv, Registry, Numbered
<1>6. ASSUME NEW s \in Sub, subs'[s] > 0, ~lossy'[s], Fresh(s, queue', generation')
      PROVE  Told(s)'
  <2>1. subs'[s] = subs[s]
    BY <1>4, <1>6
  <2>2. Rest(s)' = Rest(s)
    BY <1>1, <2>1 DEF Rest
  <2>3. Told(s)
    BY <1>1, <1>6, <2>1 DEF IndInv, Story
  <2> QED
    BY <1>1, <2>1, <2>2, <2>3 DEF Told
<1>7. Story'
  BY <1>6 DEF Story
<1> QED
  BY <1>3, <1>5, <1>7 DEF IndInv

(* start() and stop(): of what is in the queue, nothing is for anybody any *)
(* more; whoever has lost nothing has seen its part of the tree.           *)
LEMMA SwitchKeeps ==
  ASSUME IndInv, Start \/ Stop
  PROVE  IndInv'
<1>1. /\ UNCHANGED <<tree, leafCount, subSeq, subs, queue, pending, current, mirror, lossy, writes>>
      /\ current.calls = <<>> /\ running' \in BOOLEAN /\ generation' = generation + 1
      /\ switches < MaxSwitches /\ switches' = switches + 1
  BY DEF Start, Stop, content, registry
<1>2. generation = switches /\ switches \in Nat /\ switches' \in 0 .. MaxSwitches /\ queue \in Seq(Batch)
  BY <1>1, StoreAssumption DEF IndInv, Others, QueueKept
<1>3. TreeKept' /\ Registry'
  BY <1>1 DEF IndInv, TreeKept, Registry, Numbered
<1>4. \A i \in DOMAIN queue : queue[i].generation \in Nat /\ queue[i].generation <= generation
  <2>1. \A i \in DOMAIN queue : queue[i] \in Batch
    BY <1>2
  <2> QED
    BY <2>1 DEF IndInv, QueueKept, Batch
<1>5. QueueKept'
  <2>1. \A i \in DOMAIN queue : queue[i].generation <= generation'
    BY <1>1, <1>2, <1>4
  <2> QED
    BY <1>1, <2>1 DEF IndInv, QueueKept
<1>6. CallsKept' /\ Others'
  BY <1>1, <1>2 DEF IndInv, CallsKept, Ascending, Others
<1>7. ASSUME NEW s \in Sub, subs'[s] > 0, ~lossy'[s], Fresh(s, queue', generation')
      PROVE  Told(s)'
  <2> DEFINE n == subs[s]
             m == mirror[s]
             t == Part(s, tree)
  <2>1. \A i \in DOMAIN queue : Matching(s, queue[i].changes) = <<>>
    BY <1>1, <1>2, <1>4, <1>7 DEF Fresh
  <2>2. \A g : \A i \in DOMAIN queue : Own(s, n, g, queue[i]) = <<>>
    BY <2>1 DEF Own
  <2>3. Fresh(s, queue, generation) /\ m \in Tree
    BY <2>1 DEF Fresh, IndInv, Others
  <2>4. Rest(s) = <<>> /\ Rest(s)' = <<>>
    <3>1. DOMAIN current.calls = {}
      BY <1>1
    <3> QED
      BY <1>1, <3>1 DEF Rest, Reaches
  <2>5. PICK T : Tells(T, m, <<>>, queue, t, s, n, generation)
    BY <1>1, <1>7, <2>3, <2>4 DEF IndInv, Story, Told
  <2> DEFINE g == generation'
  <2> HIDE DEF n, m, t, g
  <2>6. t = m
    BY <1>2, <2>2, <2>3, <2>5, TellsSilence
  <2>7. \E V : Tells(V, m, <<>>, queue, m, s, n, g)
    BY <1>2, <2>2, <2>3, TellsNothing
  <2> QED
    BY <1>1, <2>4, <2>6, <2>7 DEF Told, n, m, t, g
<1>8. Story'
  BY <1>7 DEF Story
<1> QED
  BY <1>3, <1>5, <1>6, <1>8 DEF IndInv

LEMMA InitKept == Init => IndInv
<1> SUFFICES ASSUME Init PROVE IndInv
  OBVIOUS
<1>1. Nothing \in Tree /\ Leaves(Nothing) = {}
  BY DEF Nothing, Tree, Leaves
<1>2. TreeKept
  <2>1. IsFiniteSet({}) /\ Cardinality({}) = 0
    BY FS_EmptySet
  <2> QED
    BY <1>1, <2>1, StoreAssumption DEF Init, TreeKept, Shaped
<1>3. QueueKept
  BY TotalNothing DEF Init, QueueKept
<1>4. Registry
  BY StoreAssumption DEF Init, Registry, Numbered
<1>5. CallsKept
  BY StoreAssumption DEF Init, CallsKept, Ascending
<1>6. Others
  <2>1. running = FALSE /\ generation = 0 /\ switches = 0 /\ writes = 0
        /\ mirror = [s \in Sub |-> Nothing] /\ lossy = [s \in Sub |-> FALSE]
    BY DEF Init
  <2>2. 0 \in 0 .. MaxWrites /\ 0 \in 0 .. MaxSwitches
    BY StoreAssumption
  <2>3. mirror \in [Sub -> Tree] /\ lossy \in [Sub -> BOOLEAN]
    BY <1>1, <2>1
  <2> QED
    BY <2>1, <2>2, <2>3 DEF Others
<1>7. Story
  BY StoreAssumption DEF Init, Story
<1> QED
  BY <1>2, <1>3, <1>4, <1>5, <1>6, <1>7 DEF IndInv

LEMMA StepKept == IndInv /\ [Next]_vars => IndInv'
<1> SUFFICES ASSUME IndInv, [Next]_vars PROVE IndInv'
  OBVIOUS
<1>1. CASE Write
  BY <1>1, WriteKeeps
<1>2. ASSUME NEW s \in Sub, Subscribe(s) PROVE IndInv'
  BY <1>2, SubscribeKeeps
<1>3. ASSUME NEW s \in Sub, Unsubscribe(s) PROVE IndInv'
  BY <1>3, UnsubscribeKeeps
<1>4. CASE Start \/ Stop
  BY <1>4, SwitchKeeps
<1>5. CASE Dispatch
  BY <1>5, DispatchKeeps
<1>6. CASE Deliver
  BY <1>6, DeliverKeeps
<1>7. CASE UNCHANGED vars
  <2>1. UNCHANGED <<tree, leafCount, running, generation, subSeq, subs, queue, pending, current, mirror, lossy, writes, switches>>
    BY <1>7 DEF vars
  <2>2. TreeKept' /\ QueueKept' /\ Registry' /\ CallsKept' /\ Others'
    BY <2>1 DEF IndInv, TreeKept, QueueKept, Registry, Numbered, CallsKept, Others
  <2>3. ASSUME NEW s \in Sub PROVE Told(s)' = Told(s)
    BY <2>1 DEF Told, Rest
  <2>4. Story'
    BY <2>1, <2>3 DEF IndInv, Story
  <2> QED
    BY <2>2, <2>4 DEF IndInv
<1> QED
  BY <1>1, <1>2, <1>3, <1>4, <1>5, <1>6, <1>7 DEF Next

(* What the tree, the queue, the registrations, the callbacks under way    *)
(* and what each subscriber has seen have to do with each other.           *)
THEOREM StoreInv == Spec => []IndInv
<1>1. Init => IndInv
  BY InitKept
<1>2. IndInv /\ [Next]_vars => IndInv'
  BY StepKept
<1> QED
  BY <1>1, <1>2, PTL DEF Spec

-----------------------------------------------------------------------------
(* What is due to a subscriber. *)
LEMMA ReplayBoth ==
  ASSUME NEW m \in Tree, NEW a \in Seq(Change), NEW b \in Seq(Change)
  PROVE  Replay(m, a \o b) = Replay(Replay(m, a), b)
<1> DEFINE c == a \o b
           i0 == Len(a)
           n == Len(b)
           k == Replay(m, a)
<1>1. /\ i0 \in Nat /\ n \in Nat /\ c \in Seq(Change) /\ Len(c) = i0 + n
      /\ \A i \in 1 .. i0 : a[i] = c[i]
      /\ \A i \in 1 .. n : c[i0 + i] = b[i]
  OBVIOUS
<1>2. k \in Tree
  BY ReplayEffect
<1> HIDE DEF c
<1>3. PICK g \in [0 .. Len(c) -> Tree] :
         /\ g[0] = m /\ \A i \in 1 .. Len(c) : g[i] = Seen(g[i - 1], c[i])
         /\ Replay(m, c) = g[Len(c)]
  BY <1>1, ReplayRuns
<1>4. k = g[i0]
  BY <1>1, <1>3, ReplayPrefix
<1> HIDE DEF k
<1>5. PICK h \in [0 .. n -> Tree] :
         /\ h[0] = k /\ \A i \in 1 .. n : h[i] = Seen(h[i - 1], b[i])
         /\ Replay(k, b) = h[n]
  BY <1>1, <1>2, ReplayRuns
<1> HIDE DEF n, i0
<1> DEFINE Z == {i \in 0 .. n : h[i] = g[i0 + i]}
<1>6. 0 \in Z
  <2>1. i0 + 0 = i0 /\ 0 \in 0 .. n
    BY <1>1
  <2> QED
    BY <1>4, <1>5, <2>1
<1>7. ASSUME NEW i \in 1 .. n, i - 1 \in Z PROVE i \in Z
  <2>1. i0 + i \in 1 .. Len(c) /\ (i0 + i) - 1 = i0 + (i - 1) /\ i \in 0 .. n
    BY <1>1
  <2>2. g[i0 + i] = Seen(g[i0 + (i - 1)], c[i0 + i])
    BY <1>3, <2>1
  <2>3. h[i] = Seen(h[i - 1], b[i]) /\ h[i - 1] = g[i0 + (i - 1)] /\ c[i0 + i] = b[i]
    BY <1>1, <1>5, <1>7
  <2> QED
    BY <2>1, <2>2, <2>3
<1>8. \A i \in 0 .. n : i \in Z
  <2> HIDE DEF Z
  <2> QED
    BY <1>1, <1>6, <1>7, Upto
<1>9. n \in 0 .. n
  BY <1>1
<1> QED
  BY <1>1, <1>3, <1>5, <1>8, <1>9 DEF c, k

LEMMA RestType ==
  ASSUME NEW s \in Sub, current.changes \in Seq(Change)
  PROVE  Rest(s) \in Seq(Change)
  BY MatchingType DEF Rest

(* What is due to a subscriber is collected batch by batch. *)
LEMMA DueRuns ==
  ASSUME NEW s \in Sub, queue \in Seq(Batch), current.changes \in Seq(Change)
  PROVE  \E g \in [0 .. Len(queue) -> Seq(Change)] :
            /\ g[0] = Rest(s) /\ \A i \in 1 .. Len(queue) : g[i] = (IF queue[i].seq >= subs[s] /\ queue[i].generation = generation THEN g[i - 1] \o Matching(s, queue[i].changes) ELSE g[i - 1])
            /\ Due(s) = g[Len(queue)]
<1> DEFINE n == Len(queue)
           F == [p \in (1 .. n) \X Seq(Change) |-> (IF queue[p[1]].seq >= subs[s] /\ queue[p[1]].generation = generation THEN p[2] \o Matching(s, queue[p[1]].changes) ELSE p[2])]
           Is(f) == f = [T \in SUBSET (DOMAIN queue) |->
                           IF T = {} THEN Rest(s) ELSE (IF queue[Max(T)].seq >= subs[s] /\ queue[Max(T)].generation = generation THEN f[T \ {Max(T)}] \o Matching(s, queue[Max(T)].changes) ELSE f[T \ {Max(T)}])]
<1>0. n \in Nat /\ DOMAIN queue = 1 .. n
  OBVIOUS
<1>1. Rest(s) \in Seq(Change)
  BY RestType
<1>2. \A i \in 1 .. n, y \in Seq(Change) : F[<<i, y>>] = (IF queue[i].seq >= subs[s] /\ queue[i].generation = generation THEN y \o Matching(s, queue[i].changes) ELSE y)
  OBVIOUS
<1>a. F \in [(1 .. n) \X Seq(Change) -> Seq(Change)]
  <2>1. \A i \in 1 .. n : Matching(s, queue[i].changes) \in Seq(Change)
    <3>1. \A b \in Batch : Matching(s, b.changes) \in Seq(Change)
      BY MatchingType DEF Batch
    <3>2. \A i \in 1 .. n : queue[i] \in Batch
      OBVIOUS
    <3> QED
      BY <3>1, <3>2
  <2> QED
    BY <2>1
<1>3. PICK h : Solves(h, n, Seq(Change), Rest(s), F)
  <2> HIDE DEF F, n
  <2> QED
    BY <1>0, <1>1, <1>a, FoldSolves
<1> HIDE DEF F
<1>4. Is(h)
  <2>1. ASSUME NEW T \in SUBSET (1 .. n), T # {}
        PROVE  h[T] = (IF queue[Max(T)].seq >= subs[s] /\ queue[Max(T)].generation = generation THEN h[T \ {Max(T)}] \o Matching(s, queue[Max(T)].changes) ELSE h[T \ {Max(T)}])
    <3>1. Max(T) \in 1 .. n /\ h[T \ {Max(T)}] \in Seq(Change) /\ h[T] = F[<<Max(T), h[T \ {Max(T)}]>>]
      BY <1>3, <2>1 DEF Solves
    <3> QED
      BY <1>2, <3>1
  <2>2. h = [T \in SUBSET (1 .. n) |-> h[T]]
    BY <1>3 DEF Solves
  <2> QED
    BY <1>0, <1>3, <2>1, <2>2 DEF Solves
<1>5. ASSUME NEW f, Is(f) PROVE FoldsLeft(f[1 .. n], f, n, Seq(Change), Rest(s), F)
  <2>1. ASSUME NEW T \in (SUBSET (1 .. n)) \ {{}}, f[T \ {Max(T)}] \in Seq(Change)
        PROVE  f[T] = F[<<Max(T), f[T \ {Max(T)}]>>]
    <3>1. Max(T) \in 1 .. n
      BY <1>3, <2>1 DEF Solves
    <3>2. f[T] = (IF queue[Max(T)].seq >= subs[s] /\ queue[Max(T)].generation = generation THEN f[T \ {Max(T)}] \o Matching(s, queue[Max(T)].changes) ELSE f[T \ {Max(T)}])
      BY <1>0, <1>5, <2>1
    <3> QED
      BY <1>2, <2>1, <3>1, <3>2
  <2>2. f[{}] = Rest(s)
    BY <1>0, <1>5
  <2> QED
    BY <2>1, <2>2 DEF FoldsLeft
<1>6. Due(s) = (CHOOSE f : Is(f))[DOMAIN queue]
  BY DEF Due, Rest, Reaches, FoldLeft, MapThenFoldSet
<1> DEFINE v == CHOOSE f : Is(f)
           r == v[1 .. n]
<1> HIDE DEF Is, n
<1>7. Is(v)
  BY <1>4
<1> HIDE DEF v
<1>8. FoldsLeft(r, v, n, Seq(Change), Rest(s), F)
  BY <1>5, <1>7
<1> HIDE DEF r
<1>9. PICK g : Runs(r, g, n, Seq(Change), Rest(s), F)
  BY <1>0, <1>1, <1>8, <1>a, FoldRuns
<1>10. \A i \in 1 .. n : g[i] = (IF queue[i].seq >= subs[s] /\ queue[i].generation = generation THEN g[i - 1] \o Matching(s, queue[i].changes) ELSE g[i - 1])
  <2>1. \A i \in 1 .. n : g[i - 1] \in Seq(Change)
    BY <1>0, <1>9 DEF Runs
  <2> QED
    BY <1>2, <1>9, <2>1 DEF Runs
<1> QED
  BY <1>0, <1>6, <1>9, <1>10 DEF Runs, n, v, r

(* What is due leads where the story ends. *)
LEMMA DueTells ==
  ASSUME IndInv, NEW s \in Sub, NEW t,
         NEW T, Tells(T, mirror[s], Rest(s), queue, t, s, subs[s], generation)
  PROVE  Replay(mirror[s], Due(s)) = t
<1> DEFINE k == Len(queue)
           m == mirror[s]
           own(i) == Own(s, subs[s], generation, queue[i])
<1>1. /\ queue \in Seq(Batch) /\ current.changes \in Seq(Change) /\ m \in Tree /\ k \in Nat
  BY DEF IndInv, QueueKept, CallsKept, Others
<1>2. PICK g \in [0 .. k -> Seq(Change)] :
         /\ g[0] = Rest(s)
         /\ \A i \in 1 .. k : g[i] = (IF queue[i].seq >= subs[s] /\ queue[i].generation = generation
                                      THEN g[i - 1] \o Matching(s, queue[i].changes) ELSE g[i - 1])
         /\ Due(s) = g[k]
  BY <1>1, DueRuns
<1>3. /\ T \in [0 .. k -> Tree] /\ Leads(m, Rest(s), T[0]) /\ T[k] = t
      /\ \A i \in 1 .. k : Leads(T[i - 1], own(i), T[i])
  BY DEF Tells
<1>4. ASSUME NEW i \in 1 .. k PROVE own(i) \in Seq(Change) /\ g[i] = g[i - 1] \o own(i)
  <2>1. i - 1 \in 0 .. k
    BY <1>1
  <2>2. g[i - 1] \in Seq(Change)
    BY <1>2, <2>1
  <2>3. queue[i] \in Batch
    BY <1>1
  <2>4. Matching(s, queue[i].changes) \in Seq(Change)
    BY <2>3, MatchingType DEF Batch
  <2>5. CASE queue[i].seq >= subs[s] /\ queue[i].generation = generation
    BY <1>2, <2>4, <2>5 DEF Own
  <2>6. CASE ~(queue[i].seq >= subs[s] /\ queue[i].generation = generation)
    <3>1. own(i) = <<>> /\ g[i] = g[i - 1]
      BY <1>2, <2>6 DEF Own
    <3>2. g[i - 1] \o <<>> = g[i - 1] /\ <<>> \in Seq(Change)
      BY <2>2
    <3> QED
      BY <3>1, <3>2
  <2> QED
    BY <2>5, <2>6
<1> HIDE DEF k, m, own
<1> DEFINE Z == {i \in 0 .. k : Replay(m, g[i]) = T[i]}
<1>5. 0 \in Z
  BY <1>1, <1>2, <1>3 DEF Leads
<1>6. ASSUME NEW i \in 1 .. k, i - 1 \in Z PROVE i \in Z
  <2>1. i \in 0 .. k /\ i - 1 \in 0 .. k /\ g[i - 1] \in Seq(Change)
    BY <1>1, <1>2
  <2>2. Replay(m, g[i]) = Replay(Replay(m, g[i - 1]), own(i))
    <3> DEFINE b == own(i)
               a == g[i - 1]
    <3>1. b \in Seq(Change) /\ a \in Seq(Change) /\ g[i] = a \o b
      BY <1>4, <2>1
    <3> HIDE DEF a, b
    <3>2. Replay(m, a \o b) = Replay(Replay(m, a), b)
      BY <1>1, <3>1, ReplayBoth
    <3> QED
      BY <3>1, <3>2 DEF a, b
  <2>3. Replay(m, g[i - 1]) = T[i - 1] /\ Replay(T[i - 1], own(i)) = T[i]
    BY <1>3, <1>6 DEF Leads
  <2> QED
    BY <2>1, <2>2, <2>3
<1>7. \A i \in 0 .. k : i \in Z
  <2> HIDE DEF Z
  <2> QED
    BY <1>1, <1>5, <1>6, Upto
<1>8. k \in 0 .. k
  BY <1>1
<1> QED
  BY <1>2, <1>3, <1>7, <1>8 DEF m

LEMMA KeptTree == IndInv => TreeInv
<1> SUFFICES ASSUME IndInv PROVE TreeInv
  OBVIOUS
<1>1. pending = FoldLeft(LAMBDA n, b : n + Len(b.changes), 0, queue)
  BY DEF IndInv, QueueKept, Total
<1>2. pending \in Nat
  BY TotalEffect DEF IndInv, QueueKept
<1>3. tree \in [Path -> Value \cup {Missing}] /\ mirror \in [Sub -> [Path -> Value \cup {Missing}]]
  BY DEF IndInv, TreeKept, Others, Tree
<1>4. queue \in Seq([changes : Seq(Change), generation : Nat, depth : 1 .. MaxDepth, seq : Nat])
  BY DEF IndInv, QueueKept, Batch
<1>5. current \in [calls : Seq([sub : Sub, seq : Nat]), changes : Seq(Change),
                   depth : 0 .. MaxDepth, generation : Nat]
  BY DEF IndInv, CallsKept, Call
<1>6. /\ leafCount \in 0 .. MaxLeaves /\ subSeq \in 0 .. MaxSubs /\ subs \in [Sub -> 0 .. subSeq]
      /\ running \in BOOLEAN /\ generation \in 0 .. MaxSwitches /\ lossy \in [Sub -> BOOLEAN]
      /\ writes \in 0 .. MaxWrites /\ switches \in 0 .. MaxSwitches
  BY DEF IndInv, TreeKept, Registry, Others
<1>7. Shaped(tree) /\ leafCount = Cardinality(Leaves(tree))
  BY DEF IndInv, TreeKept
<1> QED
  BY <1>1, <1>2, <1>3, <1>4, <1>5, <1>6, <1>7 DEF TreeInv, TypeOK

LEMMA KeptStory == IndInv => EventsTellAll
<1> SUFFICES ASSUME IndInv, NEW s \in Sub, subs[s] > 0, ~lossy[s], AllOf(queue, generation)
             PROVE  Replay(mirror[s], Due(s)) = Part(s, tree)
  BY DEF EventsTellAll, AllOf
<1>1. Fresh(s, queue, generation)
  BY DEF AllOf, Fresh
<1>2. PICK T : Tells(T, mirror[s], Rest(s), queue, Part(s, tree), s, subs[s], generation)
  BY <1>1 DEF IndInv, Story, Told
<1> QED
  BY <1>2, DueTells

LEMMA KeptOld ==
  ASSUME IndInv, NEW s \in Sub, NEW call, NEW changes,
         call = Head(current.calls), changes = Matching(s, current.changes),
         current.calls # <<>>, call.sub = s, subs[s] = call.seq, ~lossy[s]
  PROVE  \A i \in DOMAIN changes :
            Replay(mirror[s], SubSeq(changes, 1, i - 1))[changes[i].path] = changes[i].old
<1>1. Ascending(current.calls, subSeq) /\ subSeq \in Nat
  BY StoreAssumption DEF IndInv, CallsKept, Registry
<1>2. call \in Call /\ Reaches(current.calls, call)
  BY <1>1, CallOnce
<1>3. call.seq \in 1 .. subSeq
  BY <1>1, <1>2 DEF Reaches, Ascending
<1>4. subs[s] > 0
  BY <1>1, <1>3
<1>5. call = [sub |-> s, seq |-> subs[s]]
  BY <1>2 DEF Call
<1>6. Rest(s) = changes
  BY <1>2, <1>5 DEF Rest
<1>7. PICK T : Tells(T, mirror[s], Rest(s), queue, Part(s, tree), s, subs[s], generation)
  BY <1>4, DeliverTold
<1> QED
  BY <1>6, <1>7 DEF Tells, Leads

(* A path is a leaf or a subtree, never both, and the counters of leaves   *)
(* and of scheduled changes, which set(), delete(), clear() and _dispatch  *)
(* keep by differences, say what is there.                                 *)
THEOREM CountersTrue == Spec => []TreeInv
<1>1. IndInv => TreeInv
  BY KeptTree
<1> QED
  BY StoreInv, <1>1, PTL

(* A subscriber that keeps up from the events it is given, in batches that *)
(* leave the lock before they are delivered, ends with its part of the     *)
(* tree: through replacements of subtrees by leaves and back, writes in    *)
(* callbacks, subscriptions in between, unless changes were dropped while  *)
(* the store was stopped.                                                  *)
THEOREM MirrorEndsAsTree == Spec => []EventsTellAll
<1>1. IndInv => EventsTellAll
  BY KeptStory
<1> QED
  BY StoreInv, <1>1, PTL

(* The old value of an event is what the subscriber saw last at its path,  *)
(* whatever was written between the commit and the callback.               *)
THEOREM EdgesAreSeen == Spec => OldIsWhatWasSeen
<1> DEFINE A == \A s \in Sub :
                  LET call == Head(current.calls)
                      changes == Matching(s, current.changes)
                  IN  (current.calls # <<>> /\ current'.calls = Tail(current.calls)
                         /\ call.sub = s /\ subs[s] = call.seq /\ ~lossy[s])
                      => \A i \in DOMAIN changes :
                           Replay(mirror[s], SubSeq(changes, 1, i - 1))[changes[i].path] = changes[i].old
<1>1. IndInv /\ [Next]_vars => [A]_vars
  <2> SUFFICES ASSUME IndInv PROVE A
    OBVIOUS
  <2> QED
    BY KeptOld
<1> QED
  BY StoreInv, <1>1, PTL DEF Spec, OldIsWhatWasSeen
=============================================================================
