--------------------------- MODULE RuleTaskProofs ---------------------------
(***************************************************************************)
(* Proofs about RuleTask for any rules, devices, windows and edits.        *)
(*                                                                         *)
(* The first part is about folds: the community modules define them by     *)
(* recursion over the subsets of a finite set, which has to be shown to    *)
(* have a solution before anything can be said of it.  The second part     *)
(* says what each operation of the two layers does to the memory of the    *)
(* task, and that it keeps it Sound.  The rest is one part per theorem.    *)
(***************************************************************************)
EXTENDS RuleTask, FiniteSetTheorems, SequenceTheorems, WellFoundedInduction, TLAPS

-----------------------------------------------------------------------------
(* Induction over the subsets of a finite set, with the members of a set   *)
(* in the place of the predicate.                                          *)
LEMMA FiniteSubsets ==
  ASSUME NEW S, IsFiniteSet(S), NEW Z, {} \in Z,
         \A T \in (SUBSET S) \ {{}} : (\A U \in SUBSET T : U # T => U \in Z) => T \in Z
  PROVE  \A T \in SUBSET S : T \in Z
<1> DEFINE bad == {T \in FiniteSubsetsOf(S) : T \notin Z}
<1>1. \A T \in SUBSET S : T \in FiniteSubsetsOf(S)
  BY FS_Subset DEF FiniteSubsetsOf
<1>2. SUFFICES ASSUME bad # {} PROVE FALSE
  BY <1>1
<1>3. PICK T \in bad : \A U \in bad : <<U, T>> \notin StrictSubsetOrdering(S)
  <2>1. bad \subseteq FiniteSubsetsOf(S)
    OBVIOUS
  <2> HIDE DEF bad
  <2> QED
    BY <1>2, <2>1, FS_StrictSubsetOrderingWellFounded, WFMin
<1>4. T \in SUBSET S /\ T \notin Z
  BY DEF FiniteSubsetsOf
<1>5. \A U \in SUBSET T : U # T => U \in Z
  <2> SUFFICES ASSUME NEW U \in SUBSET T, U # T, U \notin Z PROVE FALSE
    OBVIOUS
  <2>1. U \in bad
    BY <1>1, <1>4
  <2>2. <<U, T>> \in StrictSubsetOrdering(S)
    BY <1>4 DEF StrictSubsetOrdering
  <2> QED
    BY <1>3, <2>1, <2>2
<1> QED
  BY <1>4, <1>5

(* What the folds of the community modules are made of: f folds F over     *)
(* every subset of S, from base, taking c[T] first.                        *)
Folds(f, S, base, F, c) ==
    f = [T \in SUBSET S |-> IF T = {} THEN base ELSE F[<<c[T], f[T \ {c[T]}]>>]]

Chooses(c, S) == \A T \in (SUBSET S) \ {{}} : c[T] \in T

LEMMA FoldsAgree ==
  ASSUME NEW S, IsFiniteSet(S), NEW base, NEW F, NEW c, Chooses(c, S),
         NEW A \in SUBSET S, NEW B \in SUBSET S, NEW f, NEW g,
         Folds(f, A, base, F, c), Folds(g, B, base, F, c)
  PROVE  \A T \in SUBSET (A \cap B) : f[T] = g[T]
<1> DEFINE Z == {T \in SUBSET (A \cap B) : f[T] = g[T]}
<1>0. IsFiniteSet(A \cap B)
  BY FS_Subset
<1>1. {} \in Z
  BY DEF Folds
<1>2. ASSUME NEW T \in (SUBSET (A \cap B)) \ {{}}, \A U \in SUBSET T : U # T => U \in Z
      PROVE  T \in Z
  <2>1. c[T] \in T /\ T \ {c[T]} \in SUBSET T /\ T \ {c[T]} # T
    BY DEF Chooses
  <2>2. f[T \ {c[T]}] = g[T \ {c[T]}]
    BY <1>2, <2>1
  <2> QED
    BY <2>1, <2>2 DEF Folds
<1>3. \A T \in SUBSET (A \cap B) : T \in Z
  <2> HIDE DEF Z
  <2> QED
    BY <1>0, <1>1, <1>2, FiniteSubsets
<1> QED
  BY <1>3

LEMMA FoldsExist ==
  ASSUME NEW S, IsFiniteSet(S), NEW base, NEW F, NEW c, Chooses(c, S)
  PROVE  \E f : Folds(f, S, base, F, c)
<1> DEFINE Z == {T \in SUBSET S : \E f : Folds(f, T, base, F, c)}
<1>1. {} \in Z
  <2>1. Folds([T \in SUBSET {} |-> base], {}, base, F, c)
    BY DEF Folds
  <2> QED
    BY <2>1
<1>2. ASSUME NEW A \in (SUBSET S) \ {{}}, \A U \in SUBSET A : U # A => U \in Z
      PROVE  A \in Z
  <2> DEFINE G(U) == CHOOSE f : Folds(f, U, base, F, c)
             f == [T \in SUBSET A |->
                     IF T = {} THEN base ELSE F[<<c[T], G(T \ {c[T]})[T \ {c[T]}]>>]]
  <2>1. ASSUME NEW U \in SUBSET A, U # A PROVE Folds(G(U), U, base, F, c)
    BY <1>2, <2>1
  <2>2. ASSUME NEW U \in SUBSET A, U # A PROVE f[U] = G(U)[U]
    <3>1. CASE U = {}
      <4>1. Folds(G(U), U, base, F, c) /\ U \in SUBSET U /\ U \in SUBSET A
        BY <2>1, <2>2
      <4>2. G(U)[U] = base
        BY <3>1, <4>1 DEF Folds
      <4>3. f[U] = base
        BY <3>1
      <4> QED
        BY <4>2, <4>3
    <3>2. CASE U # {}
      <4> DEFINE V == U \ {c[U]}
      <4>1. c[U] \in U /\ V \in SUBSET U /\ V # U /\ V \in SUBSET A /\ V # A
        BY <2>2, <3>2 DEF Chooses
      <4>2. Folds(G(U), U, base, F, c) /\ Folds(G(V), V, base, F, c)
        BY <2>1, <2>2, <4>1
      <4>3. G(U)[V] = G(V)[V]
        <5> HIDE DEF G, V
        <5>1. U \in SUBSET S /\ V \in SUBSET S /\ V \in SUBSET (U \cap V)
          BY <4>1
        <5> QED
          BY <4>2, <5>1, FoldsAgree
      <4>4. G(U)[U] = F[<<c[U], G(U)[V]>>]
        BY <3>2, <4>2 DEF Folds
      <4>5. f[U] = F[<<c[U], G(V)[V]>>]
        BY <3>2
      <4> QED
        BY <4>3, <4>4, <4>5
    <3> QED
      BY <3>1, <3>2
  <2>3. Folds(f, A, base, F, c)
    <3>1. ASSUME NEW T \in SUBSET A, T # {}
          PROVE  f[T] = F[<<c[T], f[T \ {c[T]}]>>]
      <4>1. c[T] \in T
        BY <3>1 DEF Chooses
      <4>2. T \ {c[T]} \in SUBSET A /\ T \ {c[T]} # A
        BY <4>1
      <4>3. f[T \ {c[T]}] = G(T \ {c[T]})[T \ {c[T]}]
        BY <2>2, <4>2
      <4>4. f[T] = F[<<c[T], G(T \ {c[T]})[T \ {c[T]}]>>]
        BY <3>1
      <4> QED
        BY <4>3, <4>4
    <3>2. f[{}] = base
      OBVIOUS
    <3>3. f = [T \in SUBSET A |-> f[T]]
      OBVIOUS
    <3> HIDE DEF f
    <3>4. f = [T \in SUBSET A |-> IF T = {} THEN base ELSE F[<<c[T], f[T \ {c[T]}]>>]]
      BY <3>1, <3>2, <3>3
    <3> QED
      BY <3>4 DEF Folds
  <2> HIDE DEF f
  <2> QED
    BY <2>3
<1>3. \A T \in SUBSET S : T \in Z
  <2> HIDE DEF Z
  <2> QED
    BY <1>1, <1>2, FiniteSubsets
<1> QED
  BY <1>3

(* A set the fold starts in, and never leaves, holds its result.           *)
LEMMA FoldsInto ==
  ASSUME NEW S, IsFiniteSet(S), NEW base, NEW F, NEW c, Chooses(c, S), NEW U, base \in U,
         \A x \in S, y \in U : F[<<x, y>>] \in U
  PROVE  \E f \in [SUBSET S -> U] : Folds(f, S, base, F, c)
<1>1. PICK f : Folds(f, S, base, F, c)
  BY FoldsExist
<1> DEFINE Z == {T \in SUBSET S : f[T] \in U}
<1>2. {} \in Z
  BY <1>1 DEF Folds
<1>3. ASSUME NEW T \in (SUBSET S) \ {{}}, \A V \in SUBSET T : V # T => V \in Z
      PROVE  T \in Z
  <2>1. c[T] \in T /\ T \ {c[T]} \in SUBSET T /\ T \ {c[T]} # T
    BY DEF Chooses
  <2>2. f[T \ {c[T]}] \in U
    BY <1>3, <2>1
  <2> QED
    BY <1>1, <2>1, <2>2 DEF Folds
<1>4. \A T \in SUBSET S : T \in Z
  <2> HIDE DEF Z
  <2> QED
    BY <1>2, <1>3, FiniteSubsets
<1>5. f = [T \in SUBSET S |-> f[T]]
  BY <1>1 DEF Folds
<1> QED
  BY <1>1, <1>4, <1>5

LEMMA FoldSetInto ==
  ASSUME NEW S, IsFiniteSet(S), NEW m, NEW U, m \in U,
         \A g \in S, n \in U : RefreshOne(g, n) \in U
  PROVE  FoldSet(RefreshOne, m, S) \in U
<1> DEFINE F == [p \in S \X U |-> RefreshOne(p[1], p[2])]
           c == [T \in SUBSET S |-> CHOOSE x \in T : TRUE]
           Is(f) == f = [T \in SUBSET S |->
                           IF T = {} THEN m
                           ELSE RefreshOne(CHOOSE x \in T : TRUE, f[T \ {CHOOSE x \in T : TRUE}])]
<1>1. Chooses(c, S)
  BY DEF Chooses
<1>2. \A x \in S, y \in U : F[<<x, y>>] = RefreshOne(x, y)
  OBVIOUS
<1>3. PICK f \in [SUBSET S -> U] : Folds(f, S, m, F, c)
  <2>1. \A x \in S, y \in U : F[<<x, y>>] \in U
    BY <1>2
  <2> HIDE DEF F, c
  <2> QED
    BY <1>1, <2>1, FoldsInto
<1>4. ASSUME NEW T \in SUBSET S, T # {}
      PROVE  /\ c[T] = CHOOSE x \in T : TRUE
             /\ c[T] \in S /\ T \ {c[T]} \in SUBSET T /\ T \ {c[T]} # T
             /\ f[T] = RefreshOne(c[T], f[T \ {c[T]}])
  <2>1. c[T] \in T
    BY <1>1, <1>4 DEF Chooses
  <2>2. c[T] = CHOOSE x \in T : TRUE
    OBVIOUS
  <2> HIDE DEF F, c
  <2>3. f[T \ {c[T]}] \in U
    BY <1>3, <2>1
  <2>4. f[T] = F[<<c[T], f[T \ {c[T]}]>>]
    BY <1>3, <1>4 DEF Folds
  <2> QED
    BY <1>2, <2>1, <2>2, <2>3, <2>4
<1>5. f[{}] = m
  BY <1>3 DEF Folds
<1> HIDE DEF F, c
<1>6. Is(f)
  BY <1>3, <1>4, <1>5
<1>7. ASSUME NEW g, Is(g) PROVE g[S] = f[S]
  <2> DEFINE Z == {T \in SUBSET S : g[T] = f[T]}
  <2>1. {} \in Z
    BY <1>5, <1>7
  <2>2. ASSUME NEW T \in (SUBSET S) \ {{}}, \A V \in SUBSET T : V # T => V \in Z
        PROVE  T \in Z
    <3>1. g[T \ {c[T]}] = f[T \ {c[T]}]
      BY <1>4, <2>2
    <3>2. g[T] = RefreshOne(c[T], g[T \ {c[T]}])
      <4>1. c[T] = CHOOSE x \in T : TRUE
        BY <1>4
      <4> QED
        BY <1>7, <4>1
    <3> QED
      BY <1>4, <3>1, <3>2
  <2>3. \A T \in SUBSET S : T \in Z
    <3> HIDE DEF Z
    <3> QED
      BY <2>1, <2>2, FiniteSubsets
  <2> QED
    BY <2>3
<1>8. FoldSet(RefreshOne, m, S) = (CHOOSE g : Is(g))[S]
  BY DEF FoldSet, MapThenFoldSet
<1> HIDE DEF Is
<1>9. Is(CHOOSE g : Is(g))
  BY <1>6
<1> QED
  BY <1>3, <1>7, <1>8, <1>9

(* No enter waits twice. *)
Once(q) == \A i, j \in DOMAIN q : q[i] = q[j] => i = j

LEMMA MaxIn ==
  ASSUME NEW n \in Nat, NEW T \in SUBSET (1 .. n), T # {}
  PROVE  Max(T) \in T
<1> DEFINE Z == {V \in SUBSET (1 .. n) : V = {} \/ \E x \in V : \A y \in V : x >= y}
<1>1. IsFiniteSet(1 .. n)
  BY FS_Interval
<1>2. {} \in Z
  OBVIOUS
<1>3. ASSUME NEW V \in (SUBSET (1 .. n)) \ {{}}, \A W \in SUBSET V : W # V => W \in Z
      PROVE  V \in Z
  <2>1. PICK v \in V : TRUE
    BY <1>3
  <2>2. V \ {v} \in Z
    BY <1>3, <2>1
  <2>3. CASE V \ {v} = {}
    <3>1. \A y \in V : v >= y
      BY <2>1, <2>3
    <3> QED
      BY <2>1, <3>1
  <2>4. CASE V \ {v} # {}
    <3>1. PICK x \in V \ {v} : \A y \in V \ {v} : x >= y
      BY <2>2, <2>4
    <3>2. CASE x >= v
      <4>1. \A y \in V : x >= y
        BY <3>1, <3>2
      <4> QED
        BY <3>1, <4>1
    <3>3. CASE ~(x >= v)
      <4>1. \A y \in V : v >= y
        BY <2>1, <3>1, <3>3
      <4> QED
        BY <2>1, <4>1
    <3> QED
      BY <3>2, <3>3
  <2> QED
    BY <2>3, <2>4
<1>4. \A V \in SUBSET (1 .. n) : V \in Z
  <2> HIDE DEF Z
  <2> QED
    BY <1>1, <1>2, <1>3, FiniteSubsets
<1> QED
  BY <1>4 DEF Max

(* What waits after some enters are dropped: those that are in A, each as  *)
(* often as before.                                                        *)
LEMMA KeepEffect ==
  ASSUME NEW q \in Seq(Rules), NEW A
  PROVE  /\ Keep(q, A) \in Seq(Rules)
         /\ Range(Keep(q, A)) = Range(q) \cap A
         /\ Once(q) => Once(Keep(q, A))
<1> DEFINE S == DOMAIN q
           U == Seq(Rules)
           Op(i, k) == IF q[i] \in A THEN Append(k, q[i]) ELSE k
           F == [p \in S \X U |-> Op(p[1], p[2])]
           c == [T \in SUBSET S |-> Max(T)]
           Is(f) == f = [T \in SUBSET S |->
                           IF T = {} THEN <<>> ELSE Op(Max(T), f[T \ {Max(T)}])]
<1>0. S = 1 .. Len(q) /\ Len(q) \in Nat /\ IsFiniteSet(S)
  BY FS_Interval
<1>1. Chooses(c, S)
  BY <1>0, MaxIn DEF Chooses
<1>2. \A x \in S, y \in U : F[<<x, y>>] = Op(x, y) /\ Op(x, y) \in U
  OBVIOUS
<1>3. PICK f \in [SUBSET S -> U] : Folds(f, S, <<>>, F, c)
  <2>1. \A x \in S, y \in U : F[<<x, y>>] \in U
    BY <1>2
  <2>2. <<>> \in U
    OBVIOUS
  <2> HIDE DEF F, c, U, S
  <2> QED
    BY <1>0, <1>1, <2>1, <2>2, FoldsInto
<1>4. ASSUME NEW T \in SUBSET S, T # {}
      PROVE  /\ c[T] = Max(T)
             /\ c[T] \in T /\ c[T] \in S /\ T \ {c[T]} \in SUBSET T /\ T \ {c[T]} # T
             /\ f[T] = Op(c[T], f[T \ {c[T]}])
  <2>1. c[T] \in T
    BY <1>1, <1>4 DEF Chooses
  <2>2. c[T] = Max(T)
    OBVIOUS
  <2> HIDE DEF F, c, Op
  <2>3. f[T \ {c[T]}] \in U
    BY <1>3, <2>1
  <2>4. f[T] = F[<<c[T], f[T \ {c[T]}]>>]
    BY <1>3, <1>4 DEF Folds
  <2> QED
    BY <1>2, <2>1, <2>2, <2>3, <2>4
<1>5. f[{}] = <<>>
  BY <1>3 DEF Folds
<1> HIDE DEF F, c, Op
<1>6. Is(f)
  <2>1. ASSUME NEW T \in SUBSET S, T # {} PROVE f[T] = Op(Max(T), f[T \ {Max(T)}])
    <3>1. c[T] = Max(T) /\ f[T] = Op(c[T], f[T \ {c[T]}])
      BY <1>4, <2>1
    <3> QED
      BY <3>1
  <2>2. f = [T \in SUBSET S |-> f[T]]
    BY <1>3
  <2> HIDE DEF U, S
  <2> QED
    BY <1>5, <2>1, <2>2
<1>7. ASSUME NEW g, Is(g) PROVE g[S] = f[S]
  <2> DEFINE Z == {T \in SUBSET S : g[T] = f[T]}
  <2>1. {} \in Z
    BY <1>5, <1>7
  <2>2. ASSUME NEW T \in (SUBSET S) \ {{}}, \A V \in SUBSET T : V # T => V \in Z
        PROVE  T \in Z
    <3>1. g[T \ {c[T]}] = f[T \ {c[T]}]
      BY <1>4, <2>2
    <3>2. g[T] = Op(c[T], g[T \ {c[T]}])
      <4>1. c[T] = Max(T)
        BY <1>4
      <4> QED
        BY <1>7, <4>1
    <3> QED
      BY <1>4, <3>1, <3>2
  <2>3. \A T \in SUBSET S : T \in Z
    <3> HIDE DEF Z
    <3> QED
      BY <1>0, <2>1, <2>2, FiniteSubsets
  <2> QED
    BY <2>3
<1>8. Keep(q, A) = f[S]
  <2>1. Keep(q, A) = (CHOOSE g : Is(g))[S]
    BY DEF Keep, FoldLeft, MapThenFoldSet, Op
  <2> HIDE DEF Is
  <2>2. Is(CHOOSE g : Is(g))
    BY <1>6
  <2> QED
    BY <1>7, <2>1, <2>2
<1> DEFINE P(T) == /\ Range(f[T]) = {q[i] : i \in T} \cap A
                   /\ Once(q) => Once(f[T])
           Z == {T \in SUBSET S : P(T)}
<1>9. {} \in Z
  BY <1>5 DEF Once, Range
<1>10. ASSUME NEW T \in (SUBSET S) \ {{}}, \A V \in SUBSET T : V # T => V \in Z
       PROVE  T \in Z
  <2> DEFINE i == c[T]
             k == f[T \ {i}]
  <2>1. /\ i \in T /\ i \in S /\ T \ {i} \in SUBSET T /\ T \ {i} # T
        /\ f[T] = Op(i, k)
    BY <1>4
  <2>2. P(T \ {i})
    <3>1. T \ {i} \in Z
      <4> HIDE DEF Z
      <4> QED
        BY <1>10, <2>1
    <3> HIDE DEF P
    <3> QED
      BY <3>1
  <2>3. Range(k) = {q[j] : j \in T \ {i}} \cap A /\ (Once(q) => Once(k))
    BY <2>2
  <2>a. k \in U /\ q[i] \in Rules
    <3>1. T \ {i} \in SUBSET S
      BY <2>1
    <3> QED
      BY <1>3, <2>1, <3>1
  <2> SUFFICES P(T)
    OBVIOUS
  <2> HIDE DEF k, i
  <2>4. CASE q[i] \notin A
    <3>1. f[T] = k
      BY <2>1, <2>4 DEF Op
    <3>2. {q[j] : j \in T} \cap A = {q[j] : j \in T \ {i}} \cap A
      BY <2>4
    <3> QED
      BY <2>3, <3>1, <3>2 
  <2>5. CASE q[i] \in A
    <3>1. f[T] = Append(k, q[i])
      BY <2>1, <2>5 DEF Op
    <3>2. /\ DOMAIN f[T] = 1 .. (Len(k) + 1) /\ DOMAIN k = 1 .. Len(k) /\ Len(k) \in Nat
          /\ \A j \in 1 .. Len(k) : f[T][j] = k[j]
          /\ f[T][Len(k) + 1] = q[i]
      BY <2>a, <3>1
    <3>3. Range(f[T]) = Range(k) \cup {q[i]}
      <4>1. DOMAIN f[T] = DOMAIN k \cup {Len(k) + 1}
        BY <3>2
      <4>2. \A x \in DOMAIN k : f[T][x] = k[x]
        BY <3>2
      <4>3. Range(f[T]) = {f[T][x] : x \in DOMAIN k} \cup {f[T][Len(k) + 1]}
        BY <4>1 DEF Range
      <4> QED
        BY <3>2, <4>2, <4>3 DEF Range
    <3>4. Once(q) => q[i] \notin Range(k)
      <4>1. \A j \in T \ {i} : j \in S
        BY <2>1
      <4> QED
        BY <2>1, <2>3, <4>1 DEF Once
    <3>5. Once(q) => Once(f[T])
      BY <2>3, <3>2, <3>4 DEF Once, Range
    <3>6. {q[j] : j \in T} \cap A = ({q[j] : j \in T \ {i}} \cap A) \cup {q[i]}
      BY <2>1, <2>5
    <3> QED
      BY <2>3, <3>3, <3>5, <3>6
  <2> QED
    BY <2>4, <2>5
<1>11. \A T \in SUBSET S : T \in Z
  <2> HIDE DEF Z
  <2> QED
    BY <1>0, <1>9, <1>10, FiniteSubsets
<1>12. P(S)
  <2> HIDE DEF P
  <2> QED
    BY <1>11
<1>13. f[S] \in Seq(Rules)
  BY <1>3
<1>14. Range(q) = {q[i] : i \in S}
  BY DEF Range
<1> QED
  BY <1>8, <1>12, <1>13, <1>14

-----------------------------------------------------------------------------
(* The memory.  A device is the only thing that can be unreadable.         *)
Views == UNION {[Sources[r] -> Tri \cup {"none"}] : r \in Rules}
Filters == UNION {Pairs(r) : r \in Rules \ Iot}

Memory == [seen : [Rules -> Views], pexit : SUBSET Filters, penter : SUBSET Filters,
           latched : SUBSET Rules, leaving : SUBSET Rules, fired : SUBSET Rules,
           win : [Rules -> Seq(BOOLEAN)], on : BOOLEAN, pending : Seq(Rules),
           out : Seq({"on_enter", "on_exit"})]

(* What the condition layer keeps: P are the rules that exist.             *)
Observed(m, P) ==
    /\ \A r \in Rules : m.seen[r] \in [Sources[r] -> Tri \cup {"none"}]
    /\ \A r \in Rules \ Iot : \A s \in Sources[r] : m.seen[r][s] # "unknown"
    /\ \A r \in Rules : Len(m.win[r]) <= Window
    /\ m.latched \cup m.leaving \cup m.fired \subseteq P
    /\ \A r \in Rules : Cond(m, r) = "true" => r \in m.latched

(* A debounce is of a session that is seen to be over.  E are the rules in *)
(* effect: those that are enabled, unless the task is paused.              *)
Over(m, E) ==
    \A r \in m.leaving : r \in Of(E, {"session"}) /\ Cond(m, r) = "false" /\ r \notin m.latched

(* What waits may still be entered, waits once, and for a task that is off. *)
Waits(m, E) ==
    /\ Range(m.pending) \subseteq EnterSide(E) /\ Once(m.pending)
    /\ \A r \in Range(m.pending) : r \in Timed \cup m.latched
    /\ m.on => m.pending = <<>> /\ SessionType(E)

Sound(m, P, E) == m \in Memory /\ Observed(m, P) /\ Over(m, E) /\ Waits(m, E)

InEffect == IF paused THEN {} ELSE enabled

Setting == value \in [Iot -> Tri] /\ enabled \subseteq present /\ present \subseteq Rules

-----------------------------------------------------------------------------
(* The task layer.  It leaves what the condition layer keeps alone.        *)
Same(m, n) ==
    /\ n.seen = m.seen /\ n.pexit = m.pexit /\ n.penter = m.penter
    /\ n.latched = m.latched /\ n.leaving = m.leaving

LEMMA SameCond ==
  ASSUME NEW m, NEW n, n.seen = m.seen
  PROVE  /\ \A r : Cond(n, r) = Cond(m, r)
         /\ \A T : GuardsHold(n, T) = GuardsHold(m, T)
         /\ \A T, r : ExitAlreadyTrue(n, T, r) = ExitAlreadyTrue(m, T, r)
  BY DEF Cond, GuardsHold, ExitAlreadyTrue

(* The task T opens on r.                                                  *)
Opened(m, n, T, r) ==
    /\ SessionType(T) /\ r \in EnterSide(T)
    /\ ~m.on /\ n.on /\ n.pending = <<>>
    /\ GuardsHold(m, T) /\ ~ExitAlreadyTrue(m, T, r)

(* What releasing the held-back enters comes to.                           *)
Answered(m, n, T) ==
    /\ n \in Memory /\ Same(m, n)
    /\ Range(n.pending) \subseteq Range(m.pending) /\ (Once(m.pending) => Once(n.pending))
    /\ \A r \in Rules : n.win[r] \in {m.win[r], <<>>}
    /\ \/ n.on = m.on /\ n.out = m.out /\ n.fired = m.fired /\ (n.on => n.pending = <<>>)
       \/ ~SessionType(T) /\ ~m.on /\ ~n.on /\ n.fired = m.fired
       \/ \E r \in Range(m.pending) :
             /\ Cond(m, r) = "true" /\ Opened(m, n, T, r)
             /\ n.fired = m.fired \cup Of({r} \cap Timed, {"session"})
             /\ n.out = Append(m.out, "on_enter")

LEMMA RangeOf ==
  ASSUME NEW S, NEW q \in Seq(S)
  PROVE  Range(q) \subseteq S /\ (q # <<>> => Head(q) \in Range(q))
  BY DEF Range

LEMMA Nothing == /\ <<>> \in Seq(Rules) /\ <<>> \in Seq(BOOLEAN)
                 /\ Range(<<>>) = {} /\ Once(<<>>)
  BY DEF Range, Once

LEMMA ReleasedEffect ==
  ASSUME NEW m \in Memory, NEW q \in Seq(Rules)
  PROVE  /\ Released(m, q) \in Memory /\ Same(m, Released(m, q))
         /\ Released(m, q).pending = m.pending /\ Released(m, q).on = m.on
         /\ Released(m, q).fired = m.fired \cup Of(Range(q) \cap Timed, {"session"})
         /\ \A r \in Rules : Released(m, q).win[r] \in {m.win[r], <<>>}
         /\ Len(q) = 1 => Released(m, q).out = Append(m.out, "on_enter")
<1> DEFINE n == Released(m, q)
           o == [i \in 1 .. Len(q) |-> "on_enter"]
           timed == Range(q) \cap Timed
           ss == Of(timed, {"session"})
<1>1. o \in Seq({"on_enter", "on_exit"}) /\ Len(o) = Len(q) /\ (Len(q) = 1 => o[1] = "on_enter")
  <2>1. Len(q) \in Nat
    OBVIOUS
  <2> QED
    BY <2>1
<1>2. ss \subseteq Rules
  BY RangeOf DEF Of
<1>3. n = [m EXCEPT !.fired = @ \cup ss,
                    !.win = [r \in Rules |-> IF r \in timed \ ss THEN <<>> ELSE @[r]],
                    !.out = @ \o o]
  BY DEF Released
<1> HIDE DEF o, ss, n, timed
<1>4. n \in Memory
  <2>1. [r \in Rules |-> IF r \in timed \ ss THEN <<>> ELSE m.win[r]] \in [Rules -> Seq(BOOLEAN)]
    BY Nothing DEF Memory
  <2>2. m.out \o o \in Seq({"on_enter", "on_exit"}) /\ m.fired \cup ss \in SUBSET Rules
    BY <1>1, <1>2 DEF Memory
  <2> QED
    BY <1>3, <2>1, <2>2 DEF Memory
<1>5. /\ n.seen = m.seen /\ n.pexit = m.pexit /\ n.penter = m.penter
      /\ n.latched = m.latched /\ n.leaving = m.leaving
      /\ n.pending = m.pending /\ n.on = m.on /\ n.fired = m.fired \cup ss
      /\ n.out = m.out \o o
      /\ \A r \in Rules : n.win[r] \in {m.win[r], <<>>}
  BY <1>3 DEF Memory
<1>6. Len(q) = 1 => n.out = Append(m.out, "on_enter")
  <2>1. m.out \in Seq({"on_enter", "on_exit"})
    BY DEF Memory
  <2>2. ASSUME Len(q) = 1 PROVE m.out \o o = Append(m.out, "on_enter")
    <3>1. <<"on_enter">> \in Seq({"on_enter", "on_exit"}) /\ <<"on_enter">>[1] = "on_enter"
          /\ Len(<<"on_enter">>) = 1
      OBVIOUS
    <3>2. o = <<"on_enter">>
      BY <1>1, <2>2, <3>1, SeqEqual
    <3> QED
      BY <2>1, <3>2, AppendIsConcat
  <2> QED
    BY <1>5, <2>2
<1> QED
  BY <1>4, <1>5, <1>6 DEF Same, n, ss, timed

LEMMA ReleaseEffect ==
  ASSUME NEW m \in Memory, NEW T \in SUBSET Rules
  PROVE  Answered(m, Release(m, T), T)
<1> DEFINE kept == Keep(m.pending, MayWait(m, T))
           ready == Keep(kept, MayOpen(m, T))
           n == Release(m, T)
<1>1. m.pending \in Seq(Rules) /\ m.on \in BOOLEAN
  BY DEF Memory
<1>2. /\ kept \in Seq(Rules) /\ Range(kept) = Range(m.pending) \cap MayWait(m, T)
      /\ Once(m.pending) => Once(kept)
  BY <1>1, KeepEffect
<1>3. /\ ready \in Seq(Rules) /\ Range(ready) = Range(kept) \cap MayOpen(m, T)
      /\ Once(m.pending) => Once(ready)
  <2> HIDE DEF kept
  <2> QED
    BY <1>2, KeepEffect
<1>4. n = IF m.on THEN [m EXCEPT !.pending = <<>>]
          ELSE IF ready = <<>> THEN [m EXCEPT !.pending = kept]
          ELSE IF SessionType(T)
               THEN Released([m EXCEPT !.on = TRUE, !.pending = <<>>], <<Head(ready)>>)
               ELSE Released([m EXCEPT !.pending = Without(kept, Range(ready))], ready)
  BY DEF Release
<1> HIDE DEF kept, ready, n
<1>5. CASE m.on
  <2>1. n = [m EXCEPT !.pending = <<>>]
    BY <1>4, <1>5
  <2>2. /\ n \in Memory /\ Same(m, n) /\ n.win = m.win /\ n.on = m.on /\ n.out = m.out
        /\ n.fired = m.fired /\ n.pending = <<>>
    BY <2>1, Nothing DEF Memory, Same
  <2> QED
    BY <2>2, Nothing DEF Answered, n
<1>6. CASE ~m.on /\ ready = <<>>
  <2>1. n = [m EXCEPT !.pending = kept]
    BY <1>4, <1>6
  <2>2. /\ n \in Memory /\ Same(m, n) /\ n.win = m.win /\ n.on = m.on /\ n.out = m.out
        /\ n.fired = m.fired /\ n.pending = kept
    BY <1>2, <2>1 DEF Memory, Same
  <2> QED
    BY <1>2, <1>6, <2>2 DEF Answered, n
<1>7. CASE ~m.on /\ ready # <<>> /\ SessionType(T)
  <2> DEFINE r == Head(ready)
             b == [m EXCEPT !.on = TRUE, !.pending = <<>>]
  <2>1. r \in Range(ready) /\ r \in Rules
    BY <1>3, <1>7, RangeOf
  <2>2. /\ r \in Range(m.pending) /\ r \in EnterSide(T) /\ Cond(m, r) = "true"
        /\ GuardsHold(m, T) /\ ~ExitAlreadyTrue(m, T, r)
    BY <1>2, <1>3, <2>1 DEF MayWait, MayOpen
  <2>3. /\ b \in Memory /\ Same(m, b) /\ b.win = m.win /\ b.on /\ b.out = m.out
        /\ b.fired = m.fired /\ b.pending = <<>>
    BY Nothing DEF Memory, Same
  <2>4. n = Released(b, <<r>>)
    BY <1>4, <1>7
  <2>5. <<r>> \in Seq(Rules) /\ Len(<<r>>) = 1 /\ Range(<<r>>) = {r}
    BY <2>1 DEF Range
  <2> HIDE DEF b
  <2> HIDE DEF r
  <2>6. /\ n \in Memory /\ Same(b, n) /\ n.pending = <<>> /\ n.on
        /\ n.fired = m.fired \cup Of({r} \cap Timed, {"session"})
        /\ \A x \in Rules : n.win[x] \in {m.win[x], <<>>}
        /\ n.out = Append(m.out, "on_enter")
    <3>1. /\ n \in Memory /\ Same(b, n) /\ n.pending = b.pending /\ n.on = b.on
          /\ n.fired = b.fired \cup Of(Range(<<r>>) \cap Timed, {"session"})
          /\ \A x \in Rules : n.win[x] \in {b.win[x], <<>>}
          /\ n.out = Append(b.out, "on_enter")
      BY <2>3, <2>4, <2>5, ReleasedEffect
    <3> QED
      BY <2>3, <2>5, <3>1
  <2>7. Same(m, n)
    BY <2>3, <2>6 DEF Same
  <2>8. Opened(m, n, T, r)
    BY <1>7, <2>2, <2>6 DEF Opened
  <2> QED
    BY <2>2, <2>6, <2>7, <2>8, Nothing DEF Answered, n
<1>8. CASE ~m.on /\ ready # <<>> /\ ~SessionType(T)
  <2> DEFINE rest == Without(kept, Range(ready))
             b == [m EXCEPT !.pending = rest]
  <2>1. rest \in Seq(Rules) /\ Range(rest) \subseteq Range(kept) /\ (Once(kept) => Once(rest))
    BY <1>2, KeepEffect DEF Without
  <2> HIDE DEF rest
  <2>2. /\ b \in Memory /\ Same(m, b) /\ b.win = m.win /\ b.on = m.on /\ b.out = m.out
        /\ b.fired = m.fired /\ b.pending = rest
    BY <2>1 DEF Memory, Same
  <2>3. n = Released(b, ready)
    BY <1>4, <1>8 DEF rest
  <2> HIDE DEF b
  <2>4. /\ n \in Memory /\ Same(b, n) /\ n.pending = rest /\ n.on = m.on
        /\ n.fired = m.fired \cup Of(Range(ready) \cap Timed, {"session"})
        /\ \A x \in Rules : n.win[x] \in {m.win[x], <<>>}
    BY <1>3, <2>2, <2>3, ReleasedEffect
  <2>5. Same(m, n)
    BY <2>2, <2>4 DEF Same
  <2>6. Of(Range(ready) \cap Timed, {"session"}) = {}
    <3>1. Range(ready) \subseteq T
      BY <1>2, <1>3 DEF MayWait, EnterSide, Of
    <3> QED
      BY <1>8, <3>1 DEF SessionType, ExitSide, Of
  <2>7. n.fired = m.fired
    BY <2>4, <2>6
  <2> QED
    BY <1>2, <1>8, <2>1, <2>4, <2>5, <2>7 DEF Answered, n
<1> QED
  BY <1>1, <1>5, <1>6, <1>7, <1>8 DEF n

(* The task layer's answer to an edge of r: what it may change, and when   *)
(* the action may run.                                                     *)
Asked(m, a, T, r) ==
    /\ a.m \in Memory /\ Same(m, a.m)
    /\ a.m.fired = m.fired /\ a.m.win = m.win /\ a.m.out = m.out
    /\ Range(a.m.pending) \subseteq Range(m.pending) \cup Of({r} \cap T, {"enter", "session"})
    /\ Once(m.pending) => Once(a.m.pending)
    /\ a.m.on => a.m.pending = <<>>
    /\ \/ ~a.ok /\ a.m.on = m.on
       \/ a.ok /\ r \in EnterSide(T) /\ ~SessionType(T) /\ ~m.on /\ ~a.m.on
       \/ a.ok /\ Opened(m, a.m, T, r)
       \/ /\ a.ok /\ Direction[r] = "exit" /\ r \in T
          /\ m.on /\ ~a.m.on /\ ~OtherSessionHolds(m, T, r)

LEMMA WithQueue ==
  ASSUME NEW m \in Memory, NEW q \in Seq(Rules)
  PROVE  LET n == [m EXCEPT !.pending = q] IN
         /\ n \in Memory /\ Same(m, n) /\ n.on = m.on /\ n.pending = q
         /\ n.fired = m.fired /\ n.win = m.win /\ n.out = m.out
  BY DEF Memory, Same

LEMMA HandleEnterEffect ==
  ASSUME NEW m \in Memory, NEW T \in SUBSET Rules, NEW r \in EnterSide(T),
         m.on => m.pending = <<>> /\ SessionType(T)
  PROVE  Asked(m, HandleEnter(m, T, r), T, r)
<1> DEFINE a == HandleEnter(m, T, r)
           none == <<>>
<1> SUFFICES Asked(m, a, T, r)
  OBVIOUS
<1>n. none \in Seq(Rules) /\ Range(none) = {} /\ Once(none)
  BY Nothing
<1> HIDE DEF none
<1>0. /\ r \in Rules /\ m.pending \in Seq(Rules) /\ m.on \in BOOLEAN
      /\ Of({r} \cap T, {"enter", "session"}) = {r} /\ Same(m, m)
  BY DEF Memory, EnterSide, Of, Same
<1>1. CASE SessionType(T) /\ m.on
  <2>1. a.m = [m EXCEPT !.pending = none] /\ a.ok = FALSE
    BY <1>1 DEF HandleEnter, No, none
  <2>2. /\ a.m \in Memory /\ Same(m, a.m) /\ a.m.on = m.on /\ a.m.pending = none
        /\ a.m.fired = m.fired /\ a.m.win = m.win /\ a.m.out = m.out
    BY <2>1, <1>n, WithQueue
  <2> HIDE DEF a
  <2> QED
    BY <1>0, <1>1, <1>n, <2>1, <2>2 DEF Asked, none
<1>2. CASE ~(SessionType(T) /\ m.on) /\ ~GuardsHold(m, T)
  <2> DEFINE q == IF r \in Range(m.pending) THEN m.pending ELSE Append(m.pending, r)
  <2>1. a.m = [m EXCEPT !.pending = q] /\ a.ok = FALSE
    BY <1>2 DEF HandleEnter, No
  <2>2. q \in Seq(Rules)
    BY <1>0
  <2>3. Range(q) = Range(m.pending) \cup {r} /\ (Once(m.pending) => Once(q))
    <3>1. CASE r \in Range(m.pending)
      BY <3>1
    <3>2. CASE r \notin Range(m.pending)
      <4>1. q = Append(m.pending, r)
        BY <3>2
      <4>2. /\ DOMAIN q = DOMAIN m.pending \cup {Len(m.pending) + 1} /\ Len(m.pending) \in Nat
            /\ DOMAIN m.pending = 1 .. Len(m.pending)
            /\ \A i \in DOMAIN m.pending : q[i] = m.pending[i]
            /\ q[Len(m.pending) + 1] = r
        BY <1>0, <4>1
      <4> HIDE DEF q
      <4>3. Range(q) = {q[i] : i \in DOMAIN m.pending} \cup {q[Len(m.pending) + 1]}
        BY <4>2 DEF Range
      <4>4. Range(q) = Range(m.pending) \cup {r}
        BY <4>2, <4>3 DEF Range
      <4>5. Once(m.pending) => Once(q)
        BY <3>2, <4>2 DEF Once, Range
      <4> QED
        BY <4>4, <4>5
    <3> QED
      BY <3>1, <3>2
  <2> HIDE DEF q
  <2>4. ~m.on
    BY <1>2
  <2>5. /\ a.m \in Memory /\ Same(m, a.m) /\ a.m.on = m.on /\ a.m.pending = q
        /\ a.m.fired = m.fired /\ a.m.win = m.win /\ a.m.out = m.out
    BY <2>1, <2>2, WithQueue
  <2> HIDE DEF a
  <2> QED
    BY <1>0, <2>1, <2>3, <2>4, <2>5 DEF Asked
<1>3. CASE GuardsHold(m, T) /\ ~SessionType(T)
  <2> DEFINE q == Without(m.pending, {r})
  <2>1. a.m = [m EXCEPT !.pending = q] /\ a.ok = TRUE
    BY <1>3 DEF HandleEnter, Yes
  <2>2. /\ q \in Seq(Rules) /\ Range(q) \subseteq Range(m.pending)
        /\ Once(m.pending) => Once(q)
    BY <1>0, KeepEffect DEF Without
  <2> HIDE DEF q
  <2>3. ~m.on
    BY <1>3
  <2>4. /\ a.m \in Memory /\ Same(m, a.m) /\ a.m.on = m.on /\ a.m.pending = q
        /\ a.m.fired = m.fired /\ a.m.win = m.win /\ a.m.out = m.out
    BY <2>1, <2>2, WithQueue
  <2> HIDE DEF a
  <2> QED
    BY <1>0, <1>3, <2>1, <2>2, <2>3, <2>4 DEF Asked
<1>4. CASE GuardsHold(m, T) /\ SessionType(T) /\ ~m.on /\ ExitAlreadyTrue(m, T, r)
  <2>1. a = No(m)
    BY <1>4 DEF HandleEnter
  <2> QED
    BY <1>0, <1>4, <2>1 DEF No, Asked
<1>5. CASE GuardsHold(m, T) /\ SessionType(T) /\ ~m.on /\ ~ExitAlreadyTrue(m, T, r)
  <2>1. a.m = [m EXCEPT !.on = TRUE, !.pending = none] /\ a.ok = TRUE
    BY <1>5 DEF HandleEnter, Yes, none
  <2>2. /\ a.m \in Memory /\ Same(m, a.m) /\ a.m.on = TRUE /\ a.m.pending = none
        /\ a.m.fired = m.fired /\ a.m.win = m.win /\ a.m.out = m.out
    <3> DEFINE b == [m EXCEPT !.on = TRUE, !.pending = none]
    <3>1. b \in Memory
      BY <1>n DEF Memory
    <3>2. /\ Same(m, b) /\ b.on = TRUE /\ b.pending = none
          /\ b.fired = m.fired /\ b.win = m.win /\ b.out = m.out
      BY DEF Memory, Same
    <3> HIDE DEF b
    <3> QED
      BY <2>1, <3>1, <3>2 DEF b
  <2> HIDE DEF a
  <2> QED
    BY <1>0, <1>5, <1>n, <2>1, <2>2 DEF Asked, Opened, none
<1> QED
  BY <1>0, <1>1, <1>2, <1>3, <1>4, <1>5

LEMMA HandleExitEffect ==
  ASSUME NEW m \in Memory, NEW T \in SUBSET Rules, NEW r \in T,
         m.on => m.pending = <<>>
  PROVE  LET a == HandleExit(m, T, r) IN
         /\ a.m \in Memory /\ Same(m, a.m) /\ a.m.pending = m.pending
         /\ a.m.fired = m.fired /\ a.m.win = m.win /\ a.m.out = m.out
         /\ \/ ~a.ok /\ a.m = m /\ (m.on => OtherSessionHolds(m, T, r))
            \/ a.ok /\ m.on /\ ~a.m.on /\ ~OtherSessionHolds(m, T, r)
         /\ Direction[r] = "exit" => Asked(m, a, T, r)
<1> DEFINE a == HandleExit(m, T, r)
<1>0. m.pending \in Seq(Rules) /\ m.on \in BOOLEAN /\ Same(m, m)
  BY DEF Memory, Same
<1>1. CASE m.on /\ ~OtherSessionHolds(m, T, r)
  <2>1. a.m = [m EXCEPT !.on = FALSE] /\ a.ok = TRUE
    BY <1>1 DEF HandleExit, Yes
  <2>2. [m EXCEPT !.on = FALSE] \in Memory
    BY DEF Memory
  <2>3. /\ a.ok /\ a.m \in Memory /\ Same(m, a.m) /\ a.m.pending = m.pending /\ ~a.m.on
        /\ a.m.fired = m.fired /\ a.m.win = m.win /\ a.m.out = m.out
    BY <2>1, <2>2 DEF Same, Memory
  <2>4. Direction[r] = "exit" => Asked(m, a, T, r)
    <3> HIDE DEF a
    <3> QED
      BY <1>0, <1>1, <2>1, <2>3 DEF Asked
  <2> QED
    BY <1>1, <2>1, <2>3, <2>4
<1>2. CASE ~(m.on /\ ~OtherSessionHolds(m, T, r))
  <2>1. a = No(m)
    BY <1>2 DEF HandleExit
  <2> QED
    BY <1>0, <1>2, <2>1 DEF No, Asked
<1> QED
  BY <1>1, <1>2

LEMMA AskEffect ==
  ASSUME NEW m \in Memory, enabled \in SUBSET Rules, NEW r \in Rules,
         Direction[r] \in {"enter", "exit", "session"},
         m.on => m.pending = <<>> /\ SessionType(enabled)
  PROVE  Asked(m, Ask(m, r), enabled, r)
<1>1. CASE r \notin enabled
  BY <1>1 DEF Ask, No, Asked, Same
<1>2. CASE r \in enabled /\ Direction[r] = "exit"
  BY <1>2, HandleExitEffect DEF Ask
<1>3. CASE r \in enabled /\ Direction[r] \in {"enter", "session"}
  <2>1. r \in EnterSide(enabled)
    BY <1>3 DEF EnterSide, Of
  <2> QED
    BY <1>3, <2>1, HandleEnterEffect DEF Ask
<1> QED
  BY <1>1, <1>2, <1>3

LEMMA FireEffect ==
  ASSUME NEW m \in Memory, NEW slot \in {"on_enter", "on_exit"}
  PROVE  /\ Fire(m, slot) \in Memory /\ Same(m, Fire(m, slot))
         /\ Fire(m, slot).pending = m.pending /\ Fire(m, slot).on = m.on
         /\ Fire(m, slot).fired = m.fired /\ Fire(m, slot).win = m.win
         /\ Fire(m, slot).out = Append(m.out, slot)
<1>1. Append(m.out, slot) \in Seq({"on_enter", "on_exit"})
  BY DEF Memory
<1> QED
  BY <1>1 DEF Fire, Memory, Same

(* What the task layer changes leaves the memory Sound.                    *)
LEMMA SameSound ==
  ASSUME NEW m, NEW n \in Memory, NEW P, NEW E, Sound(m, P, E), Same(m, n),
         \A r \in Rules : n.win[r] \in {m.win[r], <<>>}, n.fired \subseteq P, Waits(n, E)
  PROVE  Sound(n, P, E)
<1>1. Observed(n, P)
  <2>1. \A r \in Rules : Len(n.win[r]) <= Window
    BY RuleTaskAssumption DEF Sound, Observed, Memory
  <2>2. \A r \in Rules : Cond(n, r) = Cond(m, r)
    BY SameCond DEF Same
  <2> QED
    BY <2>1, <2>2 DEF Sound, Observed, Same
<1>2. Over(n, E)
  BY SameCond DEF Sound, Over, Same
<1> QED
  BY <1>1, <1>2 DEF Sound

LEMMA AnsweredSound ==
  ASSUME NEW m, NEW n, NEW P, NEW E \in SUBSET P, Sound(m, P, E), Answered(m, n, E)
  PROVE  Sound(n, P, E)
<1>1. n.fired \subseteq P
  BY DEF Sound, Observed, Waits, Answered, EnterSide, Of
<1>2. Waits(n, E)
  <2>1. n.on => n.pending = <<>> /\ SessionType(E)
    BY DEF Answered, Sound, Waits, Opened
  <2> QED
    BY <2>1 DEF Answered, Sound, Waits, Same
<1> QED
  BY <1>1, <1>2, SameSound DEF Answered

LEMMA AskedSound ==
  ASSUME NEW m, NEW a, NEW P, NEW E \in SUBSET P, NEW r \in Timed \cup m.latched,
         Sound(m, P, E), Asked(m, a, E, r)
  PROVE  Sound(a.m, P, E)
<1>1. Waits(a.m, E)
  <2>1. a.m.on => a.m.pending = <<>> /\ SessionType(E)
    BY DEF Asked, Sound, Waits, Opened
  <2> QED
    BY <2>1 DEF Asked, Sound, Waits, Same, EnterSide, Of
<1>2. a.m \in Memory /\ Same(m, a.m) /\ a.m.fired \subseteq P /\ a.m.win = m.win
  BY DEF Asked, Sound, Observed
<1> QED
  BY <1>1, <1>2, SameSound

LEMMA FireSound ==
  ASSUME NEW m, NEW P, NEW E, NEW slot \in {"on_enter", "on_exit"}, Sound(m, P, E)
  PROVE  Sound(Fire(m, slot), P, E)
<1>1. m \in Memory
  BY DEF Sound
<1>2. Waits(Fire(m, slot), E)
  BY <1>1, FireEffect DEF Sound, Waits, Same
<1>3. Fire(m, slot).fired \subseteq P
  BY <1>1, FireEffect DEF Sound, Observed
<1> QED
  BY <1>1, <1>2, <1>3, FireEffect, SameSound

-----------------------------------------------------------------------------
(* Reading devices.                                                        *)
LEMMA CondType ==
  ASSUME NEW m, NEW r
  PROVE  Cond(m, r) \in Tri
  BY DEF Cond, Or3, Tri, Known

LEMMA CondUniform ==
  ASSUME NEW m, NEW r \in Rules, NEW x \in Tri, \A s \in Sources[r] : m.seen[r][s] = x
  PROVE  Cond(m, r) = x
<1>1. {m.seen[r][s] : s \in Sources[r]} \ {"none"} = {x}
  BY RuleTaskAssumption DEF Tri, Known
<1> QED
  BY <1>1 DEF Cond, Or3, Tri, Known

LEMMA NoFilterOnDevices ==
  ASSUME NEW F \in SUBSET Filters, NEW r \in Iot
  PROVE  F \ Pairs(r) = F
  BY DEF Filters, Pairs

(* mark_source_unknown.                                                    *)
LEMMA MarkUnknownEffect ==
  ASSUME NEW m \in Memory, NEW r \in Iot
  PROVE  LET n == MarkUnknown(m, r) IN
         /\ n \in Memory
         /\ n.seen = [m.seen EXCEPT ![r] = [s \in Sources[r] |-> "unknown"]]
         /\ n.pexit = m.pexit /\ n.penter = m.penter
         /\ n.leaving = m.leaving \ {r} /\ n.latched = m.latched \cup ({r} \cap m.leaving)
         /\ n.on = m.on /\ n.pending = m.pending /\ n.fired = m.fired
         /\ n.win = m.win /\ n.out = m.out
         /\ Cond(n, r) = "unknown" /\ \A q \in Rules \ {r} : Cond(n, q) = Cond(m, q)
<1> DEFINE look == [s \in Sources[r] |-> "unknown"]
           u == [m EXCEPT !.seen[r] = look, !.pexit = @ \ Pairs(r), !.penter = @ \ Pairs(r)]
           n == MarkUnknown(m, r)
<1>0. r \in Rules /\ look \in Views
  BY RuleTaskAssumption DEF Views, Tri
<1> HIDE DEF look
<1>1. m.pexit \ Pairs(r) = m.pexit /\ m.penter \ Pairs(r) = m.penter
  BY NoFilterOnDevices DEF Memory
<1>2. /\ u \in Memory /\ u.seen = [m.seen EXCEPT ![r] = look]
      /\ u.pexit = m.pexit /\ u.penter = m.penter
      /\ u.leaving = m.leaving /\ u.latched = m.latched
      /\ u.on = m.on /\ u.pending = m.pending /\ u.fired = m.fired
      /\ u.win = m.win /\ u.out = m.out
  BY <1>0, <1>1 DEF Memory
<1>3. n = IF r \in m.leaving THEN Rewind(u, r) ELSE u
  BY DEF MarkUnknown, look
<1> HIDE DEF u, n
<1>4. /\ n \in Memory /\ n.seen = u.seen /\ n.pexit = u.pexit /\ n.penter = u.penter
      /\ n.leaving = m.leaving \ {r} /\ n.latched = m.latched \cup ({r} \cap m.leaving)
      /\ n.on = u.on /\ n.pending = u.pending /\ n.fired = u.fired
      /\ n.win = u.win /\ n.out = u.out
  <2>1. CASE r \in m.leaving
    <3>1. n = [u EXCEPT !.leaving = @ \ {r}, !.latched = @ \cup {r}]
      BY <1>3, <2>1 DEF Rewind
    <3> QED
      BY <1>0, <1>2, <2>1, <3>1 DEF Memory
  <2>2. CASE r \notin m.leaving
    <3>1. n = u
      BY <1>3, <2>2
    <3>2. m.leaving \ {r} = m.leaving /\ m.latched \cup ({r} \cap m.leaving) = m.latched
      BY <2>2
    <3> QED
      BY <1>2, <3>1, <3>2
  <2> QED
    BY <2>1, <2>2
<1>5. n.seen = [m.seen EXCEPT ![r] = look] /\ m.seen \in [Rules -> Views]
  BY <1>2, <1>4 DEF Memory
<1>6. Cond(n, r) = "unknown"
  <2>1. n.seen[r] = look
    BY <1>0, <1>5
  <2>2. \A s \in Sources[r] : n.seen[r][s] = "unknown"
    BY <2>1 DEF look
  <2>3. "unknown" \in Tri
    BY DEF Tri
  <2> QED
    BY <1>0, <2>1, <2>2, <2>3, CondUniform
<1>7. \A q \in Rules \ {r} : Cond(n, q) = Cond(m, q)
  BY <1>5 DEF Cond
<1> QED
  BY <1>2, <1>4, <1>5, <1>6, <1>7 DEF n, look

LEMMA MarkUnknownSound ==
  ASSUME NEW m, NEW P, NEW E, NEW r \in Iot, Sound(m, P, E)
  PROVE  Sound(MarkUnknown(m, r), P, E)
<1> DEFINE n == MarkUnknown(m, r)
<1>0. m \in Memory /\ r \in Rules
  BY RuleTaskAssumption DEF Sound
<1>1. /\ n \in Memory
      /\ n.seen = [m.seen EXCEPT ![r] = [s \in Sources[r] |-> "unknown"]]
      /\ n.leaving = m.leaving \ {r} /\ n.latched = m.latched \cup ({r} \cap m.leaving)
      /\ n.on = m.on /\ n.pending = m.pending /\ n.fired = m.fired /\ n.win = m.win
      /\ Cond(n, r) = "unknown" /\ \A q \in Rules \ {r} : Cond(n, q) = Cond(m, q)
  BY <1>0, MarkUnknownEffect
<1> HIDE DEF n
<1>2. Observed(n, P)
  <2>1. m.seen \in [Rules -> Views]
    BY <1>0 DEF Memory
  <2>2. \A q \in Rules : n.seen[q] \in [Sources[q] -> Tri \cup {"none"}]
    BY <1>0, <1>1, <2>1 DEF Sound, Observed, Tri
  <2>3. \A q \in Rules \ Iot : \A s \in Sources[q] : n.seen[q][s] # "unknown"
    BY <1>0, <1>1, <2>1 DEF Sound, Observed
  <2>4. \A q \in Rules : Cond(n, q) = "true" => q \in n.latched
    BY <1>0, <1>1 DEF Sound, Observed
  <2>5. /\ \A q \in Rules : Len(n.win[q]) <= Window
        /\ n.latched \cup n.leaving \cup n.fired \subseteq P
    BY <1>1 DEF Sound, Observed
  <2> QED
    BY <2>2, <2>3, <2>4, <2>5 DEF Observed
<1>3. Over(n, E)
  <2> SUFFICES ASSUME NEW q \in n.leaving
               PROVE  q \in Of(E, {"session"}) /\ Cond(n, q) = "false" /\ q \notin n.latched
    BY DEF Over
  <2>1. q \in m.leaving /\ q # r /\ q \in Rules
    BY <1>0, <1>1 DEF Memory
  <2> QED
    BY <1>1, <2>1 DEF Sound, Over
<1>4. Waits(n, E)
  BY <1>1 DEF Sound, Waits
<1> QED
  BY <1>1, <1>2, <1>3, <1>4 DEF Sound, n

-----------------------------------------------------------------------------
(* The guards read in the middle of an enter.                              *)

(* A way into the task opened between m and n, for an enter that waited.   *)
Relieved(m, n, r) ==
    /\ r \in Range(m.pending) /\ r \in EnterSide(enabled) /\ SessionType(enabled)
    /\ ~m.on /\ n.on /\ n.out = Append(m.out, "on_enter")
    /\ Cond(m, r) = "true" /\ ~ExitAlreadyTrue(m, enabled, r)
    /\ n.fired = m.fired \cup Of({r} \cap Timed, {"session"})

(* Only guards are read, and of the task only what waits is touched.       *)
Refreshes(m, n) ==
    /\ \A r \in Rules : Direction[r] # "guard" =>
          n.seen[r] = m.seen[r] /\ (r \in n.latched <=> r \in m.latched)
    /\ n.leaving = m.leaving /\ n.pexit = m.pexit /\ n.penter = m.penter
    /\ Range(n.pending) \subseteq Range(m.pending)
    /\ \A r \in Rules : n.win[r] \in {m.win[r], <<>>}
    /\ \/ n.on = m.on /\ n.fired = m.fired /\ (SessionType(enabled) => n.out = m.out)
       \/ \E r \in Rules : Relieved(m, n, r)

LEMMA RefreshesSelf ==
  ASSUME NEW m
  PROVE  Refreshes(m, m)
  BY DEF Refreshes

LEMMA RefreshesThen ==
  ASSUME NEW m, NEW u \in Memory, NEW n, Refreshes(m, u), Refreshes(u, n),
         Setting
  PROVE  Refreshes(m, n)
<1>1. /\ \A r \in Rules : Direction[r] # "guard" =>
            n.seen[r] = m.seen[r] /\ (r \in n.latched <=> r \in m.latched)
      /\ n.leaving = m.leaving /\ n.pexit = m.pexit /\ n.penter = m.penter
      /\ Range(n.pending) \subseteq Range(m.pending)
      /\ \A r \in Rules : n.win[r] \in {m.win[r], <<>>}
  BY DEF Refreshes
<1>2. ASSUME u.on = m.on, u.fired = m.fired, SessionType(enabled) => u.out = m.out
      PROVE  Refreshes(m, n)
  <2>1. CASE n.on = u.on /\ n.fired = u.fired /\ (SessionType(enabled) => n.out = u.out)
    BY <1>1, <1>2, <2>1 DEF Refreshes
  <2>2. ASSUME NEW r \in Rules, Relieved(u, n, r) PROVE Refreshes(m, n)
    <3>1. r \in Range(m.pending) /\ Cond(m, r) = "true"
      <4>1. Direction[r] # "guard"
        BY <2>2 DEF Relieved, EnterSide, Of
      <4>2. u.seen[r] = m.seen[r]
        BY <4>1 DEF Refreshes
      <4> QED
        BY <2>2, <4>2 DEF Relieved, Refreshes, Cond
    <3>2. ~ExitAlreadyTrue(m, enabled, r)
      <4>1. \A x \in ExitSide(enabled) : x \in Rules /\ Direction[x] # "guard"
        BY DEF Setting, ExitSide, Of
      <4>2. \A x \in ExitSide(enabled) : u.seen[x] = m.seen[x]
        BY <4>1 DEF Refreshes
      <4>3. \A x \in ExitSide(enabled) : Cond(u, x) = Cond(m, x)
        BY <4>2 DEF Cond
      <4> QED
        BY <2>2, <4>3 DEF Relieved, ExitAlreadyTrue
    <3>3. Relieved(m, n, r)
      BY <1>2, <2>2, <3>1, <3>2 DEF Relieved
    <3> QED
      BY <1>1, <3>3 DEF Refreshes
  <2> QED
    BY <2>1, <2>2 DEF Refreshes
<1>3. ASSUME NEW r \in Rules, Relieved(m, u, r)
      PROVE  Refreshes(m, n)
  <2>1. n.on = u.on /\ n.fired = u.fired /\ (SessionType(enabled) => n.out = u.out)
    BY <1>3 DEF Refreshes, Relieved
  <2>2. Relieved(m, n, r)
    BY <1>3, <2>1 DEF Relieved
  <2> QED
    BY <1>1, <2>2 DEF Refreshes
<1> QED
  BY <1>2, <1>3 DEF Refreshes

LEMMA AnsweredRefreshes ==
  ASSUME NEW m \in Memory, NEW n, Answered(m, n, enabled), Setting
  PROVE  Refreshes(m, n)
<1>1. \A r \in Range(m.pending) : r \in Rules
  BY RangeOf DEF Memory
<1>2. ASSUME NEW r \in Range(m.pending), Cond(m, r) = "true", Opened(m, n, enabled, r),
             n.fired = m.fired \cup Of({r} \cap Timed, {"session"}),
             n.out = Append(m.out, "on_enter")
      PROVE  Relieved(m, n, r)
  BY <1>2 DEF Opened, Relieved
<1>3. \/ n.on = m.on /\ n.fired = m.fired /\ (SessionType(enabled) => n.out = m.out)
      \/ \E r \in Rules : Relieved(m, n, r)
  <2>1. CASE n.on = m.on /\ n.out = m.out /\ n.fired = m.fired
    BY <2>1
  <2>2. CASE ~SessionType(enabled) /\ ~m.on /\ ~n.on /\ n.fired = m.fired
    <3>1. n.on = m.on
      BY <2>2 DEF Memory, Answered
    <3> QED
      BY <2>2, <3>1
  <2> QED
    BY <1>1, <1>2, <2>1, <2>2 DEF Answered
<1> QED
  BY <1>3 DEF Answered, Same, Refreshes

(* The step of a guard g that is read as known.                            *)
GuardRead(g, m) ==
    [m EXCEPT !.seen[g] = [s \in Sources[g] |-> value[g]],
              !.latched = IF value[g] = "true" THEN @ \cup {g} ELSE @ \ {g}]

LEMMA GuardReadEffect ==
  ASSUME NEW m, NEW P, NEW E \in SUBSET P, NEW g \in Iot \cap P, Direction[g] = "guard",
         Sound(m, P, E), P \subseteq Rules, value[g] \in Known
  PROVE  LET v == GuardRead(g, m) IN
         /\ v.seen = [m.seen EXCEPT ![g] = [s \in Sources[g] |-> value[g]]]
         /\ v.on = m.on /\ v.pending = m.pending
         /\ Sound(v, P, E) /\ Refreshes(m, v)
<1> DEFINE look == [s \in Sources[g] |-> value[g]]
           v == GuardRead(g, m)
<1>0. m \in Memory /\ g \in Rules /\ look \in [Sources[g] -> Tri \cup {"none"}] /\ look \in Views
  BY RuleTaskAssumption DEF Sound, Views, Tri, Known
<1>1. /\ v \in Memory /\ v.seen = [m.seen EXCEPT ![g] = look]
      /\ v.latched = (IF value[g] = "true" THEN m.latched \cup {g} ELSE m.latched \ {g})
      /\ v.pexit = m.pexit /\ v.penter = m.penter /\ v.leaving = m.leaving
      /\ v.fired = m.fired /\ v.win = m.win /\ v.on = m.on /\ v.pending = m.pending
      /\ v.out = m.out
  <2>1. v = [m EXCEPT !.seen[g] = look,
                      !.latched = IF value[g] = "true" THEN @ \cup {g} ELSE @ \ {g}]
    BY DEF GuardRead
  <2> HIDE DEF v, look
  <2> QED
    BY <1>0, <2>1 DEF Memory
<1>2. m.seen \in [Rules -> Views]
  BY <1>0 DEF Memory
<1>3. v.seen[g] = look /\ \A q \in Rules \ {g} : v.seen[q] = m.seen[q]
  <2> HIDE DEF v, look
  <2> QED
    BY <1>0, <1>1, <1>2
<1>4. Cond(v, g) = value[g]
  <2>1. value[g] \in Tri /\ \A s \in Sources[g] : v.seen[g][s] = value[g]
    BY <1>3 DEF Tri
  <2> HIDE DEF v, look
  <2> QED
    BY <1>0, <2>1, CondUniform
<1> HIDE DEF v, look
<1>5. \A q \in Rules \ {g} : Cond(v, q) = Cond(m, q)
  BY <1>3 DEF Cond
<1>6. Observed(v, P)
  <2>1. \A q \in Rules : v.seen[q] \in [Sources[q] -> Tri \cup {"none"}]
    BY <1>0, <1>3 DEF Sound, Observed
  <2>2. \A q \in Rules \ Iot : \A s \in Sources[q] : v.seen[q][s] # "unknown"
    BY <1>3 DEF Sound, Observed
  <2>3. \A q \in Rules : Cond(v, q) = "true" => q \in v.latched
    BY <1>1, <1>4, <1>5 DEF Sound, Observed
  <2>4. v.latched \cup v.leaving \cup v.fired \subseteq P
    BY <1>1 DEF Sound, Observed
  <2>5. \A q \in Rules : Len(v.win[q]) <= Window
    BY <1>1 DEF Sound, Observed
  <2> QED
    BY <2>1, <2>2, <2>3, <2>4, <2>5 DEF Observed
<1>7. Over(v, E)
  <2> SUFFICES ASSUME NEW q \in v.leaving
               PROVE  q \in Of(E, {"session"}) /\ Cond(v, q) = "false" /\ q \notin v.latched
    BY DEF Over
  <2>1. q \in Of(E, {"session"}) /\ Cond(m, q) = "false" /\ q \notin m.latched
    BY <1>1 DEF Sound, Over
  <2>2. q # g /\ q \in Rules
    BY <2>1 DEF Of
  <2> QED
    BY <1>1, <1>5, <2>1, <2>2
<1>8. Waits(v, E)
  <2>1. g \notin EnterSide(E)
    BY DEF EnterSide, Of
  <2> QED
    BY <1>1, <2>1 DEF Sound, Waits
<1>9. Refreshes(m, v)
  BY <1>1, <1>3 DEF Refreshes
<1> QED
  BY <1>1, <1>6, <1>7, <1>8, <1>9 DEF Sound, v, look

LEMMA RefreshOneEffect ==
  ASSUME Setting, ~paused, NEW g \in Of(present, {"guard"}) \cap Iot,
         NEW m, Sound(m, present, enabled)
  PROVE  Sound(RefreshOne(g, m), present, enabled) /\ Refreshes(m, RefreshOne(g, m))
<1>0. /\ g \in Rules /\ g \in present /\ g \in Iot /\ Direction[g] = "guard" /\ m \in Memory
      /\ value[g] \in Tri /\ enabled \in SUBSET present /\ enabled \in SUBSET Rules
  BY DEF Setting, Of, Sound
<1>1. CASE value[g] = "unknown"
  <2> DEFINE n == MarkUnknown(m, g)
  <2>1. RefreshOne(g, m) = n
    BY <1>1 DEF RefreshOne
  <2>2. Sound(n, present, enabled)
    BY <1>0, MarkUnknownSound
  <2>3. g \notin m.leaving
    BY <1>0 DEF Sound, Over, Of
  <2>4. /\ n.seen = [m.seen EXCEPT ![g] = [s \in Sources[g] |-> "unknown"]]
        /\ n.pexit = m.pexit /\ n.penter = m.penter
        /\ n.leaving = m.leaving \ {g} /\ n.latched = m.latched \cup ({g} \cap m.leaving)
        /\ n.on = m.on /\ n.pending = m.pending /\ n.fired = m.fired
        /\ n.win = m.win /\ n.out = m.out
    BY <1>0, MarkUnknownEffect
  <2>5. m.seen \in [Rules -> Views]
    BY <1>0 DEF Memory
  <2> HIDE DEF n
  <2>6. Refreshes(m, n)
    BY <1>0, <2>3, <2>4, <2>5 DEF Refreshes
  <2> QED
    BY <2>1, <2>2, <2>6
<1>2. CASE value[g] # "unknown" /\ ~Effective(g)
  <2>1. RefreshOne(g, m) = m
    BY <1>2 DEF RefreshOne
  <2> QED
    BY <2>1, RefreshesSelf
<1>3. CASE value[g] # "unknown" /\ Effective(g)
  <2> DEFINE v == GuardRead(g, m)
             n == RefreshOne(g, m)
  <2>1. value[g] \in Known
    BY <1>0, <1>3 DEF Tri
  <2>2. Sound(v, present, enabled) /\ Refreshes(m, v)
    BY <1>0, <2>1, GuardReadEffect DEF Setting
  <2>3. n = v \/ n = Release(v, enabled)
    BY <1>3 DEF RefreshOne, GuardRead
  <2> HIDE DEF v, n
  <2>4. Answered(v, Release(v, enabled), enabled)
    BY <1>0, <2>2, ReleaseEffect DEF Sound
  <2>5. Sound(Release(v, enabled), present, enabled) /\ Refreshes(v, Release(v, enabled))
    BY <1>0, <2>2, <2>4, AnsweredSound, AnsweredRefreshes DEF Sound
  <2>6. Refreshes(m, Release(v, enabled))
    BY <2>2, <2>5, RefreshesThen DEF Sound
  <2> QED
    BY <2>2, <2>3, <2>5, <2>6 DEF n
<1> QED
  BY <1>1, <1>2, <1>3

LEMMA RefreshedEffect ==
  ASSUME Setting, ~paused, NEW r, NEW m, Sound(m, present, enabled)
  PROVE  Sound(Refreshed(m, r), present, enabled) /\ Refreshes(m, Refreshed(m, r))
<1> DEFINE U == {n \in Memory : Sound(n, present, enabled) /\ Refreshes(m, n)}
           G == (Of(present, {"guard"}) \cap Iot) \ {r}
<1>1. m \in U
  BY RefreshesSelf DEF Sound
<1>2. IsFiniteSet(G)
  <2>1. G \subseteq Rules
    BY DEF Setting, Of
  <2> QED
    BY <2>1, RuleTaskAssumption, FS_Subset
<1>3. ASSUME NEW g \in G, NEW n \in U PROVE RefreshOne(g, n) \in U
  <2>1. Sound(RefreshOne(g, n), present, enabled) /\ Refreshes(n, RefreshOne(g, n))
    BY RefreshOneEffect
  <2>2. Refreshes(m, RefreshOne(g, n))
    BY <2>1, RefreshesThen
  <2> QED
    BY <2>1, <2>2 DEF Sound
<1> HIDE DEF U, G
<1>4. FoldSet(RefreshOne, m, G) \in U
  BY <1>1, <1>2, <1>3, FoldSetInto
<1>5. Refreshed(m, r) = FoldSet(RefreshOne, m, G) \/ Refreshed(m, r) = m
  BY DEF Refreshed, RefreshGuards, G
<1> QED
  BY <1>1, <1>4, <1>5 DEF U

(* With one device among the guards, a refresh that opens the task has     *)
(* read all of them first.                                                 *)
OneDeviceGuard == \A g, h \in Of(Iot, {"guard"}) : g = h

LEMMA RefreshOneGuards ==
  ASSUME OneDeviceGuard, Setting, ~paused, NEW g \in Of(present, {"guard"}) \cap Iot,
         NEW m, Sound(m, present, enabled), RefreshOne(g, m).on,
         m.on => GuardsHold(m, enabled) /\ Cond(m, g) = value[g]
  PROVE  GuardsHold(RefreshOne(g, m), enabled) /\ Cond(RefreshOne(g, m), g) = value[g]
<1> DEFINE n == RefreshOne(g, m)
<1>0. /\ g \in Rules /\ g \in present /\ g \in Iot /\ Direction[g] = "guard" /\ m \in Memory
      /\ value[g] \in Tri /\ enabled \in SUBSET present /\ enabled \in SUBSET Rules
  BY DEF Setting, Of, Sound
<1>1. CASE value[g] = "unknown"
  <2>1. n = MarkUnknown(m, g)
    BY <1>1 DEF RefreshOne
  <2>2. /\ n.on = m.on /\ Cond(n, g) = "unknown"
        /\ \A q \in Rules \ {g} : Cond(n, q) = Cond(m, q)
    <3> DEFINE u == MarkUnknown(m, g)
    <3>1. /\ u.on = m.on /\ Cond(u, g) = "unknown"
          /\ \A q \in Rules \ {g} : Cond(u, q) = Cond(m, q)
      BY <1>0, MarkUnknownEffect
    <3> HIDE DEF u
    <3> QED
      BY <2>1, <3>1 DEF u
  <2>3. GuardsHold(m, enabled) /\ Cond(m, g) # "true"
    BY <1>1, <2>2
  <2>4. g \notin enabled
    BY <1>0, <2>3 DEF GuardsHold, Of
  <2> QED
    BY <1>0, <1>1, <2>2, <2>3, <2>4 DEF GuardsHold, Of
<1>2. CASE value[g] # "unknown" /\ ~Effective(g)
  <2>1. n = m
    BY <1>2 DEF RefreshOne
  <2> QED
    BY <2>1
<1>3. CASE value[g] # "unknown" /\ Effective(g)
  <2> DEFINE v == GuardRead(g, m)
  <2>1. value[g] \in Known
    BY <1>0, <1>3 DEF Tri
  <2>2. /\ v.seen = [m.seen EXCEPT ![g] = [s \in Sources[g] |-> value[g]]] /\ v.on = m.on
        /\ Sound(v, present, enabled)
    BY <1>0, <2>1, GuardReadEffect DEF Setting
  <2>3. \/ n = v
        \/ n = Release(v, enabled)
    BY <1>3 DEF RefreshOne, GuardRead
  <2>4. m.seen \in [Rules -> Views]
    BY <1>0 DEF Memory
  <2> HIDE DEF v
  <2>5. Cond(v, g) = value[g] /\ \A q \in Rules \ {g} : Cond(v, q) = Cond(m, q)
    <3>1. \A s \in Sources[g] : v.seen[g][s] = value[g]
      BY <1>0, <2>2, <2>4
    <3>2. Cond(v, g) = value[g]
      BY <1>0, <3>1, CondUniform
    <3>3. \A q \in Rules \ {g} : v.seen[q] = m.seen[q]
      BY <2>2, <2>4
    <3> QED
      BY <3>2, <3>3 DEF Cond
  <2>6. CASE m.on
    <3>1. GuardsHold(v, enabled)
      <4>1. GuardsHold(m, enabled) /\ Cond(m, g) = value[g]
        BY <2>6
      <4>2. \A q \in Of(enabled, {"guard"}) : Cond(v, q) = Cond(m, q)
        BY <1>0, <2>5, <4>1 DEF Of
      <4> QED
        BY <4>1, <4>2 DEF GuardsHold
    <3>2. n.seen = v.seen
      <4>1. Answered(v, Release(v, enabled), enabled)
        BY <1>0, <2>2, ReleaseEffect DEF Sound
      <4> QED
        BY <2>3, <4>1 DEF Answered, Same
    <3>3. GuardsHold(n, enabled) = GuardsHold(v, enabled) /\ Cond(n, g) = Cond(v, g)
      BY <3>2 DEF GuardsHold, Cond
    <3> QED
      BY <2>5, <3>1, <3>3
  <2>7. CASE ~m.on
    <3>1. Answered(v, Release(v, enabled), enabled)
      BY <1>0, <2>2, ReleaseEffect DEF Sound
    <3>2. n = Release(v, enabled)
      BY <2>2, <2>3, <2>7
    <3>3. GuardsHold(v, enabled) /\ n.seen = v.seen
      BY <2>2, <2>7, <3>1, <3>2 DEF Answered, Opened, Same
    <3>4. GuardsHold(n, enabled) = GuardsHold(v, enabled) /\ Cond(n, g) = Cond(v, g)
      BY <3>3 DEF GuardsHold, Cond
    <3> QED
      BY <2>5, <3>3, <3>4
  <2> QED
    BY <2>6, <2>7
<1> QED
  BY <1>1, <1>2, <1>3

LEMMA RefreshedGuards ==
  ASSUME OneDeviceGuard, Setting, ~paused, NEW r, NEW m, Sound(m, present, enabled),
         Refreshed(m, r).on, ~m.on
  PROVE  GuardsHold(Refreshed(m, r), enabled)
<1> DEFINE G == (Of(present, {"guard"}) \cap Iot) \ {r}
           Read(n) == n.on => GuardsHold(n, enabled) /\ \A g \in G : Cond(n, g) = value[g]
           U == {n \in Memory : Sound(n, present, enabled) /\ Read(n)}
<1>1. m \in U
  BY DEF Sound
<1>2. IsFiniteSet(G)
  <2>1. G \subseteq Rules
    BY DEF Setting, Of
  <2> QED
    BY <2>1, RuleTaskAssumption, FS_Subset
<1>3. ASSUME NEW g \in G, NEW n \in U PROVE RefreshOne(g, n) \in U
  <2>1. Sound(RefreshOne(g, n), present, enabled)
    BY RefreshOneEffect
  <2>2. G = {g}
    BY DEF OneDeviceGuard, Of
  <2>3. Read(RefreshOne(g, n))
    <3>1. SUFFICES ASSUME RefreshOne(g, n).on
                   PROVE  GuardsHold(RefreshOne(g, n), enabled) /\ Cond(RefreshOne(g, n), g) = value[g]
      BY <2>2
    <3>2. n.on => GuardsHold(n, enabled) /\ Cond(n, g) = value[g]
      OBVIOUS
    <3> QED
      BY <3>1, <3>2, RefreshOneGuards
  <2> HIDE DEF Read
  <2> QED
    BY <2>1, <2>3 DEF Sound
<1> HIDE DEF U, G
<1>4. FoldSet(RefreshOne, m, G) \in U
  BY <1>1, <1>2, <1>3, FoldSetInto
<1>5. Refreshed(m, r) = FoldSet(RefreshOne, m, G) \/ Refreshed(m, r) = m
  BY DEF Refreshed, RefreshGuards, G
<1> QED
  BY <1>4, <1>5 DEF U

-----------------------------------------------------------------------------
(* What the operations do to the task: how it opens, and the actions it    *)
(* spawns when it has a way out.                                           *)
Opens(m, n, W) ==
    ~m.on /\ n.on =>
        /\ \A x \in Of(enabled, {"exit"}) : Cond(n, x) # "true"
        /\ \E r \in EnterSide(enabled) : /\ r \in W \/ Cond(n, r) = "true"
                                         /\ r \in Of(Timed, {"session"}) => r \in n.fired
        /\ OneDeviceGuard => GuardsHold(n, enabled)

(* m.out is what a task that was on, or not, before the step has run.      *)
InStep(o, m) ==
    SessionType(enabled) =>
        /\ \A i \in DOMAIN m.out : m.out[i] = IF (i % 2 = 1) <=> o THEN "on_exit" ELSE "on_enter"
        /\ m.on <=> ((Len(m.out) % 2 = 0) <=> o)

KeepsStep(m, n) == \A o \in BOOLEAN : InStep(o, m) => InStep(o, n)

LEMMA QuietStep ==
  ASSUME NEW m, NEW n, n.on = m.on, SessionType(enabled) => n.out = m.out
  PROVE  KeepsStep(m, n)
  BY DEF KeepsStep, InStep

LEMMA ActionStep ==
  ASSUME NEW m \in Memory, NEW n \in Memory, n.on # m.on,
         n.out = Append(m.out, IF n.on THEN "on_enter" ELSE "on_exit")
  PROVE  KeepsStep(m, n)
<1> SUFFICES ASSUME NEW o \in BOOLEAN, SessionType(enabled), InStep(o, m)
             PROVE  InStep(o, n)
  BY DEF KeepsStep, InStep
<1> DEFINE k == Len(m.out)
<1>1. /\ k \in Nat /\ m.on \in BOOLEAN /\ n.on \in BOOLEAN
      /\ DOMAIN m.out = 1 .. k /\ DOMAIN n.out = 1 .. (k + 1) /\ Len(n.out) = k + 1
      /\ \A i \in 1 .. k : n.out[i] = m.out[i]
      /\ n.out[k + 1] = IF n.on THEN "on_enter" ELSE "on_exit"
  BY DEF Memory
<1>2. /\ \A i \in 1 .. k : m.out[i] = IF (i % 2 = 1) <=> o THEN "on_exit" ELSE "on_enter"
      /\ m.on <=> ((k % 2 = 0) <=> o)
  BY <1>1 DEF InStep
<1> HIDE DEF k
<1>3. (k + 1) % 2 = 1 <=> k % 2 = 0
  BY <1>1
<1>4. n.on <=> (((k + 1) % 2 = 0) <=> o)
  <2>1. (k + 1) % 2 = 0 <=> ~(k % 2 = 0)
    BY <1>1
  <2>2. n.on <=> ~m.on
    BY <1>1
  <2> QED
    BY <1>2, <2>1, <2>2
<1>5. n.out[k + 1] = IF ((k + 1) % 2 = 1) <=> o THEN "on_exit" ELSE "on_enter"
  <2>1. n.on <=> ~m.on
    BY <1>1
  <2> QED
    BY <1>1, <1>2, <1>3, <2>1
<1>6. \A i \in DOMAIN n.out : n.out[i] = IF (i % 2 = 1) <=> o THEN "on_exit" ELSE "on_enter"
  <2> SUFFICES ASSUME NEW i \in 1 .. (k + 1)
               PROVE  n.out[i] = IF (i % 2 = 1) <=> o THEN "on_exit" ELSE "on_enter"
    BY <1>1
  <2>1. CASE i = k + 1
    BY <1>5, <2>1
  <2>2. CASE i # k + 1
    <3>1. i \in 1 .. k
      BY <1>1, <2>2
    <3> QED
      BY <1>1, <1>2, <3>1
  <2> QED
    BY <2>1, <2>2
<1> QED
  BY <1>1, <1>4, <1>6 DEF InStep

LEMMA StepThen ==
  ASSUME NEW m, NEW u, NEW n, KeepsStep(m, u), KeepsStep(u, n)
  PROVE  KeepsStep(m, n)
  BY DEF KeepsStep

LEMMA OpensThen ==
  ASSUME Setting, NEW m, NEW u, NEW n, NEW W, Opens(m, u, W), Opens(u, n, W),
         ~m.on /\ u.on /\ n.on =>
            /\ u.fired \subseteq n.fired
            /\ \A q \in Rules : \/ Cond(n, q) = Cond(u, q)
                                \/ q \in W /\ Direction[q] \in {"enter", "session"}
  PROVE  Opens(m, n, W)
<1>1. CASE ~m.on /\ n.on /\ u.on
  <2>1. \A x \in Of(enabled, {"exit", "guard"}) : Cond(n, x) = Cond(u, x)
    BY <1>1 DEF Of, Setting
  <2>2. \A x \in Of(enabled, {"exit"}) : Cond(n, x) # "true"
    BY <1>1, <2>1 DEF Opens, Of
  <2>3. OneDeviceGuard => GuardsHold(n, enabled)
    BY <1>1, <2>1 DEF Opens, Of, GuardsHold
  <2>4. PICK r \in EnterSide(enabled) : /\ r \in W \/ Cond(u, r) = "true"
                                        /\ r \in Of(Timed, {"session"}) => r \in u.fired
    BY <1>1 DEF Opens
  <2>5. r \in Rules
    BY DEF EnterSide, Of, Setting
  <2>6. r \in W \/ Cond(n, r) = "true"
    <3>1. Cond(n, r) = Cond(u, r) \/ r \in W
      BY <1>1, <2>5
    <3> QED
      BY <2>4, <3>1
  <2>7. r \in Of(Timed, {"session"}) => r \in n.fired
    <3>1. u.fired \subseteq n.fired
      BY <1>1
    <3> QED
      BY <2>4, <3>1
  <2> QED
    BY <2>2, <2>3, <2>6, <2>7 DEF Opens
<1>2. CASE ~m.on /\ n.on /\ ~u.on
  BY <1>2 DEF Opens
<1> QED
  BY <1>1, <1>2 DEF Opens

LEMMA RefreshedMoves ==
  ASSUME Setting, ~paused, NEW r, NEW m, Sound(m, present, enabled)
  PROVE  Opens(m, Refreshed(m, r), {}) /\ KeepsStep(m, Refreshed(m, r))
<1> DEFINE n == Refreshed(m, r)
<1>1. Sound(n, present, enabled) /\ Refreshes(m, n) /\ m \in Memory /\ n \in Memory
  BY RefreshedEffect DEF Sound
<1>2. OneDeviceGuard /\ n.on /\ ~m.on => GuardsHold(n, enabled)
  BY RefreshedGuards
<1> HIDE DEF n
<1>3. CASE n.on = m.on /\ n.fired = m.fired /\ (SessionType(enabled) => n.out = m.out)
  BY <1>3, QuietStep DEF Opens, n
<1>4. ASSUME NEW q \in Rules, Relieved(m, n, q)
      PROVE  Opens(m, n, {}) /\ KeepsStep(m, n)
  <2>1. q \in EnterSide(enabled) /\ Direction[q] \in {"enter", "session"}
    BY <1>4 DEF Relieved, EnterSide, Of
  <2>2. Cond(n, q) = "true"
    <3>1. n.seen[q] = m.seen[q]
      BY <1>1, <2>1 DEF Refreshes
    <3>2. Cond(m, q) = "true"
      BY <1>4 DEF Relieved
    <3> QED
      BY <3>1, <3>2 DEF Cond
  <2>3. \A x \in Of(enabled, {"exit"}) : Cond(n, x) # "true"
    <3> SUFFICES ASSUME NEW x \in Of(enabled, {"exit"}) PROVE Cond(n, x) # "true"
      OBVIOUS
    <3>1. x \in Rules /\ Direction[x] = "exit" /\ x \in ExitSide(enabled) \ {q}
      BY <2>1 DEF Of, ExitSide, Setting
    <3>2. Cond(m, x) # "true"
      BY <1>4, <3>1 DEF Relieved, ExitAlreadyTrue
    <3>3. n.seen[x] = m.seen[x]
      BY <1>1, <3>1 DEF Refreshes
    <3> QED
      BY <3>2, <3>3 DEF Cond
  <2>4. Opens(m, n, {})
    <3>1. q \in Of(Timed, {"session"}) => q \in n.fired
      BY <1>4 DEF Relieved, Of
    <3> QED
      BY <1>2, <2>1, <2>2, <2>3, <3>1 DEF Opens
  <2>5. n.on # m.on /\ n.out = Append(m.out, IF n.on THEN "on_enter" ELSE "on_exit")
    BY <1>1, <1>4 DEF Relieved, Memory
  <2> QED
    BY <1>1, <2>4, <2>5, ActionStep
<1> QED
  BY <1>1, <1>3, <1>4 DEF Refreshes, n

LEMMA AnsweredMoves ==
  ASSUME NEW m \in Memory, NEW n, Setting, Answered(m, n, enabled)
  PROVE  Opens(m, n, {}) /\ KeepsStep(m, n)
<1>1. CASE n.on = m.on /\ n.out = m.out
  BY <1>1, QuietStep DEF Opens
<1>2. CASE ~SessionType(enabled) /\ ~m.on /\ ~n.on
  <2>1. n.on = m.on
    BY <1>2 DEF Memory, Answered
  <2> QED
    BY <1>2, <2>1, QuietStep DEF Opens
<1>3. ASSUME NEW q \in Range(m.pending), Cond(m, q) = "true", Opened(m, n, enabled, q),
             n.fired = m.fired \cup Of({q} \cap Timed, {"session"}),
             n.out = Append(m.out, "on_enter")
      PROVE  Opens(m, n, {}) /\ KeepsStep(m, n)
  <2>1. \A r \in Rules : Cond(n, r) = Cond(m, r)
    BY SameCond DEF Answered, Same
  <2>2. GuardsHold(n, enabled)
    BY <1>3, SameCond DEF Answered, Same, Opened
  <2>3. \A x \in Of(enabled, {"exit"}) : x # q /\ x \in ExitSide(enabled) /\ x \in Rules
    BY <1>3 DEF Opened, EnterSide, ExitSide, Of, Setting
  <2>4. \A x \in Of(enabled, {"exit"}) : Cond(n, x) # "true"
    BY <1>3, <2>1, <2>3 DEF Opened, ExitAlreadyTrue
  <2>5. q \in EnterSide(enabled) /\ Cond(n, q) = "true"
    BY <1>3, SameCond DEF Opened, Answered, Same
  <2>6. Opens(m, n, {})
    <3>1. q \in Of(Timed, {"session"}) => q \in n.fired
      BY <1>3 DEF Of
    <3> QED
      BY <2>2, <2>4, <2>5, <3>1 DEF Opens
  <2>7. n.on # m.on /\ n.out = Append(m.out, IF n.on THEN "on_enter" ELSE "on_exit")
    BY <1>3 DEF Opened, Memory, Answered
  <2> QED
    BY <2>6, <2>7, ActionStep DEF Answered
<1> QED
  BY <1>1, <1>2, <1>3 DEF Answered

(* The answer to an edge, and the action spawned on a yes.                 *)
LEMMA AskedMoves ==
  ASSUME NEW m \in Memory, NEW a, NEW n \in Memory, Setting, NEW r \in Rules, NEW W,
         Direction[r] \in {"enter", "exit", "session"},
         Asked(m, a, enabled, r), n.seen = m.seen, n.on = a.m.on,
         n.out = (IF a.ok THEN Append(m.out, SlotOf(r)) ELSE m.out),
         Direction[r] # "exit" => r \in W \/ Cond(m, r) = "true",
         a.ok /\ r \in Of(Timed, {"session"}) => r \in n.fired
  PROVE  Opens(m, n, W) /\ KeepsStep(m, n)
<1>1. CASE ~a.ok /\ a.m.on = m.on
  BY <1>1, QuietStep DEF Opens
<1>2. CASE a.ok /\ ~SessionType(enabled) /\ ~m.on /\ ~a.m.on
  <2>1. n.on = m.on
    BY <1>2 DEF Memory
  <2> QED
    BY <1>2, <2>1, QuietStep DEF Opens
<1>3. CASE a.ok /\ Opened(m, a.m, enabled, r)
  <2>1. r \in EnterSide(enabled) /\ Direction[r] # "exit" /\ n.on /\ ~m.on
    BY <1>3 DEF Opened, EnterSide, Of
  <2>2. GuardsHold(n, enabled) /\ \A x \in Rules : Cond(n, x) = Cond(m, x)
    BY <1>3, SameCond DEF Opened
  <2>3. \A x \in Of(enabled, {"exit"}) : x # r /\ x \in ExitSide(enabled) /\ x \in Rules
    BY <2>1 DEF ExitSide, Of, Setting
  <2>4. \A x \in Of(enabled, {"exit"}) : Cond(n, x) # "true"
    BY <1>3, <2>2, <2>3 DEF Opened, ExitAlreadyTrue
  <2>5. Opens(m, n, W)
    <3>1. r \in Of(Timed, {"session"}) => r \in n.fired
      BY <1>3
    <3> QED
      BY <2>1, <2>2, <2>4, <3>1 DEF Opens
  <2>6. n.on # m.on /\ n.out = Append(m.out, IF n.on THEN "on_enter" ELSE "on_exit")
    BY <1>3, <2>1 DEF SlotOf, Memory
  <2> QED
    BY <2>5, <2>6, ActionStep
<1>4. CASE a.ok /\ Direction[r] = "exit" /\ m.on /\ ~a.m.on
  <2>1. Opens(m, n, W)
    BY <1>4 DEF Opens
  <2>2. n.on # m.on /\ n.out = Append(m.out, IF n.on THEN "on_enter" ELSE "on_exit")
    BY <1>4 DEF SlotOf, Memory
  <2> QED
    BY <2>1, <2>2, ActionStep
<1> QED
  BY <1>1, <1>2, <1>3, <1>4 DEF Asked

-----------------------------------------------------------------------------
(* A duration: one sample, and the edge of a window that is full.          *)
LEMMA SampledWindow ==
  ASSUME NEW q \in Seq(BOOLEAN), NEW v \in BOOLEAN, NEW k \in -1 .. Window
  PROVE  Sampled(q, v, k) \in Seq(BOOLEAN) /\ Len(Sampled(q, v, k)) <= Window
<1> DEFINE gap == [i \in 1 .. k |-> FALSE]
           aged == IF q = <<>> \/ k >= Window THEN <<>> ELSE q \o gap
           all == Append(aged, v)
<1>1. Window \in Nat
  BY RuleTaskAssumption
<1>2. gap \in Seq(BOOLEAN)
  <2>1. CASE k = -1
    <3>1. gap = <<>>
      BY <2>1
    <3> QED
      BY <3>1, Nothing
  <2>2. CASE k # -1
    <3>1. k \in Nat
      BY <1>1, <2>2
    <3> QED
      BY <3>1
  <2> QED
    BY <2>1, <2>2
<1> HIDE DEF gap
<1>3. aged \in Seq(BOOLEAN)
  <2>1. q \o gap \in Seq(BOOLEAN)
    BY <1>2
  <2> QED
    BY <2>1, Nothing
<1> HIDE DEF aged
<1>4. all \in Seq(BOOLEAN)
  BY <1>3
<1> HIDE DEF all
<1>5. LastN(all, Window) \in Seq(BOOLEAN) /\ Len(LastN(all, Window)) <= Window
  <2>1. CASE Len(all) <= Window
    BY <1>4, <2>1 DEF LastN
  <2>2. CASE ~(Len(all) <= Window)
    <3>1. Len(all) \in Nat /\ Len(all) - Window + 1 \in 1 .. Len(all) + 1
      BY <1>1, <1>4, <2>2
    <3>2. LastN(all, Window) = SubSeq(all, Len(all) - Window + 1, Len(all))
      BY <2>2 DEF LastN
    <3>3. SubSeq(all, Len(all) - Window + 1, Len(all)) \in Seq(BOOLEAN)
      BY <1>4, <3>1, SubSeqProperties
    <3>4. Len(SubSeq(all, Len(all) - Window + 1, Len(all))) = Window
      BY <1>1, <1>4, <3>1
    <3> QED
      BY <1>1, <3>2, <3>3, <3>4
  <2> QED
    BY <2>1, <2>2
<1>6. Sampled(q, v, k) = LastN(all, Window)
  BY DEF Sampled, all, aged, gap
<1> QED
  BY <1>5, <1>6

(* What the condition layer knows of the rules other than guards.          *)
Looks(m, n) ==
    /\ \A r \in Rules : Direction[r] # "guard" =>
          n.seen[r] = m.seen[r] /\ (r \in n.latched <=> r \in m.latched)
    /\ n.leaving = m.leaving /\ n.pexit = m.pexit /\ n.penter = m.penter

WithWindow(m, r, q) == [m EXCEPT !.win[r] = q]

LEMMA SampleEffect ==
  ASSUME NEW m, NEW P, NEW E, Sound(m, P, E), NEW r \in Rules,
         NEW q \in Seq(BOOLEAN), Len(q) <= Window
  PROVE  LET u == WithWindow(m, r, q) IN
         /\ Sound(u, P, E) /\ Same(m, u) /\ u.on = m.on /\ u.out = m.out
         /\ u.fired = m.fired /\ u.pending = m.pending /\ u.win[r] = q
<1> DEFINE u == WithWindow(m, r, q)
<1>0. m \in Memory /\ m.win \in [Rules -> Seq(BOOLEAN)]
  BY DEF Sound, Memory
<1>1. /\ u \in Memory /\ Same(m, u) /\ u.on = m.on /\ u.out = m.out
      /\ u.fired = m.fired /\ u.pending = m.pending /\ u.win = [m.win EXCEPT ![r] = q]
  BY <1>0 DEF Memory, Same, WithWindow
<1> HIDE DEF u
<1>2. Observed(u, P)
  <2>1. \A x \in Rules : Cond(u, x) = Cond(m, x)
    BY <1>1, SameCond DEF Same
  <2>2. \A x \in Rules : Len(u.win[x]) <= Window
    BY <1>0, <1>1 DEF Sound, Observed
  <2> QED
    BY <1>1, <2>1, <2>2 DEF Sound, Observed, Same
<1>3. Over(u, E)
  BY <1>1, SameCond DEF Sound, Over, Same
<1>4. Waits(u, E)
  BY <1>1 DEF Sound, Waits, Same
<1> QED
  BY <1>0, <1>1, <1>2, <1>3, <1>4 DEF Sound, u

(* The mark that a duration has been entered, or its window begun anew.    *)
Done(m, r) ==
    IF Direction[r] = "session" THEN [m EXCEPT !.fired = @ \cup {r}] ELSE WithWindow(m, r, <<>>)

LEMMA DoneEffect ==
  ASSUME NEW m, NEW P, NEW E, Sound(m, P, E), NEW r \in P, P \subseteq Rules
  PROVE  LET u == Done(m, r) IN
         /\ Sound(u, P, E) /\ Same(m, u) /\ u.on = m.on /\ u.out = m.out
         /\ u.pending = m.pending /\ u.fired = m.fired \cup Of({r}, {"session"})
<1> DEFINE u == Done(m, r)
<1>0. m \in Memory /\ r \in Rules
  BY DEF Sound
<1>1. CASE Direction[r] = "session"
  <2>1. /\ u \in Memory /\ Same(m, u) /\ u.on = m.on /\ u.out = m.out /\ u.win = m.win
        /\ u.pending = m.pending /\ u.fired = m.fired \cup {r}
    BY <1>0, <1>1 DEF Memory, Same, Done
  <2>2. u.fired \subseteq P /\ Of({r}, {"session"}) = {r}
    BY <1>1, <2>1 DEF Sound, Observed, Of
  <2> HIDE DEF u
  <2>3. Waits(u, E)
    BY <2>1 DEF Sound, Waits, Same
  <2>4. Sound(u, P, E)
    BY <2>1, <2>2, <2>3, SameSound
  <2> QED
    BY <2>1, <2>2, <2>4 DEF u
<1>2. CASE Direction[r] # "session"
  <2> DEFINE none == <<>>
  <2>1. Of({r}, {"session"}) = {}
    BY <1>2 DEF Of
  <2>2. none \in Seq(BOOLEAN) /\ Len(none) <= Window
    BY RuleTaskAssumption
  <2>3. u = WithWindow(m, r, none)
    BY <1>2 DEF Done
  <2> HIDE DEF none, u
  <2>4. /\ Sound(u, P, E) /\ Same(m, u) /\ u.on = m.on /\ u.out = m.out
        /\ u.fired = m.fired /\ u.pending = m.pending
    BY <1>0, <2>2, <2>3, SampleEffect
  <2> QED
    BY <2>1, <2>4 DEF u
<1> QED
  BY <1>1, <1>2

LEMMA LastSample ==
  ASSUME Window = Quota, NEW q \in Seq(BOOLEAN), NEW k \in -1 .. Window
  PROVE  ~Met(Sampled(q, FALSE, k))
<1> DEFINE gap == [i \in 1 .. k |-> FALSE]
           aged == IF q = <<>> \/ k >= Window THEN <<>> ELSE q \o gap
           all == Append(aged, FALSE)
           z == Sampled(q, FALSE, k)
<1>1. Window \in Nat \ {0}
  BY RuleTaskAssumption
<1>2. gap \in Seq(BOOLEAN)
  <2>1. CASE k = -1
    <3>1. gap = <<>>
      BY <2>1
    <3> QED
      BY <3>1, Nothing
  <2>2. CASE k # -1
    <3>1. k \in Nat
      BY <1>1, <2>2
    <3> QED
      BY <3>1
  <2> QED
    BY <2>1, <2>2
<1> HIDE DEF gap
<1>3. aged \in Seq(BOOLEAN)
  <2>1. q \o gap \in Seq(BOOLEAN)
    BY <1>2
  <2> QED
    BY <2>1, Nothing
<1> HIDE DEF aged
<1>4. all \in Seq(BOOLEAN) /\ Len(all) \in Nat \ {0} /\ all[Len(all)] = FALSE
  BY <1>3
<1>5. z = LastN(all, Window)
  BY DEF Sampled, all, aged, gap
<1> HIDE DEF all, z
<1>6. z \in Seq(BOOLEAN) /\ Len(z) \in Nat \ {0} /\ z[Len(z)] = FALSE
  <2>1. CASE Len(all) <= Window
    BY <1>4, <1>5, <2>1 DEF LastN
  <2>2. CASE ~(Len(all) <= Window)
    <3> DEFINE a == Len(all) - Window + 1
               y == SubSeq(all, a, Len(all))
    <3>1. a \in 1 .. Len(all) /\ z = y
      BY <1>1, <1>4, <1>5, <2>2 DEF LastN
    <3>2. y \in Seq(BOOLEAN) /\ Len(y) = Window
      BY <1>1, <1>4, <3>1
    <3>3. y[Window] = all[a + Window - 1]
      BY <1>1, <1>4, <3>1, <3>2
    <3>4. a + Window - 1 = Len(all)
      BY <1>1, <1>4
    <3> QED
      BY <1>1, <1>4, <3>1, <3>2, <3>3, <3>4
  <2> QED
    BY <2>1, <2>2
<1>7. ASSUME Met(z) PROVE FALSE
  <2> DEFINE T == {i \in DOMAIN z : z[i]}
  <2>1. Len(z) = Window /\ Cardinality(T) >= Window
    BY <1>7 DEF Met
  <2>2. T \subseteq 1 .. (Window - 1)
    BY <1>1, <1>6, <2>1
  <2>3. IsFiniteSet(1 .. (Window - 1)) /\ Cardinality(1 .. (Window - 1)) = Window - 1
    BY <1>1, FS_Interval
  <2>4. Cardinality(T) <= Window - 1
    BY <2>2, <2>3, FS_Subset
  <2>5. Cardinality(T) \in Nat
    BY <2>2, <2>3, FS_Subset, FS_CardinalityType
  <2> QED
    BY <1>1, <2>1, <2>4, <2>5
<1> QED
  BY <1>7 DEF z

LEMMA EvaluateEffect ==
  ASSUME Setting, ~paused, NEW r \in Timed \cap enabled, NEW m, Sound(m, present, enabled),
         NEW v \in BOOLEAN, NEW k \in -1 .. Window
  PROVE  LET n == EvaluateDuration(m, r, v, k) IN
         /\ Sound(n, present, enabled) /\ Looks(m, n) /\ m.fired \subseteq n.fired
         /\ Opens(m, n, {r}) /\ KeepsStep(m, n)
         /\ Direction[r] = "exit" => (n.on => m.on)
         /\ Window = Quota /\ ~v => n.on = m.on
<1> DEFINE q == Sampled(m.win[r], v, k)
           u == WithWindow(m, r, q)
           y == IF v THEN Refreshed(u, r) ELSE u
           a == Ask(y, r)
           d == Done(a.m, r)
           n == EvaluateDuration(m, r, v, k)
<1>0. /\ r \in Rules /\ Direction[r] \in {"enter", "exit", "session"} /\ m \in Memory
      /\ enabled \in SUBSET present /\ enabled \in SUBSET Rules /\ r \in present
  BY RuleTaskAssumption DEF Setting, Sound
<1>1. q \in Seq(BOOLEAN) /\ Len(q) <= Window
  BY <1>0, SampledWindow DEF Memory
<1>3. n \in {m, u, y, a.m} \/ (a.ok /\ n = Fire(d, SlotOf(r)))
  BY DEF EvaluateDuration, WithWindow, Done
<1> HIDE DEF q, n
<1>q. Window = Quota /\ ~v => n \in {m, u}
  <2>1. Window = Quota /\ ~v => ~Met(q)
    BY <1>0, LastSample DEF Memory, q
  <2>2. u.win[r] = q
    BY <1>0 DEF Memory, WithWindow
  <2>3. ~Met(u.win[r]) => n \in {m, u}
    BY DEF EvaluateDuration, WithWindow, n, u, q
  <2> HIDE DEF u
  <2> QED
    BY <2>1, <2>2, <2>3
<1>4. /\ Sound(u, present, enabled) /\ Same(m, u) /\ u.on = m.on /\ u.out = m.out
      /\ u.fired = m.fired
  BY <1>0, <1>1, SampleEffect
<1>5. Looks(m, u) /\ Opens(m, u, {r}) /\ KeepsStep(m, u)
  BY <1>4, QuietStep DEF Looks, Same, Opens
<1> HIDE DEF u
<1>6. Sound(y, present, enabled) /\ Looks(u, y) /\ Opens(u, y, {}) /\ KeepsStep(u, y)
      /\ u.fired \subseteq y.fired
  <2>1. CASE v
    <3>1. y = Refreshed(u, r)
      BY <2>1
    <3>2. Sound(y, present, enabled) /\ Refreshes(u, y)
      BY <1>4, <3>1, RefreshedEffect
    <3>3. Opens(u, y, {}) /\ KeepsStep(u, y)
      BY <1>4, <3>1, RefreshedMoves
    <3> HIDE DEF y
    <3>4. Looks(u, y)
      BY <3>2 DEF Refreshes, Looks
    <3>5. u.fired \subseteq y.fired
      BY <3>2 DEF Refreshes, Relieved
    <3> QED
      BY <3>2, <3>3, <3>4, <3>5
  <2>2. CASE ~v
    BY <1>4, <2>2, QuietStep DEF Looks, Opens
  <2> QED
    BY <2>1, <2>2
<1>e. Direction[r] = "exit" => y.on = m.on
  BY <1>4 DEF Refreshed
<1>7. Looks(m, y) /\ KeepsStep(m, y) /\ Opens(m, y, {r}) /\ m.fired \subseteq y.fired
  <2>1. Opens(m, y, {r})
    BY <1>4, <1>6 DEF Opens
  <2> QED
    BY <1>4, <1>5, <1>6, <2>1, StepThen DEF Looks
<1> HIDE DEF y
<1>8. Asked(y, a, enabled, r) /\ Sound(a.m, present, enabled)
  <2>1. y.on => y.pending = <<>> /\ SessionType(enabled)
    BY <1>6 DEF Sound, Waits
  <2>2. Asked(y, a, enabled, r)
    BY <1>0, <1>6, <2>1, AskEffect DEF Sound
  <2> HIDE DEF a
  <2> QED
    BY <1>0, <1>6, <2>2, AskedSound
<1> HIDE DEF a
<1>9. ASSUME ~a.ok \/ n = Fire(d, SlotOf(r)), n = a.m \/ (a.ok /\ n = Fire(d, SlotOf(r)))
      PROVE  /\ Sound(n, present, enabled) /\ Looks(m, n) /\ m.fired \subseteq n.fired
             /\ Opens(m, n, {r}) /\ KeepsStep(m, n)
             /\ Direction[r] = "exit" => (n.on => m.on)
  <2>1. /\ Sound(n, present, enabled) /\ Same(a.m, n) /\ n.on = a.m.on
        /\ n.out = IF a.ok THEN Append(y.out, SlotOf(r)) ELSE y.out
        /\ a.m.fired \subseteq n.fired /\ (a.ok /\ r \in Of(Timed, {"session"}) => r \in n.fired)
    <3>1. CASE ~a.ok
      BY <1>8, <1>9, <3>1 DEF Asked, Same
    <3>2. CASE a.ok
      <4>1. Sound(d, present, enabled) /\ Same(a.m, d) /\ d.on = a.m.on /\ d.out = a.m.out
            /\ d.fired = a.m.fired \cup Of({r}, {"session"})
        <5> DEFINE z == a.m
        <5>1. Sound(z, present, enabled) /\ r \in present /\ present \subseteq Rules
          BY <1>0, <1>8 DEF Setting
        <5> HIDE DEF z
        <5>2. /\ Sound(Done(z, r), present, enabled) /\ Same(z, Done(z, r))
              /\ Done(z, r).on = z.on /\ Done(z, r).out = z.out
              /\ Done(z, r).fired = z.fired \cup Of({r}, {"session"})
          BY <5>1, DoneEffect
        <5> QED
          BY <5>2 DEF z
      <4>2. SlotOf(r) \in {"on_enter", "on_exit"} /\ n = Fire(d, SlotOf(r))
        BY <1>9, <3>2 DEF SlotOf
      <4> HIDE DEF d
      <4>3. Sound(n, present, enabled)
        BY <4>1, <4>2, FireSound
      <4>4. Same(d, n) /\ n.on = d.on /\ n.out = Append(d.out, SlotOf(r)) /\ n.fired = d.fired
        BY <4>1, <4>2, FireEffect DEF Sound
      <4> QED
        BY <1>8, <3>2, <4>1, <4>3, <4>4 DEF Same, Asked, Of
    <3> QED
      BY <3>1, <3>2
  <2>2. Same(y, n)
    BY <1>8, <2>1 DEF Same, Asked
  <2>3. Opens(y, n, {r}) /\ KeepsStep(y, n)
    BY <1>0, <1>6, <1>8, <2>1, <2>2, AskedMoves DEF Same, Sound
  <2>4. Opens(m, n, {r})
    <3>1. y.fired \subseteq n.fired
      BY <1>8, <2>1 DEF Asked
    <3>2. \A x \in Rules : Cond(n, x) = Cond(y, x)
      BY <2>2, SameCond DEF Same
    <3> DEFINE W == {r}
    <3>3. Opens(m, y, W) /\ Opens(y, n, W)
      BY <1>7, <2>3
    <3> HIDE DEF W
    <3>4. Opens(m, n, W)
      BY <3>1, <3>2, <3>3, OpensThen
    <3> QED
      BY <3>4 DEF W
  <2>5. Looks(m, n) /\ KeepsStep(m, n) /\ m.fired \subseteq n.fired
    BY <1>7, <1>8, <2>1, <2>2, <2>3, StepThen DEF Looks, Same, Asked
  <2>6. Direction[r] = "exit" => (n.on => m.on)
    BY <1>8, <1>e, <2>1 DEF Asked, Opened, EnterSide, Of
  <2> QED
    BY <2>1, <2>4, <2>5, <2>6
<1>f. Window = Quota /\ ~v => n.on = m.on
  BY <1>q, <1>4
<1>10. CASE n = m
  BY <1>10, QuietStep DEF Looks, Opens, n
<1>11. CASE n \in {u, y}
  BY <1>4, <1>5, <1>6, <1>7, <1>e, <1>f, <1>11 DEF n
<1>12. CASE ~(n \in {m, u, y})
  <2>1. (n = a.m /\ ~a.ok) \/ (a.ok /\ n = Fire(d, SlotOf(r)))
    BY <1>3, <1>12 DEF n, EvaluateDuration, WithWindow, Done, u, y, a, q
  <2> QED
    BY <1>9, <1>f, <2>1 DEF n
<1> QED
  BY <1>10, <1>11, <1>12

-----------------------------------------------------------------------------
(* A frame, a device's value: the rest of update_state.                    *)
LEMMA FilteredEffect ==
  ASSUME NEW m, NEW P, NEW E, Sound(m, P, E), NEW r \in Rules \ Iot, NEW s \in Sources[r],
         NEW v
  PROVE  LET n == Filtered(m, r, s, v) IN
         /\ Sound(n, P, E) /\ n.seen = m.seen /\ n.latched = m.latched /\ n.leaving = m.leaving
         /\ n.fired = m.fired /\ n.win = m.win /\ n.on = m.on /\ n.pending = m.pending
         /\ n.out = m.out
<1> DEFINE n == Filtered(m, r, s, v)
<1>0. m \in Memory /\ <<r, s>> \in Filters
  BY DEF Sound, Filters, Pairs
<1>1. /\ n \in Memory /\ n.seen = m.seen /\ n.latched = m.latched /\ n.leaving = m.leaving
      /\ n.fired = m.fired /\ n.win = m.win /\ n.on = m.on /\ n.pending = m.pending
      /\ n.out = m.out
  BY <1>0 DEF Memory, Filtered
<1> HIDE DEF n
<1>2. \A q : Cond(n, q) = Cond(m, q)
  BY <1>1, SameCond
<1>3. Observed(n, P) /\ Over(n, E) /\ Waits(n, E)
  BY <1>1, <1>2 DEF Sound, Observed, Over, Waits
<1> QED
  BY <1>1, <1>3 DEF Sound, n

LEMMA ExitedEffect ==
  ASSUME Setting, NEW m \in Memory, NEW r \in enabled, Observed(m, present), Over(m, enabled),
         Range(m.pending) \subseteq EnterSide(enabled), Once(m.pending),
         \A q \in Range(m.pending) \ {r} : q \in Timed \cup m.latched,
         m.on => m.pending = <<>> /\ SessionType(enabled),
         Cond(m, r) = "false", r \notin m.latched
  PROVE  LET n == Exited(m, r) IN
         /\ Sound(n, present, enabled) /\ n.seen = m.seen /\ n.latched = m.latched
         /\ n.on = m.on /\ n.out = m.out /\ n.fired = m.fired
         /\ n.leaving = m.leaving \/ n.leaving = m.leaving \cup {r}
         /\ Direction[r] = "session" /\ (r \in Timed => r \in m.fired) => r \in n.leaving
         /\ r \in n.leaving \ m.leaving => (r \in Timed => r \in m.fired)
<1> DEFINE q == Without(m.pending, {r})
           c == [m EXCEPT !.pending = q]
           n == Exited(m, r)
<1>0. r \in Rules /\ r \in present /\ m.pending \in Seq(Rules)
  BY DEF Setting, Memory
<1>1. /\ q \in Seq(Rules) /\ Range(q) \subseteq Range(m.pending) \ {r} /\ Once(q)
      /\ m.pending = <<>> => q = <<>>
  <2>1. q \in Seq(Rules) /\ Range(q) = Range(m.pending) \cap (Rules \ {r}) /\ Once(q)
    BY <1>0, KeepEffect DEF Without
  <2>2. ASSUME m.pending = <<>> PROVE q = <<>>
    <3> HIDE DEF q
    <3>1. Range(q) = {}
      BY <2>1, <2>2, Nothing
    <3> QED
      BY <2>1, <3>1, RangeOf
  <2> QED
    BY <2>1, <2>2
<1>2. \/ n = c
      \/ n = [c EXCEPT !.leaving = @ \cup {r}, !.penter = @ \ Pairs(r)] /\ Direction[r] = "session"
  BY DEF Exited
<1> HIDE DEF q
<1>4. /\ c \in Memory /\ c.seen = m.seen /\ c.latched = m.latched /\ c.leaving = m.leaving
      /\ c.fired = m.fired /\ c.win = m.win /\ c.on = m.on /\ c.pending = q /\ c.out = m.out
      /\ c.penter = m.penter
  BY <1>1 DEF Memory
<1>5. IF Direction[r] = "session" /\ (r \in Timed => r \in m.fired)
      THEN n = [c EXCEPT !.leaving = @ \cup {r}, !.penter = @ \ Pairs(r)] ELSE n = c
  BY DEF Exited, q
<1> HIDE DEF c, n
<1>6. /\ n \in Memory /\ n.seen = m.seen /\ n.latched = m.latched
      /\ n.leaving = m.leaving \cup (IF Direction[r] = "session" /\ (r \in Timed => r \in m.fired)
                                    THEN {r} ELSE {})
      /\ n.fired = m.fired /\ n.win = m.win /\ n.on = m.on /\ n.pending = q /\ n.out = m.out
  <2>1. CASE Direction[r] = "session" /\ (r \in Timed => r \in m.fired)
    <3>1. n = [c EXCEPT !.leaving = @ \cup {r}, !.penter = @ \ Pairs(r)]
      BY <1>5, <2>1
    <3>2. c.leaving \cup {r} \in SUBSET Rules /\ c.penter \ Pairs(r) \in SUBSET Filters
      BY <1>0, <1>4 DEF Memory
    <3>3. n \in Memory /\ n.leaving = m.leaving \cup {r}
      BY <1>4, <3>1, <3>2 DEF Memory
    <3> QED
      BY <1>4, <2>1, <3>1, <3>3 DEF Memory
  <2>2. CASE ~(Direction[r] = "session" /\ (r \in Timed => r \in m.fired))
    BY <1>4, <1>5, <2>2
  <2> QED
    BY <2>1, <2>2
<1>7. \A x : Cond(n, x) = Cond(m, x)
  BY <1>6, SameCond
<1>8. Observed(n, present)
  BY <1>0, <1>6, <1>7 DEF Observed
<1>9. Over(n, enabled)
  BY <1>6, <1>7 DEF Over, Of
<1>10. Waits(n, enabled)
  BY <1>1, <1>6 DEF Waits
<1> QED
  BY <1>6, <1>8, <1>9, <1>10 DEF Sound, n


(* One source says v of r, and the aggregate of r is compared with it.     *)
Looked(m, r, s, v) ==
    [m EXCEPT !.seen[r][s] = IF v THEN "true" ELSE "false",
              !.pexit = @ \ {<<r, s>>},
              !.penter = IF r \in m.leaving /\ r \notin Iot THEN @ \ {<<r, s>>} ELSE @]

Latch(b, r) == [b EXCEPT !.latched = IF Cond(b, r) = "true" THEN @ \cup {r} ELSE @ \ {r}]

LEMMA LookedEffect ==
  ASSUME NEW m \in Memory, NEW r \in Rules, NEW s \in Sources[r], NEW v \in BOOLEAN,
         m.seen[r] \in [Sources[r] -> Tri \cup {"none"}],
         r \notin Iot => \A x \in Sources[r] : m.seen[r][x] # "unknown"
  PROVE  LET b == Looked(m, r, s, v) IN
         /\ b \in Memory /\ \A q \in Rules \ {r} : b.seen[q] = m.seen[q]
         /\ b.seen[r] = [m.seen[r] EXCEPT ![s] = IF v THEN "true" ELSE "false"]
         /\ b.latched = m.latched /\ b.leaving = m.leaving /\ b.fired = m.fired
         /\ b.win = m.win /\ b.on = m.on /\ b.pending = m.pending /\ b.out = m.out
         /\ Cond(b, r) \in Known /\ (v => Cond(b, r) = "true")
         /\ r \in Iot => Cond(b, r) = IF v THEN "true" ELSE "false"
<1> DEFINE b == Looked(m, r, s, v)
           said == IF v THEN "true" ELSE "false"
           look == [m.seen[r] EXCEPT ![s] = said]
<1>0. said \in Known /\ (v => said = "true")
  BY DEF Known
<1>1. look \in [Sources[r] -> Tri \cup {"none"}] /\ look[s] = said
      /\ \A x \in Sources[r] \ {s} : look[x] = m.seen[r][x]
  BY <1>0 DEF Tri
<1>2. look \in Views
  BY <1>1 DEF Views
<1>3. b = [m EXCEPT !.seen[r] = look, !.pexit = @ \ {<<r, s>>},
                    !.penter = IF r \in m.leaving /\ r \notin Iot THEN @ \ {<<r, s>>} ELSE @]
  BY DEF Looked
<1> HIDE DEF look, b
<1>4. /\ b \in Memory /\ b.seen = [m.seen EXCEPT ![r] = look]
      /\ b.latched = m.latched /\ b.leaving = m.leaving /\ b.fired = m.fired
      /\ b.win = m.win /\ b.on = m.on /\ b.pending = m.pending /\ b.out = m.out
  BY <1>2, <1>3 DEF Memory
<1>5. b.seen[r] = look /\ \A q \in Rules \ {r} : b.seen[q] = m.seen[q]
  BY <1>4 DEF Memory
<1>6. r \in Iot => Sources[r] = {s}
  <2> SUFFICES ASSUME r \in Iot PROVE Sources[r] = {s}
    OBVIOUS
  <2>1. IsFiniteSet(Sources[r]) /\ Cardinality(Sources[r]) = 1
    BY RuleTaskAssumption
  <2>2. PICK x : Sources[r] = {x}
    BY <2>1, FS_Singleton
  <2> QED
    BY <2>2
<1>7. \A x \in Sources[r] : look[x] \in Known \cup {"none"}
  BY <1>0, <1>1, <1>6 DEF Tri
<1>8. Cond(b, r) \in Known /\ (v => Cond(b, r) = "true")
  <2> DEFINE vals == {b.seen[r][x] : x \in Sources[r]} \ {"none"}
  <2>1. vals \subseteq Known /\ said \in vals
    BY <1>0, <1>1, <1>5, <1>7 DEF Known
  <2>2. Cond(b, r) = Or3(vals)
    BY DEF Cond
  <2> HIDE DEF vals
  <2> QED
    BY <1>0, <2>1, <2>2 DEF Or3, Known
<1>9. r \in Iot => Cond(b, r) = said
  <2> SUFFICES ASSUME r \in Iot PROVE Cond(b, r) = said
    OBVIOUS
  <2>1. \A x \in Sources[r] : b.seen[r][x] = said
    BY <1>1, <1>5, <1>6
  <2> QED
    BY <1>0, <2>1, CondUniform DEF Tri
<1> QED
  BY <1>4, <1>5, <1>8, <1>9 DEF b, look

LEMMA LatchEffect ==
  ASSUME NEW m, NEW P, NEW E, Sound(m, P, E), NEW r \in Rules, r \in P,
         NEW s \in Sources[r], NEW v \in BOOLEAN
  PROVE  LET l == Latch(Looked(m, r, s, v), r) IN
         /\ l \in Memory /\ Observed(l, P)
         /\ \A q \in Rules \ {r} : l.seen[q] = m.seen[q] /\ (q \in l.latched <=> q \in m.latched)
         /\ l.leaving = m.leaving /\ l.fired = m.fired /\ l.on = m.on
         /\ l.pending = m.pending /\ l.out = m.out /\ l.win = m.win
         /\ Cond(l, r) = Cond(Looked(m, r, s, v), r)
         /\ Cond(l, r) \in Known /\ (r \in l.latched <=> Cond(l, r) = "true")
         /\ v => Cond(l, r) = "true"
         /\ r \in Iot => Cond(l, r) = IF v THEN "true" ELSE "false"
<1> DEFINE b == Looked(m, r, s, v)
           l == Latch(b, r)
           said == IF v THEN "true" ELSE "false"
<1>0. /\ m \in Memory /\ m.seen[r] \in [Sources[r] -> Tri \cup {"none"}]
      /\ r \notin Iot => \A x \in Sources[r] : m.seen[r][x] # "unknown"
  BY DEF Sound, Observed
<1>1. /\ b \in Memory /\ \A q \in Rules \ {r} : b.seen[q] = m.seen[q]
      /\ b.seen[r] = [m.seen[r] EXCEPT ![s] = said]
      /\ b.latched = m.latched /\ b.leaving = m.leaving /\ b.fired = m.fired
      /\ b.win = m.win /\ b.on = m.on /\ b.pending = m.pending /\ b.out = m.out
      /\ Cond(b, r) \in Known /\ (v => Cond(b, r) = "true")
      /\ r \in Iot => Cond(b, r) = said
  BY <1>0, LookedEffect
<1>2. said \in Known
  BY DEF Known
<1> HIDE DEF b, said
<1>3. /\ l \in Memory /\ l.seen = b.seen /\ l.leaving = b.leaving /\ l.fired = b.fired
      /\ l.win = b.win /\ l.on = b.on /\ l.pending = b.pending /\ l.out = b.out
      /\ l.latched = IF Cond(b, r) = "true" THEN b.latched \cup {r} ELSE b.latched \ {r}
  BY <1>1 DEF Memory, Latch
<1> HIDE DEF l
<1>4. \A q : Cond(l, q) = Cond(b, q)
  BY <1>3, SameCond
<1>5. \A q \in Rules \ {r} : Cond(l, q) = Cond(m, q)
  BY <1>1, <1>3 DEF Cond
<1>6. Observed(l, P)
  <2>1. \A q \in Rules : l.seen[q] \in [Sources[q] -> Tri \cup {"none"}]
    <3>1. l.seen[r] \in [Sources[r] -> Tri \cup {"none"}]
      BY <1>0, <1>1, <1>2, <1>3 DEF Tri
    <3> QED
      BY <1>1, <1>3, <3>1 DEF Sound, Observed
  <2>2. \A q \in Rules \ Iot : \A x \in Sources[q] : l.seen[q][x] # "unknown"
    <3>1. r \notin Iot => \A x \in Sources[r] : l.seen[r][x] # "unknown"
      BY <1>0, <1>1, <1>2, <1>3 DEF Known
    <3>2. \A q \in Rules \ Iot : \A x \in Sources[q] : m.seen[q][x] # "unknown"
      BY DEF Sound, Observed
    <3> QED
      BY <1>1, <1>3, <3>1, <3>2
  <2>3. \A q \in Rules : Cond(l, q) = "true" => q \in l.latched
    <3>1. \A q \in Rules : Cond(m, q) = "true" => q \in m.latched
      BY DEF Sound, Observed
    <3> QED
      BY <1>1, <1>3, <1>4, <1>5, <3>1
  <2>4. l.latched \cup l.leaving \cup l.fired \subseteq P
    BY <1>1, <1>3 DEF Sound, Observed
  <2>5. \A q \in Rules : Len(l.win[q]) <= Window
    BY <1>1, <1>3 DEF Sound, Observed
  <2> QED
    BY <2>1, <2>2, <2>3, <2>4, <2>5 DEF Observed
<1> QED
  BY <1>1, <1>3, <1>4, <1>6 DEF l, b, said

(* _dispatch_event, for a rule r that has just become true.                *)
LEMMA EnteredEffect ==
  ASSUME Setting, ~paused, NEW r \in enabled, NEW m \in Memory, Observed(m, present),
         Waits(m, enabled), Cond(m, r) = "true", r \in m.latched,
         \A q \in m.leaving : /\ q \in Of(enabled, {"session"})
                              /\ q # r => Cond(m, q) = "false" /\ q \notin m.latched
  PROVE  LET n == Entered(m, r) IN
         /\ Sound(n, present, enabled) /\ Opens(m, n, {}) /\ KeepsStep(m, n)
         /\ m.fired \subseteq n.fired /\ n.leaving = m.leaving \ {r}
         /\ \A q \in Rules : Direction[q] # "guard" =>
               n.seen[q] = m.seen[q] /\ (q \in n.latched <=> q \in m.latched)
         /\ r \in Timed => n.seen = m.seen
         /\ Direction[r] = "exit" /\ r \notin Timed /\ Of(enabled, {"session"}) = {} => ~n.on
<1> DEFINE n == Entered(m, r)
           calm == [m EXCEPT !.leaving = @ \ {r}, !.penter = @ \ Pairs(r)]
           y == Refreshed(calm, r)
           a == Ask(y, r)
<1>0. /\ r \in Rules /\ r \in present /\ enabled \in SUBSET present /\ enabled \in SUBSET Rules
      /\ Direction[r] \in {"enter", "exit", "session", "guard"}
  BY RuleTaskAssumption DEF Setting
<1>1. CASE Direction[r] = "guard"
  <2>1. n = Release(m, enabled)
    BY <1>1 DEF Entered
  <2>2. r \notin m.leaving
    BY <1>1 DEF Of
  <2>3. Sound(m, present, enabled)
    BY <2>2 DEF Sound, Over
  <2>4. Answered(m, n, enabled)
    BY <1>0, <2>1, ReleaseEffect
  <2> HIDE DEF n
  <2>5. Sound(n, present, enabled) /\ Opens(m, n, {}) /\ KeepsStep(m, n)
    BY <1>0, <2>3, <2>4, AnsweredSound, AnsweredMoves
  <2>6. m.fired \subseteq n.fired /\ Same(m, n)
    BY <2>4 DEF Answered
  <2>7. m.leaving \ {r} = m.leaving
    BY <2>2
  <2> QED
    BY <1>1, <2>5, <2>6, <2>7 DEF Same, n
<1>2. CASE Direction[r] # "guard"
  <2>1. IF r \in m.leaving \/ r \in Timed THEN n = calm
        ELSE n = IF a.ok THEN Fire(a.m, SlotOf(r)) ELSE a.m
    BY <1>2 DEF Entered
  <2>2. /\ calm \in Memory /\ calm.seen = m.seen /\ calm.latched = m.latched
        /\ calm.leaving = m.leaving \ {r} /\ calm.fired = m.fired /\ calm.win = m.win
        /\ calm.on = m.on /\ calm.pending = m.pending /\ calm.out = m.out
    BY DEF Memory
  <2> HIDE DEF calm, n
  <2>3. \A q : Cond(calm, q) = Cond(m, q)
    BY <2>2, SameCond
  <2>4. Sound(calm, present, enabled)
    <3>1. Observed(calm, present)
      BY <2>2, <2>3 DEF Observed
    <3>2. Over(calm, enabled)
      BY <2>2, <2>3 DEF Over
    <3>3. Waits(calm, enabled)
      BY <2>2 DEF Waits
    <3> QED
      BY <2>2, <3>1, <3>2, <3>3 DEF Sound
  <2>5. KeepsStep(m, calm) /\ (\A x : Opens(calm, x, {}) => Opens(m, x, {}))
    BY <2>2, QuietStep DEF Opens
  <2>6. CASE r \in m.leaving \/ r \in Timed
    <3>1. n = calm
      BY <2>1, <2>6
    <3>2. Opens(calm, n, {})
      BY <3>1 DEF Opens
    <3>3. ~(Direction[r] = "exit" /\ r \notin Timed)
      BY <2>6 DEF Of
    <3> QED
      BY <2>2, <2>4, <2>5, <3>1, <3>2, <3>3 DEF n
  <2>7. CASE r \notin m.leaving /\ r \notin Timed
    <3>1. Sound(y, present, enabled) /\ Refreshes(calm, y)
      BY <2>4, RefreshedEffect
    <3>2. Opens(calm, y, {}) /\ KeepsStep(calm, y)
      BY <2>4, RefreshedMoves
    <3> HIDE DEF y
    <3>3. y \in Memory /\ r \in y.latched /\ Cond(y, r) = "true"
      <4>1. y.seen[r] = m.seen[r] /\ r \in y.latched
        BY <1>0, <1>2, <2>2, <3>1 DEF Refreshes
      <4> QED
        BY <3>1, <4>1 DEF Cond, Sound
    <3>4. Direction[r] \in {"enter", "exit", "session"}
      BY <1>0, <1>2
    <3>5. Asked(y, a, enabled, r)
      <4>1. y.on => y.pending = <<>> /\ SessionType(enabled)
        BY <3>1 DEF Sound, Waits
      <4> QED
        BY <1>0, <3>3, <3>4, <4>1, AskEffect
    <3>6. Direction[r] = "exit" /\ Of(enabled, {"session"}) = {} => ~a.m.on
      <4> SUFFICES ASSUME Direction[r] = "exit", Of(enabled, {"session"}) = {}
                   PROVE  ~a.m.on
        OBVIOUS
      <4>1. a = HandleExit(y, enabled, r)
        BY DEF Ask
      <4>2. ~OtherSessionHolds(y, enabled, r)
        BY DEF OtherSessionHolds
      <4>3. y.on \in BOOLEAN
        BY <3>3 DEF Memory
      <4> QED
        BY <4>1, <4>2, <4>3 DEF HandleExit, Yes, No
    <3> HIDE DEF a
    <3>7. Sound(a.m, present, enabled)
      BY <1>0, <3>1, <3>3, <3>5, AskedSound
    <3>8. /\ Sound(n, present, enabled) /\ Same(a.m, n) /\ n.on = a.m.on
          /\ n.fired = a.m.fired /\ n.out = IF a.ok THEN Append(y.out, SlotOf(r)) ELSE y.out
      <4> DEFINE z == a.m
      <4>1. Sound(z, present, enabled) /\ z \in Memory /\ z.out = y.out /\ Same(z, z)
        BY <3>5, <3>7 DEF Asked, Same
      <4>2. SlotOf(r) \in {"on_enter", "on_exit"}
        BY DEF SlotOf
      <4>3. n = IF a.ok THEN Fire(z, SlotOf(r)) ELSE z
        BY <2>1, <2>7
      <4> HIDE DEF z
      <4>4. /\ Sound(Fire(z, SlotOf(r)), present, enabled) /\ Same(z, Fire(z, SlotOf(r)))
            /\ Fire(z, SlotOf(r)).on = z.on /\ Fire(z, SlotOf(r)).fired = z.fired
            /\ Fire(z, SlotOf(r)).out = Append(z.out, SlotOf(r))
        BY <4>1, <4>2, FireSound, FireEffect
      <4>5. /\ Sound(n, present, enabled) /\ Same(z, n) /\ n.on = z.on /\ n.fired = z.fired
            /\ n.out = IF a.ok THEN Append(y.out, SlotOf(r)) ELSE y.out
        BY <4>1, <4>3, <4>4
      <4> QED
        BY <4>5 DEF z
    <3>9. Same(y, n)
      BY <3>5, <3>8 DEF Same, Asked
    <3>10. Opens(y, n, {}) /\ KeepsStep(y, n)
      <4>1. Direction[r] # "exit" => r \in {} \/ Cond(y, r) = "true"
        BY <3>3
      <4>2. ~(r \in Of(Timed, {"session"}))
        BY <2>7 DEF Of
      <4>3. n \in Memory
        BY <3>8 DEF Sound
      <4>4. n.seen = y.seen
        BY <3>9 DEF Same
      <4> QED
        BY <1>0, <3>3, <3>4, <3>5, <3>8, <4>1, <4>2, <4>3, <4>4, AskedMoves
    <3>11. y.fired \subseteq n.fired /\ calm.fired \subseteq y.fired
      BY <3>1, <3>5, <3>8 DEF Asked, Refreshes, Relieved
    <3>12. Opens(m, n, {})
      <4>1. \A q \in Rules : Cond(n, q) = Cond(y, q)
        BY <3>9, SameCond DEF Same
      <4>2. Opens(calm, n, {})
        BY <3>2, <3>10, <3>11, <4>1, OpensThen
      <4> QED
        BY <2>5, <4>2
    <3>13. KeepsStep(m, n)
      BY <2>5, <3>2, <3>10, StepThen
    <3>14. n.leaving = m.leaving \ {r}
      BY <2>2, <3>1, <3>9 DEF Refreshes, Same
    <3>15. \A q \in Rules : Direction[q] # "guard" =>
               n.seen[q] = m.seen[q] /\ (q \in n.latched <=> q \in m.latched)
      BY <2>2, <3>1, <3>9 DEF Refreshes, Same
    <3> QED
      BY <2>2, <2>7, <3>6, <3>8, <3>11, <3>12, <3>13, <3>14, <3>15 DEF n
  <2> QED
    BY <2>6, <2>7
<1> QED
  BY <1>1, <1>2


(* What becomes of the rest of the memory when a source of r has spoken.   *)
Updated(m, n, r) ==
    /\ Sound(n, present, enabled) /\ KeepsStep(m, n) /\ m.fired \subseteq n.fired
    /\ n.leaving \ {r} = m.leaving \ {r}
    /\ \A q \in Rules \ {r} : Direction[q] # "guard" =>
          n.seen[q] = m.seen[q] /\ (q \in n.latched <=> q \in m.latched)
    /\ Direction[r] # "guard" => Cond(n, r) \in Known /\ (r \in n.latched <=> Cond(n, r) = "true")
    /\ r \in n.leaving \ m.leaving => (r \in Timed => r \in n.fired)
    /\ /\ Direction[r] = "session" /\ r \in m.latched \cup m.leaving /\ (r \in Timed => r \in m.fired)
       => r \in n.latched \cup n.leaving
    /\ /\ Direction[r] = "exit" /\ r \notin Timed /\ Of(enabled, {"session"}) = {}
       /\ r \notin m.latched /\ Cond(n, r) = "true"
       => ~n.on

LEMMA AggregatedEffect ==
  ASSUME Setting, ~paused, NEW r \in enabled, NEW m, Sound(m, present, enabled),
         NEW s \in Sources[r], NEW v \in BOOLEAN
  PROVE  LET n == Aggregated(m, r, s, v) IN
         /\ Updated(m, n, r) /\ Opens(m, n, {})
         /\ Direction[r] # "guard" /\ v => r \in n.latched
         /\ Direction[r] # "guard" /\ r \in Iot => Cond(n, r) = IF v THEN "true" ELSE "false"
         /\ r \in Timed => \A q \in Rules \ {r} : n.seen[q] = m.seen[q]
<1> DEFINE l == Latch(Looked(m, r, s, v), r)
           said == IF v THEN "true" ELSE "false"
           n == Aggregated(m, r, s, v)
<1>0. /\ r \in Rules /\ r \in present /\ enabled \in SUBSET present /\ enabled \in SUBSET Rules
      /\ m \in Memory /\ (r \in Timed => Direction[r] # "guard")
  BY RuleTaskAssumption DEF Setting, Sound
<1>1. /\ l \in Memory /\ Observed(l, present)
      /\ \A q \in Rules \ {r} : l.seen[q] = m.seen[q] /\ (q \in l.latched <=> q \in m.latched)
      /\ l.leaving = m.leaving /\ l.fired = m.fired /\ l.on = m.on
      /\ l.pending = m.pending /\ l.out = m.out /\ l.win = m.win
      /\ Cond(l, r) = Cond(Looked(m, r, s, v), r)
      /\ Cond(l, r) \in Known /\ (r \in l.latched <=> Cond(l, r) = "true")
      /\ v => Cond(l, r) = "true"
      /\ r \in Iot => Cond(l, r) = said
  BY <1>0, LatchEffect
<1>2. /\ Cond(l, r) = "true" /\ r \notin m.latched => n = Entered(l, r)
      /\ Cond(l, r) = "false" /\ r \in m.latched => n = Exited(l, r)
      /\ Cond(l, r) = "true" /\ r \in m.latched => n = Steady(l, r)
      /\ Cond(l, r) = "false" /\ r \notin m.latched => n = l
  <2>1. Cond(l, r) # "unknown"
    BY <1>1 DEF Known
  <2> QED
    BY <1>1, <2>1 DEF Aggregated, Looked, Latch
<1> HIDE DEF l, n, said
<1>3. \A q \in Rules \ {r} : Cond(l, q) = Cond(m, q)
  BY <1>1 DEF Cond
<1>4. \A q \in m.leaving : q \in Of(enabled, {"session"}) /\ q \in Rules
                           /\ Cond(m, q) = "false" /\ q \notin m.latched
  BY <1>0 DEF Sound, Over, Of
<1>5. KeepsStep(m, l) /\ (\A x : Opens(l, x, {}) => Opens(m, x, {}))
  BY <1>1, QuietStep DEF Opens
<1>6. /\ Range(m.pending) \subseteq EnterSide(enabled) /\ Once(m.pending)
      /\ \A q \in Range(m.pending) : q \in Rules /\ q \in Timed \cup m.latched
      /\ m.on => m.pending = <<>> /\ SessionType(enabled)
  BY <1>0 DEF Sound, Waits, EnterSide, Of
<1>7. ASSUME ~(Cond(l, r) = "false" /\ r \in m.latched) PROVE Waits(l, enabled)
  <2>1. \A q \in Range(m.pending) : q \in Timed \cup l.latched
    BY <1>1, <1>6, <1>7 DEF Known
  <2> QED
    BY <1>1, <1>6, <2>1 DEF Waits
<1>8. ASSUME ~(Cond(l, r) = "true" /\ r \notin m.latched) PROVE Over(l, enabled)
  BY <1>1, <1>3, <1>4, <1>8 DEF Over, Known
<1>9. CASE Cond(l, r) = "true" /\ r \notin m.latched
  <2>1. n = Entered(l, r)
    BY <1>2, <1>9
  <2>2. /\ Waits(l, enabled) /\ r \in l.latched
        /\ \A q \in l.leaving : /\ q \in Of(enabled, {"session"})
                                /\ q # r => Cond(l, q) = "false" /\ q \notin l.latched
    BY <1>1, <1>3, <1>4, <1>7, <1>9
  <2>3. /\ Sound(n, present, enabled) /\ Opens(l, n, {}) /\ KeepsStep(l, n)
        /\ l.fired \subseteq n.fired /\ n.leaving = l.leaving \ {r}
        /\ \A q \in Rules : Direction[q] # "guard" =>
              n.seen[q] = l.seen[q] /\ (q \in n.latched <=> q \in l.latched)
        /\ r \in Timed => n.seen = l.seen
        /\ Direction[r] = "exit" /\ r \notin Timed /\ Of(enabled, {"session"}) = {} => ~n.on
    BY <1>1, <1>9, <2>1, <2>2, EnteredEffect
  <2>4. Direction[r] # "guard" => Cond(n, r) = Cond(l, r) /\ r \in n.latched
    <3> SUFFICES ASSUME Direction[r] # "guard"
                 PROVE  Cond(n, r) = Cond(l, r) /\ r \in n.latched
      OBVIOUS
    <3>1. n.seen[r] = l.seen[r] /\ r \in n.latched
      BY <1>0, <2>2, <2>3
    <3> QED
      BY <3>1 DEF Cond
  <2>5. Updated(m, n, r)
    <3>1. KeepsStep(m, n)
      BY <1>5, <2>3, StepThen
    <3>2. n.leaving \ {r} = m.leaving \ {r} /\ r \notin n.leaving
      BY <1>1, <2>3
    <3> QED
      BY <1>1, <1>9, <2>3, <2>4, <3>1, <3>2 DEF Updated
  <2>6. Opens(m, n, {})
    BY <1>5, <2>3
  <2> QED
    BY <1>0, <1>1, <2>3, <2>4, <2>5, <2>6 DEF n, said
<1>10. CASE Cond(l, r) = "false" /\ r \in m.latched
  <2>1. n = Exited(l, r)
    BY <1>2, <1>10
  <2>2. /\ Over(l, enabled) /\ r \notin l.latched
        /\ \A q \in Range(l.pending) \ {r} : q \in Timed \cup l.latched
    BY <1>1, <1>6, <1>8, <1>10
  <2>3. /\ Sound(n, present, enabled) /\ n.seen = l.seen /\ n.latched = l.latched
        /\ n.on = l.on /\ n.out = l.out /\ n.fired = l.fired
        /\ n.leaving = l.leaving \/ n.leaving = l.leaving \cup {r}
        /\ Direction[r] = "session" /\ (r \in Timed => r \in l.fired) => r \in n.leaving
        /\ r \in n.leaving \ l.leaving => (r \in Timed => r \in l.fired)
    BY <1>1, <1>6, <1>10, <2>1, <2>2, ExitedEffect
  <2>4. Cond(n, r) = Cond(l, r)
    BY <2>3 DEF Cond
  <2>5. Updated(m, n, r)
    <3>1. KeepsStep(m, n)
      BY <1>1, <2>3, QuietStep
    <3>2. n.leaving \ {r} = m.leaving \ {r}
      BY <1>1, <2>3
    <3> QED
      BY <1>1, <1>10, <2>3, <2>4, <3>1, <3>2 DEF Updated
  <2>6. Opens(m, n, {})
    BY <1>1, <2>3 DEF Opens
  <2> QED
    BY <1>1, <1>10, <2>3, <2>4, <2>5, <2>6 DEF n, said
<1>11. CASE Cond(l, r) = "true" /\ r \in m.latched
  <2>1. n = l \/ n = Release(l, enabled)
    BY <1>2, <1>11 DEF Steady
  <2>2. Sound(l, present, enabled)
    BY <1>1, <1>7, <1>8, <1>11 DEF Sound
  <2>3. /\ Sound(n, present, enabled) /\ Same(l, n) /\ Opens(l, n, {}) /\ KeepsStep(l, n)
        /\ l.fired \subseteq n.fired
    <3>1. CASE n = l
      BY <2>2, <3>1, QuietStep DEF Same, Opens
    <3>2. CASE n = Release(l, enabled)
      <4>1. Answered(l, n, enabled)
        BY <1>0, <1>1, <3>2, ReleaseEffect
      <4> QED
        BY <1>0, <1>1, <2>2, <4>1, AnsweredSound, AnsweredMoves DEF Answered
    <3> QED
      BY <2>1, <3>1, <3>2
  <2>4. Cond(n, r) = Cond(l, r)
    BY <2>3, SameCond DEF Same
  <2>5. Updated(m, n, r)
    <3>1. KeepsStep(m, n)
      BY <1>5, <2>3, StepThen
    <3> QED
      BY <1>1, <1>11, <2>3, <2>4, <3>1 DEF Updated, Same
  <2>6. Opens(m, n, {})
    BY <1>5, <2>3
  <2> QED
    BY <1>1, <1>11, <2>3, <2>4, <2>5, <2>6 DEF n, said, Same
<1>12. CASE Cond(l, r) = "false" /\ r \notin m.latched
  <2>1. n = l
    BY <1>2, <1>12
  <2>2. Sound(l, present, enabled)
    BY <1>1, <1>7, <1>8, <1>12 DEF Sound
  <2>3. Updated(m, l, r)
    BY <1>1, <1>5, <1>12, <2>2 DEF Updated
  <2>4. Opens(m, l, {})
    BY <1>1 DEF Opens
  <2> QED
    BY <1>1, <1>12, <2>1, <2>3, <2>4 DEF n, said
<1> QED
  BY <1>1, <1>9, <1>10, <1>11, <1>12 DEF Known


(* A source that speaks for the first time counts as false before.         *)
Heard(m, r, s) == IF m.seen[r][s] = "none" THEN [m EXCEPT !.seen[r][s] = "false"] ELSE m

LEMMA HeardEffect ==
  ASSUME NEW m, NEW P, NEW E, Sound(m, P, E), NEW r \in Rules, NEW s \in Sources[r]
  PROVE  LET n == Heard(m, r, s) IN
         /\ Sound(n, P, E) /\ \A q \in Rules \ {r} : n.seen[q] = m.seen[q]
         /\ Cond(n, r) = "true" <=> Cond(m, r) = "true"
         /\ n.latched = m.latched /\ n.leaving = m.leaving /\ n.fired = m.fired
         /\ n.on = m.on /\ n.out = m.out
<1> DEFINE n == Heard(m, r, s)
           look == [m.seen[r] EXCEPT ![s] = "false"]
<1>0. m \in Memory /\ m.seen[r] \in [Sources[r] -> Tri \cup {"none"}]
  BY DEF Sound, Observed
<1>1. CASE m.seen[r][s] # "none"
  BY <1>1 DEF Heard
<1>2. CASE m.seen[r][s] = "none"
  <2>1. look \in [Sources[r] -> Tri \cup {"none"}] /\ look[s] = "false"
        /\ \A x \in Sources[r] \ {s} : look[x] = m.seen[r][x]
    BY <1>0 DEF Tri, Known
  <2>2. look \in Views
    BY <2>1 DEF Views
  <2>3. n = [m EXCEPT !.seen[r] = look]
    BY <1>2 DEF Heard
  <2> HIDE DEF look, n
  <2>4. /\ n \in Memory /\ n.seen = [m.seen EXCEPT ![r] = look]
        /\ n.latched = m.latched /\ n.leaving = m.leaving /\ n.fired = m.fired
        /\ n.win = m.win /\ n.on = m.on /\ n.pending = m.pending /\ n.out = m.out
    BY <1>0, <2>2, <2>3 DEF Memory
  <2>5. n.seen[r] = look /\ \A q \in Rules \ {r} : n.seen[q] = m.seen[q]
    BY <1>0, <2>4 DEF Memory
  <2>6. \A q \in Rules \ {r} : Cond(n, q) = Cond(m, q)
    BY <2>5 DEF Cond
  <2>7. {n.seen[r][x] : x \in Sources[r]} \ {"none"}
           = ({m.seen[r][x] : x \in Sources[r]} \ {"none"}) \cup {"false"}
    BY <1>2, <2>1, <2>5
  <2>8. Cond(n, r) = "true" <=> Cond(m, r) = "true"
    BY <2>7 DEF Cond, Or3
  <2>9. Cond(m, r) = "false" => Cond(n, r) = "false"
    BY <2>7 DEF Cond, Or3
  <2>10. Observed(n, P)
    <3>1. \A q \in Rules : n.seen[q] \in [Sources[q] -> Tri \cup {"none"}]
      BY <2>1, <2>5 DEF Sound, Observed
    <3>2. \A q \in Rules \ Iot : \A x \in Sources[q] : n.seen[q][x] # "unknown"
      <4>1. \A q \in Rules \ Iot : \A x \in Sources[q] : m.seen[q][x] # "unknown"
        BY DEF Sound, Observed
      <4> QED
        BY <2>1, <2>5, <4>1
    <3>3. \A q \in Rules : Cond(n, q) = "true" => q \in n.latched
      BY <2>4, <2>6, <2>8 DEF Sound, Observed
    <3> QED
      BY <2>4, <3>1, <3>2, <3>3 DEF Sound, Observed
  <2>11. Over(n, E)
    <3> SUFFICES ASSUME NEW q \in n.leaving
                 PROVE  q \in Of(E, {"session"}) /\ Cond(n, q) = "false" /\ q \notin n.latched
      BY DEF Over
    <3>1. q \in Of(E, {"session"}) /\ Cond(m, q) = "false" /\ q \notin m.latched /\ q \in Rules
      BY <1>0, <2>4 DEF Sound, Over, Memory
    <3> QED
      BY <2>4, <2>6, <2>9, <3>1
  <2>12. Waits(n, E)
    BY <2>4 DEF Sound, Waits
  <2> QED
    BY <2>4, <2>5, <2>8, <2>10, <2>11, <2>12 DEF Sound, n
<1> QED
  BY <1>1, <1>2

(* update_state, for a rule in effect.                                     *)
LEMMA UpdateStateEffect ==
  ASSUME Setting, ~paused, NEW r \in enabled, NEW m, Sound(m, present, enabled),
         NEW s \in Sources[r], NEW v \in BOOLEAN, NEW cycle \in BOOLEAN, NEW k \in -1 .. Window
  PROVE  LET n == UpdateState(m, r, s, v, cycle, k) IN
         /\ Updated(m, n, r) /\ Opens(m, n, {r} \cap Timed)
         /\ Window = Quota /\ ~(v \/ cycle) => Opens(m, n, {})
         /\ Direction[r] # "guard" /\ v => r \in n.latched \cup n.leaving
         /\ Direction[r] # "guard" /\ r \in Iot => Cond(n, r) = IF v THEN "true" ELSE "false"
<1> DEFINE h == Heard(m, r, s)
           t == IF r \in Timed THEN EvaluateDuration(h, r, v \/ cycle, k) ELSE h
           n == UpdateState(m, r, s, v, cycle, k)
           W == {r} \cap Timed
<1>0. /\ r \in Rules /\ r \in present /\ enabled \in SUBSET present /\ enabled \in SUBSET Rules
      /\ m \in Memory /\ (r \in Timed => Direction[r] # "guard")
      /\ Direction[r] \in {"enter", "exit", "session", "guard"}
  BY RuleTaskAssumption DEF Setting, Sound
<1>1. /\ Sound(h, present, enabled) /\ \A q \in Rules \ {r} : h.seen[q] = m.seen[q]
      /\ Cond(h, r) = "true" <=> Cond(m, r) = "true"
      /\ h.latched = m.latched /\ h.leaving = m.leaving /\ h.fired = m.fired
      /\ h.on = m.on /\ h.out = m.out
  BY <1>0, HeardEffect
<1>2. n = IF Doubted(t, r, s, v) THEN Filtered(t, r, s, v) ELSE Aggregated(t, r, s, v)
  BY DEF UpdateState, Heard, Effective
<1> HIDE DEF h, n
<1>3. /\ Sound(t, present, enabled) /\ Opens(m, t, W) /\ KeepsStep(m, t)
      /\ m.fired \subseteq t.fired /\ t.leaving = m.leaving
      /\ \A q \in Rules \ {r} : Direction[q] # "guard" =>
            t.seen[q] = m.seen[q] /\ (q \in t.latched <=> q \in m.latched)
      /\ Direction[r] # "guard" => (r \in t.latched <=> r \in m.latched)
      /\ Cond(t, r) = "true" <=> Cond(m, r) = "true"
      /\ Direction[r] = "exit" \/ r \notin Timed => (t.on => m.on)
      /\ Window = Quota /\ ~(v \/ cycle) => t.on = m.on
  <2>1. CASE r \notin Timed
    <3>1. t = h
      BY <2>1
    <3> HIDE DEF t
    <3>2. Opens(m, t, W) /\ KeepsStep(m, t)
      BY <1>1, <3>1, QuietStep DEF Opens
    <3> QED
      BY <1>1, <3>1, <3>2
  <2>2. CASE r \in Timed
    <3> DEFINE both == v \/ cycle
               x == EvaluateDuration(h, r, both, k)
    <3>1. t = x /\ both \in BOOLEAN
      BY <2>2
    <3> HIDE DEF both
    <3>2. /\ Sound(x, present, enabled) /\ Looks(h, x) /\ h.fired \subseteq x.fired
          /\ Opens(h, x, {r}) /\ KeepsStep(h, x)
          /\ Direction[r] = "exit" => (x.on => h.on)
          /\ Window = Quota /\ ~both => x.on = h.on
      <4>1. r \in Timed \cap enabled /\ Sound(h, present, enabled)
        BY <1>1, <2>2
      <4> QED
        BY <3>1, <4>1, EvaluateEffect
    <3>3. W = {r}
      BY <2>2
    <3> HIDE DEF x, t, W
    <3>4. x.seen[r] = h.seen[r] /\ (r \in x.latched <=> r \in h.latched)
      BY <1>0, <2>2, <3>2 DEF Looks
    <3>5. Cond(x, r) = Cond(h, r)
      BY <3>4 DEF Cond
    <3>6. Opens(m, x, W)
      BY <1>1, <3>2, <3>3 DEF Opens
    <3>7. KeepsStep(m, x)
      <4>1. KeepsStep(m, h)
        BY <1>1, QuietStep
      <4> QED
        BY <3>2, <4>1, StepThen
    <3>8. \A q \in Rules \ {r} : Direction[q] # "guard" =>
            x.seen[q] = m.seen[q] /\ (q \in x.latched <=> q \in m.latched)
      BY <1>1, <3>2 DEF Looks
    <3>9. x.leaving = m.leaving
      BY <1>1, <3>2 DEF Looks
    <3> QED
      BY <1>1, <2>2, <3>1, <3>2, <3>4, <3>5, <3>6, <3>7, <3>8, <3>9 DEF both
  <2> QED
    BY <2>1, <2>2
<1> HIDE DEF t
<1>4. \A q \in m.leaving : Cond(t, q) = "false" /\ q \notin t.latched
  BY <1>3 DEF Sound, Over
<1>5. Cond(t, r) = "true" => r \in t.latched
  BY <1>0, <1>3 DEF Sound, Observed
<1>6. CASE Doubted(t, r, s, v)
  <2>1. n = Filtered(t, r, s, v) /\ r \notin Iot
    BY <1>2, <1>6 DEF Doubted
  <2>2. /\ Sound(n, present, enabled) /\ n.seen = t.seen /\ n.latched = t.latched
        /\ n.leaving = t.leaving /\ n.fired = t.fired /\ n.on = t.on /\ n.out = t.out
    BY <1>0, <1>3, <2>1, FilteredEffect
  <2>3. \A q : Cond(n, q) = Cond(t, q)
    BY <2>2, SameCond
  <2>4. Cond(t, r) = "true" \/ (r \in t.leaving /\ Cond(t, r) = "false" /\ r \notin t.latched)
    <3>1. CASE t.seen[r][s] = "true"
      BY <3>1 DEF Cond, Or3
    <3>2. CASE t.seen[r][s] # "true"
      BY <1>3, <1>4, <1>6, <3>2 DEF Doubted
    <3> QED
      BY <3>1, <3>2
  <2>5. Cond(n, r) \in Known /\ (r \in n.latched <=> Cond(n, r) = "true")
        /\ r \in n.latched \cup n.leaving
    BY <1>5, <2>2, <2>3, <2>4 DEF Known
  <2>6. KeepsStep(t, n) /\ KeepsStep(m, n)
    <3>1. KeepsStep(t, n)
      BY <2>2, QuietStep
    <3> QED
      BY <1>3, <3>1, StepThen
  <2>7. Direction[r] # "guard" /\ Cond(n, r) = "true" => r \in m.latched
    BY <1>3, <2>2, <2>5
  <2>8. Updated(m, n, r)
    BY <1>3, <2>2, <2>5, <2>6, <2>7 DEF Updated
  <2>9. \A X : Opens(m, t, X) => Opens(m, n, X)
    BY <2>2, <2>3 DEF Opens, GuardsHold
  <2>10. Opens(m, n, W) /\ (Window = Quota /\ ~(v \/ cycle) => Opens(m, n, {}))
    <3>1. t.on = m.on => Opens(m, t, {})
      BY DEF Opens
    <3> QED
      BY <1>3, <2>9, <3>1
  <2> QED
    BY <2>1, <2>5, <2>8, <2>10 DEF n, W
<1>7. CASE ~Doubted(t, r, s, v)
  <2> DEFINE said == IF v THEN "true" ELSE "false"
  <2>1. n = Aggregated(t, r, s, v)
    BY <1>2, <1>7
  <2>2. /\ Updated(t, n, r) /\ Opens(t, n, {})
        /\ Direction[r] # "guard" /\ v => r \in n.latched
        /\ Direction[r] # "guard" /\ r \in Iot => Cond(n, r) = said
        /\ r \in Timed => \A q \in Rules \ {r} : n.seen[q] = t.seen[q]
    BY <1>3, <2>1, AggregatedEffect
  <2> HIDE DEF said
  <2>3. KeepsStep(m, n)
    BY <1>3, <2>2, StepThen DEF Updated
  <2>4. Direction[r] # "guard" => (r \in t.latched <=> r \in m.latched)
    BY <1>3
  <2>5. Updated(m, n, r)
    <3>1. \A q \in Rules \ {r} : Direction[q] # "guard" =>
            n.seen[q] = m.seen[q] /\ (q \in n.latched <=> q \in m.latched)
      BY <1>3, <2>2 DEF Updated
    <3>2. n.leaving \ {r} = m.leaving \ {r} /\ m.fired \subseteq n.fired
      BY <1>3, <2>2 DEF Updated
    <3>3. r \in n.leaving \ m.leaving => (r \in Timed => r \in n.fired)
      BY <1>3, <2>2 DEF Updated
    <3>4. /\ Direction[r] = "session" /\ r \in m.latched \cup m.leaving /\ (r \in Timed => r \in m.fired)
          => r \in n.latched \cup n.leaving
      BY <1>3, <2>2 DEF Updated
    <3>5. /\ Direction[r] = "exit" /\ r \notin Timed /\ Of(enabled, {"session"}) = {}
          /\ r \notin m.latched /\ Cond(n, r) = "true"
          => ~n.on
      BY <1>3, <2>2 DEF Updated
    <3> QED
      BY <2>2, <2>3, <3>1, <3>2, <3>3, <3>4, <3>5 DEF Updated
  <2>6. t.on = m.on => Opens(m, n, {})
    BY <2>2 DEF Opens
  <2>7. Opens(m, n, W)
    <3>1. Opens(t, n, W)
      BY <2>2 DEF Opens
    <3>2. t.fired \subseteq n.fired
      BY <2>2 DEF Updated
    <3>3. ~m.on /\ t.on => Direction[r] \in {"enter", "session"} /\ r \in Timed
      BY <1>0, <1>3
    <3>4. r \in Timed => \A q \in Rules \ {r} : Cond(n, q) = Cond(t, q)
      BY <2>2 DEF Cond
    <3>5. ~m.on /\ t.on /\ n.on =>
            /\ t.fired \subseteq n.fired
            /\ \A q \in Rules : \/ Cond(n, q) = Cond(t, q)
                                \/ q \in W /\ Direction[q] \in {"enter", "session"}
      BY <3>2, <3>3, <3>4
    <3> HIDE DEF W
    <3> QED
      BY <1>3, <3>1, <3>5, OpensThen
  <2> QED
    BY <1>3, <2>2, <2>5, <2>6, <2>7 DEF n, W, said
<1> QED
  BY <1>6, <1>7


-----------------------------------------------------------------------------
(* The steps.  A session that is latched has not been seen to be over, and *)
(* a debounce of a session that counts a duration has been entered.        *)
Told(m) == \A r \in m.latched : Direction[r] = "session" => Cond(m, r) # "false"

Counted(m) == m.leaving \cap Timed \subseteq m.fired

LEMMA QuietEffect ==
  ASSUME NEW P, NEW E, Sound(w, P, E)
  PROVE  /\ Sound(Quiet, P, E) /\ Same(w, Quiet) /\ Quiet.on = w.on /\ Quiet.out = <<>>
         /\ Quiet.fired = w.fired /\ Quiet.pending = w.pending /\ Quiet.win = w.win
<1> DEFINE none == <<>>
<1>1. w \in Memory /\ none \in Seq({"on_enter", "on_exit"})
  BY DEF Sound
<1>2. Quiet = [w EXCEPT !.out = none]
  BY DEF Quiet
<1> HIDE DEF none
<1>3. /\ Quiet \in Memory /\ Same(w, Quiet) /\ Quiet.on = w.on /\ Quiet.out = none
      /\ Quiet.fired = w.fired /\ Quiet.pending = w.pending /\ Quiet.win = w.win
  BY <1>1, <1>2 DEF Memory, Same
<1>4. Waits(Quiet, E) /\ Quiet.fired \subseteq P
  BY <1>3 DEF Sound, Observed, Waits, Same
<1>5. Sound(Quiet, P, E)
  BY <1>3, <1>4, SameSound
<1> QED
  BY <1>3, <1>5 DEF none

LEMMA UpdatedTold ==
  ASSUME NEW m, NEW n, NEW r \in Rules, Updated(m, n, r), Told(m), Counted(m), Setting
  PROVE  Told(n) /\ Counted(n)
<1>0. n \in Memory
  BY DEF Updated, Sound
<1>1. Told(n)
  <2> SUFFICES ASSUME NEW q \in n.latched, Direction[q] = "session" PROVE Cond(n, q) # "false"
    BY DEF Told
  <2>1. q \in Rules
    BY <1>0 DEF Memory
  <2>2. CASE q = r
    BY <2>2 DEF Updated, Known
  <2>3. CASE q # r
    <3>1. n.seen[q] = m.seen[q] /\ q \in m.latched
      BY <2>1, <2>3 DEF Updated
    <3>2. Cond(m, q) # "false"
      BY <3>1 DEF Told
    <3> QED
      BY <3>1, <3>2 DEF Cond
  <2> QED
    BY <2>2, <2>3
<1>2. Counted(n)
  BY DEF Counted, Updated
<1> QED
  BY <1>1, <1>2

(* _reconcile_iot_task_state, after the value of r has been fed.           *)
LEMMA ReconciledEffect ==
  ASSUME Setting, ~paused, NEW r \in enabled \cap Iot, NEW m, Sound(m, present, enabled),
         Direction[r] # "guard" =>
            (r \in m.latched <=> Cond(m, r) = "true")
            /\ Cond(m, r) = IF value[r] = "true" THEN "true" ELSE "false"
  PROVE  LET n == Reconciled(m, r) IN
         /\ Sound(n, present, enabled) /\ KeepsStep(m, n)
         /\ n.seen = m.seen /\ n.latched = m.latched /\ n.fired = m.fired
         /\ n.leaving = m.leaving \/ n.leaving = m.leaving \cup {r}
         /\ n.on => m.on
         /\ Direction[r] = "exit" /\ Of(enabled, {"session"}) = {} /\ value[r] = "true" => ~n.on
<1> DEFINE n == Reconciled(m, r)
           h == HandleExit(m, enabled, r)
<1>0. /\ r \in Rules /\ r \in present /\ enabled \in SUBSET present /\ enabled \in SUBSET Rules
      /\ m \in Memory /\ m.on \in BOOLEAN /\ r \notin Timed
  BY RuleTaskAssumption DEF Setting, Sound, Memory
<1>1. n = IF ~m.on THEN m
          ELSE IF Direction[r] = "exit" /\ value[r] = "true"
               THEN IF h.ok THEN Fire(h.m, "on_exit") ELSE h.m
          ELSE IF Direction[r] = "session" /\ value[r] = "false" /\ r \notin m.leaving
               THEN Exited(m, r)
          ELSE m
  BY DEF Reconciled, Effective
<1> HIDE DEF n
<1>2. CASE n = m
  <2>1. ~(m.on /\ Direction[r] = "exit" /\ Of(enabled, {"session"}) = {} /\ value[r] = "true")
    <3> SUFFICES ASSUME m.on, Direction[r] = "exit", Of(enabled, {"session"}) = {}, value[r] = "true"
                 PROVE  FALSE
      OBVIOUS
    <3>1. h.ok /\ ~h.m.on
      BY <1>0 DEF HandleExit, Yes, No, OtherSessionHolds, Memory
    <3>2. n = Fire(h.m, "on_exit") /\ Fire(h.m, "on_exit").on = h.m.on
      <4>1. h.m \in Memory
        BY <1>0, Sound(m, present, enabled), HandleExitEffect DEF Sound, Waits
      <4> QED
        BY <1>1, <3>1, <4>1, FireEffect
    <3> QED
      BY <1>2, <3>1, <3>2
  <2> QED
    BY <1>2, <2>1, QuietStep DEF n
<1>3. CASE m.on /\ Direction[r] = "exit" /\ value[r] = "true"
  <2>1. /\ h.m \in Memory /\ Same(m, h.m) /\ h.m.pending = m.pending
        /\ h.m.fired = m.fired /\ h.m.win = m.win /\ h.m.out = m.out
        /\ \/ ~h.ok /\ h.m = m /\ (m.on => OtherSessionHolds(m, enabled, r))
           \/ h.ok /\ m.on /\ ~h.m.on /\ ~OtherSessionHolds(m, enabled, r)
    BY <1>0, Sound(m, present, enabled), HandleExitEffect DEF Sound, Waits
  <2>2. n = IF h.ok THEN Fire(h.m, "on_exit") ELSE h.m
    BY <1>1, <1>3
  <2> DEFINE z == h.m
  <2> HIDE DEF z
  <2>3. CASE ~h.ok
    <3>1. OtherSessionHolds(m, enabled, r)
      BY <1>3, <2>1, <2>3
    <3>2. Of(enabled, {"session"}) # {}
      BY <3>1 DEF OtherSessionHolds
    <3>3. n = m
      BY <2>1, <2>2, <2>3
    <3> QED
      BY <1>2, <3>3
  <2>4. CASE h.ok
    <3>1. z \in Memory /\ Same(m, z) /\ ~z.on /\ z.fired = m.fired /\ z.win = m.win
          /\ z.pending = m.pending /\ z.out = m.out
      BY <2>1, <2>4 DEF z
    <3>2. Waits(z, enabled)
      BY <3>1 DEF Sound, Waits, Same
    <3>3. Sound(z, present, enabled)
      BY <3>1, <3>2, SameSound DEF Sound, Observed
    <3>4. Fire(z, "on_exit") = n
      BY <2>2, <2>4 DEF z
    <3>5. /\ Sound(n, present, enabled) /\ Same(z, n) /\ n.fired = z.fired /\ n.on = z.on
          /\ n.out = Append(z.out, "on_exit")
      BY <3>1, <3>3, <3>4, FireSound, FireEffect
    <3>6. n.on # m.on /\ n.out = Append(m.out, IF n.on THEN "on_enter" ELSE "on_exit")
      BY <1>3, <3>1, <3>5
    <3>7. KeepsStep(m, n)
      BY <1>0, <3>5, <3>6, ActionStep DEF Sound
    <3> QED
      BY <3>1, <3>5, <3>7 DEF Same, n
  <2> QED
    BY <2>3, <2>4
<1>4. CASE m.on /\ Direction[r] = "session" /\ value[r] = "false" /\ r \notin m.leaving
  <2>1. n = Exited(m, r)
    BY <1>1, <1>4
  <2>2. Cond(m, r) = "false" /\ r \notin m.latched
    BY <1>4
  <2>3. /\ Observed(m, present) /\ Over(m, enabled)
        /\ Range(m.pending) \subseteq EnterSide(enabled) /\ Once(m.pending)
        /\ \A q \in Range(m.pending) \ {r} : q \in Timed \cup m.latched
        /\ m.on => m.pending = <<>> /\ SessionType(enabled)
    BY DEF Sound, Waits
  <2>4. /\ Sound(n, present, enabled) /\ n.seen = m.seen /\ n.latched = m.latched
        /\ n.on = m.on /\ n.out = m.out /\ n.fired = m.fired
        /\ n.leaving = m.leaving \/ n.leaving = m.leaving \cup {r}
    BY <1>0, <2>1, <2>2, <2>3, ExitedEffect
  <2>5. KeepsStep(m, n)
    BY <2>4, QuietStep
  <2> QED
    BY <1>4, <2>4, <2>5 DEF n
<1>5. CASE ~(n = m) /\ ~(m.on /\ Direction[r] = "exit" /\ value[r] = "true")
           /\ ~(m.on /\ Direction[r] = "session" /\ value[r] = "false" /\ r \notin m.leaving)
  BY <1>1, <1>5
<1> QED
  BY <1>2, <1>3, <1>4, <1>5


LEMMA InForce ==
  ASSUME NEW r \in InEffect
  PROVE  ~paused /\ r \in enabled /\ InEffect = enabled
  BY DEF InEffect

LEMMA FrameEffect ==
  ASSUME Setting, Sound(w, present, InEffect), NEW r \in Rules, NEW s \in Sources[r], Frame(r, s)
  PROVE  \/ w' = Quiet
         \/ /\ ~paused /\ r \in enabled \ Iot
            /\ Updated(Quiet, w', r) /\ Opens(Quiet, w', {r} \cap Timed)
            /\ r \in Timed /\ Window = Quota /\ Cardinality(Sources[r]) = 1 =>
                  Opens(Quiet, w', {}) \/ r \in w'.latched \cup w'.leaving
<1>1. PICK v \in BOOLEAN, cycle \in IF r \in Timed /\ Sources[r] # {s} THEN BOOLEAN ELSE {FALSE},
           k \in IF r \in Timed THEN -1 .. Window ELSE {0} :
              w' = UpdateState(Quiet, r, s, v, cycle, k)
  BY DEF Frame
<1>2. cycle \in BOOLEAN /\ k \in -1 .. Window
  <2>1. Window \in Nat
    BY RuleTaskAssumption
  <2>2. 0 \in -1 .. Window
    BY <2>1
  <2> QED
    BY <2>2
<1>3. CASE ~(~paused /\ r \in enabled)
  BY <1>1, <1>3 DEF UpdateState, Effective
<1>4. CASE ~paused /\ r \in enabled
  <2>1. Sound(Quiet, present, enabled)
    BY <1>4, QuietEffect DEF InEffect
  <2> DEFINE m == Quiet
  <2> HIDE DEF m
  <2>2. Sound(m, present, enabled) /\ w' = UpdateState(m, r, s, v, cycle, k)
    BY <1>1, <2>1 DEF m
  <2>3. /\ Updated(m, w', r) /\ Opens(m, w', {r} \cap Timed)
        /\ Window = Quota /\ ~(v \/ cycle) => Opens(m, w', {})
        /\ Direction[r] # "guard" /\ v => r \in w'.latched \cup w'.leaving
    <3> DEFINE n == UpdateState(m, r, s, v, cycle, k)
    <3>1. /\ Updated(m, n, r) /\ Opens(m, n, {r} \cap Timed)
          /\ Window = Quota /\ ~(v \/ cycle) => Opens(m, n, {})
          /\ Direction[r] # "guard" /\ v => r \in n.latched \cup n.leaving
      BY <1>2, <1>4, <2>2, UpdateStateEffect
    <3> HIDE DEF n
    <3>2. w' = n
      BY <2>2 DEF n
    <3> QED
      BY <3>1, <3>2
  <2>4. ASSUME r \in Timed, Window = Quota, Cardinality(Sources[r]) = 1
        PROVE  Opens(m, w', {}) \/ r \in w'.latched \cup w'.leaving
    <3>1. PICK x : Sources[r] = {x}
      <4>1. IsFiniteSet(Sources[r])
        BY RuleTaskAssumption
      <4> QED
        BY <2>4, <4>1, FS_Singleton
    <3>2. ~cycle
      BY <3>1
    <3>3. Direction[r] # "guard"
      BY <2>4, RuleTaskAssumption
    <3> QED
      BY <2>3, <2>4, <3>2, <3>3
  <2>5. r \notin Iot
    BY DEF Frame
  <2> QED
    BY <1>4, <2>3, <2>4, <2>5 DEF m
<1> QED
  BY <1>3, <1>4

LEMMA IotEvalEffect ==
  ASSUME Setting, Sound(w, present, InEffect), NEW r \in Iot, IotEval(r)
  PROVE  \/ w' = Quiet
         \/ w' = MarkUnknown(Quiet, r)
         \/ /\ ~paused /\ r \in enabled
            /\ Updated(Quiet, w', r) /\ Opens(Quiet, w', {})
            /\ Direction[r] = "exit" /\ Of(enabled, {"session"}) = {} /\ Cond(w', r) = "true"
                 => ~w'.on
<1> DEFINE s == CHOOSE x \in Sources[r] : TRUE
           yes == value[r] = "true"
           m == Quiet
           u == UpdateState(m, r, s, yes, FALSE, 0)
<1>0. r \in Rules /\ s \in Sources[r] /\ r \notin Timed /\ value[r] \in Tri /\ 0 \in -1 .. Window
  <2>1. Window \in Nat
    BY RuleTaskAssumption
  <2>2. 0 \in -1 .. Window
    BY <2>1
  <2>3. r \in Rules /\ Sources[r] # {} /\ r \notin Timed
    BY RuleTaskAssumption
  <2> QED
    BY <2>2, <2>3 DEF Setting
<1>1. CASE value[r] = "unknown"
  BY <1>1 DEF IotEval
<1>2. CASE value[r] # "unknown"
  <2>1. w' = Reconciled(u, r)
    BY <1>2 DEF IotEval
  <2>2. CASE ~(~paused /\ r \in enabled)
    <3>1. u = Quiet
      BY <2>2 DEF UpdateState, Effective
    <3> HIDE DEF u
    <3> QED
      BY <2>1, <2>2, <3>1 DEF Reconciled, Effective
  <2>3. CASE ~paused /\ r \in enabled
    <3> DEFINE said == IF yes THEN "true" ELSE "false"
    <3>1. Sound(m, present, enabled) /\ yes \in BOOLEAN
      BY <2>3, QuietEffect DEF InEffect
    <3> HIDE DEF m, s, yes
    <3>2. /\ Updated(m, u, r) /\ Opens(m, u, {r} \cap Timed)
          /\ Direction[r] # "guard" /\ r \in Iot => Cond(u, r) = said
      <4> DEFINE no == FALSE
                 now == 0
                 n == UpdateState(m, r, s, yes, no, now)
      <4>1. no \in BOOLEAN /\ now \in -1 .. Window
        BY <1>0
      <4> HIDE DEF no, now
      <4>2. /\ Updated(m, n, r) /\ Opens(m, n, {r} \cap Timed)
            /\ Direction[r] # "guard" /\ r \in Iot => Cond(n, r) = IF yes THEN "true" ELSE "false"
        BY <1>0, <2>3, <3>1, <4>1, UpdateStateEffect
      <4> HIDE DEF n
      <4>3. u = n
        BY DEF n, no, now
      <4> HIDE DEF u
      <4> QED
        BY <4>2, <4>3
    <3> DEFINE n == Reconciled(u, r)
    <3> HIDE DEF u
    <3>3. /\ Direction[r] # "guard" =>
                /\ r \in u.latched <=> Cond(u, r) = "true"
                /\ Cond(u, r) = IF value[r] = "true" THEN "true" ELSE "false"
          /\ Sound(u, present, enabled)
      BY <3>2 DEF Updated, yes
    <3> HIDE DEF said
    <3>4. /\ Sound(n, present, enabled) /\ KeepsStep(u, n)
          /\ n.seen = u.seen /\ n.latched = u.latched /\ n.fired = u.fired
          /\ n.leaving = u.leaving \/ n.leaving = u.leaving \cup {r}
          /\ n.on => u.on
          /\ Direction[r] = "exit" /\ Of(enabled, {"session"}) = {} /\ value[r] = "true" => ~n.on
      BY <2>3, <3>3, ReconciledEffect
    <3> HIDE DEF n
    <3>5. w' = n
      BY <2>1 DEF n
    <3>6. /\ \A q : Cond(n, q) = Cond(u, q)
          /\ GuardsHold(n, enabled) = GuardsHold(u, enabled)
      BY <3>4, SameCond
    <3>7. Opens(m, n, {})
      <4>1. Opens(m, u, {})
        <5>1. {r} \cap Timed = {}
          BY <1>0
        <5> QED
          BY <3>2, <5>1
      <4> QED
        BY <3>4, <3>6, <4>1 DEF Opens
    <3>8. Direction[r] = "exit" /\ Of(enabled, {"session"}) = {} /\ Cond(n, r) = "true" => ~n.on
      BY <3>3, <3>4, <3>6
    <3>9. Updated(m, n, r)
      <4>1. KeepsStep(m, n)
        BY <3>2, <3>4, StepThen DEF Updated
      <4>2. n.leaving \ {r} = m.leaving \ {r}
        BY <3>2, <3>4 DEF Updated
      <4>3. r \in m.latched \cup m.leaving /\ Direction[r] = "session" /\ (r \in Timed => r \in m.fired)
               => r \in n.latched \cup n.leaving
        BY <3>2, <3>4 DEF Updated
      <4> QED
        BY <1>0, <3>2, <3>4, <3>6, <3>8, <4>1, <4>2, <4>3 DEF Updated
    <3> QED
      BY <2>3, <3>5, <3>7, <3>8, <3>9 DEF m
  <2> QED
    BY <2>2, <2>3
<1> QED
  BY <1>1, <1>2

(* The debounce of r has run out: r is still over, and its task with it    *)
(* unless another session holds.                                           *)
LEMMA ExitLandsEffect ==
  ASSUME Setting, Sound(w, present, InEffect), NEW r \in Rules, ExitLands(r)
  PROVE  /\ ~paused /\ r \in Of(enabled, {"session"})
         /\ Sound(w', present, enabled) /\ KeepsStep(Quiet, w')
         /\ w'.seen = w.seen /\ w'.latched = w.latched /\ w'.leaving = w.leaving \ {r}
         /\ w'.fired \subseteq w.fired /\ w.fired \ {r} \subseteq w'.fired
         /\ w'.on => w.on /\ OtherSessionHolds(w, enabled, r)
<1> DEFINE none == <<>>
           c == [Quiet EXCEPT !.leaving = @ \ {r}, !.penter = @ \ Pairs(r)]
           d == IF r \in Timed THEN [c EXCEPT !.fired = @ \ {r}, !.win[r] = none] ELSE c
           h == HandleExit(d, enabled, r)
<1>1. /\ r \in w.leaving /\ ~paused /\ r \in Of(enabled, {"session"}) /\ Cond(w, r) = "false"
      /\ r \notin w.latched /\ InEffect = enabled /\ r \in enabled /\ r \in present
  <2>1. r \in w.leaving
    BY DEF ExitLands
  <2>2. r \in Of(InEffect, {"session"}) /\ Cond(w, r) = "false" /\ r \notin w.latched
    BY <2>1 DEF Sound, Over
  <2>3. r \in InEffect
    BY <2>2 DEF Of
  <2> QED
    BY <2>1, <2>2, <2>3, InForce DEF Setting
<1>2. w' = IF h.ok THEN Fire(h.m, "on_exit") ELSE h.m
  BY <1>1 DEF ExitLands
<1>3. /\ Sound(Quiet, present, enabled) /\ Same(w, Quiet) /\ Quiet.on = w.on
      /\ Quiet.fired = w.fired /\ Quiet.pending = w.pending
  BY <1>1, QuietEffect
<1> DEFINE m == Quiet
<1> HIDE DEF m
<1>4. none \in Seq(BOOLEAN) /\ Len(none) <= Window
  BY RuleTaskAssumption
<1> HIDE DEF none
<1>5. /\ d \in Memory /\ d.seen = m.seen /\ d.latched = m.latched /\ d.leaving = m.leaving \ {r}
      /\ d.fired \subseteq m.fired /\ m.fired \ {r} \subseteq d.fired /\ d.on = m.on
      /\ d.pending = m.pending /\ d.out = m.out
      /\ \A q \in Rules : d.win[q] \in {m.win[q], none}
  <2>1. m \in Memory /\ c = [m EXCEPT !.leaving = @ \ {r}, !.penter = @ \ Pairs(r)]
    BY <1>3 DEF Sound, m
  <2>2. /\ c \in Memory /\ c.seen = m.seen /\ c.latched = m.latched /\ c.leaving = m.leaving \ {r}
        /\ c.fired = m.fired /\ c.on = m.on /\ c.pending = m.pending /\ c.out = m.out
        /\ c.win = m.win
    BY <2>1 DEF Memory
  <2> HIDE DEF c
  <2>3. CASE r \in Timed
    <3>1. d = [c EXCEPT !.fired = @ \ {r}, !.win[r] = none]
      BY <2>3
    <3> HIDE DEF d
    <3> QED
      BY <1>4, <2>2, <3>1 DEF Memory
  <2>4. CASE r \notin Timed
    BY <2>2, <2>4
  <2> QED
    BY <2>3, <2>4
<1> HIDE DEF d
<1>6. Sound(d, present, enabled)
  <2>1. \A q : Cond(d, q) = Cond(m, q)
    BY <1>5, SameCond
  <2>2. \A q \in Rules : Len(d.win[q]) <= Window
    <3>1. \A q \in Rules : Len(m.win[q]) <= Window
      BY <1>3 DEF Sound, Observed, m
    <3> QED
      BY <1>4, <1>5, <3>1
  <2>3. Observed(d, present)
    BY <1>3, <1>5, <2>1, <2>2 DEF Sound, Observed, m
  <2>4. Over(d, enabled)
    BY <1>3, <1>5, <2>1 DEF Sound, Over, m
  <2>5. Waits(d, enabled)
    BY <1>3, <1>5 DEF Sound, Waits, m
  <2> QED
    BY <1>5, <2>3, <2>4, <2>5 DEF Sound
<1>7. /\ h.m \in Memory /\ Same(d, h.m) /\ h.m.pending = d.pending
      /\ h.m.fired = d.fired /\ h.m.win = d.win /\ h.m.out = d.out
      /\ \/ ~h.ok /\ h.m = d /\ (d.on => OtherSessionHolds(d, enabled, r))
         \/ h.ok /\ d.on /\ ~h.m.on /\ ~OtherSessionHolds(d, enabled, r)
  <2>1. d \in Memory /\ enabled \in SUBSET Rules /\ (d.on => d.pending = <<>>)
    BY <1>5, <1>6 DEF Setting, Sound, Waits
  <2> QED
    BY <1>1, <2>1, HandleExitEffect
<1> DEFINE z == h.m
<1>8. OtherSessionHolds(d, enabled, r) = OtherSessionHolds(w, enabled, r)
  BY <1>3, <1>5 DEF OtherSessionHolds, Cond, Same, m
<1>9. /\ m.seen = w.seen /\ m.latched = w.latched /\ m.leaving = w.leaving
      /\ m.fired = w.fired /\ m.on = w.on
  BY <1>3 DEF Same, m
<1>a. KeepsStep(m, d)
  BY <1>5, QuietStep
<1>10. CASE ~h.ok
  <2>1. w' = d /\ (d.on => OtherSessionHolds(d, enabled, r))
    BY <1>2, <1>7, <1>10
  <2> QED
    BY <1>1, <1>5, <1>6, <1>8, <1>9, <1>a, <2>1 DEF m
<1>11. CASE h.ok
  <2>1. z \in Memory /\ Same(d, z) /\ ~z.on /\ z.fired = d.fired /\ z.win = d.win
        /\ z.pending = d.pending /\ z.out = d.out /\ d.on
    BY <1>7, <1>11
  <2>2. w' = Fire(z, "on_exit")
    BY <1>2, <1>11
  <2> HIDE DEF z
  <2>3. Sound(z, present, enabled)
    <3>1. Waits(z, enabled)
      BY <1>6, <2>1 DEF Sound, Waits, Same
    <3> QED
      BY <1>6, <2>1, <3>1, SameSound DEF Sound, Observed
  <2>4. /\ Sound(w', present, enabled) /\ Same(z, w') /\ w'.fired = z.fired /\ w'.on = z.on
        /\ w'.out = Append(z.out, "on_exit")
    BY <2>1, <2>2, <2>3, FireSound, FireEffect
  <2>5. KeepsStep(d, w')
    <3>1. w'.on # d.on /\ w'.out = Append(d.out, IF w'.on THEN "on_enter" ELSE "on_exit")
      BY <2>1, <2>4
    <3> QED
      BY <1>5, <2>4, <3>1, ActionStep DEF Sound
  <2>6. KeepsStep(m, w')
    BY <1>a, <2>5, StepThen
  <2> QED
    BY <1>1, <1>5, <1>9, <2>1, <2>4, <2>6 DEF Same, m
<1> QED
  BY <1>10, <1>11


(* What the service operations are made of.                                *)
Blank(r) == [s \in Sources[r] |-> "none"]

LEMMA BlankEffect ==
  ASSUME NEW r \in Rules
  PROVE  /\ Fresh.seen[r] = Blank(r) /\ Blank(r) \in Views
         /\ Blank(r) \in [Sources[r] -> Tri \cup {"none"}]
         /\ \A m : m.seen[r] = Blank(r) => Cond(m, r) = "unknown"
<1>1. Fresh.seen[r] = Blank(r)
  BY DEF Fresh, Blank
<1>2. Blank(r) \in [Sources[r] -> Tri \cup {"none"}]
  BY DEF Blank
<1>3. \A s \in Sources[r] : Blank(r)[s] = "none"
  BY DEF Blank
<1>4. ASSUME NEW m, m.seen[r] = Blank(r) PROVE Cond(m, r) = "unknown"
  <2>1. {m.seen[r][s] : s \in Sources[r]} \ {"none"} = {}
    BY <1>3, <1>4
  <2> QED
    BY <2>1 DEF Cond, Or3
<1> QED
  BY <1>1, <1>2, <1>4 DEF Views

LEMMA FreshEffect ==
  /\ Fresh \in Memory /\ \A r \in Rules : Fresh.seen[r] = Blank(r)
  /\ Fresh.latched = {} /\ Fresh.leaving = {} /\ Fresh.fired = {}
  /\ ~Fresh.on /\ Fresh.pending = <<>> /\ \A r \in Rules : Fresh.win[r] = <<>>
<1> DEFINE none == <<>>
<1>1. /\ none \in Seq(Rules) /\ none \in Seq(BOOLEAN) /\ none \in Seq({"on_enter", "on_exit"})
  OBVIOUS
<1>2. \A r \in Rules : Blank(r) \in Views
  BY BlankEffect
<1>3. [r \in Rules |-> Blank(r)] \in [Rules -> Views]
  BY <1>2
<1>4. Fresh = [seen |-> [r \in Rules |-> Blank(r)], pexit |-> {}, penter |-> {},
               latched |-> {}, leaving |-> {}, fired |-> {},
               win |-> [r \in Rules |-> none], on |-> FALSE, pending |-> none, out |-> none]
  BY DEF Fresh, Blank
<1>5. [r \in Rules |-> none] \in [Rules -> Seq(BOOLEAN)]
  BY <1>1
<1> HIDE DEF none
<1>6. Fresh \in Memory
  BY <1>1, <1>3, <1>4, <1>5 DEF Memory
<1> QED
  BY <1>4, <1>6 DEF none

LEMMA FreshSound ==
  ASSUME NEW P, NEW E
  PROVE  Sound(Fresh, P, E) /\ Told(Fresh) /\ Counted(Fresh)
<1>1. \A r \in Rules : /\ Fresh.seen[r] \in [Sources[r] -> Tri \cup {"none"}]
                       /\ Cond(Fresh, r) = "unknown"
                       /\ \A s \in Sources[r] : Fresh.seen[r][s] = "none"
  BY FreshEffect, BlankEffect DEF Blank
<1>2. Observed(Fresh, P)
  <2>1. \A r \in Rules : Len(Fresh.win[r]) <= Window
    BY FreshEffect, RuleTaskAssumption
  <2> QED
    BY <1>1, <2>1, FreshEffect DEF Observed
<1>3. Over(Fresh, E)
  BY FreshEffect DEF Over
<1>4. Waits(Fresh, E)
  BY FreshEffect, Nothing DEF Waits
<1> QED
  BY <1>2, <1>3, <1>4, FreshEffect DEF Sound, Told, Counted

LEMMA ResetEffect ==
  ASSUME NEW m \in Memory, NEW R \in SUBSET Rules
  PROVE  LET n == Reset(m, R) IN
         /\ n \in Memory
         /\ \A r \in R : n.seen[r] = Blank(r) /\ n.win[r] = <<>>
         /\ \A r \in Rules \ R : n.seen[r] = m.seen[r] /\ n.win[r] = m.win[r]
         /\ n.latched = m.latched \ R /\ n.leaving = m.leaving \ R /\ n.fired = m.fired \ R
         /\ n.on = m.on /\ n.out = m.out
         /\ Range(n.pending) = Range(m.pending) \ R /\ (Once(m.pending) => Once(n.pending))
         /\ m.pending = <<>> => n.pending = <<>>
<1> DEFINE none == <<>>
           n == Reset(m, R)
           q == Without(m.pending, R)
           S == [r \in Rules |-> IF r \in R THEN Blank(r) ELSE m.seen[r]]
           W == [r \in Rules |-> IF r \in R THEN none ELSE m.win[r]]
<1>1. \A r \in Rules : Fresh.seen[r] = Blank(r) /\ Blank(r) \in Views
  BY BlankEffect
<1>2. S \in [Rules -> Views]
  BY <1>1 DEF Memory
<1>3. W \in [Rules -> Seq(BOOLEAN)]
  BY Nothing DEF Memory
<1>4. /\ q \in Seq(Rules) /\ Range(q) = Range(m.pending) \ R /\ (Once(m.pending) => Once(q))
      /\ m.pending = none => q = none
  <2>1. m.pending \in Seq(Rules) /\ Range(m.pending) \subseteq Rules
    BY RangeOf DEF Memory
  <2>2. /\ q \in Seq(Rules) /\ Range(q) = Range(m.pending) \cap (Rules \ R)
        /\ Once(m.pending) => Once(q)
    BY <2>1, KeepEffect DEF Without
  <2> HIDE DEF q
  <2>3. ASSUME m.pending = none PROVE q = none
    <3>1. Range(q) = {}
      BY <2>2, <2>3, Nothing
    <3> QED
      BY <2>2, <3>1, RangeOf
  <2> QED
    BY <2>1, <2>2, <2>3
<1>5. n = [m EXCEPT !.seen = S,
              !.pexit = {x \in @ : x[1] \notin R}, !.penter = {x \in @ : x[1] \notin R},
              !.latched = @ \ R, !.leaving = @ \ R, !.fired = @ \ R,
              !.win = W, !.pending = q]
  <2>1. S = [r \in Rules |-> IF r \in R THEN Fresh.seen[r] ELSE m.seen[r]]
    BY <1>1
  <2> HIDE DEF S, q
  <2> QED
    BY <2>1 DEF Reset, q
<1>6. S \in [Rules -> Views] /\ (\A r \in R : S[r] = Blank(r)) /\ (\A r \in Rules \ R : S[r] = m.seen[r])
      /\ (\A r \in R : W[r] = none) /\ (\A r \in Rules \ R : W[r] = m.win[r])
  BY <1>2
<1> HIDE DEF S, W, q, n, none
<1>7. /\ n \in Memory /\ n.seen = S /\ n.win = W /\ n.pending = q
      /\ n.latched = m.latched \ R /\ n.leaving = m.leaving \ R /\ n.fired = m.fired \ R
      /\ n.on = m.on /\ n.out = m.out
  BY <1>2, <1>3, <1>4, <1>5 DEF Memory
<1> QED
  BY <1>4, <1>6, <1>7 DEF n, none

LEMMA ReconfiguredEffect ==
  ASSUME NEW m \in Memory, NEW T \in SUBSET Rules
  PROVE  LET n == Reconfigured(m, T) IN
         /\ n \in Memory /\ Same(m, n) /\ n.fired = m.fired /\ n.win = m.win
         /\ Range(n.pending) = Range(m.pending) \cap EnterSide(T)
         /\ (Once(m.pending) => Once(n.pending)) /\ (m.pending = <<>> => n.pending = <<>>)
         /\ n.on <=> m.on /\ ShouldStayOn(m, T)
         /\ IF m.on /\ ~n.on THEN n.out = Append(m.out, "on_exit") ELSE n.out = m.out
         /\ n.on => SessionType(T)
<1> DEFINE none == <<>>
           n == Reconfigured(m, T)
           q == Keep(m.pending, EnterSide(T))
           p == [m EXCEPT !.pending = q]
           o == [p EXCEPT !.on = FALSE]
<1>1. /\ q \in Seq(Rules) /\ Range(q) = Range(m.pending) \cap EnterSide(T)
      /\ (Once(m.pending) => Once(q)) /\ (m.pending = none => q = none)
  <2>1. m.pending \in Seq(Rules)
    BY DEF Memory
  <2>2. /\ q \in Seq(Rules) /\ Range(q) = Range(m.pending) \cap EnterSide(T)
        /\ Once(m.pending) => Once(q)
    BY <2>1, KeepEffect
  <2> HIDE DEF q
  <2>3. ASSUME m.pending = none PROVE q = none
    <3>1. Range(q) = {}
      BY <2>2, <2>3, Nothing
    <3> QED
      BY <2>2, <3>1, RangeOf
  <2> QED
    BY <2>2, <2>3
<1>2. n = IF m.on /\ ~ShouldStayOn(m, T) THEN Fire(o, "on_exit") ELSE p
  BY DEF Reconfigured
<1>3. ShouldStayOn(m, T) => SessionType(T)
  BY DEF ShouldStayOn, SessionType, ExitSide, Of
<1> HIDE DEF q, n, none
<1>4. /\ p \in Memory /\ Same(m, p) /\ p.fired = m.fired /\ p.win = m.win /\ p.pending = q
      /\ p.on = m.on /\ p.out = m.out
  BY <1>1 DEF Memory, Same
<1>5. /\ o \in Memory /\ Same(m, o) /\ o.fired = m.fired /\ o.win = m.win /\ o.pending = q
      /\ ~o.on /\ o.out = m.out
  <2> HIDE DEF p
  <2> QED
    BY <1>4 DEF Memory, Same
<1> HIDE DEF p, o
<1>6. CASE m.on /\ ~ShouldStayOn(m, T)
  <2>1. n = Fire(o, "on_exit")
    BY <1>2, <1>6
  <2>2. /\ n \in Memory /\ Same(o, n) /\ n.pending = o.pending /\ n.on = o.on
        /\ n.fired = o.fired /\ n.win = o.win /\ n.out = Append(o.out, "on_exit")
    BY <1>5, <2>1, FireEffect
  <2>3. Same(m, n)
    BY <1>5, <2>2 DEF Same
  <2> QED
    BY <1>1, <1>5, <1>6, <2>2, <2>3 DEF n, none
<1>7. CASE ~(m.on /\ ~ShouldStayOn(m, T))
  <2>1. n = p
    BY <1>2, <1>7
  <2> QED
    BY <1>1, <1>3, <1>4, <1>7, <2>1 DEF n, none
<1> QED
  BY <1>6, <1>7


(* What holds of the memory while the rules are being changed.             *)
Loose(m, P, E) ==
    /\ m \in Memory /\ Observed(m, P) /\ Over(m, E) /\ Once(m.pending)
    /\ \A r \in Range(m.pending) : r \in Timed \cup m.latched
    /\ m.on => m.pending = <<>>

(* The rules R have started over.                                          *)
Rebuilt(m, n, R) ==
    /\ \A q \in Rules \ R : /\ n.seen[q] = m.seen[q] /\ (q \in n.latched <=> q \in m.latched)
                            /\ (q \in n.leaving <=> q \in m.leaving)
                            /\ (q \in n.fired <=> q \in m.fired)
    /\ \A q \in R : Cond(n, q) = "unknown" /\ q \notin n.leaving

LEMMA SoundLoose ==
  ASSUME NEW m, NEW P, NEW E, Sound(m, P, E), NEW P1, NEW E1, P \subseteq P1, E \subseteq E1
  PROVE  Loose(m, P1, E1)
<1>1. Observed(m, P1)
  BY DEF Sound, Observed
<1>2. Over(m, E1)
  BY DEF Sound, Over, Of
<1> QED
  BY <1>1, <1>2 DEF Sound, Waits, Loose

LEMMA LooseSound ==
  ASSUME NEW m, NEW P, NEW E, Loose(m, P, E), Range(m.pending) \subseteq EnterSide(E),
         m.on => SessionType(E)
  PROVE  Sound(m, P, E)
  BY DEF Loose, Sound, Waits

LEMMA ResetLoose ==
  ASSUME NEW m, NEW P, NEW E, Loose(m, P, E), NEW R \in SUBSET Rules,
         NEW P1, NEW E1, P \ R \subseteq P1, E \ R \subseteq E1
  PROVE  LET n == Reset(m, R) IN
         /\ Loose(n, P1, E1) /\ Rebuilt(m, n, R) /\ n.on = m.on /\ n.out = m.out
         /\ Range(n.pending) = Range(m.pending) \ R
         /\ n.latched = m.latched \ R /\ n.fired = m.fired \ R /\ n.leaving = m.leaving \ R
<1> DEFINE n == Reset(m, R)
<1>0. m \in Memory
  BY DEF Loose
<1>1. /\ n \in Memory
      /\ \A r \in R : n.seen[r] = Blank(r) /\ n.win[r] = <<>>
      /\ \A r \in Rules \ R : n.seen[r] = m.seen[r] /\ n.win[r] = m.win[r]
      /\ n.latched = m.latched \ R /\ n.leaving = m.leaving \ R /\ n.fired = m.fired \ R
      /\ n.on = m.on /\ n.out = m.out
      /\ Range(n.pending) = Range(m.pending) \ R /\ (Once(m.pending) => Once(n.pending))
      /\ m.pending = <<>> => n.pending = <<>>
  BY <1>0, ResetEffect
<1> HIDE DEF n
<1>2. \A r \in R : /\ Cond(n, r) = "unknown"
                   /\ n.seen[r] \in [Sources[r] -> Tri \cup {"none"}]
                   /\ \A s \in Sources[r] : n.seen[r][s] = "none"
                   /\ Len(n.win[r]) <= Window
  <2>1. \A r \in R : r \in Rules /\ n.seen[r] = Blank(r) /\ n.win[r] = <<>>
    BY <1>1
  <2>2. \A r \in R : \A s \in Sources[r] : n.seen[r][s] = "none"
    BY <2>1 DEF Blank
  <2>3. \A r \in R : Len(n.win[r]) <= Window
    BY <2>1, RuleTaskAssumption
  <2>4. \A r \in R : Cond(n, r) = "unknown" /\ n.seen[r] \in [Sources[r] -> Tri \cup {"none"}]
    BY <2>1, BlankEffect
  <2> QED
    BY <2>2, <2>3, <2>4
<1>3. \A q \in Rules \ R : Cond(n, q) = Cond(m, q)
  <2>1. \A q \in Rules \ R : n.seen[q] = m.seen[q]
    BY <1>1
  <2> QED
    BY <2>1 DEF Cond
<1>4. Observed(n, P1)
  <2>1. \A q \in Rules : n.seen[q] \in [Sources[q] -> Tri \cup {"none"}]
    BY <1>1, <1>2 DEF Loose, Observed
  <2>2. \A q \in Rules \ Iot : \A s \in Sources[q] : n.seen[q][s] # "unknown"
    BY <1>1, <1>2 DEF Loose, Observed
  <2>3. \A q \in Rules : Len(n.win[q]) <= Window
    BY <1>1, <1>2 DEF Loose, Observed
  <2>4. n.latched \cup n.leaving \cup n.fired \subseteq P1
    BY <1>1 DEF Loose, Observed
  <2>5. \A q \in Rules : Cond(n, q) = "true" => q \in n.latched
    BY <1>1, <1>2, <1>3 DEF Loose, Observed
  <2> QED
    BY <2>1, <2>2, <2>3, <2>4, <2>5 DEF Observed
<1>5. Over(n, E1)
  <2> SUFFICES ASSUME NEW q \in n.leaving
               PROVE  q \in Of(E1, {"session"}) /\ Cond(n, q) = "false" /\ q \notin n.latched
    BY DEF Over
  <2>1. q \in m.leaving \ R /\ q \in Rules
    BY <1>0, <1>1 DEF Memory
  <2>2. q \in Of(E, {"session"}) /\ Cond(m, q) = "false" /\ q \notin m.latched
    BY <2>1 DEF Loose, Over
  <2> QED
    BY <1>1, <1>3, <2>1, <2>2 DEF Of
<1>6. Loose(n, P1, E1)
  BY <1>1, <1>4, <1>5 DEF Loose
<1>7. Rebuilt(m, n, R)
  BY <1>1, <1>2 DEF Rebuilt
<1> QED
  BY <1>1, <1>6, <1>7 DEF n

LEMMA ReconfiguredLoose ==
  ASSUME NEW m, NEW P, NEW E, Loose(m, P, E), NEW T \in SUBSET Rules
  PROVE  LET n == Reconfigured(m, T) IN
         /\ Loose(n, P, E) /\ Rebuilt(m, n, {}) /\ Same(m, n) /\ n.fired = m.fired
         /\ Range(n.pending) = Range(m.pending) \cap EnterSide(T)
         /\ n.on <=> m.on /\ ShouldStayOn(m, T)
         /\ n.on => SessionType(T)
         /\ IF m.on /\ ~n.on THEN n.out = Append(m.out, "on_exit") ELSE n.out = m.out
<1> DEFINE n == Reconfigured(m, T)
<1>0. m \in Memory
  BY DEF Loose
<1>1. /\ n \in Memory /\ Same(m, n) /\ n.fired = m.fired /\ n.win = m.win
      /\ Range(n.pending) = Range(m.pending) \cap EnterSide(T)
      /\ (Once(m.pending) => Once(n.pending)) /\ (m.pending = <<>> => n.pending = <<>>)
      /\ n.on <=> m.on /\ ShouldStayOn(m, T)
      /\ IF m.on /\ ~n.on THEN n.out = Append(m.out, "on_exit") ELSE n.out = m.out
      /\ n.on => SessionType(T)
  BY <1>0, ReconfiguredEffect
<1> HIDE DEF n
<1>2. \A q : Cond(n, q) = Cond(m, q)
  BY <1>1, SameCond DEF Same
<1>3. Observed(n, P) /\ Over(n, E)
  BY <1>1, <1>2 DEF Loose, Observed, Over, Same
<1>4. Loose(n, P, E)
  BY <1>1, <1>3 DEF Loose, Same
<1>5. Rebuilt(m, n, {})
  BY <1>1 DEF Rebuilt, Same
<1> QED
  BY <1>1, <1>4, <1>5 DEF n

LEMMA ReshapedLoose ==
  ASSUME NEW m, NEW P, NEW E, Loose(m, P, E), NEW r \in P, P \subseteq Rules
  PROVE  LET n == Reshaped(m, r) IN
         /\ Loose(n, P, E) /\ Rebuilt(m, n, {r}) /\ n.on = m.on /\ n.out = m.out
         /\ Range(n.pending) \subseteq Range(m.pending)
         /\ r \in n.latched <=> HasDispatchedEnter(m, r)
         /\ r \in Timed => (r \in n.fired <=> HasDispatchedEnter(m, r))
<1> DEFINE R == {r}
           u == Reset(m, R)
           n == Reshaped(m, r)
<1>0. R \in SUBSET Rules /\ P \ R \subseteq P /\ E \ R \subseteq E /\ r \in Rules
  OBVIOUS
<1> HIDE DEF R
<1>1. /\ Loose(u, P, E) /\ Rebuilt(m, u, R) /\ u.on = m.on /\ u.out = m.out
      /\ Range(u.pending) = Range(m.pending) \ R
      /\ u.latched = m.latched \ R /\ u.fired = m.fired \ R /\ u.leaving = m.leaving \ R
  BY <1>0, ResetLoose
<1>2. n = IF ~HasDispatchedEnter(m, r) THEN u
          ELSE [u EXCEPT !.latched = @ \cup {r}, !.fired = IF r \in Timed THEN @ \cup {r} ELSE @]
  BY DEF Reshaped, R
<1> HIDE DEF u, n
<1>3. u \in Memory /\ R = {r}
  BY <1>1 DEF Loose, R
<1>4. CASE ~HasDispatchedEnter(m, r)
  <2>1. n = u
    BY <1>2, <1>4
  <2> QED
    BY <1>1, <1>3, <1>4, <2>1 DEF n
<1>5. CASE HasDispatchedEnter(m, r)
  <2>1. /\ n \in Memory /\ n.seen = u.seen /\ n.leaving = u.leaving /\ n.win = u.win
        /\ n.latched = u.latched \cup {r} /\ n.on = u.on /\ n.out = u.out
        /\ n.pending = u.pending
        /\ n.fired = IF r \in Timed THEN u.fired \cup {r} ELSE u.fired
    <3>1. n = [u EXCEPT !.latched = @ \cup {r}, !.fired = IF r \in Timed THEN @ \cup {r} ELSE @]
      BY <1>2, <1>5
    <3> QED
      BY <1>0, <1>3, <3>1 DEF Memory
  <2>2. \A q : Cond(n, q) = Cond(u, q)
    BY <2>1, SameCond
  <2>3. Observed(n, P)
    BY <1>1, <2>1, <2>2 DEF Loose, Observed
  <2>4. r \notin u.leaving
    BY <1>1, <1>3
  <2>5. Over(n, E)
    BY <1>1, <2>1, <2>2, <2>4 DEF Loose, Over
  <2>6. Loose(n, P, E)
    BY <1>1, <2>1, <2>3, <2>5 DEF Loose
  <2>7. Rebuilt(m, n, {r})
    BY <1>1, <1>3, <2>1, <2>2, <2>4 DEF Rebuilt
  <2> QED
    BY <1>1, <1>5, <2>1, <2>6, <2>7 DEF n
<1> QED
  BY <1>4, <1>5


(* A service operation never opens the task, and closes it with on_exit.   *)
Served(R) ==
    /\ Sound(w', present', InEffect') /\ Setting'
    /\ Rebuilt(w, w', R)
    /\ w'.on => w.on /\ SessionType(enabled')
    /\ w'.out = IF w.on /\ ~w'.on THEN <<"on_exit">> ELSE <<>>

LEMMA OutOnce == Append(<<>>, "on_exit") = <<"on_exit">>
  OBVIOUS

LEMMA QuietLoose ==
  ASSUME Sound(w, present, InEffect)
  PROVE  /\ Loose(Quiet, present, InEffect) /\ Rebuilt(w, Quiet, {})
         /\ Same(w, Quiet) /\ Quiet.on = w.on /\ Quiet.out = <<>> /\ Quiet.fired = w.fired
         /\ Range(Quiet.pending) \subseteq EnterSide(InEffect)
         /\ Quiet.on => ~paused
<1>1. /\ Sound(Quiet, present, InEffect) /\ Same(w, Quiet) /\ Quiet.on = w.on /\ Quiet.out = <<>>
      /\ Quiet.fired = w.fired
  BY QuietEffect
<1> DEFINE m == Quiet
<1> HIDE DEF m
<1>2. Loose(m, present, InEffect)
  BY <1>1, SoundLoose DEF m
<1>3. Range(m.pending) \subseteq EnterSide(InEffect) /\ (m.on => SessionType(InEffect))
  BY <1>1 DEF Sound, Waits, m
<1>4. paused => ~SessionType(InEffect)
  BY DEF InEffect, SessionType, ExitSide, Of
<1>5. Rebuilt(w, m, {})
  BY <1>1 DEF Rebuilt, Same, m
<1> QED
  BY <1>1, <1>2, <1>3, <1>4, <1>5 DEF m

LEMMA RebuiltThen ==
  ASSUME NEW m, NEW u, NEW n, NEW R, NEW Q, Rebuilt(m, u, R), Rebuilt(u, n, Q),
         R = {} \/ Q = {}, R \subseteq Rules, Q \subseteq Rules
  PROVE  Rebuilt(m, n, R \cup Q)
<1>1. CASE Q = {}
  <2>1. R \cup Q = R
    BY <1>1
  <2>2. \A q \in Rules : n.seen[q] = u.seen[q] /\ (q \in n.leaving <=> q \in u.leaving)
    BY <1>1 DEF Rebuilt
  <2>3. \A q \in R : Cond(n, q) = Cond(u, q)
    BY <2>2 DEF Cond
  <2> QED
    BY <1>1, <2>1, <2>2, <2>3 DEF Rebuilt
<1>2. CASE R = {}
  <2>1. R \cup Q = Q
    BY <1>2
  <2> QED
    BY <1>2, <2>1 DEF Rebuilt
<1> QED
  BY <1>1, <1>2

(* An edit that leaves the memory of the rules alone.                      *)
LEMMA KeptServed ==
  ASSUME Setting, Sound(w, present, InEffect), w' = Reconfigured(Quiet, enabled'), Setting',
         present \subseteq present', InEffect \subseteq InEffect', paused' => InEffect = {}
  PROVE  Served({}) /\ Same(w, w') /\ w'.fired = w.fired
<1> DEFINE m == Quiet
<1>1. /\ Loose(m, present, InEffect) /\ Same(w, m) /\ m.on = w.on /\ m.out = <<>>
      /\ m.fired = w.fired /\ Sound(m, present, InEffect)
      /\ Range(m.pending) \subseteq EnterSide(InEffect)
      /\ m.on => SessionType(InEffect)
  BY QuietLoose, QuietEffect DEF Sound, Waits
<1> DEFINE P1 == present'
           E1 == InEffect'
           T == enabled'
<1>t. P1 = present' /\ E1 = InEffect' /\ T = enabled' /\ T \in SUBSET Rules
      /\ present \subseteq P1 /\ InEffect \subseteq E1
  BY DEF Setting
<1> HIDE DEF m, P1, E1, T
<1>2. Loose(m, P1, E1)
  BY <1>1, <1>t, SoundLoose
<1> DEFINE n == Reconfigured(m, T)
<1>3. /\ Loose(n, P1, E1) /\ Rebuilt(m, n, {}) /\ Same(m, n) /\ n.fired = m.fired
      /\ Range(n.pending) = Range(m.pending) \cap EnterSide(T)
      /\ n.on <=> m.on /\ ShouldStayOn(m, T)
      /\ n.on => SessionType(T)
      /\ IF m.on /\ ~n.on THEN n.out = Append(m.out, "on_exit") ELSE n.out = m.out
  BY <1>2, <1>t, ReconfiguredLoose
<1> HIDE DEF n
<1>4. w' = n
  BY <1>t DEF n, m
<1>5. Sound(n, P1, E1)
  <2>1. CASE paused'
    <3>1. E1 = {} /\ InEffect = {}
      BY <1>t, <2>1 DEF InEffect
    <3>2. ~m.on /\ Range(m.pending) = {}
      BY <1>1, <3>1 DEF SessionType, ExitSide, EnterSide, Of
    <3>3. Range(n.pending) = {} /\ ~n.on
      BY <1>3, <3>2
    <3> QED
      BY <1>3, <3>1, <3>3, LooseSound
  <2>2. CASE ~paused'
    <3>1. E1 = T
      BY <1>t, <2>2 DEF InEffect
    <3> QED
      BY <1>3, <3>1, LooseSound
  <2> QED
    BY <2>1, <2>2
<1>6. Same(w, n) /\ n.fired = w.fired
  BY <1>1, <1>3 DEF Same
<1>7. Rebuilt(w, n, {})
  BY <1>6 DEF Rebuilt, Same
<1>8. n.out = IF w.on /\ ~n.on THEN <<"on_exit">> ELSE <<>>
  BY <1>1, <1>3, OutOnce
<1> QED
  BY <1>1, <1>3, <1>4, <1>5, <1>6, <1>7, <1>8, <1>t DEF Served

LEMMA CreateEffect ==
  ASSUME Setting, Sound(w, present, InEffect), NEW r \in Rules, Create(r)
  PROVE  Served({}) /\ Same(w, w') /\ w'.fired = w.fired
<1>1. /\ present' = present \cup {r} /\ enabled' = enabled \cup {r} /\ value' = value
      /\ paused' = paused /\ w' = Reconfigured(Quiet, enabled')
  BY DEF Create
<1>2. Setting'
  BY <1>1 DEF Setting
<1>3. InEffect \subseteq InEffect' /\ (paused' => InEffect = {})
  BY <1>1 DEF InEffect
<1> QED
  BY <1>1, <1>2, <1>3, KeptServed

LEMMA TouchEffect ==
  ASSUME Setting, Sound(w, present, InEffect), Touch
  PROVE  Served({}) /\ Same(w, w') /\ w'.fired = w.fired
<1>1. /\ present' = present /\ enabled' = enabled /\ value' = value
      /\ paused' = paused /\ w' = Reconfigured(Quiet, enabled')
  BY DEF Touch
<1>2. Setting'
  BY <1>1 DEF Setting
<1>3. InEffect \subseteq InEffect' /\ (paused' => InEffect = {})
  BY <1>1 DEF InEffect
<1> QED
  BY <1>1, <1>2, <1>3, KeptServed

LEMMA ResumeEffect ==
  ASSUME Setting, Sound(w, present, InEffect), Resume
  PROVE  Served({}) /\ Same(w, w') /\ w'.fired = w.fired
<1>1. /\ present' = present /\ enabled' = enabled /\ value' = value
      /\ paused /\ paused' = FALSE /\ w' = Reconfigured(Quiet, enabled')
  BY DEF Resume
<1>2. Setting'
  BY <1>1 DEF Setting
<1>3. InEffect \subseteq InEffect' /\ (paused' => InEffect = {})
  BY <1>1 DEF InEffect
<1> QED
  BY <1>1, <1>2, <1>3, KeptServed


LEMMA DeleteEffect ==
  ASSUME Setting, Sound(w, present, InEffect), NEW r \in Rules, Delete(r)
  PROVE  Served({r}) /\ r \notin w'.latched
<1> DEFINE m == Quiet
           T == enabled \ {r}
           P1 == present \ {r}
           E == InEffect
           E1 == InEffect \ {r}
           R == {r}
           u == Reconfigured(m, T)
           n == Reset(u, R)
<1>1. /\ present' = P1 /\ enabled' = T /\ value' = value /\ paused' = paused /\ w' = n
  BY DEF Delete
<1>2. Setting'
  BY <1>1 DEF Setting
<1>3. InEffect' = E1 /\ T \in SUBSET Rules /\ (paused => E = {}) /\ (~paused => E1 = T)
      /\ R \in SUBSET Rules /\ present \ R \subseteq P1 /\ E \ R \subseteq E1 /\ {} \cup R = R
      /\ r \in R
  BY <1>1 DEF InEffect, Setting
<1>4. /\ Loose(m, present, E) /\ Rebuilt(w, m, {}) /\ Same(w, m) /\ m.on = w.on /\ m.out = <<>>
      /\ m.fired = w.fired /\ Range(m.pending) \subseteq EnterSide(E) /\ (m.on => ~paused)
  BY QuietLoose
<1> HIDE DEF m, T, P1, E, E1, R
<1>5. /\ Loose(u, present, E) /\ Rebuilt(m, u, {})
      /\ Range(u.pending) = Range(m.pending) \cap EnterSide(T)
      /\ u.on <=> m.on /\ ShouldStayOn(m, T)
      /\ u.on => SessionType(T)
      /\ IF m.on /\ ~u.on THEN u.out = Append(m.out, "on_exit") ELSE u.out = m.out
  BY <1>3, <1>4, ReconfiguredLoose
<1> HIDE DEF u
<1>6. /\ Loose(n, P1, E1) /\ Rebuilt(u, n, R) /\ n.on = u.on /\ n.out = u.out
      /\ Range(n.pending) = Range(u.pending) \ R /\ n.latched = u.latched \ R
  <2>1. Loose(u, present, E) /\ R \in SUBSET Rules /\ present \ R \subseteq P1 /\ E \ R \subseteq E1
    BY <1>3, <1>5
  <2> QED
    BY <2>1, ResetLoose
<1> HIDE DEF n
<1>7. Sound(n, P1, E1)
  <2>1. CASE paused
    <3>1. Range(n.pending) = {} /\ ~n.on
      BY <1>3, <1>4, <1>5, <1>6, <2>1 DEF EnterSide, Of
    <3> QED
      BY <1>6, <3>1, LooseSound
  <2>2. CASE ~paused
    <3>1. Range(n.pending) \subseteq EnterSide(E1) /\ (n.on => SessionType(E1))
      BY <1>3, <1>5, <1>6, <2>2
    <3> QED
      BY <1>6, <3>1, LooseSound
  <2> QED
    BY <2>1, <2>2
<1>8. Rebuilt(w, n, R)
  <2>1. Rebuilt(w, u, {} \cup {})
    BY <1>4, <1>5, RebuiltThen
  <2>2. {} \cup {} = {}
    OBVIOUS
  <2>3. Rebuilt(w, u, {})
    BY <2>1, <2>2
  <2>4. Rebuilt(w, n, {} \cup R)
    BY <1>3, <1>6, <2>3, RebuiltThen
  <2> QED
    BY <1>3, <2>4
<1>9. n.out = IF w.on /\ ~n.on THEN <<"on_exit">> ELSE <<>>
  BY <1>4, <1>5, <1>6, OutOnce
<1> QED
  BY <1>1, <1>2, <1>3, <1>4, <1>5, <1>6, <1>7, <1>8, <1>9 DEF Served, R

LEMMA ToggleEffect ==
  ASSUME Setting, Sound(w, present, InEffect), NEW r \in Rules, Toggle(r)
  PROVE  Served({r}) /\ r \notin w'.latched
<1> DEFINE m == Quiet
           T == enabled'
           E == InEffect
           E1 == InEffect'
           R == {r}
           u == Reset(m, R)
           n == Reconfigured(u, T)
<1>1. /\ present' = present /\ T \in {enabled \ {r}, enabled \cup {r}} /\ value' = value
      /\ paused' = paused /\ w' = n /\ r \in present
  BY DEF Toggle
<1>2. Setting'
  BY <1>1 DEF Setting
<1>3. T \in SUBSET Rules /\ (paused => E1 = {}) /\ (~paused => E1 = T)
      /\ R \in SUBSET Rules /\ present \ R \subseteq present /\ E \ R \subseteq E1 /\ R \cup {} = R
      /\ r \in R
  BY <1>1 DEF InEffect, Setting
<1>4. /\ Loose(m, present, E) /\ Rebuilt(w, m, {}) /\ Same(w, m) /\ m.on = w.on /\ m.out = <<>>
      /\ m.fired = w.fired /\ Range(m.pending) \subseteq EnterSide(E) /\ (m.on => ~paused)
      /\ (paused => E = {})
  BY QuietLoose DEF InEffect
<1>t. T = enabled' /\ E1 = InEffect'
  OBVIOUS
<1> HIDE DEF m, T, E, E1, R
<1>5. /\ Loose(u, present, E1) /\ Rebuilt(m, u, R) /\ u.on = m.on /\ u.out = m.out
      /\ Range(u.pending) = Range(m.pending) \ R /\ u.latched = m.latched \ R
  BY <1>3, <1>4, ResetLoose
<1> HIDE DEF u
<1>6. /\ Loose(n, present, E1) /\ Rebuilt(u, n, {}) /\ Same(u, n)
      /\ Range(n.pending) = Range(u.pending) \cap EnterSide(T)
      /\ n.on <=> u.on /\ ShouldStayOn(u, T)
      /\ n.on => SessionType(T)
      /\ IF u.on /\ ~n.on THEN n.out = Append(u.out, "on_exit") ELSE n.out = u.out
  BY <1>3, <1>5, ReconfiguredLoose
<1> HIDE DEF n
<1>7. Sound(n, present, E1)
  <2>1. CASE paused
    <3>1. Range(n.pending) = {} /\ ~n.on
      BY <1>3, <1>4, <1>5, <1>6, <2>1 DEF EnterSide, Of
    <3> QED
      BY <1>6, <3>1, LooseSound
  <2>2. CASE ~paused
    <3>1. Range(n.pending) \subseteq EnterSide(E1) /\ (n.on => SessionType(E1))
      BY <1>3, <1>6, <2>2
    <3> QED
      BY <1>6, <3>1, LooseSound
  <2> QED
    BY <2>1, <2>2
<1>8. Rebuilt(w, n, R)
  <2>1. Rebuilt(w, u, {} \cup R)
    BY <1>3, <1>4, <1>5, RebuiltThen
  <2>2. {} \cup R = R
    OBVIOUS
  <2>3. Rebuilt(w, u, R)
    BY <2>1, <2>2
  <2>4. Rebuilt(w, n, R \cup {})
    BY <1>3, <1>6, <2>3, RebuiltThen
  <2> QED
    BY <1>3, <2>4
<1>9. n.out = IF w.on /\ ~n.on THEN <<"on_exit">> ELSE <<>>
  BY <1>4, <1>5, <1>6, OutOnce
<1>10. r \notin n.latched
  BY <1>3, <1>5, <1>6 DEF Same
<1> QED
  BY <1>1, <1>2, <1>4, <1>5, <1>6, <1>7, <1>8, <1>9, <1>10, <1>t DEF Served, R

LEMMA EditEffect ==
  ASSUME Setting, Sound(w, present, InEffect), NEW r \in Rules, EditCondition(r)
  PROVE  /\ Served({r}) /\ (r \in w'.latched <=> HasDispatchedEnter(w, r))
         /\ r \in Timed => (r \in w'.fired <=> HasDispatchedEnter(w, r))
<1> DEFINE m == Quiet
           T == enabled
           E == InEffect
           R == {r}
           u == Reshaped(m, r)
           n == Reconfigured(u, T)
<1>1. /\ present' = present /\ T = enabled' /\ value' = value
      /\ paused' = paused /\ w' = n /\ r \in present
  BY DEF EditCondition
<1>2. Setting'
  BY <1>1 DEF Setting
<1>3. T \in SUBSET Rules /\ (paused => E = {}) /\ (~paused => E = T) /\ E = InEffect'
      /\ R \in SUBSET Rules /\ R \cup {} = R /\ present \subseteq Rules
  BY <1>1 DEF InEffect, Setting
<1>4. /\ Loose(m, present, E) /\ Rebuilt(w, m, {}) /\ Same(w, m) /\ m.on = w.on /\ m.out = <<>>
      /\ m.fired = w.fired /\ Range(m.pending) \subseteq EnterSide(E) /\ (m.on => ~paused)
  BY QuietLoose
<1>h. HasDispatchedEnter(m, r) <=> HasDispatchedEnter(w, r)
  BY <1>4 DEF HasDispatchedEnter, Same
<1> HIDE DEF m, T, E
<1>5. /\ Loose(u, present, E) /\ Rebuilt(m, u, R) /\ u.on = m.on /\ u.out = m.out
      /\ Range(u.pending) \subseteq Range(m.pending)
      /\ r \in u.latched <=> HasDispatchedEnter(m, r)
      /\ r \in Timed => (r \in u.fired <=> HasDispatchedEnter(m, r))
  BY <1>1, <1>3, <1>4, ReshapedLoose
<1> HIDE DEF u, R
<1>6. /\ Loose(n, present, E) /\ Rebuilt(u, n, {}) /\ Same(u, n) /\ n.fired = u.fired
      /\ Range(n.pending) = Range(u.pending) \cap EnterSide(T)
      /\ n.on <=> u.on /\ ShouldStayOn(u, T)
      /\ n.on => SessionType(T)
      /\ IF u.on /\ ~n.on THEN n.out = Append(u.out, "on_exit") ELSE n.out = u.out
  BY <1>3, <1>5, ReconfiguredLoose
<1> HIDE DEF n
<1>7. Sound(n, present, E)
  <2>1. CASE paused
    <3>1. Range(n.pending) = {} /\ ~n.on
      BY <1>3, <1>4, <1>5, <1>6, <2>1 DEF EnterSide, Of
    <3> QED
      BY <1>6, <3>1, LooseSound
  <2>2. CASE ~paused
    <3>1. Range(n.pending) \subseteq EnterSide(E) /\ (n.on => SessionType(E))
      BY <1>3, <1>6, <2>2
    <3> QED
      BY <1>6, <3>1, LooseSound
  <2> QED
    BY <2>1, <2>2
<1>8. Rebuilt(w, n, R)
  <2>1. Rebuilt(w, u, {} \cup R)
    BY <1>3, <1>4, <1>5, RebuiltThen
  <2>2. {} \cup R = R
    OBVIOUS
  <2>3. Rebuilt(w, u, R)
    BY <2>1, <2>2
  <2>4. Rebuilt(w, n, R \cup {})
    BY <1>3, <1>6, <2>3, RebuiltThen
  <2> QED
    BY <1>3, <2>4
<1>9. n.out = IF w.on /\ ~n.on THEN <<"on_exit">> ELSE <<>>
  BY <1>4, <1>5, <1>6, OutOnce
<1>10. /\ r \in n.latched <=> HasDispatchedEnter(w, r)
       /\ r \in Timed => (r \in n.fired <=> HasDispatchedEnter(w, r))
  BY <1>5, <1>6, <1>h DEF Same
<1> QED
  BY <1>1, <1>2, <1>3, <1>4, <1>5, <1>6, <1>7, <1>8, <1>9, <1>10 DEF Served, R

LEMMA PauseEffect ==
  ASSUME Setting, Sound(w, present, InEffect), Pause
  PROVE  /\ Setting' /\ Sound(w', present', InEffect') /\ InEffect' = {}
         /\ ~w'.on /\ w'.out = <<>> /\ w'.latched = {} /\ w'.leaving = {} /\ w'.fired = {}
<1> DEFINE m == Quiet
           R == present
           none == <<>>
           u == Reset(m, R)
           n == [u EXCEPT !.on = FALSE, !.pending = none]
<1>1. /\ present' = present /\ enabled' = enabled /\ value' = value /\ paused' = TRUE /\ w' = n
  BY DEF Pause
<1>2. Setting' /\ InEffect' = {} /\ R \in SUBSET Rules /\ present \ R \subseteq present
      /\ InEffect \ R \subseteq {}
  BY <1>1 DEF Setting, InEffect
<1>3. Loose(m, present, InEffect) /\ m.out = none /\ none \in Seq(Rules)
      /\ Range(none) = {} /\ Once(none)
  BY QuietLoose, Nothing
<1>4. m.latched \cup m.leaving \cup m.fired \subseteq R
  BY <1>3 DEF Loose, Observed
<1> HIDE DEF m, R, none
<1>5. /\ Loose(u, present, {}) /\ u.out = m.out
      /\ u.latched = m.latched \ R /\ u.fired = m.fired \ R /\ u.leaving = m.leaving \ R
  BY <1>2, <1>3, ResetLoose
<1> HIDE DEF u
<1>6. /\ n \in Memory /\ n.seen = u.seen /\ n.latched = u.latched /\ n.leaving = u.leaving
      /\ n.fired = u.fired /\ n.win = u.win /\ ~n.on /\ n.pending = none /\ n.out = none
  BY <1>3, <1>5 DEF Memory, Loose
<1> HIDE DEF n
<1>7. Loose(n, present, {})
  <2>1. \A q : Cond(n, q) = Cond(u, q)
    BY <1>6, SameCond
  <2>2. Observed(n, present) /\ Over(n, {})
    BY <1>5, <1>6, <2>1 DEF Loose, Observed, Over
  <2> QED
    BY <1>3, <1>6, <2>2 DEF Loose
<1>8. Sound(n, present, {})
  BY <1>3, <1>6, <1>7, LooseSound
<1> QED
  BY <1>1, <1>2, <1>4, <1>5, <1>6, <1>8 DEF none

(* The rollover runs past the task layer: the task stays what it is.       *)
LEMMA CrossDayEffect ==
  ASSUME Setting, Sound(w, present, InEffect), CrossDay
  PROVE  /\ Setting' /\ InEffect' = InEffect /\ Sound(w', present, InEffect)
         /\ w'.seen = w.seen /\ w'.latched = w.latched /\ w'.on = w.on
         /\ \E A : /\ A \subseteq Of(w.latched, {"session"})
                   /\ w'.leaving = w.leaving \ A /\ w'.fired = w.fired \ A
<1> DEFINE A == Of(present, {"session"}) \cap w.latched
           none == <<>>
           m == Quiet
           S == [r \in Rules |-> IF r \in A THEN none ELSE m.win[r]]
           acts == <<"on_exit", "on_enter">>
           n == [m EXCEPT !.leaving = @ \ A, !.fired = @ \ A, !.win = S, !.out = acts]
<1>1. UNCHANGED <<value, present, enabled, paused>> /\ w' = n
  BY DEF CrossDay
<1>2. Setting' /\ InEffect' = InEffect
  BY <1>1 DEF Setting, InEffect
<1>3. Sound(m, present, InEffect) /\ Same(w, m) /\ m.on = w.on /\ m.fired = w.fired
  BY QuietEffect
<1>4. A \subseteq Of(w.latched, {"session"}) /\ acts \in Seq({"on_enter", "on_exit"})
  BY DEF Setting, Of
<1>5. S \in [Rules -> Seq(BOOLEAN)] /\ \A r \in Rules : S[r] \in {m.win[r], <<>>}
  <2>1. m.win \in [Rules -> Seq(BOOLEAN)]
    BY <1>3 DEF Sound, Memory
  <2> QED
    BY <2>1, Nothing
<1> HIDE DEF A, S, m, acts
<1>6. /\ n \in Memory /\ n.seen = m.seen /\ n.latched = m.latched /\ n.on = m.on
      /\ n.pending = m.pending /\ n.leaving = m.leaving \ A /\ n.fired = m.fired \ A /\ n.win = S
  BY <1>3, <1>4, <1>5 DEF Memory, Sound
<1> HIDE DEF n
<1>7. Sound(n, present, InEffect)
  <2>1. \A q : Cond(n, q) = Cond(m, q)
    BY <1>6, SameCond
  <2>2. \A q \in Rules : Len(n.win[q]) <= Window
    BY <1>3, <1>5, <1>6, RuleTaskAssumption DEF Sound, Observed
  <2>3. Observed(n, present)
    BY <1>3, <1>6, <2>1, <2>2 DEF Sound, Observed
  <2>4. Over(n, InEffect) /\ Waits(n, InEffect)
    BY <1>3, <1>6, <2>1 DEF Sound, Over, Waits
  <2> QED
    BY <1>6, <2>3, <2>4 DEF Sound
<1> QED
  BY <1>1, <1>2, <1>3, <1>4, <1>6, <1>7 DEF Same


-----------------------------------------------------------------------------
(* The inductive invariant.                                                *)
IndInv == Setting /\ Sound(w, present, InEffect) /\ Told(w) /\ Counted(w)

LEMMA SameTold ==
  ASSUME NEW m, NEW n, Told(m), Counted(m), Same(m, n), m.fired \subseteq n.fired
  PROVE  Told(n) /\ Counted(n)
<1>1. \A q : Cond(n, q) = Cond(m, q)
  BY SameCond DEF Same
<1> QED
  BY <1>1 DEF Told, Counted, Same

LEMMA ServedTold ==
  ASSUME NEW R, R \subseteq Rules, Served(R), Told(w), Counted(w)
  PROVE  Told(w') /\ Counted(w')
<1>0. w' \in Memory
  BY DEF Served, Sound
<1>1. ASSUME NEW q \in w'.latched, Direction[q] = "session" PROVE Cond(w', q) # "false"
  <2>1. q \in Rules
    BY <1>0 DEF Memory
  <2>2. CASE q \in R
    BY <2>2 DEF Served, Rebuilt
  <2>3. CASE q \notin R
    <3>1. w'.seen[q] = w.seen[q] /\ q \in w.latched
      BY <2>1, <2>3 DEF Served, Rebuilt
    <3>2. Cond(w, q) # "false"
      BY <1>1, <3>1 DEF Told
    <3> QED
      BY <3>1, <3>2 DEF Cond
  <2> QED
    BY <2>2, <2>3
<1>2. ASSUME NEW q \in w'.leaving \cap Timed PROVE q \in w'.fired
  <2>1. q \in Rules \ R
    BY <1>0 DEF Memory, Served, Rebuilt
  <2> QED
    BY <2>1 DEF Served, Rebuilt, Counted
<1> QED
  BY <1>1, <1>2 DEF Told, Counted

LEMMA InitIndInv ==
  ASSUME Init
  PROVE  IndInv
<1>1. Setting
  BY DEF Init, Setting
<1>2. w = Fresh
  BY DEF Init
<1> QED
  BY <1>1, <1>2, FreshSound DEF IndInv

LEMMA QuietTold ==
  ASSUME Sound(w, present, InEffect), Told(w), Counted(w)
  PROVE  Told(Quiet) /\ Counted(Quiet) /\ Sound(Quiet, present, InEffect)
<1>1. Same(w, Quiet) /\ Quiet.fired = w.fired /\ Sound(Quiet, present, InEffect)
  BY QuietEffect
<1> DEFINE m == Quiet
<1> HIDE DEF m
<1>2. Told(m) /\ Counted(m)
  BY <1>1, SameTold DEF m
<1> QED
  BY <1>1, <1>2 DEF m

LEMMA NextIndInv ==
  ASSUME IndInv, [Next]_vars
  PROVE  IndInv'
<1>0. Setting /\ Sound(w, present, InEffect) /\ Told(w) /\ Counted(w)
  BY DEF IndInv
<1>1. ASSUME UNCHANGED <<value, present, enabled, paused>>
      PROVE  Setting' /\ InEffect' = InEffect /\ present' = present
  BY <1>0, <1>1 DEF Setting, InEffect
<1>2. ASSUME NEW R \in SUBSET Rules, Served(R) PROVE IndInv'
  <2>1. Told(w') /\ Counted(w')
    BY <1>0, <1>2, ServedTold
  <2> QED
    BY <1>2, <2>1 DEF Served, IndInv
<1>q. Told(Quiet) /\ Counted(Quiet) /\ Sound(Quiet, present, InEffect)
  BY <1>0, QuietTold
<1>3. ASSUME NEW r \in Rules, NEW s \in Sources[r], Frame(r, s) PROVE IndInv'
  <2>1. Setting' /\ InEffect' = InEffect /\ present' = present
    BY <1>1, <1>3 DEF Frame
  <2>2. CASE w' = Quiet
    BY <1>q, <2>1, <2>2 DEF IndInv
  <2>3. CASE ~paused /\ r \in enabled /\ Updated(Quiet, w', r)
    <3>1. Told(w') /\ Counted(w')
      BY <1>0, <1>q, <2>3, UpdatedTold
    <3>2. Sound(w', present, InEffect)
      BY <2>3 DEF Updated, InEffect
    <3> QED
      BY <2>1, <3>1, <3>2 DEF IndInv
  <2> QED
    BY <1>0, <1>3, <2>2, <2>3, FrameEffect
<1>4. ASSUME NEW r \in Iot, DeviceChanges(r) PROVE IndInv'
  <2>1. /\ value' \in [Iot -> Tri] /\ present' = present /\ enabled' = enabled
        /\ InEffect' = InEffect /\ w' = Quiet
    BY <1>0, <1>4 DEF DeviceChanges, Setting, InEffect
  <2>2. Setting'
    BY <1>0, <2>1 DEF Setting
  <2> QED
    BY <1>q, <2>1, <2>2 DEF IndInv
<1>5. ASSUME NEW r \in Iot, IotEval(r) PROVE IndInv'
  <2>0. r \in Rules
    BY RuleTaskAssumption
  <2>1. Setting' /\ InEffect' = InEffect /\ present' = present
    BY <1>1, <1>5 DEF IotEval
  <2>2. CASE w' = Quiet
    BY <1>q, <2>1, <2>2 DEF IndInv
  <2>3. CASE w' = MarkUnknown(Quiet, r)
    <3> DEFINE m == Quiet
               n == MarkUnknown(m, r)
    <3>1. Sound(n, present, InEffect)
      BY <1>q, MarkUnknownSound
    <3> HIDE DEF m
    <3>2. Sound(m, present, InEffect) /\ m \in Memory /\ Told(m) /\ Counted(m)
      BY <1>q DEF Sound, m
    <3>3. /\ n.leaving = m.leaving \ {r} /\ n.latched = m.latched \cup ({r} \cap m.leaving)
          /\ n.fired = m.fired /\ n \in Memory
          /\ Cond(n, r) = "unknown" /\ \A q \in Rules \ {r} : Cond(n, q) = Cond(m, q)
      BY <3>2, MarkUnknownEffect
    <3> HIDE DEF n
    <3>4. Told(n)
      <4> SUFFICES ASSUME NEW q \in n.latched, Direction[q] = "session" PROVE Cond(n, q) # "false"
        BY DEF Told
      <4>1. q \in Rules
        BY <3>3 DEF Memory
      <4>2. q # r => q \in m.latched
        BY <3>3
      <4> QED
        BY <3>2, <3>3, <4>1, <4>2 DEF Told
    <3>5. Counted(n)
      BY <3>2, <3>3 DEF Counted
    <3>6. w' = n
      BY <2>3 DEF n, m
    <3>7. Sound(n, present, InEffect)
      BY <3>1 DEF n
    <3> QED
      BY <2>1, <3>4, <3>5, <3>6, <3>7 DEF IndInv
  <2>4. CASE ~paused /\ r \in enabled /\ Updated(Quiet, w', r)
    <3>1. Told(w') /\ Counted(w')
      BY <1>0, <1>q, <2>0, <2>4, UpdatedTold
    <3>2. Sound(w', present, InEffect)
      BY <2>4 DEF Updated, InEffect
    <3> QED
      BY <2>1, <3>1, <3>2 DEF IndInv
  <2> QED
    BY <1>0, <1>5, <2>2, <2>3, <2>4, IotEvalEffect
<1>6. ASSUME NEW r \in Rules, ExitLands(r) PROVE IndInv'
  <2>1. Setting' /\ InEffect' = InEffect /\ present' = present
    BY <1>1, <1>6 DEF ExitLands
  <2>2. /\ ~paused /\ Sound(w', present, enabled)
        /\ w'.seen = w.seen /\ w'.latched = w.latched /\ w'.leaving = w.leaving \ {r}
        /\ w.fired \ {r} \subseteq w'.fired
    BY <1>0, <1>6, ExitLandsEffect
  <2>3. Told(w')
    <3>1. \A q : Cond(w', q) = Cond(w, q)
      BY <2>2, SameCond
    <3> QED
      BY <1>0, <2>2, <3>1 DEF Told
  <2>4. Counted(w')
    BY <1>0, <2>2 DEF Counted
  <2>5. Sound(w', present, InEffect)
    BY <2>2 DEF InEffect
  <2> QED
    BY <2>1, <2>3, <2>4, <2>5 DEF IndInv
<1>7. ASSUME NEW r \in Rules, Create(r) PROVE IndInv'
  BY <1>0, <1>2, <1>7, CreateEffect
<1>8. ASSUME NEW r \in Rules, Delete(r) PROVE IndInv'
  BY <1>0, <1>2, <1>8, DeleteEffect
<1>9. ASSUME NEW r \in Rules, Toggle(r) PROVE IndInv'
  BY <1>0, <1>2, <1>9, ToggleEffect
<1>10. ASSUME NEW r \in Rules, EditCondition(r) PROVE IndInv'
  BY <1>0, <1>2, <1>10, EditEffect
<1>11. CASE Touch
  BY <1>0, <1>2, <1>11, TouchEffect
<1>12. CASE Pause
  <2>1. /\ Setting' /\ Sound(w', present', InEffect')
        /\ w'.latched = {} /\ w'.leaving = {} /\ w'.fired = {}
    BY <1>0, <1>12, PauseEffect
  <2> QED
    BY <2>1 DEF IndInv, Told, Counted
<1>13. CASE Resume
  BY <1>0, <1>2, <1>13, ResumeEffect
<1>14. CASE CrossDay
  <2>1. PICK A : /\ Setting' /\ InEffect' = InEffect /\ Sound(w', present, InEffect)
                 /\ w'.seen = w.seen /\ w'.latched = w.latched /\ w'.on = w.on
                 /\ w'.leaving = w.leaving \ A /\ w'.fired = w.fired \ A
    BY <1>0, <1>14, CrossDayEffect
  <2>2. Told(w')
    <3>1. \A q : Cond(w', q) = Cond(w, q)
      BY <2>1, SameCond
    <3> QED
      BY <1>0, <2>1, <3>1 DEF Told
  <2>3. Counted(w')
    BY <1>0, <2>1 DEF Counted
  <2>4. present' = present
    BY <1>14 DEF CrossDay
  <2> QED
    BY <2>1, <2>2, <2>3, <2>4 DEF IndInv
<1>15. CASE Restart
  <2>1. Setting' /\ w' = Fresh
    BY <1>1, <1>15 DEF Restart
  <2> QED
    BY <2>1, FreshSound DEF IndInv
<1>16. CASE UNCHANGED vars
  <2>1. Setting' /\ InEffect' = InEffect /\ present' = present /\ w' = w
    BY <1>1, <1>16 DEF vars
  <2> QED
    BY <1>0, <2>1 DEF IndInv
<1> QED
  BY <1>3, <1>4, <1>5, <1>6, <1>7, <1>8, <1>9, <1>10, <1>11, <1>12, <1>13, <1>14, <1>15, <1>16
     DEF Next

(* What the runner and the state machine remember of a task is sound after *)
(* every handler: fields of their types, devices alone unreadable, what is *)
(* seen to be true latched, debounces of sessions that are over, enters    *)
(* that wait once and for a task that is off.                              *)
THEOREM AlwaysIndInv == Spec => []IndInv
  BY InitIndInv, NextIndInv, PTL DEF Spec

LEMMA OnceCardinality ==
  ASSUME NEW q \in Seq(Rules), Once(q)
  PROVE  Cardinality(Range(q)) = Len(q)
<1> DEFINE S == 1 .. Len(q)
           T == Range(q)
<1>1. Len(q) \in Nat /\ DOMAIN q = S /\ T = {q[i] : i \in S}
  BY DEF Range
<1>2. q \in [S -> T] /\ (\A i, j \in S : q[i] = q[j] => i = j) /\ (\A x \in T : \E i \in S : q[i] = x)
  BY <1>1 DEF Once
<1>3. IsFiniteSet(S) /\ Cardinality(S) = Len(q)
  BY <1>1, FS_Interval
<1>4. q \in Bijection(S, T)
  BY <1>2 DEF Bijection, Injection, IsInjective, Surjection
<1>5. ExistsBijection(S, T)
  BY <1>4 DEF ExistsBijection
<1> QED
  BY <1>3, <1>5, FS_Bijection

(* Every field of the memory keeps its type; a debounce under way is of a  *)
(* session that is still over; an enter a guard holds back may still be    *)
(* made; a task that is on has a way out that is watched: for any rules,   *)
(* and whatever is created, deleted, toggled, edited or paused meanwhile.  *)
LEMMA IndInvImplies ==
  ASSUME IndInv
  PROVE  TypeOK /\ LeavingIsOver /\ PendingIsAlive /\ OnHasExit
<1>0. Setting /\ w \in Memory /\ Observed(w, present) /\ Over(w, InEffect) /\ Waits(w, InEffect)
  BY DEF IndInv, Sound
<1>1. \A r \in InEffect : Effective(r) /\ InEffect = enabled
  BY DEF InEffect, Effective
<1>2. TypeOK
  <2>1. w.seen \in [Rules -> UNION {[Sources[r] -> Tri \cup {"none"}] : r \in Rules}]
    BY <1>0 DEF Memory, Views
  <2>2. \A r \in Rules : DOMAIN w.seen[r] = Sources[r] /\ Len(w.win[r]) <= Window
    BY <1>0 DEF Observed
  <2>3. w.pexit \cup w.penter \subseteq UNION {Pairs(r) : r \in Rules \ Iot}
    BY <1>0 DEF Memory, Filters
  <2>4. w.latched \cup w.leaving \cup w.fired \subseteq present
    BY <1>0 DEF Observed
  <2>5. w.on \in BOOLEAN /\ w.pending \in Seq(Rules) /\ Once(w.pending)
    BY <1>0 DEF Memory, Waits
  <2>6. Range(w.pending) \subseteq Rules
    BY <2>5 DEF Range
  <2>7. Cardinality(Range(w.pending)) = Len(w.pending)
    BY <2>5, OnceCardinality
  <2> QED
    BY <1>0, <2>1, <2>2, <2>3, <2>4, <2>5, <2>6, <2>7 DEF TypeOK, Setting
<1>3. LeavingIsOver
  BY <1>0, <1>1 DEF LeavingIsOver, Over, Of
<1>4. PendingIsAlive
  <2> SUFFICES ASSUME NEW r \in Range(w.pending)
               PROVE  /\ Effective(r) /\ r \in EnterSide(enabled)
                      /\ ~(w.on /\ SessionType(enabled))
                      /\ r \notin Timed => r \in w.latched
    BY DEF PendingIsAlive
  <2>1. r \in EnterSide(InEffect) /\ r \in Timed \cup w.latched
    BY <1>0 DEF Waits
  <2>2. r \in InEffect
    BY <2>1 DEF EnterSide, Of
  <2>3. ~w.on
    <3>1. w.pending # <<>>
      BY DEF Range
    <3> QED
      BY <1>0, <3>1 DEF Waits
  <2> QED
    BY <1>1, <2>1, <2>2, <2>3
<1>5. OnHasExit
  <2>1. paused => ~SessionType(InEffect)
    BY DEF InEffect, SessionType, ExitSide, Of
  <2> QED
    BY <1>0, <2>1 DEF OnHasExit, Waits, InEffect
<1> QED
  BY <1>2, <1>3, <1>4, <1>5

THEOREM AlwaysWellKept == Spec => [](TypeOK /\ LeavingIsOver /\ PendingIsAlive /\ OnHasExit)
  BY AlwaysIndInv, IndInvImplies, PTL

(* The ways a step can move the task: a source has spoken; a service       *)
(* operation, which never opens it; a pause or a restart; the rollover.    *)
LEMMA NextMoves ==
  ASSUME IndInv, [Next]_vars
  PROVE  \/ enabled' = enabled /\ Opens(Quiet, w', Timed) /\ KeepsStep(Quiet, w')
         \/ /\ w'.on => w.on /\ SessionType(enabled')
            /\ w'.out = IF w.on /\ ~w'.on THEN <<"on_exit">> ELSE <<>>
         \/ w'.out = <<>> /\ ~w'.on /\ (paused' \/ w' = Fresh)
         \/ "rollover" \in Ops /\ w'.on = w.on
         \/ UNCHANGED vars
<1> DEFINE m == Quiet
<1>0. Setting /\ Sound(w, present, InEffect) /\ Sound(m, present, InEffect) /\ m.on = w.on
  BY QuietEffect DEF IndInv
<1> HIDE DEF m
<1>1. ASSUME NEW n, n.on = m.on, n.out = m.out PROVE Opens(m, n, Timed) /\ KeepsStep(m, n)
  BY <1>1, QuietStep DEF Opens
<1>2. ASSUME NEW n, NEW W \in SUBSET Timed, Opens(m, n, W) PROVE Opens(m, n, Timed)
  BY <1>2 DEF Opens
<1>3. ASSUME NEW R, Served(R)
      PROVE  /\ w'.on => w.on /\ SessionType(enabled')
             /\ w'.out = IF w.on /\ ~w'.on THEN <<"on_exit">> ELSE <<>>
  BY <1>3 DEF Served
<1>4. ASSUME NEW r \in Rules, NEW s \in Sources[r], Frame(r, s)
      PROVE  enabled' = enabled /\ Opens(m, w', Timed) /\ KeepsStep(m, w')
  <2>1. enabled' = enabled
    BY <1>4 DEF Frame
  <2>2. w' = Quiet \/ (Updated(m, w', r) /\ Opens(m, w', {r} \cap Timed))
    <3>1. w' = Quiet \/ (Updated(Quiet, w', r) /\ Opens(Quiet, w', {r} \cap Timed))
      BY <1>0, <1>4, FrameEffect
    <3> QED
      BY <3>1 DEF m
  <2>3. CASE w' = Quiet
    BY <1>1, <2>1, <2>3 DEF m
  <2>4. CASE Updated(m, w', r) /\ Opens(m, w', {r} \cap Timed)
    <3> DEFINE W == {r} \cap Timed
    <3>1. Opens(m, w', W) /\ W \in SUBSET Timed
      BY <2>4
    <3> HIDE DEF W
    <3> QED
      BY <1>2, <2>1, <2>4, <3>1 DEF Updated
  <2> QED
    BY <2>2, <2>3, <2>4
<1>5. ASSUME NEW r \in Iot, IotEval(r)
      PROVE  enabled' = enabled /\ Opens(m, w', Timed) /\ KeepsStep(m, w')
  <2>1. enabled' = enabled
    BY <1>5 DEF IotEval
  <2>2. w' = m \/ w' = MarkUnknown(m, r) \/ (Updated(m, w', r) /\ Opens(m, w', {}))
    <3>1. w' = Quiet \/ w' = MarkUnknown(Quiet, r) \/ (Updated(Quiet, w', r) /\ Opens(Quiet, w', {}))
      BY <1>0, <1>5, IotEvalEffect
    <3> QED
      BY <3>1 DEF m
  <2>3. CASE w' = m
    BY <1>1, <2>1, <2>3
  <2>4. CASE w' = MarkUnknown(m, r)
    <3>1. m \in Memory
      BY <1>0 DEF Sound
    <3>2. r \in Rules
      BY RuleTaskAssumption
    <3>3. MarkUnknown(m, r).on = m.on /\ MarkUnknown(m, r).out = m.out
      BY <3>1, <3>2, MarkUnknownEffect
    <3> QED
      BY <1>1, <2>1, <2>4, <3>3
  <2>5. CASE Updated(m, w', r) /\ Opens(m, w', {})
    BY <1>2, <2>1, <2>5 DEF Updated
  <2> QED
    BY <2>2, <2>3, <2>4, <2>5
<1>6. ASSUME NEW r \in Rules, ExitLands(r)
      PROVE  enabled' = enabled /\ Opens(m, w', Timed) /\ KeepsStep(m, w')
  <2>1. enabled' = enabled
    BY <1>6 DEF ExitLands
  <2>2. KeepsStep(m, w') /\ (w'.on => w.on)
    BY <1>0, <1>6, ExitLandsEffect DEF m
  <2> QED
    BY <1>0, <2>1, <2>2 DEF Opens
<1>7. ASSUME NEW r \in Iot, DeviceChanges(r)
      PROVE  enabled' = enabled /\ Opens(m, w', Timed) /\ KeepsStep(m, w')
  BY <1>1, <1>7 DEF DeviceChanges, m
<1>8. ASSUME NEW r \in Rules, Create(r) \/ Delete(r) \/ Toggle(r) \/ EditCondition(r)
      PROVE  /\ w'.on => w.on /\ SessionType(enabled')
             /\ w'.out = IF w.on /\ ~w'.on THEN <<"on_exit">> ELSE <<>>
  BY <1>0, <1>3, <1>8, CreateEffect, DeleteEffect, ToggleEffect, EditEffect
<1>9. CASE Touch \/ Resume
  BY <1>0, <1>3, <1>9, TouchEffect, ResumeEffect
<1>10. CASE Pause
  <2>1. paused'
    BY <1>10 DEF Pause
  <2> QED
    BY <1>0, <1>10, <2>1, PauseEffect
<1>11. CASE CrossDay
  <2>1. "rollover" \in Ops
    BY <1>11 DEF CrossDay
  <2> QED
    BY <1>0, <1>11, <2>1, CrossDayEffect
<1>12. CASE Restart
  <2>1. w' = Fresh /\ Fresh.out = <<>>
    BY <1>12 DEF Restart, Fresh
  <2> QED
    BY <2>1, FreshEffect
<1> QED
  BY <1>4, <1>5, <1>6, <1>7, <1>8, <1>9, <1>10, <1>11, <1>12 DEF Next, m

(* A task opens only when every guard holds, no exit is true, and some way *)
(* in has been entered, if no two guards of it are devices: a guard that   *)
(* is read in the middle of an enter releases what waits before the other  *)
(* has been read.                                                          *)
THEOREM NeverOpensWrongly ==
  ASSUME OneDeviceGuard
  PROVE  Spec => OpensWhenAllowed
<1>1. ASSUME IndInv, [Next]_vars
      PROVE  [(~w.on /\ w'.on) =>
                /\ \A g \in Of(enabled', {"guard"}) : Cond(w', g) = "true"
                /\ \A x \in Of(enabled', {"exit"}) : Cond(w', x) # "true"
                /\ \E r \in EnterSide(enabled') : r \in Timed \/ Cond(w', r) = "true"]_vars
  <2> SUFFICES ASSUME ~w.on, w'.on, ~UNCHANGED vars
               PROVE  /\ \A g \in Of(enabled', {"guard"}) : Cond(w', g) = "true"
                      /\ \A x \in Of(enabled', {"exit"}) : Cond(w', x) # "true"
                      /\ \E r \in EnterSide(enabled') : r \in Timed \/ Cond(w', r) = "true"
    OBVIOUS
  <2> DEFINE m == Quiet
             n == w'
             E == enabled
  <2>1. w.on \in BOOLEAN /\ w'.on \in BOOLEAN /\ m.on = w.on
    <3>1. IndInv'
      BY <1>1, NextIndInv
    <3>2. w \in Memory /\ w' \in Memory /\ m.on = w.on
      BY <1>1, <3>1, QuietEffect DEF IndInv, Sound
    <3> QED
      BY <3>2 DEF Memory
  <2>2. enabled' = E /\ Opens(m, n, Timed)
    BY <1>1, <2>1, NextMoves
  <2>3. n.on /\ ~m.on
    BY <2>1
  <2> HIDE DEF m, n
  <2>4. /\ \A x \in Of(E, {"exit"}) : Cond(n, x) # "true"
        /\ \E r \in EnterSide(E) : r \in Timed \/ Cond(n, r) = "true"
        /\ GuardsHold(n, E)
    BY <2>2, <2>3, OneDeviceGuard DEF Opens
  <2>5. \A g \in Of(E, {"guard"}) : Cond(n, g) = "true"
    BY <2>4 DEF GuardsHold
  <2> HIDE DEF E
  <2>6. n = w'
    BY DEF n
  <2>7. enabled' = E
    BY <2>2
  <2> QED
    BY <2>4, <2>5, <2>6, <2>7
<1>2. IndInv /\ [Next]_vars =>
         [(~w.on /\ w'.on) =>
                /\ \A g \in Of(enabled', {"guard"}) : Cond(w', g) = "true"
                /\ \A x \in Of(enabled', {"exit"}) : Cond(w', x) # "true"
                /\ \E r \in EnterSide(enabled') : r \in Timed \/ Cond(w', r) = "true"]_vars
  BY <1>1
<1> QED
  BY <1>2, AlwaysIndInv, PTL DEF Spec, OpensWhenAllowed

LEMMA StepInTurn ==
  ASSUME NEW n \in Memory, w.on \in BOOLEAN, SessionType(enabled), InStep(w.on, n)
  PROVE  InTurn(w, n.out, n) /\ (n.out = <<>> => n.on = w.on)
<1> DEFINE o == w.on
           k == Len(n.out)
<1>1. k \in Nat /\ DOMAIN n.out = 1 .. k /\ n.on \in BOOLEAN /\ o \in BOOLEAN
      /\ (n.out = <<>> <=> k = 0)
  BY DEF Memory
<1>2. /\ \A i \in DOMAIN n.out : n.out[i] = IF (i % 2 = 1) <=> o THEN "on_exit" ELSE "on_enter"
      /\ n.on <=> ((k % 2 = 0) <=> o)
  BY DEF InStep
<1> HIDE DEF o, k
<1>3. \A i \in DOMAIN n.out : n.out[i] = IF (i % 2 = 1) = o THEN "on_exit" ELSE "on_enter"
  <2> SUFFICES ASSUME NEW i \in DOMAIN n.out
               PROVE  n.out[i] = IF (i % 2 = 1) = o THEN "on_exit" ELSE "on_enter"
    OBVIOUS
  <2>1. (i % 2 = 1) = o <=> ((i % 2 = 1) <=> o)
    BY <1>1
  <2> QED
    BY <1>2, <2>1
<1>4. CASE k = 0
  <2>1. n.on = o
    BY <1>1, <1>2, <1>4
  <2> QED
    BY <1>1, <1>3, <1>4, <2>1 DEF InTurn, o, k
<1>5. CASE k # 0
  <2>1. k \in DOMAIN n.out /\ (k % 2 = 1 <=> ~(k % 2 = 0))
    BY <1>1, <1>5
  <2>2. n.on <=> n.out[k] = "on_enter"
    BY <1>2, <2>1
  <2>3. n.on = (n.out[k] = "on_enter")
    BY <1>1, <2>2
  <2> QED
    BY <1>1, <1>3, <1>5, <2>3 DEF InTurn, o, k
<1> QED
  BY <1>4, <1>5

(* The actions a task with a way out runs are on_enter and on_exit in      *)
(* turn, in step with its state, however many enters a guard lets go at    *)
(* once: only the rollover runs its two past the task layer.               *)
THEOREM AlwaysAlternate ==
  ASSUME "rollover" \notin Ops
  PROVE  Spec => ActionsAlternate
<1> DEFINE A == (w.on \/ SessionType(enabled')) =>
                   \/ InTurn(w, w'.out, w') /\ (w'.out = <<>> => w'.on = w.on)
                   \/ w'.out = <<>> /\ ~w'.on /\ (paused' \/ w' = Fresh)
<1>1. ASSUME IndInv, [Next]_vars PROVE [A]_vars
  <2> SUFFICES ASSUME w.on \/ SessionType(enabled'), ~UNCHANGED vars,
                      ~(w'.out = <<>> /\ ~w'.on /\ (paused' \/ w' = Fresh))
               PROVE  InTurn(w, w'.out, w') /\ (w'.out = <<>> => w'.on = w.on)
    OBVIOUS
  <2>1. w \in Memory /\ w' \in Memory /\ (w.on => SessionType(enabled))
    <3>1. IndInv' /\ OnHasExit
      BY <1>1, NextIndInv, IndInvImplies
    <3> QED
      BY <1>1, <3>1 DEF IndInv, Sound, OnHasExit
  <2>2. w.on \in BOOLEAN /\ w'.on \in BOOLEAN
    BY <2>1 DEF Memory
  <2>3. CASE enabled' = enabled /\ KeepsStep(Quiet, w')
    <3>1. SessionType(enabled)
      BY <2>1, <2>3
    <3>2. Quiet.on = w.on /\ Quiet.out = <<>>
      BY <1>1, QuietEffect DEF IndInv
    <3> DEFINE m == Quiet
               o == w.on
    <3> HIDE DEF m, o
    <3>3. InStep(o, m)
      <4>1. m.on = o /\ m.out = <<>> /\ o \in BOOLEAN
        BY <2>2, <3>2 DEF m, o
      <4>2. DOMAIN m.out = {} /\ Len(m.out) = 0 /\ 0 % 2 = 0
        BY <4>1
      <4> QED
        BY <4>1, <4>2 DEF InStep
    <3>4. InStep(o, w')
      BY <2>2, <2>3, <3>3 DEF KeepsStep, m, o
    <3> DEFINE n == w'
    <3> HIDE DEF n
    <3>5. InTurn(w, n.out, n) /\ (n.out = <<>> => n.on = w.on)
      BY <2>1, <2>2, <3>1, <3>4, StepInTurn DEF o, n
    <3> QED
      BY <3>5 DEF n
  <2>4. CASE (w'.on => w.on) /\ w'.out = IF w.on /\ ~w'.on THEN <<"on_exit">> ELSE <<>>
    <3>1. CASE w.on /\ ~w'.on
      <4> DEFINE out == <<"on_exit">>
      <4>1. out # <<>> /\ Len(out) = 1 /\ DOMAIN out = {1} /\ out[1] = "on_exit" /\ 1 % 2 = 1
        OBVIOUS
      <4>2. w'.out = out
        BY <2>4, <3>1
      <4>3. w.on = TRUE /\ w'.on = FALSE
        BY <2>2, <3>1
      <4> HIDE DEF out
      <4> QED
        BY <4>1, <4>2, <4>3 DEF InTurn
    <3>2. CASE ~(w.on /\ ~w'.on)
      <4>1. w'.on = w.on /\ w'.out = <<>>
        BY <2>2, <2>4, <3>2
      <4>2. DOMAIN w'.out = {}
        BY <4>1
      <4> QED
        BY <2>2, <4>1, <4>2 DEF InTurn
    <3> QED
      BY <3>1, <3>2
  <2> QED
    BY <1>1, <2>3, <2>4, NextMoves
<1>2. IndInv /\ [Next]_vars => [A]_vars
  BY <1>1
<1> QED
  BY <1>2, AlwaysIndInv, PTL DEF Spec, ActionsAlternate

-----------------------------------------------------------------------------
(* A session has its task for itself: what the service checks before it    *)
(* creates a rule.  Deleting the last way in may break it, and what is     *)
(* created then is not checked any more.                                   *)
Alone(P) == \A z \in Of(P, {"session"}) : Of(P, {"enter", "exit", "session"}) = {z}

SessionAlone == Alone(present)

(* At midnight a session that counts a duration loses its count and stays  *)
(* on (RuleTask_midnight_duration): it is left out.                        *)
NoMidnight == Of(Timed, {"session"}) = {} \/ "rollover" \notin Ops

(* A session that counts a duration opens only on a sample that is true,   *)
(* of the one camera it is seen by.                                        *)
Sharp == \A r \in Of(Timed, {"session"}) : Window = Quota /\ Cardinality(Sources[r]) = 1

(* A session that is on has been entered, and has been latched or is on    *)
(* its way out: the next edge, or the debounce, will close it.             *)
Held(m, E) ==
    m.on => \A z \in Of(E, {"session"}) :
               /\ z \in Timed => z \in m.fired
               /\ (z \in Timed => Sharp) => z \in m.latched \cup m.leaving

LEMMA HeldSame ==
  ASSUME NEW m, NEW n, NEW E, Held(m, E), n.on => m.on,
         m.latched \cup m.leaving \subseteq n.latched \cup n.leaving, m.fired \subseteq n.fired
  PROVE  Held(n, E)
  BY DEF Held

LEMMA HeldUpdated ==
  ASSUME Setting, SessionAlone, NEW m, NEW n, NEW r \in enabled, m.on \in BOOLEAN,
         Held(m, enabled), Updated(m, n, r), Opens(m, n, {r} \cap Timed),
         r \in Timed /\ Sharp /\ Direction[r] = "session" =>
            Opens(m, n, {}) \/ r \in n.latched \cup n.leaving
  PROVE  Held(n, enabled)
<1> SUFFICES ASSUME n.on, NEW z \in Of(enabled, {"session"})
             PROVE  /\ z \in Timed => z \in n.fired
                    /\ (z \in Timed => Sharp) => z \in n.latched \cup n.leaving
  BY DEF Held
<1>0. z \in enabled /\ z \in Rules /\ z \in present /\ Direction[z] = "session"
      /\ m.fired \subseteq n.fired /\ Observed(n, present)
  BY DEF Of, Setting, Updated, Sound
<1>1. CASE m.on
  <2>1. /\ z \in Timed => z \in m.fired
        /\ (z \in Timed => Sharp) => z \in m.latched \cup m.leaving
    BY <1>1 DEF Held
  <2>2. CASE z = r
    BY <1>0, <2>1, <2>2 DEF Updated
  <2>3. CASE z # r
    <3>1. (z \in n.latched <=> z \in m.latched) /\ (z \in n.leaving <=> z \in m.leaving)
      BY <1>0, <2>3 DEF Updated
    <3> QED
      BY <1>0, <2>1, <3>1
  <2> QED
    BY <2>2, <2>3
<1>2. CASE ~m.on
  <2>1. ASSUME NEW q \in EnterSide(enabled) PROVE q = z
    <3>1. q \in Of(present, {"enter", "exit", "session"})
      BY DEF EnterSide, Of, Setting
    <3>2. Of(present, {"enter", "exit", "session"}) = {z}
      BY <1>0 DEF SessionAlone, Alone, Of
    <3> QED
      BY <3>1, <3>2
  <2>2. ASSUME NEW W, Opens(m, n, W)
        PROVE  (z \in W \/ Cond(n, z) = "true") /\ (z \in Of(Timed, {"session"}) => z \in n.fired)
    BY <1>2, <2>1, <2>2 DEF Opens
  <2>3. z \in Timed => z \in n.fired
    BY <1>0, <2>2 DEF Of
  <2>4. Cond(n, z) = "true" => z \in n.latched
    BY <1>0 DEF Observed
  <2>5. CASE z \in {r} \cap Timed
    <3>1. Opens(m, n, {}) => Cond(n, z) = "true"
      BY <2>2
    <3> QED
      BY <1>0, <2>3, <2>4, <2>5, <3>1
  <2>6. CASE z \notin {r} \cap Timed
    <3>1. Cond(n, z) = "true"
      BY <2>2, <2>6
    <3> QED
      BY <2>3, <2>4, <3>1
  <2> QED
    BY <2>5, <2>6
<1> QED
  BY <1>1, <1>2

LEMMA HeldServed ==
  ASSUME IndInv, Held(w, enabled), SessionAlone', NEW R, Served(R), R \subseteq Rules,
         \/ enabled' \subseteq enabled
         \/ present \subseteq present',
         \A z \in R \cap Of(enabled', {"session"}) : w'.on /\ z \in enabled =>
            z \in w'.latched /\ (z \in Timed => z \in w'.fired)
  PROVE  Held(w', enabled')
<1> DEFINE n == w'
           E == enabled'
<1>0. /\ n.on => w.on /\ SessionType(enabled)
      /\ Rebuilt(w, n, R) /\ E \subseteq present' /\ present' \subseteq Rules
  <2>1. OnHasExit
    BY IndInvImplies
  <2> QED
    BY <2>1 DEF Served, OnHasExit, Setting
<1> SUFFICES ASSUME n.on, NEW z \in Of(E, {"session"})
             PROVE  /\ z \in Timed => z \in n.fired
                    /\ (z \in Timed => Sharp) => z \in n.latched \cup n.leaving
  BY DEF Held
<1>1. z \in Rules /\ Direction[z] = "session" /\ w.on /\ z \in E /\ z \in Of(present', {"session"})
  BY <1>0 DEF Of
<1>2. z \in enabled
  <2>1. CASE enabled' \subseteq enabled
    BY <1>1, <2>1
  <2>2. CASE present \subseteq present'
    <3>1. PICK x : x \in ExitSide(enabled)
      BY <1>0, <1>1 DEF SessionType
    <3>2. x \in enabled /\ x \in Of(present', {"enter", "exit", "session"})
      BY <2>2, <3>1 DEF ExitSide, Of, IndInv, Setting
    <3>3. x = z
      BY <1>1, <3>2 DEF SessionAlone, Alone
    <3> QED
      BY <3>2, <3>3
  <2> QED
    BY <2>1, <2>2
<1>3. /\ z \in Timed => z \in w.fired
      /\ (z \in Timed => Sharp) => z \in w.latched \cup w.leaving
  BY <1>1, <1>2 DEF Held, Of
<1>4. CASE z \in R
  BY <1>2, <1>4
<1>5. CASE z \notin R
  <2>1. /\ z \in n.latched <=> z \in w.latched
        /\ z \in n.leaving <=> z \in w.leaving
        /\ z \in n.fired <=> z \in w.fired
    BY <1>0, <1>1, <1>5 DEF Rebuilt
  <2> QED
    BY <1>3, <2>1
<1> QED
  BY <1>4, <1>5

LEMMA NextHeld ==
  ASSUME NoMidnight, IndInv, SessionAlone, SessionAlone', Held(w, enabled), [Next]_vars
  PROVE  Held(w', enabled')
<1> DEFINE m == Quiet
<1>0. /\ Setting /\ Sound(w, present, InEffect) /\ Same(w, m) /\ m.on = w.on /\ m.fired = w.fired
      /\ m \in Memory /\ m.on \in BOOLEAN
  <2>1. Setting /\ Sound(w, present, InEffect)
    BY DEF IndInv
  <2>2. Sound(m, present, InEffect) /\ Same(w, m) /\ m.on = w.on /\ m.fired = w.fired
    BY <2>1, QuietEffect
  <2> HIDE DEF m
  <2>3. m \in Memory /\ m.on \in BOOLEAN
    BY <2>2 DEF Sound, Memory
  <2> QED
    BY <2>1, <2>2, <2>3
<1> HIDE DEF m
<1>1. Held(m, enabled)
  <2>1. m.latched = w.latched /\ m.leaving = w.leaving
    BY <1>0 DEF Same
  <2> QED
    BY <1>0, <2>1 DEF Held
<1>2. CASE w' = m /\ enabled' = enabled
  BY <1>1, <1>2
<1>3. ASSUME NEW r \in Rules, NEW s \in Sources[r], Frame(r, s)
      PROVE  Held(w', enabled')
  <2>1. enabled' = enabled
    BY <1>3 DEF Frame
  <2>2. \/ w' = Quiet
        \/ /\ ~paused /\ r \in enabled \ Iot
           /\ Updated(Quiet, w', r) /\ Opens(Quiet, w', {r} \cap Timed)
           /\ r \in Timed /\ Window = Quota /\ Cardinality(Sources[r]) = 1 =>
                 Opens(Quiet, w', {}) \/ r \in w'.latched \cup w'.leaving
    BY <1>0, <1>3, FrameEffect
  <2>3. CASE w' # m
    <3> DEFINE n == w'
    <3>1. /\ r \in enabled /\ Updated(m, n, r) /\ Opens(m, n, {r} \cap Timed)
          /\ r \in Timed /\ Window = Quota /\ Cardinality(Sources[r]) = 1 =>
                Opens(m, n, {}) \/ r \in n.latched \cup n.leaving
      BY <2>2, <2>3 DEF m
    <3>2. r \in Timed /\ Sharp /\ Direction[r] = "session" =>
             Opens(m, n, {}) \/ r \in n.latched \cup n.leaving
      BY <3>1 DEF Sharp, Of
    <3> HIDE DEF n
    <3>3. Held(n, enabled)
      BY <1>0, <1>1, <3>1, <3>2, HeldUpdated
    <3> QED
      BY <2>1, <3>3 DEF n
  <2> QED
    BY <1>2, <2>1, <2>3
<1>4. ASSUME NEW r \in Iot, DeviceChanges(r) PROVE Held(w', enabled')
  BY <1>2, <1>4 DEF DeviceChanges, m
<1>5. ASSUME NEW r \in Iot, IotEval(r) PROVE Held(w', enabled')
  <2>1. enabled' = enabled /\ r \notin Timed /\ r \in Rules
    BY <1>5, RuleTaskAssumption DEF IotEval
  <2>2. \/ w' = Quiet
        \/ w' = MarkUnknown(Quiet, r)
        \/ ~paused /\ r \in enabled /\ Updated(Quiet, w', r) /\ Opens(Quiet, w', {})
    BY <1>0, <1>5, IotEvalEffect
  <2>3. CASE w' = MarkUnknown(m, r)
    <3>1. /\ w'.leaving = m.leaving \ {r} /\ w'.latched = m.latched \cup ({r} \cap m.leaving)
          /\ w'.on = m.on /\ w'.fired = m.fired
      BY <1>0, <2>3, MarkUnknownEffect
    <3>2. Held(w', enabled)
      BY <1>1, <3>1, HeldSame
    <3> QED
      BY <2>1, <3>2
  <2>4. CASE r \in enabled /\ Updated(m, w', r) /\ Opens(m, w', {})
    <3> DEFINE n == w'
    <3>1. r \in enabled /\ Updated(m, n, r) /\ Opens(m, n, {}) /\ {r} \cap Timed = {}
      BY <2>1, <2>4
    <3> HIDE DEF n
    <3>2. Opens(m, n, {r} \cap Timed)
      BY <3>1
    <3>3. Held(n, enabled)
      BY <1>0, <1>1, <2>1, <3>1, <3>2, HeldUpdated
    <3> QED
      BY <2>1, <3>3 DEF n
  <2> QED
    BY <1>2, <2>1, <2>2, <2>3, <2>4 DEF m
<1>6. ASSUME NEW r \in Rules, ExitLands(r) PROVE Held(w', enabled')
  <2>1. r \in Of(enabled, {"session"}) /\ (w'.on => OtherSessionHolds(w, enabled, r))
    BY <1>0, <1>6, ExitLandsEffect
  <2>2. ~OtherSessionHolds(w, enabled, r)
    <3> SUFFICES ASSUME NEW x \in Of(enabled, {"session"}) PROVE x = r
      BY DEF OtherSessionHolds
    <3>1. r \in Of(present, {"session"}) /\ x \in Of(present, {"enter", "exit", "session"})
      BY <1>0, <2>1 DEF Of, Setting
    <3> QED
      BY <3>1 DEF SessionAlone, Alone
  <2> QED
    BY <2>1, <2>2 DEF Held
<1>7. ASSUME NEW r \in Rules, Create(r) PROVE Held(w', enabled')
  <2>1. Served({}) /\ present \subseteq present'
    BY <1>0, <1>7, CreateEffect DEF Create
  <2> QED
    BY <2>1, HeldServed
<1>8. ASSUME NEW r \in Rules, Delete(r) PROVE Held(w', enabled')
  <2>1. Served({r}) /\ enabled' = enabled \ {r}
    BY <1>0, <1>8, DeleteEffect DEF Delete
  <2>2. {r} \cap Of(enabled', {"session"}) = {}
    BY <2>1 DEF Of
  <2> QED
    BY <2>1, <2>2, HeldServed
<1>9. ASSUME NEW r \in Rules, Toggle(r) PROVE Held(w', enabled')
  <2>1. Served({r}) /\ present' = present
        /\ (r \in enabled => enabled' = enabled \ {r})
    BY <1>0, <1>9, ToggleEffect DEF Toggle
  <2>2. \A z \in {r} \cap Of(enabled', {"session"}) : z \notin enabled
    BY <2>1 DEF Of
  <2> QED
    BY <2>1, <2>2, HeldServed
<1>10. ASSUME NEW r \in Rules, EditCondition(r) PROVE Held(w', enabled')
  <2>1. /\ Served({r}) /\ (r \in w'.latched <=> HasDispatchedEnter(w, r))
        /\ r \in Timed => (r \in w'.fired <=> HasDispatchedEnter(w, r))
        /\ enabled' = enabled
    BY <1>0, <1>10, EditEffect DEF EditCondition
  <2>2. ASSUME w'.on, r \in Of(enabled, {"session"}) PROVE HasDispatchedEnter(w, r)
    <3>1. w.on
      BY <2>1, <2>2 DEF Served
    <3> QED
      BY <2>2, <3>1 DEF Held, HasDispatchedEnter
  <2> QED
    BY <2>1, <2>2, HeldServed
<1>11. CASE Touch \/ Resume
  <2>1. Served({}) /\ present' = present
    BY <1>0, <1>11, TouchEffect, ResumeEffect DEF Touch, Resume
  <2> QED
    BY <2>1, HeldServed
<1>12. CASE Pause
  <2>1. ~w'.on
    BY <1>0, <1>12, PauseEffect
  <2> QED
    BY <2>1 DEF Held
<1>13. CASE CrossDay
  <2>1. PICK A : /\ A \subseteq Of(w.latched, {"session"})
                 /\ w'.latched = w.latched /\ w'.on = w.on
                 /\ w'.leaving = w.leaving \ A /\ w'.fired = w.fired \ A
    BY <1>0, <1>13, CrossDayEffect
  <2>2. enabled' = enabled /\ Of(Timed, {"session"}) = {}
    BY <1>13 DEF CrossDay, NoMidnight
  <2>3. w.leaving \cap A = {}
    BY <1>0, <2>1 DEF Sound, Over, Of
  <2>4. \A z \in Of(enabled, {"session"}) : z \notin Timed
    BY <2>2 DEF Of
  <2> QED
    BY <2>1, <2>2, <2>3, <2>4 DEF Held
<1>14. CASE Restart
  <2>1. ~w'.on
    BY <1>14, FreshEffect DEF Restart
  <2> QED
    BY <2>1 DEF Held
<1>15. CASE UNCHANGED vars
  BY <1>15 DEF vars
<1> QED
  BY <1>3, <1>4, <1>5, <1>6, <1>7, <1>8, <1>9, <1>10, <1>11, <1>12, <1>13, <1>14, <1>15 DEF Next

(* A task that is on has seen its session begin, and the edge that ends it *)
(* is still to come or under way: whatever is edited, toggled, created,    *)
(* paused or unreadable meanwhile.                                         *)
THEOREM AlwaysLatched ==
  ASSUME NoMidnight
  PROVE  Spec /\ []SessionAlone => []OnIsLatched
<1> DEFINE H == Held(w, enabled)
<1>1. Init => H
  BY FreshEffect DEF Init, Held
<1>2. ASSUME IndInv, SessionAlone, SessionAlone', H, [Next]_vars PROVE H'
  BY <1>2, NextHeld
<1>3. IndInv /\ SessionAlone /\ SessionAlone' /\ H /\ [Next]_vars => H'
  BY <1>2
<1>4. H => OnIsLatched
  BY DEF Held, OnIsLatched, HasDispatchedEnter
<1> HIDE DEF H
<1> QED
  BY <1>1, <1>3, <1>4, AlwaysIndInv, PTL DEF Spec

(* A rule, its debounce and its task tell the same story: a task whose     *)
(* session is seen to be over is on its way out, and none is on that the   *)
(* edge detector has lost.                                                 *)
THEOREM SessionsEnd ==
  ASSUME NoMidnight, Sharp
  PROVE  Spec /\ []SessionAlone => [](SessionInv /\ EdgeInv)
<1> DEFINE H == Held(w, enabled)
<1>1. Init => H
  BY FreshEffect DEF Init, Held
<1>2. ASSUME IndInv, SessionAlone, SessionAlone', H, [Next]_vars PROVE H'
  BY <1>2, NextHeld
<1>3. IndInv /\ SessionAlone /\ SessionAlone' /\ H /\ [Next]_vars => H'
  BY <1>2
<1>4. ASSUME H, IndInv PROVE SessionInv /\ EdgeInv
  <2>1. TypeOK /\ LeavingIsOver
    BY <1>4, IndInvImplies
  <2>2. OnIsLatched
    BY <1>4 DEF Held, OnIsLatched, HasDispatchedEnter
  <2>3. OverIsLeaving
    <3> SUFFICES ASSUME w.on, NEW z \in Of(enabled, {"session"}), Cond(w, z) = "false"
                 PROVE  z \in w.leaving
      BY DEF OverIsLeaving
    <3>1. z \in w.latched \cup w.leaving
      BY <1>4 DEF Held
    <3>2. z \notin w.latched
      BY <1>4 DEF IndInv, Told, Of
    <3> QED
      BY <3>1, <3>2
  <2> QED
    BY <2>1, <2>2, <2>3 DEF SessionInv, EdgeInv
<1>5. H /\ IndInv => SessionInv /\ EdgeInv
  BY <1>4
<1> HIDE DEF H
<1> QED
  BY <1>1, <1>3, <1>5, AlwaysIndInv, PTL DEF Spec

LEMMA InOrderAlone ==
  ASSUME NEW P \in SUBSET Rules
  PROVE  /\ ~RuleSetError(P) => Alone(P)
         /\ Alone(P) /\ Of(P, {"enter", "exit"}) = {} => ~RuleSetError(P)
<1> DEFINE S == Of(P, {"enter", "exit", "session"})
<1>1. IsFiniteSet(S) /\ Cardinality(S) \in Nat
  <2>1. S \subseteq Rules /\ IsFiniteSet(Rules)
    BY RuleTaskAssumption DEF Of
  <2> QED
    BY <2>1, FS_Subset, FS_CardinalityType
<1>2. Of(S, {"session"}) = Of(P, {"session"})
  BY DEF Of
<1>3. RuleSetError(P) <=>
         S # {} /\ (EnterSide(S) = {} \/ (Of(S, {"session"}) # {} /\ Cardinality(S) > 1))
  BY DEF RuleSetError
<1>4. ASSUME ~RuleSetError(P), NEW z \in Of(P, {"session"}) PROVE S = {z}
  <2>1. z \in S /\ Cardinality(S) <= 1
    BY <1>1, <1>2, <1>3, <1>4 DEF Of
  <2> HIDE DEF S
  <2>2. /\ IsFiniteSet(S \ {z}) /\ Cardinality(S \ {z}) = Cardinality(S) - 1
        /\ Cardinality(S \ {z}) \in Nat
    BY <1>1, <2>1, FS_RemoveElement, FS_CardinalityType
  <2>3. Cardinality(S \ {z}) = 0
    BY <1>1, <2>1, <2>2
  <2>4. S \ {z} = {}
    BY <2>2, <2>3, FS_EmptySet
  <2> QED
    BY <2>1, <2>4
<1>5. ASSUME Alone(P), Of(P, {"enter", "exit"}) = {}, S # {} PROVE ~RuleSetError(P)
  <2>1. PICK z : z \in S
    BY <1>5
  <2>2. z \in Of(P, {"session"})
    BY <1>5, <2>1 DEF Of
  <2>3. S = {z} /\ Cardinality(S) = 1
    BY <1>5, <2>2, FS_Singleton DEF Alone
  <2>4. z \in EnterSide(S)
    BY <2>1, <2>2 DEF EnterSide, Of
  <2> QED
    BY <1>3, <2>3, <2>4
<1> QED
  BY <1>3, <1>4, <1>5 DEF Alone

(* Only deleting the last way in of a task with exit rules leaves a set    *)
(* that the service would have refused.                                    *)
Orderly == \/ "delete" \notin Ops
           \/ Of(Rules, {"enter", "exit"}) = {} \/ Of(Rules, {"session"}) = {}

(* The service keeps a session alone in its task.                          *)
THEOREM AlwaysAlone ==
  ASSUME Orderly
  PROVE  Spec => []SessionAlone
<1> DEFINE J == \/ Of(Rules, {"session"}) = {}
                \/ ~RuleSetError(present)
<1>1. Init => J
  BY DEF Init
<1>2. ASSUME IndInv, J, [Next]_vars PROVE J'
  <2>1. present \in SUBSET Rules /\ present' \in SUBSET Rules
    BY <1>2, NextIndInv DEF IndInv, Setting
  <2>2. CASE present' = present
    BY <1>2, <2>2
  <2>3. ASSUME NEW r \in Rules, Create(r) PROVE J'
    BY <1>2, <2>3 DEF Create
  <2>4. ASSUME NEW r \in Rules, Delete(r), Of(Rules, {"session"}) # {} PROVE J'
    <3>1. "delete" \in Ops /\ present' = present \ {r}
      BY <2>4 DEF Delete
    <3>2. Of(present', {"enter", "exit"}) = {}
      BY <2>1, <2>4, <3>1 DEF Orderly, Of
    <3>3. Alone(present)
      BY <1>2, <2>1, <2>4, InOrderAlone
    <3>4. Alone(present')
      BY <3>1, <3>3 DEF Alone, Of
    <3> DEFINE P == present'
    <3>5. P \in SUBSET Rules /\ Alone(P) /\ Of(P, {"enter", "exit"}) = {}
      BY <2>1, <3>2, <3>4
    <3> HIDE DEF P
    <3>6. ~RuleSetError(P)
      BY <3>5, InOrderAlone
    <3> QED
      BY <3>6 DEF P
  <2> QED
    BY <1>2, <2>2, <2>3, <2>4
       DEF Next, vars, Frame, DeviceChanges, IotEval, ExitLands, Toggle, EditCondition, Touch,
           Pause, Resume, CrossDay, Restart
<1>3. IndInv /\ J /\ [Next]_vars => J'
  BY <1>2
<1>4. ASSUME IndInv, J PROVE SessionAlone
  <2>1. present \in SUBSET Rules
    BY <1>4 DEF IndInv, Setting
  <2>2. CASE Of(Rules, {"session"}) = {}
    <3>1. Of(present, {"session"}) = {}
      BY <2>1, <2>2 DEF Of
    <3> QED
      BY <3>1 DEF SessionAlone, Alone
  <2> QED
    BY <1>4, <2>1, <2>2, InOrderAlone DEF SessionAlone
<1>5. IndInv /\ J => SessionAlone
  BY <1>4
<1> HIDE DEF J
<1> QED
  BY <1>1, <1>3, <1>5, AlwaysIndInv, PTL DEF Spec

(* So it is, whatever happens, for every task whose service keeps its      *)
(* session alone.                                                          *)
COROLLARY OrderlySessionsEnd ==
  ASSUME Orderly, NoMidnight, Sharp
  PROVE  Spec => [](SessionInv /\ EdgeInv)
  BY AlwaysAlone, SessionsEnd, PTL

-----------------------------------------------------------------------------
(* The edit of a camera's exit rule that is latched leaves it latched with *)
(* nothing seen: when it is seen true again there is no edge, and a task   *)
(* that has opened in between stays on.  The other exits are looked at     *)
(* whatever their edge.                                                    *)
ExitsFollowed == "edit" \in Ops => Of(Rules, {"exit"}) \subseteq Iot \cup Timed

Shut(m, E) == m.on => \A x \in Of(E, {"exit"}) \ Timed : Cond(m, x) # "true"

Exits(m) ==
    "edit" \notin Ops =>
        \A x \in Of(Rules, {"exit"}) \ (Iot \cup Timed) : x \in m.latched => Cond(m, x) = "true"

LEMMA ShutSame ==
  ASSUME NEW m, NEW n, NEW E, Shut(m, E), Exits(m), n.seen = m.seen, n.latched = m.latched,
         n.on => m.on
  PROVE  Shut(n, E) /\ Exits(n)
<1>1. \A q : Cond(n, q) = Cond(m, q)
  BY SameCond
<1> QED
  BY <1>1 DEF Shut, Exits

LEMMA ShutUpdated ==
  ASSUME ExitsFollowed, Setting, SessionAlone, NEW m, NEW n, NEW r \in enabled, NEW W,
         m.on \in BOOLEAN, Shut(m, enabled), Exits(m), Updated(m, n, r), Opens(m, n, W),
         /\ r \in Iot /\ Direction[r] = "exit" /\ Of(enabled, {"session"}) = {}
         /\ Cond(n, r) = "true"
         => ~n.on
  PROVE  Shut(n, enabled) /\ Exits(n)
<1>0. r \in Rules /\ enabled \subseteq Rules
  BY DEF Setting
<1>1. ASSUME NEW q \in Rules \ {r}, Direction[q] = "exit"
      PROVE  Cond(n, q) = Cond(m, q) /\ (q \in n.latched <=> q \in m.latched)
  BY <1>1 DEF Updated, Cond
<1>2. Exits(n)
  <2> SUFFICES ASSUME "edit" \notin Ops, NEW x \in Of(Rules, {"exit"}) \ (Iot \cup Timed),
                      x \in n.latched
               PROVE  Cond(n, x) = "true"
    BY DEF Exits
  <2>1. x \in Rules /\ Direction[x] = "exit"
    BY DEF Of
  <2>2. CASE x = r
    BY <2>1, <2>2 DEF Updated
  <2>3. CASE x # r
    BY <1>1, <2>1, <2>3 DEF Exits
  <2> QED
    BY <2>2, <2>3
<1>3. Shut(n, enabled)
  <2> SUFFICES ASSUME n.on, NEW x \in Of(enabled, {"exit"}), x \notin Timed, Cond(n, x) = "true"
               PROVE  FALSE
    BY DEF Shut
  <2>1. x \in Rules /\ Direction[x] = "exit" /\ x \in Of(present, {"enter", "exit", "session"})
    BY DEF Of, Setting
  <2>2. Of(enabled, {"session"}) = {}
    <3> SUFFICES ASSUME NEW z \in Of(enabled, {"session"}) PROVE FALSE
      OBVIOUS
    <3>1. z \in Of(present, {"session"}) /\ Direction[z] = "session"
      BY DEF Of, Setting
    <3>2. x = z
      BY <2>1, <3>1 DEF SessionAlone, Alone
    <3> QED
      BY <2>1, <3>1, <3>2
  <2>3. m.on
    BY DEF Opens
  <2>4. Cond(m, x) # "true"
    BY <2>3 DEF Shut
  <2>5. x = r
    BY <1>1, <2>1, <2>4
  <2>6. r \notin Iot
    BY <2>1, <2>2, <2>5
  <2>7. r \notin m.latched
    <3>1. "edit" \notin Ops
      BY <2>1, <2>5, <2>6 DEF ExitsFollowed, Of
    <3> QED
      BY <2>1, <2>4, <2>5, <2>6, <3>1 DEF Exits, Of
  <2> QED
    BY <2>1, <2>2, <2>5, <2>7 DEF Updated
<1> QED
  BY <1>2, <1>3

LEMMA ShutServed ==
  ASSUME IndInv, Shut(w, enabled), Exits(w), NEW R, Served(R), R \subseteq Rules,
         \A x \in enabled' \ enabled : x \in R \/ x \notin present,
         "edit" \notin Ops => R \cap w'.latched = {}
  PROVE  Shut(w', enabled') /\ Exits(w')
<1> DEFINE n == w'
           E == enabled'
<1>0. (n.on => w.on) /\ Rebuilt(w, n, R) /\ E \subseteq Rules /\ Observed(w, present)
  BY DEF Served, Setting, IndInv, Sound
<1>1. \A q \in Rules \ R : Cond(n, q) = Cond(w, q) /\ (q \in n.latched <=> q \in w.latched)
  <2> TAKE q \in Rules \ R
  <2>1. n.seen[q] = w.seen[q] /\ (q \in n.latched <=> q \in w.latched)
    BY <1>0 DEF Rebuilt
  <2> QED
    BY <2>1 DEF Cond
<1>2. Exits(n)
  <2> SUFFICES ASSUME "edit" \notin Ops, NEW x \in Of(Rules, {"exit"}) \ (Iot \cup Timed),
                      x \in n.latched
               PROVE  Cond(n, x) = "true"
    BY DEF Exits
  <2>1. x \in Rules \ R
    BY DEF Of
  <2> QED
    BY <1>1, <2>1 DEF Exits
<1>3. Shut(n, E)
  <2> SUFFICES ASSUME n.on, NEW x \in Of(E, {"exit"}), x \notin Timed, Cond(n, x) = "true"
               PROVE  FALSE
    BY DEF Shut
  <2>1. x \in Rules /\ x \in E
    BY <1>0 DEF Of
  <2>2. x \notin R
    BY <1>0 DEF Rebuilt
  <2>3. Cond(w, x) = "true"
    BY <1>1, <2>1, <2>2
  <2>4. x \in present
    BY <1>0, <2>1, <2>3 DEF Observed
  <2>5. x \in Of(enabled, {"exit"})
    BY <2>1, <2>2, <2>4 DEF Of
  <2> QED
    BY <1>0, <2>3, <2>5 DEF Shut
<1> QED
  BY <1>2, <1>3

LEMMA NextShut ==
  ASSUME ExitsFollowed, IndInv, SessionAlone, Shut(w, enabled), Exits(w), [Next]_vars
  PROVE  Shut(w', enabled') /\ Exits(w')
<1> DEFINE m == Quiet
<1>0. /\ Setting /\ Sound(w, present, InEffect) /\ Same(w, m) /\ m.on = w.on
      /\ m \in Memory /\ m.on \in BOOLEAN
  <2>1. Setting /\ Sound(w, present, InEffect)
    BY DEF IndInv
  <2>2. Sound(m, present, InEffect) /\ Same(w, m) /\ m.on = w.on
    BY <2>1, QuietEffect
  <2> HIDE DEF m
  <2>3. m \in Memory /\ m.on \in BOOLEAN
    BY <2>2 DEF Sound, Memory
  <2> QED
    BY <2>1, <2>2, <2>3
<1> HIDE DEF m
<1>1. Shut(m, enabled) /\ Exits(m)
  BY <1>0, ShutSame DEF Same
<1>2. CASE w' = m /\ enabled' = enabled
  BY <1>1, <1>2
<1>3. ASSUME NEW r \in Rules, NEW s \in Sources[r], Frame(r, s)
      PROVE  Shut(w', enabled') /\ Exits(w')
  <2>1. enabled' = enabled
    BY <1>3 DEF Frame
  <2>2. \/ w' = Quiet
        \/ r \in enabled \ Iot /\ Updated(Quiet, w', r) /\ Opens(Quiet, w', {r} \cap Timed)
    BY <1>0, <1>3, FrameEffect
  <2>3. CASE w' # m
    <3> DEFINE n == w'
               W == {r} \cap Timed
    <3>1. r \in enabled /\ r \notin Iot /\ Updated(m, n, r) /\ Opens(m, n, W)
      BY <2>2, <2>3 DEF m
    <3> HIDE DEF n, W
    <3>2. Shut(n, enabled) /\ Exits(n)
      BY <1>0, <1>1, <3>1, ShutUpdated
    <3> QED
      BY <2>1, <3>2 DEF n
  <2> QED
    BY <1>2, <2>1, <2>3
<1>4. ASSUME NEW r \in Iot, DeviceChanges(r) PROVE Shut(w', enabled') /\ Exits(w')
  BY <1>2, <1>4 DEF DeviceChanges, m
<1>5. ASSUME NEW r \in Iot, IotEval(r) PROVE Shut(w', enabled') /\ Exits(w')
  <2>1. enabled' = enabled /\ r \in Rules
    BY <1>5, RuleTaskAssumption DEF IotEval
  <2>2. \/ w' = Quiet
        \/ w' = MarkUnknown(Quiet, r)
        \/ /\ ~paused /\ r \in enabled
           /\ Updated(Quiet, w', r) /\ Opens(Quiet, w', {})
           /\ Direction[r] = "exit" /\ Of(enabled, {"session"}) = {} /\ Cond(w', r) = "true"
                => ~w'.on
    BY <1>0, <1>5, IotEvalEffect
  <2>3. CASE w' = MarkUnknown(m, r)
    <3> DEFINE n == MarkUnknown(m, r)
    <3>1. /\ n.latched = m.latched \cup ({r} \cap m.leaving) /\ n.on = m.on
          /\ Cond(n, r) = "unknown" /\ \A q \in Rules \ {r} : Cond(n, q) = Cond(m, q)
      BY <1>0, MarkUnknownEffect
    <3> HIDE DEF n
    <3>2. Shut(n, enabled)
      <4> SUFFICES ASSUME n.on, NEW x \in Of(enabled, {"exit"}) \ Timed PROVE Cond(n, x) # "true"
        BY DEF Shut
      <4>1. x \in Rules
        BY <1>0 DEF Of, Setting
      <4> QED
        BY <1>1, <3>1, <4>1 DEF Shut
    <3>3. Exits(n)
      <4> SUFFICES ASSUME "edit" \notin Ops, NEW x \in Of(Rules, {"exit"}) \ (Iot \cup Timed),
                          x \in n.latched
                   PROVE  Cond(n, x) = "true"
        BY DEF Exits
      <4>1. x \in Rules \ {r} /\ x \in m.latched
        BY <3>1 DEF Of
      <4> QED
        BY <1>1, <3>1, <4>1 DEF Exits
    <3> QED
      BY <2>1, <2>3, <3>2, <3>3 DEF n
  <2>4. CASE /\ r \in enabled /\ Updated(m, w', r) /\ Opens(m, w', {})
             /\ Direction[r] = "exit" /\ Of(enabled, {"session"}) = {} /\ Cond(w', r) = "true"
                  => ~w'.on
    <3> DEFINE n == w'
               W == {}
    <3>1. r \in enabled /\ Updated(m, n, r) /\ Opens(m, n, W)
      BY <2>4
    <3>2. Direction[r] = "exit" /\ Of(enabled, {"session"}) = {} /\ Cond(n, r) = "true" => ~n.on
      BY <2>4
    <3> HIDE DEF n, W
    <3>3. Shut(n, enabled) /\ Exits(n)
      BY <1>0, <1>1, <3>1, <3>2, ShutUpdated
    <3> QED
      BY <2>1, <3>3 DEF n
  <2> QED
    BY <1>2, <2>1, <2>2, <2>3, <2>4 DEF m
<1>6. ASSUME NEW r \in Rules, ExitLands(r) PROVE Shut(w', enabled') /\ Exits(w')
  <2>1. enabled' = enabled
    BY <1>6 DEF ExitLands
  <2>2. w'.seen = w.seen /\ w'.latched = w.latched /\ (w'.on => w.on)
    BY <1>0, <1>6, ExitLandsEffect
  <2>3. Shut(w', enabled) /\ Exits(w')
    BY <2>2, ShutSame
  <2> QED
    BY <2>1, <2>3
<1>7. ASSUME NEW r \in Rules, Create(r) PROVE Shut(w', enabled') /\ Exits(w')
  <2>1. Served({}) /\ enabled' = enabled \cup {r} /\ r \notin present
    BY <1>0, <1>7, CreateEffect DEF Create
  <2> QED
    BY <2>1, ShutServed
<1>8. ASSUME NEW r \in Rules, Delete(r) PROVE Shut(w', enabled') /\ Exits(w')
  <2>1. Served({r}) /\ r \notin w'.latched /\ enabled' = enabled \ {r}
    BY <1>0, <1>8, DeleteEffect DEF Delete
  <2> QED
    BY <2>1, ShutServed
<1>9. ASSUME NEW r \in Rules, Toggle(r) PROVE Shut(w', enabled') /\ Exits(w')
  <2>1. Served({r}) /\ r \notin w'.latched /\ enabled' \subseteq enabled \cup {r}
    BY <1>0, <1>9, ToggleEffect DEF Toggle
  <2> QED
    BY <2>1, ShutServed
<1>10. ASSUME NEW r \in Rules, EditCondition(r) PROVE Shut(w', enabled') /\ Exits(w')
  <2>1. Served({r}) /\ "edit" \in Ops /\ enabled' = enabled
    BY <1>0, <1>10, EditEffect DEF EditCondition
  <2> QED
    BY <2>1, ShutServed
<1>11. CASE Touch \/ Resume
  <2>1. Served({}) /\ enabled' = enabled
    BY <1>0, <1>11, TouchEffect, ResumeEffect DEF Touch, Resume
  <2> QED
    BY <2>1, ShutServed
<1>12. CASE Pause
  <2>1. ~w'.on /\ w'.latched = {}
    BY <1>0, <1>12, PauseEffect
  <2> QED
    BY <2>1 DEF Shut, Exits
<1>13. CASE CrossDay
  <2>1. enabled' = enabled
    BY <1>13 DEF CrossDay
  <2>2. w'.seen = w.seen /\ w'.latched = w.latched /\ (w'.on => w.on)
    BY <1>0, <1>13, CrossDayEffect
  <2>3. Shut(w', enabled) /\ Exits(w')
    BY <2>2, ShutSame
  <2> QED
    BY <2>1, <2>3
<1>14. CASE Restart
  <2>1. ~w'.on /\ w'.latched = {}
    BY <1>14, FreshEffect DEF Restart
  <2> QED
    BY <2>1 DEF Shut, Exits
<1>15. CASE UNCHANGED vars
  BY <1>15 DEF vars
<1> QED
  BY <1>3, <1>4, <1>5, <1>6, <1>7, <1>8, <1>9, <1>10, <1>11, <1>12, <1>13, <1>14, <1>15 DEF Next

(* What a guard holds back may still be entered, and a task that is on has *)
(* a way out that is watched and not seen to be true yet, whichever of the *)
(* two came first.                                                         *)
THEOREM NeverOnAgainstExit ==
  ASSUME ExitsFollowed
  PROVE  Spec /\ []SessionAlone => []WayOutInv
<1> DEFINE H == Shut(w, enabled) /\ Exits(w)
<1>1. Init => H
  BY FreshEffect DEF Init, Shut, Exits
<1>2. ASSUME IndInv, SessionAlone, H, [Next]_vars PROVE H'
  BY <1>2, NextShut
<1>3. IndInv /\ SessionAlone /\ H /\ [Next]_vars => H'
  BY <1>2
<1>4. ASSUME IndInv, H PROVE WayOutInv
  BY <1>4, IndInvImplies DEF Shut, NotOnAgainstExit, WayOutInv
<1>5. IndInv /\ H => WayOutInv
  BY <1>4
<1> HIDE DEF H
<1> QED
  BY <1>1, <1>3, <1>5, AlwaysIndInv, PTL DEF Spec

(* So it is, whatever happens, for every task whose service keeps its      *)
(* session alone.                                                          *)
COROLLARY OrderlyWayOut ==
  ASSUME Orderly, ExitsFollowed
  PROVE  Spec => []WayOutInv
  BY AlwaysAlone, NeverOnAgainstExit, PTL
=============================================================================
