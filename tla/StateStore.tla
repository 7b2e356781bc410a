----------------------------- MODULE StateStore -----------------------------
(***************************************************************************)
(* The hierarchical state container: a tree of leaves that any thread      *)
(* writes under a lock, and the delivery of its changes to subscribers on  *)
(* the event loop, batch by batch, after the lock is released.             *)
(*                                                                         *)
(* The tree is the function from paths to the value of their leaf; the     *)
(* code prunes intermediate nodes without leaves, so the leaves say all.   *)
(* A subscriber is modelled with the mirror it can build from its events.  *)
(***************************************************************************)
EXTENDS Naturals, Sequences, FiniteSets, SequencesExt

CONSTANTS
    Path,        \* the paths written and read: sequences of segments
    Value,       \* leaf values, equal when their type and value are
    Missing,     \* the sentinel for "no leaf here"
    Sub,         \* subscribers
    PatternOf,   \* the pattern each of them subscribes with
    EchoOf,      \* the paths their callback may write in return
    MaxLeaves,
    MaxDepth,    \* MAX_CASCADE_DEPTH
    MaxWrites,   \* bound on the writes from outside callbacks
    MaxSwitches, \* bound on start() and stop()
    MaxSubs      \* bound on subscriptions

ASSUME StoreAssumption ==
    /\ Path \subseteq Seq(STRING) \ {<<>>}
    /\ Missing \notin Value
    /\ PatternOf \in [Sub -> Seq(STRING) \ {<<>>}]
    /\ EchoOf \in [Sub -> SUBSET Path]
    /\ {MaxLeaves, MaxWrites, MaxSwitches, MaxSubs} \subseteq Nat
    /\ MaxDepth \in Nat \ {0}

VARIABLES
    tree,        \* path -> value of its leaf, or Missing
    leafCount,
    running,     \* there is a loop to deliver on
    generation,  \* counts starts and stops
    subSeq,      \* counts subscriptions
    subs,        \* the number of each subscriber's registration, 0 for none
    queue,       \* the _dispatch calls scheduled on the loop
    pending,     \* the changes they hold
    current,     \* the _dispatch under way: its batch and the callbacks left
    mirror,      \* history: what a subscriber knows from its events
    lossy,       \* history: changes were dropped since it subscribed
    writes, switches

vars == <<tree, leafCount, running, generation, subSeq, subs, queue, pending,
          current, mirror, lossy, writes, switches>>

content  == <<tree, leafCount>>
registry == <<subSeq, subs>>
bounds   == <<writes, switches>>

-----------------------------------------------------------------------------
(* match_pattern: * is one segment, ** at the end one or more.             *)
Matches(pattern, path) ==
    LET n == Len(pattern)
        fits(i) == pattern[i] \in {"*", path[i]}
    IN  IF pattern[n] = "**"
          THEN Len(path) >= n /\ \A i \in 1..(n - 1) : fits(i)
          ELSE Len(path) = n /\ \A i \in 1..n : fits(i)

Matching(s, changes) ==
    FoldLeft(LAMBDA kept, c : IF Matches(PatternOf[s], c.path) THEN Append(kept, c) ELSE kept,
             <<>>, changes)

Leaves(t) == {p \in Path : t[p] # Missing}

(* Two leaves never lie on one path: a node is a leaf or a subtree.        *)
Shaped(t) == \A p, q \in Leaves(t) : IsPrefix(p, q) => p = q

(* What can be written at p: a scalar, or a subtree, which may be empty.   *)
Payload(p) ==
    {new \in [Path -> Value \cup {Missing}] :
        Shaped(new) /\ IsFiniteSet(Leaves(new)) /\ \A q \in Leaves(new) : IsPrefix(p, q)}

Nothing == [p \in Path |-> Missing]

(* set replaces: what was under p, and a leaf on the way to p, are gone.   *)
(* Mutant: a leaf on the way stays under the new node.                     *)
Replaced_KeepsLeafOnTheWay(p, new) ==
    [q \in Path |-> IF IsPrefix(p, q) THEN new[q] ELSE tree[q]]

Replaced(p, new) ==
    [q \in Path |-> IF IsPrefix(p, q) THEN new[q]
                    ELSE IF IsPrefix(q, p) THEN Missing
                    ELSE tree[q]]

(* The events of going from one tree to another: deletions first.          *)
(* Mutant: deletions come last.                                            *)
Changes_DeletesLast(from, to) ==
    LET change(p) == [path |-> p, old |-> from[p], new |-> to[p]]
        deleted   == {change(p) : p \in Leaves(from) \ Leaves(to)}
        upserted  == {change(p) : p \in {q \in Leaves(to) : to[q] # from[q]}}
    IN  SetToSeq(upserted) \o SetToSeq(deleted)

Changes(from, to) ==
    LET change(p) == [path |-> p, old |-> from[p], new |-> to[p]]
        deleted   == {change(p) : p \in Leaves(from) \ Leaves(to)}
        upserted  == {change(p) : p \in {q \in Leaves(to) : to[q] # from[q]}}
    IN  SetToSeq(deleted) \o SetToSeq(upserted)

Count(changes, added) ==
    Cardinality({i \in DOMAIN changes : (IF added THEN changes[i].old ELSE changes[i].new) = Missing})

Init ==
    /\ tree = Nothing /\ leafCount = 0
    /\ running = FALSE /\ generation = 0
    /\ subSeq = 0 /\ subs = [s \in Sub |-> 0]
    /\ queue = <<>> /\ pending = 0
    /\ current = [calls |-> <<>>, changes |-> <<>>, depth |-> 0, generation |-> 0]
    /\ mirror = [s \in Sub |-> Nothing] /\ lossy = [s \in Sub |-> FALSE]
    /\ writes = 0 /\ switches = 0

-----------------------------------------------------------------------------
(* Writing.  Every write commits and queues its changes under the lock.    *)

Lossy(changes) == [s \in Sub |-> lossy[s] \/ (subs[s] > 0 /\ Matching(s, changes) # <<>>)]

Enqueue(changes, depth) ==
    IF changes = <<>> THEN UNCHANGED <<queue, pending, lossy>>
    ELSE IF ~running
      THEN /\ lossy' = Lossy(changes)
           /\ UNCHANGED <<queue, pending>>
    ELSE /\ queue' = Append(queue, [changes |-> changes, generation |-> generation,
                                    depth |-> depth, seq |-> subSeq])
         /\ pending' = pending + Len(changes)
         /\ UNCHANGED lossy

(* set(p, new): rejected as a whole when the leaves would be too many.     *)
Set(p, new, depth) ==
    LET after   == Replaced(p, new)
        changes == Changes(tree, after)
        total   == (leafCount + Count(changes, TRUE)) - Count(changes, FALSE)
    IN  IF depth > MaxDepth \/ total > MaxLeaves
          THEN UNCHANGED <<content, queue, pending, lossy>>
          ELSE /\ tree' = after /\ leafCount' = total
               /\ Enqueue(changes, depth)

(* delete(p): every leaf at or under p.                                    *)
Delete(p, depth) ==
    LET after   == [q \in Path |-> IF IsPrefix(p, q) THEN Missing ELSE tree[q]]
        changes == Changes(tree, after)
    IN  /\ tree' = after /\ leafCount' = leafCount - Len(changes)
        /\ Enqueue(changes, depth)

(* clear(): the whole tree, when the account or the home changes.          *)
Clear(depth) ==
    /\ tree' = Nothing /\ leafCount' = 0
    /\ Enqueue(Changes(tree, Nothing), depth)

Write ==
    /\ writes < MaxWrites /\ writes' = writes + 1
    /\ \/ \E p \in Path : \E new \in Payload(p) : Set(p, new, 1)
       \/ \E p \in Path : Delete(p, 1)
       \/ Clear(1)
    /\ UNCHANGED <<running, generation, registry, current, mirror, switches>>

-----------------------------------------------------------------------------
(* Subscriptions, from any thread.  A subscriber starts with the tree as   *)
(* it is when it subscribes.                                               *)
Part(s, t) == [p \in Path |-> IF Matches(PatternOf[s], p) THEN t[p] ELSE Missing]

Subscribe(s) ==
    /\ subs[s] = 0 /\ subSeq < MaxSubs
    /\ subSeq' = subSeq + 1
    /\ subs' = [subs EXCEPT ![s] = subSeq + 1]
    /\ mirror' = [mirror EXCEPT ![s] = Part(s, tree)]
    /\ lossy' = [lossy EXCEPT ![s] = FALSE]
    /\ UNCHANGED <<content, running, generation, queue, pending, current, bounds>>

Unsubscribe(s) ==
    /\ subs[s] > 0
    /\ subs' = [subs EXCEPT ![s] = 0]
    /\ UNCHANGED <<content, running, generation, subSeq, queue, pending, current, mirror, lossy, bounds>>

(* start() and stop(), on the loop's thread, so never inside a _dispatch.  *)
Start ==
    /\ ~running /\ current.calls = <<>>
    /\ switches < MaxSwitches /\ switches' = switches + 1
    /\ running' = TRUE /\ generation' = generation + 1
    /\ UNCHANGED <<content, registry, queue, pending, current, mirror, lossy, writes>>

(* Mutant: stop() leaves the generation.                                   *)
Stop_SameGeneration ==
    /\ running /\ current.calls = <<>>
    /\ switches < MaxSwitches /\ switches' = switches + 1
    /\ running' = FALSE
    /\ UNCHANGED <<content, generation, registry, queue, pending, current, mirror, lossy, writes>>

Stop ==
    /\ running /\ current.calls = <<>>
    /\ switches < MaxSwitches /\ switches' = switches + 1
    /\ running' = FALSE /\ generation' = generation + 1
    /\ UNCHANGED <<content, registry, queue, pending, current, mirror, lossy, writes>>

-----------------------------------------------------------------------------
(* Delivery, on the loop's thread.                                         *)

(* The callbacks of a batch: those subscribed when it was committed and    *)
(* still subscribed now, in the order of their registrations.              *)
Registered(n) == {s \in Sub : subs[s] = n}

CallNext(calls, n) ==
    IF Registered(n) = {} THEN calls
    ELSE Append(calls, [sub |-> CHOOSE s \in Registered(n) : TRUE, seq |-> n])

(* Mutant: late subscribers are called too.                                *)
Callbacks_Everybody(batch) == FoldLeft(CallNext, <<>>, [n \in 1..subSeq |-> n])

Callbacks(batch) == FoldLeft(CallNext, <<>>, [n \in 1..batch.seq |-> n])

(* _dispatch up to the release of the lock.                                *)
Dispatch ==
    /\ queue # <<>> /\ current.calls = <<>>
    /\ queue' = Tail(queue)
    /\ pending' = pending - Len(Head(queue).changes)
    /\ LET batch == Head(queue) IN
         IF batch.generation # generation
           THEN /\ lossy' = Lossy(batch.changes)
                /\ UNCHANGED current
           ELSE /\ current' = [calls |-> Callbacks(batch), changes |-> batch.changes,
                               depth |-> batch.depth, generation |-> batch.generation]
                /\ UNCHANGED lossy
    /\ UNCHANGED <<content, running, generation, registry, mirror, bounds>>

(* What a consumer makes of an event: a deletion takes away all that is    *)
(* below it, anything else sets a leaf.                                    *)
Seen(m, c) ==
    IF c.new = Missing
      THEN [p \in Path |-> IF IsPrefix(c.path, p) THEN Missing ELSE m[p]]
      ELSE [m EXCEPT ![c.path] = c.new]

Replay(m, changes) == FoldLeft(Seen, m, changes)

(* The callback of one registration gets the changes that match, one after *)
(* the other; the model lets it write once in return, one level deeper.  A *)
(* registration that was removed after the batch was taken is still        *)
(* called.                                                                 *)
(* Mutant: the depth is lost on the loop.                                  *)
EchoDepth_FromZero == 1

EchoDepth == current.depth + 1

Deliver ==
    /\ current.calls # <<>>
    /\ LET call    == Head(current.calls)
           changes == Matching(call.sub, current.changes)
       IN  /\ current' = [current EXCEPT !.calls = Tail(@)]
           /\ mirror' = IF subs[call.sub] = call.seq
                          THEN [mirror EXCEPT ![call.sub] = Replay(@, changes)]
                          ELSE mirror
           /\ \/ UNCHANGED <<content, queue, pending, lossy>>
              \/ /\ changes # <<>>
                 /\ \E p \in EchoOf[call.sub], v \in Value :
                        Set(p, [Nothing EXCEPT ![p] = v], EchoDepth)
    /\ UNCHANGED <<running, generation, registry, bounds>>

Next ==
    \/ Write
    \/ \E s \in Sub : Subscribe(s) \/ Unsubscribe(s)
    \/ Start \/ Stop
    \/ Dispatch \/ Deliver

Spec == Init /\ [][Next]_vars

(* The event loop runs the calls scheduled on it and callbacks return.     *)
FairSpec == Spec /\ WF_vars(Dispatch) /\ WF_vars(Deliver)

-----------------------------------------------------------------------------
Change == [path : Path, old : Value \cup {Missing}, new : Value \cup {Missing}]

TypeOK ==
    /\ tree \in [Path -> Value \cup {Missing}]
    /\ leafCount \in 0..MaxLeaves
    /\ running \in BOOLEAN /\ generation \in 0..MaxSwitches
    /\ subSeq \in 0..MaxSubs /\ subs \in [Sub -> 0..subSeq]
    /\ queue \in Seq([changes : Seq(Change), generation : Nat, depth : 1..MaxDepth, seq : Nat])
    /\ pending \in Nat
    /\ current \in [calls : Seq([sub : Sub, seq : Nat]), changes : Seq(Change),
                    depth : 0..MaxDepth, generation : Nat]
    /\ mirror \in [Sub -> [Path -> Value \cup {Missing}]]
    /\ lossy \in [Sub -> BOOLEAN]
    /\ writes \in 0..MaxWrites /\ switches \in 0..MaxSwitches

(* A path is a leaf or a subtree, never both, through every replacement    *)
(* of one by the other; and the counters, which are kept by differences,   *)
(* say what is there: the leaves of the tree, the changes on the loop.     *)
TreeInv ==
    /\ TypeOK
    /\ Shaped(tree)
    /\ leafCount = Cardinality(Leaves(tree))
    /\ pending = FoldLeft(LAMBDA n, b : n + Len(b.changes), 0, queue)

(* The events a registration still has to get, in the order they come.     *)
Due(s) ==
    LET rest == IF \E i \in DOMAIN current.calls : current.calls[i] = [sub |-> s, seq |-> subs[s]]
                  THEN Matching(s, current.changes) ELSE <<>>
        own(b) == b.seq >= subs[s] /\ b.generation = generation
    IN  FoldLeft(LAMBDA acc, b : IF own(b) THEN acc \o Matching(s, b.changes) ELSE acc,
                 rest, queue)

(* Events tell the whole story: the mirror a subscriber builds, with the   *)
(* events that are on their way to it, is its part of the tree -- through  *)
(* replacements, writes from several threads and writes in callbacks --    *)
(* unless changes were dropped while the store was stopped.                *)
EventsTellAll ==
    \A s \in Sub :
        subs[s] > 0 /\ ~lossy[s] /\ (\A i \in DOMAIN queue : queue[i].generation = generation)
            => Replay(mirror[s], Due(s)) = Part(s, tree)

(* A change says what the subscriber last saw at its path: no edge is      *)
(* missed, repeated, or from before the subscription.                      *)
OldIsWhatWasSeen ==
    [][\A s \in Sub :
        LET call == Head(current.calls)
            changes == Matching(s, current.changes)
        IN  (current.calls # <<>> /\ current'.calls = Tail(current.calls)
               /\ call.sub = s /\ subs[s] = call.seq /\ ~lossy[s])
            => \A i \in DOMAIN changes :
                 Replay(mirror[s], SubSeq(changes, 1, i - 1))[changes[i].path] = changes[i].old]_vars

(* After a stop, what was committed before is never delivered, whatever    *)
(* was still scheduled when the store is started again.                    *)
NothingFromBeforeStop ==
    [][current'.calls # <<>> => current'.generation = generation' /\ running']_vars

(* Callbacks that write what they subscribe to come to an end: the loop    *)
(* gets through its queue.                                                 *)
ComesToRest == (queue # <<>>) ~> (queue = <<>> /\ current.calls = <<>>)
=============================================================================
