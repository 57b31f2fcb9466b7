--------------------------- MODULE AdaptiveQueues ---------------------------
(***************************************************************************)
(* The queues with a bucket for each key: the adaptive queues _adaq.c      *)
(* (with _bucketq.c) and apq.c, whose buckets for the keys below           *)
(* BucketSize are stacks, and which move for good to a pairing heap (with  *)
(* <= for lt) at the first key that has no bucket; and bucketheap.c, which *)
(* has a list for every key.                                               *)
(***************************************************************************)
EXTENDS PairHeap    \* heap is the bor_adaq_t, the bor_apq_t, the bor_bucketheap_t

CONSTANTS
  BucketSize,   \* BOR_BUCKETQ_SIZE, BOR_APQ_BUCKET_SIZE
  IntMax        \* INT_MAX, the lowest key of a new bucket heap

BucketSizeOK == BucketSize \in Nat \ {0}

Buckets == 0..(BucketSize - 1)

EmptyBuckets ==
  [bucket |-> [k \in Buckets |-> <<>>], lowest_key |-> BucketSize, size |-> 0]

Push(q, k, n) ==
  [bucket |-> [q.bucket EXCEPT ![k] = Append(@, n)],
   lowest_key |-> IF k < q.lowest_key THEN k ELSE q.lowest_key,
   size |-> q.size + 1]

\* The first bucket with an element, from lowest_key on.
LeastBucket(q) ==
  CHOOSE k \in Buckets : /\ q.lowest_key <= k /\ q.bucket[k] # <<>>
                         /\ \A j \in q.lowest_key..(k - 1) : q.bucket[j] = <<>>

\* The queue after a pop; the element is the last of the least bucket.
Popped(q) ==
  LET k == LeastBucket(q)
  IN [bucket |-> [q.bucket EXCEPT ![k] = Front(@)], lowest_key |-> k, size |-> q.size - 1]

KeyIn(q, n) ==
  IF \E k \in Buckets : n \in Range(q.bucket[k])
  THEN CHOOSE k \in Buckets : n \in Range(q.bucket[k]) ELSE NoKey

\* lowest_key is not above a key in use and size counts the elements.
BucketsWellFormed(q) ==
  /\ \A k \in Buckets : q.bucket[k] # <<>> => q.lowest_key <= k
  /\ FoldFunction(LAMBDA b, total : total + Len(b), 0, q.bucket) = q.size

-----------------------------------------------------------------------------
(* _adaq.c: the keys of its elements are known only to the buckets or the  *)
(* heap.                                                                   *)

\* heap.forest is None, the NULL pointer, while the buckets are in use.
AdaQInit ==
  /\ heap = [buckets |-> EmptyBuckets, forest |-> None, size |-> 0]
  /\ result = None

KeyOf(h, n) == IF h.forest = None THEN KeyIn(h.buckets, n) ELSE h.forest.key[n]

\* bucketToHeap: pop from the buckets until they are empty.
BucketsToForest(q) ==
  FoldLeft(LAMBDA qf, i :
             LET k == LeastBucket(qf[1])
             IN <<Popped(qf[1]), Add(qf[2], Last(qf[1].bucket[k]), k)>>,
           <<q, EmptyForest>>, [i \in 1..q.size |-> i])

Switched(h, k) ==
  IF h.forest = None /\ k \notin Buckets
  THEN LET qf == BucketsToForest(h.buckets)
       IN [h EXCEPT !.buckets = qf[1], !.forest = qf[2]]
  ELSE h

AdaQPush(n, k) ==
  /\ KeyOf(heap, n) = NoKey
  /\ LET h == Switched(heap, k)
     IN heap' = IF h.forest # None
                THEN [h EXCEPT !.forest = Add(@, n, k), !.size = @ + 1]
                ELSE [h EXCEPT !.buckets = Push(@, k, n), !.size = @ + 1]
  /\ result' = None

AdaQPopBucket ==
  /\ heap.size # 0 /\ heap.forest = None
  /\ LET k == LeastBucket(heap.buckets)
     IN result' = <<Last(heap.buckets.bucket[k]), k>>
  /\ heap' = [heap EXCEPT !.buckets = Popped(@), !.size = @ - 1]

AdaQPopHeap ==
  /\ heap.size # 0 /\ heap.forest # None
  /\ LET f == Settled(heap.forest)
     IN /\ result' = <<Min1(f), f.key[Min1(f)]>>
        /\ heap' = [heap EXCEPT !.forest = RemoveNode(f, Min1(f)), !.size = @ - 1]

AdaQNext == (\E n \in Nodes, k \in Keys : AdaQPush(n, k)) \/ AdaQPopBucket \/ AdaQPopHeap

AdaQSpec == AdaQInit /\ [][AdaQNext]_vars

\* Only one of the two holds elements, and size counts them.
WellFormedAdaQ(h) ==
  /\ BucketsWellFormed(h.buckets)
  /\ h.forest # None => WellFormed(h.forest) /\ h.buckets.size = 0
  /\ h.size = Cardinality({n \in Nodes : KeyOf(h, n) # NoKey})

\* boruvka/_adaq.h says of borAdaQPush "If the key >= BOR_ADA_SIZE the program
\* terminates.", so that no element is ever in the queue with such a key
\* (boruvka/apq.h says the same of borAPQPush).
KeysHaveBuckets ==
  \A n \in Nodes : KeyOf(heap, n) # NoKey => KeyOf(heap, n) < BucketSize

-----------------------------------------------------------------------------
(* apq.c: elements know their key and, in the buckets, their place, so     *)
(* that a key can be changed.  Keys are not negative: the code does not    *)
(* look.                                                                   *)

\* heap.forest is None as long as q->bucket is 1; place is conn.bucket.
ApqInit ==
  /\ heap = [buckets |-> EmptyBuckets, forest |-> None, key |-> [n \in Nodes |-> NoKey],
             place |-> [n \in Nodes |-> 0], running |-> TRUE]
  /\ result = None

Queued(h) == {n \in Nodes : h.key[n] # NoKey}

\* borAPQBucketQueuePush for a key that has a bucket.
BucketPush(h, n, k) ==
  [h EXCEPT !.buckets = Push(@, k, n), !.key[n] = k,
            !.place[n] = Len(h.buckets.bucket[k]) + 1]

\* A bug the checks must find: the element that fills the gap is not told.
TakenOutSilently(h, n) ==
  LET k == h.key[n]
      b == h.buckets.bucket[k]
      left == h.buckets.size - 1
  IN [h EXCEPT !.buckets = [bucket |-> [@.bucket EXCEPT ![k] = Front([b EXCEPT ![h.place[n]] = Last(b)])],
                            size |-> left,
                            lowest_key |-> IF left = 0 THEN BucketSize ELSE @.lowest_key]]

\* An element leaves the bucket of the key it has: the last element of the
\* bucket takes its place.
TakenOut(h, n) ==
  LET k == h.key[n]
      b == h.buckets.bucket[k]
      filled == [b EXCEPT ![h.place[n]] = Last(b)]
      left == h.buckets.size - 1
  IN [h EXCEPT !.place[filled[h.place[n]]] = h.place[n],
               !.buckets = [bucket |-> [@.bucket EXCEPT ![k] = Front(filled)],
                            size |-> left,
                            lowest_key |-> IF left = 0 THEN BucketSize ELSE @.lowest_key]]

\* borAPQBucketQueueToHeapQueue: all buckets from lowest_key up, in order.
ApqToHeap(q) ==
  LET order == FlattenSeq([i \in 1..(BucketSize - q.lowest_key) |->
                             [j \in DOMAIN q.bucket[q.lowest_key + i - 1] |->
                                <<q.bucket[q.lowest_key + i - 1][j], q.lowest_key + i - 1>>]])
  IN FoldLeft(LAMBDA f, nk : Add(f, nk[1], nk[2]), EmptyForest, order)

ApqPush(n, k) ==
  /\ heap.running /\ n \notin Queued(heap)
  /\ LET f == IF heap.forest = None THEN ApqToHeap(heap.buckets) ELSE heap.forest
     IN heap' = IF heap.forest = None /\ k < BucketSize THEN BucketPush(heap, n, k)
                ELSE [heap EXCEPT !.forest = Add(f, n, k), !.key[n] = k,
                                  !.buckets = EmptyBuckets,
                                  !.place = [m \in Nodes |-> 0]]
  /\ result' = None

ApqPopBucket ==
  /\ heap.running /\ heap.forest = None /\ heap.buckets.size # 0
  /\ LET k == LeastBucket(heap.buckets)
         n == Last(heap.buckets.bucket[k])
     IN /\ heap' = [heap EXCEPT !.buckets = Popped(@), !.key[n] = NoKey, !.place[n] = 0]
        /\ result' = <<n, k>>

ApqPopHeap ==
  /\ heap.running /\ heap.forest # None /\ Queued(heap) # {}
  /\ LET f == Settled(heap.forest)
         n == Min1(f)
     IN /\ heap' = [heap EXCEPT !.forest = RemoveNode(f, n), !.key[n] = NoKey]
        /\ result' = <<n, heap.key[n]>>

UpdateBucket(n, k) ==
  /\ heap.running /\ heap.forest = None /\ n \in Queued(heap) /\ k < BucketSize
  /\ heap' = BucketPush(TakenOut(heap, n), n, k)
  /\ result' = None

\* Unlike a push, an update does not move to the heap: the program exits.
UpdateExits(n, k) ==
  /\ heap.running /\ heap.forest = None /\ n \in Queued(heap) /\ k >= BucketSize
  /\ heap' = [heap EXCEPT !.running = FALSE]
  /\ UNCHANGED result

UpdateHeap(n, k) ==
  /\ heap.running /\ heap.forest # None /\ n \in Queued(heap)
  /\ heap' = [heap EXCEPT !.forest = Update(@, n, k), !.key[n] = k]
  /\ result' = None

ApqNext ==
  \/ \E n \in Nodes, k \in Keys :
       ApqPush(n, k) \/ UpdateBucket(n, k) \/ UpdateExits(n, k) \/ UpdateHeap(n, k)
  \/ ApqPopBucket \/ ApqPopHeap

ApqSpec == ApqInit /\ [][ApqNext]_vars

\* An element is found at the place and under the key it remembers, and only
\* there.
WellFormedApq(h) ==
  /\ BucketsWellFormed(h.buckets)
  /\ IF h.forest = None
     THEN /\ h.buckets.size = Cardinality(Queued(h))
          /\ \A n \in Queued(h) : h.buckets.bucket[h.key[n]][h.place[n]] = n
     ELSE WellFormed(h.forest) /\ h.forest.key = h.key /\ h.buckets.size = 0

-----------------------------------------------------------------------------
(* bucketheap.c: a list of nodes for every key.  A bucket that has not     *)
(* been needed yet is empty here.                                          *)

BucketHeapInit ==
  /\ heap = [bucket |-> [k \in Keys |-> <<>>], bucket_size |-> 0,
             node_size |-> 0, lowest_key |-> IntMax]
  /\ result = None

BucketHeapKeyOf(h, n) ==
  IF \E k \in Keys : n \in Range(h.bucket[k])
  THEN CHOOSE k \in Keys : n \in Range(h.bucket[k]) ELSE NoKey

\* A bug the checks must find: an add that takes lowest_key down
\* only when the heap is empty.
BucketHeapAddBelow(h, n, k) ==
  [bucket |-> [h.bucket EXCEPT ![k] = Append(@, n)],
   bucket_size |-> IF k >= h.bucket_size THEN k + 1 ELSE h.bucket_size,
   node_size |-> h.node_size + 1,
   lowest_key |-> IF h.node_size = 0 THEN k ELSE h.lowest_key]

BucketHeapAdd(h, n, k) ==
  [bucket |-> [h.bucket EXCEPT ![k] = Append(@, n)],
   bucket_size |-> IF k >= h.bucket_size THEN k + 1 ELSE h.bucket_size,
   node_size |-> h.node_size + 1,
   lowest_key |-> IF k < h.lowest_key THEN k ELSE h.lowest_key]

\* lowest_key stays behind when its bucket runs empty: borBucketHeapMin takes
\* it up to the first bucket with a node.
BucketHeapSettled(h) ==
  [h EXCEPT !.lowest_key =
     CHOOSE k \in Keys : /\ k >= h.lowest_key /\ h.bucket[k] # <<>>
                         /\ \A j \in Keys : h.lowest_key <= j /\ j < k => h.bucket[j] = <<>>]

BucketHeapRemoveNode(h, n) ==
  [h EXCEPT !.bucket = [k \in Keys |-> Remove(h.bucket[k], n)], !.node_size = @ - 1]

BucketHeapAddCall(n, k) ==
  /\ BucketHeapKeyOf(heap, n) = NoKey
  /\ heap' = BucketHeapAdd(heap, n, k)
  /\ result' = None

BucketHeapMin ==
  /\ heap.node_size # 0
  /\ heap' = BucketHeapSettled(heap)
  /\ result' = <<Head(heap'.bucket[heap'.lowest_key]), heap'.lowest_key>>

BucketHeapExtractMin ==
  /\ heap.node_size # 0
  /\ LET h == BucketHeapSettled(heap)
         n == Head(h.bucket[h.lowest_key])
     IN heap' = BucketHeapRemoveNode(h, n) /\ result' = <<n, h.lowest_key>>

BucketHeapUpdate(n, k) ==
  /\ BucketHeapKeyOf(heap, n) # NoKey
  /\ heap' = BucketHeapAdd(BucketHeapRemoveNode(heap, n), n, k)
  /\ result' = None

BucketHeapRemove(n) ==
  /\ BucketHeapKeyOf(heap, n) # NoKey
  /\ heap' = BucketHeapRemoveNode(heap, n)
  /\ result' = None

BucketHeapNext ==
  \/ \E n \in Nodes :
       \/ BucketHeapRemove(n)
       \/ \E k \in Keys : BucketHeapAddCall(n, k) \/ BucketHeapUpdate(n, k)
  \/ BucketHeapMin \/ BucketHeapExtractMin

\* lowest_key is never above a key in use, bucket_size is above all of them,
\* and node_size counts the nodes.
WellFormedBucketHeap(h) ==
  /\ \A k \in Keys : h.bucket[k] # <<>> => h.lowest_key <= k /\ k < h.bucket_size
  /\ FoldFunction(LAMBDA b, total : total + Len(b), 0, h.bucket) = h.node_size
  /\ \A n \in Nodes : Cardinality({k \in Keys : n \in Range(h.bucket[k])}) <= 1
=============================================================================
