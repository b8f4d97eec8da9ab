------------------------------ MODULE Recommend ------------------------------
(***************************************************************************)
(* What muzon-library recommends from: the index of embeddings             *)
(* (vec_index.rs) and the mood map (mood_map.rs).                          *)
(*                                                                         *)
(* Embeddings and cosines are floats, computed with rounding: cosines that *)
(* differ may come out equal, squares may be too large or too small, and a *)
(* result may be no number.  A float is the integer of its place in the    *)
(* order of the floats, the infinities included and both zeros 0; the      *)
(* operations on them are parameters.                                      *)
(***************************************************************************)
EXTENDS Integers, Sequences, FiniteSets

CONSTANTS
    F32,    \* the floats, and NaN
    NaN,
    FAdd, FMul, FDiv,   \* the operations of two floats
    FSqrt               \* and of one

ASSUME FloatAssumption ==
    /\ NaN \notin Int /\ F32 \subseteq Int \cup {NaN} /\ 0 \in F32
    /\ {FAdd, FMul, FDiv} \subseteq [F32 \X F32 -> F32] /\ FSqrt \in [F32 -> F32]

Dot(a, b) ==
    LET sum[i \in 0 .. Len(a)] == IF i = 0 THEN 0 ELSE FAdd[sum[i - 1], FMul[a[i], b[i]]]
    IN  sum[Len(a)]
Norm(v) == FSqrt[Dot(v, v)]

(* A vector of zero norm, or of another length than the query, is like none. *)
Comparable(query, v) ==
    Len(query) = Len(v) /\ query # <<>> /\ Norm(query) # 0 /\ Norm(v) # 0
Cosine(query, v) ==
    IF Comparable(query, v) THEN FDiv[Dot(query, v), FMul[Norm(query), Norm(v)]] ELSE 0

(* The filter and the comparison of the sort.  NaN is not above 0, so that all
   that is sorted can be compared. *)
Positive(query, v) == Cosine(query, v) # NaN /\ Cosine(query, v) > 0
Closer(query, v, w) == Cosine(query, v) > Cosine(query, w)

(* insert: what was indexed for the same track before stays. *)
Insert(vectors, id, v) == Append(vectors, [track_id |-> id, vector |-> v])

(* The matches of a query, by their place in the index; which of two comes
   first, as the sort is stable; and the rank of one of them. *)
Matching(vectors, query) == {i \in DOMAIN vectors : Positive(query, vectors[i].vector)}
Before(vectors, query, i, j) ==
    \/ Closer(query, vectors[i].vector, vectors[j].vector)
    \/ i < j /\ ~Closer(query, vectors[j].vector, vectors[i].vector)
Rank(vectors, query, i) ==
    1 + Cardinality({j \in Matching(vectors, query) : Before(vectors, query, j, i)})
AtRank(vectors, query, r) == CHOOSE i \in Matching(vectors, query) : Rank(vectors, query, i) = r
Scored(query, v) == [track_id |-> v.track_id, score |-> Cosine(query, v.vector)]

Shorter(k, n) == IF k < n THEN k ELSE n

(* Mutation: the list is cut before it is sorted. *)
CosineTopKUnsorted(vectors, query, k) ==
    LET scored == SelectSeq(vectors, LAMBDA v : Positive(query, v.vector))
    IN  [r \in 1 .. Shorter(k, Len(scored)) |-> Scored(query, scored[r])]

CosineTopK(vectors, query, k) ==
    IF query = <<>> \/ k = 0 THEN <<>>
    ELSE [r \in 1 .. Shorter(k, Cardinality(Matching(vectors, query))) |->
            Scored(query, vectors[AtRank(vectors, query, r)])]

(* project_and_cluster: the clusters are stretches of the list. *)
ClusterOf(i, size) == (i - 1) \div (IF size = 0 THEN 1 ELSE size)
MoodMap(ids, size) ==
    [points |-> [i \in DOMAIN ids |-> [track_id |-> ids[i], cluster_id |-> ClusterOf(i, size)]],
     cluster_count |-> IF ids = <<>> THEN 0 ELSE ClusterOf(Len(ids), size) + 1]
=============================================================================
