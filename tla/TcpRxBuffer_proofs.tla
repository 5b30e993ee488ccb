------------------------- MODULE TcpRxBuffer_proofs -------------------------
(***************************************************************************)
(* Proofs about TcpRxBuffer, for streams, segments, buffers and SACK lists *)
(* of any size: the counters agree with the contents, windows that were    *)
(* offered are honoured, the SACK list is right, and the buffer implements *)
(* ByteStream.                                                             *)
(***************************************************************************)
EXTENDS TcpRxBuffer, NumberFacts, SequenceTheorems, TLAPS

----------------------------------------------------------------------------
(***************************************************************************)
(* Loops over m_data.                                                      *)
(***************************************************************************)

\* The chunk with the largest key.
LastOf(chunks) == CHOOSE c \in chunks : \A d \in chunks : d.first <= c.first

\* A map: its keys are natural numbers, no two chunks have the same.
Keyed(data) ==
    /\ \A c \in data : c.first \in Nat
    /\ \A c, d \in data : c.first = d.first => c = d

\* The chunks a loop has seen when it comes to the key p.
Below(data, p) == {c \in data : c.first < p}

LEMMA LastOfFacts ==
    ASSUME NEW data, Keyed(data), NEW c \in data, NEW D, D \subseteq Below(data, c.first)
    PROVE  LastOf(D \cup {c}) = c /\ c \notin D
  <1>1. \A d \in D : d \in data /\ d.first \in Nat /\ d.first < c.first
    BY DEF Keyed, Below
  <1>2. c.first \in Nat
    BY DEF Keyed
  <1>3. \A d \in D \cup {c} : d.first <= c.first
    BY <1>1, <1>2
  <1>4. ASSUME NEW e \in D \cup {c}, \A d \in D \cup {c} : d.first <= e.first
        PROVE  e = c
    BY <1>1, <1>2, <1>4
  <1> QED  BY <1>1, <1>2, <1>3, <1>4 DEF LastOf

\* Every set of chunks that a loop goes through has a last one.
LEMMA LastInSet ==
    ASSUME NEW data, Keyed(data), NEW n \in Nat, \A c \in data : c.first < n,
           NEW D \in SUBSET data, D # {}
    PROVE  LastOf(D) \in D
  <1> DEFINE K == {c.first : c \in D}
  <1>1. K \subseteq 0..n /\ K # {}
    BY DEF Keyed
  <1>2. Max(K) \in K /\ \A x \in K : x <= Max(K)
    BY <1>1, MaxFacts
  <1>3. PICK c \in D : c.first = Max(K)
    BY <1>2
  <1>4. \A d \in D : d.first <= c.first
    BY <1>2, <1>3
  <1> QED  BY <1>4 DEF LastOf

LEMMA BelowNext ==
    ASSUME NEW data, Keyed(data), NEW p \in Nat
    PROVE  /\ Below(data, 0) = {}
           /\ \A c \in data : c.first = p => Below(data, p + 1) = Below(data, p) \cup {c}
           /\ (\A c \in data : c.first # p) => Below(data, p + 1) = Below(data, p)
  BY DEF Keyed, Below

\* The equation of a loop whose turns are the function step of a chunk.
IsLoop(it, step, start, data) ==
    it = [D \in SUBSET data |-> IF D = {} THEN start
                                ELSE step[LastOf(D)][it[D \ {LastOf(D)}]]]

\* One more chunk, with a larger key.
LEMMA LoopExtends ==
    ASSUME NEW data, Keyed(data), NEW p \in Nat, NEW V, NEW start \in V,
           NEW step \in [data -> [V -> V]],
           NEW it \in [SUBSET Below(data, p) -> V],
           IsLoop(it, step, start, Below(data, p)),
           NEW c \in data, c.first = p
    PROVE  \E jt \in [SUBSET Below(data, p + 1) -> V] : IsLoop(jt, step, start, Below(data, p + 1))
  <1> DEFINE A == Below(data, p)
             B == A \cup {c}
             jt == [D \in SUBSET B |-> IF c \in D THEN step[c][it[D \ {c}]] ELSE it[D]]
  <1>1. Below(data, p + 1) = B
    BY BelowNext
  <1>2. c \notin A
    BY DEF Below, Keyed
  <1>3. it = [D \in SUBSET A |-> IF D = {} THEN start ELSE step[LastOf(D)][it[D \ {LastOf(D)}]]]
    BY DEF IsLoop
  <1>4. ASSUME NEW D \in SUBSET B
        PROVE  /\ jt[D] = IF D = {} THEN start ELSE step[LastOf(D)][jt[D \ {LastOf(D)}]]
               /\ jt[D] \in V
    <2>1. CASE c \in D
      <3> DEFINE E == D \ {c}
      <3>1. E \in SUBSET A /\ D = E \cup {c} /\ c \notin E /\ E \in SUBSET B
        BY <2>1
      <3>2. jt[E] = it[E] /\ jt[D] = step[c][it[E]] /\ it[E] \in V
        BY <2>1, <3>1
      <3> HIDE DEF E, jt
      <3>3. E \subseteq Below(data, c.first)
        BY <3>1
      <3>4. LastOf(D) = c
        BY <3>1, <3>3, LastOfFacts
      <3>5. D \ {LastOf(D)} = E /\ D # {}
        BY <3>1, <3>4
      <3>6. jt[D \ {LastOf(D)}] = it[E] /\ step[LastOf(D)] = step[c] /\ step[c] \in [V -> V]
        BY <3>2, <3>4, <3>5
      <3>7. jt[D] \in V
        BY <3>2, <3>6
      <3> QED  BY <3>2, <3>5, <3>6, <3>7, Zenon
    <2>2. CASE c \notin D
      <3>1. D \in SUBSET A /\ D \ {LastOf(D)} \in SUBSET A /\ c \notin D \ {LastOf(D)}
        BY <2>2
      <3>2. jt[D] = it[D] /\ jt[D \ {LastOf(D)}] = it[D \ {LastOf(D)}] /\ it[D] \in V
        BY <2>2, <3>1
      <3>3. it[D] = IF D = {} THEN start ELSE step[LastOf(D)][it[D \ {LastOf(D)}]]
        BY <1>3, <3>1
      <3> HIDE DEF jt
      <3> QED  BY <3>2, <3>3
    <2> QED  BY <2>1, <2>2
  <1>5. jt = [D \in SUBSET B |-> jt[D]]
    OBVIOUS
  <1> HIDE DEF jt, B
  <1>6. IsLoop(jt, step, start, B)
    BY <1>4, <1>5 DEF IsLoop
  <1>7. jt \in [SUBSET B -> V]
    BY <1>4, <1>5
  <1> QED  BY <1>1, <1>6, <1>7

\* The chunks with a key below p can be gone through.
HasLoop(data, V, step, start, p) ==
    \E it \in [SUBSET Below(data, p) -> V] : IsLoop(it, step, start, Below(data, p))

\* The equation has a solution: chunk after chunk.
LEMMA LoopExists ==
    ASSUME NEW data, Keyed(data), NEW n \in Nat, \A c \in data : c.first < n,
           NEW V, NEW start \in V, NEW step \in [data -> [V -> V]]
    PROVE  \E it \in [SUBSET data -> V] : IsLoop(it, step, start, data)
  <1> DEFINE S == {p \in Nat : HasLoop(data, V, step, start, p)}
  <1>1. HasLoop(data, V, step, start, 0)
    <2> DEFINE it == [D \in SUBSET {} |-> start]
    <2>1. IsLoop(it, step, start, {}) /\ it \in [SUBSET {} -> V]
      BY DEF IsLoop
    <2>2. Below(data, 0) = {}
      BY BelowNext
    <2> HIDE DEF it
    <2> QED  BY <2>1, <2>2 DEF HasLoop
  <1>2. ASSUME NEW p \in Nat, HasLoop(data, V, step, start, p)
        PROVE  HasLoop(data, V, step, start, p + 1)
    <2>1. PICK it \in [SUBSET Below(data, p) -> V] : IsLoop(it, step, start, Below(data, p))
      BY <1>2 DEF HasLoop
    <2>2. CASE \E c \in data : c.first = p
      <3>1. PICK c \in data : c.first = p
        BY <2>2
      <3>2. \E jt \in [SUBSET Below(data, p + 1) -> V] :
                IsLoop(jt, step, start, Below(data, p + 1))
        BY <2>1, <3>1, LoopExtends
      <3> QED  BY <3>2 DEF HasLoop
    <2>3. CASE \A c \in data : c.first # p
      <3>1. Below(data, p + 1) = Below(data, p)
        BY <2>3, BelowNext
      <3> QED  BY <1>2, <3>1 DEF HasLoop
    <2> QED  BY <2>2, <2>3
  <1>3. n \in S
    <2>1. 0 \in S /\ \A p \in Nat : p \in S => p + 1 \in S
      BY <1>1, <1>2
    <2> HIDE DEF S
    <2> QED  BY <2>1, Induction
  <1>4. Below(data, n) = data
    BY DEF Below
  <1> QED  BY <1>3, <1>4 DEF HasLoop

\* Where the loop stands when it comes to a key: one turn for the chunk that has it.
LEMMA LoopStep ==
    ASSUME NEW data, Keyed(data), NEW p \in Nat
    PROVE  /\ Below(data, p) \in SUBSET data
           /\ \A c \in data : c.first = p =>
                 /\ Below(data, p + 1) # {}
                 /\ LastOf(Below(data, p + 1)) = c
                 /\ Below(data, p + 1) \ {c} = Below(data, p)
  <1>1. Below(data, p) \subseteq data
    BY DEF Below
  <1>2. ASSUME NEW c \in data, c.first = p
        PROVE  /\ Below(data, p + 1) # {}
               /\ LastOf(Below(data, p + 1)) = c
               /\ Below(data, p + 1) \ {c} = Below(data, p)
    <2>1. Below(data, p + 1) = Below(data, p) \cup {c}
      BY <1>2, BelowNext
    <2>2. LastOf(Below(data, p) \cup {c}) = c /\ c \notin Below(data, p)
      BY <1>2, LastOfFacts
    <2> QED  BY <2>1, <2>2
  <1> QED  BY <1>1, <1>2
----------------------------------------------------------------------------
(***************************************************************************)
(* What the buffer stores.                                                 *)
(***************************************************************************)

\* Every chunk holds bytes of the stream, and no byte is stored twice.
StoredOnce(data) ==
    /\ data \subseteq Chunk
    /\ \A c \in data : c.first < c.last /\ c.last <= StreamLen
    /\ \A c, d \in data : c = d \/ c.last <= d.first \/ d.last <= c.first

BytesOf(data) == UNION {Bytes(c) : c \in data}

LEMMA ChunkFacts ==
    ASSUME NEW data, StoredOnce(data), NEW c \in data
    PROVE  c \in Chunk /\ c.first \in Nat /\ c.last \in Nat /\ c.first < c.last /\ c.last <= StreamLen
  BY RxAssumption DEF StoredOnce, Chunk, Position

LEMMA StoredKeyed ==
    ASSUME NEW data, StoredOnce(data)
    PROVE  Keyed(data) /\ \A c \in data : c.first < StreamLen
  <1>1. \A c \in data : c.first \in Nat /\ c.first < StreamLen
    BY ChunkFacts, RxAssumption
  <1>2. ASSUME NEW c \in data, NEW d \in data, c.first = d.first PROVE c = d
    BY <1>2, ChunkFacts DEF StoredOnce
  <1> QED  BY <1>1, <1>2 DEF Keyed

LEMMA BytesFacts ==
    ASSUME NEW data, StoredOnce(data)
    PROVE  /\ \A b : b \in BytesOf(data) <=> b \in Int /\ \E c \in data : c.first <= b /\ b < c.last
           /\ BytesOf(data) \subseteq 0..(StreamLen - 1)
           /\ IsFiniteSet(BytesOf(data))
  <1>1. \A c \in data : c.first \in Nat /\ c.last \in Nat /\ c.last <= StreamLen
    BY ChunkFacts
  <1>2. \A b : b \in BytesOf(data) <=> \E c \in data : b \in c.first..(c.last - 1)
    BY DEF BytesOf, Bytes
  <1>3. \A b : b \in BytesOf(data) <=> b \in Int /\ \E c \in data : c.first <= b /\ b < c.last
    BY <1>1, <1>2
  <1>4. BytesOf(data) \subseteq 0..(StreamLen - 1)
    BY <1>1, <1>3, RxAssumption
  <1>5. IsFiniteSet(0..(StreamLen - 1))
    BY FS_Interval, RxAssumption
  <1> QED  BY <1>3, <1>4, <1>5, FS_Subset

----------------------------------------------------------------------------
(***************************************************************************)
(* The loop of Add that removes overlaps.                                  *)
(***************************************************************************)

Seg(data) == [head : Int, tail : Int, size : Int, kept : SUBSET data]

LEMMA RemovalType ==
    ASSUME NEW data, StoredOnce(data), NEW s \in Seg(data), NEW c \in data
    PROVE  RemoveOverlapped(s, c) \in Seg(data)
  <1>1. c.first \in Int /\ c.last \in Int
    BY ChunkFacts
  <1> QED  BY <1>1 DEF Seg, RemoveOverlapped, Length

\* The turns of the loop: run[p] is what the chunks with keys below p leave.
RemovalRun(run, start, data) ==
    /\ run[0] = start
    /\ \A p \in Nat : \A c \in data : c.first = p => run[p + 1] = RemoveOverlapped(run[p], c)
    /\ \A p \in Nat : (\A c \in data : c.first # p) => run[p + 1] = run[p]
    /\ InOrder(RemoveOverlapped, start, data) = run[StreamLen]

IsRemoval(it, start, data) ==
    it = [D \in SUBSET data |-> IF D = {} THEN start
                                ELSE RemoveOverlapped(it[D \ {LastOf(D)}], LastOf(D))]

LEMMA RemovalExists ==
    ASSUME NEW data, StoredOnce(data), NEW start \in Seg(data)
    PROVE  \E it : IsRemoval(it, start, data)
  <1> DEFINE V == Seg(data)
             step == [c \in data |-> [v \in V |-> RemoveOverlapped(v, c)]]
  <1>1. step \in [data -> [V -> V]]
    BY RemovalType
  <1>2. \A c \in data, v \in V : step[c][v] = RemoveOverlapped(v, c)
    OBVIOUS
  <1> HIDE DEF step, V
  <1>3. PICK it \in [SUBSET data -> V] : IsLoop(it, step, start, data)
    BY <1>1, StoredKeyed, LoopExists, RxAssumption DEF V
  <1>4. ASSUME NEW D \in SUBSET data, D # {}
        PROVE  step[LastOf(D)][it[D \ {LastOf(D)}]] = RemoveOverlapped(it[D \ {LastOf(D)}], LastOf(D))
    <2>1. LastOf(D) \in D
      BY <1>4, LastInSet, StoredKeyed, RxAssumption
    <2> DEFINE E == D \ {LastOf(D)}
    <2>2. E \in SUBSET data
      OBVIOUS
    <2> HIDE DEF E
    <2>3. it[E] \in V
      BY <2>2
    <2> QED  BY <1>2, <2>1, <2>3 DEF E
  <1>5. IsRemoval(it, start, data)
    BY <1>3, <1>4 DEF IsLoop, IsRemoval
  <1> QED  BY <1>5

LEMMA RemovalRuns ==
    ASSUME NEW data, StoredOnce(data), NEW start \in Seg(data)
    PROVE  \E run : RemovalRun(run, start, data)
  <1> DEFINE it == CHOOSE it : IsRemoval(it, start, data)
             run == [p \in Nat |-> it[Below(data, p)]]
  <1>1. InOrder(RemoveOverlapped, start, data) = it[data]
    BY DEF InOrder, MapThenFoldSet, IsRemoval, LastOf
  <1>2. IsRemoval(it, start, data)
    BY RemovalExists
  <1>3. \A p \in Nat : run[p] = it[Below(data, p)]
    OBVIOUS
  <1> HIDE DEF it, run
  <1>4. run[0] = start
    BY <1>2, <1>3, BelowNext, StoredKeyed DEF IsRemoval
  <1>5. ASSUME NEW p \in Nat, NEW c \in data, c.first = p
        PROVE  run[p + 1] = RemoveOverlapped(run[p], c)
    <2>1. /\ Below(data, p) \in SUBSET data /\ Below(data, p + 1) \in SUBSET data
          /\ Below(data, p + 1) # {}
          /\ LastOf(Below(data, p + 1)) = c
          /\ Below(data, p + 1) \ {c} = Below(data, p)
      BY <1>5, LoopStep, StoredKeyed
    <2>2. it[Below(data, p + 1)] = RemoveOverlapped(it[Below(data, p)], c)
      BY <1>2, <2>1 DEF IsRemoval
    <2> QED  BY <1>3, <2>2
  <1>6. ASSUME NEW p \in Nat, \A c \in data : c.first # p
        PROVE  run[p + 1] = run[p]
    BY <1>3, <1>6, BelowNext, StoredKeyed
  <1>7. run[StreamLen] = it[data]
    <2>1. Below(data, StreamLen) = data
      BY StoredKeyed DEF Below
    <2> QED  BY <1>3, <2>1, RxAssumption
  <1> QED  BY <1>1, <1>4, <1>5, <1>6, <1>7 DEF RemovalRun
LEMMA StoredSubset ==
    ASSUME NEW data, StoredOnce(data), NEW D, D \subseteq data
    PROVE  StoredOnce(D)
  BY DEF StoredOnce

\* One chunk less is its bytes less.
LEMMA BytesWithout ==
    ASSUME NEW data, StoredOnce(data), NEW c \in data
    PROVE  /\ Cardinality(BytesOf(data)) \in Nat
           /\ Cardinality(BytesOf(data \ {c})) = Cardinality(BytesOf(data)) - Length(c)
           /\ Length(c) \in Nat
  <1> DEFINE H == BytesOf(data)
  <1>1. c.first \in Nat /\ c.last \in Nat /\ c.first < c.last
    BY ChunkFacts
  <1>2. \A b \in BytesOf(data \ {c}) : b \in H /\ b \notin Bytes(c)
    <2>1. ASSUME NEW b \in BytesOf(data \ {c}) PROVE b \in H /\ b \notin Bytes(c)
      <3>1. PICK d \in data \ {c} : b \in Bytes(d)
        BY DEF BytesOf
      <3>2. c.last <= d.first \/ d.last <= c.first
        BY DEF StoredOnce
      <3>3. d.first \in Nat /\ d.last \in Nat
        BY ChunkFacts
      <3> QED  BY <1>1, <3>1, <3>2, <3>3 DEF BytesOf, Bytes
    <2> QED  BY <2>1
  <1>3. \A b \in H : b \notin Bytes(c) => b \in BytesOf(data \ {c})
    BY DEF BytesOf
  <1>4. BytesOf(data \ {c}) = H \ Bytes(c)
    BY <1>2, <1>3
  <1>5. H \cap Bytes(c) = Bytes(c)
    BY DEF BytesOf
  <1>6. IsFiniteSet(H)
    BY BytesFacts
  <1> HIDE DEF H
  <1>7. Cardinality(H \ Bytes(c)) = Cardinality(H) - Cardinality(H \cap Bytes(c)) /\ Cardinality(H) \in Nat
    BY <1>6, FS_Difference, FS_CardinalityType
  <1>8. Cardinality(Bytes(c)) = Length(c)
    BY <1>1, IntervalCount DEF Bytes, Length
  <1>9. Cardinality(BytesOf(data \ {c})) = Cardinality(H) - Length(c)
    BY <1>4, <1>5, <1>7, <1>8
  <1>10. Length(c) \in Nat
    BY <1>1 DEF Length
  <1> QED  BY <1>7, <1>9, <1>10 DEF H

\* What the loop knows when it comes to the key p.
RemovalInv(s, p, start, data) ==
    /\ s \in Seg(data)
    /\ s.kept \subseteq Below(data, p)
    /\ start.head <= s.head /\ s.tail <= start.tail
    /\ \A c \in Below(data, p) \ s.kept : s.head < c.first /\ c.last <= s.tail
    /\ \A c \in s.kept : c.last <= s.head \/ s.tail <= c.first
    /\ \A b \in start.head..(start.tail - 1) : b \in BytesOf(data) \/ (s.head <= b /\ b < s.tail)
    /\ s.size = Cardinality(BytesOf(s.kept \cup (data \ Below(data, p))))

LEMMA RemovalTurn ==
    ASSUME NEW data, StoredOnce(data), NEW start \in Seg(data), NEW p \in Nat,
           NEW s, RemovalInv(s, p, start, data), NEW c \in data, c.first = p
    PROVE  RemovalInv(RemoveOverlapped(s, c), p + 1, start, data)
  <1> DEFINE q == RemoveOverlapped(s, c)
             A == Below(data, p)
  <1> SUFFICES RemovalInv(q, p + 1, start, data)
    OBVIOUS
  <1>1. s \in Seg(data) /\ q \in Seg(data)
    BY RemovalType DEF RemovalInv
  <1>2. /\ s.head \in Int /\ s.tail \in Int /\ s.size \in Int
        /\ start.head \in Int /\ start.tail \in Int
        /\ s.kept \in SUBSET data
    BY <1>1 DEF Seg
  <1>3. c.first \in Nat /\ c.last \in Nat /\ c.first < c.last
    BY ChunkFacts
  <1>4. Below(data, p + 1) = A \cup {c} /\ c \notin A
    BY BelowNext, StoredKeyed DEF Below
  <1>5. \A d \in A : d.first \in Nat /\ d.last \in Nat /\ d.first < d.last /\ d.last <= c.first
    BY <1>3, ChunkFacts DEF Below, StoredOnce
  <1>6. s.kept \subseteq A
    BY DEF RemovalInv
  <1>7. \A b \in Int : c.first <= b /\ b < c.last => b \in BytesOf(data)
    BY BytesFacts
  <1>8. CASE c.first > s.tail \/ c.last <= s.head
    <2>1. q.head = s.head /\ q.tail = s.tail /\ q.size = s.size /\ q.kept = s.kept \cup {c}
      BY <1>1, <1>8 DEF RemoveOverlapped, Seg
    <2>2. q.kept \cup (data \ (A \cup {c})) = s.kept \cup (data \ A)
      BY <1>4, <2>1
    <2> HIDE DEF q
    <2>3. q.kept \subseteq A \cup {c}
      BY <1>6, <2>1
    <2>4. \A d \in (A \cup {c}) \ q.kept : q.head < d.first /\ d.last <= q.tail
      BY <1>4, <2>1 DEF RemovalInv
    <2>5. \A d \in q.kept : d.last <= q.head \/ q.tail <= d.first
      BY <1>2, <1>3, <1>8, <2>1 DEF RemovalInv
    <2>6. q.kept \subseteq Below(data, p + 1)
      BY <1>4, <1>6, <2>1
    <2>7. \A d \in Below(data, p + 1) \ q.kept : q.head < d.first /\ d.last <= q.tail
      BY <1>4, <2>4
    <2>8. \A d \in q.kept : d.last <= q.head \/ q.tail <= d.first
      BY <2>5
    <2>9. \A b \in start.head..(start.tail - 1) :
              b \in BytesOf(data) \/ (q.head <= b /\ b < q.tail)
      BY <2>1 DEF RemovalInv
    <2>10. q.size = Cardinality(BytesOf(q.kept \cup (data \ Below(data, p + 1))))
      BY <1>4, <2>1, <2>2 DEF RemovalInv
    <2>11. start.head <= q.head /\ q.tail <= start.tail
      BY <2>1 DEF RemovalInv
    <2> QED  BY <1>1, <2>6, <2>7, <2>8, <2>9, <2>10, <2>11 DEF RemovalInv
  <1>9. CASE ~(c.first > s.tail \/ c.last <= s.head) /\ c.first > s.head /\ c.last < s.tail
    <2>1. /\ q.head = s.head /\ q.tail = s.tail /\ q.kept = s.kept
          /\ q.size = s.size - Length(c)
      BY <1>1, <1>9 DEF RemoveOverlapped, Seg
    <2> DEFINE D == s.kept \cup (data \ A)
               E == q.kept \cup (data \ (A \cup {c}))
    <2>2. E = D \ {c} /\ c \in D /\ D \subseteq data
      BY <1>2, <1>4, <1>6, <2>1
    <2>3. s.size = Cardinality(BytesOf(D))
      BY DEF RemovalInv
    <2> HIDE DEF D, q, E
    <2>4. StoredOnce(D)
      BY <2>2, StoredSubset
    <2>5. q.size = Cardinality(BytesOf(E))
      BY <2>1, <2>2, <2>3, <2>4, BytesWithout
    <2>6. \A d \in (A \cup {c}) \ q.kept : q.head < d.first /\ d.last <= q.tail
      BY <1>2, <1>3, <1>4, <1>9, <2>1 DEF RemovalInv
    <2>7. q.kept \subseteq Below(data, p + 1)
      BY <1>4, <1>6, <2>1
    <2>8. \A d \in Below(data, p + 1) \ q.kept : q.head < d.first /\ d.last <= q.tail
      BY <1>4, <2>6
    <2>9. \A d \in q.kept : d.last <= q.head \/ q.tail <= d.first
      BY <2>1 DEF RemovalInv
    <2>10. \A b \in start.head..(start.tail - 1) :
              b \in BytesOf(data) \/ (q.head <= b /\ b < q.tail)
      BY <2>1 DEF RemovalInv
    <2>11. q.size = Cardinality(BytesOf(q.kept \cup (data \ Below(data, p + 1))))
      BY <1>4, <2>5 DEF E
    <2>12. start.head <= q.head /\ q.tail <= start.tail
      BY <2>1 DEF RemovalInv
    <2> QED  BY <1>1, <2>7, <2>8, <2>9, <2>10, <2>11, <2>12 DEF RemovalInv
  <1>10. CASE ~(c.first > s.tail \/ c.last <= s.head) /\ ~(c.first > s.head /\ c.last < s.tail)
    <2>1. /\ q.head = (IF c.first <= s.head THEN c.last ELSE s.head)
          /\ q.tail = (IF c.last >= s.tail THEN c.first ELSE s.tail)
          /\ q.size = s.size /\ q.kept = s.kept \cup {c}
      BY <1>1, <1>10 DEF RemoveOverlapped, Seg
    <2>2. q.kept \cup (data \ (A \cup {c})) = s.kept \cup (data \ A)
      BY <1>4, <2>1
    <2> HIDE DEF q
    <2>3. q.kept \subseteq A \cup {c}
      BY <1>6, <2>1
    <2>4. s.head <= q.head /\ q.tail <= s.tail /\ q.head \in Int /\ q.tail \in Int
      BY <1>2, <1>3, <1>10, <2>1
    <2>5. start.head <= q.head /\ q.tail <= start.tail
      BY <1>2, <2>4 DEF RemovalInv
    <2>6. ASSUME NEW d \in (A \cup {c}) \ q.kept PROVE q.head < d.first /\ d.last <= q.tail
      <3>1. d \in A \ s.kept
        BY <2>1
      <3>2. s.head < d.first /\ d.last <= s.tail
        BY <3>1 DEF RemovalInv
      <3>3. d.first \in Nat /\ d.last \in Nat /\ d.first < d.last /\ d.last <= c.first
        BY <1>5, <3>1
      <3> QED  BY <1>2, <1>3, <2>1, <3>2, <3>3
    <2>7. ASSUME NEW d \in q.kept PROVE d.last <= q.head \/ q.tail <= d.first
      <3>1. CASE d = c
        BY <1>2, <1>3, <1>10, <2>1, <3>1
      <3>2. CASE d \in s.kept
        <4>1. d.last <= s.head \/ s.tail <= d.first
          BY <3>2 DEF RemovalInv
        <4>2. d.first \in Nat /\ d.last \in Nat
          BY <1>5, <1>6, <3>2
        <4> QED  BY <1>2, <2>4, <4>1, <4>2
      <3> QED  BY <2>1, <3>1, <3>2
    <2>8. ASSUME NEW b \in start.head..(start.tail - 1)
          PROVE  b \in BytesOf(data) \/ (q.head <= b /\ b < q.tail)
      <3>1. b \in BytesOf(data) \/ (s.head <= b /\ b < s.tail)
        BY DEF RemovalInv
      <3>2. b \in Int
        BY <1>2
      <3>3. ASSUME s.head <= b, b < s.tail, ~(q.head <= b /\ b < q.tail)
            PROVE  c.first <= b /\ b < c.last
        BY <1>2, <1>3, <1>10, <2>1, <3>2, <3>3
      <3> QED  BY <1>7, <3>1, <3>2, <3>3
    <2>9. q.kept \subseteq Below(data, p + 1)
      BY <1>4, <1>6, <2>1
    <2>10. \A d \in Below(data, p + 1) \ q.kept : q.head < d.first /\ d.last <= q.tail
      BY <1>4, <2>6
    <2>11. \A d \in q.kept : d.last <= q.head \/ q.tail <= d.first
      BY <2>7
    <2>12. \A b \in start.head..(start.tail - 1) :
              b \in BytesOf(data) \/ (q.head <= b /\ b < q.tail)
      BY <2>8
    <2>13. q.size = Cardinality(BytesOf(q.kept \cup (data \ Below(data, p + 1))))
      BY <1>4, <2>1, <2>2 DEF RemovalInv
    <2>14. start.head <= q.head /\ q.tail <= start.tail
      BY <2>5
    <2> QED  BY <1>1, <2>9, <2>10, <2>11, <2>12, <2>13, <2>14 DEF RemovalInv
  <1> QED  BY <1>8, <1>9, <1>10

\* What the loop leaves of a segment.
LEMMA RemovalResult ==
    ASSUME NEW data, StoredOnce(data), NEW start \in Seg(data),
           start.kept = {}, start.size = Cardinality(BytesOf(data))
    PROVE  RemovalInv(InOrder(RemoveOverlapped, start, data), StreamLen, start, data)
  <1>1. PICK run : RemovalRun(run, start, data)
    BY RemovalRuns
  <1> DEFINE S == {p \in Nat : RemovalInv(run[p], p, start, data)}
  <1>2. RemovalInv(run[0], 0, start, data)
    <2>1. run[0] = start /\ Below(data, 0) = {}
      BY <1>1, StoredKeyed, BelowNext DEF RemovalRun
    <2>2. data = {} \cup (data \ {})
      OBVIOUS
    <2>3. start.head \in Int /\ start.tail \in Int
      BY DEF Seg
    <2> QED  BY <2>1, <2>2, <2>3 DEF RemovalInv
  <1>3. ASSUME NEW p \in Nat, RemovalInv(run[p], p, start, data)
        PROVE  RemovalInv(run[p + 1], p + 1, start, data)
    <2>1. CASE \E c \in data : c.first = p
      <3>1. PICK c \in data : c.first = p
        BY <2>1
      <3>2. run[p + 1] = RemoveOverlapped(run[p], c)
        BY <1>1, <3>1 DEF RemovalRun
      <3> QED  BY <1>3, <3>1, <3>2, RemovalTurn
    <2>2. CASE \A c \in data : c.first # p
      <3>1. run[p + 1] = run[p]
        BY <1>1, <2>2 DEF RemovalRun
      <3>2. Below(data, p + 1) = Below(data, p)
        BY <2>2, BelowNext, StoredKeyed
      <3> QED  BY <1>3, <3>1, <3>2 DEF RemovalInv
    <2> QED  BY <2>1, <2>2
  <1>4. StreamLen \in S
    <2>1. 0 \in S /\ \A p \in Nat : p \in S => p + 1 \in S
      BY <1>2, <1>3
    <2> HIDE DEF S
    <2> QED  BY <2>1, Induction, RxAssumption
  <1> QED  BY <1>1, <1>4 DEF RemovalRun
\* The segment [head, tail) after the loop.
Cut(data, head, tail) ==
    InOrder(RemoveOverlapped,
            [head |-> head, tail |-> tail, size |-> Cardinality(BytesOf(data)), kept |-> {}], data)

LEMMA CutFacts ==
    ASSUME NEW data, StoredOnce(data), NEW head \in Int, NEW tail \in Int, NEW s,
           s = Cut(data, head, tail)
    PROVE  /\ s \in Seg(data)
           /\ head <= s.head /\ s.tail <= tail
           /\ \A c \in data \ s.kept : s.head < c.first /\ c.last <= s.tail
           /\ \A c \in s.kept : c.last <= s.head \/ s.tail <= c.first
           /\ \A b \in head..(tail - 1) : b \in BytesOf(data) \/ (s.head <= b /\ b < s.tail)
           /\ s.size = Cardinality(BytesOf(s.kept))
  <1> DEFINE start == [head |-> head, tail |-> tail, size |-> Cardinality(BytesOf(data)), kept |-> {}]
  <1>1. Cardinality(BytesOf(data)) \in Int
    BY BytesFacts, FS_CardinalityType
  <1>2. start \in Seg(data) /\ start.kept = {} /\ start.size = Cardinality(BytesOf(data))
    BY <1>1 DEF Seg
  <1>3. start.head = head /\ start.tail = tail
    OBVIOUS
  <1>4. s = InOrder(RemoveOverlapped, start, data)
    BY DEF Cut
  <1> HIDE DEF start
  <1>5. RemovalInv(s, StreamLen, start, data)
    BY <1>2, <1>4, RemovalResult
  <1>6. Below(data, StreamLen) = data
    BY StoredKeyed DEF Below
  <1>7. s \in Seg(data) /\ s.kept \cup (data \ data) = s.kept
    BY <1>5 DEF RemovalInv, Seg
  <1>8. s.size = Cardinality(BytesOf(s.kept))
    BY <1>5, <1>6, <1>7 DEF RemovalInv
  <1> QED  BY <1>3, <1>5, <1>6, <1>7, <1>8 DEF RemovalInv

\* Nothing of the segment is new: the buffer is as it was.
LEMMA NothingNew ==
    ASSUME NEW data, StoredOnce(data), NEW head \in Int, NEW tail \in Int, NEW s,
           s = Cut(data, head, tail), s.head >= s.tail
    PROVE  s.kept = data /\ s.size = Cardinality(BytesOf(data))
  <1>1. s.head \in Int /\ s.tail \in Int /\ s.kept \subseteq data
    BY CutFacts DEF Seg
  <1>2. ASSUME NEW c \in data \ s.kept PROVE FALSE
    <2>1. s.head < c.first /\ c.last <= s.tail
      BY CutFacts
    <2>2. c.first \in Nat /\ c.last \in Nat /\ c.first < c.last
      BY ChunkFacts
    <2> QED  BY <1>1, <2>1, <2>2
  <1>3. s.kept = data
    BY <1>1, <1>2
  <1> QED  BY <1>3, CutFacts

\* A first byte that is missing is stored.
LEMMA MissingByteStored ==
    ASSUME NEW data, StoredOnce(data), NEW head \in Int, NEW tail \in Int, NEW s,
           s = Cut(data, head, tail), head < tail, head \notin BytesOf(data)
    PROVE  s.head = head /\ s.head < s.tail
  <1>1. s.head \in Int /\ s.tail \in Int
    BY CutFacts DEF Seg
  <1>2. head \in head..(tail - 1)
    OBVIOUS
  <1>3. s.head <= head /\ head < s.tail /\ head <= s.head
    BY <1>2, CutFacts
  <1> QED  BY <1>1, <1>3

\* The chunk that is stored, and the buffer with it.
LEMMA ChunkStored ==
    ASSUME NEW data, StoredOnce(data), NEW head \in Nat, NEW tail \in Nat, tail <= StreamLen,
           NEW s, s = Cut(data, head, tail), s.head < s.tail,
           NEW chunk, chunk = [first |-> s.head, last |-> s.tail],
           NEW new, new = Insert(s.kept, chunk)
    PROVE  /\ new = s.kept \cup {chunk} /\ StoredOnce(new)
           /\ s.kept \subseteq data
           /\ BytesOf(new) = BytesOf(data) \cup head..(tail - 1)
           /\ s.size + Length(chunk) = Cardinality(BytesOf(new))
           /\ chunk \in Chunk /\ head <= chunk.first /\ chunk.first < chunk.last /\ chunk.last <= tail
  <1>1. s.head \in Int /\ s.tail \in Int /\ s.kept \subseteq data /\ head <= s.head /\ s.tail <= tail
    BY CutFacts DEF Seg
  <1>2. chunk.first = s.head /\ chunk.last = s.tail
    OBVIOUS
  <1>3. chunk \in Chunk /\ head <= chunk.first /\ chunk.first < chunk.last /\ chunk.last <= tail
    <2>1. s.head \in 0..(StreamLen + 1) /\ s.tail \in 0..(StreamLen + 1)
      BY <1>1, RxAssumption
    <2> QED  BY <1>1, <2>1 DEF Chunk, Position
  <1>4. \A c \in s.kept : /\ c.first \in Nat /\ c.last \in Nat /\ c.first < c.last
                          /\ c.last <= s.head \/ s.tail <= c.first
    BY <1>1, CutFacts, ChunkFacts
  <1>5. \A c \in s.kept : c.first # chunk.first
    BY <1>1, <1>2, <1>4
  <1>6. new = s.kept \cup {chunk} /\ chunk \notin s.kept
    BY <1>5 DEF Insert
  <1>7. StoredOnce(new)
    <2>1. StoredOnce(s.kept)
      BY <1>1, StoredSubset
    <2>2. new \subseteq Chunk
      BY <1>3, <1>6, <2>1 DEF StoredOnce
    <2>3. \A c \in new : c.first < c.last /\ c.last <= StreamLen
      BY <1>1, <1>2, <1>6, <2>1, RxAssumption DEF StoredOnce
    <2>4. \A c, d \in new : c = d \/ c.last <= d.first \/ d.last <= c.first
      BY <1>2, <1>4, <1>6, <2>1 DEF StoredOnce
    <2> QED  BY <2>2, <2>3, <2>4 DEF StoredOnce
  <1>8. s.size + Length(chunk) = Cardinality(BytesOf(new))
    <2>1. new \ {chunk} = s.kept /\ chunk \in new
      BY <1>6
    <2>2. /\ Cardinality(BytesOf(new)) \in Nat
          /\ Cardinality(BytesOf(new \ {chunk})) = Cardinality(BytesOf(new)) - Length(chunk)
          /\ Length(chunk) \in Nat
      BY <1>7, <2>1, BytesWithout
    <2>3. s.size = Cardinality(BytesOf(s.kept))
      BY CutFacts
    <2> DEFINE size == Cardinality(BytesOf(new))
               length == Length(chunk)
    <2>4. size \in Nat /\ length \in Nat /\ s.size = size - length
      BY <2>1, <2>2, <2>3, Zenon
    <2> HIDE DEF size, length
    <2>5. s.size + length = size
      BY <2>4
    <2> QED  BY <2>5 DEF size, length
  <1>9. ASSUME NEW b PROVE b \in BytesOf(new) <=> b \in BytesOf(data) \cup head..(tail - 1)
    <2>1. b \in BytesOf(new) <=> b \in Int /\ \E c \in new : c.first <= b /\ b < c.last
      BY <1>7, BytesFacts
    <2>2. b \in BytesOf(data) <=> b \in Int /\ \E c \in data : c.first <= b /\ b < c.last
      BY BytesFacts
    <2>3. ASSUME b \in BytesOf(new) PROVE b \in BytesOf(data) \cup head..(tail - 1)
      <3>1. PICK c \in new : c.first <= b /\ b < c.last
        BY <2>1, <2>3
      <3>2. CASE c = chunk
        BY <1>1, <1>2, <2>1, <2>3, <3>1, <3>2
      <3>3. CASE c \in s.kept
        BY <1>1, <2>1, <2>2, <2>3, <3>1, <3>3
      <3> QED  BY <1>6, <3>2, <3>3
    <2>4. ASSUME b \in BytesOf(data) PROVE b \in BytesOf(new)
      <3>1. PICK c \in data : c.first <= b /\ b < c.last
        BY <2>2, <2>4
      <3>2. CASE c \in s.kept
        BY <1>6, <2>1, <2>2, <2>4, <3>1, <3>2
      <3>3. CASE c \notin s.kept
        <4>1. s.head < c.first /\ c.last <= s.tail
          BY <3>3, CutFacts
        <4>2. c.first \in Nat /\ c.last \in Nat /\ b \in Int
          BY <2>2, <2>4, ChunkFacts
        <4>3. chunk.first <= b /\ b < chunk.last
          BY <1>1, <1>2, <3>1, <4>1, <4>2
        <4> QED  BY <1>6, <2>1, <4>2, <4>3
      <3> QED  BY <3>2, <3>3
    <2>5. ASSUME b \in head..(tail - 1) PROVE b \in BytesOf(new)
      <3>1. b \in BytesOf(data) \/ (s.head <= b /\ b < s.tail)
        BY <2>5, CutFacts
      <3>2. chunk \in new /\ b \in Int
        BY <1>6, <2>5
      <3> QED  BY <1>2, <2>1, <2>4, <3>1, <3>2
    <2> QED  BY <2>3, <2>4, <2>5
  <1>10. BytesOf(new) = BytesOf(data) \cup head..(tail - 1)
    BY <1>9
  <1> QED  BY <1>1, <1>3, <1>6, <1>7, <1>8, <1>10
----------------------------------------------------------------------------
(***************************************************************************)
(* The SACK list.                                                          *)
(***************************************************************************)

IsClearing(after, list, seq, n) ==
    after = [i \in 0..n |->
                IF i = 0 THEN <<>>
                ELSE IF list[i].last > seq THEN Append(after[i - 1], list[i]) ELSE after[i - 1]]

LEMMA ClearingExists ==
    ASSUME NEW list, NEW seq, NEW n \in Nat
    PROVE  \E after : IsClearing(after, list, seq, n)
  <1> DEFINE S == {m \in Nat : \E after : IsClearing(after, list, seq, m)}
  <1>1. \E after : IsClearing(after, list, seq, 0)
    <2> DEFINE after == [i \in 0..0 |-> <<>>]
    <2>1. after = [i \in 0..0 |->
                IF i = 0 THEN <<>>
                ELSE IF list[i].last > seq THEN Append(after[i - 1], list[i]) ELSE after[i - 1]]
      OBVIOUS
    <2> HIDE DEF after
    <2> QED  BY <2>1 DEF IsClearing
  <1>2. ASSUME NEW m \in Nat, \E after : IsClearing(after, list, seq, m)
        PROVE  \E after : IsClearing(after, list, seq, m + 1)
    <2>1. PICK f : IsClearing(f, list, seq, m)
      BY <1>2
    <2> DEFINE Turn(i, before) == IF list[i].last > seq THEN Append(before, list[i]) ELSE before
               g == [i \in 0..(m + 1) |-> IF i = m + 1 THEN Turn(m + 1, f[m]) ELSE f[i]]
    <2> HIDE DEF Turn
    <2>2. \A i \in 0..m : f[i] = IF i = 0 THEN <<>> ELSE Turn(i, f[i - 1])
      BY <2>1 DEF IsClearing, Turn
    <2>3. ASSUME NEW i \in 0..(m + 1)
          PROVE  g[i] = IF i = 0 THEN <<>> ELSE Turn(i, g[i - 1])
      <3>1. CASE i = m + 1
        <4>1. g[i] = Turn(m + 1, f[m]) /\ g[i - 1] = f[m] /\ i # 0
          BY <3>1
        <4> QED  BY <3>1, <4>1, Zenon
      <3>2. CASE i = 0
        BY <2>2, <3>2
      <3>3. CASE i # m + 1 /\ i # 0
        <4>1. i \in 0..m /\ i - 1 \in 0..(m + 1) /\ i - 1 # m + 1
          BY <3>3
        <4>2. g[i] = f[i] /\ g[i - 1] = f[i - 1]
          BY <3>3, <4>1
        <4> QED  BY <2>2, <3>3, <4>1, <4>2, Zenon
      <3> QED  BY <3>1, <3>2, <3>3
    <2>4. g = [i \in 0..(m + 1) |-> g[i]]
      OBVIOUS
    <2> HIDE DEF g
    <2>5. g = [i \in 0..(m + 1) |-> IF i = 0 THEN <<>> ELSE Turn(i, g[i - 1])]
      BY <2>3, <2>4
    <2>6. IsClearing(g, list, seq, m + 1)
      BY <2>5 DEF IsClearing, Turn
    <2> QED  BY <2>6
  <1>3. n \in S
    <2>1. 0 \in S /\ \A m \in Nat : m \in S => m + 1 \in S
      BY <1>1, <1>2
    <2> HIDE DEF S
    <2> QED  BY <2>1, Induction
  <1> QED  BY <1>3

\* What is left of a list when RCV.NXT comes to seq, of its first n blocks.
ClearedUpTo(res, list, seq, n) ==
    /\ res \in Seq(Chunk) /\ Len(res) <= n
    /\ \A i \in 1..Len(res) : \E j \in 1..n : res[i] = list[j] /\ list[j].last > seq
    /\ \A j \in 1..n : list[j].last > seq => \E i \in 1..Len(res) : res[i] = list[j]

\* ClearSackList keeps the blocks that end beyond seq, and no others.
LEMMA ClearFacts ==
    ASSUME NEW list \in Seq(Chunk), NEW seq \in Int
    PROVE  ClearedUpTo(ClearSackList(list, seq), list, seq, Len(list))
  <1> DEFINE after == CHOOSE after : IsClearing(after, list, seq, Len(list))
             n == Len(list)
  <1>1. n \in Nat /\ \A i \in 1..n : list[i] \in Chunk
    OBVIOUS
  <1>2. ClearSackList(list, seq) = after[n]
    BY DEF ClearSackList, IsClearing
  <1>3. IsClearing(after, list, seq, n)
    BY <1>1, ClearingExists
  <1> HIDE DEF after, n
  <1> DEFINE S == {i \in Nat : i <= n => ClearedUpTo(after[i], list, seq, i)}
  <1>4. ClearedUpTo(after[0], list, seq, 0)
    <2>1. after[0] = <<>>
      BY <1>1, <1>3 DEF IsClearing
    <2> QED  BY <2>1 DEF ClearedUpTo
  <1>5. ASSUME NEW i \in Nat, i + 1 <= n, ClearedUpTo(after[i], list, seq, i)
        PROVE  ClearedUpTo(after[i + 1], list, seq, i + 1)
    <2> DEFINE old == after[i]
               k == i + 1
               new == after[k]
    <2>1. k \in 0..n /\ k # 0 /\ k - 1 = i /\ k \in 1..n /\ k \in Nat
      BY <1>1, <1>5
    <2>2. new = IF list[k].last > seq THEN Append(old, list[k]) ELSE old
      BY <1>3, <2>1 DEF IsClearing
    <2>3. list[k] \in Chunk /\ \A j \in 1..k : j = k \/ j \in 1..i
      BY <1>1, <2>1
    <2>4. \A j \in 1..i : j \in 1..k
      BY <2>1
    <2>5. /\ old \in Seq(Chunk) /\ Len(old) <= i /\ Len(old) \in Nat
          /\ \A l \in 1..Len(old) : \E j \in 1..i : old[l] = list[j] /\ list[j].last > seq
          /\ \A j \in 1..i : list[j].last > seq => \E l \in 1..Len(old) : old[l] = list[j]
      BY <1>5 DEF ClearedUpTo
    <2> HIDE DEF old, new, k
    <2>6. CASE list[k].last > seq
      <3>1. new = Append(old, list[k])
        BY <2>2, <2>6
      <3>2. new \in Seq(Chunk) /\ Len(new) = Len(old) + 1
        BY <2>3, <2>5, <3>1
      <3>3. \A l \in 1..Len(old) : l \in 1..Len(new) /\ new[l] = old[l]
        BY <2>3, <2>5, <3>1
      <3>4. new[Len(new)] = list[k] /\ Len(new) \in 1..Len(new)
        BY <2>3, <2>5, <3>1
      <3>5. \A l \in 1..Len(new) : l = Len(new) \/ l \in 1..Len(old)
        BY <2>5, <3>2
      <3>6. \A l \in 1..Len(new) : \E j \in 1..k : new[l] = list[j] /\ list[j].last > seq
        <4>1. ASSUME NEW l \in 1..Len(new)
              PROVE  \E j \in 1..k : new[l] = list[j] /\ list[j].last > seq
          <5>1. CASE l = Len(new)
            BY <2>1, <2>6, <3>4, <5>1
          <5>2. CASE l \in 1..Len(old)
            <6>1. PICK j \in 1..i : old[l] = list[j] /\ list[j].last > seq
              BY <2>5, <5>2
            <6>2. new[l] = old[l] /\ j \in 1..k
              BY <2>4, <3>3, <5>2
            <6> QED  BY <6>1, <6>2
          <5> QED  BY <3>5, <5>1, <5>2
        <4> QED  BY <4>1
      <3>7. \A j \in 1..k : list[j].last > seq => \E l \in 1..Len(new) : new[l] = list[j]
        BY <2>3, <2>5, <3>3, <3>4
      <3>8. Len(new) <= k
        BY <2>5, <3>2 DEF k
      <3>9. ClearedUpTo(new, list, seq, k)
        BY <3>2, <3>6, <3>7, <3>8 DEF ClearedUpTo
      <3> QED  BY <3>9 DEF new, k
    <2>7. CASE ~(list[k].last > seq)
      <3>1. new = old
        BY <2>2, <2>7
      <3>2. Len(old) <= k
        BY <2>5 DEF k
      <3>3. \A l \in 1..Len(old) : \E j \in 1..k : old[l] = list[j] /\ list[j].last > seq
        BY <2>4, <2>5
      <3>4. \A j \in 1..k : list[j].last > seq => \E l \in 1..Len(old) : old[l] = list[j]
        BY <2>3, <2>5, <2>7
      <3>5. ClearedUpTo(old, list, seq, k)
        BY <2>5, <3>2, <3>3, <3>4 DEF ClearedUpTo
      <3> QED  BY <3>1, <3>5 DEF new, k
    <2> QED  BY <2>6, <2>7
  <1>6. n \in S
    <2>1. 0 \in S
      BY <1>4
    <2>2. \A i \in Nat : i \in S => i + 1 \in S
      BY <1>1, <1>5
    <2> HIDE DEF S
    <2> QED  BY <1>1, <2>1, <2>2, Induction
  <1> QED  BY <1>1, <1>2, <1>6 DEF n
\* Blocks of bytes of H, all beyond n.
Blocks(list, n, H) ==
    /\ list \in Seq(Chunk)
    /\ \A i \in 1..Len(list) : /\ n < list[i].first /\ list[i].first < list[i].last
                               /\ Bytes(list[i]) \subseteq H

\* Every byte in a block of the one list is in a block of the other.
Covers(new, old) ==
    \A i \in 1..Len(old) : \A b \in Bytes(old[i]) : \E j \in 1..Len(new) : b \in Bytes(new[j])

\* new is what merging the front of old leaves.
Merged(new, old, n, H) ==
    /\ Blocks(new, n, H) /\ Covers(new, old)
    /\ 1 <= Len(new) /\ Len(new) <= Len(old)
    /\ Bytes(old[1]) \subseteq Bytes(new[1])

LEMMA RemoveFacts ==
    ASSUME NEW S, NEW list \in Seq(S), NEW k \in 1..Len(list)
    PROVE  /\ RemoveAt(list, k) \in Seq(S) /\ Len(RemoveAt(list, k)) = Len(list) - 1
           /\ \A i \in 1..(Len(list) - 1) :
                 RemoveAt(list, k)[i] = IF i < k THEN list[i] ELSE list[i + 1]
  <1> DEFINE left == SubSeq(list, 1, k - 1)
             right == SubSeq(list, k + 1, Len(list))
  <1>1. Len(list) \in Nat /\ k \in Nat /\ 1 <= k /\ k <= Len(list)
    OBVIOUS
  <1>2. left \in Seq(S) /\ Len(left) = k - 1 /\ \A i \in 1..(k - 1) : left[i] = list[i]
    BY <1>1
  <1>3. /\ right \in Seq(S) /\ Len(right) = Len(list) - k
        /\ \A i \in 1..(Len(list) - k) : right[i] = list[k + i]
    BY <1>1
  <1>4. RemoveAt(list, k) = left \o right
    BY DEF RemoveAt
  <1> HIDE DEF left, right
  <1>5. left \o right \in Seq(S) /\ Len(left \o right) = Len(list) - 1
    BY <1>1, <1>2, <1>3
  <1>6. ASSUME NEW i \in 1..(Len(list) - 1)
        PROVE  (left \o right)[i] = IF i < k THEN list[i] ELSE list[i + 1]
    <2>1. CASE i < k
      <3>1. i \in 1..(k - 1)
        BY <1>1, <2>1
      <3>2. (left \o right)[i] = left[i]
        BY <1>1, <1>2, <1>3, <3>1
      <3> QED  BY <1>2, <2>1, <3>1, <3>2
    <2>2. CASE ~(i < k)
      <3>1. i - (k - 1) \in 1..(Len(list) - k) /\ k + (i - (k - 1)) = i + 1
        BY <1>1, <2>2
      <3>2. (left \o right)[i] = right[i - (k - 1)]
        BY <1>1, <1>2, <1>3, <2>2
      <3> QED  BY <1>3, <2>2, <3>1, <3>2
    <2> QED  BY <2>1, <2>2
  <1> QED  BY <1>4, <1>5, <1>6

LEMMA MergeStep ==
    ASSUME NEW n \in Int, NEW H, NEW list, Blocks(list, n, H), 1 <= Len(list)
    PROVE  Merged(MergeOnce(list), list, n, H)
  <1> DEFINE front == Head(list)
             touching == {i \in 2..Len(list) : list[i].last = front.first
                                            \/ list[i].first = front.last}
             k == Min(touching)
             merged == IF list[k].last = front.first
                       THEN [first |-> list[k].first, last |-> front.last]
                       ELSE [first |-> front.first, last |-> list[k].last]
             rest == RemoveAt(list, k)
             new == <<merged>> \o Tail(rest)
  <1>1. /\ list \in Seq(Chunk) /\ Len(list) \in Nat
        /\ \A i \in 1..Len(list) : list[i] \in Chunk
    BY DEF Blocks
  <1>2. \A i \in 1..Len(list) :
            /\ list[i].first \in Nat /\ list[i].last \in Nat
            /\ list[i].first \in Position /\ list[i].last \in Position
            /\ n < list[i].first /\ list[i].first < list[i].last
            /\ Bytes(list[i]) \subseteq H
    BY <1>1, RxAssumption DEF Blocks, Chunk, Position
  <1>3. front = list[1] /\ 1 \in 1..Len(list)
    BY <1>1
  <1>4. CASE touching = {}
    <2>1. MergeOnce(list) = list
      BY <1>4 DEF MergeOnce
    <2>2. Covers(list, list)
      BY DEF Covers
    <2> QED  BY <1>1, <2>1, <2>2 DEF Merged
  <1>5. CASE touching # {}
    <2>1. MergeOnce(list) = new
      BY <1>5 DEF MergeOnce
    <2>2. touching \subseteq Nat
      BY <1>1
    <2>3. k \in touching
      BY <1>5, <2>2, MinFacts
    <2>4. k \in 2..Len(list) /\ (list[k].last = list[1].first \/ list[k].first = list[1].last)
      BY <1>3, <2>3
    <2>5. merged = IF list[k].last = list[1].first
                   THEN [first |-> list[k].first, last |-> list[1].last]
                   ELSE [first |-> list[1].first, last |-> list[k].last]
      BY <1>3
    <2> HIDE DEF touching, k, merged, front
    <2>6. k \in Nat /\ 2 <= k /\ k <= Len(list) /\ k \in 1..Len(list)
      BY <1>1, <2>4
    <2>7. merged \in Chunk /\ n < merged.first /\ merged.first < merged.last
      BY <1>2, <1>3, <2>4, <2>5, <2>6 DEF Chunk
    <2>8. \A b : b \in Bytes(merged) <=> b \in Bytes(list[1]) \/ b \in Bytes(list[k])
      <3>1. \A b : b \in Bytes(merged) <=> b \in Int /\ merged.first <= b /\ b <= merged.last - 1
        BY <1>2, <1>3, <2>5, <2>6 DEF Bytes
      <3>2. \A b : b \in Bytes(list[1]) <=> b \in Int /\ list[1].first <= b /\ b <= list[1].last - 1
        BY <1>2, <1>3 DEF Bytes
      <3>3. \A b : b \in Bytes(list[k]) <=> b \in Int /\ list[k].first <= b /\ b <= list[k].last - 1
        BY <1>2, <2>6 DEF Bytes
      <3>4. /\ list[1].first \in Nat /\ list[1].last \in Nat /\ list[1].first < list[1].last
            /\ list[k].first \in Nat /\ list[k].last \in Nat /\ list[k].first < list[k].last
        BY <1>2, <1>3, <2>6
      <3>5. CASE list[k].last = list[1].first
        <4>1. merged.first = list[k].first /\ merged.last = list[1].last
          BY <2>5, <3>5
        <4> QED  BY <3>1, <3>2, <3>3, <3>4, <3>5, <4>1
      <3>6. CASE list[k].last # list[1].first
        <4>1. merged.first = list[1].first /\ merged.last = list[k].last /\ list[k].first = list[1].last
          BY <2>4, <2>5, <3>6
        <4> QED  BY <3>1, <3>2, <3>3, <3>4, <4>1
      <3> QED  BY <3>5, <3>6
    <2>9. /\ rest \in Seq(Chunk) /\ Len(rest) = Len(list) - 1
          /\ \A i \in 1..Len(rest) : rest[i] = IF i < k THEN list[i] ELSE list[i + 1]
      BY <1>1, <2>6, RemoveFacts
    <2> HIDE DEF rest
    <2>10. /\ new \in Seq(Chunk) /\ Len(new) = Len(list) - 1 /\ new[1] = merged
           /\ \A i \in 2..Len(new) : new[i] = rest[i]
      BY <1>1, <2>6, <2>7, <2>9
    <2> HIDE DEF new
    <2>11. \A i \in 2..Len(new) : /\ i \in 1..Len(rest)
                                  /\ new[i] = IF i < k THEN list[i] ELSE list[i + 1]
                                  /\ i \in 1..Len(list) /\ i + 1 \in 1..Len(list)
      BY <1>1, <2>9, <2>10
    <2>12. 1 <= Len(new) /\ Len(new) <= Len(list) /\ Len(new) \in Nat
      BY <1>1, <2>6, <2>10
    <2>13. Blocks(new, n, H)
      <3>1. ASSUME NEW i \in 1..Len(new)
            PROVE  n < new[i].first /\ new[i].first < new[i].last /\ Bytes(new[i]) \subseteq H
        <4>1. CASE i = 1
          <5>1. new[i] = merged
            BY <2>10, <4>1
          <5>2. Bytes(list[1]) \subseteq H /\ Bytes(list[k]) \subseteq H
            BY <1>2, <1>3, <2>6
          <5> QED  BY <2>7, <2>8, <5>1, <5>2
        <4>2. CASE i \in 2..Len(new)
          BY <1>2, <2>11, <4>2
        <4> QED  BY <2>12, <4>1, <4>2
      <3> QED  BY <2>10, <3>1 DEF Blocks
    <2>14. Covers(new, list)
      <3>1. ASSUME NEW i \in 1..Len(list), NEW b \in Bytes(list[i])
            PROVE  \E j \in 1..Len(new) : b \in Bytes(new[j])
        <4>1. 1 \in 1..Len(new)
          BY <2>12
        <4>2. CASE i = 1 \/ i = k
          BY <2>8, <2>10, <4>1, <4>2
        <4>3. CASE i # 1 /\ i < k
          <5>1. i \in 2..Len(new) /\ i \in 1..Len(new)
            BY <1>1, <2>6, <2>10, <4>3
          <5>2. new[i] = list[i]
            BY <2>11, <4>3, <5>1
          <5> QED  BY <5>1, <5>2
        <4>4. CASE k < i
          <5>1. i - 1 \in 2..Len(new) /\ i - 1 \in 1..Len(new) /\ ~(i - 1 < k) /\ (i - 1) + 1 = i
            BY <1>1, <2>6, <2>10, <4>4
          <5>2. new[i - 1] = list[i]
            BY <2>11, <5>1
          <5> QED  BY <5>1, <5>2
        <4> QED  BY <2>6, <4>2, <4>3, <4>4
      <3> QED  BY <3>1 DEF Covers
    <2>15. Bytes(list[1]) \subseteq Bytes(new[1])
      BY <2>8, <2>10
    <2>16. Merged(new, list, n, H)
      BY <2>12, <2>13, <2>14, <2>15 DEF Merged
    <2> QED  BY <2>1, <2>16, ZenonT(30)
  <1> QED  BY <1>4, <1>5

IsMerging(after, blocks, n) ==
    after = [k \in 0..n |-> IF k = 0 THEN blocks ELSE MergeOnce(after[k - 1])]

LEMMA MergingExists ==
    ASSUME NEW blocks, NEW n \in Nat
    PROVE  \E after : IsMerging(after, blocks, n)
  <1> DEFINE S == {m \in Nat : \E after : IsMerging(after, blocks, m)}
  <1>1. \E after : IsMerging(after, blocks, 0)
    <2> DEFINE after == [i \in 0..0 |-> blocks]
    <2>1. after = [k \in 0..0 |-> IF k = 0 THEN blocks ELSE MergeOnce(after[k - 1])]
      OBVIOUS
    <2> HIDE DEF after
    <2> QED  BY <2>1 DEF IsMerging
  <1>2. ASSUME NEW m \in Nat, \E after : IsMerging(after, blocks, m)
        PROVE  \E after : IsMerging(after, blocks, m + 1)
    <2>1. PICK f : IsMerging(f, blocks, m)
      BY <1>2
    <2> DEFINE g == [i \in 0..(m + 1) |-> IF i = m + 1 THEN MergeOnce(f[m]) ELSE f[i]]
    <2>2. \A i \in 0..m : f[i] = IF i = 0 THEN blocks ELSE MergeOnce(f[i - 1])
      BY <2>1 DEF IsMerging
    <2>3. ASSUME NEW i \in 0..(m + 1)
          PROVE  g[i] = IF i = 0 THEN blocks ELSE MergeOnce(g[i - 1])
      <3>1. CASE i = m + 1
        <4>1. g[i] = MergeOnce(f[m]) /\ g[i - 1] = f[m] /\ i # 0
          BY <3>1
        <4> QED  BY <3>1, <4>1, Zenon
      <3>2. CASE i = 0
        BY <2>2, <3>2
      <3>3. CASE i # m + 1 /\ i # 0
        <4>1. i \in 0..m /\ i - 1 \in 0..(m + 1) /\ i - 1 # m + 1
          BY <3>3
        <4>2. g[i] = f[i] /\ g[i - 1] = f[i - 1]
          BY <3>3, <4>1
        <4> QED  BY <2>2, <3>3, <4>1, <4>2, Zenon
      <3> QED  BY <3>1, <3>2, <3>3
    <2>4. g = [i \in 0..(m + 1) |-> g[i]]
      OBVIOUS
    <2> HIDE DEF g
    <2>5. g = [i \in 0..(m + 1) |-> IF i = 0 THEN blocks ELSE MergeOnce(g[i - 1])]
      BY <2>3, <2>4
    <2> QED  BY <2>5 DEF IsMerging
  <1>3. n \in S
    <2>1. 0 \in S /\ \A m \in Nat : m \in S => m + 1 \in S
      BY <1>1, <1>2
    <2> HIDE DEF S
    <2> QED  BY <2>1, Induction
  <1> QED  BY <1>3

LEMMA MergeTransitive ==
    ASSUME NEW n, NEW H, NEW a, NEW b, NEW c, Merged(b, a, n, H), Merged(c, b, n, H),
           Len(a) \in Nat, Len(b) \in Nat, Len(c) \in Nat
    PROVE  Merged(c, a, n, H)
  <1>1. Covers(c, a)
    <2>1. ASSUME NEW i \in 1..Len(a), NEW x \in Bytes(a[i]) PROVE \E j \in 1..Len(c) : x \in Bytes(c[j])
      <3>1. PICK j \in 1..Len(b) : x \in Bytes(b[j])
        BY DEF Merged, Covers
      <3> QED  BY <3>1 DEF Merged, Covers
    <2> QED  BY <2>1 DEF Covers
  <1>2. Len(c) <= Len(a)
    BY DEF Merged
  <1> QED  BY <1>1, <1>2 DEF Merged

\* The front block only grows, and no byte of the list is lost.
LEMMA MergeFacts ==
    ASSUME NEW n \in Int, NEW H, NEW blocks, Blocks(blocks, n, H), 1 <= Len(blocks)
    PROVE  Merged(MergeFront(blocks), blocks, n, H)
  <1> DEFINE len == Len(blocks)
             after == CHOOSE after : IsMerging(after, blocks, len)
  <1>1. len \in Nat
    BY DEF Blocks
  <1>2. MergeFront(blocks) = after[len]
    BY DEF MergeFront, IsMerging
  <1>3. IsMerging(after, blocks, len)
    BY <1>1, MergingExists
  <1> HIDE DEF after, len
  <1> DEFINE S == {i \in Nat : i <= len => Merged(after[i], blocks, n, H)}
  <1>4. Merged(after[0], blocks, n, H)
    <2>1. after[0] = blocks
      BY <1>1, <1>3 DEF IsMerging
    <2>2. Covers(blocks, blocks)
      BY DEF Covers
    <2>3. Len(blocks) <= Len(blocks)
      BY <1>1 DEF len
    <2> QED  BY <2>1, <2>2, <2>3 DEF Merged
  <1>5. ASSUME NEW i \in Nat, i + 1 <= len, Merged(after[i], blocks, n, H)
        PROVE  Merged(after[i + 1], blocks, n, H)
    <2>1. after[i + 1] = MergeOnce(after[i])
      <3>1. i + 1 \in 0..len /\ i + 1 # 0 /\ (i + 1) - 1 = i
        BY <1>1, <1>5
      <3> QED  BY <1>3, <3>1 DEF IsMerging
    <2>2. Blocks(after[i], n, H) /\ 1 <= Len(after[i])
      BY <1>5 DEF Merged
    <2>3. Merged(after[i + 1], after[i], n, H)
      BY <2>1, <2>2, MergeStep
    <2>4. Len(after[i]) \in Nat /\ Len(after[i + 1]) \in Nat /\ Len(blocks) \in Nat
      BY <2>2, <2>3 DEF Merged, Blocks
    <2> QED  BY <1>5, <2>3, <2>4, MergeTransitive
  <1>6. len \in S
    <2>1. 0 \in S
      BY <1>4
    <2>2. \A i \in Nat : i \in S => i + 1 \in S
      BY <1>1, <1>5
    <2> HIDE DEF S
    <2> QED  BY <1>1, <2>1, <2>2, Induction
  <1> QED  BY <1>1, <1>2, <1>6
----------------------------------------------------------------------------
(***************************************************************************)
(* The loop of Add that moves RCV.NXT.                                     *)
(***************************************************************************)

RxMembers ==
    [data : SUBSET Chunk, nextRxSeq : Position, gotFin : BOOLEAN, finSeq : Position,
     size : Nat, availBytes : Nat, maxBuffer : Nat, sackList : Seq(Chunk), dropped : BOOLEAN]

LEMMA AdvanceType ==
    ASSUME NEW data, StoredOnce(data), NEW s \in RxMembers, NEW c \in data
    PROVE  Advance(s, c) \in RxMembers
  <1>1. c.first \in Nat /\ c.last \in Nat /\ c.last \in Position /\ c.last - c.first \in Nat
    BY ChunkFacts DEF Chunk
  <1>2. s.availBytes \in Nat /\ s.sackList \in Seq(Chunk)
    BY DEF RxMembers
  <1>3. ClearSackList(s.sackList, c.last) \in Seq(Chunk)
    BY <1>1, <1>2, ClearFacts DEF ClearedUpTo
  <1>4. s.availBytes + Length(c) \in Nat
    BY <1>1, <1>2 DEF Length
  <1> QED  BY <1>1, <1>3, <1>4 DEF RxMembers, Advance

AdvanceRun(run, start, data) ==
    /\ run[0] = start
    /\ \A p \in Nat : \A c \in data : c.first = p => run[p + 1] = Advance(run[p], c)
    /\ \A p \in Nat : (\A c \in data : c.first # p) => run[p + 1] = run[p]
    /\ InOrder(Advance, start, data) = run[StreamLen]

IsAdvance(it, start, data) ==
    it = [D \in SUBSET data |-> IF D = {} THEN start
                                ELSE Advance(it[D \ {LastOf(D)}], LastOf(D))]

LEMMA AdvanceExists ==
    ASSUME NEW data, StoredOnce(data), NEW start \in RxMembers
    PROVE  \E it : IsAdvance(it, start, data)
  <1> DEFINE V == RxMembers
             step == [c \in data |-> [v \in V |-> Advance(v, c)]]
  <1>1. step \in [data -> [V -> V]]
    BY AdvanceType
  <1>2. \A c \in data, v \in V : step[c][v] = Advance(v, c)
    OBVIOUS
  <1> HIDE DEF step, V
  <1>3. PICK it \in [SUBSET data -> V] : IsLoop(it, step, start, data)
    BY <1>1, StoredKeyed, LoopExists, RxAssumption DEF V
  <1>4. ASSUME NEW D \in SUBSET data, D # {}
        PROVE  step[LastOf(D)][it[D \ {LastOf(D)}]] = Advance(it[D \ {LastOf(D)}], LastOf(D))
    <2>1. LastOf(D) \in D
      BY <1>4, LastInSet, StoredKeyed, RxAssumption
    <2> DEFINE E == D \ {LastOf(D)}
    <2>2. E \in SUBSET data
      OBVIOUS
    <2> HIDE DEF E
    <2>3. it[E] \in V
      BY <2>2
    <2> QED  BY <1>2, <2>1, <2>3 DEF E
  <1>5. IsAdvance(it, start, data)
    BY <1>3, <1>4 DEF IsLoop, IsAdvance
  <1> QED  BY <1>5

LEMMA AdvanceRuns ==
    ASSUME NEW data, StoredOnce(data), NEW start \in RxMembers
    PROVE  \E run : AdvanceRun(run, start, data)
  <1> DEFINE it == CHOOSE it : IsAdvance(it, start, data)
             run == [p \in Nat |-> it[Below(data, p)]]
  <1>1. InOrder(Advance, start, data) = it[data]
    BY DEF InOrder, MapThenFoldSet, IsAdvance, LastOf
  <1>2. IsAdvance(it, start, data)
    BY AdvanceExists
  <1>3. \A p \in Nat : run[p] = it[Below(data, p)]
    OBVIOUS
  <1> HIDE DEF it, run
  <1>4. run[0] = start
    BY <1>2, <1>3, BelowNext, StoredKeyed DEF IsAdvance
  <1>5. ASSUME NEW p \in Nat, NEW c \in data, c.first = p
        PROVE  run[p + 1] = Advance(run[p], c)
    <2>1. /\ Below(data, p) \in SUBSET data /\ Below(data, p + 1) \in SUBSET data
          /\ Below(data, p + 1) # {}
          /\ LastOf(Below(data, p + 1)) = c
          /\ Below(data, p + 1) \ {c} = Below(data, p)
      BY <1>5, LoopStep, StoredKeyed
    <2>2. it[Below(data, p + 1)] = Advance(it[Below(data, p)], c)
      BY <1>2, <2>1 DEF IsAdvance
    <2> QED  BY <1>3, <2>2
  <1>6. ASSUME NEW p \in Nat, \A c \in data : c.first # p
        PROVE  run[p + 1] = run[p]
    BY <1>3, <1>6, BelowNext, StoredKeyed
  <1>7. run[StreamLen] = it[data]
    <2>1. Below(data, StreamLen) = data
      BY StoredKeyed DEF Below
    <2> QED  BY <1>3, <2>1, RxAssumption
  <1> QED  BY <1>1, <1>4, <1>5, <1>6, <1>7 DEF AdvanceRun

\* The blocks that are left when RCV.NXT has moved from n to m.
SackLeft(new, old, m, n) ==
    /\ Len(new) <= Len(old)
    /\ \A i \in 1..Len(new) : \E j \in 1..Len(old) : new[i] = old[j]
    /\ \A j \in 1..Len(old) : old[j].last > m => \E i \in 1..Len(new) : new[i] = old[j]
    /\ m # n => \A i \in 1..Len(new) : new[i].last > m
    /\ m = n => new = old

AdvanceInv(s, p, start, data) ==
    /\ s \in RxMembers
    /\ s = [start EXCEPT !.nextRxSeq = s.nextRxSeq, !.availBytes = s.availBytes,
                         !.sackList = s.sackList]
    /\ start.nextRxSeq <= s.nextRxSeq
    /\ s.availBytes = start.availBytes + (s.nextRxSeq - start.nextRxSeq)
    /\ \A b \in start.nextRxSeq..(s.nextRxSeq - 1) : b \in BytesOf(data)
    /\ \A c \in data : c.last <= s.nextRxSeq \/ s.nextRxSeq <= c.first
    /\ \A c \in Below(data, p) : c.first # s.nextRxSeq
    /\ SackLeft(s.sackList, start.sackList, s.nextRxSeq, start.nextRxSeq)

LEMMA ClearedAgain ==
    ASSUME NEW start \in Seq(Chunk), NEW old \in Seq(Chunk), NEW n \in Int, NEW m \in Int,
           NEW k \in Int, n <= m, m < k, SackLeft(old, start, m, n), NEW new, ClearedUpTo(new, old, k, Len(old))
    PROVE  SackLeft(new, start, k, n)
  <1>1. Len(new) <= Len(start)
    BY DEF SackLeft, ClearedUpTo
  <1>2. ASSUME NEW i \in 1..Len(new)
        PROVE  /\ new[i].last > k
               /\ \E j \in 1..Len(start) : new[i] = start[j]
    <2>1. PICK l \in 1..Len(old) : new[i] = old[l] /\ old[l].last > k
      BY DEF ClearedUpTo
    <2>2. PICK j \in 1..Len(start) : old[l] = start[j]
      BY DEF SackLeft
    <2> QED  BY <2>1, <2>2
  <1>3. ASSUME NEW j \in 1..Len(start), start[j].last > k
        PROVE  \E i \in 1..Len(new) : new[i] = start[j]
    <2>1. start[j].last \in Nat
      <3>1. start[j] \in Chunk
        OBVIOUS
      <3> QED  BY <3>1, RxAssumption DEF Chunk, Position
    <2>2. start[j].last > m
      BY <1>3, <2>1
    <2>3. PICK l \in 1..Len(old) : old[l] = start[j]
      BY <2>2 DEF SackLeft
    <2>4. PICK i \in 1..Len(new) : new[i] = old[l]
      <3>1. old[l].last > k
        BY <1>3, <2>3
      <3>2. \A x \in 1..Len(old) : old[x].last > k => \E i \in 1..Len(new) : new[i] = old[x]
        BY DEF ClearedUpTo
      <3> QED  BY <3>1, <3>2
    <2> QED  BY <2>3, <2>4
  <1>4. k # n
    OBVIOUS
  <1>5. \A i \in 1..Len(new) : \E j \in 1..Len(start) : new[i] = start[j]
    BY <1>2
  <1>6. \A j \in 1..Len(start) : start[j].last > k => \E i \in 1..Len(new) : new[i] = start[j]
    BY <1>3
  <1> QED  BY <1>1, <1>2, <1>4, <1>5, <1>6 DEF SackLeft

LEMMA AdvanceTurn ==
    ASSUME NEW data, StoredOnce(data), NEW start \in RxMembers, NEW p \in Nat,
           NEW s, AdvanceInv(s, p, start, data), NEW c \in data, c.first = p
    PROVE  AdvanceInv(Advance(s, c), p + 1, start, data)
  <1> DEFINE q == Advance(s, c)
             n == start.nextRxSeq
  <1> SUFFICES AdvanceInv(q, p + 1, start, data)
    OBVIOUS
  <1>1. s \in RxMembers /\ q \in RxMembers
    BY AdvanceType DEF AdvanceInv
  <1>2. /\ s.nextRxSeq \in Nat /\ s.availBytes \in Nat /\ s.sackList \in Seq(Chunk)
        /\ n \in Nat /\ start.availBytes \in Nat /\ start.sackList \in Seq(Chunk)
    BY <1>1, RxAssumption DEF RxMembers, Position
  <1>3. c.first \in Nat /\ c.last \in Nat /\ c.first < c.last
    BY ChunkFacts
  <1>4. Below(data, p + 1) = Below(data, p) \cup {c}
    BY BelowNext, StoredKeyed
  <1>5. CASE c.first # s.nextRxSeq
    <2>1. q = s
      BY <1>5 DEF Advance
    <2>2. \A d \in Below(data, p + 1) : d.first # s.nextRxSeq
      BY <1>4, <1>5 DEF AdvanceInv
    <2> QED  BY <2>1, <2>2 DEF AdvanceInv
  <1>6. CASE c.first = s.nextRxSeq
    <2>1. /\ q = [s EXCEPT !.nextRxSeq = c.last, !.availBytes = @ + Length(c),
                           !.sackList = ClearSackList(@, c.last)]
      BY <1>6 DEF Advance
    <2>2. /\ q.nextRxSeq = c.last /\ q.availBytes = s.availBytes + (c.last - c.first)
          /\ q.sackList = ClearSackList(s.sackList, c.last)
      BY <1>1, <2>1 DEF RxMembers, Length
    <2>3. q = [start EXCEPT !.nextRxSeq = q.nextRxSeq, !.availBytes = q.availBytes,
                            !.sackList = q.sackList]
      <3>1. s = [start EXCEPT !.nextRxSeq = s.nextRxSeq, !.availBytes = s.availBytes,
                              !.sackList = s.sackList]
        BY DEF AdvanceInv
      <3> QED  BY <1>1, <2>1, <2>2, <3>1 DEF RxMembers
    <2> HIDE DEF q
    <2>4. n <= s.nextRxSeq /\ s.availBytes = start.availBytes + (s.nextRxSeq - n)
      BY DEF AdvanceInv
    <2>5. n <= q.nextRxSeq /\ q.availBytes = start.availBytes + (q.nextRxSeq - n)
      BY <1>2, <1>3, <1>6, <2>2, <2>4
    <2>6. \A b \in n..(q.nextRxSeq - 1) : b \in BytesOf(data)
      <3>1. ASSUME NEW b \in n..(q.nextRxSeq - 1) PROVE b \in BytesOf(data)
        <4>1. b \in Int /\ n <= b /\ b < c.last
          BY <1>2, <1>3, <2>2
        <4>2. CASE b < s.nextRxSeq
          <5>1. b \in n..(s.nextRxSeq - 1)
            BY <1>2, <4>1, <4>2
          <5> QED  BY <5>1 DEF AdvanceInv
        <4>3. CASE ~(b < s.nextRxSeq)
          <5>1. c.first <= b
            BY <1>2, <1>3, <1>6, <4>1, <4>3
          <5> QED  BY <4>1, <5>1, BytesFacts
        <4> QED  BY <4>2, <4>3
      <3> QED  BY <3>1
    <2>7. \A d \in data : d.last <= q.nextRxSeq \/ q.nextRxSeq <= d.first
      <3>1. ASSUME NEW d \in data PROVE d.last <= c.last \/ c.last <= d.first
        <4>1. d.first \in Nat /\ d.last \in Nat /\ (d = c \/ c.last <= d.first \/ d.last <= c.first)
          BY ChunkFacts DEF StoredOnce
        <4> QED  BY <1>3, <4>1
      <3> QED  BY <2>2, <3>1
    <2>8. \A d \in Below(data, p + 1) : d.first # q.nextRxSeq
      <3>1. \A d \in Below(data, p + 1) : d.first \in Nat /\ d.first <= p
        BY ChunkFacts DEF Below
      <3> QED  BY <1>3, <2>2, <3>1
    <2>9. SackLeft(q.sackList, start.sackList, q.nextRxSeq, n)
      <3>1. ClearedUpTo(q.sackList, s.sackList, c.last, Len(s.sackList))
        BY <1>2, <1>3, <2>2, ClearFacts
      <3>2. SackLeft(s.sackList, start.sackList, s.nextRxSeq, n)
        BY DEF AdvanceInv
      <3>3. s.nextRxSeq < c.last
        BY <1>3, <1>6
      <3> QED  BY <1>2, <1>3, <2>2, <2>4, <3>1, <3>2, <3>3, ClearedAgain, SMTT(30)
    <2> QED  BY <1>1, <2>3, <2>5, <2>6, <2>7, <2>8, <2>9 DEF AdvanceInv
  <1> QED  BY <1>5, <1>6

LEMMA AdvanceResult ==
    ASSUME NEW data, StoredOnce(data), NEW start \in RxMembers,
           \A c \in data : c.last <= start.nextRxSeq \/ start.nextRxSeq <= c.first
    PROVE  AdvanceInv(InOrder(Advance, start, data), StreamLen, start, data)
  <1>1. PICK run : AdvanceRun(run, start, data)
    BY AdvanceRuns
  <1> DEFINE S == {p \in Nat : AdvanceInv(run[p], p, start, data)}
  <1>2. AdvanceInv(run[0], 0, start, data)
    <2>1. run[0] = start /\ Below(data, 0) = {}
      BY <1>1, StoredKeyed, BelowNext DEF AdvanceRun
    <2>2. start.nextRxSeq \in Nat /\ start.availBytes \in Nat /\ start.sackList \in Seq(Chunk)
      BY RxAssumption DEF RxMembers, Position
    <2>3. SackLeft(start.sackList, start.sackList, start.nextRxSeq, start.nextRxSeq)
      BY <2>2 DEF SackLeft
    <2>4. start = [start EXCEPT !.nextRxSeq = start.nextRxSeq, !.availBytes = start.availBytes,
                                !.sackList = start.sackList]
      BY DEF RxMembers
    <2> QED  BY <2>1, <2>2, <2>3, <2>4 DEF AdvanceInv
  <1>3. ASSUME NEW p \in Nat, AdvanceInv(run[p], p, start, data)
        PROVE  AdvanceInv(run[p + 1], p + 1, start, data)
    <2>1. CASE \E c \in data : c.first = p
      <3>1. PICK c \in data : c.first = p
        BY <2>1
      <3>2. run[p + 1] = Advance(run[p], c)
        BY <1>1, <3>1 DEF AdvanceRun
      <3> QED  BY <1>3, <3>1, <3>2, AdvanceTurn
    <2>2. CASE \A c \in data : c.first # p
      <3>1. run[p + 1] = run[p]
        BY <1>1, <2>2 DEF AdvanceRun
      <3>2. Below(data, p + 1) = Below(data, p)
        BY <2>2, BelowNext, StoredKeyed
      <3> QED  BY <1>3, <3>1, <3>2 DEF AdvanceInv
    <2> QED  BY <2>1, <2>2
  <1>4. StreamLen \in S
    <2>1. 0 \in S /\ \A p \in Nat : p \in S => p + 1 \in S
      BY <1>2, <1>3
    <2> HIDE DEF S
    <2> QED  BY <2>1, Induction, RxAssumption
  <1> QED  BY <1>1, <1>4 DEF AdvanceRun
----------------------------------------------------------------------------
(***************************************************************************)
(* The loop of Extract.                                                    *)
(***************************************************************************)

Taken == [wanted : Nat, out : Seq(Int), left : SUBSET [first : Int, last : Int]]

LEMMA Difference ==
    ASSUME NEW a \in Nat, NEW b \in Nat, a < b
    PROVE  b - a \in Nat
  OBVIOUS

LEMMA LesserFacts ==
    ASSUME NEW a \in Nat, NEW b \in Nat, NEW n, n = IF a <= b THEN a ELSE b
    PROVE  n \in Nat /\ n <= a /\ n <= b
  OBVIOUS

LEMMA TakeParts ==
    ASSUME NEW data, StoredOnce(data), NEW t \in Taken, NEW c \in data, NEW n,
           n = Min({t.wanted, Length(c)})
    PROVE  /\ n = (IF t.wanted <= c.last - c.first THEN t.wanted ELSE c.last - c.first)
           /\ n \in Nat /\ n <= t.wanted /\ n <= c.last - c.first
           /\ TakeFrom(t, c) =
                [wanted |-> t.wanted - n,
                 out    |-> t.out \o [j \in 1..n |-> c.first + j - 1],
                 left   |-> IF n = c.last - c.first THEN t.left
                            ELSE t.left \cup {[first |-> c.first + n, last |-> c.last]}]
  <1>1. c \in [first : Position, last : Position]
    BY ChunkFacts DEF Chunk
  <1>2. c.first \in Nat /\ c.last \in Nat /\ c.first < c.last /\ t.wanted \in Nat
    BY ChunkFacts DEF Taken
  <1>3. Length(c) = c.last - c.first /\ Length(c) \in Int
    BY <1>2 DEF Length
  <1>4. n = (IF t.wanted <= c.last - c.first THEN t.wanted ELSE c.last - c.first)
    <2> DEFINE len == Length(c)
               w == t.wanted
    <2>1. len \in Int /\ w \in Int /\ n = Min({w, len})
      BY <1>2, <1>3
    <2> HIDE DEF len, w
    <2>2. n = IF w <= len THEN w ELSE len
      BY <2>1, PairFacts
    <2> QED  BY <1>3, <2>2 DEF len, w
  <1>5. [c EXCEPT !.first = @ + n] = [first |-> c.first + n, last |-> c.last]
    BY <1>1
  <1>6. n \in Nat /\ n <= t.wanted /\ n <= c.last - c.first
    <2>1. c.last - c.first \in Nat
      BY <1>2, Difference
    <2> QED  BY <1>2, <1>4, <2>1, LesserFacts
  <1>7. TakeFrom(t, c) =
                [wanted |-> t.wanted - n,
                 out    |-> t.out \o [j \in 1..n |-> c.first + j - 1],
                 left   |-> IF n = c.last - c.first THEN t.left
                            ELSE t.left \cup {[first |-> c.first + n, last |-> c.last]}]
    BY <1>3, <1>5 DEF TakeFrom
  <1> QED  BY <1>4, <1>6, <1>7

LEMMA TakeType ==
    ASSUME NEW data, StoredOnce(data), NEW t \in Taken, NEW c \in data
    PROVE  TakeFrom(t, c) \in Taken
  <1> DEFINE n == Min({t.wanted, Length(c)})
             bytes == [j \in 1..n |-> c.first + j - 1]
             rest == [first |-> c.first + n, last |-> c.last]
  <1>1. /\ n \in Nat /\ n <= t.wanted
        /\ TakeFrom(t, c) =
                [wanted |-> t.wanted - n,
                 out    |-> t.out \o bytes,
                 left   |-> IF n = c.last - c.first THEN t.left ELSE t.left \cup {rest}]
    BY TakeParts
  <1>2. c.first \in Nat /\ c.last \in Nat
    BY ChunkFacts
  <1>3. t.wanted \in Nat /\ t.out \in Seq(Int) /\ t.left \in SUBSET [first : Int, last : Int]
    BY DEF Taken
  <1> HIDE DEF n
  <1>4. t.wanted - n \in Nat
    BY <1>1, <1>3
  <1>5. bytes \in Seq(Int)
    BY <1>1, <1>2
  <1>6. rest \in [first : Int, last : Int]
    BY <1>1, <1>2
  <1> HIDE DEF bytes, rest
  <1>7. t.out \o bytes \in Seq(Int)
    BY <1>3, <1>5
  <1>8. (IF n = c.last - c.first THEN t.left ELSE t.left \cup {rest}) \in SUBSET [first : Int, last : Int]
    BY <1>3, <1>6
  <1> QED  BY <1>1, <1>4, <1>7, <1>8 DEF Taken

TakeRun(run, start, data) ==
    /\ run[0] = start
    /\ \A p \in Nat : \A c \in data : c.first = p => run[p + 1] = TakeFrom(run[p], c)
    /\ \A p \in Nat : (\A c \in data : c.first # p) => run[p + 1] = run[p]
    /\ InOrder(TakeFrom, start, data) = run[StreamLen]

IsTaking(it, start, data) ==
    it = [D \in SUBSET data |-> IF D = {} THEN start
                                ELSE TakeFrom(it[D \ {LastOf(D)}], LastOf(D))]

LEMMA TakingExists ==
    ASSUME NEW data, StoredOnce(data), NEW start \in Taken
    PROVE  \E it : IsTaking(it, start, data)
  <1> DEFINE V == Taken
             step == [c \in data |-> [v \in V |-> TakeFrom(v, c)]]
  <1>1. step \in [data -> [V -> V]]
    BY TakeType
  <1>2. \A c \in data, v \in V : step[c][v] = TakeFrom(v, c)
    OBVIOUS
  <1> HIDE DEF step, V
  <1>3. PICK it \in [SUBSET data -> V] : IsLoop(it, step, start, data)
    BY <1>1, StoredKeyed, LoopExists, RxAssumption DEF V
  <1>4. ASSUME NEW D \in SUBSET data, D # {}
        PROVE  step[LastOf(D)][it[D \ {LastOf(D)}]] = TakeFrom(it[D \ {LastOf(D)}], LastOf(D))
    <2>1. LastOf(D) \in D
      BY <1>4, LastInSet, StoredKeyed, RxAssumption
    <2> DEFINE E == D \ {LastOf(D)}
    <2>2. E \in SUBSET data
      OBVIOUS
    <2> HIDE DEF E
    <2>3. it[E] \in V
      BY <2>2
    <2> QED  BY <1>2, <2>1, <2>3 DEF E
  <1>5. IsTaking(it, start, data)
    BY <1>3, <1>4 DEF IsLoop, IsTaking
  <1> QED  BY <1>5

LEMMA TakeRuns ==
    ASSUME NEW data, StoredOnce(data), NEW start \in Taken
    PROVE  \E run : TakeRun(run, start, data)
  <1> DEFINE it == CHOOSE it : IsTaking(it, start, data)
             run == [p \in Nat |-> it[Below(data, p)]]
  <1>1. InOrder(TakeFrom, start, data) = it[data]
    BY DEF InOrder, MapThenFoldSet, IsTaking, LastOf
  <1>2. IsTaking(it, start, data)
    BY TakingExists
  <1>3. \A p \in Nat : run[p] = it[Below(data, p)]
    OBVIOUS
  <1> HIDE DEF it, run
  <1>4. run[0] = start
    BY <1>2, <1>3, BelowNext, StoredKeyed DEF IsTaking
  <1>5. ASSUME NEW p \in Nat, NEW c \in data, c.first = p
        PROVE  run[p + 1] = TakeFrom(run[p], c)
    <2>1. /\ Below(data, p) \in SUBSET data /\ Below(data, p + 1) \in SUBSET data
          /\ Below(data, p + 1) # {}
          /\ LastOf(Below(data, p + 1)) = c
          /\ Below(data, p + 1) \ {c} = Below(data, p)
      BY <1>5, LoopStep, StoredKeyed
    <2>2. it[Below(data, p + 1)] = TakeFrom(it[Below(data, p)], c)
      BY <1>2, <2>1 DEF IsTaking
    <2> QED  BY <1>3, <2>2
  <1>6. ASSUME NEW p \in Nat, \A c \in data : c.first # p
        PROVE  run[p + 1] = run[p]
    BY <1>3, <1>6, BelowNext, StoredKeyed
  <1>7. run[StreamLen] = it[data]
    <2>1. Below(data, StreamLen) = data
      BY StoredKeyed DEF Below
    <2> QED  BY <1>3, <2>1, RxAssumption
  <1> QED  BY <1>1, <1>4, <1>5, <1>6, <1>7 DEF TakeRun
\* What is left of a chunk when everything below e is taken.
Rest(c, e) == [first |-> IF c.first < e THEN e ELSE c.first, last |-> c.last]

RestsOf(chunks, e) == {Rest(c, e) : c \in {d \in chunks : d.last > e}}

\* n bytes in sequence from f on.
InSequence(f, n) == [i \in 1..n |-> f + i - 1]

\* n bytes are asked for, f is the first byte in the buffer.
TakeInv(t, p, f, n, data) ==
    /\ t \in Taken /\ t.wanted <= n
    /\ t.out = InSequence(f, n - t.wanted)
    /\ t.left = RestsOf(Below(data, p), f + n)
    /\ t.wanted > 0 => BytesOf(Below(data, p)) = f..(f + (n - t.wanted) - 1)
    /\ t.wanted = 0 => f..(f + n - 1) \subseteq BytesOf(Below(data, p))

\* The bytes that are to be read: n of them from f on, all in the buffer.
Available(f, n, data) ==
    /\ f \in Nat /\ n \in Nat
    /\ \A c \in data : f <= c.first
    /\ f..(f + n - 1) \subseteq BytesOf(data)

LEMMA SequenceGrows ==
    ASSUME NEW f \in Nat, NEW k \in Nat, NEW n \in Nat
    PROVE  InSequence(f, k) \o [j \in 1..n |-> (f + k) + j - 1] = InSequence(f, k + n)
  <1> DEFINE a == InSequence(f, k)
             b == [j \in 1..n |-> (f + k) + j - 1]
             c == InSequence(f, k + n)
  <1>1. a \in Seq(Int) /\ Len(a) = k /\ \A i \in 1..k : a[i] = f + i - 1
    BY DEF InSequence
  <1>2. b \in Seq(Int) /\ Len(b) = n /\ \A i \in 1..n : b[i] = (f + k) + i - 1
    OBVIOUS
  <1>3. c \in Seq(Int) /\ Len(c) = k + n /\ \A i \in 1..(k + n) : c[i] = f + i - 1
    BY DEF InSequence
  <1> HIDE DEF a, b, c
  <1>4. a \o b \in Seq(Int) /\ Len(a \o b) = k + n
    <2>1. Len(a \o b) = Len(a) + Len(b) /\ a \o b \in Seq(Int)
      BY <1>1, <1>2, ConcatProperties
    <2> QED  BY <1>1, <1>2, <2>1
  <1>5. ASSUME NEW i \in 1..(k + n) PROVE (a \o b)[i] = c[i]
    <2>1. CASE i <= k
      <3>1. (a \o b)[i] = a[i]
        BY <1>1, <1>2, <2>1
      <3> QED  BY <1>1, <1>3, <2>1, <3>1
    <2>2. CASE ~(i <= k)
      <3>1. (a \o b)[i] = b[i - k] /\ i - k \in 1..n
        BY <1>1, <1>2, <2>2, SMTT(30)
      <3> QED  BY <1>2, <1>3, <3>1
    <2> QED  BY <2>1, <2>2
  <1>6. a \o b = c
    BY <1>3, <1>4, <1>5, SeqEqual
  <1> QED  BY <1>6 DEF a, b, c

LEMMA RestsNext ==
    ASSUME NEW D, NEW c, NEW e
    PROVE  RestsOf(D \cup {c}, e) = IF c.last > e THEN RestsOf(D, e) \cup {Rest(c, e)}
                                                  ELSE RestsOf(D, e)
  BY DEF RestsOf

LEMMA BytesNext ==
    ASSUME NEW D, NEW c
    PROVE  BytesOf(D \cup {c}) = BytesOf(D) \cup Bytes(c)
  BY DEF BytesOf

LEMMA AllTaken ==
    ASSUME NEW f \in Nat, NEW n \in Nat, NEW p, NEW data, NEW t \in Taken, t.wanted = 0,
           t.out = InSequence(f, n - t.wanted), t.left = RestsOf(Below(data, p), f + n),
           f..(f + n - 1) \subseteq BytesOf(Below(data, p))
    PROVE  TakeInv(t, p, f, n, data)
  BY DEF TakeInv

LEMMA TakeTurn ==
    ASSUME NEW data, StoredOnce(data), NEW f, NEW n, Available(f, n, data), NEW p \in Nat,
           NEW t, TakeInv(t, p, f, n, data), NEW c \in data, c.first = p
    PROVE  TakeInv(TakeFrom(t, c), p + 1, f, n, data)
  <1> DEFINE q == TakeFrom(t, c)
             A == Below(data, p)
             w == t.wanted
             k == n - w
             m == Min({t.wanted, Length(c)})
             e == f + n
             bytes == [j \in 1..m |-> c.first + j - 1]
             rest == [first |-> c.first + m, last |-> c.last]
  <1> SUFFICES TakeInv(q, p + 1, f, n, data)
    OBVIOUS
  <1>1. t \in Taken /\ q \in Taken
    BY TakeType DEF TakeInv
  <1>2. w \in Nat /\ f \in Nat /\ n \in Nat /\ w <= n
    BY <1>1 DEF Taken, TakeInv, Available
  <1>3. c.first \in Nat /\ c.last \in Nat /\ c.first < c.last /\ f <= c.first
    BY ChunkFacts DEF Available
  <1>4. Below(data, p + 1) = A \cup {c}
    BY BelowNext, StoredKeyed
  <1>5. BytesOf(Below(data, p + 1)) = BytesOf(A) \cup Bytes(c)
    BY <1>4, BytesNext
  <1>6. RestsOf(Below(data, p + 1), e) = IF c.last > e THEN RestsOf(A, e) \cup {Rest(c, e)}
                                                       ELSE RestsOf(A, e)
    <2> HIDE DEF A, e
    <2>1. RestsOf(A \cup {c}, e) = IF c.last > e THEN RestsOf(A, e) \cup {Rest(c, e)}
                                                ELSE RestsOf(A, e)
      BY RestsNext
    <2> QED  BY <1>4, <2>1
  <1>7. /\ m = (IF w <= c.last - c.first THEN w ELSE c.last - c.first)
        /\ m \in Nat /\ m <= w /\ m <= c.last - c.first
        /\ q = [wanted |-> w - m, out |-> t.out \o bytes,
                left |-> IF m = c.last - c.first THEN t.left ELSE t.left \cup {rest}]
    BY <1>1, TakeParts, Zenon
  <1>8. t.out = InSequence(f, k) /\ t.left = RestsOf(A, e)
    BY DEF TakeInv
  <1>9. \A b : b \in Bytes(c) <=> b \in Int /\ c.first <= b /\ b < c.last
    BY <1>3 DEF Bytes
  <1>10. \A b \in BytesOf(A) : b < c.first
    <2>1. ASSUME NEW b \in BytesOf(A) PROVE b < c.first
      <3>1. PICK d \in A : b \in Bytes(d)
        BY DEF BytesOf
      <3>2. d \in data /\ d.first < c.first
        BY DEF Below
      <3>3. d.first \in Nat /\ d.last \in Nat /\ d.first < d.last
        BY <3>2, ChunkFacts
      <3>4. d.last <= c.first
        BY <1>3, <3>2, <3>3 DEF StoredOnce
      <3> QED  BY <1>3, <3>1, <3>3, <3>4 DEF Bytes
    <2> QED  BY <2>1
  <1>11. w = 0 => f..(e - 1) \subseteq BytesOf(A)
    BY <1>2 DEF TakeInv
  <1>12. w > 0 => BytesOf(A) = f..(f + k - 1)
    BY DEF TakeInv
  <1> HIDE DEF q, A, w, m, bytes, rest
  <1>13. /\ q.wanted = w - m /\ q.out = t.out \o bytes
         /\ q.left = IF m = c.last - c.first THEN t.left ELSE t.left \cup {rest}
    BY <1>7
  <1>14. w - m \in Nat /\ w - m <= n
    BY <1>2, <1>7
  <1>15. q.wanted \in Nat /\ q.wanted <= n
    BY <1>13, <1>14
  <1>16. e \in Nat /\ k \in Nat /\ k <= n
    BY <1>2
  <1>17. m = w \/ m = c.last - c.first
    BY <1>7
  <1>18. m \in Nat /\ f \in Nat
    BY <1>2, <1>7
  <1>19. CASE w = 0
    <2>1. m = 0 /\ q.wanted = 0 /\ m # c.last - c.first
      BY <1>3, <1>7, <1>19, <1>13
    <2>2. c.first >= e
      <3>1. c.first \notin f..(e - 1)
        BY <1>3, <1>10, <1>11, <1>19
      <3> QED  BY <1>2, <1>3, <3>1
    <2>3. q.out = InSequence(f, n - q.wanted)
      <3>1. InSequence(f, k) \o [j \in 1..0 |-> (f + k) + j - 1] = InSequence(f, k + 0)
        BY <1>2, <1>16, SequenceGrows
      <3>2. [j \in 1..0 |-> (f + k) + j - 1] = bytes
        BY <2>1 DEF bytes
      <3>3. k + 0 = n - q.wanted
        BY <1>2, <1>19, <2>1
      <3> QED  BY <1>8, <1>13, <3>1, <3>2, <3>3
    <2>4. q.left = RestsOf(Below(data, p + 1), e)
      <3>1. Rest(c, e) = rest /\ c.last > e
        BY <1>2, <1>3, <2>1, <2>2 DEF Rest, rest
      <3> QED  BY <1>6, <1>8, <1>13, <2>1, <3>1
    <2>5. f..(e - 1) \subseteq BytesOf(Below(data, p + 1))
      <3>1. f..(e - 1) \subseteq BytesOf(A)
        BY <1>11, <1>19
      <3> QED  BY <1>5, <3>1, Zenon
    <2> QED  BY <1>1, <1>2, <2>1, <2>3, <2>4, <2>5, AllTaken
  <1>20. CASE w > 0
    <2>1. k < n
      BY <1>2, <1>20
    <2>2. c.first = f + k
      <3>1. f + k \in f..(f + n - 1)
        BY <1>2, <2>1
      <3>2. PICK d \in data : d.first <= f + k /\ f + k < d.last
        BY <3>1, BytesFacts DEF Available
      <3>3. d.first \in Nat /\ d.last \in Nat
        BY ChunkFacts
      <3>4. f + k \notin BytesOf(A)
        BY <1>2, <1>12, <1>20, <2>1
      <3>5. d \notin A
        <4>1. f + k \in Bytes(d)
          BY <1>2, <2>1, <3>2, <3>3 DEF Bytes
        <4> QED  BY <3>4, <4>1 DEF BytesOf
      <3>6. c.first <= d.first
        BY <1>3, <3>3, <3>5 DEF A, Below
      <3>7. c.first \notin f..(f + k - 1)
        BY <1>3, <1>10, <1>12, <1>20
      <3> QED  BY <1>2, <1>3, <2>1, <3>2, <3>3, <3>6, <3>7
    <2>3. n - q.wanted = k + m
      BY <1>2, <1>7, <1>13
    <2>4. q.out = InSequence(f, n - q.wanted)
      <3>1. InSequence(f, k) \o [j \in 1..m |-> (f + k) + j - 1] = InSequence(f, k + m)
        <4> HIDE DEF k
        <4> QED  BY <1>16, <1>18, SequenceGrows, ZenonT(60)
      <3>2. [j \in 1..m |-> (f + k) + j - 1] = bytes
        <4> HIDE DEF k
        <4> QED  BY <2>2 DEF bytes
      <3> QED  BY <1>8, <1>13, <2>3, <3>1, <3>2, Zenon
    <2>5. CASE m = c.last - c.first
      <3>1. c.last = f + k + m
        BY <1>2, <1>3, <1>16, <2>2, <2>5
      <3>2. ~(c.last > e)
        BY <1>2, <1>7, <3>1
      <3>3. q.left = RestsOf(Below(data, p + 1), e)
        BY <1>6, <1>8, <1>13, <2>5, <3>2
      <3>4. ASSUME NEW b PROVE b \in BytesOf(Below(data, p + 1)) <=> b \in f..(f + (k + m) - 1)
        <4>1. b \in BytesOf(Below(data, p + 1)) <=> b \in f..(f + k - 1) \/ b \in Bytes(c)
          BY <1>5, <1>12, <1>20
        <4> HIDE DEF k
        <4>2. b \in Bytes(c) <=> b \in Int /\ f + k <= b /\ b < f + k + m
          BY <1>9, <2>2, <3>1
        <4> QED  BY <1>16, <1>18, <4>1, <4>2
      <3>5. BytesOf(Below(data, p + 1)) = f..(f + (n - q.wanted) - 1)
        BY <2>3, <3>4
      <3>6. q.wanted = 0 => f..(f + n - 1) \subseteq BytesOf(Below(data, p + 1))
        BY <1>2, <3>5
      <3> QED  BY <1>1, <1>15, <2>4, <3>3, <3>5, <3>6 DEF TakeInv
    <2>6. CASE m # c.last - c.first
      <3>1. m = w
        BY <1>17, <2>6
      <3>2. c.first + m = e /\ q.wanted = 0
        BY <1>2, <1>13, <2>2, <3>1
      <3>3. c.last > e
        BY <1>2, <1>3, <1>7, <1>16, <2>6, <3>2
      <3>4. q.left = RestsOf(Below(data, p + 1), e)
        <4>1. Rest(c, e) = rest
          BY <1>2, <1>3, <1>20, <3>1, <3>2 DEF Rest, rest
        <4> QED  BY <1>6, <1>8, <1>13, <2>6, <3>3, <4>1
      <3>5. ASSUME NEW b \in f..(e - 1) PROVE b \in BytesOf(Below(data, p + 1))
        <4>1. b \in Int /\ f <= b /\ b < e
          BY <1>2
        <4>2. CASE b < c.first
          <5>1. b \in f..(f + k - 1)
            BY <1>2, <2>2, <4>1, <4>2
          <5> QED  BY <1>5, <1>12, <1>20, <5>1
        <4>3. CASE ~(b < c.first)
          <5>1. b \in Bytes(c)
            BY <1>3, <1>9, <1>16, <3>3, <4>1, <4>3
          <5> QED  BY <1>5, <5>1
        <4> QED  BY <4>2, <4>3
      <3>6. f..(e - 1) \subseteq BytesOf(Below(data, p + 1))
        BY <3>5
      <3> QED  BY <1>1, <1>2, <2>4, <3>2, <3>4, <3>6, AllTaken
    <2> QED  BY <2>5, <2>6
  <1> QED  BY <1>2, <1>19, <1>20
\* Exactly the bytes that are wanted are taken, in their order.
LEMMA TakeResult ==
    ASSUME NEW data, StoredOnce(data), NEW f, NEW n, Available(f, n, data), NEW t,
           t = InOrder(TakeFrom, [wanted |-> n, out |-> <<>>, left |-> {}], data)
    PROVE  t.out = InSequence(f, n) /\ t.left = RestsOf(data, f + n)
  <1> DEFINE start == [wanted |-> n, out |-> <<>>, left |-> {}]
             S == {p \in Nat : TakeInv(t, p, f, n, data)}
  <1>1. f \in Nat /\ n \in Nat
    BY DEF Available
  <1>2. start \in Taken
    BY <1>1 DEF Taken
  <1>3. start.wanted = n /\ start.out = <<>> /\ start.left = {}
    OBVIOUS
  <1>4. t = InOrder(TakeFrom, start, data)
    OBVIOUS
  <1> HIDE DEF start
  <1>5. PICK run : TakeRun(run, start, data)
    BY <1>2, TakeRuns
  <1>6. TakeInv(run[0], 0, f, n, data)
    <2>1. run[0] = start /\ Below(data, 0) = {}
      BY <1>5, StoredKeyed, BelowNext DEF TakeRun
    <2>2. RestsOf({}, f + n) = {} /\ BytesOf({}) = {}
      BY DEF RestsOf, BytesOf
    <2>3. n - n = 0 /\ f..(f + 0 - 1) = {} /\ n <= n
      BY <1>1
    <2>4. InSequence(f, 0) = <<>>
      BY DEF InSequence
    <2>5. n = 0 => f..(f + n - 1) = {}
      BY <1>1
    <2> QED  BY <1>2, <1>3, <2>1, <2>2, <2>3, <2>4, <2>5 DEF TakeInv
  <1> DEFINE R == {p \in Nat : TakeInv(run[p], p, f, n, data)}
  <1>7. ASSUME NEW p \in Nat, TakeInv(run[p], p, f, n, data)
        PROVE  TakeInv(run[p + 1], p + 1, f, n, data)
    <2>1. CASE \E c \in data : c.first = p
      <3>1. PICK c \in data : c.first = p
        BY <2>1
      <3>2. run[p + 1] = TakeFrom(run[p], c)
        BY <1>5, <3>1 DEF TakeRun
      <3> QED  BY <1>7, <3>1, <3>2, TakeTurn
    <2>2. CASE \A c \in data : c.first # p
      <3>1. run[p + 1] = run[p]
        BY <1>5, <2>2 DEF TakeRun
      <3>2. Below(data, p + 1) = Below(data, p)
        BY <2>2, BelowNext, StoredKeyed
      <3> QED  BY <1>7, <3>1, <3>2 DEF TakeInv
    <2> QED  BY <2>1, <2>2
  <1>8. StreamLen \in R
    <2>1. 0 \in R /\ \A p \in Nat : p \in R => p + 1 \in R
      BY <1>6, <1>7
    <2> HIDE DEF R
    <2> QED  BY <2>1, Induction, RxAssumption
  <1>9. TakeInv(t, StreamLen, f, n, data)
    BY <1>4, <1>5, <1>8 DEF TakeRun
  <1>10. Below(data, StreamLen) = data
    BY StoredKeyed DEF Below
  <1>11. t.wanted \in Nat /\ t.wanted <= n
    BY <1>9 DEF TakeInv, Taken
  <1>12. t.wanted = 0
    <2>1. SUFFICES ASSUME t.wanted > 0 PROVE FALSE
      BY <1>11
    <2>2. BytesOf(data) = f..(f + (n - t.wanted) - 1)
      BY <1>9, <1>10, <2>1 DEF TakeInv
    <2>3. f + n - 1 \in BytesOf(data)
      <3>1. f + n - 1 \in f..(f + n - 1)
        BY <1>1, <1>11, <2>1
      <3> QED  BY <3>1 DEF Available
    <2> QED  BY <1>1, <1>11, <2>1, <2>2, <2>3
  <1>13. n - t.wanted = n
    BY <1>1, <1>12
  <1> QED  BY <1>9, <1>10, <1>13 DEF TakeInv

\* What stays in the buffer.
LEMMA RestsFacts ==
    ASSUME NEW data, StoredOnce(data), NEW f, NEW n, Available(f, n, data),
           NEW left, left = RestsOf(data, f + n)
    PROVE  /\ StoredOnce(left)
           /\ BytesOf(left) = BytesOf(data) \ f..(f + n - 1)
           /\ Cardinality(BytesOf(left)) = Cardinality(BytesOf(data)) - n
           /\ \A c \in left : f + n <= c.first
           /\ \A c \in left : c \in data \/ c.first = f + n
  <1> DEFINE e == f + n
  <1>1. f \in Nat /\ n \in Nat /\ e \in Nat
    BY DEF Available
  <1>2. ASSUME NEW x \in left
        PROVE  \E c \in data : /\ x = Rest(c, e) /\ c.last > e /\ x.last = c.last
                               /\ x.first = IF c.first < e THEN e ELSE c.first
    <2>1. PICK c \in data : x = Rest(c, e) /\ c.last > e
      BY DEF RestsOf
    <2> QED  BY <2>1 DEF Rest
  <1>3. ASSUME NEW c \in data, c.last > e
        PROVE  Rest(c, e) \in left /\ Rest(c, e).last = c.last
               /\ Rest(c, e).first = IF c.first < e THEN e ELSE c.first
    BY <1>3 DEF RestsOf, Rest
  <1> HIDE DEF e
  <1>4. ASSUME NEW x \in left
        PROVE  /\ x \in Chunk /\ x.first < x.last /\ x.last <= StreamLen /\ e <= x.first
               /\ x \in data \/ x.first = e
    <2>1. PICK c \in data : /\ x = Rest(c, e) /\ c.last > e /\ x.last = c.last
                            /\ x.first = IF c.first < e THEN e ELSE c.first
      BY <1>2
    <2>2. c \in Chunk /\ c.first \in Nat /\ c.last \in Nat /\ c.first < c.last /\ c.last <= StreamLen
      BY ChunkFacts
    <2>3. x.first \in Nat /\ x.first < x.last /\ x.last <= StreamLen /\ e <= x.first
      BY <1>1, <2>1, <2>2
    <2>4. x \in Chunk
      <3>1. x.first \in Position /\ x.last \in Position
        BY <2>1, <2>2, <2>3, RxAssumption DEF Position
      <3>2. x = [first |-> x.first, last |-> x.last]
        BY <2>1 DEF Rest
      <3> QED  BY <3>1, <3>2 DEF Chunk
    <2>5. c.first < e \/ x = c
      BY <2>1, <2>2 DEF Rest, Chunk
    <2> QED  BY <2>1, <2>3, <2>4, <2>5
  <1>5. ASSUME NEW x \in left, NEW y \in left
        PROVE  x = y \/ x.last <= y.first \/ y.last <= x.first
    <2>1. PICK c \in data : /\ x = Rest(c, e) /\ c.last > e /\ x.last = c.last
                            /\ x.first = IF c.first < e THEN e ELSE c.first
      BY <1>2
    <2>2. PICK d \in data : /\ y = Rest(d, e) /\ d.last > e /\ y.last = d.last
                            /\ y.first = IF d.first < e THEN e ELSE d.first
      BY <1>2
    <2>3. c = d \/ c.last <= d.first \/ d.last <= c.first
      BY DEF StoredOnce
    <2>4. c.first \in Nat /\ c.last \in Nat /\ d.first \in Nat /\ d.last \in Nat
      BY ChunkFacts
    <2>5. CASE c = d
      BY <2>1, <2>2, <2>5
    <2>6. CASE c.last <= d.first \/ d.last <= c.first
      BY <1>1, <2>1, <2>2, <2>4, <2>6
    <2> QED  BY <2>3, <2>5, <2>6
  <1>6. StoredOnce(left)
    BY <1>4, <1>5 DEF StoredOnce
  <1>7. ASSUME NEW b PROVE b \in BytesOf(left) <=> b \in BytesOf(data) /\ b \notin f..(e - 1)
    <2>1. b \in BytesOf(left) <=> b \in Int /\ \E x \in left : x.first <= b /\ b < x.last
      BY <1>6, BytesFacts
    <2>2. b \in BytesOf(data) <=> b \in Int /\ \E c \in data : c.first <= b /\ b < c.last
      BY BytesFacts
    <2>3. ASSUME b \in BytesOf(left) PROVE b \in BytesOf(data) /\ b \notin f..(e - 1)
      <3>1. PICK x \in left : x.first <= b /\ b < x.last
        BY <2>1, <2>3
      <3>2. PICK c \in data : /\ x = Rest(c, e) /\ c.last > e /\ x.last = c.last
                              /\ x.first = IF c.first < e THEN e ELSE c.first
        BY <1>2
      <3>3. c.first \in Nat /\ c.last \in Nat /\ b \in Int
        BY <2>1, <2>3, ChunkFacts
      <3>4. e <= b /\ c.first <= b /\ b < c.last
        BY <1>1, <3>1, <3>2, <3>3
      <3> QED  BY <1>1, <2>2, <3>3, <3>4
    <2>4. ASSUME b \in BytesOf(data), b \notin f..(e - 1) PROVE b \in BytesOf(left)
      <3>1. PICK c \in data : c.first <= b /\ b < c.last
        BY <2>2, <2>4
      <3>2. c.first \in Nat /\ c.last \in Nat /\ b \in Int /\ f <= c.first
        BY <2>2, <2>4, ChunkFacts DEF Available
      <3>3. e <= b /\ c.last > e
        BY <1>1, <2>4, <3>1, <3>2
      <3>4. Rest(c, e) \in left /\ Rest(c, e).last = c.last
            /\ Rest(c, e).first = IF c.first < e THEN e ELSE c.first
        BY <1>3, <3>3
      <3>5. Rest(c, e).first <= b /\ b < Rest(c, e).last
        BY <3>1, <3>3, <3>4
      <3> QED  BY <2>1, <3>2, <3>4, <3>5
    <2> QED  BY <2>3, <2>4
  <1>8. BytesOf(left) = BytesOf(data) \ f..(e - 1)
    BY <1>7
  <1>9. Cardinality(BytesOf(left)) = Cardinality(BytesOf(data)) - n
    <2> DEFINE B == BytesOf(data)
               I == f..(e - 1)
    <2>1. IsFiniteSet(B) /\ B \cap I = I
      BY BytesFacts DEF Available, e
    <2>2. Cardinality(I) = IF f >= e THEN 0 ELSE e - f
      BY <1>1, IntervalCount
    <2>3. (IF f >= e THEN 0 ELSE e - f) = n
      BY <1>1 DEF e
    <2> HIDE DEF B, I
    <2>4. Cardinality(B \ I) = Cardinality(B) - Cardinality(B \cap I)
      BY <2>1, FS_Difference
    <2>5. Cardinality(B \ I) = Cardinality(B) - n
      BY <2>1, <2>2, <2>3, <2>4
    <2> QED  BY <1>8, <2>5 DEF B, I
  <1>10. \A c \in left : f + n <= c.first
    BY <1>4 DEF e
  <1>11. \A c \in left : c \in data \/ c.first = f + n
    BY <1>4 DEF e
  <1>12. BytesOf(left) = BytesOf(data) \ f..(f + n - 1)
    <2>1. e - 1 = f + n - 1
      BY <1>1 DEF e
    <2> QED  BY <1>8, <2>1
  <1> QED  BY <1>6, <1>9, <1>10, <1>11, <1>12, Zenon
----------------------------------------------------------------------------
(***************************************************************************)
(* The buffer when its first n bytes have been read.                       *)
(***************************************************************************)

\* The first byte that has not arrived; m_nextRxSeq also counts the FIN.
Missing(r) == IF r.nextRxSeq <= StreamLen THEN r.nextRxSeq ELSE StreamLen

Counted(r, n) ==
    /\ r.size = Cardinality(BytesOf(r.data))
    /\ n <= Missing(r) /\ r.availBytes = Missing(r) - n
    /\ n..(Missing(r) - 1) \subseteq BytesOf(r.data)
    /\ Missing(r) \notin BytesOf(r.data)
    /\ \A c \in r.data : n <= c.first

\* Wherever the FIN was recorded, everything from there on has arrived.
FinRecorded(r, n) ==
    /\ r.nextRxSeq > StreamLen => r.gotFin
    /\ r.gotFin => /\ r.finSeq <= StreamLen
                   /\ \A b \in r.finSeq..(StreamLen - 1) : b < n \/ b \in BytesOf(r.data)

Sacked(r) ==
    /\ Len(r.sackList) <= SackBlocks
    /\ Blocks(r.sackList, r.nextRxSeq, BytesOf(r.data))
    /\ ~r.dropped => \A b \in BytesOf(r.data) : b > r.nextRxSeq =>
                         \E i \in 1..Len(r.sackList) : b \in Bytes(r.sackList[i])

\* Before the FIN is counted.
Filled(r, n) ==
    /\ r \in RxMembers /\ n \in Nat /\ StoredOnce(r.data)
    /\ Counted(r, n) /\ FinRecorded(r, n) /\ Sacked(r)

Buffer(r, n) == Filled(r, n) /\ (r.gotFin => r.nextRxSeq # r.finSeq)

LEMMA MemberTypes ==
    ASSUME NEW r \in RxMembers
    PROVE  /\ r.nextRxSeq \in Nat /\ r.nextRxSeq <= StreamLen + 1
           /\ r.finSeq \in Nat /\ r.gotFin \in BOOLEAN /\ r.dropped \in BOOLEAN
           /\ r.size \in Nat /\ r.availBytes \in Nat /\ r.maxBuffer \in Nat
           /\ r.sackList \in Seq(Chunk) /\ Len(r.sackList) \in Nat
           /\ Missing(r) \in Nat /\ Missing(r) <= StreamLen /\ Missing(r) <= r.nextRxSeq
           /\ r.nextRxSeq <= StreamLen => Missing(r) = r.nextRxSeq
           /\ r.nextRxSeq > StreamLen => Missing(r) = StreamLen /\ r.nextRxSeq = StreamLen + 1
  <1>1. /\ r.nextRxSeq \in Nat /\ r.nextRxSeq <= StreamLen + 1 /\ r.finSeq \in Nat
        /\ r.gotFin \in BOOLEAN /\ r.dropped \in BOOLEAN
        /\ r.size \in Nat /\ r.availBytes \in Nat /\ r.maxBuffer \in Nat
        /\ r.sackList \in Seq(Chunk)
    BY RxAssumption DEF RxMembers, Position
  <1>2. Len(r.sackList) \in Nat
    BY <1>1
  <1>3. /\ Missing(r) \in Nat /\ Missing(r) <= StreamLen /\ Missing(r) <= r.nextRxSeq
        /\ r.nextRxSeq <= StreamLen => Missing(r) = r.nextRxSeq
        /\ r.nextRxSeq > StreamLen => Missing(r) = StreamLen /\ r.nextRxSeq = StreamLen + 1
    BY <1>1, RxAssumption DEF Missing
  <1> QED  BY <1>1, <1>2, <1>3

\* RCV.NXT is between chunks.
LEMMA NextBetween ==
    ASSUME NEW r, NEW n, Filled(r, n)
    PROVE  /\ \A c \in r.data : c.last <= r.nextRxSeq \/ r.nextRxSeq <= c.first
           /\ r.nextRxSeq \notin BytesOf(r.data)
  <1>1. r \in RxMembers /\ StoredOnce(r.data) /\ Missing(r) \notin BytesOf(r.data)
    BY DEF Filled, Counted
  <1>2. r.nextRxSeq \notin BytesOf(r.data)
    BY <1>1, MemberTypes, BytesFacts, RxAssumption
  <1>3. ASSUME NEW c \in r.data PROVE c.last <= r.nextRxSeq \/ r.nextRxSeq <= c.first
    <2>1. c.first \in Nat /\ c.last \in Nat
      BY <1>1, ChunkFacts
    <2>2. r.nextRxSeq \in Nat
      BY <1>1, MemberTypes
    <2>3. ~(c.first <= r.nextRxSeq /\ r.nextRxSeq < c.last)
      BY <1>1, <1>2, <2>2, BytesFacts
    <2> QED  BY <2>1, <2>2, <2>3
  <1> QED  BY <1>2, <1>3

LEMMA FirstKeyFacts ==
    ASSUME NEW data, StoredOnce(data), data # {}
    PROVE  /\ FirstKey(data) \in Nat
           /\ \E c \in data : c.first = FirstKey(data)
           /\ \A c \in data : FirstKey(data) <= c.first
  <1> DEFINE K == {c.first : c \in data}
  <1>1. K \subseteq Nat /\ K # {}
    BY ChunkFacts
  <1>2. Min(K) \in K /\ \A x \in K : Min(K) <= x
    BY <1>1, MinFacts
  <1>3. FirstKey(data) = Min(K)
    BY DEF FirstKey
  <1> QED  BY <1>1, <1>2, <1>3

\* The window is measured from the first byte that has not been read.
LEMMA WindowEdge ==
    ASSUME NEW r, NEW n, Filled(r, n), ~r.gotFin
    PROVE  MaxRxSequence(r) = n + r.maxBuffer
  <1>1. r \in RxMembers /\ StoredOnce(r.data) /\ n \in Nat /\ r.nextRxSeq <= StreamLen
    <2>1. r \in RxMembers /\ StoredOnce(r.data) /\ n \in Nat /\ ~(r.nextRxSeq > StreamLen)
      BY DEF Filled, FinRecorded
    <2> QED  BY <2>1, MemberTypes, RxAssumption
  <1>2. r.nextRxSeq \in Nat /\ Missing(r) = r.nextRxSeq
    BY <1>1, MemberTypes
  <1>3. /\ n <= r.nextRxSeq /\ n..(r.nextRxSeq - 1) \subseteq BytesOf(r.data)
        /\ \A c \in r.data : n <= c.first
    BY <1>2 DEF Filled, Counted
  <1>4. CASE r.data = {}
    <2>1. BytesOf(r.data) = {}
      BY <1>4 DEF BytesOf
    <2>2. n = r.nextRxSeq
      BY <1>1, <1>2, <1>3, <2>1
    <2> QED  BY <1>4, <2>2 DEF MaxRxSequence
  <1>5. CASE r.data # {}
    <2> DEFINE k == FirstKey(r.data)
    <2>1. k \in Nat /\ (\E c \in r.data : c.first = k) /\ \A c \in r.data : k <= c.first
      BY <1>1, <1>5, FirstKeyFacts
    <2> HIDE DEF k
    <2>2. n <= k
      BY <1>3, <2>1
    <2>3. n < r.nextRxSeq => k = n
      <3>1. SUFFICES ASSUME n < r.nextRxSeq PROVE k = n
        OBVIOUS
      <3>2. n \in BytesOf(r.data)
        BY <1>1, <1>2, <1>3, <3>1
      <3>3. PICK c \in r.data : c.first <= n /\ n < c.last
        BY <1>1, <3>2, BytesFacts
      <3>4. c.first \in Nat
        BY <1>1, ChunkFacts
      <3> QED  BY <1>1, <2>1, <2>2, <3>3, <3>4
    <2>4. MaxRxSequence(r) = IF r.nextRxSeq > k THEN k + r.maxBuffer ELSE r.nextRxSeq + r.maxBuffer
      BY <1>5 DEF MaxRxSequence, k
    <2>5. r.nextRxSeq > k => k = n
      BY <1>1, <1>2, <2>1, <2>2, <2>3
    <2>6. ~(r.nextRxSeq > k) => r.nextRxSeq = n
      BY <1>1, <1>2, <1>3, <2>1, <2>2, <2>3
    <2> QED  BY <2>4, <2>5, <2>6
  <1> QED  BY <1>4, <1>5

\* The end is reached when every byte has arrived and the FIN has.
LEMMA EndReached ==
    ASSUME NEW r, NEW n, Buffer(r, n)
    PROVE  Finished(r) <=> r.gotFin /\ Missing(r) = StreamLen
  <1>1. CASE r.gotFin
    <2>1. r \in RxMembers /\ n \in Nat
      BY DEF Buffer, Filled
    <2>2. /\ r.nextRxSeq \in Nat /\ r.finSeq \in Nat /\ Missing(r) \in Nat /\ Missing(r) <= StreamLen
          /\ Missing(r) <= r.nextRxSeq
          /\ r.nextRxSeq <= StreamLen => Missing(r) = r.nextRxSeq
          /\ r.nextRxSeq > StreamLen => Missing(r) = StreamLen
      BY <2>1, MemberTypes
    <2>3. /\ r.finSeq <= StreamLen /\ r.nextRxSeq # r.finSeq
          /\ \A b \in r.finSeq..(StreamLen - 1) : b < n \/ b \in BytesOf(r.data)
      BY <1>1 DEF Buffer, Filled, FinRecorded
    <2>4. n <= Missing(r) /\ Missing(r) \notin BytesOf(r.data)
      BY DEF Buffer, Filled, Counted
    <2>5. Missing(r) \notin r.finSeq..(StreamLen - 1)
      BY <2>1, <2>2, <2>3, <2>4
    <2>6. r.finSeq < r.nextRxSeq => Missing(r) = StreamLen
      BY <2>2, <2>3, <2>5, RxAssumption
    <2>7. Missing(r) = StreamLen => r.finSeq < r.nextRxSeq
      BY <2>2, <2>3, RxAssumption
    <2> QED  BY <1>1, <2>6, <2>7 DEF Finished
  <1>2. CASE ~r.gotFin
    BY <1>2 DEF Finished
  <1> QED  BY <1>1, <1>2
\* Counting the FIN when RCV.NXT has come to it.
CountFin(r) == [r EXCEPT !.nextRxSeq = IF r.gotFin /\ @ = r.finSeq THEN @ + 1 ELSE @]

LEMMA FinCounted ==
    ASSUME NEW r, NEW n, Filled(r, n)
    PROVE  Buffer(CountFin(r), n) /\ Missing(CountFin(r)) = Missing(r)
  <1> DEFINE q == CountFin(r)
  <1>1. r \in RxMembers /\ n \in Nat /\ StoredOnce(r.data)
    BY DEF Filled
  <1>2. /\ r.nextRxSeq \in Nat /\ r.nextRxSeq <= StreamLen + 1 /\ r.finSeq \in Nat
        /\ Missing(r) \in Nat
        /\ r.nextRxSeq <= StreamLen => Missing(r) = r.nextRxSeq
        /\ r.sackList \in Seq(Chunk) /\ Len(r.sackList) \in Nat
    BY <1>1, MemberTypes
  <1>3. CASE ~(r.gotFin /\ r.nextRxSeq = r.finSeq)
    <2>1. q = r
      BY <1>1, <1>3 DEF CountFin, RxMembers
    <2> QED  BY <1>3, <2>1 DEF Buffer
  <1>4. CASE r.gotFin /\ r.nextRxSeq = r.finSeq
    <2>1. /\ r.finSeq <= StreamLen
          /\ \A b \in r.finSeq..(StreamLen - 1) : b < n \/ b \in BytesOf(r.data)
      BY <1>4 DEF Filled, FinRecorded
    <2>2. Missing(r) = r.finSeq /\ n <= Missing(r) /\ Missing(r) \notin BytesOf(r.data)
      BY <1>2, <1>4, <2>1 DEF Filled, Counted
    <2>3. r.finSeq \notin r.finSeq..(StreamLen - 1)
      BY <1>1, <1>2, <2>1, <2>2
    <2>4. r.finSeq = StreamLen /\ Missing(r) = StreamLen
      BY <1>2, <2>1, <2>2, <2>3, RxAssumption
    <2>5. q = [r EXCEPT !.nextRxSeq = StreamLen + 1]
      BY <1>4, <2>4 DEF CountFin
    <2>6. StreamLen + 1 \in Position
      BY RxAssumption DEF Position
    <2>7. /\ q \in RxMembers /\ q.nextRxSeq = StreamLen + 1
          /\ q.data = r.data /\ q.size = r.size /\ q.availBytes = r.availBytes
          /\ q.gotFin = r.gotFin /\ q.finSeq = r.finSeq
          /\ q.sackList = r.sackList /\ q.dropped = r.dropped
      BY <1>1, <2>5, <2>6 DEF RxMembers
    <2> HIDE DEF q
    <2>8. Missing(q) = Missing(r)
      BY <2>4, <2>7, RxAssumption DEF Missing
    <2>9. Counted(q, n)
      <3>1. Counted(r, n)
        BY DEF Filled
      <3> QED  BY <2>7, <2>8, <3>1 DEF Counted
    <2>10. FinRecorded(q, n)
      BY <1>4, <2>1, <2>7 DEF FinRecorded
    <2>11. BytesOf(r.data) \subseteq 0..(StreamLen - 1)
      BY <1>1, BytesFacts
    <2>12. Len(r.sackList) = 0
      <3>1. SUFFICES ASSUME Len(r.sackList) # 0 PROVE FALSE
        OBVIOUS
      <3> DEFINE b == r.sackList[1]
      <3>2. 1 \in 1..Len(r.sackList) /\ b \in Chunk
        BY <1>2, <3>1
      <3>3. b.first \in Nat /\ b.last \in Nat
        BY <3>2, RxAssumption DEF Chunk, Position
      <3>4. r.nextRxSeq < b.first /\ b.first < b.last /\ Bytes(b) \subseteq BytesOf(r.data)
        BY <3>2 DEF Filled, Sacked, Blocks
      <3> HIDE DEF b
      <3>5. b.first \in Bytes(b)
        BY <3>3, <3>4 DEF Bytes
      <3> QED  BY <1>4, <2>4, <2>11, <3>3, <3>4, <3>5, RxAssumption
    <2>13. Sacked(q)
      <3>1. Len(q.sackList) <= SackBlocks /\ q.sackList \in Seq(Chunk) /\ Len(q.sackList) = 0
        BY <1>2, <2>7, <2>12 DEF Filled, Sacked
      <3>2. \A b \in BytesOf(q.data) : ~(b > q.nextRxSeq)
        BY <2>7, <2>11, RxAssumption
      <3> QED  BY <3>1, <3>2 DEF Sacked, Blocks
    <2>14. q.nextRxSeq # q.finSeq
      BY <2>4, <2>7, RxAssumption
    <2>15. Buffer(q, n)
      BY <1>1, <2>7, <2>9, <2>10, <2>13, <2>14 DEF Buffer, Filled
    <2> QED  BY <2>8, <2>15 DEF q
  <1> QED  BY <1>3, <1>4

\* A FIN is recorded where everything from there on has arrived.
LEMMA FinSet ==
    ASSUME NEW r, NEW n, Filled(r, n), NEW s \in Nat, s <= StreamLen,
           \A b \in s..(StreamLen - 1) : b < n \/ b \in BytesOf(r.data),
           NEW q, q = SetFinSequence(r, s)
    PROVE  /\ Buffer(q, n) /\ Missing(q) = Missing(r)
           /\ q.gotFin /\ q.finSeq = s /\ q.data = r.data /\ q.size = r.size
           /\ q.availBytes = r.availBytes /\ q.maxBuffer = r.maxBuffer /\ q.sackList = r.sackList
           /\ r.nextRxSeq # s => q.nextRxSeq = r.nextRxSeq
           /\ r.nextRxSeq <= q.nextRxSeq
  <1> DEFINE p == [r EXCEPT !.gotFin = TRUE, !.finSeq = s]
  <1>1. r \in RxMembers /\ s \in Position
    BY RxAssumption DEF Filled, Position
  <1>2. /\ p \in RxMembers /\ p.gotFin /\ p.finSeq = s /\ p.nextRxSeq = r.nextRxSeq
        /\ p.data = r.data /\ p.size = r.size /\ p.availBytes = r.availBytes
        /\ p.maxBuffer = r.maxBuffer /\ p.sackList = r.sackList /\ p.dropped = r.dropped
    BY <1>1 DEF RxMembers
  <1>3. SetFinSequence(r, s) = CountFin(p)
    BY <1>1 DEF SetFinSequence, CountFin, RxMembers
  <1> HIDE DEF p
  <1>4. Missing(p) = Missing(r)
    BY <1>2 DEF Missing
  <1>5. Counted(p, n)
    <2>1. Counted(r, n)
      BY DEF Filled
    <2> QED  BY <1>2, <1>4, <2>1 DEF Counted
  <1>6. Sacked(p)
    <2>1. Sacked(r)
      BY DEF Filled
    <2> QED  BY <1>2, <2>1 DEF Sacked
  <1>7. FinRecorded(p, n)
    BY <1>2 DEF FinRecorded
  <1>8. Filled(p, n)
    BY <1>2, <1>5, <1>6, <1>7 DEF Filled
  <1>9. Buffer(q, n) /\ Missing(q) = Missing(r)
    BY <1>3, <1>4, <1>8, FinCounted
  <1>10. /\ q.gotFin /\ q.finSeq = s /\ q.data = r.data /\ q.size = r.size
         /\ q.availBytes = r.availBytes /\ q.maxBuffer = r.maxBuffer /\ q.sackList = r.sackList
         /\ r.nextRxSeq # s => q.nextRxSeq = r.nextRxSeq
         /\ q.nextRxSeq = r.nextRxSeq \/ q.nextRxSeq = r.nextRxSeq + 1
    BY <1>2, <1>3 DEF CountFin, RxMembers
  <1>11. r.nextRxSeq <= q.nextRxSeq
    BY <1>1, <1>10, MemberTypes
  <1> QED  BY <1>9, <1>10, <1>11

\* The SACK list tells of a gap: more is held than is in sequence.
LEMMA GapCounted ==
    ASSUME NEW r, NEW n, Filled(r, n), r.sackList # <<>>
    PROVE  r.size > r.availBytes
  <1>1. r \in RxMembers /\ n \in Nat /\ StoredOnce(r.data)
    BY DEF Filled
  <1>2. /\ r.nextRxSeq \in Nat /\ Missing(r) \in Nat /\ Missing(r) <= r.nextRxSeq
        /\ r.sackList \in Seq(Chunk) /\ Len(r.sackList) \in Nat
    BY <1>1, MemberTypes
  <1> DEFINE b == r.sackList[1]
             B == BytesOf(r.data)
             I == n..(Missing(r) - 1)
  <1>3. 1 \in 1..Len(r.sackList) /\ b \in Chunk
    BY <1>2
  <1>4. b.first \in Nat /\ b.last \in Nat
    BY <1>3, RxAssumption DEF Chunk, Position
  <1>5. r.nextRxSeq < b.first /\ b.first < b.last /\ Bytes(b) \subseteq B
    BY <1>3 DEF Filled, Sacked, Blocks
  <1>6. b.first \in B /\ b.first \notin I
    <2> HIDE DEF b, B
    <2>1. b.first \in Bytes(b)
      BY <1>4, <1>5 DEF Bytes
    <2>2. b.first > Missing(r)
      BY <1>2, <1>4, <1>5
    <2> QED  BY <1>1, <1>2, <1>4, <1>5, <2>1, <2>2
  <1>7. /\ I \subseteq B /\ r.size = Cardinality(B) /\ n <= Missing(r)
        /\ r.availBytes = Missing(r) - n
    BY DEF Filled, Counted
  <1>8. Cardinality(I) = Missing(r) - n
    <2> DEFINE k == Missing(r)
    <2>1. n \in Int /\ k \in Int /\ I = n..(k - 1) /\ n <= k
      BY <1>1, <1>2, <1>7
    <2> HIDE DEF k, I
    <2>2. Cardinality(n..(k - 1)) = IF n >= k THEN 0 ELSE k - n
      BY <2>1, IntervalCount
    <2>3. (IF n >= k THEN 0 ELSE k - n) = k - n
      BY <2>1
    <2> QED  BY <2>1, <2>2, <2>3 DEF k
  <1>9. IsFiniteSet(B)
    BY <1>1, BytesFacts
  <1>10. I # B
    BY <1>6
  <1> HIDE DEF I, B
  <1>11. Cardinality(I) < Cardinality(B)
    <2>1. Cardinality(I) \in Nat /\ Cardinality(B) \in Nat /\ Cardinality(I) <= Cardinality(B)
          /\ (Cardinality(I) = Cardinality(B) => I = B)
      BY <1>7, <1>9, FS_Subset, FS_CardinalityType
    <2> QED  BY <1>10, <2>1
  <1> QED  BY <1>7, <1>8, <1>11

\* The members that reading leaves alone.
ReadFrom(q, r) ==
    q = [r EXCEPT !.data = q.data, !.size = q.size, !.availBytes = q.availBytes]

\* The result of Extract for r: m bytes.
TakenOut(x, r, n, m) ==
    /\ m <= r.availBytes /\ x.out = InSequence(n, m)
    /\ Buffer(x.rx, n + m) /\ ReadFrom(x.rx, r) /\ Missing(x.rx) = Missing(r)
    /\ BytesOf(x.rx.data) = BytesOf(r.data) \ n..(n + m - 1)
    /\ \A c \in x.rx.data : c \in r.data \/ c.first = n + m
    /\ m > 0 => x.rx.size < r.size
    /\ m = 0 => x.rx = r

\* Extract hands over the next bytes of the stream, and only those.
LEMMA ExtractFacts ==
    ASSUME NEW r, NEW n, Buffer(r, n), NEW maxSize \in Nat, NEW x, x = Extract(r, maxSize)
    PROVE  \E m \in Nat : TakenOut(x, r, n, m)
  <1> DEFINE m == Min({maxSize, r.availBytes})
  <1>1. r \in RxMembers /\ n \in Nat /\ StoredOnce(r.data)
    BY DEF Buffer, Filled
  <1>2. /\ r.nextRxSeq \in Nat /\ r.availBytes \in Nat /\ r.size \in Nat
        /\ Missing(r) \in Nat /\ Missing(r) <= StreamLen /\ Missing(r) <= r.nextRxSeq
        /\ r.sackList \in Seq(Chunk)
    BY <1>1, MemberTypes
  <1>3. m = IF maxSize <= r.availBytes THEN maxSize ELSE r.availBytes
    <2> DEFINE a == r.availBytes
    <2>1. a \in Int /\ maxSize \in Int
      BY <1>2
    <2> HIDE DEF a
    <2>2. Min({maxSize, a}) = IF maxSize <= a THEN maxSize ELSE a
      BY <2>1, PairFacts
    <2> QED  BY <2>2 DEF a
  <1>4. m \in Nat /\ m <= r.availBytes
    BY <1>2, <1>3, LesserFacts
  <1>5. Counted(r, n) /\ FinRecorded(r, n) /\ Sacked(r) /\ (r.gotFin => r.nextRxSeq # r.finSeq)
    BY DEF Buffer, Filled
  <1>6. CASE m = 0
    <2>1. x.out = <<>> /\ x.rx = r
      BY <1>6 DEF Extract
    <2> HIDE DEF m
    <2>2. InSequence(n, 0) = <<>>
      BY DEF InSequence
    <2>3. n + 0 = n /\ n..(n + 0 - 1) = {} /\ 0 <= r.availBytes
      BY <1>1, <1>2
    <2>4. ReadFrom(r, r)
      BY <1>1 DEF ReadFrom, RxMembers
    <2>5. BytesOf(r.data) = BytesOf(r.data) \ n..(n + 0 - 1)
      BY <2>3
    <2>6. TakenOut(x, r, n, 0)
      BY <2>1, <2>2, <2>3, <2>4, <2>5 DEF TakenOut
    <2> QED  BY <2>6
  <1>7. CASE m # 0
    <2> DEFINE took == InOrder(TakeFrom, [wanted |-> m, out |-> <<>>, left |-> {}], r.data)
               q == x.rx
    <2>1. /\ x.out = took.out
          /\ q = [r EXCEPT !.data = took.left, !.size = @ - m, !.availBytes = @ - m]
      BY <1>7 DEF Extract
    <2> HIDE DEF m, q
    <2>2. n + m <= Missing(r)
      BY <1>1, <1>2, <1>4, <1>5 DEF Counted
    <2>3. Available(n, m, r.data)
      <3>1. n..(n + m - 1) \subseteq n..(Missing(r) - 1)
        BY <1>1, <1>2, <1>4, <2>2
      <3> QED  BY <1>1, <1>4, <1>5, <3>1 DEF Available, Counted
    <2>4. took.out = InSequence(n, m) /\ took.left = RestsOf(r.data, n + m)
      BY <1>1, <2>3, TakeResult
    <2> DEFINE left == took.left
    <2> HIDE DEF took
    <2>5. /\ StoredOnce(left)
          /\ BytesOf(left) = BytesOf(r.data) \ n..(n + m - 1)
          /\ Cardinality(BytesOf(left)) = Cardinality(BytesOf(r.data)) - m
          /\ \A c \in left : n + m <= c.first
          /\ \A c \in left : c \in r.data \/ c.first = n + m
      BY <1>1, <2>3, <2>4, RestsFacts
    <2>6. r.size = Cardinality(BytesOf(r.data)) /\ r.availBytes = Missing(r) - n
      BY <1>5 DEF Counted
    <2>7. r.size - m = Cardinality(BytesOf(left)) /\ r.size - m \in Nat
      <3>1. r.size - m = Cardinality(BytesOf(left))
        BY <2>5, <2>6
      <3>2. Cardinality(BytesOf(left)) \in Nat
        BY <2>5, BytesFacts, FS_CardinalityType
      <3> QED  BY <3>1, <3>2
    <2>8. r.availBytes - m \in Nat /\ r.availBytes - m = Missing(r) - (n + m) /\ n + m \in Nat
      BY <1>1, <1>2, <1>4, <2>6
    <2>9. left \in SUBSET Chunk
      BY <2>5 DEF StoredOnce
    <2> HIDE DEF left
    <2>10. q = [r EXCEPT !.data = left, !.size = @ - m, !.availBytes = @ - m]
      BY <2>1 DEF left
    <2>11. /\ q \in RxMembers /\ q.data = left /\ q.size = r.size - m
           /\ q.availBytes = r.availBytes - m
           /\ q.nextRxSeq = r.nextRxSeq /\ q.gotFin = r.gotFin /\ q.finSeq = r.finSeq
           /\ q.sackList = r.sackList /\ q.dropped = r.dropped
      BY <1>1, <2>7, <2>8, <2>9, <2>10 DEF RxMembers
    <2>12. ReadFrom(q, r)
      BY <1>1, <2>10, <2>11 DEF ReadFrom, RxMembers
    <2>13. Missing(q) = Missing(r)
      BY <2>11 DEF Missing
    <2>14. \A b \in BytesOf(r.data) : b >= n + m => b \in BytesOf(left)
      BY <1>1, <1>4, <2>5
    <2>15. Counted(q, n + m)
      <3>1. (n + m)..(Missing(r) - 1) \subseteq BytesOf(left)
        <4>1. ASSUME NEW b \in (n + m)..(Missing(r) - 1) PROVE b \in BytesOf(left)
          <5>1. b \in n..(Missing(r) - 1) /\ b >= n + m
            BY <1>1, <1>2, <1>4
          <5> QED  BY <1>5, <2>14, <5>1 DEF Counted
        <4> QED  BY <4>1
      <3>2. Missing(r) \notin BytesOf(left)
        BY <1>5, <2>5 DEF Counted
      <3> QED  BY <2>2, <2>5, <2>7, <2>8, <2>11, <2>13, <3>1, <3>2 DEF Counted
    <2>16. FinRecorded(q, n + m)
      <3>1. SUFFICES ASSUME q.gotFin, NEW b \in q.finSeq..(StreamLen - 1)
                     PROVE  b < n + m \/ b \in BytesOf(left)
        BY <1>5, <2>11 DEF FinRecorded
      <3>2. b < n \/ b \in BytesOf(r.data)
        BY <1>5, <2>11, <3>1 DEF FinRecorded
      <3>3. b \in Int
        BY <1>1, <2>11, MemberTypes, RxAssumption
      <3> QED  BY <1>1, <1>4, <2>14, <3>2, <3>3
    <2>17. Sacked(q)
      <3>1. \A b \in BytesOf(r.data) : b > r.nextRxSeq => b \in BytesOf(left)
        <4>1. BytesOf(r.data) \subseteq Int
          BY <1>1, BytesFacts
        <4> QED  BY <1>1, <1>2, <1>4, <2>2, <2>14, <4>1
      <3>2. Blocks(r.sackList, r.nextRxSeq, BytesOf(left))
        <4>1. ASSUME NEW i \in 1..Len(r.sackList), NEW b \in Bytes(r.sackList[i])
              PROVE  b \in BytesOf(left)
          <5>1. /\ r.nextRxSeq < r.sackList[i].first
                /\ Bytes(r.sackList[i]) \subseteq BytesOf(r.data)
            BY <1>5 DEF Sacked, Blocks
          <5>2. r.sackList[i] \in Chunk
            BY <1>2
          <5>3. r.sackList[i].first \in Nat /\ r.sackList[i].last \in Nat
            BY <5>2, RxAssumption DEF Chunk, Position
          <5>4. b > r.nextRxSeq
            BY <1>2, <5>1, <5>3 DEF Bytes
          <5> QED  BY <3>1, <5>1, <5>4
        <4>2. Blocks(r.sackList, r.nextRxSeq, BytesOf(r.data))
          BY <1>5 DEF Sacked
        <4> QED  BY <4>1, <4>2 DEF Blocks
      <3>3. BytesOf(left) \subseteq BytesOf(r.data)
        BY <2>5
      <3> QED  BY <1>5, <2>11, <3>2, <3>3 DEF Sacked
    <2>18. Buffer(q, n + m)
      BY <1>5, <2>5, <2>8, <2>11, <2>15, <2>16, <2>17 DEF Buffer, Filled
    <2>19. q.size < r.size
      BY <1>2, <1>4, <1>7, <2>11
    <2>20. BytesOf(q.data) = BytesOf(r.data) \ n..(n + m - 1)
      BY <2>5, <2>11
    <2>21. \A c \in q.data : c \in r.data \/ c.first = n + m
      BY <2>5, <2>11 DEF left
    <2>22. x.out = InSequence(n, m)
      BY <2>1, <2>4
    <2>23. TakenOut(x, r, n, m)
      BY <1>4, <1>7, <2>12, <2>13, <2>18, <2>19, <2>20, <2>21, <2>22 DEF q, TakenOut
    <2> QED  BY <1>4, <2>23
  <1> QED  BY <1>6, <1>7
----------------------------------------------------------------------------
(***************************************************************************)
(* Add.                                                                    *)
(***************************************************************************)

\* A byte the SACK list reports.
Reported(b, list) == \E i \in 1..Len(list) : b \in Bytes(list[i])

LEMMA FrontFacts ==
    ASSUME NEW S, NEW list \in Seq(S), 1 <= Len(list)
    PROVE  /\ SubSeq(list, 1, Len(list) - 1) \in Seq(S)
           /\ Len(SubSeq(list, 1, Len(list) - 1)) = Len(list) - 1
           /\ \A i \in 1..(Len(list) - 1) : SubSeq(list, 1, Len(list) - 1)[i] = list[i]
  <1> DEFINE n == Len(list) - 1
  <1>1. n \in Nat /\ \A i \in 1..n : list[i] \in S
    OBVIOUS
  <1> HIDE DEF n
  <1>2. SubSeq(list, 1, n) \in Seq(S) /\ Len(SubSeq(list, 1, n)) = n
    BY <1>1
  <1>3. \A i \in 1..n : SubSeq(list, 1, n)[i] = list[i]
    BY <1>1
  <1> QED  BY <1>2, <1>3 DEF n

\* The list of q is that of r with the chunk in front; a block is forgotten only
\* when dropped says so.
Updated(q, r, chunk, k, H) ==
    /\ q \in RxMembers
    /\ q = [r EXCEPT !.sackList = q.sackList, !.dropped = q.dropped]
    /\ 1 <= Len(q.sackList) /\ Len(q.sackList) <= SackBlocks
    /\ Blocks(q.sackList, k, H)
    /\ Bytes(chunk) \subseteq Bytes(q.sackList[1])
    /\ ~q.dropped => /\ ~r.dropped
                     /\ \A b \in Bytes(chunk) : Reported(b, q.sackList)
                     /\ \A b : Reported(b, r.sackList) => Reported(b, q.sackList)

LEMMA UpdateFacts ==
    ASSUME NEW r \in RxMembers, Len(r.sackList) <= SackBlocks, NEW k \in Int, NEW H,
           Blocks(r.sackList, k, H), NEW chunk \in Chunk, k < chunk.first,
           chunk.first < chunk.last, Bytes(chunk) \subseteq H,
           NEW q, q = UpdateSackList(r, chunk)
    PROVE  Updated(q, r, chunk, k, H)
  <1> DEFINE old == <<chunk>> \o r.sackList
             merged == MergeFront(old)
  <1>1. r.sackList \in Seq(Chunk) /\ Len(r.sackList) \in Nat /\ SackBlocks \in Nat \ {0}
    BY RxAssumption DEF RxMembers
  <1>2. /\ old \in Seq(Chunk) /\ Len(old) = Len(r.sackList) + 1 /\ old[1] = chunk
        /\ \A i \in 1..Len(r.sackList) : old[i + 1] = r.sackList[i] /\ i + 1 \in 1..Len(old)
    BY <1>1
  <1>3. \A i \in 1..Len(old) : i = 1 \/ (i - 1 \in 1..Len(r.sackList) /\ old[i] = r.sackList[i - 1])
    BY <1>1, <1>2
  <1> HIDE DEF old
  <1>4. Blocks(old, k, H)
    <2>1. ASSUME NEW i \in 1..Len(old)
          PROVE  k < old[i].first /\ old[i].first < old[i].last /\ Bytes(old[i]) \subseteq H
      <3>1. CASE i = 1
        BY <1>2, <3>1
      <3>2. CASE i - 1 \in 1..Len(r.sackList) /\ old[i] = r.sackList[i - 1]
        BY <3>2 DEF Blocks
      <3> QED  BY <1>3, <3>1, <3>2
    <2> QED  BY <1>2, <2>1 DEF Blocks
  <1>5. Merged(merged, old, k, H)
    <2>1. 1 <= Len(old)
      BY <1>1, <1>2
    <2> QED  BY <1>4, <2>1, MergeFacts
  <1>6. /\ merged \in Seq(Chunk) /\ Len(merged) \in Nat /\ 1 <= Len(merged)
        /\ Len(merged) <= SackBlocks + 1
        /\ Blocks(merged, k, H) /\ Covers(merged, old) /\ Bytes(chunk) \subseteq Bytes(merged[1])
    <2>1. /\ Blocks(merged, k, H) /\ Covers(merged, old) /\ Bytes(old[1]) \subseteq Bytes(merged[1])
          /\ 1 <= Len(merged) /\ Len(merged) <= Len(old)
      BY <1>5 DEF Merged
    <2>2. merged \in Seq(Chunk)
      BY <2>1 DEF Blocks
    <2>3. Len(merged) \in Nat
      BY <2>2
    <2>4. Len(merged) <= SackBlocks + 1
      BY <1>1, <1>2, <2>1, <2>3
    <2> QED  BY <1>2, <2>1, <2>2, <2>3, <2>4
  <1>7. CASE Len(merged) > SackBlocks
    <2> DEFINE list == SubSeq(merged, 1, Len(merged) - 1)
    <2>1. q = [r EXCEPT !.sackList = list, !.dropped = TRUE]
      BY <1>7 DEF UpdateSackList, Front, old
    <2> HIDE DEF merged
    <2>2. /\ list \in Seq(Chunk) /\ Len(list) = Len(merged) - 1
          /\ \A i \in 1..(Len(merged) - 1) : list[i] = merged[i]
      BY <1>6, FrontFacts
    <2> HIDE DEF list
    <2>3. q \in RxMembers /\ q.sackList = list /\ q.dropped = TRUE
      BY <2>1, <2>2 DEF RxMembers
    <2>4. q = [r EXCEPT !.sackList = q.sackList, !.dropped = q.dropped]
      BY <2>1, <2>3
    <2>5. 1 <= Len(list) /\ Len(list) <= SackBlocks /\ 1 \in 1..(Len(merged) - 1)
      BY <1>1, <1>6, <1>7, <2>2
    <2>6. Blocks(list, k, H)
      <3>1. \A i \in 1..Len(list) : i \in 1..Len(merged) /\ list[i] = merged[i]
        BY <1>6, <2>2
      <3> QED  BY <1>6, <2>2, <3>1 DEF Blocks
    <2>7. Bytes(chunk) \subseteq Bytes(list[1])
      BY <1>6, <2>2, <2>5
    <2> QED  BY <2>3, <2>4, <2>5, <2>6, <2>7 DEF Updated
  <1>8. CASE ~(Len(merged) > SackBlocks)
    <2>1. q = [r EXCEPT !.sackList = merged]
      BY <1>8 DEF UpdateSackList, old
    <2> HIDE DEF merged
    <2>2. q \in RxMembers /\ q.sackList = merged /\ q.dropped = r.dropped
      BY <1>6, <2>1 DEF RxMembers
    <2>3. q = [r EXCEPT !.sackList = q.sackList, !.dropped = q.dropped]
      BY <2>1, <2>2 DEF RxMembers
    <2>4. \A b \in Bytes(chunk) : Reported(b, merged)
      <3>1. 1 \in 1..Len(merged)
        BY <1>6
      <3> QED  BY <1>6, <3>1 DEF Reported
    <2>5. ASSUME NEW b, Reported(b, r.sackList) PROVE Reported(b, merged)
      <3>1. PICK i \in 1..Len(r.sackList) : b \in Bytes(r.sackList[i])
        BY <2>5 DEF Reported
      <3>2. i + 1 \in 1..Len(old) /\ b \in Bytes(old[i + 1])
        BY <1>2, <3>1
      <3> QED  BY <1>6, <3>2 DEF Reported, Covers
    <2>6. Len(merged) <= SackBlocks
      BY <1>1, <1>6, <1>8
    <2> QED  BY <1>6, <2>2, <2>3, <2>4, <2>5, <2>6 DEF Updated
  <1> QED  BY <1>7, <1>8

LEMMA LesserOf ==
    ASSUME NEW a \in Nat, NEW b \in Nat
    PROVE  /\ Min({a, b}) \in Nat /\ Min({a, b}) <= a /\ Min({a, b}) <= b
           /\ a <= b => Min({a, b}) = a
           /\ b <= a => Min({a, b}) = b
  <1>1. Min({a, b}) = IF a <= b THEN a ELSE b
    BY PairFacts
  <1> QED  BY <1>1

LEMMA GreaterOf ==
    ASSUME NEW a \in Nat, NEW b \in Nat
    PROVE  /\ Max({a, b}) \in Nat /\ Max({a, b}) >= a /\ Max({a, b}) >= b
           /\ a <= b => Max({a, b}) = b
           /\ b <= a => Max({a, b}) = a
  <1>1. Max({a, b}) = IF a >= b THEN a ELSE b
    BY PairFacts
  <1> QED  BY <1>1

\* What of a segment may be stored.
LEMMA TrimFacts ==
    ASSUME NEW r \in RxMembers, StoredOnce(r.data), NEW head \in Nat, NEW tail \in Nat,
           NEW w, w = TrimToWindow(r, head, tail),
           NEW start, start = Max({head, r.nextRxSeq})
    PROVE  /\ w.head \in Nat /\ w.tail \in Nat /\ w.tail <= tail /\ w.head <= start
           /\ w.head < w.tail => w.head = start
           /\ (r.data = {} \/ tail <= FirstKey(r.data) + r.maxBuffer) =>
                 w.tail = tail /\ (start <= tail => w.head = start)
  <1>1. r.nextRxSeq \in Nat /\ r.maxBuffer \in Nat
    BY MemberTypes
  <1>2. start \in Nat
    BY <1>1, GreaterOf
  <1>3. CASE r.data = {}
    <2>1. w = [head |-> start, tail |-> tail]
      BY <1>3 DEF TrimToWindow
    <2>2. w.head = start /\ w.tail = tail
      BY <2>1
    <2> QED  BY <1>2, <2>2
  <1>4. CASE r.data # {}
    <2> DEFINE maxSeq == FirstKey(r.data) + r.maxBuffer
               end == Min({tail, maxSeq})
    <2>1. maxSeq \in Nat
      BY <1>1, <1>4, FirstKeyFacts
    <2>2. w = [head |-> Min({start, end}), tail |-> end]
      BY <1>4 DEF TrimToWindow
    <2> HIDE DEF maxSeq
    <2>3. end \in Nat /\ end <= tail /\ (tail <= maxSeq => end = tail)
      BY <2>1, LesserOf
    <2> HIDE DEF end
    <2>4. w.head = Min({start, end}) /\ w.tail = end
      BY <2>2
    <2>5. w.head \in Nat /\ w.head <= start /\ w.head <= end /\ (start <= end => w.head = start)
          /\ (end <= start => w.head = end)
      <3> DEFINE low == Min({start, end})
      <3>1. /\ low \in Nat /\ low <= start /\ low <= end
            /\ start <= end => low = start
            /\ end <= start => low = end
        BY <1>2, <2>3, LesserOf, Zenon
      <3> HIDE DEF low
      <3>2. w.head = low
        BY <2>4 DEF low
      <3> QED  BY <3>1, <3>2
    <2>6. w.head < w.tail => w.head = start
      BY <1>2, <2>3, <2>4, <2>5
    <2>7. tail <= maxSeq => w.tail = tail /\ (start <= tail => w.head = start)
      BY <2>3, <2>4, <2>5
    <2> QED  BY <1>4, <2>3, <2>4, <2>5, <2>6, <2>7 DEF maxSeq
  <1> QED  BY <1>3, <1>4
\* The buffer with the chunk [s.head, s.tail) in it, before RCV.NXT moves.
Added(r, s) ==
    [[r EXCEPT !.data = s.kept, !.size = s.size] EXCEPT
        !.data = Insert(@, [first |-> s.head, last |-> s.tail]),
        !.size = @ + Length([first |-> s.head, last |-> s.tail])]

Listed(r, s) ==
    IF s.head > r.nextRxSeq THEN UpdateSackList(Added(r, s), [first |-> s.head, last |-> s.tail])
                            ELSE Added(r, s)

Moved(r, s) == InOrder(Advance, Listed(r, s), Added(r, s).data)

\* What Add leaves when the loop over the stored chunks has left s of the segment.
Stored(r, s) ==
    IF s.head >= s.tail THEN [stored |-> FALSE, rx |-> [r EXCEPT !.data = s.kept, !.size = s.size]]
    ELSE [stored |-> TRUE,
          rx |-> IF Moved(r, s).gotFin /\ Moved(r, s).nextRxSeq = Moved(r, s).finSeq
                 THEN [Moved(r, s) EXCEPT !.nextRxSeq = @ + 1] ELSE Moved(r, s)]

LEMMA AddParts ==
    ASSUME NEW r, r.size = Cardinality(BytesOf(r.data)), NEW head, NEW tail,
           NEW w, w = TrimToWindow(r, head, tail), NEW s, s = Cut(r.data, w.head, w.tail)
    PROVE  Add(r, head, tail) = Stored(r, s)
  <1> DEFINE x == InOrder(RemoveOverlapped,
                          [head |-> TrimToWindow(r, head, tail).head,
                           tail |-> TrimToWindow(r, head, tail).tail,
                           size |-> r.size, kept |-> {}], r.data)
  <1>1. Add(r, head, tail) = Stored(r, x)
    BY DEF Add, Stored, Moved, Listed, Added
  <1>2. s = x
    BY DEF Cut
  <1> HIDE DEF x
  <1> QED  BY <1>1, <1>2

\* The chunk is in the buffer and in the SACK list.
LEMMA ListedFacts ==
    ASSUME NEW r, NEW n, Filled(r, n), NEW head \in Nat, NEW tail \in Nat, tail <= StreamLen,
           r.nextRxSeq <= head, NEW s, s = Cut(r.data, head, tail), s.head < s.tail,
           NEW p, p = Listed(r, s), NEW new, new = Added(r, s).data,
           NEW chunk, chunk = [first |-> s.head, last |-> s.tail]
    PROVE  /\ p \in RxMembers /\ p.data = new /\ StoredOnce(new)
           /\ p.size = Cardinality(BytesOf(new))
           /\ p.nextRxSeq = r.nextRxSeq /\ p.gotFin = r.gotFin /\ p.finSeq = r.finSeq
           /\ p.availBytes = r.availBytes /\ p.maxBuffer = r.maxBuffer
           /\ BytesOf(new) = BytesOf(r.data) \cup head..(tail - 1)
           /\ chunk \in new /\ new \subseteq r.data \cup {chunk}
           /\ chunk.first \in Nat /\ chunk.last \in Nat /\ chunk.first < chunk.last
           /\ head <= chunk.first
           /\ Len(p.sackList) <= SackBlocks /\ Blocks(p.sackList, r.nextRxSeq, BytesOf(new))
           /\ ~p.dropped => \A b \in BytesOf(new) : b > r.nextRxSeq =>
                              \/ Reported(b, p.sackList)
                              \/ chunk.first = r.nextRxSeq /\ b \in Bytes(chunk)
           /\ chunk.first > r.nextRxSeq =>
                1 <= Len(p.sackList) /\ Bytes(chunk) \subseteq Bytes(p.sackList[1])
  <1> DEFINE a == Added(r, s)
             k == r.nextRxSeq
  <1>1. r \in RxMembers /\ StoredOnce(r.data)
    BY DEF Filled
  <1>2. k \in Nat /\ r.sackList \in Seq(Chunk)
    BY <1>1, MemberTypes
  <1>3. new = Insert(s.kept, chunk)
    BY <1>1 DEF Added, RxMembers
  <1>4. /\ new = s.kept \cup {chunk} /\ StoredOnce(new) /\ s.kept \subseteq r.data
        /\ BytesOf(new) = BytesOf(r.data) \cup head..(tail - 1)
        /\ s.size + Length(chunk) = Cardinality(BytesOf(new))
        /\ chunk \in Chunk /\ head <= chunk.first /\ chunk.first < chunk.last /\ chunk.last <= tail
    BY <1>1, <1>3, ChunkStored
  <1>5. chunk \in new /\ new \subseteq r.data \cup {chunk}
    BY <1>4
  <1>6. chunk.first \in Nat /\ chunk.last \in Nat
    BY <1>4, RxAssumption DEF Chunk, Position
  <1>7. Cardinality(BytesOf(new)) \in Nat /\ new \in SUBSET Chunk
    BY <1>4, BytesFacts, FS_CardinalityType DEF StoredOnce
  <1>8. a = [r EXCEPT !.data = new, !.size = Cardinality(BytesOf(new))]
    BY <1>1, <1>3, <1>4 DEF Added, RxMembers
  <1>9. /\ a \in RxMembers /\ a.data = new /\ a.size = Cardinality(BytesOf(new))
        /\ a.nextRxSeq = k /\ a.gotFin = r.gotFin /\ a.finSeq = r.finSeq
        /\ a.availBytes = r.availBytes /\ a.maxBuffer = r.maxBuffer
        /\ a.sackList = r.sackList /\ a.dropped = r.dropped
    <2> HIDE DEF a
    <2> QED  BY <1>1, <1>7, <1>8 DEF RxMembers
  <1> HIDE DEF a
  <1>10. Bytes(chunk) \subseteq BytesOf(new)
    BY <1>5 DEF BytesOf
  <1>11. /\ Len(r.sackList) <= SackBlocks
         /\ Blocks(r.sackList, k, BytesOf(r.data))
         /\ ~r.dropped => \A b \in BytesOf(r.data) : b > k => Reported(b, r.sackList)
    BY DEF Filled, Sacked, Reported
  <1>12. Blocks(r.sackList, k, BytesOf(new))
    BY <1>4, <1>11 DEF Blocks
  <1>13. \A b \in BytesOf(new) : b \in BytesOf(r.data) \/ b \in Bytes(chunk)
    BY <1>4, <1>5 DEF BytesOf
  <1>14. CASE chunk.first > k
    <2>1. p = UpdateSackList(a, chunk)
      BY <1>14 DEF Listed, a
    <2>2. /\ p \in RxMembers
          /\ p = [a EXCEPT !.sackList = p.sackList, !.dropped = p.dropped]
          /\ 1 <= Len(p.sackList) /\ Len(p.sackList) <= SackBlocks
          /\ Blocks(p.sackList, k, BytesOf(new))
          /\ Bytes(chunk) \subseteq Bytes(p.sackList[1])
          /\ ~p.dropped => /\ ~a.dropped
                           /\ \A b \in Bytes(chunk) : Reported(b, p.sackList)
                           /\ \A b : Reported(b, a.sackList) => Reported(b, p.sackList)
      <3>1. k < chunk.first /\ k \in Int /\ Len(a.sackList) <= SackBlocks
        BY <1>2, <1>6, <1>9, <1>11, <1>14
      <3>2. Blocks(a.sackList, k, BytesOf(new))
        BY <1>9, <1>12
      <3>3. a \in RxMembers /\ chunk \in Chunk /\ chunk.first < chunk.last
        BY <1>4, <1>9
      <3> HIDE DEF k
      <3>4. Updated(p, a, chunk, k, BytesOf(new))
        BY <1>10, <2>1, <3>1, <3>2, <3>3, UpdateFacts, Zenon
      <3> QED  BY <3>4 DEF Updated
    <2>3. /\ p.data = new /\ p.size = a.size /\ p.nextRxSeq = k /\ p.gotFin = r.gotFin
          /\ p.finSeq = r.finSeq /\ p.availBytes = r.availBytes /\ p.maxBuffer = r.maxBuffer
      BY <1>9, <2>2 DEF RxMembers
    <2>4. ~p.dropped => \A b \in BytesOf(new) : b > k => Reported(b, p.sackList)
      BY <1>9, <1>11, <1>13, <2>2
    <2>5. p.size = Cardinality(BytesOf(new))
      BY <1>9, <2>3
    <2> QED  BY <1>4, <1>5, <1>6, <2>2, <2>3, <2>4, <2>5
  <1>15. CASE chunk.first = k
    <2>1. p = a
      BY <1>2, <1>6, <1>15 DEF Listed, a
    <2>2. ~(chunk.first > k)
      BY <1>2, <1>15
    <2>3. ~p.dropped => \A b \in BytesOf(new) : b > k => Reported(b, p.sackList) \/ b \in Bytes(chunk)
      BY <1>9, <1>11, <1>13, <2>1
    <2> QED  BY <1>4, <1>5, <1>6, <1>9, <1>11, <1>12, <1>15, <2>1, <2>2, <2>3
  <1>16. chunk.first > k \/ chunk.first = k
    BY <1>2, <1>4, <1>6
  <1> QED  BY <1>14, <1>15, <1>16
\* q holds what r held and the bytes [head, tail); the newest chunk is in the
\* first SACK block.
Grown(q, r, head, tail) ==
    /\ BytesOf(q.data) = BytesOf(r.data) \cup head..(tail - 1)
    /\ q.gotFin = r.gotFin /\ q.finSeq = r.finSeq /\ q.maxBuffer = r.maxBuffer
    /\ r.nextRxSeq <= q.nextRxSeq
    /\ \A c \in q.data \ r.data : c.first > q.nextRxSeq =>
          1 <= Len(q.sackList) /\ Bytes(c) \subseteq Bytes(q.sackList[1])

\* RCV.NXT has moved over what is in sequence.
LEMMA MovedFacts ==
    ASSUME NEW r, NEW n, Filled(r, n), NEW head \in Nat, NEW tail \in Nat, tail <= StreamLen,
           r.nextRxSeq <= head, NEW s, s = Cut(r.data, head, tail), s.head < s.tail,
           NEW q, q = Moved(r, s)
    PROVE  Filled(q, n) /\ Grown(q, r, head, tail)
  <1> DEFINE p == Listed(r, s)
             new == Added(r, s).data
             chunk == [first |-> s.head, last |-> s.tail]
             k == r.nextRxSeq
             m == q.nextRxSeq
             H == BytesOf(new)
  <1>1. /\ p \in RxMembers /\ p.data = new /\ StoredOnce(new)
        /\ p.size = Cardinality(BytesOf(new))
        /\ p.nextRxSeq = r.nextRxSeq /\ p.gotFin = r.gotFin /\ p.finSeq = r.finSeq
        /\ p.availBytes = r.availBytes /\ p.maxBuffer = r.maxBuffer
        /\ BytesOf(new) = BytesOf(r.data) \cup head..(tail - 1)
        /\ chunk \in new /\ new \subseteq r.data \cup {chunk}
        /\ chunk.first \in Nat /\ chunk.last \in Nat /\ chunk.first < chunk.last
        /\ head <= chunk.first
        /\ Len(p.sackList) <= SackBlocks /\ Blocks(p.sackList, r.nextRxSeq, BytesOf(new))
        /\ ~p.dropped => \A b \in BytesOf(new) : b > r.nextRxSeq =>
                           \/ Reported(b, p.sackList)
                           \/ chunk.first = r.nextRxSeq /\ b \in Bytes(chunk)
        /\ chunk.first > r.nextRxSeq =>
             1 <= Len(p.sackList) /\ Bytes(chunk) \subseteq Bytes(p.sackList[1])
    <2> HIDE DEF p, new, chunk
    <2>1. p = Listed(r, s) /\ new = Added(r, s).data /\ chunk = [first |-> s.head, last |-> s.tail]
      BY DEF p, new, chunk
    <2> QED  BY <2>1, ListedFacts, SMTT(30)
  <1>2. q = InOrder(Advance, p, new)
    BY DEF Moved
  <1>3. chunk.first = s.head
    OBVIOUS
  <1> HIDE DEF p, new, chunk
  <1>4. r \in RxMembers /\ StoredOnce(r.data) /\ n \in Nat /\ Counted(r, n) /\ FinRecorded(r, n)
    BY DEF Filled
  <1>5. k \in Nat /\ k < StreamLen /\ Missing(r) = k
    <2>1. chunk.last <= StreamLen
      BY <1>1, ChunkFacts
    <2>2. k \in Nat /\ (k <= StreamLen => Missing(r) = k)
      BY <1>4, MemberTypes
    <2> QED  BY <1>1, <2>1, <2>2, RxAssumption
  <1>6. \A c \in new : c.last <= k \/ k <= c.first
    <2>1. \A c \in r.data : c.last <= k \/ k <= c.first
      BY NextBetween
    <2>2. k <= chunk.first
      BY <1>1, <1>5
    <2> QED  BY <1>1, <2>1, <2>2
  <1>7. AdvanceInv(q, StreamLen, p, new)
    BY <1>1, <1>2, <1>6, AdvanceResult
  <1>8. /\ q \in RxMembers
        /\ q = [p EXCEPT !.nextRxSeq = q.nextRxSeq, !.availBytes = q.availBytes,
                         !.sackList = q.sackList]
        /\ k <= m
        /\ q.availBytes = r.availBytes + (m - k)
        /\ \A b \in k..(m - 1) : b \in H
        /\ \A c \in new : c.last <= m \/ m <= c.first
        /\ \A c \in Below(new, StreamLen) : c.first # m
        /\ SackLeft(q.sackList, p.sackList, m, k)
    BY <1>1, <1>7 DEF AdvanceInv
  <1>9. /\ q.data = new /\ q.size = p.size /\ q.gotFin = r.gotFin /\ q.finSeq = r.finSeq
        /\ q.maxBuffer = r.maxBuffer /\ q.dropped = p.dropped
    BY <1>1, <1>8 DEF RxMembers
  <1>10. m \in Nat /\ q.sackList \in Seq(Chunk) /\ Len(q.sackList) \in Nat
    BY <1>8, MemberTypes
  <1>11. H \subseteq 0..(StreamLen - 1)
    BY <1>1, BytesFacts
  <1>12. \A c \in new : c.first # m
    <2>1. \A c \in new : c \in Below(new, StreamLen)
      BY <1>1, StoredKeyed DEF Below
    <2> QED  BY <1>8, <2>1
  <1>13. m \notin H
    <2>1. SUFFICES ASSUME m \in H PROVE FALSE
      OBVIOUS
    <2>2. PICK c \in new : c.first <= m /\ m < c.last
      BY <1>1, <2>1, BytesFacts
    <2>3. c.first \in Nat /\ c.last \in Nat
      BY <1>1, ChunkFacts
    <2> QED  BY <1>8, <1>10, <1>12, <2>2, <2>3
  <1>14. m <= StreamLen /\ Missing(q) = m
    <2>1. m > k => m - 1 \in H
      BY <1>5, <1>8, <1>10
    <2>2. m <= StreamLen
      BY <1>5, <1>8, <1>10, <1>11, <2>1, RxAssumption
    <2> QED  BY <2>2 DEF Missing
  <1>15. Counted(q, n)
    <2>1. /\ n <= k /\ r.availBytes = k - n /\ n..(k - 1) \subseteq BytesOf(r.data)
          /\ \A c \in r.data : n <= c.first
      BY <1>4, <1>5 DEF Counted
    <2>2. n <= m /\ q.availBytes = m - n
      BY <1>4, <1>5, <1>8, <1>10, <2>1
    <2>3. n..(m - 1) \subseteq H
      <3>1. ASSUME NEW b \in n..(m - 1) PROVE b \in H
        <4>1. b \in n..(k - 1) \/ b \in k..(m - 1)
          BY <1>4, <1>5, <1>10
        <4> QED  BY <1>1, <1>8, <2>1, <4>1
      <3> QED  BY <3>1
    <2>4. \A c \in new : n <= c.first
      <3>1. n <= chunk.first
        BY <1>1, <1>4, <1>5, <2>1
      <3> QED  BY <1>1, <2>1, <3>1
    <2>5. q.size = Cardinality(BytesOf(q.data)) /\ BytesOf(q.data) = H
      BY <1>1, <1>9
    <2> QED  BY <1>9, <1>13, <1>14, <2>2, <2>3, <2>4, <2>5 DEF Counted
  <1>16. FinRecorded(q, n)
    <2>1. ~(m > StreamLen)
      BY <1>10, <1>14, RxAssumption
    <2>2. q.gotFin => /\ q.finSeq <= StreamLen
                      /\ \A b \in q.finSeq..(StreamLen - 1) : b < n \/ b \in BytesOf(q.data)
      BY <1>1, <1>4, <1>9 DEF FinRecorded
    <2> QED  BY <2>1, <2>2 DEF FinRecorded
  <1>17. chunk.first = k => chunk.last <= m
    BY <1>1, <1>5, <1>8, <1>10, <1>12
  <1>18. chunk.first > k => m = k
    <2>1. SUFFICES ASSUME chunk.first > k, m # k PROVE FALSE
      OBVIOUS
    <2>2. k \notin BytesOf(r.data)
      BY NextBetween
    <2>3. head # k
      <3>1. SUFFICES ASSUME head = k PROVE FALSE
        OBVIOUS
      <3>2. head < tail
        <4>1. head <= s.head /\ s.tail <= tail /\ s.head \in Int /\ s.tail \in Int
          BY <1>4, CutFacts DEF Seg
        <4> QED  BY <4>1
      <3>3. s.head = head
        BY <1>4, <2>2, <3>1, <3>2, MissingByteStored
      <3> QED  BY <1>3, <1>5, <2>1, <3>1, <3>3
    <2>4. k \in H
      BY <1>5, <1>8, <1>10, <2>1
    <2> QED  BY <1>1, <1>5, <2>2, <2>3, <2>4
  <1>19. Blocks(q.sackList, m, H)
    <2>1. ASSUME NEW i \in 1..Len(q.sackList)
          PROVE  /\ m < q.sackList[i].first /\ q.sackList[i].first < q.sackList[i].last
                 /\ Bytes(q.sackList[i]) \subseteq H
      <3> DEFINE b == q.sackList[i]
      <3>1. b \in Chunk
        BY <1>10
      <3>2. PICK j \in 1..Len(p.sackList) : b = p.sackList[j]
        BY <1>8 DEF SackLeft
      <3>3. k < b.first /\ b.first < b.last /\ Bytes(b) \subseteq H
        BY <1>1, <3>2 DEF Blocks
      <3>4. m # k => b.last > m
        BY <1>8 DEF SackLeft
      <3> HIDE DEF b
      <3>5. b.first \in Nat /\ b.last \in Nat
        BY <3>1, RxAssumption DEF Chunk, Position
      <3>6. ~(b.first <= m /\ m < b.last)
        BY <1>10, <1>13, <3>3, <3>5 DEF Bytes
      <3>7. m < b.first
        BY <1>5, <1>10, <3>3, <3>4, <3>5, <3>6
      <3> QED  BY <3>3, <3>7 DEF b
    <2> QED  BY <1>10, <2>1 DEF Blocks
  <1>20. ASSUME ~q.dropped, NEW b \in H, b > m PROVE Reported(b, q.sackList)
    <2>1. b \in Int /\ b > k
      BY <1>5, <1>8, <1>10, <1>11, <1>20
    <2>2. Reported(b, p.sackList) \/ (chunk.first = k /\ b \in Bytes(chunk))
      BY <1>1, <1>9, <1>20, <2>1
    <2>3. ~(chunk.first = k /\ b \in Bytes(chunk))
      BY <1>1, <1>10, <1>17, <1>20, <2>1 DEF Bytes
    <2>4. PICK j \in 1..Len(p.sackList) : b \in Bytes(p.sackList[j])
      BY <2>2, <2>3 DEF Reported
    <2> DEFINE d == p.sackList[j]
    <2>5. d \in Chunk
      BY <1>1 DEF Blocks
    <2>6. b \in Bytes(d)
      BY <2>4
    <2>7. d.last > m => \E i \in 1..Len(q.sackList) : q.sackList[i] = d
      BY <1>8 DEF SackLeft
    <2> HIDE DEF d
    <2>8. d.first \in Nat /\ d.last \in Nat
      BY <2>5, RxAssumption DEF Chunk, Position
    <2>9. d.last > m
      BY <1>10, <1>20, <2>1, <2>6, <2>8 DEF Bytes
    <2> QED  BY <2>6, <2>7, <2>9 DEF Reported
  <1>21. Sacked(q)
    <2>1. Len(q.sackList) <= SackBlocks
      <3>1. Len(q.sackList) <= Len(p.sackList) /\ Len(p.sackList) \in Nat
        BY <1>1, <1>8, MemberTypes DEF SackLeft
      <3> QED  BY <1>1, <1>10, <3>1, RxAssumption
    <2> QED  BY <1>9, <1>19, <1>20, <2>1 DEF Sacked, Reported
  <1>22. Filled(q, n)
    BY <1>1, <1>4, <1>8, <1>9, <1>15, <1>16, <1>21 DEF Filled
  <1>23. ASSUME NEW c \in q.data \ r.data, c.first > m
         PROVE  1 <= Len(q.sackList) /\ Bytes(c) \subseteq Bytes(q.sackList[1])
    <2>1. c = chunk
      BY <1>1, <1>9
    <2>2. chunk.first > k
      BY <1>1, <1>5, <1>8, <1>10, <1>23, <2>1
    <2>3. q.sackList = p.sackList
      BY <1>8, <1>18, <2>2 DEF SackLeft
    <2> QED  BY <1>1, <2>1, <2>2, <2>3
  <1>24. Grown(q, r, head, tail)
    BY <1>1, <1>8, <1>9, <1>23 DEF Grown
  <1> QED  BY <1>22, <1>24
\* The result of Add for r, of which w fits the window.
AddedTo(add, r, n, w, tail) ==
    /\ Buffer(add.rx, n) /\ Grown(add.rx, r, w.head, w.tail)
    /\ ~add.stored => add.rx = r
    /\ w.head \in Nat /\ w.tail \in Nat /\ w.tail <= tail

\* What Add leaves of a segment that ends in the stream.
LEMMA AddFacts ==
    ASSUME NEW r, NEW n, Buffer(r, n), NEW head \in Nat, NEW tail \in Nat, tail <= StreamLen,
           NEW w, w = TrimToWindow(r, head, tail), NEW add, add = Add(r, head, tail)
    PROVE  AddedTo(add, r, n, w, tail)
  <1> DEFINE s == Cut(r.data, w.head, w.tail)
             start == Max({head, r.nextRxSeq})
  <1>1. /\ Filled(r, n) /\ r \in RxMembers /\ StoredOnce(r.data)
        /\ r.size = Cardinality(BytesOf(r.data))
    BY DEF Buffer, Filled, Counted
  <1>2. r.nextRxSeq \in Nat
    BY <1>1, MemberTypes
  <1>3. start >= r.nextRxSeq /\ start \in Nat
    BY <1>2, GreaterOf
  <1>4. /\ w.head \in Nat /\ w.tail \in Nat /\ w.tail <= tail
        /\ w.head < w.tail => w.head = start
    BY <1>1, TrimFacts
  <1> HIDE DEF start
  <1>5. add = Stored(r, s)
    BY <1>1, AddParts
  <1>6. /\ s \in Seg(r.data) /\ w.head <= s.head /\ s.tail <= w.tail
        /\ \A b \in w.head..(w.tail - 1) : b \in BytesOf(r.data) \/ (s.head <= b /\ b < s.tail)
    <2> HIDE DEF s
    <2>1. s = Cut(r.data, w.head, w.tail)
      BY DEF s
    <2> QED  BY <1>1, <1>4, <2>1, CutFacts
  <1>7. s.head \in Int /\ s.tail \in Int
    BY <1>6 DEF Seg
  <1>8. CASE s.head >= s.tail
    <2>1. s.kept = r.data /\ s.size = r.size
      <3> HIDE DEF s
      <3>1. s = Cut(r.data, w.head, w.tail)
        BY DEF s
      <3> QED  BY <1>1, <1>4, <1>8, <3>1, NothingNew
    <2> HIDE DEF s
    <2>2. add = [stored |-> FALSE, rx |-> [r EXCEPT !.data = s.kept, !.size = s.size]]
      BY <1>5, <1>8 DEF Stored
    <2>3. add.rx = r /\ add.stored = FALSE
      <3>1. [r EXCEPT !.data = s.kept, !.size = s.size] = r
        BY <1>1, <2>1 DEF RxMembers
      <3> QED  BY <2>2, <3>1
    <2>4. BytesOf(r.data) = BytesOf(r.data) \cup w.head..(w.tail - 1)
      <3>1. \A b \in w.head..(w.tail - 1) : b \in BytesOf(r.data)
        BY <1>4, <1>6, <1>7, <1>8
      <3> QED  BY <3>1
    <2>5. Grown(r, r, w.head, w.tail)
      BY <1>2, <2>4 DEF Grown
    <2> QED  BY <1>4, <2>3, <2>5 DEF AddedTo
  <1>9. CASE s.head < s.tail
    <2> DEFINE q == Moved(r, s)
    <2>1. r.nextRxSeq <= w.head /\ w.tail <= StreamLen
      BY <1>2, <1>3, <1>4, <1>6, <1>7, <1>9, RxAssumption
    <2>2. Filled(q, n) /\ Grown(q, r, w.head, w.tail)
      <3> HIDE DEF s, q
      <3>1. s = Cut(r.data, w.head, w.tail) /\ q = Moved(r, s)
        BY DEF s, q
      <3> QED  BY <1>1, <1>4, <1>9, <2>1, <3>1, MovedFacts
    <2>3. ~(s.head >= s.tail)
      BY <1>7, <1>9
    <2> HIDE DEF s
    <2>4. add = [stored |-> TRUE,
                 rx |-> IF q.gotFin /\ q.nextRxSeq = q.finSeq
                        THEN [q EXCEPT !.nextRxSeq = @ + 1] ELSE q]
      BY <1>5, <2>3 DEF Stored
    <2> HIDE DEF q
    <2>5. q \in RxMembers
      BY <2>2 DEF Filled
    <2>6. add.rx = CountFin(q) /\ add.stored = TRUE
      BY <2>4, <2>5 DEF CountFin, RxMembers
    <2>7. Buffer(CountFin(q), n)
      BY <2>2, FinCounted
    <2>8. /\ CountFin(q).data = q.data /\ CountFin(q).gotFin = q.gotFin
          /\ CountFin(q).finSeq = q.finSeq /\ CountFin(q).maxBuffer = q.maxBuffer
          /\ CountFin(q).sackList = q.sackList
          /\ q.nextRxSeq <= CountFin(q).nextRxSeq /\ CountFin(q).nextRxSeq \in Nat
      <3>1. q.nextRxSeq \in Nat
        BY <2>5, MemberTypes
      <3> QED  BY <2>5, <3>1 DEF CountFin, RxMembers
    <2>9. Grown(CountFin(q), r, w.head, w.tail)
      <3>1. q.nextRxSeq \in Nat /\ r.nextRxSeq <= q.nextRxSeq
        BY <2>2, <2>5, MemberTypes DEF Grown
      <3>2. ASSUME NEW c \in q.data \ r.data, c.first > CountFin(q).nextRxSeq
            PROVE  1 <= Len(q.sackList) /\ Bytes(c) \subseteq Bytes(q.sackList[1])
        <4>1. c.first \in Nat
          BY <2>2, ChunkFacts DEF Filled
        <4>2. c.first > q.nextRxSeq
          BY <2>8, <3>1, <3>2, <4>1
        <4> QED  BY <2>2, <4>2 DEF Grown
      <3>3. r.nextRxSeq <= CountFin(q).nextRxSeq
        BY <1>2, <2>8, <3>1
      <3> QED  BY <2>2, <2>8, <3>2, <3>3 DEF Grown
    <2> QED  BY <1>4, <2>6, <2>7, <2>9 DEF AddedTo
  <1> QED  BY <1>7, <1>8, <1>9

\* A byte that is missing and in the window is stored, whatever else is.
LEMMA MissingStored ==
    ASSUME NEW r, NEW n, Buffer(r, n), NEW head \in Nat, NEW tail \in Nat, head < tail,
           r.nextRxSeq <= head, head \notin BytesOf(r.data),
           r.data = {} \/ tail <= FirstKey(r.data) + r.maxBuffer
    PROVE  Add(r, head, tail).stored
  <1> DEFINE w == TrimToWindow(r, head, tail)
             s == Cut(r.data, w.head, w.tail)
             start == Max({head, r.nextRxSeq})
  <1>1. /\ r \in RxMembers /\ StoredOnce(r.data)
        /\ r.size = Cardinality(BytesOf(r.data))
    BY DEF Buffer, Filled, Counted
  <1>2. r.nextRxSeq \in Nat
    BY <1>1, MemberTypes
  <1>3. start = head
    BY <1>2, GreaterOf
  <1>4. w.tail = tail /\ w.head = head
    <2> HIDE DEF w, start
    <2>1. w = TrimToWindow(r, head, tail) /\ start = Max({head, r.nextRxSeq})
      BY DEF w, start
    <2>2. w.tail = tail /\ (start <= tail => w.head = start)
      BY <1>1, <2>1, TrimFacts
    <2> QED  BY <1>3, <2>2
  <1> HIDE DEF w, start
  <1>5. Add(r, head, tail) = Stored(r, s)
    BY <1>1, AddParts DEF w
  <1>6. s.head = head /\ s.head < s.tail
    <2>1. s = Cut(r.data, head, tail)
      BY <1>4
    <2> HIDE DEF s
    <2> QED  BY <1>1, <2>1, MissingByteStored
  <1>7. s.head \in Int /\ s.tail \in Int
    <2>1. s = Cut(r.data, head, tail)
      BY <1>4
    <2> HIDE DEF s
    <2> QED  BY <1>1, <2>1, CutFacts DEF Seg
  <1> HIDE DEF s
  <1>8. ~(s.head >= s.tail)
    BY <1>6, <1>7
  <1> QED  BY <1>5, <1>8 DEF Stored
----------------------------------------------------------------------------
(***************************************************************************)
(* The invariant.                                                          *)
(***************************************************************************)

Sizes == BufferSizes \cup {RcvBufSize}

\* The buffer was never larger than M.
Largest(M) == \A size \in Sizes : size <= M

\* With n bytes read, nothing beyond n + M was offered, is stored or is needed to
\* reach the FIN that was recorded.
Limits(r, n, e) ==
    \A M \in Nat : Largest(M) =>
        /\ e <= n + M
        /\ \A b \in BytesOf(r.data) : b < n + M
        /\ r.gotFin => StreamLen <= n + M

Situation(st, r, n, e) ==
    /\ Buffer(r, n) /\ e \in Nat /\ r.maxBuffer \in Sizes /\ Limits(r, n, e)
    /\ st \in {"ESTABLISHED", "CLOSE_WAIT", "FIN_WAIT", "TIME_WAIT"}
    /\ st \in {"ESTABLISHED", "FIN_WAIT"} <=> ~Finished(r)
    /\ st \in {"FIN_WAIT", "TIME_WAIT"} => ClosesFirst

\* The stream up to what was read, the buffer from there on; the assertion of
\* AdvertisedWindowSize fails only when more is in sequence than fits.
Inv ==
    /\ Len(delivered) \in Nat /\ delivered = InSequence(0, Len(delivered))
    /\ Situation(state, rx, Len(delivered), edge)
    /\ answer \in {"ACK", "delayed", "nothing"} /\ aborted \in BOOLEAN
    /\ aborted => Len(delivered) + rx.maxBuffer < Missing(rx)

\* A segment the socket did not turn away ends below what was offered.
Offered(tail, n) == \A M \in Nat : Largest(M) => tail <= n + M

LEMMA SizeFacts ==
    /\ Sizes \subseteq Nat
    /\ \A M \in Nat, size \in Sizes : Largest(M) => size <= M
  BY RxAssumption DEF Sizes, Largest

LEMMA DeliveredGrows ==
    ASSUME NEW d, Len(d) \in Nat, d = InSequence(0, Len(d)), NEW m \in Nat,
           NEW e, e = d \o InSequence(Len(d), m)
    PROVE  Len(e) = Len(d) + m /\ e = InSequence(0, Len(e))
  <1> DEFINE k == Len(d)
  <1>1. InSequence(0, k) \o [j \in 1..m |-> (0 + k) + j - 1] = InSequence(0, k + m)
    BY SequenceGrows
  <1>2. [j \in 1..m |-> (0 + k) + j - 1] = InSequence(k, m)
    BY DEF InSequence
  <1>3. e = InSequence(0, k + m)
    BY <1>1, <1>2, Zenon
  <1>4. k + m \in Nat
    OBVIOUS
  <1> HIDE DEF k
  <1>5. Len(InSequence(0, k + m)) = k + m
    BY <1>4 DEF InSequence
  <1> QED  BY <1>3, <1>5 DEF k

\* The edge of the window that would be offered is within the limits.
LEMMA EdgeFacts ==
    ASSUME NEW r, NEW n, NEW e, Buffer(r, n), r.maxBuffer \in Sizes, Limits(r, n, e)
    PROVE  /\ MaxRxSequence(r) \in Nat
           /\ \A M \in Nat : Largest(M) => MaxRxSequence(r) <= n + M
           /\ ~r.gotFin => MaxRxSequence(r) = n + r.maxBuffer
  <1>1. r \in RxMembers /\ n \in Nat /\ Filled(r, n) /\ r.maxBuffer \in Nat
    BY SizeFacts DEF Buffer, Filled
  <1>2. CASE ~r.gotFin
    <2>1. MaxRxSequence(r) = n + r.maxBuffer
      BY <1>1, <1>2, WindowEdge
    <2>2. \A M \in Nat : Largest(M) => r.maxBuffer <= M
      BY SizeFacts
    <2> QED  BY <1>1, <2>1, <2>2
  <1>3. CASE r.gotFin
    <2>1. MaxRxSequence(r) = r.finSeq
      BY <1>3 DEF MaxRxSequence
    <2>2. r.finSeq \in Nat /\ r.finSeq <= StreamLen
      BY <1>1, <1>3, MemberTypes DEF Filled, FinRecorded
    <2>3. \A M \in Nat : Largest(M) => StreamLen <= n + M
      BY <1>3 DEF Limits
    <2> QED  BY <1>1, <1>3, <2>1, <2>2, <2>3, RxAssumption
  <1> QED  BY <1>2, <1>3

\* An ACK sent in buffer state r: the window it offers, and the assertion.
LEMMA AckFacts ==
    ASSUME NEW r, NEW n, Buffer(r, n), edge \in Nat, r.maxBuffer \in Sizes, Limits(r, n, edge),
           SendEmptyPacket(r)
    PROVE  /\ edge' \in Nat /\ Limits(r, n, edge') /\ answer' = "ACK" /\ aborted' \in BOOLEAN
           /\ aborted' => n + r.maxBuffer < Missing(r)
  <1> DEFINE top == MaxRxSequence(r)
  <1>1. /\ top \in Nat /\ (~r.gotFin => top = n + r.maxBuffer)
        /\ \A M \in Nat : Largest(M) => top <= n + M
    BY EdgeFacts
  <1>2. /\ answer' = "ACK" /\ aborted' = (~r.gotFin /\ top < r.nextRxSeq)
        /\ edge' = IF r.gotFin THEN edge ELSE Max({edge, top})
    BY DEF SendEmptyPacket
  <1> HIDE DEF top
  <1>3. edge' = edge \/ edge' = top
    <2>1. Max({edge, top}) = IF edge >= top THEN edge ELSE top
      BY <1>1, PairFacts
    <2> QED  BY <1>2, <2>1
  <1>4. edge' \in Nat
    BY <1>1, <1>3
  <1>5. Limits(r, n, edge')
    BY <1>1, <1>3 DEF Limits
  <1>6. aborted' => n + r.maxBuffer < Missing(r)
    <2>1. SUFFICES ASSUME aborted' PROVE n + r.maxBuffer < Missing(r)
      OBVIOUS
    <2>2. ~r.gotFin /\ top < r.nextRxSeq
      BY <1>2, <2>1
    <2>3. r \in RxMembers /\ ~(r.nextRxSeq > StreamLen)
      BY <2>2 DEF Buffer, Filled, FinRecorded
    <2>4. Missing(r) = r.nextRxSeq
      BY <2>3, MemberTypes, RxAssumption
    <2> QED  BY <1>1, <2>2, <2>4
  <1>7. aborted' \in BOOLEAN
    BY <1>2
  <1> QED  BY <1>2, <1>4, <1>5, <1>6, <1>7

LEMMA AckOrDelayFacts ==
    ASSUME NEW r, NEW n, Buffer(r, n), edge \in Nat, r.maxBuffer \in Sizes, Limits(r, n, edge),
           aborted \in BOOLEAN, ~aborted, NEW mustAck, AckOrDelay(r, mustAck)
    PROVE  /\ edge' \in Nat /\ Limits(r, n, edge') /\ aborted' \in BOOLEAN
           /\ answer' \in {"ACK", "delayed"} /\ (mustAck => answer' = "ACK")
           /\ aborted' => n + r.maxBuffer < Missing(r)
  <1>1. CASE SendEmptyPacket(r)
    BY <1>1, AckFacts
  <1>2. CASE ~mustAck /\ answer' = "delayed" /\ UNCHANGED <<edge, aborted>>
    <2>1. edge' = edge /\ aborted' = aborted /\ answer' = "delayed" /\ ~mustAck
      BY <1>2
    <2>2. aborted' = FALSE
      BY <2>1, Zenon
    <2>3. edge' \in Nat /\ Limits(r, n, edge')
      BY <2>1, Zenon
    <2> QED  BY <2>1, <2>2, <2>3, Zenon
  <1> QED  BY <1>1, <1>2 DEF AckOrDelay
\* Every new chunk beyond RCV.NXT is in the first SACK block.
NewestFirst(q, r) ==
    \A c \in q.data \ r.data : c.first > q.nextRxSeq =>
        1 <= Len(q.sackList) /\ Bytes(c) \subseteq Bytes(q.sackList[1])

\* q is r when [head, tail) has been added and m bytes have been read.
Got(q, r, n, m, head, tail) ==
    /\ Buffer(q, n + m) /\ NewestFirst(q, r)
    /\ q.gotFin = r.gotFin /\ q.finSeq = r.finSeq /\ q.maxBuffer = r.maxBuffer
    /\ r.nextRxSeq <= q.nextRxSeq
    /\ \A b \in BytesOf(r.data) \cup head..(tail - 1) : b < n + m \/ b \in BytesOf(q.data)

\* A segment is added and the application reads.
LEMMA ReceivedFacts ==
    ASSUME NEW r, NEW n, NEW e \in Nat, Buffer(r, n), Limits(r, n, e), NEW head \in Nat,
           NEW tail \in Nat, tail <= StreamLen, Offered(tail, n), NEW w, w = TrimToWindow(r, head, tail),
           NEW add, add = Add(r, head, tail), NEW k \in Nat, NEW read, read = Extract(add.rx, k)
    PROVE  \E m \in Nat :
             /\ read.out = InSequence(n, m) /\ Got(read.rx, r, n, m, w.head, w.tail)
             /\ Limits(read.rx, n + m, e)
  <1> DEFINE a == add.rx
             q == read.rx
  <1>1. /\ Buffer(a, n) /\ Grown(a, r, w.head, w.tail)
        /\ w.head \in Nat /\ w.tail \in Nat /\ w.tail <= tail
    <2>1. AddedTo(add, r, n, w, tail)
      BY AddFacts, Zenon
    <2> QED  BY <2>1 DEF AddedTo
  <1>2. PICK m \in Nat :
             /\ m <= a.availBytes /\ read.out = InSequence(n, m)
             /\ Buffer(q, n + m) /\ ReadFrom(q, a) /\ Missing(q) = Missing(a)
             /\ BytesOf(q.data) = BytesOf(a.data) \ n..(n + m - 1)
             /\ \A c \in q.data : c \in a.data \/ c.first = n + m
    <2>1. \E m \in Nat : TakenOut(read, a, n, m)
      BY <1>1, ExtractFacts, Zenon
    <2> QED  BY <2>1 DEF TakenOut
  <1>3. /\ a \in RxMembers /\ q \in RxMembers /\ r \in RxMembers /\ n \in Nat
        /\ StoredOnce(a.data) /\ StoredOnce(q.data) /\ StoredOnce(r.data)
    BY <1>1, <1>2 DEF Buffer, Filled
  <1> HIDE DEF a, q
  <1>4. /\ q.nextRxSeq = a.nextRxSeq /\ q.gotFin = a.gotFin /\ q.finSeq = a.finSeq
        /\ q.maxBuffer = a.maxBuffer /\ q.sackList = a.sackList
    BY <1>2, <1>3 DEF ReadFrom, RxMembers
  <1>5. /\ BytesOf(a.data) = BytesOf(r.data) \cup w.head..(w.tail - 1)
        /\ a.gotFin = r.gotFin /\ a.finSeq = r.finSeq /\ a.maxBuffer = r.maxBuffer
        /\ r.nextRxSeq <= a.nextRxSeq
        /\ \A c \in a.data \ r.data : c.first > a.nextRxSeq =>
              1 <= Len(a.sackList) /\ Bytes(c) \subseteq Bytes(a.sackList[1])
    BY <1>1 DEF Grown
  <1>6. ASSUME NEW c \in q.data \ r.data, c.first > q.nextRxSeq
        PROVE  1 <= Len(q.sackList) /\ Bytes(c) \subseteq Bytes(q.sackList[1])
    <2>1. n + m <= Missing(q) /\ Missing(q) <= q.nextRxSeq /\ Missing(q) \in Nat /\ q.nextRxSeq \in Nat
      BY <1>2, <1>3, MemberTypes DEF Buffer, Filled, Counted
    <2>2. c.first # n + m
      BY <1>3, <1>6, <2>1
    <2>3. c \in a.data \ r.data /\ c.first > a.nextRxSeq
      BY <1>2, <1>4, <1>6, <2>2
    <2> QED  BY <1>4, <1>5, <2>3
  <1>7. ASSUME NEW b \in BytesOf(r.data) \cup w.head..(w.tail - 1)
        PROVE  b < n + m \/ b \in BytesOf(q.data)
    <2>1. b \in BytesOf(a.data)
      BY <1>5
    <2>2. b \in Int
      BY <1>3, <2>1, BytesFacts
    <2>3. b \in BytesOf(q.data) \/ b \in n..(n + m - 1)
      BY <1>2, <2>1
    <2> QED  BY <1>2, <1>3, <2>2, <2>3
  <1>8. Got(q, r, n, m, w.head, w.tail)
    BY <1>2, <1>4, <1>5, <1>6, <1>7 DEF Got, NewestFirst
  <1>9. Limits(q, n + m, e)
    <2>1. SUFFICES ASSUME NEW M \in Nat, Largest(M)
                   PROVE  /\ e <= n + m + M
                          /\ \A b \in BytesOf(q.data) : b < n + m + M
                          /\ q.gotFin => StreamLen <= n + m + M
      BY DEF Limits
    <2>2. tail <= n + M
      BY <2>1 DEF Offered
    <2>3. e <= n + M /\ (\A b \in BytesOf(r.data) : b < n + M) /\ (r.gotFin => StreamLen <= n + M)
      BY <2>1 DEF Limits
    <2>4. ASSUME NEW b \in BytesOf(q.data) PROVE b < n + m + M
      <3>1. b \in BytesOf(r.data) \/ b \in w.head..(w.tail - 1)
        BY <1>2, <1>5
      <3>2. b \in Int
        BY <1>3, BytesFacts
      <3>3. b < n + M
        BY <1>1, <1>3, <2>2, <2>3, <3>1, <3>2
      <3> QED  BY <1>2, <1>3, <3>2, <3>3
    <2>5. q.gotFin => StreamLen <= n + m + M
      BY <1>3, <1>4, <1>5, <2>3, RxAssumption
    <2> QED  BY <1>3, <2>3, <2>4, <2>5
  <1> QED  BY <1>2, <1>8, <1>9 DEF q

LEMMA ReadableFacts ==
    ASSUME NEW r, NEW n, NEW add, Buffer(add.rx, n), NEW k \in Readable(r, add)
    PROVE  k \in Nat
  <1>1. add.rx.availBytes \in Nat
    BY MemberTypes DEF Buffer, Filled
  <1> QED  BY <1>1 DEF Readable
----------------------------------------------------------------------------
(***************************************************************************)
(* The actions.                                                            *)
(***************************************************************************)

\* What every step does to the stream: the next bytes are handed over, what is not
\* read stays, the newest chunk is reported first and at once.
Progressed ==
    /\ \E m \in Nat :
         /\ delivered' = delivered \o InSequence(Len(delivered), m)
         /\ \A b \in BytesOf(rx.data) : b < Len(delivered) + m \/ b \in BytesOf(rx'.data)
    /\ Finished(rx) => Finished(rx')
    /\ NewestFirst(rx', rx)
    /\ rx'.data # rx.data /\ rx'.size > rx.size /\ rx'.sackList # <<>> => answer' = "ACK"

LEMMA InvFacts ==
    ASSUME Inv
    PROVE  /\ Len(delivered) \in Nat /\ Buffer(rx, Len(delivered)) /\ edge \in Nat
           /\ rx.maxBuffer \in Sizes /\ Limits(rx, Len(delivered), edge)
           /\ rx \in RxMembers /\ StoredOnce(rx.data) /\ Filled(rx, Len(delivered))
           /\ rx.nextRxSeq \in Nat /\ aborted \in BOOLEAN
  <1>1. /\ Len(delivered) \in Nat /\ Buffer(rx, Len(delivered)) /\ edge \in Nat
        /\ rx.maxBuffer \in Sizes /\ Limits(rx, Len(delivered), edge) /\ aborted \in BOOLEAN
    BY DEF Inv, Situation
  <1>2. Filled(rx, Len(delivered)) /\ rx \in RxMembers /\ StoredOnce(rx.data)
    BY <1>1 DEF Buffer, Filled
  <1>3. rx.nextRxSeq \in Nat
    BY <1>2, MemberTypes
  <1> QED  BY <1>1, <1>2, <1>3

\* A step that leaves the data and what was delivered.
LEMMA Quiet ==
    ASSUME Inv, rx'.data = rx.data, delivered' = delivered, Finished(rx) => Finished(rx')
    PROVE  Progressed
  <1> DEFINE n == Len(delivered)
             e == delivered \o InSequence(n, 0)
  <1>1. n \in Nat /\ delivered = InSequence(0, n)
    BY DEF Inv
  <1>2. Len(e) = n + 0 /\ e = InSequence(0, Len(e))
    <2> HIDE DEF e
    <2>1. e = delivered \o InSequence(Len(delivered), 0)
      BY DEF e
    <2> QED  BY <1>1, <2>1, DeliveredGrows, ZenonT(40)
  <1>3. n + 0 = n
    BY <1>1
  <1> HIDE DEF e
  <1>4. e = delivered
    BY <1>1, <1>2, <1>3
  <1>5. delivered' = delivered \o InSequence(Len(delivered), 0)
    BY <1>4 DEF e
  <1>6. \A b \in BytesOf(rx.data) : b < Len(delivered) + 0 \/ b \in BytesOf(rx'.data)
    OBVIOUS
  <1>7. NewestFirst(rx', rx)
    BY DEF NewestFirst
  <1> QED  BY <1>5, <1>6, <1>7 DEF Progressed

\* A segment that is not out of range ends below what was offered, and none is
\* taken once the end is reached.
LEMMA Accepted ==
    ASSUME Inv, NEW head \in 0..StreamLen, NEW tail \in 0..StreamLen,
           Sent(head, tail), ~OutOfRange(rx, head, tail)
    PROVE  Offered(tail, Len(delivered)) /\ state # "CLOSE_WAIT"
  <1> DEFINE n == Len(delivered)
  <1>1. /\ n \in Nat /\ Buffer(rx, n) /\ edge \in Nat /\ rx.maxBuffer \in Sizes
        /\ Limits(rx, n, edge) /\ rx \in RxMembers /\ rx.nextRxSeq \in Nat
    BY InvFacts
  <1>2. /\ head \in Nat /\ tail \in Nat /\ head < tail /\ tail <= StreamLen
        /\ tail <= edge \/ (tail = head + 1 /\ head = edge /\ edge = rx.nextRxSeq)
    BY RxAssumption DEF Sent
  <1>3. state # "CLOSE_WAIT"
    <2>1. SUFFICES ASSUME state = "CLOSE_WAIT" PROVE FALSE
      OBVIOUS
    <2>2. head = rx.nextRxSeq
      BY <2>1 DEF OutOfRange
    <2>3. Finished(rx)
      BY <2>1 DEF Inv, Situation
    <2>4. Missing(rx) = StreamLen /\ Missing(rx) <= rx.nextRxSeq
      BY <1>1, <2>3, EndReached, MemberTypes
    <2> QED  BY <1>1, <1>2, <2>2, <2>4, RxAssumption
  <1>4. head < MaxRxSequence(rx)
    <2>1. MaxRxSequence(rx) \in Nat
      BY <1>1, EdgeFacts
    <2>2. ~(MaxRxSequence(rx) <= head)
      BY <1>3 DEF OutOfRange
    <2> QED  BY <1>2, <2>1, <2>2
  <1>5. ASSUME NEW M \in Nat, Largest(M) PROVE tail <= n + M
    <2>1. edge <= n + M
      BY <1>1, <1>5 DEF Limits
    <2>2. MaxRxSequence(rx) <= n + M /\ MaxRxSequence(rx) \in Nat
      BY <1>1, <1>5, EdgeFacts
    <2> QED  BY <1>1, <1>2, <1>4, <2>1, <2>2
  <1> QED  BY <1>3, <1>5 DEF Offered

\* The new state once the buffer is known.
LEMMA Stepped ==
    ASSUME Inv, NEW m \in Nat, delivered' = delivered \o InSequence(Len(delivered), m),
           Situation(state', rx', Len(delivered) + m, edge'),
           answer' \in {"ACK", "delayed", "nothing"}, aborted' \in BOOLEAN,
           aborted' => Len(delivered) + m + rx'.maxBuffer < Missing(rx')
    PROVE  Inv' /\ Len(delivered)' = Len(delivered) + m
  <1>1. Len(delivered) \in Nat /\ delivered = InSequence(0, Len(delivered))
    BY DEF Inv
  <1>2. Len(delivered') = Len(delivered) + m /\ delivered' = InSequence(0, Len(delivered'))
    BY <1>1, DeliveredGrows, ZenonT(40)
  <1>3. Len(delivered') \in Nat
    BY <1>1, <1>2
  <1> QED  BY <1>2, <1>3 DEF Inv

LEMMA SteppedQuietly ==
    ASSUME Inv, delivered' = delivered, Situation(state', rx', Len(delivered), edge'),
           answer' \in {"ACK", "delayed", "nothing"}, aborted' \in BOOLEAN,
           aborted' => Len(delivered) + rx'.maxBuffer < Missing(rx')
    PROVE  Inv'
  <1>1. Len(delivered) \in Nat /\ delivered = InSequence(0, Len(delivered))
    BY DEF Inv
  <1> QED  BY <1>1 DEF Inv
\* A step that only sends an ACK.
LEMMA AckStep ==
    ASSUME Inv, SendEmptyPacket(rx), rx' = rx, delivered' = delivered,
           \/ state' = state
           \/ state = "ESTABLISHED" /\ state' = "FIN_WAIT" /\ ClosesFirst
    PROVE  Inv' /\ Progressed
  <1> DEFINE n == Len(delivered)
  <1>1. /\ n \in Nat /\ Buffer(rx, n) /\ edge \in Nat /\ rx.maxBuffer \in Sizes /\ Limits(rx, n, edge)
    BY InvFacts
  <1>2. /\ edge' \in Nat /\ Limits(rx, n, edge') /\ answer' = "ACK" /\ aborted' \in BOOLEAN
        /\ aborted' => n + rx.maxBuffer < Missing(rx)
    BY <1>1, AckFacts, Zenon
  <1>3. /\ state \in {"ESTABLISHED", "CLOSE_WAIT", "FIN_WAIT", "TIME_WAIT"}
        /\ state \in {"ESTABLISHED", "FIN_WAIT"} <=> ~Finished(rx)
        /\ state \in {"FIN_WAIT", "TIME_WAIT"} => ClosesFirst
    BY DEF Inv, Situation
  <1>4. Situation(state', rx', n, edge')
    BY <1>1, <1>2, <1>3 DEF Situation
  <1>5. Inv'
    BY <1>2, <1>4, SteppedQuietly
  <1>6. Progressed
    BY Quiet
  <1> QED  BY <1>5, <1>6

\* ReceivedData in buffer state r, which is rx or rx with the FIN recorded.
LEMMA ReceiveStep ==
    ASSUME Inv, ~aborted, state \in {"ESTABLISHED", "FIN_WAIT"},
           NEW r, Buffer(r, Len(delivered)), Limits(r, Len(delivered), edge), r.maxBuffer \in Sizes,
           r.data = rx.data, NEW head \in Nat, NEW tail \in Nat, tail <= StreamLen,
           Offered(tail, Len(delivered)), Receive(r, head, tail)
    PROVE  Inv' /\ Progressed
  <1> DEFINE n == Len(delivered)
             add == Add(r, head, tail)
             w == TrimToWindow(r, head, tail)
  <1>1. n \in Nat /\ edge \in Nat /\ aborted \in BOOLEAN
    BY InvFacts
  <1>2. PICK k \in Readable(r, add) :
           /\ rx' = Extract(add.rx, k).rx
           /\ delivered' = delivered \o Extract(add.rx, k).out
           /\ AckOrDelay(rx', MustAck(r, add, rx', head, tail))
           /\ DoPeerClose(rx')
    BY DEF Receive
  <1> DEFINE read == Extract(add.rx, k)
  <1>3. k \in Nat
    <2> HIDE DEF add, w
    <2>1. add = Add(r, head, tail) /\ w = TrimToWindow(r, head, tail)
      BY DEF add, w
    <2>2. AddedTo(add, r, n, w, tail)
      BY <2>1, AddFacts, Zenon
    <2>3. Buffer(add.rx, n)
      BY <2>2 DEF AddedTo
    <2> QED  BY <2>3, ReadableFacts
  <1>4. PICK m \in Nat :
           /\ read.out = InSequence(n, m) /\ Got(read.rx, r, n, m, w.head, w.tail)
           /\ Limits(read.rx, n + m, edge)
    <2> HIDE DEF add, w, read
    <2>1. add = Add(r, head, tail) /\ w = TrimToWindow(r, head, tail) /\ read = Extract(add.rx, k)
      BY DEF add, w, read
    <2> QED  BY <1>1, <1>3, <2>1, ReceivedFacts, Zenon
  <1>5. rx' = read.rx /\ delivered' = delivered \o InSequence(n, m)
    BY <1>2, <1>4
  <1>6. /\ Buffer(rx', n + m) /\ NewestFirst(rx', r) /\ Limits(rx', n + m, edge)
        /\ rx'.maxBuffer = r.maxBuffer
        /\ \A b \in BytesOf(r.data) : b < n + m \/ b \in BytesOf(rx'.data)
    BY <1>4, <1>5 DEF Got
  <1> HIDE DEF add, w, read
  <1> DEFINE q == rx'
             must == MustAck(r, add, rx', head, tail)
  <1>7. AckOrDelay(rx', must)
    BY <1>2
  <1>8. /\ edge' \in Nat /\ Limits(rx', n + m, edge') /\ aborted' \in BOOLEAN
        /\ answer' \in {"ACK", "delayed"} /\ (must => answer' = "ACK")
        /\ aborted' => n + m + rx'.maxBuffer < Missing(rx')
    <2> HIDE DEF must
    <2>1. rx'.maxBuffer \in Sizes
      BY <1>6
    <2> QED  BY <1>1, <1>6, <1>7, <2>1, AckOrDelayFacts
  <1>9. rx'.sackList # <<>> => must
    <2>1. SUFFICES ASSUME rx'.sackList # <<>> PROVE must
      OBVIOUS
    <2>2. rx'.size > rx'.availBytes
      BY <1>6, <2>1, GapCounted DEF Buffer
    <2> QED  BY <2>2 DEF MustAck
  <1> HIDE DEF must
  <1>10. state' = IF Finished(rx') THEN "CLOSE_WAIT" ELSE state
    BY <1>2 DEF DoPeerClose
  <1>11. ~Finished(rx) /\ (state = "FIN_WAIT" => ClosesFirst)
    BY DEF Inv, Situation
  <1>12. Situation(state', rx', n + m, edge')
    <2>1. /\ state' \in {"ESTABLISHED", "CLOSE_WAIT", "FIN_WAIT", "TIME_WAIT"}
          /\ state' \in {"ESTABLISHED", "FIN_WAIT"} <=> ~Finished(rx')
          /\ state' \in {"FIN_WAIT", "TIME_WAIT"} => ClosesFirst
      BY <1>10, <1>11
    <2> QED  BY <1>6, <1>8, <2>1 DEF Situation
  <1>13. Inv'
    <2>1. answer' \in {"ACK", "delayed", "nothing"}
      BY <1>8
    <2> QED  BY <1>5, <1>8, <1>12, <2>1, Stepped
  <1>14. Progressed
    <2>1. NewestFirst(rx', rx)
      BY <1>6 DEF NewestFirst
    <2>2. rx'.data # rx.data /\ rx'.size > rx.size /\ rx'.sackList # <<>> => answer' = "ACK"
      BY <1>8, <1>9
    <2>3. \A b \in BytesOf(rx.data) : b < n + m \/ b \in BytesOf(rx'.data)
      BY <1>6
    <2> QED  BY <1>5, <1>11, <2>1, <2>2, <2>3 DEF Progressed
  <1> QED  BY <1>13, <1>14

LEMMA ReceivedDataStep ==
    ASSUME Inv, NEW head \in 0..StreamLen, NEW tail \in 0..StreamLen, ReceivedData(head, tail)
    PROVE  Inv' /\ Progressed
  <1>1. /\ ~aborted /\ state # "TIME_WAIT" /\ Sent(head, tail) /\ ~OutOfRange(rx, head, tail)
        /\ Receive(rx, head, tail)
    BY DEF ReceivedData, Receiving
  <1>2. Offered(tail, Len(delivered)) /\ state # "CLOSE_WAIT"
    BY <1>1, Accepted
  <1>3. state \in {"ESTABLISHED", "FIN_WAIT"}
    BY <1>1, <1>2 DEF Inv, Situation
  <1>4. head \in Nat /\ tail \in Nat /\ tail <= StreamLen
    BY RxAssumption
  <1>5. Buffer(rx, Len(delivered)) /\ Limits(rx, Len(delivered), edge) /\ rx.maxBuffer \in Sizes
    BY InvFacts
  <1> QED  BY <1>1, <1>2, <1>3, <1>4, <1>5, ReceiveStep
\* q is r with the FIN recorded.
FinTaken(q, r, n, e) ==
    /\ Buffer(q, n) /\ Limits(q, n, e) /\ Missing(q) = Missing(r)
    /\ q.gotFin /\ q.data = r.data /\ q.size = r.size /\ q.availBytes = r.availBytes
    /\ q.maxBuffer = r.maxBuffer /\ q.sackList = r.sackList
    /\ r.nextRxSeq <= q.nextRxSeq
    /\ Finished(r) => Finished(q)

LEMMA FinTakenFacts ==
    ASSUME NEW r, NEW n, NEW e, Buffer(r, n), Limits(r, n, e), Offered(StreamLen, n),
           NEW s \in Nat, s <= StreamLen,
           \A b \in s..(StreamLen - 1) : b < n \/ b \in BytesOf(r.data),
           NEW q, q = SetFinSequence(r, s)
    PROVE  FinTaken(q, r, n, e)
  <1>1. Filled(r, n)
    BY DEF Buffer
  <1>2. /\ Buffer(q, n) /\ Missing(q) = Missing(r)
        /\ q.gotFin /\ q.finSeq = s /\ q.data = r.data /\ q.size = r.size
        /\ q.availBytes = r.availBytes /\ q.maxBuffer = r.maxBuffer /\ q.sackList = r.sackList
        /\ r.nextRxSeq <= q.nextRxSeq
    BY <1>1, FinSet
  <1>3. Limits(q, n, e)
    BY <1>2 DEF Limits, Offered
  <1>4. Finished(r) => Finished(q)
    BY <1>2, EndReached
  <1> QED  BY <1>2, <1>3, <1>4 DEF FinTaken

\* The FIN recorded at the end of the stream.
LEMMA FinAtEnd ==
    ASSUME Inv, Offered(StreamLen, Len(delivered)), NEW q, q = SetFinSequence(rx, StreamLen)
    PROVE  FinTaken(q, rx, Len(delivered), edge)
  <1> DEFINE n == Len(delivered)
  <1>1. Buffer(rx, n) /\ Limits(rx, n, edge)
    BY InvFacts
  <1>2. StreamLen \in Nat /\ StreamLen <= StreamLen
    BY RxAssumption
  <1>3. \A b \in StreamLen..(StreamLen - 1) : b < n \/ b \in BytesOf(rx.data)
    BY <1>2
  <1> QED  BY <1>1, <1>2, <1>3, FinTakenFacts

\* A FIN arrives only when the whole stream was offered.
LEMMA FinOffered ==
    ASSUME Inv, NEW head \in 0..StreamLen, FinSent(head)
    PROVE  Offered(StreamLen, Len(delivered))
  <1>1. StreamLen \in 0..StreamLen /\ head \in Nat
    BY RxAssumption
  <1>2. CASE head < StreamLen
    <2>1. Sent(head, StreamLen) /\ ~OutOfRange(rx, head, StreamLen)
      BY <1>2 DEF FinSent
    <2> QED  BY <1>1, <2>1, Accepted
  <1>3. CASE ~(head < StreamLen)
    <2>1. edge >= StreamLen
      BY <1>3 DEF FinSent
    <2>2. Len(delivered) \in Nat /\ edge \in Nat /\ Limits(rx, Len(delivered), edge)
      BY InvFacts
    <2>3. ASSUME NEW M \in Nat, Largest(M) PROVE StreamLen <= Len(delivered) + M
      <3>1. edge <= Len(delivered) + M
        BY <2>2, <2>3 DEF Limits
      <3> QED  BY <2>1, <2>2, <3>1, RxAssumption
    <2> QED  BY <2>3 DEF Offered
  <1> QED  BY <1>2, <1>3

LEMMA PeerCloseStep ==
    ASSUME Inv, NEW head \in 0..StreamLen, PeerClose(head)
    PROVE  Inv' /\ Progressed
  <1> DEFINE n == Len(delivered)
             q == SetFinSequence(rx, StreamLen)
  <1>1. ~aborted /\ state = "ESTABLISHED" /\ FinSent(head)
    BY DEF PeerClose
  <1>2. /\ n \in Nat /\ Buffer(rx, n) /\ edge \in Nat /\ rx.maxBuffer \in Sizes
        /\ Limits(rx, n, edge) /\ aborted \in BOOLEAN
    BY InvFacts
  <1>3. Offered(StreamLen, n)
    BY <1>1, FinOffered
  <1>4. FinTaken(q, rx, n, edge)
    <2> HIDE DEF q
    <2>1. q = SetFinSequence(rx, StreamLen)
      BY DEF q
    <2> QED  BY <1>3, <2>1, FinAtEnd
  <1>5. /\ Buffer(q, n) /\ Limits(q, n, edge) /\ q.data = rx.data /\ q.maxBuffer = rx.maxBuffer
        /\ (Finished(rx) => Finished(q))
    <2> HIDE DEF q
    <2> QED  BY <1>4 DEF FinTaken
  <1>6. ~Finished(rx)
    BY <1>1 DEF Inv, Situation
  <1>7. aborted = FALSE
    BY <1>1, <1>2
  <1>8. CASE answer' = "nothing" /\ UNCHANGED <<state, rx, edge, delivered, aborted>>
    <2>1. Situation(state', rx', n, edge')
      BY <1>8 DEF Inv
    <2>2. Inv'
      BY <1>7, <1>8, <2>1, SteppedQuietly
    <2>3. Progressed
      BY <1>8, Quiet
    <2> QED  BY <2>2, <2>3
  <1>9. CASE Receive(q, head, StreamLen)
    <2>1. head \in Nat /\ StreamLen \in Nat /\ StreamLen <= StreamLen
      BY RxAssumption
    <2>2. state \in {"ESTABLISHED", "FIN_WAIT"} /\ q.maxBuffer \in Sizes
      BY <1>1, <1>2, <1>5
    <2> HIDE DEF q
    <2> QED  BY <1>1, <1>3, <1>5, <1>9, <2>1, <2>2, ReceiveStep
  <1>10. CASE /\ rx' = q
              /\ IF Finished(rx') THEN SendEmptyPacket(rx')
                 ELSE answer' = "nothing" /\ UNCHANGED <<edge, aborted>>
              /\ DoPeerClose(rx')
              /\ UNCHANGED delivered
    <2> HIDE DEF q
    <2>1. state' = IF Finished(rx') THEN "CLOSE_WAIT" ELSE state
      BY <1>10 DEF DoPeerClose
    <2>2. /\ edge' \in Nat /\ Limits(rx', n, edge') /\ aborted' \in BOOLEAN
          /\ answer' \in {"ACK", "nothing"} /\ (aborted' => n + rx'.maxBuffer < Missing(rx'))
      <3>1. CASE Finished(rx')
        <4>1. SendEmptyPacket(rx')
          BY <1>10, <3>1
        <4>2. Buffer(rx', n) /\ Limits(rx', n, edge) /\ rx'.maxBuffer \in Sizes
          BY <1>2, <1>5, <1>10
        <4> QED  BY <1>2, <4>1, <4>2, AckFacts
      <3>2. CASE ~Finished(rx')
        <4>1. answer' = "nothing" /\ edge' = edge /\ aborted' = FALSE /\ rx' = q
          BY <1>7, <1>10, <3>2
        <4> QED  BY <1>2, <1>5, <4>1
      <3> QED  BY <3>1, <3>2
    <2>3. Situation(state', rx', n, edge')
      BY <1>1, <1>2, <1>5, <1>10, <2>1, <2>2 DEF Situation
    <2>4. Inv'
      BY <1>10, <2>2, <2>3, SteppedQuietly
    <2>5. Progressed
      BY <1>5, <1>10, Quiet
    <2> QED  BY <2>4, <2>5
  <1> QED  BY <1>8, <1>9, <1>10 DEF PeerClose

LEMMA FinInWaitStep ==
    ASSUME Inv, FinInWait
    PROVE  Inv' /\ Progressed
  <1> DEFINE n == Len(delivered)
             q == SetFinSequence(rx, StreamLen)
  <1>1. /\ ~aborted /\ state \in {"CLOSE_WAIT", "FIN_WAIT"} /\ FinSent(StreamLen)
        /\ rx' = q /\ delivered' = delivered
        /\ IF state = "FIN_WAIT" /\ Finished(rx')
           THEN state' = "TIME_WAIT" /\ SendEmptyPacket(rx')
           ELSE answer' = "nothing" /\ UNCHANGED <<state, edge, aborted>>
    BY DEF FinInWait
  <1>2. /\ n \in Nat /\ Buffer(rx, n) /\ edge \in Nat /\ rx.maxBuffer \in Sizes
        /\ Limits(rx, n, edge) /\ aborted \in BOOLEAN
    BY InvFacts
  <1>3. Offered(StreamLen, n)
    <2>1. StreamLen \in 0..StreamLen
      BY RxAssumption
    <2> QED  BY <1>1, <2>1, FinOffered
  <1>4. FinTaken(q, rx, n, edge)
    <2> HIDE DEF q
    <2>1. q = SetFinSequence(rx, StreamLen)
      BY DEF q
    <2> QED  BY <1>3, <2>1, FinAtEnd
  <1> HIDE DEF q
  <1>5. /\ Buffer(rx', n) /\ Limits(rx', n, edge) /\ rx'.data = rx.data
        /\ rx'.maxBuffer = rx.maxBuffer /\ (Finished(rx) => Finished(rx'))
    BY <1>1, <1>4 DEF FinTaken
  <1>6. /\ (state = "CLOSE_WAIT" => Finished(rx)) /\ (state = "FIN_WAIT" => ClosesFirst)
    BY DEF Inv, Situation
  <1>7. aborted = FALSE
    BY <1>1, <1>2
  <1>8. /\ edge' \in Nat /\ Limits(rx', n, edge') /\ aborted' \in BOOLEAN
        /\ answer' \in {"ACK", "nothing"} /\ (aborted' => n + rx'.maxBuffer < Missing(rx'))
        /\ state' = IF state = "FIN_WAIT" /\ Finished(rx') THEN "TIME_WAIT" ELSE state
    <2>1. CASE state = "FIN_WAIT" /\ Finished(rx')
      <3>1. SendEmptyPacket(rx') /\ state' = "TIME_WAIT" /\ rx'.maxBuffer \in Sizes
        BY <1>1, <1>2, <1>5, <2>1
      <3>2. /\ edge' \in Nat /\ Limits(rx', n, edge') /\ answer' = "ACK" /\ aborted' \in BOOLEAN
            /\ aborted' => n + rx'.maxBuffer < Missing(rx')
        BY <1>2, <1>5, <3>1, AckFacts
      <3> QED  BY <2>1, <3>1, <3>2
    <2>2. CASE ~(state = "FIN_WAIT" /\ Finished(rx'))
      <3>1. answer' = "nothing" /\ edge' = edge /\ aborted' = FALSE /\ state' = state
        BY <1>1, <1>7, <2>2
      <3> QED  BY <1>2, <1>5, <2>2, <3>1
    <2> QED  BY <2>1, <2>2
  <1>9. Situation(state', rx', n, edge')
    BY <1>1, <1>2, <1>5, <1>6, <1>8 DEF Situation
  <1>10. Inv'
    BY <1>1, <1>8, <1>9, SteppedQuietly
  <1>11. Progressed
    BY <1>1, <1>5, Quiet
  <1> QED  BY <1>10, <1>11
\* The buffer keeps its size where this side may close first.  ProcessWait records a
\* FIN that came with data at the first byte of that data, as if all of it had been
\* stored; a buffer that shrank after the window was offered may have cut it.
SizeKept == ClosesFirst => BufferSizes \subseteq {RcvBufSize}

\* With the buffer as large as it ever was, what was sent is stored to its end.
LEMMA StoredToEnd ==
    ASSUME NEW r, NEW n, NEW e \in Nat, Buffer(r, n), Limits(r, n, e), Offered(StreamLen, n),
           Largest(r.maxBuffer), NEW head \in Nat, head < StreamLen,
           NEW w, w = TrimToWindow(r, head, StreamLen), NEW m \in Nat, NEW q,
           Got(q, r, n, m, w.head, w.tail), NEW b \in head..(StreamLen - 1)
    PROVE  b < n + m \/ b \in BytesOf(q.data)
  <1> DEFINE start == Max({head, r.nextRxSeq})
  <1>1. r \in RxMembers /\ StoredOnce(r.data) /\ n \in Nat /\ Counted(r, n)
    BY DEF Buffer, Filled
  <1>2. /\ r.nextRxSeq \in Nat /\ r.maxBuffer \in Nat /\ Missing(r) \in Nat
        /\ r.nextRxSeq <= StreamLen => Missing(r) = r.nextRxSeq
        /\ r.nextRxSeq > StreamLen => Missing(r) = StreamLen
    BY <1>1, MemberTypes
  <1>3. StreamLen \in Nat /\ b \in Nat /\ head <= b /\ b < StreamLen
    BY RxAssumption
  <1>4. StreamLen <= n + r.maxBuffer
    BY <1>2 DEF Offered
  <1>5. r.data = {} \/ StreamLen <= FirstKey(r.data) + r.maxBuffer
    <2>1. SUFFICES ASSUME r.data # {} PROVE StreamLen <= FirstKey(r.data) + r.maxBuffer
      OBVIOUS
    <2>2. PICK c \in r.data : c.first = FirstKey(r.data)
      BY <1>1, <2>1, FirstKeyFacts
    <2>3. n <= c.first /\ c.first \in Nat
      BY <1>1, ChunkFacts DEF Counted
    <2> QED  BY <1>1, <1>2, <1>3, <1>4, <2>2, <2>3
  <1>6. /\ w.tail = StreamLen /\ w.head \in Nat /\ w.head <= start
    <2> HIDE DEF start
    <2>1. start = Max({head, r.nextRxSeq})
      BY DEF start
    <2> QED  BY <1>1, <1>3, <1>5, <2>1, TrimFacts
  <1>7. start = head \/ start = r.nextRxSeq
    <2>1. Max({head, r.nextRxSeq}) = IF head >= r.nextRxSeq THEN head ELSE r.nextRxSeq
      BY <1>2, PairFacts
    <2> QED  BY <2>1
  <1> HIDE DEF start
  <1>8. \A x \in BytesOf(r.data) \cup w.head..(w.tail - 1) : x < n + m \/ x \in BytesOf(q.data)
    BY DEF Got
  <1>9. CASE b >= r.nextRxSeq
    <2>1. w.head <= b
      BY <1>2, <1>3, <1>6, <1>7, <1>9
    <2>2. b \in w.head..(w.tail - 1)
      BY <1>3, <1>6, <2>1
    <2> QED  BY <1>8, <2>2
  <1>10. CASE b < r.nextRxSeq
    <2>1. b < Missing(r)
      BY <1>2, <1>3, <1>10
    <2>2. b < n \/ b \in n..(Missing(r) - 1)
      BY <1>1, <1>2, <1>3, <2>1
    <2>3. b < n \/ b \in BytesOf(r.data)
      BY <1>1, <2>2 DEF Counted
    <2> QED  BY <1>1, <1>3, <1>8, <2>3
  <1> QED  BY <1>2, <1>3, <1>9, <1>10

LEMMA FinWithDataStep ==
    ASSUME Inv, SizeKept, NEW head \in 0..StreamLen, FinWithDataInFinWait(head)
    PROVE  Inv' /\ Progressed
  <1> DEFINE n == Len(delivered)
             add == Add(rx, head, StreamLen)
             w == TrimToWindow(rx, head, StreamLen)
  <1>1. ~aborted /\ state = "FIN_WAIT" /\ head < StreamLen /\ FinSent(head)
    BY DEF FinWithDataInFinWait
  <1>2. PICK k \in Readable(rx, add) :
           /\ rx' = SetFinSequence(Extract(add.rx, k).rx, head)
           /\ delivered' = delivered \o Extract(add.rx, k).out
           /\ IF Finished(rx')
              THEN /\ state' = "TIME_WAIT" /\ answer' = "ACK"
                   /\ edge' \in {edge, Max({edge, MaxRxSequence(Extract(add.rx, k).rx)})}
                   /\ UNCHANGED aborted
              ELSE /\ AckOrDelay(Extract(add.rx, k).rx,
                                 MustAck(rx, add, Extract(add.rx, k).rx, head, StreamLen))
                   /\ UNCHANGED state
    BY DEF FinWithDataInFinWait
  <1> DEFINE read == Extract(add.rx, k)
             q == read.rx
  <1>3. /\ n \in Nat /\ Buffer(rx, n) /\ edge \in Nat /\ rx.maxBuffer \in Sizes
        /\ Limits(rx, n, edge) /\ aborted \in BOOLEAN
    BY InvFacts
  <1>4. Offered(StreamLen, n)
    BY <1>1, FinOffered
  <1>5. head \in Nat /\ head <= StreamLen /\ StreamLen \in Nat /\ StreamLen <= StreamLen
    BY RxAssumption
  <1>6. k \in Nat
    <2> HIDE DEF add, w
    <2>1. add = Add(rx, head, StreamLen) /\ w = TrimToWindow(rx, head, StreamLen)
      BY DEF add, w
    <2>2. AddedTo(add, rx, n, w, StreamLen)
      BY <1>3, <1>5, <2>1, AddFacts, Zenon
    <2>3. Buffer(add.rx, n)
      BY <2>2 DEF AddedTo
    <2> QED  BY <2>3, ReadableFacts
  <1>7. PICK m \in Nat :
           /\ read.out = InSequence(n, m) /\ Got(q, rx, n, m, w.head, w.tail)
           /\ Limits(q, n + m, edge)
    <2> HIDE DEF add, w, read
    <2>1. add = Add(rx, head, StreamLen) /\ w = TrimToWindow(rx, head, StreamLen)
          /\ read = Extract(add.rx, k)
      BY DEF add, w, read
    <2> QED  BY <1>3, <1>4, <1>5, <1>6, <2>1, ReceivedFacts, Zenon
  <1>8. ClosesFirst /\ ~Finished(rx)
    BY <1>1 DEF Inv, Situation
  <1>9. Largest(rx.maxBuffer)
    BY <1>3, <1>8, SizeFacts DEF SizeKept, Sizes, Largest
  <1>10. delivered' = delivered \o InSequence(n, m) /\ rx' = SetFinSequence(q, head)
    BY <1>2, <1>7
  <1> DEFINE must == MustAck(rx, add, q, head, StreamLen)
  <1>11. IF Finished(rx')
         THEN /\ state' = "TIME_WAIT" /\ answer' = "ACK"
              /\ edge' \in {edge, Max({edge, MaxRxSequence(q)})} /\ aborted' = aborted
         ELSE AckOrDelay(q, must) /\ state' = state
    BY <1>2
  <1>12. q.sackList # <<>> => must
    <2>1. SUFFICES ASSUME q.sackList # <<>> PROVE must
      OBVIOUS
    <2> HIDE DEF q, add
    <2>2. q.size > q.availBytes
      BY <1>7, <2>1, GapCounted DEF Buffer, Got
    <2> QED  BY <2>2 DEF MustAck
  <1>13. \A b \in head..(StreamLen - 1) : b < n + m \/ b \in BytesOf(q.data)
    <2> HIDE DEF w, q
    <2>1. w = TrimToWindow(rx, head, StreamLen)
      BY DEF w
    <2>2. ASSUME NEW b \in head..(StreamLen - 1) PROVE b < n + m \/ b \in BytesOf(q.data)
      BY <1>1, <1>3, <1>4, <1>5, <1>7, <1>9, <2>1, StoredToEnd
    <2> QED  BY <2>2
  <1> HIDE DEF w, q, read, add, must
  <1>14. /\ Buffer(q, n + m) /\ NewestFirst(q, rx) /\ q.maxBuffer = rx.maxBuffer
         /\ \A b \in BytesOf(rx.data) : b < n + m \/ b \in BytesOf(q.data)
    BY <1>7 DEF Got
  <1>15. Offered(StreamLen, n + m)
    BY <1>3, <1>4, <1>5 DEF Offered
  <1>16. FinTaken(rx', q, n + m, edge)
    BY <1>5, <1>7, <1>10, <1>13, <1>14, <1>15, FinTakenFacts
  <1>17. /\ Buffer(rx', n + m) /\ Limits(rx', n + m, edge) /\ Missing(rx') = Missing(q)
         /\ rx'.data = q.data /\ rx'.size = q.size /\ rx'.gotFin
         /\ rx'.maxBuffer = rx.maxBuffer /\ rx'.sackList = q.sackList
         /\ q.nextRxSeq <= rx'.nextRxSeq
    BY <1>14, <1>16 DEF FinTaken
  <1>18. /\ edge' \in Nat /\ Limits(rx', n + m, edge') /\ aborted' \in BOOLEAN
         /\ answer' \in {"ACK", "delayed"} /\ (q.sackList # <<>> => answer' = "ACK")
         /\ (aborted' => n + m + rx'.maxBuffer < Missing(rx'))
         /\ state' = IF Finished(rx') THEN "TIME_WAIT" ELSE state
    <2>1. CASE Finished(rx')
      <3> DEFINE top == MaxRxSequence(q)
      <3>1. /\ state' = "TIME_WAIT" /\ answer' = "ACK" /\ edge' \in {edge, Max({edge, top})}
            /\ aborted' = aborted
        BY <1>11, <2>1
      <3>2. top \in Nat /\ \A M \in Nat : Largest(M) => top <= n + m + M
        <4>1. q.maxBuffer \in Sizes
          BY <1>3, <1>14
        <4> QED  BY <1>7, <1>14, <4>1, EdgeFacts
      <3> HIDE DEF top
      <3>3. edge' = edge \/ edge' = top
        <4>1. Max({edge, top}) = IF edge >= top THEN edge ELSE top
          BY <1>3, <3>2, PairFacts
        <4> QED  BY <3>1, <4>1
      <3>4. edge' \in Nat /\ Limits(rx', n + m, edge')
        BY <1>3, <1>17, <3>2, <3>3 DEF Limits
      <3>5. aborted' = FALSE
        BY <1>1, <1>3, <3>1
      <3> QED  BY <2>1, <3>1, <3>4, <3>5
    <2>2. CASE ~Finished(rx')
      <3>1. AckOrDelay(q, must) /\ state' = state
        BY <1>11, <2>2
      <3>2. q.maxBuffer \in Sizes
        BY <1>3, <1>14
      <3>3. /\ edge' \in Nat /\ Limits(q, n + m, edge') /\ aborted' \in BOOLEAN
            /\ answer' \in {"ACK", "delayed"} /\ (must => answer' = "ACK")
            /\ aborted' => n + m + q.maxBuffer < Missing(q)
        BY <1>1, <1>3, <1>7, <1>14, <3>1, <3>2, AckOrDelayFacts
      <3>4. Limits(rx', n + m, edge')
        BY <1>17, <3>3 DEF Limits
      <3> QED  BY <1>12, <1>14, <1>17, <2>2, <3>1, <3>3, <3>4
    <2> QED  BY <2>1, <2>2
  <1>19. Situation(state', rx', n + m, edge')
    <2>1. /\ state' \in {"ESTABLISHED", "CLOSE_WAIT", "FIN_WAIT", "TIME_WAIT"}
          /\ state' \in {"ESTABLISHED", "FIN_WAIT"} <=> ~Finished(rx')
          /\ state' \in {"FIN_WAIT", "TIME_WAIT"} => ClosesFirst
      BY <1>1, <1>8, <1>18
    <2> QED  BY <1>3, <1>17, <1>18, <2>1 DEF Situation
  <1>20. Inv'
    <2>1. answer' \in {"ACK", "delayed", "nothing"}
      BY <1>18
    <2> QED  BY <1>10, <1>18, <1>19, <2>1, Stepped
  <1>21. NewestFirst(rx', rx)
    <2>1. ASSUME NEW c \in rx'.data \ rx.data, c.first > rx'.nextRxSeq
          PROVE  1 <= Len(rx'.sackList) /\ Bytes(c) \subseteq Bytes(rx'.sackList[1])
      <3>1. c \in q.data \ rx.data /\ c.first \in Nat
        BY <1>14, <1>17, <2>1, ChunkFacts DEF Buffer, Filled
      <3>2. q.nextRxSeq \in Nat /\ rx'.nextRxSeq \in Nat
        BY <1>14, <1>17, MemberTypes DEF Buffer, Filled
      <3>3. c.first > q.nextRxSeq
        BY <1>17, <2>1, <3>1, <3>2
      <3> QED  BY <1>14, <1>17, <3>1, <3>3 DEF NewestFirst
    <2> QED  BY <2>1 DEF NewestFirst
  <1>22. Progressed
    <2>1. rx'.data # rx.data /\ rx'.size > rx.size /\ rx'.sackList # <<>> => answer' = "ACK"
      BY <1>17, <1>18
    <2>2. \A b \in BytesOf(rx.data) : b < n + m \/ b \in BytesOf(rx'.data)
      BY <1>14, <1>17
    <2> QED  BY <1>8, <1>10, <1>21, <2>1, <2>2 DEF Progressed
  <1> QED  BY <1>20, <1>22
LEMMA RecvStep ==
    ASSUME Inv, NEW maxSize \in 1..StreamLen, Recv(maxSize)
    PROVE  Inv' /\ Progressed
  <1> DEFINE n == Len(delivered)
             read == Extract(rx, maxSize)
  <1>1. /\ ~aborted /\ rx' = read.rx /\ delivered' = delivered \o read.out
        /\ answer' = "nothing" /\ state' = state /\ edge' = edge /\ aborted' = aborted
    BY DEF Recv
  <1>2. /\ n \in Nat /\ Buffer(rx, n) /\ edge \in Nat /\ rx.maxBuffer \in Sizes
        /\ Limits(rx, n, edge) /\ aborted \in BOOLEAN /\ rx \in RxMembers
    BY InvFacts
  <1>3. PICK m \in Nat : TakenOut(read, rx, n, m)
    <2>1. maxSize \in Nat
      BY RxAssumption
    <2> HIDE DEF read
    <2>2. read = Extract(rx, maxSize)
      BY DEF read
    <2> QED  BY <1>2, <2>1, <2>2, ExtractFacts, Zenon
  <1> HIDE DEF read
  <1>4. /\ delivered' = delivered \o InSequence(n, m)
        /\ Buffer(rx', n + m) /\ ReadFrom(rx', rx) /\ Missing(rx') = Missing(rx)
        /\ BytesOf(rx'.data) = BytesOf(rx.data) \ n..(n + m - 1)
        /\ \A c \in rx'.data : c \in rx.data \/ c.first = n + m
        /\ m > 0 => rx'.size < rx.size
        /\ m = 0 => rx' = rx
    BY <1>1, <1>3 DEF TakenOut
  <1>5. rx' \in RxMembers /\ StoredOnce(rx'.data)
    BY <1>4 DEF Buffer, Filled
  <1>6. /\ rx'.nextRxSeq = rx.nextRxSeq /\ rx'.gotFin = rx.gotFin /\ rx'.finSeq = rx.finSeq
        /\ rx'.maxBuffer = rx.maxBuffer
    BY <1>2, <1>4 DEF ReadFrom, RxMembers
  <1>7. Finished(rx') <=> Finished(rx)
    BY <1>6 DEF Finished
  <1>8. Limits(rx', n + m, edge)
    <2>1. SUFFICES ASSUME NEW M \in Nat, Largest(M)
                   PROVE  /\ edge <= n + m + M
                          /\ \A b \in BytesOf(rx'.data) : b < n + m + M
                          /\ rx'.gotFin => StreamLen <= n + m + M
      BY DEF Limits
    <2>2. /\ edge <= n + M /\ (\A b \in BytesOf(rx.data) : b < n + M)
          /\ (rx.gotFin => StreamLen <= n + M)
      BY <1>2, <2>1 DEF Limits
    <2>3. ASSUME NEW b \in BytesOf(rx'.data) PROVE b < n + m + M
      <3>1. b \in Int
        BY <1>5, BytesFacts
      <3>2. b < n + M
        BY <1>4, <2>2
      <3> QED  BY <1>2, <3>1, <3>2
    <2> QED  BY <1>2, <1>6, <2>2, <2>3, RxAssumption
  <1>9. Situation(state', rx', n + m, edge')
    <2>1. /\ state \in {"ESTABLISHED", "CLOSE_WAIT", "FIN_WAIT", "TIME_WAIT"}
          /\ state \in {"ESTABLISHED", "FIN_WAIT"} <=> ~Finished(rx)
          /\ state \in {"FIN_WAIT", "TIME_WAIT"} => ClosesFirst
      BY DEF Inv, Situation
    <2>2. state' = state /\ edge' = edge
      BY <1>1
    <2> QED  BY <1>2, <1>4, <1>6, <1>7, <1>8, <2>1, <2>2 DEF Situation
  <1>10. aborted' = FALSE
    BY <1>1, <1>2
  <1>11. Inv'
    BY <1>1, <1>4, <1>9, <1>10, Stepped
  <1>12. NewestFirst(rx', rx)
    <2>1. n + m <= Missing(rx') /\ Missing(rx') <= rx'.nextRxSeq
          /\ Missing(rx') \in Nat /\ rx'.nextRxSeq \in Nat
      BY <1>4, <1>5, MemberTypes DEF Buffer, Filled, Counted
    <2>2. \A c \in rx'.data \ rx.data : ~(c.first > rx'.nextRxSeq)
      BY <1>2, <1>4, <2>1
    <2> QED  BY <2>2 DEF NewestFirst
  <1>13. ~(rx'.size > rx.size)
    <2>1. rx.size \in Nat /\ rx'.size \in Nat
      BY <1>2, <1>5, MemberTypes
    <2> QED  BY <1>4, <2>1
  <1>14. \A b \in BytesOf(rx.data) : b < n + m \/ b \in BytesOf(rx'.data)
    <2>1. BytesOf(rx.data) \subseteq Int
      BY <1>2, BytesFacts DEF Buffer, Filled
    <2> QED  BY <1>2, <1>4, <2>1
  <1>15. Progressed
    BY <1>4, <1>7, <1>12, <1>13, <1>14 DEF Progressed
  <1> QED  BY <1>11, <1>15

LEMMA SetRcvBufSizeStep ==
    ASSUME Inv, NEW size \in BufferSizes, SetRcvBufSize(size)
    PROVE  Inv' /\ Progressed
  <1> DEFINE n == Len(delivered)
             q == [rx EXCEPT !.maxBuffer = size]
  <1>1. /\ ~aborted /\ rx' = q /\ state' = state /\ delivered' = delivered
        /\ IF size > rx.maxBuffer THEN SendEmptyPacket(rx')
           ELSE answer' = "nothing" /\ edge' = edge /\ aborted' = aborted
    BY DEF SetRcvBufSize
  <1>2. /\ n \in Nat /\ Buffer(rx, n) /\ edge \in Nat /\ rx.maxBuffer \in Sizes
        /\ Limits(rx, n, edge) /\ aborted \in BOOLEAN /\ rx \in RxMembers /\ StoredOnce(rx.data)
    BY InvFacts
  <1>3. size \in Sizes /\ size \in Nat
    BY SizeFacts DEF Sizes
  <1>4. /\ q \in RxMembers /\ q.maxBuffer = size /\ q.data = rx.data /\ q.nextRxSeq = rx.nextRxSeq
        /\ q.gotFin = rx.gotFin /\ q.finSeq = rx.finSeq /\ q.size = rx.size
        /\ q.availBytes = rx.availBytes /\ q.sackList = rx.sackList /\ q.dropped = rx.dropped
    BY <1>2, <1>3 DEF RxMembers
  <1> HIDE DEF q
  <1>5. Missing(q) = Missing(rx) /\ (Finished(q) <=> Finished(rx))
    BY <1>4 DEF Missing, Finished
  <1>6. Buffer(q, n)
    <2>1. Counted(q, n)
      BY <1>2, <1>4, <1>5 DEF Buffer, Filled, Counted
    <2>2. FinRecorded(q, n)
      BY <1>2, <1>4 DEF Buffer, Filled, FinRecorded
    <2>3. Sacked(q)
      BY <1>2, <1>4 DEF Buffer, Filled, Sacked
    <2>4. q.gotFin => q.nextRxSeq # q.finSeq
      BY <1>2, <1>4 DEF Buffer
    <2> QED  BY <1>2, <1>4, <2>1, <2>2, <2>3, <2>4 DEF Buffer, Filled
  <1>7. Limits(q, n, edge)
    BY <1>2, <1>4 DEF Limits
  <1>8. /\ edge' \in Nat /\ Limits(rx', n, edge') /\ aborted' \in BOOLEAN
        /\ answer' \in {"ACK", "nothing"} /\ (aborted' => n + rx'.maxBuffer < Missing(rx'))
    <2>1. CASE size > rx.maxBuffer
      <3>1. SendEmptyPacket(q)
        BY <1>1, <2>1
      <3>2. /\ edge' \in Nat /\ Limits(q, n, edge') /\ answer' = "ACK" /\ aborted' \in BOOLEAN
            /\ aborted' => n + q.maxBuffer < Missing(q)
        BY <1>2, <1>3, <1>4, <1>6, <1>7, <3>1, AckFacts
      <3> QED  BY <1>1, <3>2
    <2>2. CASE ~(size > rx.maxBuffer)
      <3>1. answer' = "nothing" /\ edge' = edge /\ aborted' = FALSE /\ rx' = q
        BY <1>1, <1>2, <2>2
      <3> QED  BY <1>2, <1>7, <3>1
    <2> QED  BY <2>1, <2>2
  <1>9. Situation(state', rx', n, edge')
    <2>1. /\ state \in {"ESTABLISHED", "CLOSE_WAIT", "FIN_WAIT", "TIME_WAIT"}
          /\ state \in {"ESTABLISHED", "FIN_WAIT"} <=> ~Finished(rx)
          /\ state \in {"FIN_WAIT", "TIME_WAIT"} => ClosesFirst
      BY DEF Inv, Situation
    <2>2. state' = state /\ rx' = q
      BY <1>1
    <2> QED  BY <1>3, <1>4, <1>5, <1>6, <1>8, <2>1, <2>2 DEF Situation
  <1>10. Inv'
    BY <1>1, <1>8, <1>9, SteppedQuietly
  <1>11. Progressed
    BY <1>1, <1>4, <1>5, Quiet
  <1> QED  BY <1>10, <1>11

LEMMA InitInv ==
    ASSUME Init
    PROVE  Inv
  <1>1. /\ rx \in RxMembers /\ rx.data = {} /\ rx.nextRxSeq = 0 /\ ~rx.gotFin
        /\ rx.size = 0 /\ rx.availBytes = 0 /\ rx.maxBuffer = RcvBufSize /\ rx.sackList = <<>>
        /\ rx.sackList \in Seq(Chunk)
    BY RxAssumption DEF Init, RxMembers, Position
  <1>2. Len(delivered) = 0 /\ delivered = InSequence(0, 0)
    BY DEF Init, InSequence
  <1>3. BytesOf(rx.data) = {} /\ StoredOnce(rx.data)
    BY <1>1 DEF BytesOf, StoredOnce
  <1>4. Missing(rx) = 0
    BY <1>1, RxAssumption DEF Missing
  <1>5. Counted(rx, 0)
    BY <1>1, <1>3, <1>4, FS_EmptySet DEF Counted
  <1>6. FinRecorded(rx, 0)
    BY <1>1, RxAssumption DEF FinRecorded
  <1>7. Sacked(rx)
    BY <1>1, <1>3, RxAssumption DEF Sacked, Blocks
  <1>8. Buffer(rx, 0)
    BY <1>1, <1>3, <1>5, <1>6, <1>7 DEF Buffer, Filled
  <1>9. ~Finished(rx)
    BY <1>1 DEF Finished
  <1>10. Limits(rx, 0, edge) /\ edge \in Nat
    BY <1>1, <1>3, RxAssumption DEF Init, Limits, Largest, Sizes
  <1>11. Situation(state, rx, 0, edge)
    BY <1>1, <1>8, <1>9, <1>10 DEF Init, Situation, Sizes
  <1> QED  BY <1>2, <1>11 DEF Init, Inv

LEMMA NextInv ==
    ASSUME Inv, SizeKept, Next
    PROVE  Inv' /\ Progressed
  <1>1. ASSUME NEW head \in 0..StreamLen, NEW tail \in 0..StreamLen, DiscardOutOfRange(head, tail)
        PROVE  Inv' /\ Progressed
    BY <1>1, AckStep DEF DiscardOutOfRange
  <1>2. CASE ShutdownSend
    BY <1>2, AckStep DEF ShutdownSend
  <1>3. CASE SendAck
    BY <1>3, AckStep DEF SendAck
  <1> QED  BY <1>1, <1>2, <1>3, ReceivedDataStep, PeerCloseStep, FinWithDataStep, FinInWaitStep,
              RecvStep, SetRcvBufSizeStep, Zenon DEF Next

LEMMA StutterInv ==
    ASSUME Inv, UNCHANGED vars
    PROVE  Inv' /\ Progressed
  <1>1. /\ state' = state /\ rx' = rx /\ edge' = edge /\ delivered' = delivered
        /\ answer' = answer /\ aborted' = aborted
    BY DEF vars
  <1>2. Inv'
    BY <1>1 DEF Inv
  <1>3. Progressed
    BY <1>1, Quiet
  <1> QED  BY <1>2, <1>3
----------------------------------------------------------------------------
(***************************************************************************)
(* The theorems.                                                           *)
(***************************************************************************)

\* The buffer holds the stream from the last byte read on, whatever arrived in
\* whatever order: every part of the invariant is kept by every handler.
THEOREM Invariance ==
    ASSUME SizeKept
    PROVE  Spec => []Inv
  <1>1. Inv /\ [Next]_vars => Inv'
    BY NextInv, StutterInv
  <1> QED  BY InitInv, <1>1, PTL DEF Spec

LEMMA InvTypeOK ==
    ASSUME Inv
    PROVE  TypeOK
  <1>1. rx \in RxMembers /\ edge \in Nat /\ Len(delivered) \in Nat
    BY InvFacts
  <1>2. /\ rx.data \subseteq Chunk /\ rx.sackList \in Seq(Chunk)
        /\ rx.nextRxSeq \in Position /\ rx.finSeq \in Position
        /\ rx.gotFin \in BOOLEAN /\ rx.dropped \in BOOLEAN
        /\ rx.size \in Nat /\ rx.availBytes \in Nat /\ rx.maxBuffer \in Nat
    BY <1>1 DEF RxMembers
  <1>3. delivered \in Seq(Position)
    <2> DEFINE n == Len(delivered)
    <2>1. delivered = InSequence(0, n) /\ n \in Nat
      BY DEF Inv
    <2>2. n <= StreamLen
      <3>1. n <= Missing(rx) /\ Missing(rx) <= StreamLen /\ Missing(rx) \in Nat
        BY <1>1, InvFacts, MemberTypes DEF Filled, Counted
      <3> QED  BY <2>1, <3>1, RxAssumption
    <2> HIDE DEF n
    <2>3. \A i \in 1..n : 0 + i - 1 \in Position
      BY <2>1, <2>2, RxAssumption DEF Position
    <2>4. InSequence(0, n) \in Seq(Position)
      BY <2>1, <2>3 DEF InSequence
    <2> QED  BY <2>1, <2>4
  <1>4. /\ state \in {"ESTABLISHED", "CLOSE_WAIT", "FIN_WAIT", "TIME_WAIT"}
        /\ answer \in {"ACK", "delayed", "nothing"} /\ aborted \in BOOLEAN
    BY DEF Inv, Situation
  <1> QED  BY <1>1, <1>2, <1>3, <1>4 DEF TypeOK

LEMMA InvAccounting ==
    ASSUME Inv
    PROVE  Accounting
  <1> DEFINE n == Len(delivered)
             missing == Min({rx.nextRxSeq, StreamLen})
  <1>1. /\ n \in Nat /\ rx \in RxMembers /\ StoredOnce(rx.data) /\ Filled(rx, n) /\ Buffer(rx, n)
        /\ rx.nextRxSeq \in Nat
    BY InvFacts
  <1>2. missing = Missing(rx)
    <2> DEFINE k == rx.nextRxSeq
    <2>1. k \in Int /\ StreamLen \in Int
      BY <1>1, RxAssumption
    <2> HIDE DEF k
    <2>2. Min({k, StreamLen}) = IF k <= StreamLen THEN k ELSE StreamLen
      BY <2>1, PairFacts
    <2> QED  BY <2>2 DEF Missing, k
  <1>3. Held(rx) = BytesOf(rx.data)
    BY DEF Held, BytesOf
  <1>4. /\ \A c \in rx.data : c.first < c.last
        /\ \A c, d \in rx.data : c = d \/ c.last <= d.first \/ d.last <= c.first
    BY <1>1 DEF StoredOnce
  <1>5. /\ rx.size = Cardinality(BytesOf(rx.data)) /\ rx.availBytes = Missing(rx) - n
        /\ n..(Missing(rx) - 1) \subseteq BytesOf(rx.data) /\ Missing(rx) \notin BytesOf(rx.data)
    BY <1>1 DEF Filled, Counted
  <1>6. \A b \in BytesOf(rx.data) : b >= n
    <2>1. SUFFICES ASSUME NEW b \in BytesOf(rx.data) PROVE b >= n
      OBVIOUS
    <2>2. b \in Int /\ \E c \in rx.data : c.first <= b
      BY <1>1, BytesFacts
    <2>3. PICK c \in rx.data : c.first <= b
      BY <2>2
    <2>4. n <= c.first /\ c.first \in Nat
      BY <1>1, ChunkFacts DEF Filled, Counted
    <2> QED  BY <1>1, <2>2, <2>3, <2>4
  <1>7. state = "CLOSE_WAIT" /\ rx.finSeq = StreamLen => rx.nextRxSeq = StreamLen + 1
    <2>1. SUFFICES ASSUME state = "CLOSE_WAIT", rx.finSeq = StreamLen
                   PROVE  rx.nextRxSeq = StreamLen + 1
      OBVIOUS
    <2>2. StreamLen < rx.nextRxSeq
      BY <2>1 DEF Inv, Situation, Finished
    <2>3. rx.nextRxSeq <= StreamLen + 1
      BY <1>1, MemberTypes
    <2> QED  BY <1>1, <2>2, <2>3, RxAssumption
  <1> HIDE DEF missing
  <1> QED  BY <1>2, <1>3, <1>4, <1>5, <1>6, <1>7 DEF Accounting, missing

LEMMA InvOfferHonoured ==
    ASSUME Inv
    PROVE  OfferHonoured
  <1> DEFINE n == Len(delivered)
             M == rx.maxBuffer
             B == BytesOf(rx.data)
  <1>1. SUFFICES ASSUME \A size \in BufferSizes \cup {RcvBufSize} : rx.maxBuffer >= size
                 PROVE  /\ rx.size <= rx.maxBuffer /\ ~aborted
                        /\ \A byte \in (rx.nextRxSeq..(edge - 1)) \ Held(rx) : ~rx.gotFin =>
                              ~OutOfRange(rx, byte, byte + 1) /\ Add(rx, byte, byte + 1).stored
    BY DEF OfferHonoured
  <1>2. /\ n \in Nat /\ Buffer(rx, n) /\ edge \in Nat /\ rx.maxBuffer \in Sizes
        /\ Limits(rx, n, edge) /\ rx \in RxMembers /\ StoredOnce(rx.data) /\ Filled(rx, n)
        /\ rx.nextRxSeq \in Nat /\ aborted \in BOOLEAN
    BY InvFacts
  <1>3. M \in Nat /\ Largest(M)
    <2>1. M \in Nat
      BY <1>2, SizeFacts
    <2>2. ASSUME NEW size \in Sizes PROVE size <= M
      <3>1. size \in Nat /\ M >= size
        BY <1>1, SizeFacts DEF Sizes
      <3> QED  BY <2>1, <3>1
    <2> QED  BY <2>1, <2>2 DEF Largest
  <1>4. edge <= n + M /\ \A b \in B : b < n + M
    BY <1>2, <1>3 DEF Limits
  <1>5. Accounting
    BY InvAccounting
  <1>6. Held(rx) = B
    BY DEF Held, BytesOf
  <1>7. \A b \in B : b \in Int /\ n <= b
    <2>1. \A b \in B : b >= n
      BY <1>5, <1>6 DEF Accounting
    <2>2. B \subseteq Int
      BY <1>2, BytesFacts
    <2> QED  BY <1>2, <2>1, <2>2
  <1>8. rx.size = Cardinality(B) /\ n..(Missing(rx) - 1) \subseteq B
    BY <1>2 DEF Filled, Counted
  <1>9. rx.size <= rx.maxBuffer
    <2> DEFINE I == n..(n + M - 1)
    <2>1. B \subseteq I
      BY <1>2, <1>3, <1>4, <1>7
    <2>2. n + M - 1 \in Int /\ n \in Int
      BY <1>2, <1>3
    <2>3. IsFiniteSet(I) /\ Cardinality(I) = M
      <3> DEFINE t == n + M
      <3>1. t \in Int /\ n \in Int
        BY <1>2, <1>3
      <3>2. IsFiniteSet(n..(t - 1)) /\ Cardinality(n..(t - 1)) = IF n >= t THEN 0 ELSE t - n
        <4> HIDE DEF t
        <4>1. t - 1 \in Int
          BY <3>1
        <4> QED  BY <3>1, <4>1, IntervalCount, FS_Interval
      <3>3. (IF n >= t THEN 0 ELSE t - n) = M
        BY <1>2, <1>3
      <3>4. n..(t - 1) = I
        BY <1>2, <1>3
      <3> HIDE DEF t
      <3> QED  BY <3>2, <3>3, <3>4
    <2> HIDE DEF I, B
    <2>4. Cardinality(B) <= Cardinality(I)
      BY <2>1, <2>3, FS_Subset
    <2> QED  BY <1>8, <2>3, <2>4
  <1>10. ~aborted
    <2>1. SUFFICES ASSUME aborted PROVE FALSE
      OBVIOUS
    <2>2. n + M < Missing(rx) /\ Missing(rx) \in Nat
      BY <1>2, <2>1, MemberTypes DEF Inv
    <2>3. n + M \in n..(Missing(rx) - 1)
      BY <1>2, <1>3, <2>2
    <2>4. n + M \in B
      BY <1>8, <2>3
    <2> QED  BY <1>2, <1>3, <1>4, <2>4
  <1>11. ASSUME NEW byte \in (rx.nextRxSeq..(edge - 1)) \ Held(rx), ~rx.gotFin
         PROVE  ~OutOfRange(rx, byte, byte + 1) /\ Add(rx, byte, byte + 1).stored
    <2>1. /\ byte \in Nat /\ byte + 1 \in Nat /\ rx.nextRxSeq <= byte /\ byte + 1 <= n + M
          /\ byte < byte + 1 /\ byte \notin BytesOf(rx.data)
      BY <1>2, <1>3, <1>4, <1>6, <1>11
    <2>2. MaxRxSequence(rx) = n + M
      BY <1>2, <1>11, WindowEdge
    <2>3. state # "CLOSE_WAIT"
      BY <1>11 DEF Inv, Situation, Finished
    <2>4. ~(byte + 1 < rx.nextRxSeq) /\ ~(n + M <= byte)
      BY <1>2, <1>3, <2>1
    <2>5. ~OutOfRange(rx, byte, byte + 1)
      BY <2>2, <2>3, <2>4 DEF OutOfRange
    <2>6. rx.data = {} \/ byte + 1 <= FirstKey(rx.data) + rx.maxBuffer
      <3>1. SUFFICES ASSUME rx.data # {} PROVE byte + 1 <= FirstKey(rx.data) + rx.maxBuffer
        OBVIOUS
      <3>2. PICK c \in rx.data : c.first = FirstKey(rx.data)
        BY <1>2, <3>1, FirstKeyFacts
      <3>3. n <= c.first /\ c.first \in Nat
        BY <1>2, ChunkFacts DEF Filled, Counted
      <3> QED  BY <1>2, <1>3, <2>1, <3>2, <3>3
    <2>7. Add(rx, byte, byte + 1).stored
      BY <1>2, <2>1, <2>6, MissingStored
    <2> QED  BY <2>5, <2>7
  <1> QED  BY <1>9, <1>10, <1>11

LEMMA InvSacks ==
    ASSUME Inv
    PROVE  SackTruthful /\ SackComplete
  <1>1. /\ Sacked(rx) /\ rx \in RxMembers
    BY InvFacts DEF Filled
  <1>2. rx.sackList \in Seq(Chunk) /\ Len(rx.sackList) \in Nat
    BY <1>1, MemberTypes
  <1>3. Held(rx) = BytesOf(rx.data)
    BY DEF Held, BytesOf
  <1>4. ToSet(rx.sackList) = {rx.sackList[i] : i \in 1..Len(rx.sackList)}
    BY <1>2 DEF ToSet
  <1>5. /\ Len(rx.sackList) <= SackBlocks
        /\ \A i \in 1..Len(rx.sackList) :
              /\ rx.nextRxSeq < rx.sackList[i].first /\ rx.sackList[i].first < rx.sackList[i].last
              /\ Bytes(rx.sackList[i]) \subseteq BytesOf(rx.data)
        /\ ~rx.dropped => \A b \in BytesOf(rx.data) : b > rx.nextRxSeq =>
                              \E i \in 1..Len(rx.sackList) : b \in Bytes(rx.sackList[i])
    BY <1>1 DEF Sacked, Blocks
  <1>6. \A i \in 1..Len(rx.sackList) : rx.sackList[i].first > rx.nextRxSeq
    <2>1. SUFFICES ASSUME NEW i \in 1..Len(rx.sackList)
                   PROVE  rx.sackList[i].first > rx.nextRxSeq
      OBVIOUS
    <2>2. rx.sackList[i] \in Chunk
      BY <1>2
    <2>3. rx.sackList[i].first \in Nat
      BY <2>2, RxAssumption DEF Chunk, Position
    <2>4. rx.nextRxSeq \in Nat
      BY <1>1, MemberTypes
    <2> QED  BY <1>5, <2>3, <2>4
  <1>7. SackTruthful
    BY <1>3, <1>4, <1>5, <1>6 DEF SackTruthful
  <1>8. SackComplete
    BY <1>3, <1>4, <1>5 DEF SackComplete
  <1> QED  BY <1>7, <1>8
\* The members of TcpRxBuffer keep their types: sequence numbers stay within the
\* stream and the counters m_size and m_availBytes never underflow.
THEOREM TypeCorrect ==
    ASSUME SizeKept
    PROVE  Spec => []TypeOK
  <1>1. Spec => []Inv
    BY Invariance
  <1>2. Inv => TypeOK
    BY InvTypeOK
  <1> QED  BY <1>1, <1>2, PTL

\* The counters agree with the contents after every overlap Add trims and every
\* read of Extract: chunks are disjoint, m_size counts their bytes, m_nextRxSeq is the
\* first missing byte, m_availBytes what is in sequence and not read.
THEOREM CountersAgree ==
    ASSUME SizeKept
    PROVE  Spec => []Accounting
  <1>1. Spec => []Inv
    BY Invariance
  <1>2. Inv => Accounting
    BY InvAccounting
  <1> QED  BY <1>1, <1>2, PTL

\* The window AdvertisedWindowSize offered is honoured: while the buffer is as large
\* as it ever was it does not overflow, the assertion does not fail, and every
\* missing byte the peer may send passes OutOfRange and is stored by Add.
THEOREM OffersHonoured ==
    ASSUME SizeKept
    PROVE  Spec => []OfferHonoured
  <1>1. Spec => []Inv
    BY Invariance
  <1>2. Inv => OfferHonoured
    BY InvOfferHonoured
  <1> QED  BY <1>1, <1>2, PTL

\* UpdateSackList and ClearSackList together never report what is not held: each block
\* lies beyond the cumulative ACK and all of its bytes are in m_data.
THEOREM SacksTruthful ==
    ASSUME SizeKept
    PROVE  Spec => []SackTruthful
  <1>1. Spec => []Inv
    BY Invariance
  <1>2. Inv => SackTruthful
    BY InvSacks
  <1> QED  BY <1>1, <1>2, PTL

\* Merging and clearing blocks forgets no byte: until UpdateSackList drops a block for
\* want of space, every byte held beyond the cumulative ACK is reported.
THEOREM SacksComplete ==
    ASSUME SizeKept
    PROVE  Spec => []SackComplete
  <1>1. Spec => []Inv
    BY Invariance
  <1>2. Inv => SackComplete
    BY InvSacks
  <1> QED  BY <1>1, <1>2, PTL

\* RFC 2018 rule (a): the block UpdateSackList puts first contains the segment stored
\* last, whatever blocks it was merged with and even if another one was dropped.
THEOREM NewestReportedFirst ==
    ASSUME SizeKept
    PROVE  Spec => SackNewestFirst
  <1> DEFINE Newest == \A c \in rx'.data \ rx.data :
                         c.first > rx'.nextRxSeq => Bytes(c) \subseteq Bytes(Head(rx'.sackList))
  <1>1. Spec => []Inv
    BY Invariance
  <1>2. Inv /\ [Next]_vars => [Newest]_vars
    <2>1. SUFFICES ASSUME Inv, [Next]_vars,
                          NEW c \in rx'.data \ rx.data, c.first > rx'.nextRxSeq
                   PROVE  Bytes(c) \subseteq Bytes(Head(rx'.sackList))
      OBVIOUS
    <2>2. Inv' /\ Progressed
      BY <2>1, NextInv, StutterInv
    <2>3. 1 <= Len(rx'.sackList) /\ Bytes(c) \subseteq Bytes(rx'.sackList[1])
      BY <2>1, <2>2 DEF Progressed, NewestFirst
    <2> QED  BY <2>3 DEF Head
  <1> QED  BY <1>1, <1>2, PTL DEF Spec, SackNewestFirst

\* While a gap is open the peer hears of every segment stored at once: m_size exceeds
\* m_availBytes whenever a block is listed, so that ReceivedData does not leave the ACK
\* to the delayed-ACK policy.
THEOREM GapsReported ==
    ASSUME SizeKept
    PROVE  Spec => GapReported
  <1> DEFINE Told == rx'.data # rx.data /\ rx'.size > rx.size /\ rx'.sackList # <<>> => answer' = "ACK"
  <1>1. Spec => []Inv
    BY Invariance
  <1>2. Inv /\ [Next]_vars => [Told]_vars
    <2>1. SUFFICES ASSUME Inv, [Next]_vars PROVE Told
      OBVIOUS
    <2>2. Inv' /\ Progressed
      BY <2>1, NextInv, StutterInv
    <2> QED  BY <2>2 DEF Progressed
  <1> QED  BY <1>1, <1>2, PTL DEF Spec, GapReported

\* The bytes that have arrived: what was read and what is held.
LEMMA GotFacts ==
    ASSUME NEW r, NEW d, Len(d) \in Nat, d = InSequence(0, Len(d)), Buffer(r, Len(d))
    PROVE  /\ \A b : b \in Held(r) \cup ToSet(d)
                        <=> b \in 0..(Len(d) - 1) \/ b \in BytesOf(r.data)
           /\ Held(r) \cup ToSet(d) \subseteq 0..(StreamLen - 1)
           /\ Finished(r) => Held(r) \cup ToSet(d) = 0..(StreamLen - 1)
  <1> DEFINE n == Len(d)
             got == Held(r) \cup ToSet(d)
  <1>1. n \in Nat /\ d = InSequence(0, n)
    OBVIOUS
  <1>2. ToSet(d) = 0..(n - 1)
    <2> HIDE DEF n
    <2>1. ToSet(InSequence(0, n)) = {0 + i - 1 : i \in 1..n}
      BY <1>1 DEF ToSet, InSequence
    <2>2. \A b \in 0..(n - 1) : b + 1 \in 1..n /\ b = 0 + (b + 1) - 1
      BY <1>1
    <2>3. \A i \in 1..n : 0 + i - 1 \in 0..(n - 1)
      BY <1>1
    <2>4. {0 + i - 1 : i \in 1..n} = 0..(n - 1)
      BY <2>2, <2>3
    <2> QED  BY <1>1, <2>1, <2>4
  <1>3. \A b : b \in got <=> b \in 0..(n - 1) \/ b \in BytesOf(r.data)
    BY <1>2 DEF Held, BytesOf
  <1>4. /\ Filled(r, n) /\ Buffer(r, n) /\ r \in RxMembers /\ StoredOnce(r.data)
    BY DEF Buffer, Filled
  <1>5. /\ n <= Missing(r) /\ Missing(r) <= StreamLen /\ Missing(r) \in Nat
        /\ n..(Missing(r) - 1) \subseteq BytesOf(r.data)
    BY <1>4, MemberTypes DEF Filled, Counted
  <1>6. BytesOf(r.data) \subseteq 0..(StreamLen - 1)
    BY <1>4, BytesFacts
  <1>7. 0..(n - 1) \subseteq 0..(StreamLen - 1)
    BY <1>1, <1>5, RxAssumption
  <1>8. got \subseteq 0..(StreamLen - 1)
    BY <1>3, <1>6, <1>7
  <1>9. Finished(r) => 0..(StreamLen - 1) \subseteq got
    <2>1. SUFFICES ASSUME Finished(r), NEW b \in 0..(StreamLen - 1) PROVE b \in got
      OBVIOUS
    <2>2. Missing(r) = StreamLen
      BY <1>4, <2>1, EndReached
    <2>3. b \in 0..(n - 1) \/ b \in n..(Missing(r) - 1)
      BY <1>1, <2>2, RxAssumption
    <2> QED  BY <1>3, <1>5, <2>3
  <1> QED  BY <1>3, <1>8, <1>9

LEMMA StreamStep ==
    ASSUME Inv, Inv', Progressed
    PROVE  Implemented!Progress
  <1> DEFINE n == Len(delivered)
             got == Held(rx) \cup ToSet(delivered)
  <1>1. PICK m \in Nat :
           /\ delivered' = delivered \o InSequence(n, m)
           /\ \A b \in BytesOf(rx.data) : b < n + m \/ b \in BytesOf(rx'.data)
    BY DEF Progressed
  <1>2. n \in Nat /\ delivered = InSequence(0, n)
    BY DEF Inv
  <1>3. Len(delivered') = n + m
    BY <1>1, <1>2, DeliveredGrows
  <1>4. /\ \A b : b \in got <=> b \in 0..(n - 1) \/ b \in BytesOf(rx.data)
        /\ got \subseteq 0..(StreamLen - 1)
    <2>1. Buffer(rx, n)
      BY InvFacts
    <2> QED  BY <1>2, <2>1, GotFacts
  <1>5. /\ \A b : b \in got' <=> b \in 0..(Len(delivered') - 1) \/ b \in BytesOf(rx'.data)
        /\ got' \subseteq 0..(StreamLen - 1)
        /\ Finished(rx') => got' = 0..(StreamLen - 1)
    <2>1. Len(delivered') \in Nat /\ delivered' = InSequence(0, Len(delivered'))
      BY DEF Inv
    <2>2. Buffer(rx', Len(delivered'))
      BY DEF Inv, Situation
    <2>3. got' = Held(rx') \cup ToSet(delivered')
      BY DEF Held
    <2> HIDE DEF got
    <2> QED  BY <2>1, <2>2, <2>3, GotFacts
  <1> HIDE DEF got
  <1>6. got \subseteq got'
    <2>1. ASSUME NEW b \in got PROVE b \in got'
      <3>1. b \in Nat
        BY <1>4, RxAssumption
      <3>2. b \in 0..(n - 1) \/ b < n + m \/ b \in BytesOf(rx'.data)
        BY <1>1, <1>4
      <3>3. b \in 0..(n + m - 1) \/ b \in BytesOf(rx'.data)
        BY <1>1, <1>2, <3>1, <3>2
      <3> QED  BY <1>3, <1>5, <3>3
    <2> QED  BY <2>1
  <1>7. \A b \in n..(n + m - 1) : b \in got'
    <2>1. \A b \in n..(n + m - 1) : b \in 0..(n + m - 1)
      BY <1>1, <1>2
    <2> QED  BY <1>3, <1>5, <2>1
  <1>8. m \in 0..(StreamLen - n)
    <2>1. Len(delivered') <= Missing(rx') /\ rx' \in RxMembers
      BY DEF Inv, Situation, Buffer, Filled, Counted
    <2>2. Missing(rx') <= StreamLen /\ Missing(rx') \in Nat
      BY <2>1, MemberTypes
    <2> QED  BY <1>1, <1>2, <1>3, <2>1, <2>2, RxAssumption
  <1>9. delivered' = delivered \o [i \in 1..m |-> n + i - 1]
    BY <1>1 DEF InSequence
  <1>10. /\ (Finished(rx) => Finished(rx')) /\ Finished(rx') \in BOOLEAN
    <2>1. Finished(rx') \in BOOLEAN
      BY DEF Finished
    <2> QED  BY <2>1 DEF Progressed
  <1> QED  BY <1>5, <1>6, <1>7, <1>8, <1>9, <1>10 DEF Implemented!Progress, Implemented!Stream, got

\* Reassembly implements the byte stream: through every overlap, trimming, read and
\* FIN, accepted bytes are kept until they are read, they are read in order and once,
\* and the end is reported only when every byte before it has arrived.
THEOREM ImplementsStream ==
    ASSUME SizeKept
    PROVE  Spec => StreamImplemented
  <1>1. Spec => []Inv
    BY Invariance
  <1>2. Init => Implemented!Init
    <2>1. SUFFICES ASSUME Init PROVE Implemented!Init
      OBVIOUS
    <2>2. rx.data = {} /\ delivered = <<>> /\ rx.gotFin = FALSE
      BY <2>1 DEF Init
    <2>3. Held(rx) = {} /\ ToSet(delivered) = {} /\ Finished(rx) = FALSE
      BY <2>2 DEF Held, ToSet, Finished
    <2> QED  BY <2>2, <2>3 DEF Implemented!Init
  <1>3. Inv /\ [Next]_vars => [Implemented!Progress]_Implemented!streamVars
    BY NextInv, StutterInv, StreamStep
  <1> QED  BY <1>1, <1>2, <1>3, PTL DEF Spec, StreamImplemented, Implemented!Spec
=============================================================================
