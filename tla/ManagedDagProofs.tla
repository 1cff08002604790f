-------------------------- MODULE ManagedDagProofs --------------------------
(***************************************************************************)
(* Proofs about the pending buffer and about a replica's DAG over it, for  *)
(* any set of events and any limits of the buffer.  The buffer: its        *)
(* counters are exact, its limits are kept, its buckets go whole.  The     *)
(* DAG: its indexes agree, the state has exactly the DAG's events applied  *)
(* in chain order, and no event that could be inserted is left waiting.    *)
(***************************************************************************)
EXTENDS ManagedDag, FiniteSetTheorems, SequenceTheorems, WellFoundedInduction,
        NaturalsInduction, TLAPS

-----------------------------------------------------------------------------
(* The pending buffer.                                                     *)

\* The entries es with their counters: what an operation hands to the next.
Exact(es, count, counts) ==
    /\ es \in SUBSET Entry
    /\ IsFiniteSet(es)
    /\ count = Cardinality(es)
    /\ counts \in [Author -> Nat]
    /\ \A a \in Author : counts[a] = Cardinality(By(es, a))

\* The entries of an author are finitely many.
LEMMA ByFinite ==
    ASSUME NEW es, IsFiniteSet(es), NEW a
    PROVE  IsFiniteSet(By(es, a)) /\ Cardinality(By(es, a)) \in Nat
<1>1. By(es, a) \subseteq es
  BY DEF By
<1>2. QED
  BY <1>1, FS_Subset, FS_CardinalityType

\* Removing part of a finite set subtracts its size.
LEMMA CardinalityMinus ==
    ASSUME NEW S, IsFiniteSet(S), NEW T, T \subseteq S
    PROVE  /\ IsFiniteSet(S \ T) /\ IsFiniteSet(T)
           /\ Cardinality(S) \in Nat /\ Cardinality(T) \in Nat
           /\ Cardinality(T) <= Cardinality(S)
           /\ Cardinality(S \ T) = Cardinality(S) - Cardinality(T)
<1>1. IsFiniteSet(T) /\ Cardinality(T) <= Cardinality(S)
  BY FS_Subset
<1>2. S \cap T = T
  OBVIOUS
<1>3. IsFiniteSet(S \ T) /\ Cardinality(S \ T) = Cardinality(S) - Cardinality(S \cap T)
  BY FS_Difference
<1>4. QED
  BY <1>1, <1>2, <1>3, FS_CardinalityType, Zenon

\* The saturating subtractions that follow a removal (resolve, evict_expired,
\* evict_to) keep the counters exact.
LEMMA RemovalKeepsCounts ==
    ASSUME NEW es, NEW count, NEW counts, Exact(es, count, counts),
           NEW gone, gone \subseteq es
    PROVE  Exact(es \ gone, SaturatingSub(count, Cardinality(gone)),
                 Decrement(counts, gone))
<1>1. /\ IsFiniteSet(es \ gone)
      /\ Cardinality(es) \in Nat /\ Cardinality(gone) \in Nat
      /\ Cardinality(gone) <= Cardinality(es)
      /\ Cardinality(es \ gone) = Cardinality(es) - Cardinality(gone)
  BY CardinalityMinus DEF Exact
<1>2. SaturatingSub(count, Cardinality(gone)) = Cardinality(es \ gone)
  BY <1>1 DEF Exact, SaturatingSub
<1>3. ASSUME NEW a \in Author
      PROVE  /\ Decrement(counts, gone)[a] \in Nat
             /\ Decrement(counts, gone)[a] = Cardinality(By(es \ gone, a))
  <2>1. /\ By(gone, a) \subseteq By(es, a)
        /\ By(es \ gone, a) = By(es, a) \ By(gone, a)
    BY DEF By
  <2>2. IsFiniteSet(By(es, a))
    BY ByFinite DEF Exact
  <2>3. /\ Cardinality(By(es, a)) \in Nat /\ Cardinality(By(gone, a)) \in Nat
        /\ Cardinality(By(gone, a)) <= Cardinality(By(es, a))
        /\ Cardinality(By(es \ gone, a))
              = Cardinality(By(es, a)) - Cardinality(By(gone, a))
    BY <2>1, <2>2, CardinalityMinus, Zenon
  <2>4. counts[a] = Cardinality(By(es, a))
    BY DEF Exact
  <2>5. Decrement(counts, gone)[a] = SaturatingSub(counts[a], Cardinality(By(gone, a)))
    BY DEF Decrement
  <2>6. QED
    BY <2>3, <2>4, <2>5 DEF SaturatingSub
<1>4. Decrement(counts, gone) \in [Author -> Nat]
  BY <1>3 DEF Decrement
<1>5. QED
  BY <1>1, <1>2, <1>3, <1>4, Zenon DEF Exact

\* The push of insert_entry keeps the counters exact.
LEMMA AdditionKeepsCounts ==
    ASSUME NEW es, NEW count, NEW counts, Exact(es, count, counts),
           NEW new \in Entry, new \notin es, new.event.author \in Author
    PROVE  Exact(es \cup {new}, count + 1,
                 [counts EXCEPT ![new.event.author] = @ + 1])
<1> DEFINE b == new.event.author
           up == [counts EXCEPT ![b] = @ + 1]
<1>1. /\ IsFiniteSet(es \cup {new})
      /\ Cardinality(es \cup {new}) = count + 1
  BY FS_AddElement, Zenon DEF Exact
<1>2. ASSUME NEW a \in Author
      PROVE  up[a] \in Nat /\ up[a] = Cardinality(By(es \cup {new}, a))
  <2>1. IsFiniteSet(By(es, a)) /\ Cardinality(By(es, a)) \in Nat
    BY ByFinite DEF Exact
  <2>2. counts \in [Author -> Nat] /\ counts[a] = Cardinality(By(es, a))
    BY DEF Exact
  <2>3. CASE a = b
    <3>1. By(es \cup {new}, a) = By(es, a) \cup {new} /\ new \notin By(es, a)
      BY <2>3 DEF By
    <3>2. Cardinality(By(es \cup {new}, a)) = Cardinality(By(es, a)) + 1
      BY <2>1, <3>1, FS_AddElement, Zenon
    <3>3. QED
      BY <2>1, <2>2, <2>3, <3>2
  <2>4. CASE a # b
    <3>1. By(es \cup {new}, a) = By(es, a)
      BY <2>4 DEF By
    <3>2. QED
      BY <2>1, <2>2, <2>4, <3>1
  <2>5. QED
    BY <2>3, <2>4
<1>3. up \in [Author -> Nat]
  BY DEF Exact
<1>4. es \cup {new} \in SUBSET Entry
  BY DEF Exact
<1>5. QED
  BY <1>1, <1>2, <1>3, <1>4 DEF Exact

\* A non-empty set of hashes has a least one.
LEMMA LeastHash ==
    ASSUME NEW H \in SUBSET Nat, H # {}
    PROVE  \E p \in H : \A q \in H : p <= q
<1>1. PICK p \in H : \A q \in H : ~ (<<q, p>> \in OpToRel(<, Nat))
  BY NatLessThanWellFounded, WFMin, Zenon
<1>2. \A q \in H : ~ (q < p)
  BY <1>1, Zenon DEF OpToRel
<1>3. QED
  BY <1>2

\* evict_to leaves at most max_entries, whichever buckets it takes.
LEMMA EvictionFits ==
    ASSUME NEW es, NEW count, NEW counts, Exact(es, count, counts)
    PROVE  /\ Evicted(es, count) \subseteq es
           /\ Cardinality(es \ Evicted(es, count)) <= MaxEntries
<1> DEFINE enough == {p \in Prev : count - Cardinality(UpTo(es, p)) <= MaxEntries}
           least == CHOOSE p \in enough : \A q \in enough : p <= q
<1>1. CASE count <= MaxEntries
  <2>1. Evicted(es, count) = {}
    BY <1>1 DEF Evicted
  <2>2. es \ {} = es
    OBVIOUS
  <2>3. QED
    BY <1>1, <2>1, <2>2 DEF Exact
<1>2. CASE ~ (count <= MaxEntries) /\ enough = {}
  <2>1. Evicted(es, count) = es
    BY <1>2 DEF Evicted
  <2>2. Cardinality(es \ es) = 0
    <3>1. es \ es = {}
      OBVIOUS
    <3>2. QED
      BY <3>1, FS_EmptySet
  <2>3. QED
    BY <2>1, <2>2, LimitsAssumption
<1>3. CASE ~ (count <= MaxEntries) /\ enough # {}
  <2>1. Evicted(es, count) = UpTo(es, least)
    BY <1>3 DEF Evicted
  <2>2. enough \subseteq Nat
    BY EventAssumption DEF Prev
  <2>3. least \in enough
    BY <1>3, <2>2, LeastHash, Zenon
  <2>4. UpTo(es, least) \subseteq es
    BY DEF UpTo
  <2>5. Cardinality(es \ UpTo(es, least)) = Cardinality(es) - Cardinality(UpTo(es, least))
    BY <2>4, CardinalityMinus DEF Exact
  <2>6. count = Cardinality(es)
    BY DEF Exact
  <2>7. QED
    BY <2>1, <2>3, <2>4, <2>5, <2>6
<1>4. QED
  BY <1>1, <1>2, <1>3

-----------------------------------------------------------------------------

\* The limits, of the entries es.
Fits(es) ==
    /\ Cardinality(es) <= MaxEntries
    /\ \A a \in Author : Cardinality(By(es, a)) <= PerAuthorCap

\* Entries are named by ids below n.
Named(es, n) ==
    /\ \A x \in es : x.id < n
    /\ \A x, y \in es : x.id = y.id => x = y

\* A smaller set keeps the limits.
LEMMA SmallerFits ==
    ASSUME NEW es, IsFiniteSet(es), Fits(es), NEW fs, fs \subseteq es
    PROVE  Fits(fs)
<1>1. Cardinality(fs) <= Cardinality(es) /\ Cardinality(fs) \in Nat /\ Cardinality(es) \in Nat
  BY FS_Subset, FS_CardinalityType
<1>2. ASSUME NEW a \in Author
      PROVE  Cardinality(By(fs, a)) <= PerAuthorCap
  <2>1. By(fs, a) \subseteq By(es, a)
    BY DEF By
  <2>2. IsFiniteSet(By(es, a)) /\ Cardinality(By(es, a)) \in Nat
    BY ByFinite
  <2>3. Cardinality(By(fs, a)) <= Cardinality(By(es, a)) /\ Cardinality(By(fs, a)) \in Nat
    BY <2>1, <2>2, FS_Subset, FS_CardinalityType, ZenonT(30)
  <2>4. QED
    BY <2>2, <2>3, LimitsAssumption DEF Fits
<1>3. QED
  BY <1>1, <1>2, LimitsAssumption DEF Fits

\* insert_entry, on entries whose counters are exact and within the limits,
\* leaves entries whose counters are exact and within the limits.
LEMMA InsertEntryKeeps ==
    ASSUME NEW es, NEW count, NEW counts, Exact(es, count, counts), Fits(es),
           arrivals \in Nat, Named(es, arrivals),
           NEW event \in Event, NEW at \in Nat \cup {Untimed},
           InsertEntry(es, count, counts, event, at)
    PROVE  /\ Exact(entries', cached_count', per_author_count')
           /\ Fits(entries')
           /\ arrivals' \in Nat
           /\ Named(entries', arrivals')
<1> DEFINE a == event.author
           new == [id |-> arrivals, event |-> event, at |-> at]
           more == es \cup {new}
           up == [counts EXCEPT ![a] = @ + 1]
           gone == Evicted(more, count + 1)
<1>1. CASE /\ counts[a] >= PerAuthorCap
           /\ entries' = es
           /\ cached_count' = count
           /\ per_author_count' = counts
           /\ UNCHANGED arrivals
  BY <1>1
<1>2. CASE /\ counts[a] < PerAuthorCap
           /\ entries' = more \ gone
           /\ cached_count' = SaturatingSub(count + 1, Cardinality(gone))
           /\ per_author_count' = Decrement(up, gone)
           /\ arrivals' = arrivals + 1
  <2>1. new \in Entry /\ new.event.author = a /\ a \in Author
    BY EventAssumption DEF Entry
  <2>2. new \notin es
    BY DEF Named
  <2>3. Exact(more, count + 1, up)
    BY <2>1, <2>2, AdditionKeepsCounts
  <2>4. gone \subseteq more /\ Cardinality(more \ gone) <= MaxEntries
    BY <2>3, EvictionFits, Zenon
  <2>5. Exact(entries', cached_count', per_author_count')
    <3> HIDE DEF more, up, gone
    <3>1. QED
      BY <1>2, <2>3, <2>4, RemovalKeepsCounts, Zenon
  <2>6. ASSUME NEW b \in Author
        PROVE  Cardinality(By(more \ gone, b)) <= PerAuthorCap
    <3>1. Cardinality(By(more, b)) <= PerAuthorCap
      <4>1. Cardinality(By(more, b)) = up[b]
        BY <2>3, Zenon DEF Exact
      <4>2. counts \in [Author -> Nat] /\ counts[b] <= PerAuthorCap
        BY DEF Exact, Fits
      <4>3. QED
        BY <1>2, <2>1, <4>1, <4>2, LimitsAssumption
    <3>2. IsFiniteSet(By(more, b)) /\ Cardinality(By(more, b)) \in Nat
      BY <2>3, ByFinite DEF Exact
    <3>3. By(more \ gone, b) \subseteq By(more, b)
      BY DEF By
    <3>4. Cardinality(By(more \ gone, b)) <= Cardinality(By(more, b))
          /\ Cardinality(By(more \ gone, b)) \in Nat
      BY <3>2, <3>3, FS_Subset, FS_CardinalityType, Zenon
    <3>5. QED
      BY <3>1, <3>2, <3>4, LimitsAssumption, SMTT(30)
  <2>7. Fits(entries')
    BY <1>2, <2>4, <2>6, Zenon DEF Fits
  <2>8. Named(entries', arrivals')
    BY <1>2, EventAssumption DEF Named, Exact, Entry
  <2>9. QED
    BY <1>2, <2>5, <2>7, <2>8
<1>3. QED
  BY <1>1, <1>2 DEF InsertEntry

-----------------------------------------------------------------------------

\* The inductive invariant: types, exact counters, limits.
Sound ==
    /\ Exact(entries, cached_count, per_author_count)
    /\ Fits(entries)
    /\ Named(entries, arrivals)
    /\ arrivals \in Nat
    /\ missing_deps \in SUBSET Nat
    /\ now \in Nat

\* Removing entries keeps the invariant's part about entries.
LEMMA RemoveKeeps ==
    ASSUME Sound, NEW gone, gone \subseteq entries, Remove(gone), UNCHANGED arrivals
    PROVE  /\ Exact(entries', cached_count', per_author_count')
           /\ Fits(entries')
           /\ Named(entries', arrivals')
<1>1. Exact(entries', cached_count', per_author_count')
  BY RemovalKeepsCounts DEF Sound, Remove
<1>2. Fits(entries')
  BY SmallerFits DEF Sound, Remove, Exact
<1>3. Named(entries', arrivals')
  BY DEF Sound, Remove, Named
<1>4. QED
  BY <1>1, <1>2, <1>3

\* Every operation keeps the invariant.
LEMMA SoundStep == Sound /\ [BufferNext]_bufferVars => Sound'
<1> SUFFICES ASSUME Sound, [BufferNext]_bufferVars PROVE Sound'
  OBVIOUS
<1>1. ASSUME NEW e \in Event, BufferForPrev(e) PROVE Sound'
  <2>1. InsertEntry(entries, cached_count, per_author_count, e, Untimed)
    BY <1>1 DEF BufferForPrev
  <2>2. /\ Exact(entries', cached_count', per_author_count')
        /\ Fits(entries') /\ arrivals' \in Nat /\ Named(entries', arrivals')
    BY <2>1, InsertEntryKeeps, Zenon DEF Sound
  <2>3. QED
    BY <1>1, <2>2 DEF Sound, BufferForPrev
<1>2. ASSUME NEW e \in Event, BufferForPrevAt(e) PROVE Sound'
  <2> DEFINE old == Expired(entries, now)
             count == SaturatingSub(cached_count, Cardinality(old))
             counts == Decrement(per_author_count, old)
  <2>1. old \subseteq entries
    BY DEF Expired
  <2>2. Exact(entries \ old, count, counts)
    <3> HIDE DEF old
    <3>1. QED
      BY <2>1, RemovalKeepsCounts DEF Sound
  <2>3. Fits(entries \ old) /\ Named(entries \ old, arrivals)
    <3> HIDE DEF old
    <3>1. Fits(entries \ old)
      BY <2>1, SmallerFits DEF Sound, Exact
    <3>2. QED
      BY <3>1 DEF Sound, Named
  <2>4. InsertEntry(entries \ old, count, counts, e, now)
    BY <1>2 DEF BufferForPrevAt
  <2>5. /\ Exact(entries', cached_count', per_author_count')
        /\ Fits(entries') /\ arrivals' \in Nat /\ Named(entries', arrivals')
    <3>1. now \in Nat \cup {Untimed} /\ arrivals \in Nat
      BY DEF Sound
    <3> HIDE DEF old, count, counts
    <3>2. QED
      BY <2>2, <2>3, <2>4, <3>1, InsertEntryKeeps, ZenonT(30)
  <2>6. QED
    BY <1>2, <2>5 DEF Sound, BufferForPrevAt
<1>3. ASSUME NEW p \in Prev, Resolve(p) PROVE Sound'
  <2>1. Waiting(entries, p) \subseteq entries
    BY DEF Waiting
  <2>2. Remove(Waiting(entries, p)) /\ UNCHANGED arrivals
    BY <1>3 DEF Resolve
  <2>3. QED
    BY <1>3, <2>1, <2>2, RemoveKeeps, ZenonT(30) DEF Sound, Resolve
<1>4. ASSUME NEW p \in Prev, RecordMissingDep(p) PROVE Sound'
  BY <1>4, EventAssumption, Zenon DEF Sound, RecordMissingDep, Prev
<1>5. ASSUME EvictExpired PROVE Sound'
  <2>1. Expired(entries, now) \subseteq entries
    BY DEF Expired
  <2>2. Remove(Expired(entries, now)) /\ UNCHANGED arrivals
    BY <1>5 DEF EvictExpired
  <2>3. QED
    BY <1>5, <2>1, <2>2, RemoveKeeps DEF Sound, EvictExpired
<1>6. ASSUME NEW t \in 0 .. MaxTime, Clock(t) PROVE Sound'
  BY <1>6, LimitsAssumption DEF Sound, Clock
<1>7. CASE UNCHANGED bufferVars
  BY <1>7 DEF Sound, bufferVars
<1>8. QED
  BY <1>1, <1>2, <1>3, <1>4, <1>5, <1>6, <1>7, Zenon DEF BufferNext

\* An empty buffer satisfies the invariant.
LEMMA SoundInit == BufferInit => Sound
<1> SUFFICES ASSUME BufferInit PROVE Sound
  OBVIOUS
<1>1. IsFiniteSet({}) /\ Cardinality({}) = 0
  BY FS_EmptySet
<1>2. \A a \in Author : By(entries, a) = {}
  BY DEF BufferInit, By
<1>3. QED
  BY <1>1, <1>2, LimitsAssumption DEF BufferInit, Sound, Exact, Fits, Named

\* The invariant holds of every behaviour of the buffer.
LEMMA AlwaysSound == BufferSpec => []Sound
<1>1. QED
  BY SoundInit, SoundStep, PTL DEF BufferSpec

\* Type correctness, with the ids that order each bucket's vector.
THEOREM BufferTypeCorrect == BufferSpec => []BufferTypeOK
<1>1. Sound => BufferTypeOK
  BY FS_CardinalityType DEF Sound, BufferTypeOK, Exact, Named
<1>2. QED
  BY <1>1, AlwaysSound, PTL

\* cached_count and per_author_count always are the sizes they cache: no saturating
\* subtraction of resolve, evict_expired or evict_to ever saturates early.
THEOREM CountersAreExact == BufferSpec => []CountsExact
<1>1. Sound => CountsExact
  BY DEF Sound, CountsExact, Exact
<1>2. QED
  BY <1>1, AlwaysSound, PTL

\* insert_entry keeps the buffer within max_entries and every author within
\* max_per_author, for every limit, including a max_entries of zero.
THEOREM LimitsAreKept == BufferSpec => []Bounded
<1>1. Sound => Bounded
  BY DEF Sound, Bounded, Fits
<1>2. QED
  BY <1>1, AlwaysSound, PTL

\* What evict_to removes: nothing, everything, or the buckets up to a hash.
LEMMA EvictedShape ==
    ASSUME NEW es, NEW count
    PROVE  Evicted(es, count) \in {{}, es} \/ \E p : Evicted(es, count) = UpTo(es, p)
  BY Zenon DEF Evicted

\* Insertion drops no event for capacity and keeps another that waits for the same
\* hash: the buckets go whole, and no event of a chain is left buffered beside one
\* that was dropped (evict_to).
THEOREM BucketsAlwaysGoWhole == BufferSpec => BucketsGoWhole
<1>1. ASSUME NEW es, NEW count, NEW counts, NEW event, NEW at,
             InsertEntry(es, count, counts, event, at), arrivals' > arrivals,
             NEW x \in es, x \notin entries', NEW y \in entries'
      PROVE  x.event.prev # y.event.prev
  <2> DEFINE new == [id |-> arrivals, event |-> event, at |-> at]
             all == es \cup {new}
             gone == Evicted(all, count + 1)
  <2>1. entries' = all \ gone
    BY <1>1 DEF InsertEntry
  <2>2. x \in gone /\ y \in all \ gone
    BY <1>1, <2>1
  <2>3. PICK p : gone = UpTo(all, p)
    BY <2>2, EvictedShape
  <2> QED
    BY <2>2, <2>3, ZenonT(30) DEF UpTo
<1>2. ASSUME [BufferNext]_bufferVars, arrivals' > arrivals, BufferTypeOK,
             NEW x \in entries \ entries', NEW y \in entries', x.at = Untimed
      PROVE  x.event.prev # y.event.prev
  <2>1. CASE \E e \in Event : BufferForPrev(e)
    BY <1>1, <1>2, <2>1 DEF BufferForPrev
  <2>2. CASE \E e \in Event : BufferForPrevAt(e)
    <3>1. x \in entries \ Expired(entries, now)
      BY <1>2 DEF Expired
    <3> QED
      BY <1>1, <1>2, <2>2, <3>1 DEF BufferForPrevAt
  <2>3. CASE arrivals' = arrivals
    BY <1>2, <2>3 DEF BufferTypeOK
  <2> QED
    BY <1>2, <2>1, <2>2, <2>3, ZenonT(30) DEF BufferNext, bufferVars, Resolve, RecordMissingDep,
                                  EvictExpired, Clock
<1>3. BufferTypeOK /\ [BufferNext]_bufferVars =>
        [arrivals' > arrivals =>
           \A x \in entries \ entries', y \in entries' :
              x.at = Untimed => x.event.prev # y.event.prev]_bufferVars
  BY <1>2
<1> QED
  BY <1>3, BufferTypeCorrect, PTL DEF BufferSpec, BucketsGoWhole

-----------------------------------------------------------------------------
(* The DAG.                                                                *)

\* What insert checked when it accepts an event.
LEMMA VerdictOk ==
    ASSUME NEW e \in Event
    PROVE  Verdict(e) = "Ok" <=>
             /\ ~ (Cardinality(e.deps) > MaxDeps)
             /\ e.hash \notin HashOf(events)
             /\ genesis_hash = Zero => CreatesServer(e) /\ e.seq = 1 /\ e.prev = Zero
             /\ genesis_hash # Zero => ~ CreatesServer(e)
             /\ e.seq = ExpectedSeq(e.author)
             /\ e.prev = heads[e.author]
             /\ ~ MissesProposal(e)
BY DEF Verdict

\* The part of a replica that the DAG and its events make up.
Genesis ==
    /\ genesis_hash = Zero => events = {} /\ applied = <<>>
    /\ genesis_hash # Zero => applied # <<>>

Dag == DagTypeOK /\ ChainsAgree /\ Genesis

\* Without a genesis event the DAG is empty.
LEMMA EmptyDag ==
    ASSUME Dag, genesis_hash = Zero, NEW a \in Author
    PROVE  chains[a] = <<>> /\ heads[a] = Zero
<1>1. chains[a] \in Seq(Nat \ {Zero})
  BY DEF Dag, DagTypeOK
<1>2. Len(chains[a]) = 0
  <2>1. ASSUME Len(chains[a]) # 0 PROVE FALSE
    <3>1. 1 \in 1 .. Len(chains[a])
      BY <1>1, <2>1, LenProperties
    <3>2. QED
      BY <3>1 DEF Dag, Genesis, ChainsAgree
  <2>2. QED
    BY <2>1
<1>3. chains[a] = <<>>
  BY <1>1, <1>2, EmptySeq
<1>4. QED
  BY <1>3 DEF Dag, ChainsAgree

\* The types after an accepted insertion.
LEMMA InsertType ==
    ASSUME Dag, NEW e \in Event, Verdict(e) = "Ok", Insert(e), Apply(e)
    PROVE  /\ events' \in SUBSET Event
           /\ chains' \in [Author -> Seq(Nat \ {Zero})]
           /\ heads' \in [Author -> Nat]
           /\ genesis_hash' \in HashOf(events') \cup {Zero}
           /\ applied' \in Seq(events')
<1>1. e.hash \in Nat \ {Zero} /\ e.author \in Author
  BY HashAssumption, EventAssumption, ZenonT(30)
<1>2. /\ events' \in SUBSET Event /\ events' = events \cup {e}
      /\ HashOf(events') = HashOf(events) \cup {e.hash}
  BY DEF Dag, DagTypeOK, Insert, HashOf
<1>3. chains' \in [Author -> Seq(Nat \ {Zero})]
  <2>1. Append(chains[e.author], e.hash) \in Seq(Nat \ {Zero})
    BY <1>1, AppendProperties DEF Dag, DagTypeOK
  <2>2. QED
    BY <2>1, Zenon DEF Insert, Dag, DagTypeOK
<1>4. heads' \in [Author -> Nat]
  BY <1>1 DEF Insert, Dag, DagTypeOK
<1>5. genesis_hash' \in HashOf(events') \cup {Zero}
  BY <1>2, Zenon DEF Insert, Dag, DagTypeOK
<1>6. applied' \in Seq(events')
  <2>1. applied \in Seq(events')
    BY <1>2 DEF Dag, DagTypeOK
  <2>2. Append(applied, e) \in Seq(events')
    BY <1>2, <2>1, AppendProperties
  <2>3. <<e>> \in Seq(events')
    BY <1>2
  <2>4. QED
    BY <2>2, <2>3 DEF Apply
<1>7. QED
  BY <1>2, <1>3, <1>4, <1>5, <1>6, ZenonT(30)

\* An accepted event extends its author's chain, so the indexes still agree.
LEMMA InsertChains ==
    ASSUME Dag, NEW e \in Event, Verdict(e) = "Ok", Insert(e)
    PROVE  ChainsAgree'
<1> DEFINE b == e.author
           n == Len(chains[b])
<1>1. /\ b \in Author /\ e.hash \in Nat \ {Zero}
      /\ e.seq = n + 1 /\ e.prev = heads[b]
  BY EventAssumption, HashAssumption, VerdictOk DEF ExpectedSeq
<1>2. /\ chains \in [Author -> Seq(Nat \ {Zero})]
      /\ heads \in [Author -> Nat] /\ events \in SUBSET Event
      /\ n \in Nat
  BY <1>1, LenProperties DEF Dag, DagTypeOK
<1>3. /\ chains' = [chains EXCEPT ![b] = Append(chains[b], e.hash)]
      /\ heads' = [heads EXCEPT ![b] = e.hash]
      /\ events' = events \cup {e}
  BY Zenon DEF Insert
<1>4. /\ Len(chains'[b]) = n + 1
      /\ \A i \in 1 .. n : chains'[b][i] = chains[b][i]
      /\ chains'[b][n + 1] = e.hash
      /\ \A a \in Author : a # b => chains'[a] = chains[a] /\ heads'[a] = heads[a]
  <2>1. chains'[b] = Append(chains[b], e.hash)
    BY <1>1, <1>2, <1>3, Zenon
  <2>2. QED
    BY <1>1, <1>2, <1>3, <2>1, AppendProperties, SMTT(30)
<1>5. ASSUME NEW a \in Author
      PROVE  /\ heads'[a] = IF chains'[a] = <<>> THEN Zero ELSE chains'[a][Len(chains'[a])]
             /\ \A i \in 1 .. Len(chains'[a]) :
                  \E f \in events' :
                     /\ f.hash = chains'[a][i] /\ f.author = a /\ f.seq = i
                     /\ f.prev = IF i = 1 THEN Zero ELSE chains'[a][i - 1]
  <2>1. CASE a # b
    BY <1>3, <1>4, <2>1, SMTT(30) DEF Dag, ChainsAgree
  <2>2. CASE a = b
    <3>1. chains'[b] # <<>>
      BY <1>2, <1>4, SMTT(30)
    <3>2. heads'[b] = chains'[b][Len(chains'[b])]
      BY <1>1, <1>2, <1>3, <1>4, Zenon
    <3>3. ASSUME NEW i \in 1 .. n + 1
          PROVE  \E f \in events' :
                     /\ f.hash = chains'[b][i] /\ f.author = b /\ f.seq = i
                     /\ f.prev = IF i = 1 THEN Zero ELSE chains'[b][i - 1]
      <4>1. CASE i = n + 1
        <5>1. heads[b] = IF i = 1 THEN Zero ELSE chains'[b][i - 1]
          <6>1. CASE n = 0
            <7>1. chains[b] = <<>>
              BY <1>1, <1>2, <6>1, EmptySeq, Zenon
            <7>2. QED
              BY <1>1, <4>1, <6>1, <7>1, SMTT(30) DEF Dag, ChainsAgree
          <6>2. CASE n # 0
            <7>1. chains[b] # <<>> /\ n \in 1 .. n
              BY <1>2, <6>2, SMTT(30)
            <7>2. heads[b] = chains[b][n]
              BY <1>1, <7>1 DEF Dag, ChainsAgree
            <7>3. i # 1 /\ i - 1 = n
              BY <1>2, <4>1, <6>2, SMTT(30)
            <7>4. chains'[b][i - 1] = chains[b][n]
              BY <1>4, <7>1, <7>3, Zenon
            <7>5. QED
              BY <7>2, <7>3, <7>4
          <6>3. QED
            BY <6>1, <6>2, Zenon
        <5>2. QED
          BY <1>1, <1>3, <1>4, <4>1, <5>1, ZenonT(30)
      <4>2. CASE i # n + 1
        <5>1. i \in 1 .. n /\ (i # 1 => i - 1 \in 1 .. n)
          BY <1>2, <4>2, SMTT(30)
        <5>2. \E f \in events :
                 /\ f.hash = chains[b][i] /\ f.author = b /\ f.seq = i
                 /\ f.prev = IF i = 1 THEN Zero ELSE chains[b][i - 1]
          BY <1>1, <5>1, SMTT(30) DEF Dag, ChainsAgree
        <5>3. QED
          BY <1>3, <1>4, <5>1, <5>2, ZenonT(30)
      <4>3. QED
        BY <4>1, <4>2, Zenon
    <3>4. QED
      BY <1>4, <2>2, <3>1, <3>2, <3>3, ZenonT(30)
  <2>3. QED
    BY <2>1, <2>2, Zenon
<1>6. ASSUME NEW f \in events'
      PROVE  f.seq \in 1 .. Len(chains'[f.author]) /\ chains'[f.author][f.seq] = f.hash
  <2>1. CASE f = e
    BY <1>1, <1>2, <1>4, <2>1, SMTT(30)
  <2>2. CASE f \in events
    <3>1. /\ f.author \in Author
          /\ f.seq \in 1 .. Len(chains[f.author]) /\ chains[f.author][f.seq] = f.hash
      BY <1>2, <2>2, EventAssumption, ZenonT(30) DEF Dag, ChainsAgree
    <3>2. CASE f.author = b
      <4>1. f.seq \in 1 .. n /\ chains[b][f.seq] = f.hash
        BY <3>1, <3>2, ZenonT(30)
      <4>2. f.seq \in 1 .. n + 1
        BY <1>2, <4>1
      <4>3. QED
        BY <1>4, <3>2, <4>1, <4>2, ZenonT(30)
    <3>3. CASE f.author # b
      BY <1>4, <3>1, <3>3, ZenonT(30)
    <3>4. QED
      BY <3>2, <3>3, Zenon
  <2>3. QED
    BY <1>3, <2>1, <2>2, Zenon
<1>7. QED
  BY <1>5, <1>6, ZenonT(30) DEF ChainsAgree

\* A head is the hash of an event of the DAG.
LEMMA HeadIsInDag ==
    ASSUME Dag, NEW a \in Author, heads[a] # Zero
    PROVE  /\ Len(chains[a]) \in Nat \ {0}
           /\ \E f \in events : f.hash = heads[a] /\ f.author = a /\ f.seq = Len(chains[a])
<1>1. chains[a] \in Seq(Nat \ {Zero}) /\ chains[a] # <<>>
  BY DEF Dag, DagTypeOK, ChainsAgree
<1>2. Len(chains[a]) \in Nat /\ Len(chains[a]) # 0
  BY <1>1, LenProperties, EmptySeq, Zenon
<1>3. Len(chains[a]) \in 1 .. Len(chains[a]) /\ heads[a] = chains[a][Len(chains[a])]
  BY <1>1, <1>2 DEF Dag, ChainsAgree
<1>4. QED
  BY <1>2, <1>3, SMTT(30) DEF Dag, ChainsAgree

\* The state follows the DAG through an accepted insertion.
LEMMA InsertApplied ==
    ASSUME Dag, AppliedIsDag, PredecessorFirst,
           NEW e \in Event, Verdict(e) = "Ok", Insert(e), Apply(e)
    PROVE  AppliedIsDag' /\ PredecessorFirst' /\ Genesis'
<1> DEFINE n == Len(applied)
<1>1. /\ e.hash \in Nat \ {Zero} /\ e.author \in Author /\ e.hash \notin HashOf(events)
      /\ genesis_hash = Zero => CreatesServer(e) /\ e.prev = Zero
      /\ genesis_hash # Zero => ~ CreatesServer(e)
      /\ e.prev = heads[e.author]
  BY EventAssumption, HashAssumption, VerdictOk, Zenon
<1>2. /\ applied \in Seq(events) /\ n \in Nat
      /\ events \in SUBSET Event /\ genesis_hash \in HashOf(events) \cup {Zero}
  BY LenProperties DEF Dag, DagTypeOK
<1>3. events' = events \cup {e}
  BY DEF Insert
<1>4. CASE genesis_hash = Zero
  <2>1. events = {} /\ CreatesServer(e) /\ e.prev = Zero
    BY <1>1, <1>4, Zenon DEF Dag, Genesis
  <2>2. applied' = <<e>> /\ events' = {e} /\ genesis_hash' = e.hash
    BY <1>3, <2>1 DEF Apply, Insert
  <2>3. Len(applied') = 1 /\ applied'[1] = e
    BY <2>2
  <2>5. AppliedIsDag'
    BY <2>2, <2>3 DEF AppliedIsDag
  <2>6. PredecessorFirst'
    <3> SUFFICES ASSUME NEW i \in 1 .. Len(applied')
                 PROVE  /\ i = 1 <=> applied'[i].hash = genesis_hash'
                        /\ applied'[i].prev = Zero
      BY DEF PredecessorFirst
    <3>1. i = 1
      BY <2>3
    <3>2. QED
      BY <2>1, <2>2, <2>3, <3>1, ZenonT(30)
  <2>7. Genesis'
    BY <1>1, <2>2 DEF Genesis
  <2>8. QED
    BY <2>5, <2>6, <2>7, Zenon
<1>5. CASE genesis_hash # Zero
  <2>1. /\ applied' = Append(applied, e) /\ genesis_hash' = genesis_hash
        /\ genesis_hash \in HashOf(events) /\ applied # <<>>
    BY <1>1, <1>2, <1>5, ZenonT(30) DEF Apply, Insert, Dag, Genesis
  <2>2. /\ Len(applied') = n + 1 /\ applied'[n + 1] = e
        /\ \A i \in 1 .. n : applied'[i] = applied[i]
    BY <1>2, <2>1, AppendProperties
  <2>3. n # 0
    BY <1>2, <2>1, EmptySeq, ZenonT(30)
  <2>4. \A i \in 1 .. n : applied[i] \in events /\ applied[i].hash \in HashOf(events)
    BY <1>2, ElementOfSeq DEF HashOf
  <2>5. AppliedIsDag'
    <3>1. ASSUME NEW f \in events'
          PROVE  \E i \in 1 .. Len(applied') : applied'[i] = f
      <4>1. CASE f = e
        BY <1>2, <2>2, <4>1
      <4>2. CASE f \in events
        <5>1. PICK i \in 1 .. n : applied[i] = f
          BY <4>2 DEF AppliedIsDag
        <5>2. i \in 1 .. n + 1 /\ applied'[i] = f
          BY <1>2, <2>2, <5>1
        <5>3. QED
          BY <2>2, <5>2
      <4>3. QED
        BY <1>3, <4>1, <4>2, ZenonT(30)
    <3>2. ASSUME NEW i \in 1 .. n + 1, NEW j \in 1 .. n + 1, applied'[i] = applied'[j]
          PROVE  i = j
      <4>1. CASE i \in 1 .. n /\ j \in 1 .. n
        BY <2>2, <3>2, <4>1, ZenonT(30) DEF AppliedIsDag
      <4>2. CASE i = n + 1 /\ j \in 1 .. n
        BY <1>1, <2>2, <2>4, <3>2, <4>2, ZenonT(30)
      <4>3. CASE j = n + 1 /\ i \in 1 .. n
        BY <1>1, <2>2, <2>4, <3>2, <4>3, ZenonT(30)
      <4>4. QED
        BY <1>2, <4>1, <4>2, <4>3, SMTT(30)
    <3>3. QED
      BY <2>2, <3>1, <3>2 DEF AppliedIsDag
  <2>6. PredecessorFirst'
    <3> SUFFICES ASSUME NEW i \in 1 .. n + 1
                 PROVE  /\ i = 1 <=> applied'[i].hash = genesis_hash'
                        /\ \/ applied'[i].prev = Zero
                           \/ \E j \in 1 .. i - 1 : applied'[j].hash = applied'[i].prev
      BY <2>2 DEF PredecessorFirst
    <3>1. CASE i \in 1 .. n
      <4>1. /\ i = 1 <=> applied[i].hash = genesis_hash
            /\ \/ applied[i].prev = Zero
               \/ \E j \in 1 .. i - 1 : applied[j].hash = applied[i].prev
        BY <3>1 DEF PredecessorFirst
      <4>2. \A j \in 1 .. i - 1 : j \in 1 .. n
        BY <1>2, <3>1
      <4>3. QED
        BY <2>1, <2>2, <3>1, <4>1, <4>2, ZenonT(30)
    <3>2. CASE i = n + 1
      <4>1. i # 1 /\ applied'[i] = e /\ e.hash # genesis_hash'
        BY <1>1, <1>2, <2>1, <2>2, <2>3, <3>2, SMTT(30)
      <4>3. CASE e.prev = Zero
        BY <4>1, <4>3
      <4>4. CASE e.prev # Zero
        <5>1. PICK f \in events : f.hash = e.prev
          BY <1>1, <4>4, HeadIsInDag
        <5>2. PICK j \in 1 .. n : applied[j] = f
          BY DEF AppliedIsDag
        <5>3. j \in 1 .. i - 1 /\ applied'[j].hash = e.prev
          BY <1>2, <2>2, <3>2, <5>1, <5>2, SMTT(30)
        <5>4. QED
          BY <4>1, <5>3, Zenon
      <4>5. QED
        BY <4>3, <4>4, ZenonT(30)
    <3>3. QED
      BY <1>2, <3>1, <3>2, SMTT(30)
  <2>7. Genesis'
    BY <1>2, <1>5, <2>1, <2>2, <2>3, SMTT(30) DEF Genesis
  <2>8. QED
    BY <2>5, <2>6, <2>7, ZenonT(30)
<1>6. QED
  BY <1>4, <1>5, Zenon

\* After an accepted insertion, whatever could now be inserted has been released.
LEMMA InsertReady ==
    ASSUME Dag, NoReadyEventWaits, NEW e \in Event, Verdict(e) = "Ok", Insert(e),
           Remove(Released(e))
    PROVE  NoReadyEventWaits'
<1> SUFFICES ASSUME NEW x \in entries', Verdict(x.event)' = "Ok"
             PROVE  FALSE
  BY DEF NoReadyEventWaits
<1> DEFINE f == x.event
           b == e.author
<1>1. /\ x \in entries /\ f \in Event /\ f.author \in Author
      /\ f.prev # e.hash /\ (CreatesServer(e) => f.prev # Zero)
  BY EventAssumption, Zenon DEF Remove, Released, Waiting, Dag, DagTypeOK, Entry
<1>2. /\ ~ (Cardinality(f.deps) > MaxDeps)
      /\ f.hash \notin HashOf(events')
      /\ genesis_hash' = Zero => CreatesServer(f) /\ f.seq = 1 /\ f.prev = Zero
      /\ genesis_hash' # Zero => ~ CreatesServer(f)
      /\ f.seq = Len(chains'[f.author]) + 1
      /\ f.prev = heads'[f.author]
      /\ ~ MissesProposal(f)
  BY Zenon DEF Verdict, ExpectedSeq
<1>3. /\ b \in Author /\ e.hash \in Nat \ {Zero}
      /\ genesis_hash = Zero => CreatesServer(e)
      /\ genesis_hash # Zero => ~ CreatesServer(e)
  BY EventAssumption, HashAssumption, VerdictOk, ZenonT(30)
<1>4. /\ chains \in [Author -> Seq(Nat \ {Zero})] /\ heads \in [Author -> Nat]
      /\ chains' = [chains EXCEPT ![b] = Append(@, e.hash)]
      /\ heads' = [heads EXCEPT ![b] = e.hash]
      /\ events' = events \cup {e}
      /\ genesis_hash' = IF CreatesServer(e) THEN e.hash ELSE genesis_hash
  BY Zenon DEF Dag, DagTypeOK, Insert
<1>5. f.author # b
  BY <1>1, <1>2, <1>3, <1>4, ZenonT(30)
<1>6. chains'[f.author] = chains[f.author] /\ heads'[f.author] = heads[f.author]
  BY <1>1, <1>4, <1>5, ZenonT(30)
<1>7. f.hash \notin HashOf(events)
  BY <1>2, <1>4, Zenon DEF HashOf
<1>8. CASE genesis_hash = Zero
  BY <1>1, <1>2, <1>3, <1>6, <1>8, EmptyDag, ZenonT(30)
<1>9. CASE genesis_hash # Zero
  <2>1. genesis_hash' = genesis_hash
    BY <1>3, <1>4, <1>9, ZenonT(30)
  <2>2. Verdict(f) = "Ok"
    BY <1>1, <1>2, <1>6, <1>7, <1>9, <2>1, VerdictOk, ZenonT(30) DEF ExpectedSeq
  <2>3. QED
    BY <1>1, <2>2, Zenon DEF NoReadyEventWaits
<1>10. QED
  BY <1>8, <1>9

-----------------------------------------------------------------------------

\* The inductive invariant.
Replica == Dag /\ AppliedIsDag /\ PredecessorFirst /\ NoReadyEventWaits

\* An insertion with its resolution keeps the invariant.
LEMMA InsertAndResolveKeeps ==
    ASSUME Replica, NEW e \in Event, Verdict(e) = "Ok",
           NEW left \in SUBSET Queued, InsertAndResolve(e, left),
           received' \in SUBSET Event, synced' \in BOOLEAN
    PROVE  Replica'
<1>1. /\ Dag /\ AppliedIsDag /\ PredecessorFirst /\ NoReadyEventWaits
      /\ Insert(e) /\ Apply(e) /\ Remove(Released(e)) /\ UNCHANGED arrivals
  BY DEF Replica, InsertAndResolve
<1>2. ChainsAgree' /\ AppliedIsDag' /\ PredecessorFirst' /\ Genesis' /\ NoReadyEventWaits'
  BY <1>1, InsertChains, InsertApplied, InsertReady, ZenonT(30)
<1>3. work' \in SUBSET Queued
  <2>1. Len(applied) \in Nat
    BY <1>1, LenProperties, ZenonT(30) DEF Dag, DagTypeOK
  <2>2. \A x \in Released(e) : x.id \in Nat /\ x.event \in Event
    BY <1>1 DEF Dag, DagTypeOK, Released, Waiting, Entry
  <2>3. QED
    BY <2>1, <2>2 DEF InsertAndResolve, Queued
<1>4. entries' \in SUBSET Entry /\ arrivals' \in Nat
  BY <1>1 DEF Remove, Dag, DagTypeOK
<1>5. DagTypeOK'
  BY <1>1, <1>3, <1>4, InsertType, ZenonT(30) DEF DagTypeOK
<1>6. QED
  BY <1>2, <1>5, ZenonT(30) DEF Replica, Dag

\* A step that leaves the DAG alone keeps the invariant, provided it buffers no
\* event that the DAG accepts.
LEMMA QuietKeeps ==
    ASSUME Replica, UNCHANGED <<dagVars, applied>>,
           entries' \in SUBSET Entry, arrivals' \in Nat, work' \in SUBSET Queued,
           received' \in SUBSET Event, synced' \in BOOLEAN,
           \A x \in entries' : x \in entries \/ Verdict(x.event) # "Ok"
    PROVE  Replica'
<1>1. DagTypeOK'
  BY Zenon DEF Replica, Dag, DagTypeOK, dagVars, HashOf
<1>2. ChainsAgree' /\ Genesis' /\ AppliedIsDag' /\ PredecessorFirst'
  BY SMTT(30) DEF Replica, Dag, ChainsAgree, Genesis, AppliedIsDag, PredecessorFirst, dagVars
<1>3. ASSUME NEW x PROVE Verdict(x.event)' = Verdict(x.event)
  BY DEF Verdict, dagVars, HashOf, ExpectedSeq
<1>4. NoReadyEventWaits'
  BY <1>3 DEF Replica, NoReadyEventWaits
<1>5. QED
  BY <1>1, <1>2, <1>4, ZenonT(30) DEF Replica, Dag

\* insert_entry adds the event, removes others, or does nothing.
LEMMA InsertEntryAdds ==
    ASSUME entries \in SUBSET Entry, arrivals \in Nat, NEW e \in Event,
           InsertEntry(entries, cached_count, per_author_count, e, Untimed)
    PROVE  /\ entries' \in SUBSET Entry /\ arrivals' \in Nat
           /\ \A x \in entries' : x \in entries \/ x.event = e
<1> DEFINE new == [id |-> arrivals, event |-> e, at |-> Untimed]
<1>1. new \in Entry
  BY DEF Entry
<1>2. entries' \subseteq entries \cup {new}
  BY DEF InsertEntry
<1>3. arrivals' \in Nat
  BY DEF InsertEntry
<1>4. QED
  BY <1>1, <1>2, <1>3, SMTT(30)

\* Every step of insert_and_apply keeps the invariant.
LEMMA ReplicaStep == Replica /\ [ManagedNext]_managedVars => Replica'
<1> SUFFICES ASSUME Replica, [ManagedNext]_managedVars PROVE Replica'
  OBVIOUS
<1>1. DagTypeOK
  BY DEF Replica, Dag
<1>2. ASSUME NEW e \in Event, Receive(e) PROVE Replica'
  <2>1. received' \in SUBSET Event
    BY <1>1, <1>2 DEF Receive, DagTypeOK
  <2>2. CASE ReceiveInserted(e)
    <3>1. synced' \in BOOLEAN
      BY <1>1, <2>2 DEF ReceiveInserted, DagTypeOK
    <3>2. {} \in SUBSET Queued
      OBVIOUS
    <3>3. QED
      BY <2>1, <2>2, <3>1, <3>2, InsertAndResolveKeeps, ZenonT(30) DEF ReceiveInserted
  <2>3. CASE ReceiveOther(e)
    <3>1. /\ UNCHANGED <<dagVars, applied>> /\ work' \in SUBSET Queued
          /\ synced' \in BOOLEAN
      BY <1>1, <2>3 DEF ReceiveOther, DagTypeOK
    <3>2. CASE /\ Verdict(e) \in {"SeqGap", "NotGenesis"}
               /\ InsertEntry(entries, cached_count, per_author_count, e, Untimed)
      <4>1. /\ entries' \in SUBSET Entry /\ arrivals' \in Nat
            /\ \A x \in entries' : x \in entries \/ x.event = e
        BY <1>1, <3>2, InsertEntryAdds DEF DagTypeOK
      <4>2. \A x \in entries' : x \in entries \/ Verdict(x.event) # "Ok"
        BY <3>2, <4>1
      <4>3. QED
        BY <2>1, <3>1, <4>1, <4>2, QuietKeeps, ZenonT(30)
    <3>3. CASE UNCHANGED pendingVars
      <4>1. entries' = entries /\ arrivals' = arrivals
        BY <3>3 DEF pendingVars
      <4>2. entries' \in SUBSET Entry /\ arrivals' \in Nat
        BY <1>1, <4>1, ZenonT(30) DEF DagTypeOK
      <4>3. QED
        BY <2>1, <3>1, <4>1, <4>2, QuietKeeps, ZenonT(30)
    <3>4. QED
      BY <2>3, <3>2, <3>3, ZenonT(30) DEF ReceiveOther
  <2>4. QED
    BY <1>2, <2>2, <2>3 DEF Receive
<1>3. ASSUME Drain PROVE Replica'
  <2>1. PICK x \in work : Dequeue(x)
    BY <1>3 DEF Drain
  <2>2. x.event \in Event /\ work \ {x} \in SUBSET Queued
    BY <1>1 DEF DagTypeOK, Queued
  <2>3. received' \in SUBSET Event /\ synced' \in BOOLEAN
    BY <1>1, <1>3 DEF Drain, DagTypeOK
  <2>4. CASE Verdict(x.event) = "Ok" /\ InsertAndResolve(x.event, work \ {x})
    BY <2>2, <2>3, <2>4, InsertAndResolveKeeps, ZenonT(30)
  <2>5. CASE work' = work \ {x} /\ UNCHANGED <<pendingVars, dagVars, applied>>
    <3>1. entries' = entries /\ arrivals' = arrivals
      BY <2>5 DEF pendingVars
    <3>2. entries' \in SUBSET Entry /\ arrivals' \in Nat
      BY <1>1, <3>1, Zenon DEF DagTypeOK
    <3>3. QED
      BY <2>2, <2>3, <2>5, <3>1, <3>2, QuietKeeps, ZenonT(30)
  <2>6. QED
    BY <2>1, <2>4, <2>5 DEF Dequeue
<1>4. CASE UNCHANGED managedVars
  <2>1. /\ UNCHANGED <<dagVars, applied>> /\ entries' = entries /\ arrivals' = arrivals
        /\ work' = work /\ received' = received /\ synced' = synced
    BY <1>4 DEF managedVars, pendingVars
  <2>2. /\ entries' \in SUBSET Entry /\ arrivals' \in Nat /\ work' \in SUBSET Queued
        /\ received' \in SUBSET Event /\ synced' \in BOOLEAN
    BY <1>1, <2>1 DEF DagTypeOK
  <2>3. QED
    BY <2>1, <2>2, QuietKeeps, ZenonT(30)
<1>5. QED
  BY <1>2, <1>3, <1>4 DEF ManagedNext

\* An empty replica satisfies the invariant.
LEMMA ReplicaInit == ManagedInit => Replica
<1> SUFFICES ASSUME ManagedInit PROVE Replica
  OBVIOUS
<1>1. Len(<<>>) = 0 /\ 1 .. 0 = {}
  OBVIOUS
<1>2. DagTypeOK
  <2>1. entries = {} /\ arrivals = 0
    BY DEF ManagedInit, BufferInit
  <2>2. \A S : <<>> \in Seq(S)
    OBVIOUS
  <2>3. applied \in Seq(events) /\ chains \in [Author -> Seq(Nat \ {Zero})]
    BY <2>2 DEF ManagedInit
  <2>4. heads \in [Author -> Nat] /\ genesis_hash \in HashOf(events) \cup {Zero}
    BY DEF ManagedInit, Zero
  <2>5. QED
    BY <2>1, <2>3, <2>4, ZenonT(30) DEF ManagedInit, DagTypeOK
<1>3. ChainsAgree /\ Genesis
  BY <1>1, ZenonT(30) DEF ManagedInit, ChainsAgree, Genesis
<1>4. AppliedIsDag /\ PredecessorFirst
  BY <1>1 DEF ManagedInit, AppliedIsDag, PredecessorFirst
<1>5. NoReadyEventWaits
  BY DEF ManagedInit, BufferInit, NoReadyEventWaits
<1>6. QED
  BY <1>2, <1>3, <1>4, <1>5, ZenonT(30) DEF Replica, Dag

\* The invariant holds of every behaviour.
LEMMA AlwaysReplica == ManagedSpec => []Replica
<1>1. QED
  BY ReplicaInit, ReplicaStep, PTL DEF ManagedSpec

\* Type correctness of a replica.
THEOREM ReplicaTypeCorrect == ManagedSpec => []DagTypeOK
<1>1. Replica => DagTypeOK
  BY DEF Replica, Dag
<1>2. QED
  BY <1>1, AlwaysReplica, PTL

\* EventDag::insert keeps events, chains and heads in agreement: no author's chain
\* ever forks or has a hole, whatever is received, forks included.
THEOREM ChainsNeverFork == ManagedSpec => []ChainsAgree
<1>1. Replica => ChainsAgree
  BY DEF Replica, Dag
<1>2. QED
  BY <1>1, AlwaysReplica, PTL

\* insert_and_apply applies every event of the DAG exactly once, genesis first and
\* each after its predecessor.
THEOREM StateFollowsDag == ManagedSpec => [](AppliedIsDag /\ PredecessorFirst)
<1>1. Replica => AppliedIsDag /\ PredecessorFirst
  BY DEF Replica
<1>2. QED
  BY <1>1, AlwaysReplica, PTL

\* The two resolve calls of insert_and_apply release everything that an insertion
\* makes insertable, so no event that the DAG would accept stays in the buffer.
THEOREM NothingReadyWaits == ManagedSpec => []NoReadyEventWaits
<1>1. Replica => NoReadyEventWaits
  BY DEF Replica
<1>2. QED
  BY <1>1, AlwaysReplica, PTL

-----------------------------------------------------------------------------
(* No event of an honest author is lost.                                   *)

\* The buffer in its limits, holding no more entries than ever arrived.
Buffer ==
    /\ Exact(entries, cached_count, per_author_count)
    /\ Fits(entries)
    /\ Named(entries, arrivals)
    /\ Cardinality(entries) <= arrivals

\* Queued events sit on an event of the DAG, or start a chain after genesis.
QueuedOnDag ==
    \A x \in work :
        /\ x.event.prev \in HashOf(events) \cup {Zero}
        /\ genesis_hash # Zero

Safe == Replica /\ Buffer /\ QueuedOnDag /\ NoEventLost

\* For an event of an honest author the DAG has no reason to refuse it but that it
\* is there already or comes early.
LEMMA HonestVerdict ==
    ASSUME Replica, NEW e \in Event, e.author \in Honest, ~ CreatesServer(e),
           Verdict(e) \notin {"Ok", "SeqGap", "NotGenesis"}
    PROVE  e \in events
<1> DEFINE a == e.author
           n == Len(chains[a])
<1>1. /\ a \in Author /\ e.hash \in Nat \ {Zero} /\ e.seq \in Nat \ {0}
      /\ MaxDeps \in Nat /\ Cardinality(e.deps) \in Nat
      /\ Cardinality(e.deps) <= MaxDeps /\ ~ MissesProposal(e)
      /\ e.seq = 1 <=> e.prev = Zero
  BY EventAssumption, HashAssumption, HonestAssumption, FS_CardinalityType, ZenonT(30)
<1>2. CASE e.hash \in HashOf(events)
  BY <1>2, HashAssumption, ZenonT(30) DEF HashOf, Replica, Dag, DagTypeOK
<1>3. CASE e.hash \notin HashOf(events)
  <2>1. genesis_hash # Zero /\ e.seq = n + 1 /\ e.prev # heads[a]
    BY <1>1, <1>3 DEF Verdict, ExpectedSeq
  <2>2. chains[a] \in Seq(Nat \ {Zero}) /\ n \in Nat
    BY <1>1, LenProperties, ZenonT(30) DEF Replica, Dag, DagTypeOK
  <2>3. CASE n = 0
    <3>1. chains[a] = <<>> /\ heads[a] = Zero
      BY <1>1, <2>2, <2>3, EmptySeq, ZenonT(30) DEF Replica, Dag, ChainsAgree
    <3>2. QED
      BY <1>1, <2>1, <2>3, <3>1, SMTT(30)
  <2>4. CASE n # 0
    <3>1. e.seq > 1 /\ e.seq - 1 = n /\ n \in 1 .. n /\ chains[a] # <<>>
      BY <2>1, <2>2, <2>4, SMTT(30)
    <3>2. PICK f \in Event : f.hash = e.prev /\ f.author = a /\ f.seq = n
      BY <3>1, HonestAssumption, ZenonT(30)
    <3>3. PICK g \in events : g.hash = chains[a][n] /\ g.author = a /\ g.seq = n
      <4>1. \A i \in 1 .. n : \E g \in events :
                g.hash = chains[a][i] /\ g.author = a /\ g.seq = i
        BY <1>1, SMTT(30) DEF Replica, Dag, ChainsAgree
      <4>2. QED
        BY <3>1, <4>1, Zenon
    <3>4. g \in Event
      BY DEF Replica, Dag, DagTypeOK
    <3>5. g = f
      BY <3>2, <3>3, <3>4, HonestAssumption, SMTT(30)
    <3>6. heads[a] = chains[a][n]
      BY <1>1, <3>1 DEF Replica, Dag, ChainsAgree
    <3>7. QED
      BY <2>1, <3>2, <3>3, <3>5, <3>6, Zenon
  <2>5. QED
    BY <2>3, <2>4, ZenonT(30)
<1>4. QED
  BY <1>2, <1>3

\* A queued event of an honest author is inserted, or is there already.
LEMMA HonestDequeued ==
    ASSUME Replica, QueuedOnDag, NEW x \in work, x.event.author \in Honest,
           ~ CreatesServer(x.event), Verdict(x.event) # "Ok"
    PROVE  x.event \in events
<1> DEFINE e == x.event
           a == e.author
           n == Len(chains[a])
<1>1. /\ e \in Event /\ a \in Author /\ e.seq \in Nat \ {0}
      /\ e.seq = 1 <=> e.prev = Zero
      /\ genesis_hash # Zero /\ e.prev \in HashOf(events) \cup {Zero}
  BY EventAssumption, HashAssumption, HonestAssumption, ZenonT(30)
     DEF Replica, Dag, DagTypeOK, Queued, QueuedOnDag
<1>2. Verdict(e) # "NotGenesis"
  BY <1>1, Zenon DEF Verdict
<1>3. CASE Verdict(e) # "SeqGap"
  BY <1>1, <1>2, <1>3, HonestVerdict, ZenonT(30)
<1>4. CASE Verdict(e) = "SeqGap"
  <2>1. e.seq # n + 1
    BY <1>1, <1>4, Zenon DEF Verdict, ExpectedSeq
  <2>2. chains[a] \in Seq(Nat \ {Zero}) /\ n \in Nat
    BY <1>1, LenProperties, Zenon DEF Replica, Dag, DagTypeOK
  <2>3. e.seq <= n + 1
    <3>1. CASE e.seq = 1
      BY <2>2, <3>1, SMTT(30)
    <3>2. CASE e.seq # 1
      <4>1. PICK f \in Event : f.hash = e.prev /\ f.author = a /\ f.seq = e.seq - 1
        BY <1>1, <3>2, HonestAssumption, SMTT(30)
      <4>2. PICK g \in events : g.hash = e.prev
        BY <1>1, <3>2 DEF HashOf
      <4>3. g = f
        BY <4>1, <4>2, HashAssumption, Zenon DEF Replica, Dag, DagTypeOK
      <4>4. e.seq - 1 \in 1 .. n
        BY <4>1, <4>2, <4>3, SMTT(30) DEF Replica, Dag, ChainsAgree
      <4>5. QED
        BY <1>1, <2>2, <4>4, SMTT(30)
    <3>3. QED
      BY <3>1, <3>2, ZenonT(30)
  <2>4. e.seq \in 1 .. n
    BY <1>1, <2>1, <2>2, <2>3, SMTT(30)
  <2>5. PICK g \in events : g.author = a /\ g.seq = e.seq
    BY <1>1, <2>4, SMTT(30) DEF Replica, Dag, ChainsAgree
  <2>6. g = e
    BY <1>1, <2>5, HonestAssumption, Zenon DEF Replica, Dag, DagTypeOK
  <2>7. QED
    BY <2>5, <2>6, ZenonT(30)
<1>5. QED
  BY <1>3, <1>4, Zenon

\* insert_entry keeps the buffer, and below the limits it keeps everything.
LEMMA InsertEntryBuffer ==
    ASSUME Buffer, arrivals \in Nat, NEW e \in Event,
           InsertEntry(entries, cached_count, per_author_count, e, Untimed)
    PROVE  /\ Buffer'
           /\ arrivals' \in Nat /\ arrivals <= arrivals'
           /\ arrivals' < PerAuthorCap /\ arrivals' <= MaxEntries =>
                entries \subseteq entries' /\ \E x \in entries' : x.event = e
<1> DEFINE a == e.author
           new == [id |-> arrivals, event |-> e, at |-> Untimed]
           more == entries \cup {new}
           gone == Evicted(more, cached_count + 1)
<1>1. /\ IsFiniteSet(entries) /\ Cardinality(entries) \in Nat
      /\ cached_count = Cardinality(entries) /\ Cardinality(entries) <= arrivals
  BY FS_CardinalityType DEF Buffer, Exact
<1>2. /\ Exact(entries', cached_count', per_author_count')
      /\ Fits(entries') /\ arrivals' \in Nat /\ Named(entries', arrivals')
  <2>1. Untimed \in Nat \cup {Untimed}
    BY Zenon
  <2>2. QED
    BY <2>1, InsertEntryKeeps, Zenon DEF Buffer
<1>3. CASE /\ per_author_count[a] >= PerAuthorCap
           /\ entries' = entries /\ arrivals' = arrivals
  <2>1. a \in Author /\ By(entries, a) \subseteq entries
    BY EventAssumption DEF By
  <2>2. /\ Cardinality(By(entries, a)) <= Cardinality(entries)
        /\ Cardinality(By(entries, a)) \in Nat
    BY <1>1, <2>1, FS_Subset, FS_CardinalityType, Zenon
  <2>3. per_author_count[a] = Cardinality(By(entries, a))
    BY <2>1, Zenon DEF Buffer, Exact
  <2>4. ~ (arrivals' < PerAuthorCap)
    BY <1>1, <1>3, <2>2, <2>3, LimitsAssumption, SMTT(30)
  <2>5. Cardinality(entries') <= arrivals'
    BY <1>1, <1>3, Zenon
  <2>6. QED
    BY <1>2, <1>3, <2>4, <2>5, SMTT(30) DEF Buffer
<1>4. CASE entries' = more \ gone /\ arrivals' = arrivals + 1
  <2>1. IsFiniteSet(more) /\ Cardinality(more) \in Nat
        /\ Cardinality(more) <= arrivals + 1
    <3>1. new \notin entries
      BY SMTT(30) DEF Buffer, Named
    <3>2. IsFiniteSet(more) /\ Cardinality(more) = Cardinality(entries) + 1
      BY <1>1, <3>1, FS_AddElement, Zenon
    <3>3. QED
      BY <1>1, <3>2, SMTT(30)
  <2>2. Cardinality(entries') <= arrivals'
    <3>1. entries' \subseteq more
      BY <1>4, Zenon
    <3>2. Cardinality(entries') <= Cardinality(more) /\ Cardinality(entries') \in Nat
      BY <2>1, <3>1, FS_Subset, FS_CardinalityType, Zenon
    <3>3. QED
      BY <1>4, <2>1, <3>2, SMTT(30)
  <2>3. ASSUME arrivals' <= MaxEntries
        PROVE  entries' = more
    <3>1. cached_count + 1 <= MaxEntries
      BY <1>1, <1>4, <2>3, LimitsAssumption, SMTT(30)
    <3>2. gone = {}
      BY <3>1, Zenon DEF Evicted
    <3>3. QED
      BY <1>4, <3>2, Zenon
  <2>4. new \in more /\ new.event = e /\ entries \subseteq more
    OBVIOUS
  <2>5. QED
    <3> HIDE DEF new, more, gone
    <3>1. QED
      BY <1>2, <1>4, <2>2, <2>3, <2>4, SMTT(30) DEF Buffer
<1>5. QED
  BY <1>3, <1>4, Zenon DEF InsertEntry

\* Resolving keeps the buffer.
LEMMA ReleaseBuffer ==
    ASSUME Buffer, arrivals \in Nat, NEW e \in Event, Remove(Released(e)), UNCHANGED arrivals
    PROVE  Buffer'
<1>1. Released(e) \subseteq entries
  BY DEF Released, Waiting
<1>2. /\ IsFiniteSet(entries) /\ entries' = entries \ Released(e)
      /\ Exact(entries, cached_count, per_author_count)
  BY DEF Buffer, Exact, Remove
<1>3. Exact(entries', cached_count', per_author_count')
  BY <1>1, <1>2, RemovalKeepsCounts, ZenonT(30) DEF Remove
<1>4. Fits(entries')
  BY <1>2, SmallerFits, ZenonT(30) DEF Buffer
<1>5. Named(entries', arrivals')
  BY <1>2 DEF Buffer, Named
<1>6. Cardinality(entries') <= arrivals'
  <2>1. /\ Cardinality(entries') <= Cardinality(entries)
        /\ Cardinality(entries) \in Nat /\ Cardinality(entries') \in Nat
    BY <1>2, FS_Subset, FS_CardinalityType
  <2>2. QED
    BY <2>1 DEF Buffer
<1>7. QED
  BY <1>3, <1>4, <1>5, <1>6, Zenon DEF Buffer

\* What is in the DAG, in the buffer or in the queue.
Held(e) ==
    \/ e \in events
    \/ \E x \in entries : x.event = e
    \/ \E x \in work : x.event = e

\* An insertion with its resolution loses nothing.
LEMMA InsertAndResolveHolds ==
    ASSUME Replica, NEW e \in Event, Verdict(e) = "Ok",
           NEW left \in SUBSET Queued, \A x \in work \ left : x.event = e,
           InsertAndResolve(e, left),
           left = {} \/ QueuedOnDag, left \subseteq work
    PROVE  /\ \A f : Held(f) => Held(f)'
           /\ Held(e)'
           /\ QueuedOnDag'
<1>1. /\ events' = events \cup {e}
      /\ entries' = entries \ Released(e)
      /\ \A x \in left : x \in work'
      /\ \A x \in Released(e) : \E y \in work' : y.event = x.event
      /\ \A x \in work' : x \in left \/ \E y \in Released(e) : x.event = y.event
  <2> DEFINE q(x) == [round |-> Len(applied), id |-> x.id, event |-> x.event]
  <2>1. work' = left \cup {q(x) : x \in Released(e)}
    BY Zenon DEF InsertAndResolve
  <2>2. \A x \in Released(e) : q(x) \in work' /\ q(x).event = x.event
    BY <2>1, Zenon
  <2>3. \A x \in Released(e) : \E y \in work' : y.event = x.event
    <3> HIDE DEF q
    <3>1. QED
      BY <2>2, Zenon
  <2>4. \A x \in left : x \in work'
    BY <2>1, Zenon
  <2>5. \A x \in work' : x \in left \/ \E y \in Released(e) : x.event = y.event
    <3>1. \A y : q(y).event = y.event
      BY Zenon
    <3>2. ASSUME NEW x \in work', x \notin left
          PROVE  \E y \in Released(e) : x.event = y.event
      <4>1. PICK y \in Released(e) : x = q(y)
        BY <2>1, <3>2, ZenonT(30)
      <4>2. QED
        BY <3>1, <4>1, ZenonT(30)
    <3>3. QED
      BY <3>2, ZenonT(30)
  <2>6. QED
    BY <2>3, <2>4, <2>5, ZenonT(30) DEF InsertAndResolve, Insert, Remove
<1>2. ASSUME NEW f, Held(f) PROVE Held(f)'
  <2>1. CASE f \in events
    BY <1>1, <2>1, ZenonT(30) DEF Held
  <2>2. CASE \E x \in entries : x.event = f
    BY <1>1, <2>2, ZenonT(30) DEF Held
  <2>3. CASE \E x \in work : x.event = f
    BY <1>1, <2>3 DEF Held
  <2>4. QED
    BY <1>2, <2>1, <2>2, <2>3, ZenonT(30) DEF Held
<1>3. Held(e)'
  BY <1>1, Zenon DEF Held
<1>4. genesis_hash' # Zero
  BY VerdictOk, HashAssumption, ZenonT(30) DEF InsertAndResolve, Insert
<1>5. ASSUME NEW x \in work'
      PROVE  x.event.prev \in HashOf(events') \cup {Zero}
  <2>1. CASE x \in left
    BY <1>1, <2>1, ZenonT(30) DEF QueuedOnDag, HashOf
  <2>2. CASE \E y \in Released(e) : x.event = y.event
    BY <1>1, <2>2, ZenonT(30) DEF Released, Waiting, HashOf
  <2>3. QED
    BY <1>1, <2>1, <2>2, ZenonT(30)
<1>6. QED
  BY <1>2, <1>3, <1>4, <1>5, ZenonT(30) DEF QueuedOnDag

\* NoEventLost, by Held.
LEMMA LostByHeld ==
    NoEventLost <=>
        (arrivals < PerAuthorCap /\ arrivals <= MaxEntries =>
            \A e \in received : e.author \in Honest /\ ~ CreatesServer(e) => Held(e))
BY DEF NoEventLost, Held

\* Every step of insert_and_apply keeps what it was given.
LEMMA SafeStep == Safe /\ [ManagedNext]_managedVars => Safe'
<1> SUFFICES ASSUME Safe, [ManagedNext]_managedVars PROVE Safe'
  OBVIOUS
<1>1. /\ Replica /\ Buffer /\ QueuedOnDag /\ NoEventLost /\ DagTypeOK /\ arrivals \in Nat
      /\ work \in SUBSET Queued
  BY DEF Safe, Replica, Dag, DagTypeOK
<1>2. Replica'
  BY <1>1, ReplicaStep
<1> DEFINE Roomy == arrivals < PerAuthorCap /\ arrivals <= MaxEntries
           Mine(e) == e.author \in Honest /\ ~ CreatesServer(e)
<1>3. Roomy => \A f \in received : Mine(f) => Held(f)
  BY <1>1, LostByHeld, Zenon
<1>4. ASSUME NEW e \in Event, Receive(e) PROVE Safe'
  <2>1. work = {} /\ received' = received \cup {e}
    BY <1>4 DEF Receive
  <2>2. CASE ReceiveInserted(e)
    <3>1. Verdict(e) = "Ok" /\ InsertAndResolve(e, {}) /\ UNCHANGED arrivals
      BY <2>2 DEF ReceiveInserted, InsertAndResolve
    <3>2. /\ \A f : Held(f) => Held(f)'
          /\ Held(e)' /\ QueuedOnDag'
      BY <1>1, <2>1, <3>1, InsertAndResolveHolds, ZenonT(30)
    <3>3. Buffer'
      BY <1>1, <3>1, ReleaseBuffer, ZenonT(30) DEF InsertAndResolve
    <3>4. NoEventLost'
      BY <1>3, <2>1, <3>1, <3>2, ZenonT(30) DEF NoEventLost, Held
    <3>5. QED
      BY <1>2, <3>2, <3>3, <3>4, ZenonT(30) DEF Safe
  <2>3. CASE ReceiveOther(e)
    <3>1. UNCHANGED <<events, genesis_hash, work>>
      BY <2>3 DEF ReceiveOther, dagVars
    <3>2. QueuedOnDag'
      BY <2>1, <3>1 DEF QueuedOnDag
    <3>3. CASE /\ Verdict(e) \in {"SeqGap", "NotGenesis"}
               /\ InsertEntry(entries, cached_count, per_author_count, e, Untimed)
      <4>1. /\ Buffer'
            /\ arrivals' \in Nat /\ arrivals <= arrivals'
            /\ Roomy' => entries \subseteq entries' /\ \E x \in entries' : x.event = e
        BY <1>1, <3>3, InsertEntryBuffer, ZenonT(30)
      <4>2. Roomy' => Roomy
        BY <1>1, <4>1, LimitsAssumption, SMTT(30)
      <4>3. ASSUME Roomy', NEW f \in received', Mine(f) PROVE Held(f)'
        <5>1. CASE f = e
          BY <4>1, <4>3, <5>1, ZenonT(30) DEF Held
        <5>2. CASE f \in received
          <6>1. Held(f)
            BY <1>3, <4>2, <4>3, <5>2, ZenonT(30)
          <6>2. f \in events \/ \E x \in entries : x.event = f
            BY <2>1, <6>1, ZenonT(30) DEF Held
          <6>3. QED
            BY <3>1, <4>1, <4>3, <6>2, ZenonT(30) DEF Held
        <5>3. QED
          BY <2>1, <4>3, <5>1, <5>2, ZenonT(30)
      <4>4. NoEventLost'
        BY <4>3 DEF NoEventLost, Held
      <4>5. QED
        BY <1>2, <3>2, <4>1, <4>4, ZenonT(30) DEF Safe
    <3>4. CASE /\ Verdict(e) \notin {"Ok", "SeqGap", "NotGenesis"}
               /\ UNCHANGED pendingVars
      <4>1. UNCHANGED <<entries, arrivals, cached_count, per_author_count>>
        BY <3>4 DEF pendingVars
      <4>2. Buffer'
        BY <1>1, <4>1 DEF Buffer
      <4>3. Mine(e) => e \in events
        BY <1>1, <3>4, HonestVerdict, ZenonT(30)
      <4>4. NoEventLost'
        BY <1>3, <2>1, <3>1, <4>1, <4>3, ZenonT(30) DEF NoEventLost, Held
      <4>5. QED
        BY <1>2, <3>2, <4>2, <4>4, ZenonT(30) DEF Safe
    <3>5. QED
      BY <2>3, <3>3, <3>4, ZenonT(30) DEF ReceiveOther
  <2>4. QED
    BY <1>4, <2>2, <2>3, ZenonT(30) DEF Receive
<1>5. ASSUME Drain PROVE Safe'
  <2>1. PICK x \in work : Dequeue(x)
    BY <1>5 DEF Drain
  <2>2. received' = received /\ x.event \in Event
    BY <1>1, <1>5 DEF Drain, Queued
  <2>3. CASE Verdict(x.event) = "Ok" /\ InsertAndResolve(x.event, work \ {x})
    <3>1. UNCHANGED arrivals
      BY <2>3, Zenon DEF InsertAndResolve
    <3>2. /\ \A f : Held(f) => Held(f)'
          /\ QueuedOnDag'
      <4>1. /\ work \ {x} \in SUBSET Queued /\ work \ {x} \subseteq work
            /\ \A y \in work \ (work \ {x}) : y.event = x.event
        BY <1>1
      <4>2. QED
        BY <1>1, <2>2, <2>3, <4>1, InsertAndResolveHolds, ZenonT(30)
    <3>3. Buffer'
      BY <1>1, <2>2, <2>3, <3>1, ReleaseBuffer, ZenonT(30) DEF InsertAndResolve
    <3>4. NoEventLost'
      BY <1>3, <2>2, <3>1, <3>2, ZenonT(30) DEF NoEventLost, Held
    <3>5. QED
      BY <1>2, <3>2, <3>3, <3>4, ZenonT(30) DEF Safe
  <2>4. CASE /\ Verdict(x.event) # "Ok"
             /\ work' = work \ {x}
             /\ UNCHANGED <<pendingVars, dagVars, applied>>
    <3>1. UNCHANGED <<entries, arrivals, cached_count, per_author_count, events,
                      genesis_hash>>
      BY <2>4, Zenon DEF pendingVars, dagVars
    <3>2. Buffer'
      BY <1>1, <3>1, Zenon DEF Buffer
    <3>3. QueuedOnDag'
      BY <1>1, <2>4, <3>1, ZenonT(30) DEF QueuedOnDag, HashOf
    <3>4. ASSUME Roomy', NEW f \in received', Mine(f) PROVE Held(f)'
      <4>1. Held(f)
        BY <1>3, <2>2, <3>1, <3>4, ZenonT(30)
      <4>2. CASE f = x.event
        <5>1. f \in events
          BY <1>1, <2>4, <3>4, <4>2, HonestDequeued, ZenonT(30)
        <5>2. QED
          BY <3>1, <5>1 DEF Held
      <4>3. CASE f # x.event
        BY <2>4, <3>1, <4>1, <4>3, ZenonT(30) DEF Held
      <4>4. QED
        BY <4>2, <4>3
    <3>5. NoEventLost'
      BY <3>4 DEF NoEventLost, Held
    <3>6. QED
      BY <1>2, <3>2, <3>3, <3>5, ZenonT(30) DEF Safe
  <2>5. QED
    BY <2>1, <2>3, <2>4, ZenonT(30) DEF Dequeue
<1>6. CASE UNCHANGED managedVars
  <2>1. UNCHANGED <<entries, arrivals, cached_count, per_author_count, events,
                    genesis_hash, work, received>>
    BY <1>6, ZenonT(30) DEF managedVars, pendingVars, dagVars
  <2>2. Buffer' /\ QueuedOnDag' /\ NoEventLost'
    BY <1>1, <2>1 DEF Buffer, QueuedOnDag, NoEventLost, HashOf
  <2>3. QED
    BY <1>2, <2>2 DEF Safe
<1>7. QED
  BY <1>4, <1>5, <1>6, ZenonT(30) DEF ManagedNext

\* Below the buffer's limits no event of an honest author is ever lost: once handed
\* to insert_and_apply it is in the DAG, buffered or queued, even though the loop
\* silently skips the events the DAG refuses.
THEOREM NoHonestEventIsLost == ManagedSpec => []NoEventLost
<1>1. ManagedInit => Safe
  <2> SUFFICES ASSUME ManagedInit PROVE Safe
    OBVIOUS
  <2>1. BufferInit
    BY DEF ManagedInit
  <2>2. Sound /\ entries = {} /\ arrivals = 0
    BY <2>1, SoundInit, ZenonT(30) DEF BufferInit
  <2>3. Cardinality(entries) <= arrivals
    BY <2>2, FS_EmptySet, SMTT(30)
  <2>4. Buffer
    BY <2>2, <2>3, Zenon DEF Sound, Buffer
  <2>5. QueuedOnDag /\ NoEventLost
    BY DEF ManagedInit, QueuedOnDag, NoEventLost
  <2>6. QED
    BY <2>4, <2>5, ReplicaInit, ZenonT(30) DEF Safe
<1>2. Safe => NoEventLost
  BY DEF Safe
<1>3. QED
  BY <1>1, <1>2, SafeStep, PTL DEF ManagedSpec

-----------------------------------------------------------------------------
(* A replica implements ReplicaLog.                                        *)

\* An accepted event continues the log.
LEMMA InsertFollows ==
    ASSUME Replica, NEW e \in Event, Verdict(e) = "Ok", Apply(e)
    PROVE  Log!Follows(applied, e) /\ applied' = Append(applied, e)
<1> DEFINE a == e.author
           n == Len(chains[a])
<1>1. /\ Dag /\ a \in Author
      /\ genesis_hash = Zero <=> CreatesServer(e)
      /\ e.seq = n + 1 /\ e.prev = heads[a]
  BY EventAssumption, VerdictOk, Zenon DEF Replica, ExpectedSeq
<1>2. /\ chains[a] \in Seq(Nat \ {Zero}) /\ n \in Nat
      /\ applied \in Seq(events) /\ events \in SUBSET Event
  BY <1>1, LenProperties, Zenon DEF Dag, DagTypeOK
<1>3. CreatesServer(e) <=> applied = <<>>
  BY <1>1, Zenon DEF Dag, Genesis
<1>4. applied' = Append(applied, e)
  <2>1. CASE CreatesServer(e)
    <3>1. applied = <<>> /\ applied' = <<e>>
      BY <1>3, <2>1 DEF Apply
    <3>2. Append(<<>>, e) = <<e>>
      OBVIOUS
    <3>3. QED
      BY <3>1, <3>2
  <2>2. CASE ~ CreatesServer(e)
    BY <2>2, Zenon DEF Apply
  <2>3. QED
    BY <2>1, <2>2, ZenonT(30)
<1>5. ASSUME NEW i \in 1 .. Len(applied), applied[i].author = a
      PROVE  applied[i].seq < e.seq
  <2>1. applied[i] \in events
    BY <1>2, ElementOfSeq, ZenonT(30)
  <2>2. applied[i].seq \in 1 .. n
    BY <1>1, <1>5, <2>1, ZenonT(30) DEF Dag, ChainsAgree
  <2>3. QED
    BY <1>1, <1>2, <2>2, SMTT(30)
<1>6. \/ e.seq = 1 /\ e.prev = 0
      \/ \E i \in 1 .. Len(applied) :
            applied[i].author = a /\ applied[i].seq = e.seq - 1 /\ applied[i].hash = e.prev
  <2>1. CASE heads[a] = Zero
    <3>1. n = 0
      <4>1. ASSUME n # 0 PROVE FALSE
        <5>1. chains[a] # <<>> /\ n \in 1 .. n
          BY <1>2, <4>1, SMTT(30)
        <5>2. heads[a] = chains[a][n] /\ chains[a][n] \in Nat \ {Zero}
          BY <1>1, <1>2, <5>1, ElementOfSeq, ZenonT(30) DEF Dag, ChainsAgree
        <5>3. QED
          BY <2>1, <5>2, ZenonT(30)
      <4>2. QED
        BY <4>1, Zenon
    <3>2. QED
      BY <1>1, <2>1, <3>1, SMTT(30) DEF Zero
  <2>2. CASE heads[a] # Zero
    <3>1. PICK f \in events : f.hash = heads[a] /\ f.author = a /\ f.seq = n
      BY <1>1, <2>2, HeadIsInDag, ZenonT(30)
    <3>2. PICK i \in 1 .. Len(applied) : applied[i] = f
      BY ZenonT(30) DEF Replica, AppliedIsDag
    <3>3. e.seq - 1 = n
      BY <1>1, <1>2
    <3>4. QED
      BY <1>1, <3>1, <3>2, <3>3, ZenonT(30)
  <2>3. QED
    BY <2>1, <2>2, ZenonT(30)
<1>7. QED
  BY <1>3, <1>4, <1>5, <1>6, Zenon DEF Log!Follows, CreatesServer

\* ManagedDag implements ReplicaLog: every insertion and every turn of the loop
\* appends one event that continues its author's chain, or leaves the log alone.
THEOREM ReplicaImplementsLog == ManagedSpec => ImplementsLog
<1>1. ManagedInit => Log!Init
  BY DEF ManagedInit, Log!Init
<1>2. Replica /\ [ManagedNext]_managedVars => [Log!Next]_applied
  <2> SUFFICES ASSUME Replica, [ManagedNext]_managedVars PROVE [Log!Next]_applied
    OBVIOUS
  <2>1. ASSUME NEW e \in Event, Verdict(e) = "Ok", Apply(e)
        PROVE  Log!Next
    BY <2>1, InsertFollows DEF Log!Next, Log!Accept
  <2>2. ASSUME NEW e \in Event, Receive(e) PROVE [Log!Next]_applied
    <3>1. CASE ReceiveInserted(e)
      BY <2>1, <3>1 DEF ReceiveInserted, InsertAndResolve
    <3>2. CASE ReceiveOther(e)
      BY <3>2, Zenon DEF ReceiveOther
    <3>3. QED
      BY <2>2, <3>1, <3>2, ZenonT(30) DEF Receive
  <2>3. ASSUME Drain PROVE [Log!Next]_applied
    <3>1. PICK x \in work : Dequeue(x)
      BY <2>3, Zenon DEF Drain
    <3>2. x.event \in Event
      BY DEF Replica, Dag, DagTypeOK, Queued
    <3>3. QED
      BY <2>1, <3>1, <3>2, ZenonT(30) DEF Dequeue, InsertAndResolve
  <2>4. CASE UNCHANGED managedVars
    BY <2>4 DEF managedVars
  <2>5. QED
    BY <2>2, <2>3, <2>4, ZenonT(30) DEF ManagedNext
<1>3. QED
  BY <1>1, <1>2, AlwaysReplica, PTL DEF ManagedSpec, ImplementsLog, Log!Spec
=============================================================================
