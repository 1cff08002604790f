---------------------------- MODULE PendingBuffer ----------------------------
(***************************************************************************)
(* The buffer of events that arrived before their predecessor in their     *)
(* author's chain: PendingBuffer of crates/state/src/sync.rs.              *)
(*                                                                         *)
(* waiting_on_prev, a map from hash to a vector of entries, is the set     *)
(* `entries': an event waits for its prev, and `id' is the order of        *)
(* arrival, which is the order of the vectors.  The counters the code      *)
(* keeps beside the map are state of their own.                            *)
(***************************************************************************)
EXTENDS Integers, FiniteSets

CONSTANTS
    Author,         \* endpoint ids
    Event,          \* events: records with an author and the hash prev
    MaxEntries,     \* max_entries
    PerAuthorCap,   \* max_per_author
    MaxAge,         \* max_age_ms
    MaxArrivals,    \* bound on the number of insertions
    MaxTime         \* bound on the clock

ASSUME LimitsAssumption ==
    /\ MaxEntries \in Nat /\ PerAuthorCap \in Nat \ {0}
    /\ MaxAge \in Nat /\ MaxArrivals \in Nat /\ MaxTime \in Nat
ASSUME EventAssumption == \A e \in Event : e.author \in Author /\ e.prev \in Nat

VARIABLES
    entries,            \* waiting_on_prev
    cached_count,       \* cached_count
    per_author_count,   \* per_author_count; no entry is 0
    missing_deps,       \* missing_deps
    arrivals,           \* insertions so far, the source of ids
    now                 \* the wall clock of the callers that pass one

bufferVars == <<entries, cached_count, per_author_count, missing_deps, arrivals, now>>

\* Event hashes, in the order of the map's keys.
Prev == {e.prev : e \in Event}

\* inserted_at_ms = None.
Untimed == -1

Entry == [id : Nat, event : Event, at : Nat \cup {Untimed}]

\* The type invariant.  An id names one entry.
BufferTypeOK ==
    /\ entries \in SUBSET Entry
    /\ IsFiniteSet(entries)
    /\ cached_count \in Nat
    /\ per_author_count \in [Author -> Nat]
    /\ missing_deps \in SUBSET Nat
    /\ arrivals \in Nat
    /\ now \in Nat
    /\ \A e \in entries : e.id < arrivals
    /\ \A e, f \in entries : e.id = f.id => e = f

BufferInit ==
    /\ entries = {}
    /\ cached_count = 0
    /\ per_author_count = [a \in Author |-> 0]
    /\ missing_deps = {}
    /\ arrivals = 0
    /\ now = 0

-----------------------------------------------------------------------------

By(es, a) == {x \in es : x.event.author = a}

SaturatingSub(m, n) == IF m > n THEN m - n ELSE 0

\* Mutant of Decrement: once for an author, however many of its entries went.
DecrementOnce(counts, gone) ==
    [a \in Author |-> SaturatingSub(counts[a], IF By(gone, a) = {} THEN 0 ELSE 1)]

\* decrement_author for each entry of `gone'.
Decrement(counts, gone) ==
    [a \in Author |-> SaturatingSub(counts[a], Cardinality(By(gone, a)))]

\* evict_expired at time t: what it removes.
Expired(es, t) == {x \in es : x.at # Untimed /\ t - x.at > MaxAge}

\* evict_to(MaxEntries): while the cached count is too large and there is a
\* bucket, the bucket of the least hash goes.  The buckets removed are those of
\* the hashes up to the least one that brings the count down far enough.
UpTo(es, p) == {x \in es : x.event.prev <= p}

\* Mutant of Evicted: one entry of the first bucket goes, not the bucket.
EvictedOne(es, count) ==
    IF count <= MaxEntries THEN {}
    ELSE {CHOOSE x \in es : \A y \in es : x.event.prev <= y.event.prev}

Evicted(es, count) ==
    IF count <= MaxEntries THEN {}
    ELSE LET enough == {p \in Prev : count - Cardinality(UpTo(es, p)) <= MaxEntries}
         IN  IF enough = {} THEN es
             ELSE UpTo(es, CHOOSE p \in enough : \A q \in enough : p <= q)

\* insert_entry on what evict_expired left (es, count, counts).
InsertEntry(es, count, counts, event, at) ==
    LET a == event.author IN
    \/ /\ counts[a] >= PerAuthorCap
       /\ entries' = es
       /\ cached_count' = count
       /\ per_author_count' = counts
       /\ UNCHANGED arrivals
    \/ /\ counts[a] < PerAuthorCap
       /\ LET new == [id |-> arrivals, event |-> event, at |-> at]
              gone == Evicted(es \cup {new}, count + 1)
          IN  /\ entries' = (es \cup {new}) \ gone
              /\ cached_count' = SaturatingSub(count + 1, Cardinality(gone))
              /\ per_author_count' =
                    Decrement([counts EXCEPT ![a] = @ + 1], gone)
       /\ arrivals' = arrivals + 1

-----------------------------------------------------------------------------

BufferForPrev(event) ==
    /\ arrivals < MaxArrivals
    /\ InsertEntry(entries, cached_count, per_author_count, event, Untimed)
    /\ UNCHANGED <<missing_deps, now>>

BufferForPrevAt(event) ==
    /\ arrivals < MaxArrivals
    /\ LET old == Expired(entries, now)
       IN  InsertEntry(entries \ old, SaturatingSub(cached_count, Cardinality(old)),
                       Decrement(per_author_count, old), event, now)
    /\ UNCHANGED <<missing_deps, now>>

\* Entries leave, and the counters follow.
Remove(gone) ==
    /\ entries' = entries \ gone
    /\ cached_count' = SaturatingSub(cached_count, Cardinality(gone))
    /\ per_author_count' = Decrement(per_author_count, gone)

Waiting(es, hash) == {x \in es : x.event.prev = hash}

\* Returns the entries that waited for the hash, in order of arrival.
Resolve(hash) ==
    /\ Remove(Waiting(entries, hash))
    /\ missing_deps' = missing_deps \ {hash}
    /\ UNCHANGED <<arrivals, now>>

RecordMissingDep(hash) ==
    /\ missing_deps' = missing_deps \cup {hash}
    /\ UNCHANGED <<entries, cached_count, per_author_count, arrivals, now>>

EvictExpired ==
    /\ Remove(Expired(entries, now))
    /\ UNCHANGED <<missing_deps, arrivals, now>>

\* A wall clock: it may be set back.
Clock(t) ==
    /\ now' = t
    /\ UNCHANGED <<entries, cached_count, per_author_count, missing_deps, arrivals>>

BufferNext ==
    \/ \E e \in Event : BufferForPrev(e)
    \/ \E e \in Event : BufferForPrevAt(e)
    \/ \E p \in Prev : Resolve(p)
    \/ \E p \in Prev : RecordMissingDep(p)
    \/ EvictExpired
    \/ \E t \in 0 .. MaxTime : Clock(t)

BufferSpec == BufferInit /\ [][BufferNext]_bufferVars

-----------------------------------------------------------------------------
(* Properties.                                                             *)

\* cached_count and per_author_count are what they cache, through every insertion,
\* resolution, age eviction and bucket eviction.
CountsExact ==
    /\ cached_count = Cardinality(entries)
    /\ \A a \in Author : per_author_count[a] = Cardinality(By(entries, a))

\* The buffer holds at most max_entries events, and at most max_per_author of any
\* author.
Bounded ==
    /\ Cardinality(entries) <= MaxEntries
    /\ \A a \in Author : Cardinality(By(entries, a)) <= PerAuthorCap

\* Capacity eviction takes whole buckets: afterwards no event waits for a hash for
\* which another was just evicted, so a chain is never left with a later event
\* buffered under the same predecessor as one that was dropped.
BucketsGoWhole ==
    [][arrivals' > arrivals =>
         \A x \in entries \ entries', y \in entries' :
            x.at = Untimed => x.event.prev # y.event.prev]_bufferVars
=============================================================================
