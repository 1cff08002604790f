----------------------------- MODULE EventStore -----------------------------
(***************************************************************************)
(* The storage worker: StorageRole of crates/storage/src/role.rs over the  *)
(* event table of crates/storage/src/store.rs.                             *)
(*                                                                         *)
(* The table is a set of events, each its own primary key; it has no chain *)
(* or genesis check, so rows come in any order and with holes.  StoreEvent *)
(* is the whole vocabulary of events of one server: the role stores every  *)
(* event under one server id.  Two readers work against it while events    *)
(* keep arriving: one pages backwards with History, its cursor the least   *)
(* sequence number seen of each author, and one catches up with Sync,      *)
(* inserting what it gets into a DAG of its own.  Both belong to clients   *)
(* outside the repository's code and do what the comments of               *)
(* WorkerResponse ask of them.                                             *)
(***************************************************************************)
EXTENDS Integers, FiniteSets, FiniteSetsExt

CONSTANTS
    StoreEvent,     \* records with author, seq, hash and size
    PageLimit,      \* the limit of a History request
    RowLimit,       \* SYNC_BATCH_LIMIT
    Envelope        \* SYNC_ENVELOPE_BUDGET

StoreAuthor == {e.author : e \in StoreEvent}

ASSUME StoreAssumption ==
    /\ IsFiniteSet(StoreEvent)
    /\ PageLimit \in Nat \ {0} /\ RowLimit \in Nat \ {0, 1} /\ Envelope \in Nat
    /\ \A e, f \in StoreEvent : e.hash = f.hash \/ <<e.author, e.seq>> = <<f.author, f.seq>> => e = f
    /\ \A e \in StoreEvent : e.hash \in Nat /\ e.seq \in Nat \ {0} /\ e.size \in Nat \ {0}

\* The envelope is full long before the row limit is reached.
ASSUME RowsAssumption == \A e \in StoreEvent : RowLimit * e.size > Envelope

VARIABLES
    rows,       \* the table
    cursor,     \* History reader: the least seq it has of an author; 0 for none
    read,       \* History reader: the events it has
    repeated,   \* history: the events it was sent again
    first,      \* history: the rows there were when it asked for its first page
    paging,     \* History reader: "start", "more" or "done"
    known,      \* Sync reader: its chain of each author
    level       \* Sync reader: its last answer said that nothing more follows

storeVars == <<rows, cursor, read, repeated, first, paging, known, level>>

StoreInit ==
    /\ rows = {}
    /\ cursor = [a \in StoreAuthor |-> 0]
    /\ read = {}
    /\ repeated = {}
    /\ first = {}
    /\ paging = "start"
    /\ known = [a \in StoreAuthor |-> 0]
    /\ level = FALSE

\* on_event: INSERT OR IGNORE.
StoreOne(e) ==
    /\ rows' = rows \cup {e}
    /\ level' = (level /\ e \in rows)
    /\ UNCHANGED <<cursor, read, repeated, first, paging, known>>

-----------------------------------------------------------------------------

\* ORDER BY seq DESC, hash ASC.
Later(x, y) == x.seq > y.seq \/ (x.seq = y.seq /\ x.hash < y.hash)

\* ... LIMIT n.
Newest(S, n) == {x \in S : Cardinality({y \in S : Later(y, x)}) < n}

\* Mutant of PageRows: an author the cursor does not mention is passed over.
PageRowsMentioned == {e \in rows : e.seq < cursor[e.author] \/ paging = "start"}

\* The WHERE clause of history: before the cursor, or of an author not in it.
PageRows == {e \in rows : cursor[e.author] = 0 \/ e.seq < cursor[e.author]}

\* One row more than the page is fetched, to tell whether another page follows.
History ==
    /\ paging # "done"
    /\ LET fetched == Newest(PageRows, PageLimit + 1)
           page == Newest(fetched, PageLimit)
       IN  /\ paging' = IF fetched # page THEN "more" ELSE "done"
           /\ read' = read \cup page
           /\ repeated' = repeated \cup (read \cap page)
           /\ cursor' = [a \in StoreAuthor |->
                LET got == {e.seq : e \in {f \in page : f.author = a}}
                IN  IF got = {} THEN cursor[a] ELSE Min(got)]
    /\ first' = IF paging = "start" THEN rows ELSE first
    /\ UNCHANGED <<rows, known, level>>

-----------------------------------------------------------------------------

\* ORDER BY seq ASC: rows with one seq come in any order, here by their hash.
Earlier(x, y) == x.seq < y.seq \/ (x.seq = y.seq /\ x.hash < y.hash)

\* ... LIMIT n.
Oldest(S, n) == {x \in S : Cardinality({y \in S : Earlier(y, x)}) < n}

\* sync_since; no head listed is all rows, which heads of 0 say too.
SyncSince(heads) == Oldest({e \in rows : e.seq > heads[e.author]}, RowLimit)

\* The sum of the sizes.
Total(es) == Cardinality(UNION {{e} \X (1 .. e.size) : e \in es})

\* Mutant of FirstPacked: the event that does not fit is skipped, not the batch ended.
FirstPackedSmall(es) == {e \in es : e.size <= Envelope}

\* pack_sync_batches: the events of the first batch, one at least.
FirstPacked(es) ==
    {x \in es : LET upTo == {y \in es : x = y \/ Earlier(y, x)}
                IN  upTo = {x} \/ Total(upTo) <= Envelope}

\* The reader's chains after it inserted the events `got': it cannot pass a hole.
Extended(chains, got) ==
    [a \in StoreAuthor |->
        LET reach == {n \in chains[a] .. Cardinality(StoreEvent) :
                        \A m \in chains[a] + 1 .. n : \E e \in got : e.author = a /\ e.seq = m}
        IN  Max(reach)]

\* A Sync request, its answer and the insertion of the batch.
SyncOnce ==
    /\ LET delta == SyncSince(known)
           batch == FirstPacked(delta)
       IN  /\ known' = Extended(known, batch)
           /\ level' = (batch = delta)
    /\ UNCHANGED <<rows, cursor, read, repeated, first, paging>>

StoreNext ==
    \/ \E e \in StoreEvent : StoreOne(e)
    \/ History
    \/ SyncOnce

\* Both readers go on, as worker_types.rs asks of them: with the last cursor while there
\* is one, and with advanced heads while `more' is set.
StoreFairness == WF_storeVars(History) /\ WF_storeVars(SyncOnce)

StoreSpec == StoreInit /\ [][StoreNext]_storeVars /\ StoreFairness

-----------------------------------------------------------------------------
(* Properties.                                                             *)

\* "Nothing more" is true.  Paging returns no event twice, and when the last page came,
\* it has returned every row there was at the first: rows that arrive between two
\* pages, of new authors or in the middle of a chain, push nothing out of reach.  And
\* the batch that says nothing more follows leaves the Sync reader with every row
\* that its chains can reach.
NothingLeftBehind ==
    /\ repeated = {}
    /\ paging = "done" => first \subseteq read
    /\ level => known = Extended(known, rows)

\* A reader that keeps asking has every event in the end, however the table was filled.
ReaderCatchesUp == (rows = StoreEvent) ~> (\A e \in StoreEvent : e.seq <= known[e.author])
=============================================================================
