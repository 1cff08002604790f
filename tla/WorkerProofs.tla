---------------------------- MODULE WorkerProofs ----------------------------
(***************************************************************************)
(* Proofs about the two workers.  ReplayWorker: for any servers, authors   *)
(* and chains, every order and number of deliveries, all limits and every  *)
(* choice of what is evicted.  EventStore: for any events, in any order,   *)
(* with the pages and the batches its readers ask for.                     *)
(***************************************************************************)
EXTENDS ReplayWorker, EventStore, FiniteSetTheorems, WellFoundedInduction, TLAPS

-----------------------------------------------------------------------------
(* Numbers and sizes.                                                      *)

\* A set of numbers has a least one.
LEMMA LeastOf ==
    ASSUME NEW H \in SUBSET Nat, H # {}
    PROVE  \E p \in H : \A q \in H : p <= q
<1>1. PICK p \in H : \A q \in H : ~ (<<q, p>> \in OpToRel(<, Nat))
  BY NatLessThanWellFounded, WFMin, Zenon
<1>2. \A q \in H : ~ (q < p)
  BY <1>1, Zenon DEF OpToRel
<1>3. QED
  BY <1>2

LEMMA TimesMonotone ==
    ASSUME NEW m \in Nat, NEW n \in Nat, m <= n, NEW k \in Nat
    PROVE  m * k <= n * k
<1>1. PICK d \in Nat : n = m + d
  <2>1. n - m \in Nat /\ n = m + (n - m)
    OBVIOUS
  <2> QED
    BY <2>1
<1>2. (m + d) * k = m * k + d * k /\ d * k \in Nat /\ m * k \in Nat
  OBVIOUS
<1> QED
  BY <1>1, <1>2

\* When n things of any of the sizes exceed the bound, n or more of S do.
LEMMA ManyDoNotFit ==
    ASSUME NEW S, IsFiniteSet(S), NEW size \in [S -> Nat], NEW n \in Nat \ {0}, NEW bound \in Nat,
           \A x \in S : n * size[x] > bound, n <= Cardinality(S)
    PROVE  ~ (Cardinality(UNION {{x} \X (1 .. size[x]) : x \in S}) <= bound)
<1> DEFINE sizes == {size[x] : x \in S}
           parts == {{x} \X (1 .. size[x]) : x \in S}
<1>1. Cardinality(S) \in Nat
  BY FS_CardinalityType
<1>2. S # {}
  BY <1>1, FS_EmptySet
<1>3. sizes \in SUBSET Nat /\ sizes # {}
  BY <1>2
<1>4. PICK least \in sizes : \A t \in sizes : least <= t
  BY <1>3, LeastOf, Zenon
<1>5. least \in Nat /\ \A x \in S : least <= size[x] /\ size[x] \in Nat
  BY <1>3, <1>4
<1>6. bound < n * least
  BY <1>4
<1>7. IsFiniteSet(S \X (1 .. least)) /\ Cardinality(S \X (1 .. least)) = Cardinality(S) * least
  <2>1. IsFiniteSet(1 .. least) /\ Cardinality(1 .. least) = least
    BY <1>5, FS_Interval
  <2> QED
    BY <2>1, FS_Product, ZenonT(30)
<1>8. S \X (1 .. least) \in SUBSET (UNION parts)
  <2> SUFFICES ASSUME NEW x \in S, NEW i \in 1 .. least
               PROVE  <<x, i>> \in UNION parts
    OBVIOUS
  <2>1. <<x, i>> \in {x} \X (1 .. size[x])
    BY <1>5
  <2>2. {x} \X (1 .. size[x]) \in parts
    OBVIOUS
  <2> QED
    BY <2>1, <2>2, Zenon
<1>9. IsFiniteSet(UNION parts)
  <2>1. IsFiniteSet(parts)
    <3> DEFINE f == [x \in S |-> {x} \X (1 .. size[x])]
    <3>1. f \in Surjection(S, parts)
      BY Zenon DEF Surjection
    <3> QED
      BY <3>1, FS_Surjection
  <2>2. \A T \in parts : IsFiniteSet(T)
    <3> SUFFICES ASSUME NEW T \in parts PROVE IsFiniteSet(T)
      BY Zenon
    <3> PICK x \in S : T = {x} \X (1 .. size[x])
      BY Zenon
    <3>1. IsFiniteSet({x})
      BY FS_Singleton, Zenon
    <3>2. 1 \in Int /\ size[x] \in Int
      BY <1>5
    <3>3. IsFiniteSet(1 .. size[x])
      BY <3>2, FS_Interval, Zenon
    <3> QED
      BY <3>1, <3>3, FS_Product, Zenon
  <2> QED
    BY <2>1, <2>2, FS_UNION, Zenon
<1>10. Cardinality(S) * least <= Cardinality(UNION parts) /\ Cardinality(UNION parts) \in Nat
  <2>1. Cardinality(S \X (1 .. least)) <= Cardinality(UNION parts)
    BY <1>8, <1>9, FS_Subset
  <2>2. Cardinality(UNION parts) \in Nat
    BY <1>9, FS_CardinalityType
  <2> QED
    BY <1>7, <2>1, <2>2
<1>11. n * least <= Cardinality(S) * least
  BY <1>1, <1>5, TimesMonotone
<1>12. n * least \in Nat /\ Cardinality(S) * least \in Nat
  BY <1>1, <1>5
<1> HIDE DEF parts
<1>13. ~ (Cardinality(UNION parts) <= bound)
  BY <1>6, <1>10, <1>11, <1>12
<1> QED
  BY <1>13 DEF parts

-----------------------------------------------------------------------------
(* Events and chains.                                                      *)

\* The predecessor of an author's later event is an event of the same author in the
\* same server; of a first event, it is none.
LEMMA PrevFacts ==
    ASSUME NEW e \in ReplayEvent
    PROVE  /\ e.seq = 1 => PrevOf(e) = NoEvent
           /\ e.seq # 1 => /\ PrevOf(e) \in ReplayEvent /\ PrevOf(e).server = e.server
                           /\ PrevOf(e).author = e.author /\ PrevOf(e).seq = e.seq - 1
           /\ e.seq \in Nat \ {0} /\ e.create \in BOOLEAN /\ (e.create => e.seq = 1)
           /\ e.server \in Server
  <1>1. /\ e.seq \in Nat \ {0} /\ e.create \in BOOLEAN /\ (e.create => e.seq = 1)
        /\ e.server \in Server
        /\ e.seq > 1 => \E f \in ReplayEvent :
                            f.server = e.server /\ f.author = e.author /\ f.seq = e.seq - 1
    BY ReplayAssumption
  <1>2. e.seq # 1 => e.seq > 1
    BY <1>1
  <1> QED
    BY <1>1, <1>2 DEF PrevOf

\* NoEvent is no event.
LEMMA NoEventIsNone == NoEvent \notin ReplayEvent
  BY ReplayAssumption DEF NoEvent

\* The chains of a DAG have no gaps: an author's n events have the numbers 1 to n.
Dense(dag) ==
    \A e \in dag : /\ e.seq <= LatestSeq(dag, e.author)
                   /\ \A n \in 1 .. LatestSeq(dag, e.author) :
                        \E f \in dag : f.author = e.author /\ f.seq = n

\* A DAG of server s.
DagOf(dag, s) ==
    /\ dag \in SUBSET ReplayEvent /\ IsFiniteSet(dag)
    /\ \A e \in dag : e.server = s
    /\ Dense(dag)

\* The length of a chain is a number, 0 for no events only.
LEMMA ChainLength ==
    ASSUME NEW dag, IsFiniteSet(dag), NEW a
    PROVE  /\ LatestSeq(dag, a) \in Nat
           /\ LatestSeq(dag, a) = 0 <=> ChainOf(dag, a) = {}
  <1>1. IsFiniteSet(ChainOf(dag, a))
    BY FS_Subset DEF ChainOf
  <1> QED
    BY <1>1, FS_CardinalityType, FS_EmptySet DEF LatestSeq

\* The head of a chain is in the DAG.
LEMMA HeadIsLast ==
    ASSUME NEW dag, NEW s, DagOf(dag, s), NEW a, ChainOf(dag, a) # {}
    PROVE  HeadOf(dag, a) \in ChainOf(dag, a)
  <1>1. PICK e \in dag : e.author = a
    BY DEF ChainOf
  <1>2. LatestSeq(dag, a) \in Nat \ {0}
    BY ChainLength DEF DagOf
  <1>3. PICK f \in dag : f.author = a /\ f.seq = LatestSeq(dag, a)
    BY <1>1, <1>2 DEF DagOf, Dense
  <1>4. f \in ChainOf(dag, a) /\ \A y \in ChainOf(dag, a) : y.seq <= f.seq
    BY <1>3 DEF ChainOf, DagOf, Dense
  <1> QED
    BY <1>4 DEF HeadOf

\* An event that continues its author's chain in the DAG of a server is of that server.
LEMMA ContinuationIsOfServer ==
    ASSUME NEW dag, NEW s, DagOf(dag, s), NEW e \in ReplayEvent, e.seq # 1,
           PrevOf(e) \in dag
    PROVE  e.server = s
  BY PrevFacts DEF DagOf

\* An event that EventDag::insert accepts is its author's first one, or continues the
\* chain.
LEMMA AcceptedContinues ==
    ASSUME NEW dag, NEW s, DagOf(dag, s), NEW e \in ReplayEvent, InsertResult(dag, e) = "Ok"
    PROVE  /\ e \notin dag /\ e.seq = LatestSeq(dag, e.author) + 1
           /\ dag = {} => e.create
           /\ e.seq = 1 => ChainOf(dag, e.author) = {}
           /\ e.seq # 1 => PrevOf(e) \in dag
  <1>1. /\ e \notin dag /\ (dag = {} => e.create) /\ e.seq = LatestSeq(dag, e.author) + 1
        /\ PrevOf(e) = HeadOf(dag, e.author)
    BY DEF InsertResult
  <1>2. /\ LatestSeq(dag, e.author) \in Nat
        /\ LatestSeq(dag, e.author) = 0 <=> ChainOf(dag, e.author) = {}
    BY ChainLength DEF DagOf
  <1>3. e.seq # 1 => ChainOf(dag, e.author) # {}
    BY <1>1, <1>2, PrevFacts
  <1> QED
    BY <1>1, <1>2, <1>3, HeadIsLast DEF ChainOf

\* The DAG with the accepted event is one of the server, if the event is.
LEMMA InsertedDag ==
    ASSUME NEW dag, NEW s, DagOf(dag, s), NEW e \in ReplayEvent, e.server = s, e \notin dag,
           e.seq = LatestSeq(dag, e.author) + 1
    PROVE  DagOf(dag \cup {e}, s)
  <1> DEFINE new == dag \cup {e}
  <1>1. new \in SUBSET ReplayEvent /\ IsFiniteSet(new) /\ \A f \in new : f.server = s
    BY FS_AddElement DEF DagOf
  <1>2. \A a : a # e.author => ChainOf(new, a) = ChainOf(dag, a)
    BY DEF ChainOf
  <1>3. LatestSeq(new, e.author) = LatestSeq(dag, e.author) + 1
    <2>1. ChainOf(new, e.author) = ChainOf(dag, e.author) \cup {e} /\ e \notin ChainOf(dag, e.author)
      BY DEF ChainOf
    <2>2. IsFiniteSet(ChainOf(dag, e.author))
      BY FS_Subset DEF ChainOf, DagOf
    <2> QED
      BY <2>1, <2>2, FS_AddElement, Zenon DEF LatestSeq
  <1>4. LatestSeq(dag, e.author) \in Nat
    BY ChainLength DEF DagOf
  <1>5. ASSUME NEW f \in new, f.author # e.author
        PROVE  /\ f.seq <= LatestSeq(new, f.author)
               /\ \A n \in 1 .. LatestSeq(new, f.author) :
                    \E g \in new : g.author = f.author /\ g.seq = n
    BY <1>2, <1>5 DEF DagOf, Dense, LatestSeq
  <1>6. ASSUME NEW f \in new, f.author = e.author
        PROVE  /\ f.seq <= LatestSeq(new, f.author)
               /\ \A n \in 1 .. LatestSeq(new, f.author) :
                    \E g \in new : g.author = f.author /\ g.seq = n
    <2>1. f.seq <= LatestSeq(dag, e.author) + 1
      <3>1. CASE f = e
        BY <1>4, <3>1
      <3>2. CASE f \in dag
        BY <1>4, <1>6, <3>2, ReplayAssumption DEF DagOf, Dense
      <3> QED
        BY <3>1, <3>2
    <2>2. ASSUME NEW n \in 1 .. LatestSeq(dag, e.author) + 1
          PROVE  \E g \in new : g.author = e.author /\ g.seq = n
      <3>1. CASE n = LatestSeq(dag, e.author) + 1
        BY <3>1
      <3>2. CASE n # LatestSeq(dag, e.author) + 1
        <4>1. n \in 1 .. LatestSeq(dag, e.author) /\ LatestSeq(dag, e.author) # 0
          BY <1>4, <3>2
        <4>2. PICK g \in dag : g.author = e.author
          BY <1>4, <4>1, ChainLength DEF DagOf, ChainOf
        <4>3. \E h \in dag : h.author = e.author /\ h.seq = n
          BY <4>1, <4>2 DEF DagOf, Dense
        <4> QED
          BY <4>3
      <3> QED
        BY <3>1, <3>2
    <2> QED
      BY <1>3, <1>6, <2>1, <2>2
  <1> HIDE DEF new
  <1>7. Dense(new)
    BY <1>5, <1>6 DEF Dense
  <1> QED
    BY <1>1, <1>7 DEF DagOf, new

-----------------------------------------------------------------------------
(* The invariant.                                                          *)

Data == [dag : SUBSET ReplayEvent, pending : SUBSET ReplayEvent]

\* Nothing that waits is ready, and a CreateServer event never waits.
WaitsRightly(data) ==
    \A e \in data.pending : ~ e.create /\ PrevOf(e) \notin data.dag

\* The `default' bucket has an empty DAG.  The DAG of a server is one of that server,
\* and not empty, except while the CreateServer event that made the entry is inserted.
EntryFits(s) ==
    /\ WaitsRightly(servers[s])
    /\ s = Default => servers[s].dag = {}
    /\ s # Default => DagOf(servers[s].dag, s)
    /\ s # Default /\ servers[s].dag = {} =>
        servers[s].pending = {} /\ inserting = s /\ \E e \in queue : e.create /\ queue = {e}

\* A CreateServer event goes to the server it creates, and no other first event to a
\* server that does not know its author: it would be inserted there, wherever it belongs.
QueueFits(e) ==
    /\ e.create => e.server = inserting
    /\ inserting # Default /\ e.seq = 1 /\ ~ e.create =>
        ChainOf(servers[inserting].dag, e.author) # {}

ReplayInvariant ==
    /\ servers \in [DOMAIN servers -> Data]
    /\ \A s \in DOMAIN servers : EntryFits(s)
    /\ queue \in SUBSET ReplayEvent
    /\ queue # {} => inserting \in DOMAIN servers
    /\ \A e \in queue : QueueFits(e)

-----------------------------------------------------------------------------
(* on_event.                                                               *)

\* While no event is inserted, no server has an empty DAG.
LEMMA ServersHaveEvents ==
    ASSUME ReplayInvariant, queue = {}, NEW s \in DOMAIN servers, s # Default
    PROVE  servers[s].dag # {}
  BY DEF ReplayInvariant, EntryFits

\* The choice of a server for an event.
LEMMA CandidateFits ==
    ASSUME ReplayInvariant, NEW e \in ReplayEvent, NEW id \in Candidates(e)
    PROVE  /\ e.create => id = e.server
           /\ ~ e.create => id = Default \/ id \in DOMAIN servers
           /\ ~ e.create /\ id # Default =>
                PrevOf(e) \in servers[id].dag \/ ChainOf(servers[id].dag, e.author) # {}
  <1> DEFINE byPrev == {s \in DOMAIN servers : PrevOf(e) \in servers[s].dag}
             byAuthor == {s \in DOMAIN servers : ChainOf(servers[s].dag, e.author) # {}}
  <1>1. Candidates(e) = IF e.create THEN {e.server}
                        ELSE IF byPrev # {} THEN byPrev
                        ELSE IF byAuthor # {} THEN byAuthor
                        ELSE {Default}
    BY DEF Candidates
  <1> QED
    BY <1>1

\* on_event keeps the invariant.
LEMMA OnEventStep ==
    ASSUME ReplayInvariant, NEW e \in ReplayEvent, OnEvent(e)
    PROVE  ReplayInvariant'
  <1>1. PICK id \in Candidates(e) : Ingest(id, e)
    BY DEF OnEvent
  <1>2. queue = {} /\ queue' = {e} /\ inserting' = id
    BY <1>1 DEF OnEvent, Ingest
  <1> DEFINE old == DOMAIN servers \ MadeRoom(id)
  <1>3. /\ servers' = [s \in old \cup {id} |-> IF s \in old THEN servers[s] ELSE NewServer]
        /\ id \in DOMAIN servers => id \in old
    BY <1>1 DEF Ingest, MadeRoom
  <1> HIDE DEF old
  <1>4. old \subseteq DOMAIN servers /\ DOMAIN servers' = old \cup {id}
    BY <1>3 DEF old
  <1>5. /\ \A s \in old : servers'[s] = servers[s]
        /\ id \notin old => servers'[id] = NewServer
    BY <1>3
  <1>6. NewServer \in Data /\ NewServer.dag = {} /\ NewServer.pending = {}
    BY DEF NewServer, Data
  <1>7. servers' \in [DOMAIN servers' -> Data]
    BY <1>3, <1>4, <1>6 DEF ReplayInvariant
  <1>8. e.server \in Server /\ e.server # Default /\ (e.seq = 1 => PrevOf(e) = NoEvent)
    BY PrevFacts, ReplayAssumption
  <1>9. ASSUME NEW s \in old PROVE EntryFits(s)'
    <2>1. EntryFits(s) /\ (s # Default => servers[s].dag # {})
      BY <1>2, <1>4, ServersHaveEvents DEF ReplayInvariant
    <2> QED
      BY <1>5, <2>1 DEF EntryFits, WaitsRightly
  <1>10. ASSUME id \notin old PROVE EntryFits(id)'
    <2>1. servers'[id].dag = {} /\ servers'[id].pending = {}
      BY <1>5, <1>6, <1>10
    <2>2. id # Default => e.create
      BY <1>3, <1>10, CandidateFits
    <2>3. DagOf({}, id)
      BY FS_EmptySet DEF DagOf, Dense
    <2> QED
      BY <1>2, <2>1, <2>2, <2>3 DEF EntryFits, WaitsRightly
  <1>11. QueueFits(e)'
    <2>1. e.create => e.server = id
      BY CandidateFits
    <2>2. ASSUME id # Default, e.seq = 1, ~ e.create
          PROVE  ChainOf(servers'[id].dag, e.author) # {}
      <3>1. id \in DOMAIN servers
        BY <2>2, CandidateFits
      <3>2. servers[id].dag \subseteq ReplayEvent
        BY <3>1 DEF ReplayInvariant, Data
      <3>3. PrevOf(e) \notin servers[id].dag
        BY <1>8, <2>2, <3>2, NoEventIsNone
      <3>4. ChainOf(servers[id].dag, e.author) # {}
        BY <2>2, <3>3, CandidateFits
      <3> QED
        BY <1>3, <1>5, <3>1, <3>4
    <2> QED
      BY <1>2, <2>1, <2>2 DEF QueueFits
  <1>12. /\ queue' \in SUBSET ReplayEvent /\ inserting' \in DOMAIN servers'
         /\ \A s \in DOMAIN servers' : EntryFits(s)'
         /\ \A x \in queue' : QueueFits(x)'
    BY <1>2, <1>4, <1>9, <1>10, <1>11
  <1> QED
    BY <1>7, <1>12 DEF ReplayInvariant

-----------------------------------------------------------------------------
(* try_insert.                                                             *)

\* A CreateServer event is inserted into an empty DAG and refused by any other; it is
\* never left to wait.
LEMMA CreateResult ==
    ASSUME NEW dag, NEW e \in ReplayEvent, e.create
    PROVE  /\ dag = {} => InsertResult(dag, e) = "Ok"
           /\ InsertResult(dag, e) = "Ok" => dag = {}
           /\ InsertResult(dag, e) \notin {"SeqGap", "NotGenesis"}
  <1>1. e.seq = 1 /\ PrevOf(e) = NoEvent
    BY PrevFacts
  <1>2. dag = {} => ChainOf(dag, e.author) = {}
    BY DEF ChainOf
  <1>3. dag = {} => LatestSeq(dag, e.author) = 0 /\ HeadOf(dag, e.author) = NoEvent
    BY <1>2, FS_EmptySet DEF LatestSeq, HeadOf
  <1>4. dag = {} => InsertResult(dag, e) = "Ok"
    BY <1>1, <1>3 DEF InsertResult
  <1>5. dag # {} => InsertResult(dag, e) \in {"Duplicate", "DuplicateGenesis"}
    BY DEF InsertResult
  <1> QED
    BY <1>4, <1>5

\* An event with a gap before it does not follow an event of the DAG.
LEMMA GapIsReal ==
    ASSUME NEW dag, NEW s, DagOf(dag, s), NEW e \in ReplayEvent,
           InsertResult(dag, e) = "SeqGap"
    PROVE  PrevOf(e) \notin dag
  <1> SUFFICES ASSUME PrevOf(e) \in dag PROVE FALSE
    OBVIOUS
  <1>1. e \notin dag /\ e.seq # LatestSeq(dag, e.author) + 1
    BY DEF InsertResult
  <1>2. PrevOf(e) \in ReplayEvent
    BY DEF DagOf
  <1>3. e.seq # 1
    BY <1>2, PrevFacts, NoEventIsNone
  <1>4. /\ PrevOf(e).author = e.author /\ PrevOf(e).seq = e.seq - 1 /\ e.server = s
        /\ e.seq \in Nat \ {0}
    BY <1>3, PrevFacts, ContinuationIsOfServer
  <1>5. LatestSeq(dag, e.author) \in Nat
    BY ChainLength DEF DagOf
  <1>6. e.seq - 1 <= LatestSeq(dag, e.author)
    BY <1>4 DEF DagOf, Dense
  <1>7. e.seq \in 1 .. LatestSeq(dag, e.author)
    BY <1>1, <1>4, <1>5, <1>6
  <1>8. PICK f \in dag : f.author = e.author /\ f.seq = e.seq
    BY <1>4, <1>7 DEF DagOf, Dense
  <1>9. f \in ReplayEvent /\ f.server = e.server
    BY <1>4 DEF DagOf
  <1>10. f = e
    BY <1>8, <1>9, ReplayAssumption
  <1> QED
    BY <1>1, <1>8, <1>10

\* Only the `default' bucket and a new server have an empty DAG.
LEMMA EmptyDag ==
    ASSUME ReplayInvariant, NEW e \in queue, servers[inserting].dag = {}
    PROVE  \/ inserting = Default /\ ~ e.create
           \/ inserting # Default /\ e.create
  <1>1. inserting \in DOMAIN servers /\ EntryFits(inserting) /\ QueueFits(e) /\ e \in ReplayEvent
    BY DEF ReplayInvariant
  <1>2. e.create => inserting # Default
    BY <1>1, ReplayAssumption DEF QueueFits
  <1> QED
    BY <1>1, <1>2 DEF EntryFits

\* What is accepted belongs to the server it is inserted in.
LEMMA AcceptedBelongs ==
    ASSUME ReplayInvariant, NEW e \in queue,
           InsertResult(servers[inserting].dag, e) = "Ok"
    PROVE  /\ inserting # Default /\ e.server = inserting /\ e \in ReplayEvent
           /\ DagOf(servers[inserting].dag, inserting)
           /\ e.create => servers[inserting].pending = {}
  <1> DEFINE dag == servers[inserting].dag
  <1>1. inserting \in DOMAIN servers /\ EntryFits(inserting) /\ QueueFits(e) /\ e \in ReplayEvent
    BY DEF ReplayInvariant
  <1>2. inserting # Default
    <2> SUFFICES ASSUME inserting = Default PROVE FALSE
      OBVIOUS
    <2>1. dag = {} /\ ~ e.create
      BY <1>1, EmptyDag DEF EntryFits
    <2> QED
      BY <2>1 DEF InsertResult
  <1>3. DagOf(dag, inserting)
    BY <1>1, <1>2 DEF EntryFits
  <1> HIDE DEF dag
  <1>4. CASE e.create
    <2>1. dag = {}
      BY <1>1, <1>4, CreateResult DEF dag
    <2> QED
      BY <1>1, <1>2, <1>3, <1>4, <2>1 DEF EntryFits, QueueFits, dag
  <1>5. CASE ~ e.create
    <2>1. e.seq # 1
      BY <1>1, <1>2, <1>3, <1>5, AcceptedContinues DEF QueueFits, dag
    <2>2. PrevOf(e) \in dag
      BY <1>1, <1>3, <2>1, AcceptedContinues DEF dag
    <2>3. e.server = inserting
      BY <1>1, <1>3, <2>1, <2>2, ContinuationIsOfServer
    <2> QED
      BY <1>1, <1>2, <1>3, <1>5, <2>3 DEF dag
  <1> QED
    BY <1>4, <1>5

\* An insertion, with the events it releases, keeps the invariant.
LEMMA InsertStep ==
    ASSUME ReplayInvariant, NEW e \in queue,
           InsertResult(servers[inserting].dag, e) = "Ok",
           servers' = [servers EXCEPT
                ![inserting].dag = @ \cup {e},
                ![inserting].pending = @ \ Resolved(servers[inserting].pending, e)],
           queue' = (queue \ {e}) \cup Resolved(servers[inserting].pending, e),
           inserting' = inserting
    PROVE  ReplayInvariant'
  <1> DEFINE dag == servers[inserting].dag
             pending == servers[inserting].pending
             resolved == Resolved(pending, e)
  <1>1. /\ inserting # Default /\ e.server = inserting /\ e \in ReplayEvent
        /\ DagOf(dag, inserting) /\ (e.create => pending = {})
    BY AcceptedBelongs
  <1>2. /\ inserting \in DOMAIN servers /\ EntryFits(inserting)
        /\ servers \in [DOMAIN servers -> Data] /\ servers[inserting] \in Data
    BY DEF ReplayInvariant
  <1>3. dag \in SUBSET ReplayEvent /\ pending \in SUBSET ReplayEvent
    BY <1>2 DEF Data
  <1>4. /\ DOMAIN servers' = DOMAIN servers
        /\ servers'[inserting] = [dag |-> dag \cup {e}, pending |-> pending \ resolved]
        /\ \A s \in DOMAIN servers \ {inserting} : servers'[s] = servers[s]
    BY <1>2, Zenon DEF Data
  <1>5. /\ resolved \subseteq pending /\ queue' = (queue \ {e}) \cup resolved
        /\ \A x \in pending \ resolved : PrevOf(x) # e
        /\ \A x \in resolved : PrevOf(x) = e \/ e.create
    BY DEF Resolved
  <1>6. servers'[inserting].dag = dag \cup {e} /\ servers'[inserting].pending = pending \ resolved
    BY <1>2, Zenon DEF Data
  <1> HIDE DEF dag, pending, resolved
  <1>7. DagOf(dag \cup {e}, inserting)
    <2>1. e \notin dag /\ e.seq = LatestSeq(dag, e.author) + 1
      BY <1>1, AcceptedContinues DEF dag
    <2> QED
      BY <1>1, <2>1, InsertedDag
  <1>8. EntryFits(inserting)'
    <2>1. \A x \in pending : ~ x.create /\ PrevOf(x) \notin dag
      BY <1>2 DEF EntryFits, WaitsRightly, dag, pending
    <2>2. \A x \in servers'[inserting].pending : ~ x.create /\ PrevOf(x) \notin servers'[inserting].dag
      BY <1>5, <1>6, <2>1, Zenon
    <2> QED
      BY <1>1, <1>7, <1>6, <2>2, Zenon DEF EntryFits, WaitsRightly
  <1>9. ASSUME NEW s \in DOMAIN servers \ {inserting} PROVE EntryFits(s)'
    BY <1>4 DEF ReplayInvariant, EntryFits, WaitsRightly
  <1>10. ASSUME NEW x \in queue' PROVE QueueFits(x)'
    <2>1. CASE x \in queue
      <3>1. QueueFits(x) /\ ChainOf(dag, x.author) \subseteq ChainOf(dag \cup {e}, x.author)
        BY <2>1 DEF ReplayInvariant, ChainOf
      <3> QED
        BY <1>6, <3>1, Zenon DEF QueueFits, dag
    <2>2. CASE x \in resolved
      <3>1. ~ x.create /\ x \in ReplayEvent
        BY <1>2, <1>3, <1>5, <2>2 DEF EntryFits, WaitsRightly, pending
      <3>2. PrevOf(x) = e
        BY <1>1, <1>5, <2>2
      <3>3. x.seq # 1
        BY <1>1, <3>1, <3>2, PrevFacts, NoEventIsNone
      <3> QED
        BY <3>1, <3>3 DEF QueueFits
    <2> QED
      BY <1>5, <2>1, <2>2
  <1>11. servers' \in [DOMAIN servers' -> Data]
    BY <1>1, <1>2, <1>3, <1>4 DEF Data
  <1>12. queue' \in SUBSET ReplayEvent
    BY <1>3, <1>5 DEF ReplayInvariant
  <1> QED
    BY <1>2, <1>4, <1>8, <1>9, <1>10, <1>11, <1>12 DEF ReplayInvariant

\* An event that has to wait, with the evictions it causes, keeps the invariant.
LEMMA BufferStep ==
    ASSUME ReplayInvariant, NEW e \in queue,
           InsertResult(servers[inserting].dag, e) \in {"SeqGap", "NotGenesis"},
           NEW p \in Buffered(servers[inserting].pending, e),
           servers' = [servers EXCEPT ![inserting].pending = p],
           queue' = queue \ {e}, inserting' = inserting
    PROVE  ReplayInvariant'
  <1> DEFINE d == servers[inserting].dag
             w == servers[inserting].pending
  <1>1. /\ inserting \in DOMAIN servers /\ EntryFits(inserting) /\ e \in ReplayEvent
        /\ servers \in [DOMAIN servers -> Data] /\ servers[inserting] \in Data
    BY DEF ReplayInvariant
  <1>2. /\ DOMAIN servers' = DOMAIN servers
        /\ servers'[inserting].dag = d /\ servers'[inserting].pending = p
        /\ \A s \in DOMAIN servers \ {inserting} : servers'[s] = servers[s]
    BY <1>1 DEF Data
  <1>3. p \subseteq w \cup {e}
    BY DEF Buffered
  <1>4. servers' \in [DOMAIN servers' -> Data]
    BY <1>1, <1>3 DEF Data
  <1>5. ~ e.create
    BY <1>1, CreateResult
  <1>6. PrevOf(e) \notin d /\ (inserting # Default => d # {})
    <2>1. CASE d = {}
      BY <1>5, <2>1, EmptyDag
    <2>2. CASE d # {}
      <3>1. inserting # Default /\ DagOf(d, inserting)
        BY <1>1, <2>2 DEF EntryFits
      <3>2. InsertResult(d, e) = "SeqGap"
        BY <2>2 DEF InsertResult
      <3> QED
        BY <1>1, <2>2, <3>1, <3>2, GapIsReal
    <2> QED
      BY <2>1, <2>2
  <1> HIDE DEF d, w
  <1>7. EntryFits(inserting)'
    <2>1. \A x \in w : ~ x.create /\ PrevOf(x) \notin d
      BY <1>1 DEF EntryFits, WaitsRightly, d, w
    <2>2. \A x \in p : ~ x.create /\ PrevOf(x) \notin d
      BY <1>3, <1>5, <1>6, <2>1
    <2>3. (inserting = Default => d = {}) /\ (inserting # Default => DagOf(d, inserting))
      BY <1>1 DEF EntryFits, d
    <2> QED
      BY <1>2, <1>6, <2>2, <2>3 DEF EntryFits, WaitsRightly
  <1>8. ASSUME NEW s \in DOMAIN servers \ {inserting} PROVE EntryFits(s)'
    BY <1>2 DEF ReplayInvariant, EntryFits, WaitsRightly
  <1>9. ASSUME NEW x \in queue' PROVE QueueFits(x)'
    BY <1>2 DEF ReplayInvariant, QueueFits, d
  <1> QED
    BY <1>1, <1>2, <1>4, <1>7, <1>8, <1>9 DEF ReplayInvariant

\* An event that is dropped keeps the invariant.
LEMMA DropStep ==
    ASSUME ReplayInvariant, NEW e \in queue,
           InsertResult(servers[inserting].dag, e) \notin {"Ok", "SeqGap", "NotGenesis"},
           queue' = queue \ {e}, UNCHANGED <<servers, inserting>>
    PROVE  ReplayInvariant'
  <1>1. inserting \in DOMAIN servers /\ EntryFits(inserting) /\ e \in ReplayEvent
    BY DEF ReplayInvariant
  <1>2. servers[inserting].dag # {}
    BY <1>1, EmptyDag, CreateResult, SMTT(30) DEF InsertResult
  <1>3. ASSUME NEW s \in DOMAIN servers PROVE EntryFits(s)'
    BY <1>2 DEF ReplayInvariant, EntryFits
  <1>4. ASSUME NEW x \in queue' PROVE QueueFits(x)'
    BY DEF ReplayInvariant, QueueFits
  <1> QED
    BY <1>3, <1>4 DEF ReplayInvariant

\* The invariant holds in every state.
LEMMA ReplayInvariantHolds == ReplaySpec => []ReplayInvariant
  <1>1. ReplayInit => ReplayInvariant
    BY DEF ReplayInit, ReplayInvariant
  <1>2. ReplayInvariant /\ [ReplayNext]_replayVars => ReplayInvariant'
    <2> SUFFICES ASSUME ReplayInvariant, [ReplayNext]_replayVars PROVE ReplayInvariant'
      OBVIOUS
    <2>1. ASSUME UNCHANGED <<servers, inserting, queue>> PROVE ReplayInvariant'
      BY <2>1 DEF ReplayInvariant, EntryFits, QueueFits, WaitsRightly
    <2>2. ASSUME NEW e \in ReplayEvent, OnEvent(e) PROVE ReplayInvariant'
      BY <2>2, OnEventStep
    <2>3. CASE TryInsert
      <3>1. inserting' = inserting
        BY <2>3 DEF TryInsert
      <3>2. PICK e \in queue :
              \/ /\ InsertResult(servers[inserting].dag, e) = "Ok"
                 /\ servers' = [servers EXCEPT
                        ![inserting].dag = @ \cup {e},
                        ![inserting].pending = @ \ Resolved(servers[inserting].pending, e)]
                 /\ queue' = (queue \ {e}) \cup Resolved(servers[inserting].pending, e)
              \/ /\ InsertResult(servers[inserting].dag, e) \in {"SeqGap", "NotGenesis"}
                 /\ \E p \in Buffered(servers[inserting].pending, e) :
                        servers' = [servers EXCEPT ![inserting].pending = p]
                 /\ queue' = queue \ {e}
              \/ /\ InsertResult(servers[inserting].dag, e) \notin {"Ok", "SeqGap", "NotGenesis"}
                 /\ queue' = queue \ {e}
                 /\ UNCHANGED servers
        BY <2>3, Zenon DEF TryInsert
      <3> QED
        BY <3>1, <3>2, InsertStep, BufferStep, DropStep
    <2> QED
      BY <2>1, <2>2, <2>3 DEF ReplayNext, replayVars, HandleSync
  <1> QED
    BY <1>1, <1>2, PTL DEF ReplaySpec

\* The events of one server never enter the DAG of another: the guess of on_event may
\* put an event aside in the wrong server, but insert lets it wait there for ever.
THEOREM ServersStayIsolated == ReplaySpec => []ServersAreIsolated
  <1>1. ReplayInvariant => ServersAreIsolated
    BY DEF ReplayInvariant, EntryFits, DagOf, ServersAreIsolated
  <1> QED
    BY <1>1, ReplayInvariantHolds, PTL

\* No event waits behind one that is in the DAG.
THEOREM NoReplayWaitsReady == ReplaySpec => []NoReadyReplayWaits
  <1>1. ReplayInvariant => NoReadyReplayWaits
    BY DEF ReplayInvariant, EntryFits, WaitsRightly, NoReadyReplayWaits
  <1> QED
    BY <1>1, ReplayInvariantHolds, PTL

-----------------------------------------------------------------------------
(* What a Sync request is answered.                                        *)

LEMMA WritersFinite == IsFiniteSet(Writer)
<1> DEFINE f == [e \in ReplayEvent |-> e.author]
<1>1. f \in Surjection(ReplayEvent, Writer)
  BY DEF Surjection, Writer
<1> QED
  BY <1>1, ReplayAssumption, FS_Surjection

\* An order of the authors has each of them once.
LEMMA OrderFacts ==
    ASSUME NEW order \in Sequences(Writer)
    PROVE  /\ order \in Seq(Writer) /\ Len(order) \in Nat /\ DOMAIN order = 1 .. Len(order)
           /\ \A i, j \in 1 .. Len(order) : order[i] = order[j] => i = j
           /\ \A a \in Writer : \E i \in 1 .. Len(order) : order[i] = a
<1> DEFINE n == Cardinality(Writer)
           T == {order[i] : i \in 1 .. n}
<1>1. n \in Nat
  BY WritersFinite, FS_CardinalityType
<1>2. order \in [1 .. n -> Writer] /\ \A i, j \in 1 .. n : order[i] = order[j] => i = j
  BY DEF Sequences
<1>3. order \in Seq(Writer) /\ Len(order) = n /\ DOMAIN order = 1 .. n
  BY <1>1, <1>2
<1>4. order \in Surjection(1 .. n, T)
  BY <1>2 DEF Surjection
<1>5. order \in Injection(1 .. n, T)
  BY <1>2 DEF Injection, IsInjective
<1>6. IsFiniteSet(1 .. n) /\ Cardinality(1 .. n) = n
  BY <1>1, FS_Interval
<1>7. Cardinality(T) = n
  BY <1>4, <1>5, <1>6, FS_Surjection
<1>8. T \in SUBSET Writer
  BY <1>2
<1>9. T = Writer
  BY <1>7, <1>8, WritersFinite, FS_Subset
<1>10. \A a \in Writer : \E i \in 1 .. n : order[i] = a
  BY <1>9, Zenon
<1> QED
  BY <1>1, <1>2, <1>3, <1>10

\* A chain from just after the requester's head.
LEMMA ChainSinceFacts ==
    ASSUME NEW dag, NEW s, DagOf(dag, s), NEW a, NEW h \in Nat
    PROVE  LET c == ChainSince(dag, a, h)
               n == LatestSeq(dag, a)
           IN  /\ n \in Nat /\ c \in Seq(dag) /\ Len(c) = (IF n > h THEN n - h ELSE 0)
               /\ \A i \in 1 .. Len(c) : c[i].author = a /\ c[i].seq = h + i
<1> DEFINE n == LatestSeq(dag, a)
           c == ChainSince(dag, a, h)
           l == IF n > h THEN n - h ELSE 0
<1>1. n \in Nat /\ l \in Nat
  BY ChainLength DEF DagOf
<1>2. 1 .. n - h = 1 .. l
  BY <1>1
<1>3. c = [i \in 1 .. l |-> CHOOSE x \in ChainOf(dag, a) : x.seq = h + i]
  BY <1>2, Zenon DEF ChainSince
<1>4. ASSUME NEW i \in 1 .. l PROVE c[i] \in dag /\ c[i].author = a /\ c[i].seq = h + i
  <2>1. h + i \in 1 .. n
    BY <1>1
  <2>2. ChainOf(dag, a) # {}
    BY <1>1, <2>1, ChainLength DEF DagOf
  <2>3. PICK e \in dag : e.author = a
    BY <2>2 DEF ChainOf
  <2>4. \E x \in dag : x.author = a /\ x.seq = h + i
    BY <2>1, <2>3 DEF DagOf, Dense
  <2>5. \E x \in ChainOf(dag, a) : x.seq = h + i
    BY <2>4 DEF ChainOf
  <2>6. c[i] = CHOOSE x \in ChainOf(dag, a) : x.seq = h + i
    BY <1>3
  <2>7. c[i] \in ChainOf(dag, a) /\ c[i].seq = h + i
    BY <2>5, <2>6, Zenon
  <2> QED
    BY <2>7 DEF ChainOf
<1>5. c \in [1 .. l -> dag]
  BY <1>3, <1>4, Zenon
<1>6. c \in Seq(dag) /\ Len(c) = l
  BY <1>1, <1>5
<1> QED
  BY <1>1, <1>4, <1>6

-----------------------------------------------------------------------------
(* The walk over the chains.                                               *)

\* What defines the walk over the first n authors.
WalkTo(f, n, dag, heads, order) ==
    f = [i \in 0 .. n |-> IF i = 0 THEN << >>
                          ELSE f[i - 1] \o ChainSince(dag, order[i], heads[order[i]])]

LEMMA WalkExists ==
    ASSUME NEW dag, NEW heads, NEW order, NEW l \in Nat
    PROVE  \E f : WalkTo(f, l, dag, heads, order)
<1> DEFINE H == {n \in 0 .. l : ~ \E f : WalkTo(f, n, dag, heads, order)}
<1>1. ASSUME H # {} PROVE FALSE
  <2>1. H \in SUBSET Nat
    OBVIOUS
  <2>2. PICK n \in H : \A q \in H : n <= q
    BY <1>1, <2>1, LeastOf, Zenon
  <2>3. n \in 0 .. l /\ ~ \E f : WalkTo(f, n, dag, heads, order)
    OBVIOUS
  <2>4. CASE n = 0
    <3> DEFINE f == [i \in 0 .. 0 |-> << >>]
    <3>1. f = [i \in 0 .. 0 |-> IF i = 0 THEN << >>
                          ELSE f[i - 1] \o ChainSince(dag, order[i], heads[order[i]])]
      OBVIOUS
    <3> QED
      BY <2>3, <2>4, <3>1, Zenon DEF WalkTo
  <2>5. CASE n # 0
    <3>1. n - 1 \in 0 .. l /\ n - 1 \notin H
      BY <2>2, <2>3, <2>5
    <3>2. PICK f : WalkTo(f, n - 1, dag, heads, order)
      BY <3>1
    <3> DEFINE c(i) == ChainSince(dag, order[i], heads[order[i]])
               g == [i \in 0 .. n |-> IF i = n THEN f[n - 1] \o c(n) ELSE f[i]]
    <3> HIDE DEF c
    <3>3. f = [i \in 0 .. n - 1 |-> IF i = 0 THEN << >> ELSE f[i - 1] \o c(i)]
      BY <3>2, Zenon DEF WalkTo, c
    <3>4. ASSUME NEW i \in 0 .. n
          PROVE  g[i] = IF i = 0 THEN << >> ELSE g[i - 1] \o c(i)
      <4>1. CASE i = n
        <5>1. n - 1 \in 0 .. n /\ n - 1 # n /\ i # 0
          BY <2>3, <2>5, <4>1
        <5>2. g[n - 1] = f[n - 1] /\ g[n] = f[n - 1] \o c(n)
          BY <2>3, <5>1
        <5> QED
          BY <4>1, <5>1, <5>2
      <4>2. CASE i # n /\ i = 0
        BY <3>3, <4>2, <2>3, SMTT(30)
      <4>3. CASE i # n /\ i # 0
        <5>1. i \in 0 .. n - 1 /\ i - 1 \in 0 .. n /\ i - 1 # n
          BY <2>3, <4>3
        <5>2. g[i] = f[i] /\ g[i - 1] = f[i - 1]
          BY <4>3, <5>1
        <5>3. f[i] = f[i - 1] \o c(i)
          BY <3>3, <4>3, <5>1, Zenon
        <5> QED
          BY <4>3, <5>2, <5>3
      <4> QED
        BY <4>1, <4>2, <4>3
    <3>5. g = [i \in 0 .. n |-> IF i = 0 THEN << >> ELSE g[i - 1] \o c(i)]
      BY <3>4
    <3>6. WalkTo(g, n, dag, heads, order)
      BY <3>5, Zenon DEF WalkTo, c
    <3> QED
      BY <2>3, <3>6
  <2> QED
    BY <2>4, <2>5
<1>2. l \notin H
  BY <1>1
<1> QED
  BY <1>2

LEMMA WalkFacts ==
    ASSUME NEW dag, NEW heads, NEW order, Len(order) \in Nat
    PROVE  WalkTo(Walk(dag, heads, order), Len(order), dag, heads, order)
<1>1. \E f : WalkTo(f, Len(order), dag, heads, order)
  BY WalkExists
<1>2. Walk(dag, heads, order) = CHOOSE f : WalkTo(f, Len(order), dag, heads, order)
  BY DEF Walk, WalkTo
<1> QED
  BY <1>1, <1>2, Zenon

\* Where the events of an author are.
Of(w, a) == {i \in DOMAIN w : w[i].author = a}

\* The events of each author follow the requester's head one by one.
Continues(w, heads) ==
    \A a \in Writer : \A i \in Of(w, a) :
        w[i].seq = heads[a] + Cardinality({j \in Of(w, a) : j <= i})

\* How many events of an author the requester has not.
Missing(dag, heads, a) ==
    IF LatestSeq(dag, a) > heads[a] THEN LatestSeq(dag, a) - heads[a] ELSE 0

\* A chain of events of author b from the requester's head on.
Follows(c, b, heads) == \A i \in 1 .. Len(c) : c[i].author = b /\ c[i].seq = heads[b] + i

Appended(v, w, c, b, dag, heads) ==
    /\ v \in Seq(dag) /\ Continues(v, heads)
    /\ Cardinality(Of(v, b)) = Len(c)
    /\ \A a \in Writer : a # b => Of(v, a) = Of(w, a)

LEMMA AppendChain ==
    ASSUME NEW dag, NEW heads, NEW w \in Seq(dag), Continues(w, heads),
           NEW b \in Writer, Of(w, b) = {}, NEW c \in Seq(dag), Follows(c, b, heads)
    PROVE  Appended(w \o c, w, c, b, dag, heads)
<1> DEFINE v == w \o c
           l == Len(w)
           m == Len(c)
<1>1. /\ v \in Seq(dag) /\ l \in Nat /\ m \in Nat /\ Len(v) = l + m
      /\ DOMAIN v = 1 .. l + m /\ DOMAIN w = 1 .. l /\ DOMAIN c = 1 .. m
  OBVIOUS
<1>2. \A i \in 1 .. l : v[i] = w[i]
  BY <1>1
<1>3. \A i \in 1 .. m : v[l + i] = c[i]
  BY <1>1
<1> HIDE DEF v
<1>4. \A i \in 1 .. l + m : i \in 1 .. l \/ (i - l \in 1 .. m /\ i = l + (i - l))
  BY <1>1
<1>5. \A i \in 1 .. m : v[l + i].author = b /\ v[l + i].seq = heads[b] + i
  BY <1>1, <1>3 DEF Follows
<1>6. ASSUME NEW a \in Writer, a # b PROVE Of(v, a) = Of(w, a)
  <2>1. ASSUME NEW i \in Of(v, a) PROVE i \in Of(w, a)
    <3>1. i \in 1 .. l + m /\ v[i].author = a
      BY <1>1 DEF Of
    <3>2. i \in 1 .. l
      BY <1>4, <1>5, <1>6, <3>1, ZenonT(30)
    <3> QED
      BY <1>1, <1>2, <3>1, <3>2 DEF Of
  <2>2. ASSUME NEW i \in Of(w, a) PROVE i \in Of(v, a)
    <3>1. i \in 1 .. l /\ w[i].author = a
      BY <1>1 DEF Of
    <3>2. i \in 1 .. l + m
      BY <1>1, <3>1
    <3> QED
      BY <1>1, <1>2, <3>1, <3>2 DEF Of
  <2> QED
    BY <2>1, <2>2, Zenon
<1>7. Of(v, b) = l + 1 .. l + m
  <2>1. ASSUME NEW i \in Of(v, b) PROVE i \in l + 1 .. l + m
    <3>1. i \in 1 .. l + m /\ v[i].author = b
      BY <1>1 DEF Of
    <3>2. i \notin 1 .. l
      BY <1>1, <1>2, <3>1 DEF Of
    <3> QED
      BY <1>1, <3>1, <3>2
  <2>2. ASSUME NEW i \in l + 1 .. l + m PROVE i \in Of(v, b)
    <3>1. i - l \in 1 .. m /\ i = l + (i - l) /\ i \in 1 .. l + m
      BY <1>1
    <3>2. v[i].author = b
      BY <1>5, <3>1, Zenon
    <3> QED
      BY <1>1, <3>1, <3>2 DEF Of
  <2> QED
    BY <2>1, <2>2, Zenon
<1>8. Cardinality(Of(v, b)) = m
  <2>1. l + 1 \in Int /\ l + m \in Int
    BY <1>1
  <2>2. Cardinality(l + 1 .. l + m) = IF l + 1 > l + m THEN 0 ELSE (l + m) - (l + 1) + 1
    BY <2>1, FS_Interval, Zenon
  <2> QED
    BY <1>1, <1>7, <2>2
<1>9. Continues(v, heads)
  <2> SUFFICES ASSUME NEW a \in Writer, NEW i \in Of(v, a)
               PROVE  v[i].seq = heads[a] + Cardinality({j \in Of(v, a) : j <= i})
    BY DEF Continues
  <2>1. CASE a # b
    <3>1. Of(v, a) = Of(w, a) /\ i \in Of(w, a)
      BY <1>6, <2>1
    <3>2. v[i] = w[i]
      BY <1>1, <1>2, <3>1 DEF Of
    <3> QED
      BY <3>1, <3>2, Zenon DEF Continues
  <2>2. CASE a = b
    <3>1. i \in l + 1 .. l + m /\ i - l \in 1 .. m /\ i = l + (i - l)
      BY <1>1, <1>7, <2>2
    <3>2. {j \in Of(v, a) : j <= i} = l + 1 .. i
      BY <1>1, <1>7, <2>2, <3>1
    <3>3. Cardinality(l + 1 .. i) = IF l + 1 > i THEN 0 ELSE i - (l + 1) + 1
      <4>1. l + 1 \in Int /\ i \in Int
        BY <1>1, <3>1
      <4> QED
        BY <4>1, FS_Interval, Zenon
    <3>4. Cardinality(l + 1 .. i) = i - l
      BY <1>1, <3>1, <3>3
    <3>5. v[i].seq = heads[b] + (i - l)
      BY <1>5, <3>1
    <3> QED
      BY <2>2, <3>2, <3>4, <3>5, Zenon
  <2> QED
    BY <2>1, <2>2
<1> QED
  BY <1>1, <1>6, <1>8, <1>9 DEF v, Appended

\* The walk over the first n authors has what the requester misses of them.
Walked(w, n, dag, heads, order) ==
    /\ w \in Seq(dag) /\ Continues(w, heads)
    /\ \A k \in 1 .. n : Cardinality(Of(w, order[k])) = Missing(dag, heads, order[k])
    /\ \A k \in n + 1 .. Len(order) : Of(w, order[k]) = {}

LEMMA WalkStep ==
    ASSUME NEW dag, NEW s, DagOf(dag, s), NEW heads \in [Writer -> Nat],
           NEW order \in Sequences(Writer), NEW n \in 1 .. Len(order), NEW w,
           Walked(w, n - 1, dag, heads, order)
    PROVE  Walked(w \o ChainSince(dag, order[n], heads[order[n]]), n, dag, heads, order)
<1> DEFINE b == order[n]
           c == ChainSince(dag, b, heads[b])
           v == w \o c
           l == Len(order)
<1>1. /\ l \in Nat /\ \A k \in 1 .. l : order[k] \in Writer
      /\ \A i, j \in 1 .. l : order[i] = order[j] => i = j
  BY OrderFacts, SMTT(30)
<1>2. b \in Writer /\ heads[b] \in Nat
  BY <1>1
<1>3. /\ c \in Seq(dag) /\ Len(c) = Missing(dag, heads, b)
      /\ \A i \in 1 .. Len(c) : c[i].author = b /\ c[i].seq = heads[b] + i
  BY <1>2, ChainSinceFacts DEF Missing
<1>4. n \in (n - 1) + 1 .. l
  BY <1>1
<1>5. w \in Seq(dag) /\ Continues(w, heads) /\ Of(w, b) = {}
  BY <1>4, Zenon DEF Walked
<1> HIDE DEF b, c
<1>6. /\ v \in Seq(dag) /\ Continues(v, heads) /\ Cardinality(Of(v, b)) = Len(c)
      /\ \A a \in Writer : a # b => Of(v, a) = Of(w, a)
  <2>1. Follows(c, b, heads)
    BY <1>3, SMTT(30) DEF Follows
  <2>2. Appended(v, w, c, b, dag, heads)
    BY <1>2, <1>3, <1>5, <2>1, AppendChain
  <2> QED
    BY <2>2 DEF Appended
<1> HIDE DEF v
<1>7. ASSUME NEW k \in 1 .. n PROVE Cardinality(Of(v, order[k])) = Missing(dag, heads, order[k])
  <2>1. CASE k = n
    BY <1>3, <1>6, <2>1 DEF b
  <2>2. CASE k # n
    <3>1. k \in 1 .. n - 1 /\ k \in 1 .. l /\ n \in 1 .. l
      BY <1>1, <2>2
    <3>2. order[k] # b /\ order[k] \in Writer
      BY <1>1, <2>2, <3>1, Zenon DEF b
    <3> QED
      BY <1>6, <3>1, <3>2, Zenon DEF Walked
  <2> QED
    BY <2>1, <2>2
<1>8. ASSUME NEW k \in n + 1 .. l PROVE Of(v, order[k]) = {}
  <2>1. k \in (n - 1) + 1 .. l /\ k \in 1 .. l /\ n \in 1 .. l /\ k # n
    BY <1>1
  <2>2. order[k] # b /\ order[k] \in Writer
    BY <1>1, <2>1 DEF b
  <2> QED
    BY <1>6, <2>1, <2>2, Zenon DEF Walked
<1>9. Walked(v, n, dag, heads, order)
  BY <1>6, <1>7, <1>8, Zenon DEF Walked
<1> QED
  BY <1>9 DEF v, b, c

\* The whole walk has what the requester misses of every author.
LEMMA WalkComplete ==
    ASSUME NEW dag, NEW s, DagOf(dag, s), NEW heads \in [Writer -> Nat],
           NEW order \in Sequences(Writer)
    PROVE  LET all == Walk(dag, heads, order)[Len(order)]
           IN  /\ all \in Seq(dag) /\ Continues(all, heads)
               /\ \A a \in Writer : Cardinality(Of(all, a)) = Missing(dag, heads, a)
<1> DEFINE w == Walk(dag, heads, order)
           l == Len(order)
           H == {n \in 0 .. l : ~ Walked(w[n], n, dag, heads, order)}
<1>1. l \in Nat
  BY OrderFacts
<1>2. w[0] = << >> /\ \A n \in 1 .. l : w[n] = w[n - 1] \o ChainSince(dag, order[n], heads[order[n]])
  <2>1. WalkTo(w, l, dag, heads, order)
    BY <1>1, WalkFacts, Zenon
  <2> HIDE DEF w, l
  <2>2. w[0] = << >>
    BY <1>1, <2>1 DEF WalkTo
  <2>3. ASSUME NEW n \in 1 .. l
        PROVE  w[n] = w[n - 1] \o ChainSince(dag, order[n], heads[order[n]])
    <3>1. n \in 0 .. l /\ n # 0
      BY <1>1
    <3> QED
      BY <2>1, <3>1, Zenon DEF WalkTo
  <2> QED
    BY <2>2, <2>3, Zenon
<1> HIDE DEF w
<1>3. ASSUME H # {} PROVE FALSE
  <2>1. H \in SUBSET Nat
    OBVIOUS
  <2>2. PICK n \in H : \A q \in H : n <= q
    BY <1>3, <2>1, LeastOf, Zenon
  <2>3. n \in 0 .. l /\ ~ Walked(w[n], n, dag, heads, order)
    OBVIOUS
  <2>4. CASE n = 0
    <3>1. << >> \in Seq(dag) /\ DOMAIN << >> = {}
      OBVIOUS
    <3>2. \A a : Of(<< >>, a) = {}
      BY <3>1 DEF Of
    <3>3. Continues(<< >>, heads)
      BY <3>2 DEF Continues
    <3>4. 1 .. 0 = {}
      OBVIOUS
    <3>5. Walked(<< >>, 0, dag, heads, order)
      BY <3>1, <3>2, <3>3, <3>4, Zenon DEF Walked
    <3> QED
      BY <1>2, <2>3, <2>4, <3>5
  <2>5. CASE n # 0
    <3>1. n \in 1 .. l /\ n - 1 \in 0 .. l /\ n - 1 \notin H
      BY <1>1, <2>2, <2>3, <2>5
    <3>2. Walked(w[n - 1], n - 1, dag, heads, order)
      BY <3>1, Zenon
    <3>3. Walked(w[n], n, dag, heads, order)
      <4>1. Walked(w[n - 1] \o ChainSince(dag, order[n], heads[order[n]]), n, dag, heads, order)
        BY <3>1, <3>2, WalkStep, Zenon
      <4> QED
        BY <1>2, <3>1, <4>1, Zenon
    <3> QED
      BY <2>3, <3>3
  <2> QED
    BY <2>4, <2>5
<1>4. Walked(w[l], l, dag, heads, order)
  BY <1>1, <1>3
<1>5. ASSUME NEW a \in Writer PROVE Cardinality(Of(w[l], a)) = Missing(dag, heads, a)
  <2>1. PICK k \in 1 .. l : order[k] = a
    BY OrderFacts, Zenon
  <2> QED
    BY <1>4, <2>1 DEF Walked
<1> QED
  BY <1>4, <1>5 DEF Walked, w

\* As many events as the guard allows do not fit in the envelope.
LEMMA GuardIsHeavy ==
    ASSUME NEW es \in Seq(ReplayEvent), Guard <= Len(es)
    PROVE  ~ (Weight(es) <= Budget)
<1> DEFINE S == DOMAIN es
           size == [i \in S |-> Size[es[i]]]
<1>1. S = 1 .. Len(es) /\ Len(es) \in Nat /\ \A i \in S : es[i] \in ReplayEvent
  OBVIOUS
<1>2. IsFiniteSet(S) /\ Cardinality(S) = Len(es)
  <2>1. ASSUME NEW n \in Nat PROVE IsFiniteSet(1 .. n) /\ Cardinality(1 .. n) = n
    BY FS_Interval
  <2> HIDE DEF S
  <2> QED
    BY <1>1, <2>1
<1>3. size \in [S -> Nat] /\ \A i \in S : Guard * size[i] > Budget
  <2>1. \A i \in S : size[i] = Size[es[i]] /\ Size[es[i]] \in Nat /\ Guard * Size[es[i]] > Budget
    BY <1>1, ReplayAssumption, GuardAssumption
  <2> QED
    BY <2>1
<1>4. Guard \in Nat \ {0} /\ Budget \in Nat
  BY ReplayAssumption
<1>5. {{i} \X (1 .. size[i]) : i \in S} = {{i} \X (1 .. Size[es[i]]) : i \in S}
  <2>1. \A i \in S : size[i] = Size[es[i]]
    OBVIOUS
  <2> HIDE DEF size
  <2> QED
    BY <2>1
<1> HIDE DEF S, size
<1>6. ~ (Cardinality(UNION {{i} \X (1 .. size[i]) : i \in S}) <= Budget)
  BY <1>2, <1>3, <1>4, ManyDoNotFit, SMTT(30)
<1> QED
  BY <1>5, <1>6, Zenon DEF Weight, S

\* A prefix continues the requester's chains as well.
LEMMA PrefixContinues ==
    ASSUME NEW dag, NEW heads, NEW w \in Seq(dag), Continues(w, heads), NEW m \in 0 .. Len(w)
    PROVE  /\ SubSeq(w, 1, m) \in Seq(dag) /\ Len(SubSeq(w, 1, m)) = m
           /\ Continues(SubSeq(w, 1, m), heads)
           /\ m = Len(w) => SubSeq(w, 1, m) = w
<1> DEFINE v == SubSeq(w, 1, m)
<1>1. /\ v \in Seq(dag) /\ Len(v) = m /\ DOMAIN v = 1 .. m /\ DOMAIN w = 1 .. Len(w)
      /\ Len(w) \in Nat /\ m \in Nat /\ \A i \in 1 .. m : v[i] = w[i] /\ i \in 1 .. Len(w)
  OBVIOUS
<1>2. m = Len(w) => v = w
  OBVIOUS
<1> HIDE DEF v
<1>3. Continues(v, heads)
  <2> SUFFICES ASSUME NEW a \in Writer, NEW i \in Of(v, a)
               PROVE  v[i].seq = heads[a] + Cardinality({j \in Of(v, a) : j <= i})
    BY DEF Continues
  <2>1. i \in 1 .. m /\ i \in Of(w, a) /\ v[i] = w[i]
    BY <1>1 DEF Of
  <2>2. {j \in Of(v, a) : j <= i} = {j \in Of(w, a) : j <= i}
    <3>1. \A j \in 1 .. Len(w) : j <= i => j \in 1 .. m
      BY <1>1, <2>1
    <3> QED
      BY <1>1, <3>1 DEF Of
  <2> QED
    BY <2>1, <2>2 DEF Continues
<1> QED
  BY <1>1, <1>2, <1>3, Zenon DEF v

\* The first batch is a prefix of what is sent, and as much of it as `more' says.
LEMMA FirstBatchFacts ==
    ASSUME NEW es \in Seq(ReplayEvent)
    PROVE  \E n \in 0 .. Len(es) :
             /\ FirstBatch(es).events = SubSeq(es, 1, n)
             /\ FirstBatch(es).more = (n < Len(es))
             /\ n > 1 => Weight(SubSeq(es, 1, n)) <= Budget
<1> DEFINE l == Len(es)
           fits == {n \in 1 .. l : n = 1 \/ Weight(SubSeq(es, 1, n)) <= Budget}
           n == IF es = << >> THEN 0 ELSE CHOOSE m \in fits : \A k \in fits : k <= m
<1>1. FirstBatch(es) = [events |-> SubSeq(es, 1, n), more |-> n < l]
  BY DEF FirstBatch
<1>2. l \in Nat /\ (es = << >> \/ l > 0)
  OBVIOUS
<1>3. CASE es = << >>
  <2>1. n \in 0 .. l /\ ~ (n > 1)
    BY <1>2, <1>3, SMTT(30)
  <2> HIDE DEF n
  <2> QED
    BY <1>1, <2>1
<1>4. CASE es # << >>
  <2>1. l > 0 /\ 1 \in fits
    BY <1>2, <1>4
  <2> DEFINE left == {l - k : k \in fits}
  <2>2. left \in SUBSET Nat /\ left # {}
    BY <1>2, <2>1
  <2>3. PICK b \in left : \A q \in left : b <= q
    BY <2>2, LeastOf, Zenon
  <2>4. PICK x \in fits : b = l - x
    BY <2>3, Zenon
  <2>5. ASSUME NEW y \in fits PROVE y <= x
    <3>1. l - x <= l - y
      BY <2>3, <2>4, Zenon
    <3> QED
      BY <1>2, <3>1
  <2>6. n \in fits
    <3>1. n = CHOOSE m \in fits : \A k \in fits : k <= m
      BY <1>4
    <3> HIDE DEF fits, n
    <3> QED
      BY <2>5, <3>1, Zenon
  <2>7. n \in 0 .. l /\ (n > 1 => Weight(SubSeq(es, 1, n)) <= Budget)
    <3> HIDE DEF n
    <3> QED
      BY <1>2, <2>6
  <2> HIDE DEF n
  <2> QED
    BY <1>1, <2>7
<1> QED
  BY <1>3, <1>4

\* What AnswersContinue says of one answer.
GoodAnswer(answer, heads, dag) ==
    /\ answer.kind = "SyncBatch"
    /\ Continues(answer.events, heads)
    /\ ~ answer.more =>
        \A a \in Writer : heads[a] + Cardinality(Of(answer.events, a)) >= LatestSeq(dag, a)

\* A walk that the guard cuts is never sent whole: the envelope is full before.
LEMMA AnswerIsGood ==
    ASSUME NEW id \in DOMAIN servers, DagOf(servers[id].dag, id), NEW heads \in [Writer -> Nat],
           NEW order \in Sequences(Writer)
    PROVE  GoodAnswer(Answer(id, heads, order), heads, servers[id].dag)
<1> DEFINE dag == servers[id].dag
           all == Walk(dag, heads, order)[Len(order)]
           cut == IF Len(all) < Guard THEN Len(all) ELSE Guard
           delta == Delta(dag, heads, order)
           answer == Answer(id, heads, order)
<1>1. /\ all \in Seq(dag) /\ Continues(all, heads)
      /\ \A a \in Writer : Cardinality(Of(all, a)) = Missing(dag, heads, a)
  BY WalkComplete
<1>2. delta = SubSeq(all, 1, cut)
  BY Zenon DEF Delta
<1>3. /\ delta = << >> /\ (\E a \in Writer : heads[a] > 0) /\ Behind(dag, heads)
            => answer = [kind |-> "Snapshot"]
      /\ ~ (delta = << >> /\ (\E a \in Writer : heads[a] > 0) /\ Behind(dag, heads))
            => answer = [kind |-> "SyncBatch", events |-> FirstBatch(delta).events,
                         more |-> FirstBatch(delta).more]
  BY Zenon DEF Answer
<1>4. dag \subseteq ReplayEvent /\ \A a \in Writer : LatestSeq(dag, a) \in Nat
  <2>1. ASSUME NEW a \in Writer PROVE LatestSeq(dag, a) \in Nat
    <3>1. IsFiniteSet(ChainOf(dag, a))
      BY FS_Subset, ReplayAssumption DEF DagOf, ChainOf
    <3> QED
      BY <3>1, FS_CardinalityType, ZenonT(30) DEF LatestSeq
  <2> QED
    BY <2>1 DEF DagOf
<1> HIDE DEF dag, all, delta, answer
<1>5. Len(all) \in Nat /\ Guard \in Nat /\ Guard > 1 /\ cut \in 0 .. Len(all)
  <2>1. Len(all) \in Nat
    BY <1>1
  <2> QED
    BY <2>1, ReplayAssumption
<1>6. /\ delta \in Seq(dag) /\ Len(delta) = cut /\ Continues(delta, heads)
      /\ cut = Len(all) => delta = all
  <2> HIDE DEF cut
  <2> QED
    BY <1>1, <1>2, <1>5, PrefixContinues
<1>7. delta \in Seq(ReplayEvent)
  BY <1>4, <1>6
<1>8. PICK n \in 0 .. Len(delta) :
        /\ FirstBatch(delta).events = SubSeq(delta, 1, n)
        /\ FirstBatch(delta).more = (n < Len(delta))
        /\ n > 1 => Weight(SubSeq(delta, 1, n)) <= Budget
  BY <1>7, FirstBatchFacts
<1>9. delta = << >> => ~ Behind(dag, heads)
  <2> SUFFICES ASSUME delta = << >>, NEW a \in Writer PROVE ~ (LatestSeq(dag, a) > heads[a])
    BY DEF Behind
  <2>1. all = << >>
    BY <1>1, <1>5, <1>6
  <2>2. Of(all, a) = {}
    BY <2>1 DEF Of
  <2>3. Missing(dag, heads, a) = 0
    BY <1>1, <2>2, FS_EmptySet, ZenonT(30)
  <2> QED
    BY <1>4, <2>3 DEF Missing
<1>10. answer = [kind |-> "SyncBatch", events |-> FirstBatch(delta).events,
                 more |-> FirstBatch(delta).more]
  BY <1>3, <1>9
<1>11. answer.kind = "SyncBatch" /\ answer.events = SubSeq(delta, 1, n)
       /\ answer.more = (n < Len(delta))
  BY <1>8, <1>10
<1>12. /\ Continues(SubSeq(delta, 1, n), heads)
       /\ n = Len(delta) => SubSeq(delta, 1, n) = delta
  BY <1>6, <1>8, PrefixContinues
<1>13. ASSUME ~ answer.more, NEW a \in Writer
       PROVE  heads[a] + Cardinality(Of(answer.events, a)) >= LatestSeq(dag, a)
  <2>1. n = Len(delta) /\ n = cut /\ n \in Nat
    <3>1. Len(delta) \in Nat
      BY <1>6
    <3>2. ~ (n < Len(delta))
      BY <1>11, <1>13, Zenon
    <3> QED
      BY <1>6, <1>8, <3>1, <3>2, SMTT(30)
  <2>2. cut = Len(all)
    <3> SUFFICES ASSUME cut # Len(all) PROVE FALSE
      OBVIOUS
    <3>1. cut = Guard /\ n > 1 /\ Guard <= Len(delta)
      BY <1>5, <1>6, <2>1
    <3>2. Weight(delta) <= Budget
      BY <1>8, <1>12, <2>1, <3>1, ZenonT(30)
    <3> QED
      BY <1>7, <3>1, <3>2, GuardIsHeavy, Zenon
  <2>3. answer.events = all
    BY <1>6, <1>11, <1>12, <2>1, <2>2
  <2>4. Cardinality(Of(answer.events, a)) = Missing(dag, heads, a)
    BY <1>1, <2>3
  <2> QED
    BY <1>4, <2>4 DEF Missing
<1> QED
  BY <1>11, <1>12, <1>13 DEF GoodAnswer, answer, dag

\* An answer stands until the next event arrives, and try_insert has returned.
AnswerInvariant ==
    served # Unserved =>
        /\ queue = {}
        /\ served.server \in DOMAIN servers =>
            GoodAnswer(served.answer, served.heads, servers[served.server].dag)

LEMMA HeadsAreCounts == Heads \subseteq [Writer -> Nat]
<1>1. Cardinality(ReplayEvent) \in Nat
  BY ReplayAssumption, FS_CardinalityType
<1>2. Heads \subseteq [Writer -> 0 .. Cardinality(ReplayEvent)]
  BY DEF Heads
<1> QED
  BY <1>1, <1>2

LEMMA AnswerKeeps ==
    ASSUME ReplayInvariant, AnswerInvariant, [ReplayNext]_replayVars
    PROVE  AnswerInvariant'
<1>1. ASSUME NEW e \in ReplayEvent, OnEvent(e) PROVE AnswerInvariant'
  BY <1>1 DEF OnEvent, AnswerInvariant
<1>2. ASSUME TryInsert PROVE AnswerInvariant'
  BY <1>2, Zenon DEF TryInsert, AnswerInvariant
<1>3. ASSUME NEW id \in Server, NEW h \in Heads, HandleSync(id, h) PROVE AnswerInvariant'
  <2>1. PICK order \in Sequences(Writer) :
            served' = [server |-> id, heads |-> h, answer |-> Answer(id, h, order)]
    BY <1>3 DEF HandleSync
  <2>2. queue = {} /\ queue' = queue /\ servers' = servers
    BY <1>3 DEF HandleSync
  <2>3. ASSUME id \in DOMAIN servers PROVE GoodAnswer(Answer(id, h, order), h, servers[id].dag)
    <3>1. id # Default
      BY ReplayAssumption
    <3>2. DagOf(servers[id].dag, id)
      BY <2>3, <3>1 DEF ReplayInvariant, EntryFits
    <3> QED
      BY <2>3, <3>2, HeadsAreCounts, AnswerIsGood, ZenonT(30)
  <2>4. served'.server = id /\ served'.heads = h /\ served'.answer = Answer(id, h, order)
    BY <2>1
  <2>5. servers'[id].dag = servers[id].dag /\ DOMAIN servers' = DOMAIN servers
    BY <2>2, Zenon
  <2>6. ASSUME served'.server \in DOMAIN servers'
        PROVE  GoodAnswer(served'.answer, served'.heads, servers'[served'.server].dag)
    BY <2>3, <2>4, <2>5, <2>6, ZenonT(30)
  <2> QED
    BY <2>2, <2>6, Zenon DEF AnswerInvariant, GoodAnswer, Continues, LatestSeq, ChainOf, Of
<1>4. ASSUME UNCHANGED replayVars PROVE AnswerInvariant'
  BY <1>4 DEF replayVars, AnswerInvariant, GoodAnswer, Continues, LatestSeq, ChainOf, Of
<1> QED
  BY <1>1, <1>2, <1>3, <1>4, Zenon DEF ReplayNext

\* Answers to Sync continue the requester's chains, leave nothing out without saying
\* so, and never fall back to a snapshot, whatever the DAG and the heads are.
THEOREM AnswersAlwaysContinue == ReplaySpec => []AnswersContinue
<1>1. ReplayInit => AnswerInvariant
  BY ZenonT(30) DEF ReplayInit, AnswerInvariant
<1>2. AnswerInvariant => AnswersContinue
  BY DEF AnswerInvariant, AnswersContinue, GoodAnswer, Continues, Of
<1> QED
  BY <1>1, <1>2, AnswerKeeps, ReplayInvariantHolds, PTL DEF ReplaySpec

-----------------------------------------------------------------------------
(* The first n elements of a finite ordered set.                           *)

\* What comes before x in the order O, a set of pairs.
Preceding(S, O, x) == {y \in S : <<y, x>> \in O}

FirstOf(S, O, n) == {x \in S : Cardinality(Preceding(S, O, x)) < n}

Ordering(S, O) ==
    /\ \A x \in S : <<x, x>> \notin O
    /\ \A x, y \in S : x = y \/ <<x, y>> \in O \/ <<y, x>> \in O
    /\ \A x, y, z \in S : <<x, y>> \in O /\ <<y, z>> \in O => <<x, z>> \in O

LEMMA RankType ==
    ASSUME NEW S, IsFiniteSet(S), NEW O, NEW x
    PROVE  IsFiniteSet(Preceding(S, O, x)) /\ Cardinality(Preceding(S, O, x)) \in 0 .. Cardinality(S)
<1>1. Preceding(S, O, x) \in SUBSET S
  BY DEF Preceding
<1>2. IsFiniteSet(Preceding(S, O, x)) /\ Cardinality(Preceding(S, O, x)) <= Cardinality(S)
  BY <1>1, FS_Subset, Zenon
<1> QED
  BY <1>2, FS_CardinalityType

\* More comes before the later of two.
LEMMA RankGrows ==
    ASSUME NEW S, IsFiniteSet(S), NEW O, Ordering(S, O),
           NEW x \in S, NEW y \in S, <<y, x>> \in O
    PROVE  Cardinality(Preceding(S, O, y)) < Cardinality(Preceding(S, O, x))
<1> DEFINE A == Preceding(S, O, y)
           B == Preceding(S, O, x)
<1>1. A \in SUBSET B /\ y \in B /\ y \notin A
  BY Zenon DEF Preceding, Ordering
<1>2. IsFiniteSet(B) /\ Cardinality(A) \in Nat /\ Cardinality(B) \in Nat
  BY RankType, SMTT(30)
<1>3. Cardinality(A) <= Cardinality(B) /\ Cardinality(A) # Cardinality(B)
  BY <1>1, <1>2, FS_Subset
<1> QED
  BY <1>2, <1>3

\* The first ones come before all the others.
LEMMA FirstComeBefore ==
    ASSUME NEW S, IsFiniteSet(S), NEW O, Ordering(S, O), NEW n \in Nat,
           NEW x \in FirstOf(S, O, n), NEW e \in S, e \notin FirstOf(S, O, n)
    PROVE  <<x, e>> \in O
<1>1. x \in S /\ Cardinality(Preceding(S, O, x)) < n /\ ~ (Cardinality(Preceding(S, O, e)) < n)
  BY DEF FirstOf
<1>2. Cardinality(Preceding(S, O, x)) \in Nat /\ Cardinality(Preceding(S, O, e)) \in Nat
  BY RankType
<1>3. x # e
  BY <1>1
<1>4. CASE <<e, x>> \in O
  <2>1. Cardinality(Preceding(S, O, e)) < Cardinality(Preceding(S, O, x))
    BY <1>1, <1>4, RankGrows, Zenon
  <2> QED
    BY <1>1, <1>2, <2>1, SMTT(30)
<1> QED
  BY <1>1, <1>3, <1>4, Zenon DEF Ordering

\* When not all of S are among the first n, one of the first n comes after n - 1 others.
LEMMA FirstAreMany ==
    ASSUME NEW S, IsFiniteSet(S), NEW O, Ordering(S, O), NEW n \in Nat \ {0},
           FirstOf(S, O, n) # S
    PROVE  \E x \in FirstOf(S, O, n) :
              n - 1 <= Cardinality(Preceding(FirstOf(S, O, n), O, x))
<1> DEFINE F == FirstOf(S, O, n)
           rank(x) == Cardinality(Preceding(S, O, x))
           out == {rank(x) : x \in S \ F}
<1>1. F \in SUBSET S
  BY DEF FirstOf
<1>2. \A x \in S : rank(x) \in 0 .. Cardinality(S) /\ Cardinality(S) \in Nat
  BY RankType, FS_CardinalityType, ZenonT(30)
<1>3. out \in SUBSET Nat /\ out # {}
  BY <1>1, <1>2
<1>4. PICK r \in out : \A q \in out : r <= q
  BY <1>3, LeastOf, Zenon
<1>5. PICK e \in S \ F : rank(e) = r
  BY <1>4, Zenon
<1> DEFINE P == Preceding(S, O, e)
<1>6. P \in SUBSET F
  <2> SUFFICES ASSUME NEW y \in P PROVE y \in F
    BY Zenon
  <2>1. y \in S /\ <<y, e>> \in O
    BY DEF Preceding
  <2>2. rank(y) < rank(e)
    BY <1>5, <2>1, RankGrows, Zenon
  <2>3. rank(y) \notin out
    BY <1>2, <1>4, <1>5, <2>1, <2>2, SMTT(30)
  <2> QED
    BY <2>1, <2>3
<1>7. IsFiniteSet(P) /\ Cardinality(P) \in Nat /\ n <= Cardinality(P)
  <2>1. IsFiniteSet(P) /\ Cardinality(P) \in Nat
    BY RankType
  <2>2. ~ (Cardinality(P) < n)
    BY <1>5, Zenon DEF FirstOf
  <2> QED
    BY <2>1, <2>2, SMTT(30)
<1>8. \E x \in P : \A y \in P : y = x \/ <<y, x>> \in O
  <2> DEFINE N == Cardinality(S)
             back == {N - rank(x) : x \in P}
  <2>1. P # {} /\ P \in SUBSET S
    BY <1>1, <1>6, <1>7, FS_EmptySet, SMTT(30)
  <2>2. back \in SUBSET Nat /\ back # {}
    BY <1>2, <2>1
  <2>3. PICK b \in back : \A q \in back : b <= q
    BY <2>2, LeastOf, Zenon
  <2>4. PICK x \in P : b = N - rank(x)
    BY <2>3, Zenon
  <2>5. ASSUME NEW y \in P PROVE y = x \/ <<y, x>> \in O
    <3>1. N - rank(x) <= N - rank(y)
      BY <2>3, <2>4, ZenonT(30)
    <3>2. ~ (rank(x) < rank(y))
      BY <1>2, <2>1, <3>1, SMTT(30)
    <3>3. x \in S /\ y \in S
      BY <2>1, Zenon
    <3>4. <<x, y>> \notin O
      BY <3>2, <3>3, RankGrows, SMTT(30)
    <3> QED
      BY <3>3, <3>4, Zenon DEF Ordering
  <2> QED
    BY <2>5, Zenon
<1>9. PICK x \in P : \A y \in P : y = x \/ <<y, x>> \in O
  BY <1>8
<1>10. P \ {x} \in SUBSET Preceding(F, O, x)
  BY <1>6, <1>9, Zenon DEF Preceding
<1>11. IsFiniteSet(Preceding(F, O, x)) /\ Cardinality(Preceding(F, O, x)) \in Nat
  <2>1. IsFiniteSet(F)
    BY <1>1, FS_Subset, Zenon
  <2> QED
    BY <2>1, RankType, SMTT(30)
<1>12. Cardinality(P \ {x}) = Cardinality(P) - 1 /\ IsFiniteSet(P \ {x})
  BY <1>7, <1>9, FS_RemoveElement, Zenon
<1>13. Cardinality(P) - 1 <= Cardinality(Preceding(F, O, x))
  BY <1>10, <1>11, <1>12, FS_Subset, ZenonT(30)
<1>14. n - 1 <= Cardinality(Preceding(F, O, x))
  BY <1>7, <1>11, <1>13, SMTT(30)
<1> QED
  BY <1>6, <1>9, <1>14, Zenon

-----------------------------------------------------------------------------
(* The order of the rows.                                                  *)

LaterPairs == {pr \in StoreEvent \X StoreEvent : Later(pr[1], pr[2])}
EarlierPairs == {pr \in StoreEvent \X StoreEvent : Earlier(pr[1], pr[2])}

LEMMA PairFacts ==
    \A x, y \in StoreEvent : /\ <<x, y>> \in LaterPairs <=> Later(x, y)
                             /\ <<x, y>> \in EarlierPairs <=> Earlier(x, y)
  BY DEF LaterPairs, EarlierPairs

\* The primary key orders the rows.
LEMMA RowsOrdered ==
    ASSUME NEW S \in SUBSET StoreEvent
    PROVE  Ordering(S, LaterPairs) /\ Ordering(S, EarlierPairs)
<1>1. \A x \in S : x \in StoreEvent /\ x.seq \in Nat /\ x.hash \in Nat
  BY StoreAssumption
<1>2. \A x, y \in S : x.hash = y.hash => x = y
  BY StoreAssumption
<1>3. \A x \in S : ~ Later(x, x) /\ ~ Earlier(x, x)
  BY <1>1 DEF Later, Earlier
<1>4. \A x, y \in S : x = y \/ Later(x, y) \/ Later(y, x)
  BY <1>1, <1>2 DEF Later
<1>5. \A x, y \in S : x = y \/ Earlier(x, y) \/ Earlier(y, x)
  BY <1>1, <1>2 DEF Earlier
<1>6. \A x, y, z \in S : Later(x, y) /\ Later(y, z) => Later(x, z)
  BY <1>1 DEF Later
<1>7. \A x, y, z \in S : Earlier(x, y) /\ Earlier(y, z) => Earlier(x, z)
  BY <1>1 DEF Earlier
<1>8. Ordering(S, LaterPairs)
  BY <1>1, <1>3, <1>4, <1>6, PairFacts, Zenon DEF Ordering
<1>9. Ordering(S, EarlierPairs)
  BY <1>1, <1>3, <1>5, <1>7, PairFacts, Zenon DEF Ordering
<1> QED
  BY <1>8, <1>9

LEMMA LimitIsFirst ==
    ASSUME NEW S \in SUBSET StoreEvent, NEW n \in Nat
    PROVE  /\ Newest(S, n) = FirstOf(S, LaterPairs, n)
           /\ Oldest(S, n) = FirstOf(S, EarlierPairs, n)
<1>1. \A x \in S : {y \in S : Later(y, x)} = Preceding(S, LaterPairs, x)
  BY PairFacts, Zenon DEF Preceding
<1>2. \A x \in S : {y \in S : Earlier(y, x)} = Preceding(S, EarlierPairs, x)
  BY PairFacts, Zenon DEF Preceding
<1> QED
  BY <1>1, <1>2, Zenon DEF Newest, Oldest, FirstOf

-----------------------------------------------------------------------------
(* Paging backwards.                                                       *)

Page(P) == Newest(Newest(P, PageLimit + 1), PageLimit)

\* A row that is not on the page comes after every row that is.
LEMMA PageIsNewest ==
    ASSUME NEW P \in SUBSET StoreEvent, IsFiniteSet(P),
           NEW f \in Page(P), NEW e \in P, e \notin Page(P)
    PROVE  f \in P /\ Later(f, e)
<1> DEFINE F == Newest(P, PageLimit + 1)
<1>1. PageLimit \in Nat /\ PageLimit + 1 \in Nat
  BY StoreAssumption
<1>2. F \in SUBSET P /\ f \in F
  BY DEF Newest, Page
<1>3. F = FirstOf(P, LaterPairs, PageLimit + 1)
  BY <1>1, LimitIsFirst, Zenon
<1>4. IsFiniteSet(F) /\ F \in SUBSET StoreEvent
  BY <1>2, FS_Subset, Zenon
<1>5. Page(P) = FirstOf(F, LaterPairs, PageLimit)
  BY <1>1, <1>4, LimitIsFirst, Zenon DEF Page
<1>6. Ordering(P, LaterPairs) /\ Ordering(F, LaterPairs)
  BY <1>4, RowsOrdered
<1> HIDE DEF F
<1>7. CASE e \in F
  <2>1. <<f, e>> \in LaterPairs
    BY <1>1, <1>4, <1>5, <1>6, <1>7, FirstComeBefore, SMTT(30)
  <2> QED
    BY <1>2, <2>1, PairFacts, Zenon
<1>8. CASE e \notin F
  <2>1. <<f, e>> \in LaterPairs
    BY <1>1, <1>2, <1>3, <1>6, <1>8, FirstComeBefore, Zenon
  <2> QED
    BY <1>2, <2>1, PairFacts, Zenon
<1> QED
  BY <1>7, <1>8

\* When no row more than the page was fetched, the page has all rows.
LEMMA LastPageIsAll ==
    ASSUME NEW P \in SUBSET StoreEvent, IsFiniteSet(P), Newest(P, PageLimit + 1) = Page(P)
    PROVE  Page(P) = P
<1> DEFINE F == Newest(P, PageLimit + 1)
<1>1. PageLimit \in Nat /\ PageLimit + 1 \in Nat \ {0} /\ (PageLimit + 1) - 1 = PageLimit
  BY StoreAssumption
<1>2. F \in SUBSET P
  BY DEF Newest
<1>3. F = FirstOf(P, LaterPairs, PageLimit + 1)
  BY <1>1, LimitIsFirst, Zenon
<1>4. IsFiniteSet(F) /\ F \in SUBSET StoreEvent
  BY <1>2, FS_Subset, Zenon
<1>5. F = FirstOf(F, LaterPairs, PageLimit)
  BY <1>1, <1>4, LimitIsFirst DEF Page
<1>6. Ordering(P, LaterPairs)
  BY RowsOrdered
<1>7. ASSUME F # P PROVE FALSE
  <2>1. PICK x \in F : PageLimit <= Cardinality(Preceding(F, LaterPairs, x))
    <3> HIDE DEF F
    <3> QED
      BY <1>1, <1>3, <1>6, <1>7, FirstAreMany, ZenonT(30)
  <2>2. Cardinality(Preceding(F, LaterPairs, x)) < PageLimit
    <3> HIDE DEF F
    <3> QED
      BY <1>5 DEF FirstOf
  <2>3. Cardinality(Preceding(F, LaterPairs, x)) \in Nat
    BY <1>4, RankType, SMTT(30)
  <2> QED
    BY <1>1, <2>1, <2>2, <2>3, SMTT(30)
<1> QED
  BY <1>7

-----------------------------------------------------------------------------
(* Catching up.                                                            *)

\* As many events as the row limit allows do not fit in the envelope.
LEMMA RowsDoNotFit ==
    ASSUME NEW es \in SUBSET StoreEvent, RowLimit <= Cardinality(es)
    PROVE  ~ (Total(es) <= Envelope)
<1> DEFINE size == [e \in es |-> e.size]
<1>1. IsFiniteSet(es) /\ RowLimit \in Nat \ {0} /\ Envelope \in Nat
  BY StoreAssumption, FS_Subset
<1>2. \A e \in es : size[e] = e.size /\ e.size \in Nat /\ RowLimit * e.size > Envelope
  BY StoreAssumption, RowsAssumption
<1>3. size \in [es -> Nat] /\ \A e \in es : RowLimit * size[e] > Envelope
  BY <1>2
<1> HIDE DEF size
<1>4. {{e} \X (1 .. size[e]) : e \in es} = {{e} \X (1 .. e.size) : e \in es}
  BY <1>2
<1>5. ~ (Cardinality(UNION {{e} \X (1 .. size[e]) : e \in es}) <= Envelope)
  BY <1>1, <1>3, ManyDoNotFit
<1> QED
  BY <1>4, <1>5, ZenonT(30) DEF Total

\* When the batch has all that the query returned, the query returned all rows.
LEMMA WholeBatchIsAll ==
    ASSUME NEW R \in SUBSET StoreEvent, FirstPacked(Oldest(R, RowLimit)) = Oldest(R, RowLimit)
    PROVE  Oldest(R, RowLimit) = R
<1> DEFINE F == Oldest(R, RowLimit)
<1>1. RowLimit \in Nat \ {0, 1} /\ IsFiniteSet(R)
  BY StoreAssumption, FS_Subset
<1>2. F \in SUBSET R /\ F \in SUBSET StoreEvent
  BY DEF Oldest
<1>3. F = FirstOf(R, EarlierPairs, RowLimit)
  BY <1>1, LimitIsFirst
<1>4. IsFiniteSet(F)
  BY <1>1, <1>2, FS_Subset
<1>5. Ordering(R, EarlierPairs)
  BY RowsOrdered
<1> HIDE DEF F
<1>6. ASSUME F # R PROVE FALSE
  <2>1. PICK x \in F : RowLimit - 1 <= Cardinality(Preceding(F, EarlierPairs, x))
    BY <1>1, <1>3, <1>5, <1>6, FirstAreMany, ZenonT(30)
  <2> DEFINE P == Preceding(F, EarlierPairs, x)
             upTo == {y \in F : x = y \/ Earlier(y, x)}
  <2>2. IsFiniteSet(P) /\ Cardinality(P) \in Nat
    BY <1>4, RankType
  <2>3. upTo = P \cup {x}
    BY <1>2, PairFacts, Zenon DEF Preceding
  <2>4. x \notin P
    BY <1>2, <1>5, Zenon DEF Preceding, Ordering
  <2>5. Cardinality(upTo) = Cardinality(P) + 1
    BY <2>2, <2>3, <2>4, FS_AddElement, Zenon
  <2>6. RowLimit <= Cardinality(upTo)
    BY <1>1, <2>1, <2>2, <2>5, SMTT(30)
  <2>7. upTo \in SUBSET StoreEvent
    BY <1>2
  <2>8. ~ (Total(upTo) <= Envelope)
    BY <2>6, <2>7, RowsDoNotFit, Zenon
  <2>9. upTo # {x}
    <3>1. Cardinality({x}) = 1
      BY FS_Singleton, Zenon
    <3>2. Cardinality(upTo) # 1
      BY <1>1, <2>2, <2>5, <2>6, SMTT(30)
    <3> QED
      BY <3>1, <3>2
  <2>10. x \in FirstPacked(F)
    BY Zenon DEF F
  <2> QED
    BY <2>8, <2>9, <2>10, Zenon DEF FirstPacked
<1> QED
  BY <1>6 DEF F

\* The numbers up to which a chain that ends in k goes on with the events got.
Reach(a, k, got) ==
    {n \in k .. Cardinality(StoreEvent) :
        \A m \in k + 1 .. n : \E e \in got : e.author = a /\ e.seq = m}

LEMMA ExtendedFacts ==
    ASSUME NEW chains \in [StoreAuthor -> 0 .. Cardinality(StoreEvent)], NEW got, NEW a \in StoreAuthor
    PROVE  /\ Extended(chains, got)[a] \in Reach(a, chains[a], got)
           /\ \A n \in Reach(a, chains[a], got) : n <= Extended(chains, got)[a]
<1> DEFINE N == Cardinality(StoreEvent)
           k == chains[a]
           reach == Reach(a, k, got)
           left == {N - n : n \in reach}
<1>1. N \in Nat /\ k \in 0 .. N
  BY StoreAssumption, FS_CardinalityType
<1>2. k \in reach /\ reach \in SUBSET (0 .. N)
  BY <1>1, SMTT(30) DEF Reach
<1>3. left \in SUBSET Nat /\ left # {}
  BY <1>1, <1>2
<1>4. PICK b \in left : \A q \in left : b <= q
  BY <1>3, LeastOf, Zenon
<1>5. PICK x \in reach : b = N - x
  BY <1>4, Zenon
<1>6. \A y \in reach : x >= y
  <2> SUFFICES ASSUME NEW y \in reach PROVE x >= y
    BY Zenon
  <2>1. N - x <= N - y
    BY <1>4, <1>5, Zenon
  <2> QED
    BY <1>1, <1>2, <2>1, SMTT(30)
<1>7. Extended(chains, got)[a] = Max(reach)
  BY DEF Extended, Reach
<1> HIDE DEF reach
<1>8. Max(reach) \in reach /\ \A y \in reach : Max(reach) >= y
  BY <1>5, <1>6, Zenon DEF Max
<1> QED
  BY <1>1, <1>2, <1>7, <1>8, ZenonT(30) DEF reach

LEMMA ExtendedType ==
    ASSUME NEW chains \in [StoreAuthor -> 0 .. Cardinality(StoreEvent)], NEW got
    PROVE  Extended(chains, got) \in [StoreAuthor -> 0 .. Cardinality(StoreEvent)]
<1>1. ASSUME NEW a \in StoreAuthor
      PROVE  Extended(chains, got)[a] \in 0 .. Cardinality(StoreEvent)
  <2>1. Cardinality(StoreEvent) \in Nat /\ chains[a] \in 0 .. Cardinality(StoreEvent)
    BY StoreAssumption, FS_CardinalityType, Zenon
  <2>2. Extended(chains, got)[a] \in chains[a] .. Cardinality(StoreEvent)
    BY ExtendedFacts, Zenon DEF Reach
  <2> QED
    BY <2>1, <2>2, SMTT(30)
<1>2. Extended(chains, got) = [a \in StoreAuthor |-> Extended(chains, got)[a]]
  BY Zenon DEF Extended
<1> QED
  BY <1>1, <1>2

\* Chains that took in every row beyond them cannot be extended.
LEMMA ExtendedIsLevel ==
    ASSUME NEW chains \in [StoreAuthor -> 0 .. Cardinality(StoreEvent)], NEW R \in SUBSET StoreEvent
    PROVE  LET after == Extended(chains, {e \in R : e.seq > chains[e.author]})
           IN  after = Extended(after, R)
<1> DEFINE N == Cardinality(StoreEvent)
           got == {e \in R : e.seq > chains[e.author]}
           after == Extended(chains, got)
<1>1. N \in Nat
  BY StoreAssumption, FS_CardinalityType, Zenon
<1>2. after \in [StoreAuthor -> 0 .. N] /\ Extended(after, R) \in [StoreAuthor -> 0 .. N]
  BY ExtendedType, ZenonT(30)
<1>3. ASSUME NEW a \in StoreAuthor PROVE after[a] = Extended(after, R)[a]
  <2> DEFINE k == chains[a]
             l == after[a]
             n == Extended(after, R)[a]
  <2>1. l \in Reach(a, k, got) /\ \A i \in Reach(a, k, got) : i <= l
    BY ExtendedFacts, Zenon
  <2>2. n \in Reach(a, l, R)
    BY <1>2, ExtendedFacts, ZenonT(30)
  <2>3. k \in 0 .. N /\ l \in 0 .. N /\ n \in 0 .. N
    BY <1>2, SMTT(30)
  <2> HIDE DEF l, n, k, after
  <2>4. n >= l /\ k <= l
    BY <1>1, <2>1, <2>2, <2>3, SMTT(30) DEF Reach
  <2>5. ASSUME n > l PROVE FALSE
    <3>1. l + 1 \in l + 1 .. n
      BY <2>3, <2>5
    <3>2. PICK e \in R : e.author = a /\ e.seq = l + 1
      BY <2>2, <3>1, Zenon DEF Reach
    <3>3. e \in got
      BY <2>3, <2>4, <3>2 DEF k
    <3>4. \A m \in k + 1 .. l + 1 : m \in k + 1 .. l \/ m = l + 1
      BY <2>3
    <3>5. \A m \in k + 1 .. l : \E f \in got : f.author = a /\ f.seq = m
      BY <2>1, Zenon DEF Reach
    <3>6. \A m \in k + 1 .. l + 1 : \E f \in got : f.author = a /\ f.seq = m
      BY <3>2, <3>3, <3>4, <3>5, Zenon
    <3>7. l + 1 \in k .. N
      BY <1>1, <2>3, <2>4, <2>5, SMTT(30)
    <3>8. l + 1 \in Reach(a, k, got)
      BY <3>6, <3>7, Zenon DEF Reach
    <3> QED
      BY <2>1, <2>3, <3>8, SMTT(30)
  <2> QED
    BY <2>3, <2>4, <2>5, SMTT(30) DEF l, n
<1> QED
  BY <1>2, <1>3, SMTT(30)

-----------------------------------------------------------------------------
(* The two readers.                                                        *)

\* The History reader has nothing below its cursor, and what was there at its first
\* page it has or will be sent.
PagingInv ==
    /\ rows \in SUBSET StoreEvent /\ cursor \in [StoreAuthor -> Nat]
    /\ read \in SUBSET StoreEvent /\ repeated = {} /\ first \in SUBSET rows
    /\ \A e \in read : cursor[e.author] # 0 /\ cursor[e.author] <= e.seq
    /\ paging = "start" => \A a \in StoreAuthor : cursor[a] = 0
    /\ paging # "start" => first \subseteq read \cup PageRows
    /\ paging = "done" => first \subseteq read

\* The Sync reader's chains are within the events there are, and level when it thinks so.
SyncInv ==
    /\ known \in [StoreAuthor -> 0 .. Cardinality(StoreEvent)] /\ level \in BOOLEAN
    /\ level => known = Extended(known, rows)

LEMMA SyncKeeps ==
    ASSUME PagingInv, SyncInv, SyncOnce
    PROVE  SyncInv'
<1> DEFINE R == {e \in rows : e.seq > known[e.author]}
           delta == SyncSince(known)
<1>1. R \in SUBSET StoreEvent /\ rows \in SUBSET StoreEvent
  BY Zenon DEF PagingInv
<1>2. delta = Oldest(R, RowLimit)
  BY DEF SyncSince
<1>3. known' = Extended(known, FirstPacked(delta)) /\ level' = (FirstPacked(delta) = delta) /\ rows' = rows
  BY DEF SyncOnce
<1>4. known \in [StoreAuthor -> 0 .. Cardinality(StoreEvent)]
  BY DEF SyncInv
<1>5. known' \in [StoreAuthor -> 0 .. Cardinality(StoreEvent)] /\ level' \in BOOLEAN
  BY <1>3, <1>4, ExtendedType
<1>6. ASSUME level' PROVE known' = Extended(known', rows)
  <2>1. FirstPacked(Oldest(R, RowLimit)) = R
    BY <1>1, <1>2, <1>3, <1>6, WholeBatchIsAll, ZenonT(30)
  <2>2. known' = Extended(known, R)
    BY <1>2, <1>3, <2>1, Zenon
  <2> QED
    BY <1>1, <1>4, <2>2, ExtendedIsLevel, Zenon
<1> QED
  BY <1>3, <1>5, <1>6, Zenon DEF SyncInv

LEMMA HistoryKeeps ==
    ASSUME PagingInv, History
    PROVE  PagingInv'
<1> DEFINE P == PageRows
           page == Page(P)
           got(a) == {e.seq : e \in {f \in page : f.author = a}}
<1>1. P \in SUBSET rows /\ P \in SUBSET StoreEvent /\ IsFiniteSet(P)
  BY StoreAssumption, FS_Subset DEF PageRows, PagingInv
<1>2. page \in SUBSET P
  BY SMTT(30) DEF Page, Newest
<1>3. /\ read' = read \cup page /\ repeated' = repeated \cup (read \cap page) /\ rows' = rows
      /\ cursor' = [a \in StoreAuthor |-> IF got(a) = {} THEN cursor[a] ELSE Min(got(a))]
      /\ first' = IF paging = "start" THEN rows ELSE first
      /\ paging' = IF Newest(P, PageLimit + 1) # page THEN "more" ELSE "done"
  BY DEF History, Page
<1>4. \A e \in P : /\ e.author \in StoreAuthor /\ e.seq \in Nat \ {0}
                   /\ cursor[e.author] = 0 \/ e.seq < cursor[e.author]
  BY <1>1, StoreAssumption, Zenon DEF PageRows, StoreAuthor
<1> HIDE DEF P, page
<1>5. repeated' = {}
  <2>1. ASSUME NEW e \in read, e \in page PROVE FALSE
    <3>1. cursor[e.author] # 0 /\ cursor[e.author] <= e.seq /\ cursor[e.author] \in Nat
      BY <1>2, <1>4, <2>1 DEF PagingInv
    <3> QED
      BY <1>2, <1>4, <2>1, <3>1, SMTT(30)
  <2> QED
    BY <1>3, <2>1, Zenon DEF PagingInv
\* The new cursor of an author with events on the page is the least of them.
<1>6. ASSUME NEW a \in StoreAuthor, got(a) # {}
      PROVE  cursor'[a] \in got(a) /\ \A n \in got(a) : cursor'[a] <= n
  <2>1. got(a) \in SUBSET Nat
    BY <1>2, <1>4
  <2>2. PICK x \in got(a) : \A y \in got(a) : x <= y
    BY <1>6, <2>1, LeastOf, Zenon
  <2>3. cursor'[a] = Min(got(a))
    BY <1>3, <1>6, Zenon
  <2> HIDE DEF got
  <2> QED
    BY <2>2, <2>3, Zenon DEF Min
<1>7. \A a \in StoreAuthor : got(a) = {} => cursor'[a] = cursor[a]
  BY <1>3, Zenon
<1>8. cursor' \in [StoreAuthor -> Nat]
  <2>1. \A a \in StoreAuthor : got(a) \in SUBSET Nat
    BY <1>2, <1>4, Zenon
  <2>2. \A a \in StoreAuthor : cursor'[a] \in Nat
    <3> HIDE DEF got
    <3> QED
      BY <1>6, <1>7, <2>1, Zenon DEF PagingInv
  <2>3. cursor' = [a \in StoreAuthor |-> cursor'[a]]
    BY <1>3, Zenon
  <2> QED
    BY <2>2, <2>3, Zenon
<1>9. ASSUME NEW e \in read \cup page
      PROVE  cursor'[e.author] # 0 /\ cursor'[e.author] <= e.seq
  <2>1. e \in StoreEvent /\ e.author \in StoreAuthor /\ e.seq \in Nat \ {0}
    BY <1>1, <1>2, StoreAssumption, Zenon DEF PagingInv, StoreAuthor
  <2>2. CASE e \in page
    <3>1. e.seq \in got(e.author)
      BY <2>2, Zenon
    <3>2. cursor'[e.author] \in got(e.author) /\ cursor'[e.author] <= e.seq
      BY <1>6, <2>1, <3>1, Zenon
    <3>3. \A n \in got(e.author) : n # 0
      BY <1>2, <1>4, Zenon
    <3> QED
      BY <3>2, <3>3, Zenon
  <2>3. CASE e \in read /\ got(e.author) = {}
    BY <1>7, <2>1, <2>3, ZenonT(30) DEF PagingInv
  <2>4. CASE e \in read /\ got(e.author) # {}
    <3>1. cursor'[e.author] \in got(e.author)
      BY <1>6, <2>1, <2>4, ZenonT(30)
    <3>2. PICK f \in page : f.author = e.author /\ f.seq = cursor'[e.author]
      BY <3>1, Zenon
    <3>3. cursor[e.author] # 0 /\ cursor[e.author] <= e.seq /\ cursor[e.author] \in Nat
      BY <2>1, <2>4, Zenon DEF PagingInv
    <3>4. f.seq \in Nat \ {0} /\ f.seq < cursor[e.author]
      BY <1>2, <1>4, <3>2, <3>3, ZenonT(30)
    <3> QED
      BY <2>1, <3>2, <3>3, <3>4, SMTT(30)
  <2> QED
    BY <2>2, <2>3, <2>4, Zenon
\* A row that is left is still to be sent.
<1>10. ASSUME NEW e \in P, e \notin page
       PROVE  cursor'[e.author] = 0 \/ e.seq < cursor'[e.author]
  <2>1. e.author \in StoreAuthor
    BY <1>4, Zenon
  <2>2. CASE got(e.author) = {}
    BY <1>4, <1>7, <2>1, <2>2, ZenonT(30)
  <2>3. CASE got(e.author) # {}
    <3>1. cursor'[e.author] \in got(e.author)
      BY <1>6, <2>1, <2>3, Zenon
    <3>2. PICK f \in page : f.author = e.author /\ f.seq = cursor'[e.author]
      BY <3>1, Zenon
    <3>3. Later(f, e)
      BY <1>1, <1>10, <3>2, PageIsNewest, Zenon DEF page
    <3>4. f # e /\ f \in StoreEvent /\ e \in StoreEvent
      BY <1>1, <1>2, <1>10, <3>2, ZenonT(30)
    <3>5. f.seq # e.seq
      BY <3>2, <3>4, StoreAssumption
    <3> QED
      BY <3>2, <3>3, <3>5, ZenonT(30) DEF Later
  <2> QED
    BY <2>2, <2>3, Zenon
<1>11. first' \in SUBSET rows /\ first' \subseteq read \cup P
  <2>1. CASE paging = "start"
    <3>1. P = rows
      BY <2>1, StoreAssumption, Zenon DEF PagingInv, P, PageRows, StoreAuthor
    <3> QED
      BY <1>3, <2>1, <3>1, Zenon
  <2>2. CASE paging # "start"
    BY <1>3, <2>2, Zenon DEF PagingInv, P
  <2> QED
    BY <2>1, <2>2, Zenon
<1>12. first' \subseteq read' \cup PageRows'
  BY <1>1, <1>3, <1>10, <1>11, ZenonT(30) DEF PageRows
<1>13. paging' = "done" => first' \subseteq read'
  <2> SUFFICES ASSUME paging' = "done" PROVE first' \subseteq read'
    OBVIOUS
  <2>1. Newest(P, PageLimit + 1) = Page(P)
    BY <1>3 DEF page
  <2>2. page = P
    BY <1>1, <2>1, LastPageIsAll, ZenonT(30) DEF page
  <2> QED
    BY <1>3, <1>11, <2>2
<1>14. read' \in SUBSET StoreEvent /\ paging' # "start" /\ rows' \in SUBSET StoreEvent
  BY <1>1, <1>2, <1>3 DEF PagingInv
<1> QED
  BY <1>3, <1>5, <1>8, <1>9, <1>11, <1>12, <1>13, <1>14, ZenonT(30) DEF PagingInv

LEMMA StoreOneKeeps ==
    ASSUME PagingInv, SyncInv, NEW e \in StoreEvent, StoreOne(e)
    PROVE  PagingInv' /\ SyncInv'
<1>1. rows' = rows \cup {e} /\ level' = (level /\ e \in rows)
      /\ UNCHANGED <<cursor, read, repeated, first, paging, known>>
  BY DEF StoreOne
<1>2. PageRows \subseteq PageRows'
  BY <1>1, Zenon DEF PageRows
<1>3. PagingInv'
  BY <1>1, <1>2, Zenon DEF PagingInv
<1>4. level' \in BOOLEAN /\ (level' => level /\ rows' = rows)
  BY <1>1, Zenon
<1>5. SyncInv'
  BY <1>1, <1>4 DEF SyncInv
<1> QED
  BY <1>3, <1>5

\* The answers of the storage worker that say "nothing more" are true, for any events
\* in any order of arrival and any sizes and limits: paging sends no event twice and
\* leaves out no row there was at its first page, and the batch that ends a sync leaves
\* no row that the reader's chains could reach (history, sync_since, pack_sync_batches).
THEOREM NothingIsLeftBehind == StoreSpec => []NothingLeftBehind
<1>1. StoreInit => PagingInv /\ SyncInv
  <2>1. Cardinality(StoreEvent) \in Nat
    BY StoreAssumption, FS_CardinalityType
  <2>2. StoreInit => PagingInv
    BY DEF StoreInit, PagingInv
  <2>3. StoreInit => known \in [StoreAuthor -> 0 .. Cardinality(StoreEvent)]
    BY <2>1 DEF StoreInit
  <2>4. StoreInit => level \in BOOLEAN /\ ~ level
    BY Zenon DEF StoreInit
  <2> QED
    BY <2>2, <2>3, <2>4 DEF SyncInv
<1>2. PagingInv /\ SyncInv /\ [StoreNext]_storeVars => PagingInv' /\ SyncInv'
  <2> SUFFICES ASSUME PagingInv, SyncInv, [StoreNext]_storeVars
               PROVE  PagingInv' /\ SyncInv'
    OBVIOUS
  <2>1. CASE \E e \in StoreEvent : StoreOne(e)
    BY <2>1, StoreOneKeeps
  <2>2. CASE History
    <3>1. SyncInv'
      <4>1. UNCHANGED <<rows, known, level>>
        BY <2>2 DEF History
      <4> QED
        BY <4>1, SMTT(30) DEF SyncInv
    <3> QED
      BY <2>2, <3>1, HistoryKeeps
  <2>3. CASE SyncOnce
    <3>1. PagingInv'
      BY <2>3 DEF SyncOnce, PagingInv, PageRows
    <3> QED
      BY <2>3, <3>1, SyncKeeps, ZenonT(30)
  <2>4. CASE UNCHANGED storeVars
    <3>1. PagingInv'
      BY <2>4 DEF storeVars, PagingInv, PageRows
    <3>2. SyncInv'
      BY <2>4 DEF storeVars, SyncInv
    <3> QED
      BY <3>1, <3>2, ZenonT(30)
  <2> QED
    BY <2>1, <2>2, <2>3, <2>4 DEF StoreNext
<1>3. PagingInv /\ SyncInv => NothingLeftBehind
  BY DEF PagingInv, SyncInv, NothingLeftBehind
<1> QED
  BY <1>1, <1>2, <1>3, PTL DEF StoreSpec
=============================================================================
