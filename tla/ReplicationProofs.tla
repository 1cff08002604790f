------------------------- MODULE ReplicationProofs -------------------------
(***************************************************************************)
(* Theorems about Replication: any number of replicas and of events, any   *)
(* answer limit, any number of reloads.                                    *)
(***************************************************************************)
EXTENDS Replication, FiniteSetTheorems, SequenceTheorems, WellFoundedInduction, TLAPS

-----------------------------------------------------------------------------
(* Numbers, folds, sets of events.                                         *)

\* A set of numbers has a least one.
LEMMA LeastNumber ==
    ASSUME NEW H \in SUBSET Nat, H # {}
    PROVE  \E p \in H : \A q \in H : p <= q
<1>1. PICK p \in H : \A q \in H : ~ (<<q, p>> \in OpToRel(<, Nat))
  BY NatLessThanWellFounded, WFMin, Zenon
<1>2. \A q \in H : ~ (q < p)
  BY <1>1, Zenon DEF OpToRel
<1>3. QED
  BY <1>2

\* Induction up to a number, for a set of numbers.
LEMMA UpTo ==
    ASSUME NEW l \in Nat, NEW G, 0 \in G,
           \A n \in 1 .. l : n - 1 \in G => n \in G
    PROVE  \A n \in 0 .. l : n \in G
<1> DEFINE H == {n \in 0 .. l : n \notin G}
<1> SUFFICES ASSUME H # {} PROVE FALSE
  OBVIOUS
<1>1. H \in SUBSET Nat
  OBVIOUS
<1>2. PICK n \in H : \A q \in H : n <= q
  BY <1>1, LeastNumber, Zenon
<1>3. n \in 1 .. l /\ n - 1 \in 0 .. l /\ n - 1 \notin H
  BY <1>2
<1> QED
  BY <1>3

\* f is the fold of step over the first n numbers.
IsFold(f, n, init, step) ==
    f = [i \in 0 .. n |-> IF i = 0 THEN init ELSE step[<<f[i - 1], i>>]]

\* A fold that stays in a set exists.
LEMMA FoldExists ==
    ASSUME NEW S, NEW l \in Nat, NEW init \in S, NEW step \in [S \X (1 .. l) -> S]
    PROVE  \E f : f \in [0 .. l -> S] /\ IsFold(f, l, init, step)
<1> DEFINE G == {n \in 0 .. l : \E f : f \in [0 .. n -> S] /\ IsFold(f, n, init, step)}
<1>1. 0 \in G
  <2> DEFINE f == [i \in 0 .. 0 |-> init]
  <2>1. f \in [0 .. 0 -> S] /\ f = [i \in 0 .. 0 |-> IF i = 0 THEN init ELSE step[<<f[i - 1], i>>]]
    OBVIOUS
  <2>2. 0 \in 0 .. l
    OBVIOUS
  <2> QED
    BY <2>1, <2>2, Zenon DEF IsFold
<1>2. ASSUME NEW n \in 1 .. l, n - 1 \in G PROVE n \in G
  <2>1. PICK f : f \in [0 .. n - 1 -> S] /\ IsFold(f, n - 1, init, step)
    BY <1>2
  <2> DEFINE g == [i \in 0 .. n |-> IF i = n THEN step[<<f[n - 1], n>>] ELSE f[i]]
  <2>2. step[<<f[n - 1], n>>] \in S
    BY <2>1
  <2>3. g \in [0 .. n -> S]
    BY <2>1, <2>2
  <2>4. ASSUME NEW i \in 0 .. n
        PROVE  g[i] = IF i = 0 THEN init ELSE step[<<g[i - 1], i>>]
    <3>1. CASE i = n
      <4>1. n - 1 \in 0 .. n /\ n - 1 # n /\ n # 0 /\ n \in 0 .. n
        OBVIOUS
      <4>2. g[n - 1] = f[n - 1] /\ g[n] = step[<<f[n - 1], n>>]
        BY <4>1
      <4> QED
        BY <3>1, <4>1, <4>2
    <3>2. CASE i = 0
      BY <2>1, <3>2 DEF IsFold
    <3>3. CASE i # n /\ i # 0
      <4>1. i \in 0 .. n - 1 /\ i - 1 \in 0 .. n - 1 /\ i - 1 # n
        BY <3>3
      <4>2. f[i] = step[<<f[i - 1], i>>]
        BY <2>1, <3>3, <4>1, Zenon DEF IsFold
      <4>3. g[i] = f[i] /\ g[i - 1] = f[i - 1]
        BY <3>3, <4>1
      <4> QED
        BY <3>3, <4>2, <4>3, Zenon
    <3> QED
      BY <3>1, <3>2, <3>3
  <2>5. IsFold(g, n, init, step)
    BY <2>4, Zenon DEF IsFold
  <2>6. n \in 0 .. l
    OBVIOUS
  <2> QED
    BY <2>3, <2>5, <2>6, Zenon
<1> HIDE DEF G
<1>3. l \in G
  BY <1>1, <1>2, UpTo
<1> QED
  BY <1>3 DEF G

-----------------------------------------------------------------------------
(* Logs.                                                                   *)

LEMMA SignedFacts ==
    ASSUME NEW e \in Signed
    PROVE  /\ e.hash \in Nat \ {0} /\ e.author \in Replica /\ e.seq \in Nat /\ e.prev \in Nat
           /\ e.deps \in SUBSET Nat /\ e.kind \in Kind /\ e.peer \in Replica
<1>1. e.hash \in EventHash \cup {1}
  BY DEF Signed
<1>2. EventHash \subseteq Nat \ {0, 1}
  BY ReplicationAssumption
<1>3. \A h \in EventHash \cup {1} : h \in Nat \ {0}
  BY <1>2
<1>4. e.hash \in Nat \ {0}
  BY <1>1, <1>3
<1> QED
  BY <1>4 DEF Signed

ChainIn(es, a) == {e \in es : e.author = a}

\* The events of an author have the numbers from one to how many they are.
Dense(es) ==
    \A a \in Replica :
        /\ \A e \in ChainIn(es, a) : e.seq \in 1 .. Cardinality(ChainIn(es, a))
        /\ \A n \in 1 .. Cardinality(ChainIn(es, a)) : \E e \in ChainIn(es, a) : e.seq = n
        /\ \A e, f \in ChainIn(es, a) : e.seq = f.seq => e = f

\* Each but the first event of an author names the one before.
Chained(es) ==
    \A e \in es :
        \/ e.seq = 1 /\ e.prev = 0
        \/ \E f \in es : f.author = e.author /\ f.seq = e.seq - 1 /\ f.hash = e.prev

\* A log is empty or has the server's creation.
Founded(l) == l = <<>> \/ \E e \in Events(l) : e.kind = "CreateServer"

GoodLog(l) ==
    /\ l \in Seq(Signed)
    /\ IsFiniteSet(Events(l)) /\ Cardinality(Events(l)) = Len(l)
    /\ Dense(Events(l)) /\ Chained(Events(l)) /\ Founded(l)

LEMMA FollowsFacts ==
    ASSUME NEW l \in Seq(Signed), NEW e, Log(Creator)!Follows(l, e)
    PROVE  /\ \A f \in Events(l) : f.author = e.author => f.seq < e.seq
           /\ \/ e.seq = 1 /\ e.prev = 0
              \/ \E f \in Events(l) :
                   f.author = e.author /\ f.seq = e.seq - 1 /\ f.hash = e.prev
<1>1. DOMAIN l = 1 .. Len(l)
  OBVIOUS
<1> QED
  BY <1>1 DEF Log!Follows, Events

LEMMA EventsOfAppend ==
    ASSUME NEW l \in Seq(Signed), NEW e \in Signed
    PROVE  Events(Append(l, e)) = Events(l) \cup {e}
<1>1. DOMAIN l = 1 .. Len(l) /\ DOMAIN Append(l, e) = 1 .. Len(l) + 1
  OBVIOUS
<1>2. Len(l) \in Nat /\ Append(l, e)[Len(l) + 1] = e /\ \A i \in 1 .. Len(l) : Append(l, e)[i] = l[i]
  OBVIOUS
<1>3. ASSUME NEW x \in Events(Append(l, e)) PROVE x \in Events(l) \cup {e}
  <2>1. PICK i \in 1 .. Len(l) + 1 : x = Append(l, e)[i]
    BY <1>1 DEF Events
  <2> QED
    BY <1>1, <1>2, <2>1 DEF Events
<1>4. ASSUME NEW x \in Events(l) PROVE x \in Events(Append(l, e))
  <2>1. PICK i \in 1 .. Len(l) : x = l[i]
    BY <1>1 DEF Events
  <2>2. i \in 1 .. Len(l) + 1 /\ x = Append(l, e)[i]
    BY <1>2, <2>1
  <2> QED
    BY <1>1, <2>2 DEF Events
<1>5. e \in Events(Append(l, e))
  <2>1. Len(l) + 1 \in 1 .. Len(l) + 1
    BY <1>2
  <2> QED
    BY <1>1, <1>2, <2>1 DEF Events
<1> QED
  BY <1>3, <1>4, <1>5

LEMMA DenseStep ==
    ASSUME NEW es \in SUBSET Signed, IsFiniteSet(es), Dense(es),
           NEW e \in Signed,
           \A f \in es : f.author = e.author => f.seq < e.seq,
           \/ e.seq = 1
           \/ \E f \in es : f.author = e.author /\ f.seq = e.seq - 1
    PROVE  Dense(es \cup {e})
<1> SUFFICES ASSUME NEW a \in Replica
             PROVE  LET c == ChainIn(es \cup {e}, a)
                    IN  /\ \A x \in c : x.seq \in 1 .. Cardinality(c)
                        /\ \A n \in 1 .. Cardinality(c) : \E x \in c : x.seq = n
                        /\ \A x, y \in c : x.seq = y.seq => x = y
  BY Zenon DEF Dense
<1> DEFINE c == ChainIn(es, a)  d == ChainIn(es \cup {e}, a)  n == Cardinality(c)
<1>1. /\ \A x \in c : x.seq \in 1 .. n
      /\ \A k \in 1 .. n : \E x \in c : x.seq = k
      /\ \A x, y \in c : x.seq = y.seq => x = y
  BY Zenon DEF Dense
<1>2. IsFiniteSet(c) /\ n \in Nat
  <2>1. c \in SUBSET es
    BY DEF ChainIn
  <2> QED
    BY <2>1, FS_Subset, FS_CardinalityType
<1>3. CASE e.author # a
  <2>1. d = c
    BY <1>3 DEF ChainIn
  <2> QED
    BY <1>1, <2>1, Zenon
<1>4. CASE e.author = a
  <2>1. d = c \cup {e}
    BY <1>4 DEF ChainIn
  <2>2. e.seq = n + 1
    <3>1. e.seq \in Nat
      BY DEF Signed
    <3>2. \A x \in c : x.seq < e.seq
      BY <1>4 DEF ChainIn
    <3>3. CASE e.seq = 1
      <4>1. \A x \in c : FALSE
        BY <1>1, <1>2, <3>2, <3>3
      <4>2. n = 0
        BY <1>1, <1>2, <4>1
      <4> QED
        BY <3>3, <4>2
    <3>4. CASE \E f \in es : f.author = e.author /\ f.seq = e.seq - 1
      <4>1. PICK f \in c : f.seq = e.seq - 1
        BY <3>4, <1>4 DEF ChainIn
      <4>2. e.seq - 1 \in 1 .. n
        BY <4>1, <1>1
      <4>3. n \in 1 .. n
        BY <4>2, <1>2
      <4>4. PICK x \in c : x.seq = n
        BY <4>3, <1>1
      <4> QED
        BY <4>2, <4>4, <3>1, <3>2, <1>2
    <3> QED
      BY <3>3, <3>4
  <2>3. e \notin c
    BY <1>1, <1>2, <2>2
  <2>4. Cardinality(d) = n + 1
    BY <1>2, <2>1, <2>3, FS_AddElement, ZenonT(30)
  <2> HIDE DEF c, d, n
  <2>5. \A x \in d : x.seq \in 1 .. n + 1
    BY <1>1, <1>2, <2>1, <2>2
  <2>6. \A k \in 1 .. n + 1 : \E x \in d : x.seq = k
    BY <1>1, <1>2, <2>1, <2>2
  <2>7. \A x, y \in d : x.seq = y.seq => x = y
    BY <1>1, <1>2, <2>1, <2>2
  <2> QED
    BY <2>4, <2>5, <2>6, <2>7, Zenon DEF d
<1> QED
  BY <1>3, <1>4, Zenon

LEMMA GoodAppend ==
    ASSUME NEW l, GoodLog(l), NEW e \in Signed, Log(Creator)!Follows(l, e)
    PROVE  GoodLog(Append(l, e)) /\ Events(Append(l, e)) = Events(l) \cup {e}
<1> DEFINE es == Events(l)
<1>1. l \in Seq(Signed) /\ IsFiniteSet(es) /\ Cardinality(es) = Len(l) /\ Dense(es) /\ Chained(es)
  BY DEF GoodLog
<1>2. Events(Append(l, e)) = es \cup {e}
  BY <1>1, EventsOfAppend
<1>3. es \in SUBSET Signed
  BY <1>1 DEF Events
<1>4. /\ \A f \in es : f.author = e.author => f.seq < e.seq
      /\ \/ e.seq = 1 /\ e.prev = 0
         \/ \E f \in es : f.author = e.author /\ f.seq = e.seq - 1 /\ f.hash = e.prev
  BY <1>1, FollowsFacts
<1> HIDE DEF es
<1>5. e \notin es
  BY <1>4 DEF Signed
<1>6. IsFiniteSet(es \cup {e}) /\ Cardinality(es \cup {e}) = Len(l) + 1
  BY <1>1, <1>5, FS_AddElement
<1>7. Append(l, e) \in Seq(Signed) /\ Len(Append(l, e)) = Len(l) + 1
  BY <1>1
<1>8. Dense(es \cup {e})
  BY <1>1, <1>3, <1>4, DenseStep
<1>9. Chained(es \cup {e})
  BY <1>1, <1>4, Zenon DEF Chained
<1>10. Founded(Append(l, e))
  <2>1. Founded(l) /\ (e.kind = "CreateServer" <=> l = <<>>)
    BY DEF GoodLog, Log!Follows
  <2> QED
    BY <1>2, <2>1, Zenon DEF Founded, es
<1> QED
  BY <1>2, <1>6, <1>7, <1>8, <1>9, <1>10 DEF GoodLog, es

-----------------------------------------------------------------------------
(* Replicas.                                                               *)

States == [senders : SUBSET Replica, shown : SUBSET Nat]

\* Only the creator grants.
GrantsByCreator(pool) == \A e \in pool : e.kind = "Grant" => e.author = Creator

\* The senders have a grant among the events.
Granted(es, senders) == \A a \in senders : \E g \in es : g.kind = "Grant" /\ g.peer = a

\* Replicas with events of the pool, those of base at least.
Reps(pool, base) ==
    {rep \in [log : Seq(Signed), state : States] :
        /\ GoodLog(rep.log) /\ Events(rep.log) \subseteq pool /\ base \subseteq Events(rep.log)
        /\ Granted(Events(rep.log), rep.state.senders)}

LEMMA ApplyFacts ==
    ASSUME NEW st \in States, NEW e \in Signed
    PROVE  /\ ApplyEvent(st, e) \in States
           /\ ApplyEvent(st, e).senders \subseteq
                 IF e.kind = "Grant" THEN st.senders \cup {e.peer} ELSE st.senders
           /\ st.shown \subseteq ApplyEvent(st, e).shown
           /\ \A a \in st.senders :
                 ~ (e.kind = "Revoke" /\ e.peer = a) => a \in ApplyEvent(st, e).senders
           /\ e.kind = "Grant" /\ e.author = Creator => e.peer \in ApplyEvent(st, e).senders
           /\ e.kind = "Message" /\ (e.author = Creator \/ e.author \in st.senders)
                 => e.hash \in ApplyEvent(st, e).shown
<1>1. /\ e.kind \in Kind /\ e.peer \in Replica /\ e.hash \in Nat
      /\ st.senders \in SUBSET Replica /\ st.shown \in SUBSET Nat
  BY SignedFacts DEF States
<1>2. CASE ~ Permitted(st, e)
  <2>1. ApplyEvent(st, e) = st
    BY <1>2 DEF ApplyEvent
  <2> QED
    BY <1>2, <2>1 DEF Permitted
<1>3. CASE Permitted(st, e) /\ e.kind = "Grant"
  <2>1. ApplyEvent(st, e) = [st EXCEPT !.senders = @ \cup {e.peer}]
    BY <1>3 DEF ApplyEvent
  <2> QED
    BY <1>1, <1>3, <2>1 DEF States
<1>4. CASE Permitted(st, e) /\ e.kind = "Revoke"
  <2>1. ApplyEvent(st, e) = [st EXCEPT !.senders = @ \ {e.peer}]
    BY <1>4 DEF ApplyEvent
  <2> QED
    BY <1>1, <1>4, <2>1 DEF States
<1>5. CASE Permitted(st, e) /\ e.kind = "Message"
  <2>1. ApplyEvent(st, e) = [st EXCEPT !.shown = @ \cup {e.hash}]
    BY <1>5 DEF ApplyEvent
  <2> QED
    BY <1>1, <1>5, <2>1 DEF States
<1>6. CASE Permitted(st, e) /\ e.kind = "CreateServer"
  <2>1. ApplyEvent(st, e) = st
    BY <1>6 DEF ApplyEvent
  <2> QED
    BY <1>6, <2>1
<1> QED
  BY <1>1, <1>2, <1>3, <1>4, <1>5, <1>6, ZenonT(30) DEF Kind

LEMMA AcceptStays ==
    ASSUME NEW pool \in SUBSET Signed, NEW base, NEW rep \in Reps(pool, base), NEW e \in pool
    PROVE  /\ Accept(rep, e) \in Reps(pool, base)
           /\ Events(Accept(rep, e).log) =
                 IF Log(Creator)!Follows(rep.log, e) THEN Events(rep.log) \cup {e} ELSE Events(rep.log)
<1>1. CASE ~ Log(Creator)!Follows(rep.log, e)
  BY <1>1 DEF Accept
<1>2. CASE Log(Creator)!Follows(rep.log, e)
  <2> DEFINE l == Append(rep.log, e)  st == ApplyEvent(rep.state, e)
  <2>1. Accept(rep, e) = [log |-> l, state |-> st]
    BY <1>2 DEF Accept
  <2>2. /\ rep.log \in Seq(Signed) /\ rep.state \in States /\ GoodLog(rep.log)
        /\ Events(rep.log) \subseteq pool /\ base \subseteq Events(rep.log)
        /\ Granted(Events(rep.log), rep.state.senders)
    BY DEF Reps
  <2>3. GoodLog(l) /\ Events(l) = Events(rep.log) \cup {e}
    BY <1>2, <2>2, GoodAppend
  <2>4. st \in States /\ st.senders \subseteq
                 IF e.kind = "Grant" THEN rep.state.senders \cup {e.peer} ELSE rep.state.senders
    BY <2>2, ApplyFacts
  <2> HIDE DEF l, st
  <2>5. l \in Seq(Signed)
    BY <2>3 DEF GoodLog
  <2>6. Granted(Events(l), st.senders)
    BY <2>2, <2>3, <2>4 DEF Granted
  <2>7. [log |-> l, state |-> st] \in Reps(pool, base)
    BY <2>2, <2>3, <2>4, <2>5, <2>6, ZenonT(30) DEF Reps
  <2> QED
    BY <1>2, <2>1, <2>3, <2>7
<1> QED
  BY <1>1, <1>2

LEMMA AcceptedFacts ==
    ASSUME NEW pool \in SUBSET Signed, NEW base, NEW rep \in Reps(pool, base), NEW batch \in Seq(pool)
    PROVE  /\ Accepted(rep, batch) \in [0 .. Len(batch) -> Reps(pool, base)]
           /\ Accepted(rep, batch)[0] = rep
           /\ \A n \in 1 .. Len(batch) :
                 Accepted(rep, batch)[n] = Accept(Accepted(rep, batch)[n - 1], batch[n])
<1> DEFINE S == Reps(pool, base)
           l == Len(batch)
           step == [p \in S \X (1 .. l) |-> Accept(p[1], batch[p[2]])]
           g == Accepted(rep, batch)
           D(f) == f = [n \in 0 .. l |-> IF n = 0 THEN rep ELSE Accept(f[n - 1], batch[n])]
<1>1. l \in Nat /\ \A i \in 1 .. l : batch[i] \in pool
  OBVIOUS
<1>2. step \in [S \X (1 .. l) -> S]
  BY <1>1, AcceptStays, Zenon
<1>3. PICK f : f \in [0 .. l -> S] /\ IsFold(f, l, rep, step)
  <2> HIDE DEF S, l, step
  <2>1. rep \in S
    BY DEF S
  <2> QED
    BY <1>1, <1>2, <2>1, FoldExists, ZenonT(30)
<1>4. D(f)
  <2>1. ASSUME NEW n \in 0 .. l, n # 0 PROVE step[<<f[n - 1], n>>] = Accept(f[n - 1], batch[n])
    <3>1. n - 1 \in 0 .. l /\ n \in 1 .. l
      BY <1>1, <2>1
    <3>2. <<f[n - 1], n>> \in S \X (1 .. l)
      BY <1>3, <3>1, Zenon
    <3> QED
      BY <3>2
  <2> HIDE DEF S, l, step
  <2>2. f = [n \in 0 .. l |-> IF n = 0 THEN rep ELSE step[<<f[n - 1], n>>]]
    BY <1>3, Zenon DEF IsFold
  <2> QED
    BY <2>1, <2>2, Zenon
<1>5. g = CHOOSE f_1 : D(f_1)
  BY DEF Accepted
<1>6. D(g)
  <2> HIDE DEF D, g
  <2> QED
    BY <1>4, <1>5, Zenon
<1> HIDE DEF S, l, g, step
<1>7. g[0] = rep /\ \A n \in 1 .. l : g[n] = Accept(g[n - 1], batch[n])
  BY <1>1, <1>6
<1> DEFINE G == {n \in 0 .. l : g[n] \in S}
<1>8. 0 \in G
  BY <1>1, <1>7 DEF S
<1>9. ASSUME NEW n \in 1 .. l, n - 1 \in G PROVE n \in G
  <2>1. g[n] \in S
    BY <1>1, <1>7, <1>9, AcceptStays, ZenonT(30) DEF S
  <2> QED
    BY <2>1, <1>1
<1> HIDE DEF G
<1>10. \A n \in 0 .. l : n \in G
  BY <1>1, <1>8, <1>9, UpTo, ZenonT(30)
<1>11. g \in [0 .. l -> S]
  BY <1>6, <1>10 DEF G
<1> QED
  BY <1>7, <1>11 DEF S, g, l

\* The replica of r.
Rep(r) == [log |-> log[r], state |-> state[r]]

Typed ==
    /\ log \in [Replica -> Seq(Signed)] /\ state \in [Replica -> States]
    /\ sent \in SUBSET Signed /\ reloads \in Nat
    /\ \A r \in Replica : Rep(r) \in Reps(sent, {})

LEMMA RepFacts ==
    ASSUME Typed, NEW r \in Replica
    PROVE  /\ GoodLog(log[r]) /\ Events(log[r]) \subseteq sent /\ state[r] \in States
           /\ Granted(Events(log[r]), state[r].senders) /\ log[r] \in Seq(Signed)
           /\ IsFiniteSet(Dag(r)) /\ Dag(r) \subseteq sent /\ Dense(Dag(r)) /\ Chained(Dag(r))
BY Zenon DEF Typed, Reps, Rep, GoodLog, Dag

\* What an insertion makes of the replicas.
LEMMA InsertFacts ==
    ASSUME Typed, NEW r \in Replica, NEW pool \in SUBSET Signed, sent \subseteq pool,
           NEW batch \in Seq(pool), Insert(r, batch)
    PROVE  /\ log' \in [Replica -> Seq(Signed)] /\ state' \in [Replica -> States]
           /\ \A q \in Replica : Rep(q)' \in Reps(pool, Events(log[q]))
<1> DEFINE rep == Accepted(Rep(r), batch)[Len(batch)]
<1>1. \A q \in Replica : Rep(q) \in Reps(pool, Events(log[q]))
  BY DEF Typed, Reps, Rep
<1>2. rep \in Reps(pool, Events(log[r]))
  <2>1. Accepted(Rep(r), batch) \in [0 .. Len(batch) -> Reps(pool, Events(log[r]))]
    BY <1>1, AcceptedFacts
  <2>2. Len(batch) \in 0 .. Len(batch)
    OBVIOUS
  <2> QED
    BY <2>1, <2>2
<1>3. log' = [log EXCEPT ![r] = rep.log] /\ state' = [state EXCEPT ![r] = rep.state]
  BY DEF Insert, Rep
<1> HIDE DEF rep
<1>4. rep.log \in Seq(Signed) /\ rep.state \in States /\ rep = [log |-> rep.log, state |-> rep.state]
  BY <1>2 DEF Reps
<1>5. log' \in [Replica -> Seq(Signed)] /\ state' \in [Replica -> States]
  BY <1>3, <1>4 DEF Typed
<1>6. ASSUME NEW q \in Replica PROVE Rep(q)' \in Reps(pool, Events(log[q]))
  <2>1. CASE q = r
    <3>1. log'[q] = rep.log /\ state'[q] = rep.state
      BY <1>3, <2>1 DEF Typed
    <3> QED
      BY <1>2, <1>4, <2>1, <3>1 DEF Rep
  <2>2. CASE q # r
    <3>1. log'[q] = log[q] /\ state'[q] = state[q]
      BY <1>3, <2>2 DEF Typed
    <3> QED
      BY <1>1, <3>1 DEF Rep
  <2> QED
    BY <2>1, <2>2
<1> QED
  BY <1>5, <1>6

\* What an insertion of one event that follows makes of its replica.
LEMMA InsertOne ==
    ASSUME Typed, NEW r \in Replica, NEW e \in Signed,
           Log(Creator)!Follows(log[r], e), Insert(r, <<e>>)
    PROVE  Events(log'[r]) = Events(log[r]) \cup {e}
<1> DEFINE pool == sent \cup {e}
<1>1. pool \in SUBSET Signed /\ Rep(r) \in Reps(pool, {}) /\ <<e>> \in Seq(pool) /\ e \in pool
  BY DEF Typed, Reps, Rep
<1>2. Accepted(Rep(r), <<e>>)[Len(<<e>>)] = Accept(Rep(r), e)
  <2>1. Len(<<e>>) = 1 /\ <<e>>[1] = e /\ 1 \in 1 .. 1 /\ 1 - 1 = 0
    OBVIOUS
  <2> HIDE DEF pool
  <2>2. ASSUME NEW b \in Seq(pool), Len(b) = 1
        PROVE  Accepted(Rep(r), b)[1] = Accept(Rep(r), b[1])
    <3>1. /\ Accepted(Rep(r), b)[0] = Rep(r)
          /\ \A n \in 1 .. Len(b) : Accepted(Rep(r), b)[n] = Accept(Accepted(Rep(r), b)[n - 1], b[n])
      BY <1>1, AcceptedFacts
    <3> QED
      BY <2>1, <2>2, <3>1
  <2> QED
    BY <1>1, <2>1, <2>2
<1>3. Rep(r).log = log[r]
  BY DEF Rep
<1>4. Events(Accept(Rep(r), e).log) = Events(log[r]) \cup {e}
  BY <1>1, <1>3, AcceptStays, ZenonT(30)
<1>5. log' = [log EXCEPT ![r] = Accept(Rep(r), e).log]
  BY <1>2, Zenon DEF Insert, Rep
<1> QED
  BY <1>4, <1>5, ZenonT(30) DEF Typed

-----------------------------------------------------------------------------
(* Heads and answers.                                                      *)

LEMMA LatestFacts ==
    ASSUME Typed, NEW r \in Replica, NEW a \in Replica
    PROVE  /\ ChainOf(r, a) = ChainIn(Dag(r), a) /\ ChainOf(r, a) \subseteq Dag(r)
           /\ LatestSeq(r, a) \in Nat
           /\ \A e \in ChainOf(r, a) : e.seq \in 1 .. LatestSeq(r, a)
           /\ \A n \in 1 .. LatestSeq(r, a) : \E e \in ChainOf(r, a) : e.seq = n
<1>1. ChainOf(r, a) = ChainIn(Dag(r), a) /\ ChainOf(r, a) \subseteq Dag(r)
  BY DEF ChainOf, ChainIn
<1>2. IsFiniteSet(Dag(r)) /\ Dense(Dag(r))
  BY RepFacts
<1>3. LatestSeq(r, a) \in Nat
  BY <1>1, <1>2, FS_Subset, FS_CardinalityType DEF LatestSeq
<1> QED
  BY <1>1, <1>2, <1>3 DEF LatestSeq, Dense

LEMMA HeadFacts ==
    ASSUME Typed, NEW r \in Replica, NEW a \in Replica, ChainOf(r, a) # {}
    PROVE  \E e \in ChainOf(r, a) : e.seq = LatestSeq(r, a) /\ e.hash = HeadOf(r, a)
<1> DEFINE n == LatestSeq(r, a)  x == CHOOSE e \in ChainOf(r, a) : e.seq = n
<1>1. \E e \in ChainOf(r, a) : e.seq = n
  <2>1. PICK e \in ChainOf(r, a) : TRUE
    OBVIOUS
  <2>2. n \in 1 .. n
    BY <2>1, LatestFacts
  <2> QED
    BY <2>2, LatestFacts
<1>2. x \in ChainOf(r, a) /\ x.seq = n
  <2> HIDE DEF n
  <2> QED
    BY <1>1, Zenon
<1>3. HeadOf(r, a) = x.hash
  BY DEF HeadOf
<1> QED
  BY <1>2, <1>3, Zenon

LEMMA SinceFacts ==
    ASSUME Typed, NEW s \in Replica, NEW a \in Replica, NEW seq \in Nat
    PROVE  Since(s, a, seq) \in Seq(Dag(s))
<1> DEFINE last == LatestSeq(s, a)
           m == IF last <= seq THEN 0 ELSE last - seq
           c == [i \in 1 .. m |-> CHOOSE e \in ChainOf(s, a) : e.seq = seq + i]
<1>1. Since(s, a, seq) = c
  BY DEF Since
<1>2. last \in Nat /\ m \in Nat
  BY LatestFacts
<1>3. ASSUME NEW i \in 1 .. m PROVE c[i] \in Dag(s)
  <2>1. seq + i \in 1 .. last
    BY <1>2
  <2>2. \E e \in ChainOf(s, a) : e.seq = seq + i
    BY <2>1, LatestFacts
  <2>3. c[i] = CHOOSE e \in ChainOf(s, a) : e.seq = seq + i
    OBVIOUS
  <2>4. c[i] \in ChainOf(s, a)
    BY <2>2, <2>3, Zenon
  <2> QED
    BY <2>4, LatestFacts
<1>4. c \in [1 .. m -> Dag(s)]
  BY <1>3, Zenon
<1> HIDE DEF c, m
<1>5. c \in Seq(Dag(s))
  BY <1>2, <1>4
<1> QED
  BY <1>1, <1>5

LEMMA WalkFacts ==
    ASSUME Typed, NEW s \in Replica, NEW r \in Replica, NEW authors \in Seq(Replica)
    PROVE  /\ Walk(s, r, authors) \in [0 .. Len(authors) -> Seq(Dag(s))]
           /\ Walk(s, r, authors)[0] = <<>>
           /\ \A n \in 1 .. Len(authors) :
                 Walk(s, r, authors)[n] =
                    Walk(s, r, authors)[n - 1] \o Since(s, authors[n], LatestSeq(r, authors[n]))
<1> DEFINE S == Seq(Dag(s))
           l == Len(authors)
           c(n) == Since(s, authors[n], LatestSeq(r, authors[n]))
           step == [p \in S \X (1 .. l) |-> p[1] \o c(p[2])]
           g == Walk(s, r, authors)
           D(f) == f = [n \in 0 .. l |-> IF n = 0 THEN <<>> ELSE f[n - 1] \o c(n)]
<1>1. l \in Nat /\ \A i \in 1 .. l : authors[i] \in Replica
  OBVIOUS
<1>2. \A i \in 1 .. l : c(i) \in S
  BY <1>1, LatestFacts, SinceFacts, ZenonT(30)
<1> HIDE DEF c, l
<1>3. step \in [S \X (1 .. l) -> S] /\ <<>> \in S
  BY <1>2
<1>4. PICK f : f \in [0 .. l -> S] /\ IsFold(f, l, <<>>, step)
  <2> HIDE DEF S, step
  <2> QED
    BY <1>1, <1>3, FoldExists, ZenonT(30)
<1>5. D(f)
  <2> HIDE DEF S
  <2>1. ASSUME NEW n \in 0 .. l, n # 0 PROVE step[<<f[n - 1], n>>] = f[n - 1] \o c(n)
    <3>1. n - 1 \in 0 .. l /\ n \in 1 .. l
      BY <1>1, <2>1
    <3>2. <<f[n - 1], n>> \in S \X (1 .. l)
      BY <1>4, <3>1
    <3> QED
      BY <3>2, Zenon
  <2> HIDE DEF step
  <2>2. f = [n \in 0 .. l |-> IF n = 0 THEN <<>> ELSE step[<<f[n - 1], n>>]]
    BY <1>4, Zenon DEF IsFold
  <2> QED
    BY <2>1, <2>2, Zenon
<1>6. g = CHOOSE f_1 : D(f_1)
  BY Zenon DEF Walk, c, l
<1>7. D(g)
  <2> HIDE DEF D, g
  <2> QED
    BY <1>5, <1>6, Zenon
<1> HIDE DEF S, g, step
<1> DEFINE G == {n \in 0 .. l : g[n] \in S}
<1>8. 0 \in G
  BY <1>1, <1>3, <1>7
<1>9. ASSUME NEW n \in 1 .. l, n - 1 \in G PROVE n \in G
  <2>1. n \in 0 .. l /\ n # 0 /\ g[n - 1] \in S
    BY <1>1, <1>9
  <2>2. g[n] = g[n - 1] \o c(n)
    BY <1>7, <2>1, Zenon
  <2>3. g[n - 1] \o c(n) \in S
    BY <1>2, <2>1 DEF S
  <2> QED
    BY <2>1, <2>2, <2>3, ZenonT(30)
<1> HIDE DEF G
<1>10. \A n \in 0 .. l : n \in G
  BY <1>1, <1>8, <1>9, UpTo, ZenonT(30)
<1>11. g \in [0 .. l -> S]
  BY <1>7, <1>10 DEF G
<1>12. g[0] = <<>> /\ \A n \in 1 .. l : g[n] = g[n - 1] \o c(n)
  <2>1. 0 \in 0 .. l /\ \A n \in 1 .. l : n \in 0 .. l /\ n # 0
    BY <1>1
  <2> QED
    BY <1>7, <2>1, Zenon
<1> QED
  BY <1>11, <1>12, Zenon DEF S, g, l, c

LEMMA SinceBatch ==
    ASSUME Typed, NEW s \in Replica, NEW r \in Replica, NEW authors \in Orders
    PROVE  EventsSince(s, r, authors) \in Seq(Dag(s))
<1>1. Cardinality(Replica) \in Nat
  BY ReplicationAssumption, FS_CardinalityType
<1>2. authors \in Seq(Replica)
  BY <1>1 DEF Orders
<1> DEFINE all == Walk(s, r, authors)[Len(authors)]
<1>3. all \in Seq(Dag(s))
  <2>1. Len(authors) \in 0 .. Len(authors)
    BY <1>2
  <2>2. Walk(s, r, authors) \in [0 .. Len(authors) -> Seq(Dag(s))]
    BY <1>2, WalkFacts, Zenon
  <2> QED
    BY <2>1, <2>2
<1>4. EventsSince(s, r, authors) = SubSeq(all, 1, IF Len(all) < Limit THEN Len(all) ELSE Limit)
  BY DEF EventsSince
<1> HIDE DEF all
<1> QED
  BY <1>3, <1>4, ReplicationAssumption

-----------------------------------------------------------------------------
(* What is sent.                                                           *)

UniqueHashes(es) == \A e, f \in es : e.hash = f.hash => e = f

\* Of any events some have no parents among them.
Acyclic(es) == \A some \in SUBSET es : some # {} => Ready(some) # {}

IsGrant(g, a) == g.kind = "Grant" /\ g.peer = a

\* Events with the causal past of a message have the grant it relies on.
PastHasGrant(es) ==
    \A e \in es : e.kind = "Message" /\ e.author # Creator =>
        \A past \in SUBSET es : e \in past /\ Closed(past) => \E g \in past : IsGrant(g, e.author)

GoodSent(es) ==
    UniqueHashes(es) /\ Closed(es) /\ Acyclic(es) /\ GrantsByCreator(es) /\ PastHasGrant(es)

LEMMA NewIsLast ==
    ASSUME NEW es \in SUBSET Signed, GoodSent(es), NEW e \in Signed,
           \A f \in es : f.hash # e.hash,
           \A h \in Parents(e) : \E f \in es : f.hash = h,
           e.kind = "Grant" => e.author = Creator,
           e.kind = "Message" /\ e.author # Creator =>
              \A past \in SUBSET (es \cup {e}) :
                 e \in past /\ Closed(past) => \E g \in past : IsGrant(g, e.author)
    PROVE  GoodSent(es \cup {e})
<1>1. UniqueHashes(es) /\ Closed(es) /\ Acyclic(es) /\ GrantsByCreator(es) /\ PastHasGrant(es)
  BY DEF GoodSent
<1>2. \A f \in es \cup {e} : e.hash \notin Parents(f)
  BY <1>1 DEF Closed
<1>3. UniqueHashes(es \cup {e})
  BY <1>1 DEF UniqueHashes
<1>4. Closed(es \cup {e})
  BY <1>1 DEF Closed
<1>5. GrantsByCreator(es \cup {e})
  BY <1>1 DEF GrantsByCreator
<1>6. ASSUME NEW some \in SUBSET (es \cup {e}), some # {} PROVE Ready(some) # {}
  <2>1. CASE some \ {e} = {}
    <3>1. some = {e}
      BY <1>6, <2>1, ZenonT(30)
    <3> QED
      BY <1>2, <3>1 DEF Ready
  <2>2. CASE some \ {e} # {}
    <3>1. PICK f \in Ready(some \ {e}) : TRUE
      BY <1>1, <2>2, ZenonT(30) DEF Acyclic
    <3>2. f \in some /\ \A x \in some : x.hash \notin Parents(f)
      BY <1>2, <3>1 DEF Ready
    <3> QED
      BY <3>2 DEF Ready
  <2> QED
    BY <2>1, <2>2
<1>7. ASSUME NEW x \in es, x.kind = "Message", x.author # Creator,
             NEW past \in SUBSET (es \cup {e}), x \in past, Closed(past)
      PROVE  \E g \in past : IsGrant(g, x.author)
  <2>1. Closed(past \ {e})
    BY <1>2, <1>7 DEF Closed
  <2>2. x \in past \ {e} /\ past \ {e} \in SUBSET es
    BY <1>7
  <2>3. \E g \in past \ {e} : IsGrant(g, x.author)
    BY <1>1, <1>7, <2>1, <2>2, ZenonT(30) DEF PastHasGrant
  <2> QED
    BY <2>3
<1>8. PastHasGrant(es \cup {e})
  BY <1>7 DEF PastHasGrant
<1>9. Acyclic(es \cup {e})
  BY <1>6 DEF Acyclic
<1> QED
  BY <1>3, <1>4, <1>5, <1>8, <1>9, ZenonT(30) DEF GoodSent

\* Events with the past of one have the events before it on its chain.
LEMMA PastHasChain ==
    ASSUME NEW pool \in SUBSET Signed, UniqueHashes(pool),
           NEW es \in SUBSET pool, IsFiniteSet(es), Dense(es), Chained(es),
           NEW past \in SUBSET pool, Closed(past),
           NEW f \in es, f \in past, NEW g \in es, g.author = f.author, g.seq <= f.seq
    PROVE  g \in past
<1>1. f.author \in Replica /\ f.seq \in Nat /\ g.seq \in Nat
  BY SignedFacts
<1> DEFINE a == f.author  l == f.seq - g.seq  c == ChainIn(es, a)
           G == {n \in 0 .. l : \A x \in c : x.seq = f.seq - n => x \in past}
<1>2. /\ \A x \in c : x.seq \in 1 .. Cardinality(c)
      /\ \A n \in 1 .. Cardinality(c) : \E x \in c : x.seq = n
      /\ \A x, y \in c : x.seq = y.seq => x = y
  BY <1>1, Zenon DEF Dense
<1>3. f \in c /\ g \in c /\ l \in Nat /\ c \in SUBSET es
  BY <1>1 DEF ChainIn
<1>7. Cardinality(c) \in Nat
  BY <1>3, FS_Subset, FS_CardinalityType, ZenonT(30)
<1>4. 0 \in G
  BY <1>1, <1>2, <1>3, SMTT(30)
<1>5. ASSUME NEW n \in 1 .. l, n - 1 \in G PROVE n \in G
  <2> SUFFICES ASSUME NEW x \in c, x.seq = f.seq - n PROVE x \in past
    BY <1>3
  <2> HIDE DEF c
  <2>1. x.seq + 1 = f.seq - (n - 1) /\ x.seq + 1 \in 1 .. Cardinality(c) /\ x.seq \in Nat \ {0}
    <3>1. x.seq \in 1 .. Cardinality(c) /\ f.seq \in 1 .. Cardinality(c)
      BY <1>2, <1>3, Zenon
    <3> QED
      BY <1>1, <1>3, <1>7, <3>1, SMTT(30)
  <2>2. PICK y \in c : y.seq = x.seq + 1
    BY <1>2, <2>1
  <2>3. y \in past
    BY <1>5, <2>1, <2>2, Zenon
  <2>4. y \in es /\ x \in es /\ y.author = a /\ x.author = a
    BY DEF c, ChainIn
  <2>5. PICK z \in es : z.author = a /\ z.seq = y.seq - 1 /\ z.hash = y.prev
    BY <2>1, <2>2, <2>4, SMTT(30) DEF Chained
  <2>6. z = x
    <3>1. z \in c
      BY <2>5, Zenon DEF c, ChainIn
    <3> QED
      BY <1>2, <2>1, <2>2, <2>5, <3>1, SMTT(30)
  <2>7. y.prev \in Parents(y)
    BY <2>5, <2>6, <2>4, SignedFacts, ZenonT(30) DEF Parents, Zero
  <2>8. PICK w \in past : w.hash = y.prev
    BY <2>3, <2>7, ZenonT(30) DEF Closed
  <2> QED
    BY <2>4, <2>5, <2>6, <2>8, Zenon DEF UniqueHashes
<1> HIDE DEF G
<1>6. l \in G
  BY <1>3, <1>4, <1>5, UpTo, SMTT(30)
<1> QED
  BY <1>1, <1>3, <1>6, SMTT(30) DEF G

LEMMA HeadKnown ==
    ASSUME Typed, NEW r \in Replica, NEW a \in Replica, HeadOf(r, a) # Zero
    PROVE  \E f \in Dag(r) : f.author = a /\ f.hash = HeadOf(r, a)
<1>1. ChainOf(r, a) # {}
  BY DEF HeadOf
<1>2. PICK f \in ChainOf(r, a) : f.hash = HeadOf(r, a)
  BY <1>1, HeadFacts
<1> QED
  BY <1>2 DEF ChainOf

LEMMA HeadType ==
    ASSUME Typed, NEW r \in Replica, NEW a \in Replica
    PROVE  HeadOf(r, a) \in Nat
<1>1. CASE HeadOf(r, a) = Zero
  BY <1>1 DEF Zero
<1>2. CASE HeadOf(r, a) # Zero
  <2>1. PICK f \in Dag(r) : f.hash = HeadOf(r, a)
    BY <1>2, HeadKnown
  <2>2. f \in Signed
    BY RepFacts, Zenon DEF Typed
  <2> QED
    BY <2>1, <2>2, SignedFacts, Zenon
<1> QED
  BY <1>1, <1>2

LEMMA NewEventFollows ==
    ASSUME Typed, NEW r \in Replica, NEW h \in EventHash, NEW kind \in Kind \ {"CreateServer"},
           NEW peer \in Replica, log[r] # <<>>
    PROVE  /\ NewEvent(r, h, kind, peer) \in Signed
           /\ Log(Creator)!Follows(log[r], NewEvent(r, h, kind, peer))
           /\ \A p \in Parents(NewEvent(r, h, kind, peer)) : \E f \in Dag(r) : f.hash = p
<1> DEFINE e == NewEvent(r, h, kind, peer)
<1>1. LatestSeq(r, r) \in Nat
  BY LatestFacts
<1>2. CausalDeps(r) \in SUBSET Nat
  BY HeadType, ZenonT(30) DEF CausalDeps
<1>3. /\ e.hash = h /\ e.author = r /\ e.seq = LatestSeq(r, r) + 1 /\ e.prev = HeadOf(r, r)
      /\ e.deps = CausalDeps(r) /\ e.kind = kind /\ e.peer = peer
  BY DEF NewEvent
<1>4. e \in Signed
  <2>1. LatestSeq(r, r) + 1 \in Nat /\ HeadOf(r, r) \in Nat
    BY <1>1, HeadType, SMTT(30)
  <2> QED
    BY <1>2, <2>1 DEF NewEvent, Signed
<1> HIDE DEF e
<1>5. \A p \in Parents(e) : \E f \in Dag(r) : f.hash = p
  <2> SUFFICES ASSUME NEW p \in Parents(e) PROVE \E f \in Dag(r) : f.hash = p
    OBVIOUS
  <2>1. PICK a \in Replica : p = HeadOf(r, a) /\ p # Zero
    BY <1>3, ZenonT(30) DEF Parents, CausalDeps
  <2> QED
    BY <2>1, HeadKnown
<1>6. log[r] \in Seq(Signed)
  BY RepFacts
<1>7. DOMAIN log[r] = 1 .. Len(log[r])
  BY <1>6
<1>8. \A i \in 1 .. Len(log[r]) : log[r][i].author = r => log[r][i] \in ChainOf(r, r)
  BY <1>7 DEF ChainOf, Dag, Events
<1>9. \A i \in 1 .. Len(log[r]) : log[r][i].author = r => log[r][i].seq < LatestSeq(r, r) + 1
  BY <1>8, <1>1, LatestFacts, SMTT(30)
<1>10. \/ e.seq = 1 /\ e.prev = 0
       \/ \E i \in 1 .. Len(log[r]) :
             log[r][i].author = r /\ log[r][i].seq = e.seq - 1 /\ log[r][i].hash = e.prev
  <2>1. CASE ChainOf(r, r) = {}
    <3>1. LatestSeq(r, r) = 0
      BY <2>1, <1>1, LatestFacts
    <3>2. HeadOf(r, r) = 0
      BY <2>1 DEF HeadOf, Zero
    <3> QED
      BY <1>3, <3>1, <3>2
  <2>2. CASE ChainOf(r, r) # {}
    <3>1. PICK f \in ChainOf(r, r) : f.seq = LatestSeq(r, r) /\ f.hash = HeadOf(r, r)
      BY <2>2, HeadFacts
    <3>2. f \in Events(log[r]) /\ f.author = r
      BY <3>1 DEF ChainOf, Dag
    <3>3. PICK i \in 1 .. Len(log[r]) : log[r][i] = f
      BY <1>7, <3>2 DEF Events
    <3>4. e.seq - 1 = LatestSeq(r, r)
      BY <1>1, <1>3, SMTT(30)
    <3> QED
      BY <1>3, <3>1, <3>2, <3>3, <3>4, Zenon
  <2> QED
    BY <2>1, <2>2
<1>11. Log(Creator)!Follows(log[r], e)
  BY <1>3, <1>9, <1>10, ZenonT(30) DEF Log!Follows
<1> QED
  BY <1>4, <1>5, <1>11, Zenon DEF e

\* A permitted event of somebody else than the creator has its grant in its past.
LEMMA NewEventGranted ==
    ASSUME Typed, GoodSent(sent), NEW r \in Replica, r # Creator, NEW e \in Signed,
           e.deps = CausalDeps(r), \A f \in sent : f.hash # e.hash,
           r \in state[r].senders,
           NEW past \in SUBSET (sent \cup {e}), e \in past, Closed(past)
    PROVE  \E g \in past : IsGrant(g, r)
<1> DEFINE pool == sent \cup {e}
<1>1. pool \in SUBSET Signed /\ UniqueHashes(pool)
  BY Zenon DEF Typed, GoodSent, UniqueHashes
<1>2. /\ IsFiniteSet(Dag(r)) /\ Dag(r) \subseteq sent /\ Dense(Dag(r)) /\ Chained(Dag(r))
      /\ Granted(Dag(r), state[r].senders)
  BY RepFacts, Zenon DEF Dag
<1>3. PICK g \in Dag(r) : IsGrant(g, r)
  BY <1>2, ZenonT(30) DEF Granted, IsGrant
<1>4. g.author = Creator
  BY <1>2, <1>3 DEF GoodSent, GrantsByCreator, IsGrant
<1>5. Creator \in Replica
  BY ReplicationAssumption
<1>6. g \in ChainOf(r, Creator)
  BY <1>3, <1>4, ZenonT(30) DEF ChainOf
<1>7. PICK f \in ChainOf(r, Creator) : f.seq = LatestSeq(r, Creator) /\ f.hash = HeadOf(r, Creator)
  BY <1>5, <1>6, HeadFacts, ZenonT(30)
<1>8. f \in Dag(r) /\ f.author = Creator /\ f \in Signed
  BY <1>2, <1>7, ZenonT(30) DEF ChainOf, Typed
<1>9. f.hash \in Parents(e)
  BY <1>5, <1>7, <1>8, SignedFacts, ZenonT(30) DEF Parents, CausalDeps, Zero
<1>10. f \in past
  <2>1. PICK w \in past : w.hash = f.hash
    BY <1>9, Zenon DEF Closed
  <2> QED
    BY <1>1, <1>2, <1>8, <2>1, ZenonT(30) DEF UniqueHashes
<1>11. g.seq <= f.seq
  <2>1. g.seq \in 1 .. LatestSeq(r, Creator) /\ LatestSeq(r, Creator) \in Nat
    BY <1>5, <1>6, LatestFacts, ZenonT(30)
  <2> QED
    BY <1>7, <2>1, SMTT(30)
<1>12. Dag(r) \in SUBSET pool
  BY <1>2
<1> HIDE DEF pool
<1>13. past \in SUBSET pool
  BY Zenon DEF pool
<1>14. g \in past
  BY <1>1, <1>2, <1>3, <1>4, <1>8, <1>10, <1>11, <1>12, <1>13, PastHasChain, SMTT(30)
<1> QED
  BY <1>3, <1>14, ZenonT(30)

-----------------------------------------------------------------------------
(* The inductive invariant.                                                *)

\* Without a reload an author holds all its events.
AuthorsHoldTheirs == reloads = 0 => \A e \in sent : e \in Events(log[e.author])

ReplicasInv == Typed /\ GoodSent(sent) /\ AuthorsHoldTheirs

\* What Create makes of the invariant.
LEMMA CreateKeeps ==
    ASSUME ReplicasInv, NEW r \in Replica, NEW h \in EventHash,
           NEW kind \in Kind \ {"CreateServer"}, NEW peer \in Replica, Create(r, h, kind, peer)
    PROVE  ReplicasInv'
<1> DEFINE e == NewEvent(r, h, kind, peer)
<1>1. /\ log[r] # <<>> /\ Permitted(state[r], e) /\ \A f \in sent : f.hash # h
      /\ Insert(r, <<e>>) /\ sent' = sent \cup {e} /\ reloads' = reloads
  BY DEF Create
<1>2. Typed /\ GoodSent(sent) /\ AuthorsHoldTheirs
  BY Zenon DEF ReplicasInv
<1>3. /\ e \in Signed /\ Log(Creator)!Follows(log[r], e)
      /\ \A p \in Parents(e) : \E f \in Dag(r) : f.hash = p
  BY <1>1, <1>2, NewEventFollows, SMTT(30)
<1>4. e.hash = h /\ e.author = r /\ e.kind = kind /\ e.deps = CausalDeps(r)
  BY Zenon DEF NewEvent
<1> HIDE DEF e
<1>5. GoodSent(sent')
  <2>1. \A p \in Parents(e) : \E f \in sent : f.hash = p
    BY <1>2, <1>3, RepFacts, Zenon
  <2>2. e.kind = "Grant" => e.author = Creator
    BY <1>1, <1>4, ZenonT(30) DEF Permitted
  <2>3. ASSUME e.kind = "Message", e.author # Creator,
               NEW past \in SUBSET (sent \cup {e}), e \in past, Closed(past)
        PROVE  \E g \in past : IsGrant(g, e.author)
    <3>1. r \in state[r].senders
      BY <1>1, <1>4, <2>3, ZenonT(30) DEF Permitted
    <3> QED
      BY <1>1, <1>2, <1>3, <1>4, <2>3, <3>1, NewEventGranted, ZenonT(30)
  <2>4. sent \in SUBSET Signed /\ \A f \in sent : f.hash # e.hash
    BY <1>1, <1>2, <1>4, ZenonT(30) DEF Typed
  <2> QED
    BY <1>1, <1>2, <1>3, <2>1, <2>2, <2>3, <2>4, NewIsLast, Zenon
<1>6. sent' \in SUBSET Signed /\ sent \subseteq sent' /\ <<e>> \in Seq(sent')
  BY <1>1, <1>2, <1>3, SMTT(30) DEF Typed
<1>7. /\ log' \in [Replica -> Seq(Signed)] /\ state' \in [Replica -> States]
      /\ \A q \in Replica : Rep(q)' \in Reps(sent', Events(log[q]))
  BY <1>1, <1>2, <1>6, InsertFacts, Zenon
<1>8. Typed'
  BY <1>1, <1>2, <1>6, <1>7, SMTT(30) DEF Typed, Reps
<1>9. AuthorsHoldTheirs'
  <2>1. \A q \in Replica : Events(log[q]) \subseteq Events(log'[q])
    BY <1>7, Zenon DEF Reps, Rep
  <2>2. e \in Events(log'[r])
    BY <1>1, <1>2, <1>3, InsertOne, SMTT(30)
  <2>3. \A f \in sent : f.author \in Replica
    BY <1>2, SignedFacts DEF Typed
  <2> QED
    BY <1>1, <1>2, <1>4, <2>1, <2>2, <2>3, SMTT(30) DEF AuthorsHoldTheirs
<1> QED
  BY <1>5, <1>8, <1>9, Zenon DEF ReplicasInv

\* What insertions of events already sent make of it.
LEMMA InsertKeeps ==
    ASSUME ReplicasInv, NEW r \in Replica, NEW batch \in Seq(sent), Insert(r, batch),
           UNCHANGED <<sent, reloads>>
    PROVE  ReplicasInv'
<1>1. Typed /\ GoodSent(sent) /\ AuthorsHoldTheirs /\ sent \in SUBSET Signed
  BY DEF ReplicasInv, Typed
<1>2. /\ log' \in [Replica -> Seq(Signed)] /\ state' \in [Replica -> States]
      /\ \A q \in Replica : Rep(q)' \in Reps(sent, Events(log[q]))
  BY <1>1, InsertFacts
<1>3. Typed'
  BY <1>1, <1>2, Zenon DEF Typed, Reps
<1>4. AuthorsHoldTheirs'
  <2>1. \A q \in Replica : Events(log[q]) \subseteq Events(log'[q])
    BY <1>2, Zenon DEF Reps, Rep
  <2>2. \A f \in sent : f.author \in Replica
    BY <1>1, SignedFacts
  <2> QED
    BY <1>1, <2>1, <2>2, ZenonT(30) DEF AuthorsHoldTheirs
<1> QED
  BY <1>1, <1>3, <1>4 DEF ReplicasInv

LEMMA EmptyLog ==
    GoodLog(<<>>) /\ Events(<<>>) = {} /\ NewState \in States /\ NewState.senders = {}
<1>1. Events(<<>>) = {}
  BY DEF Events
<1>2. IsFiniteSet({}) /\ Cardinality({}) = 0
  BY FS_EmptySet
<1>3. \A a : ChainIn({}, a) = {}
  BY DEF ChainIn
<1>4. Dense({})
  BY <1>2, <1>3 DEF Dense
<1>5. <<>> \in Seq(Signed) /\ Len(<<>>) = 0
  OBVIOUS
<1>6. Chained({})
  BY DEF Chained
<1> QED
  BY <1>1, <1>2, <1>4, <1>5, <1>6, ZenonT(30) DEF GoodLog, Founded, NewState, States

LEMMA GenesisFacts ==
    /\ GenesisEvent \in Signed /\ Parents(GenesisEvent) = {}
    /\ GoodLog(<<GenesisEvent>>) /\ Events(<<GenesisEvent>>) = {GenesisEvent}
<1>1. GenesisEvent \in Signed
  BY ReplicationAssumption, ZenonT(30) DEF GenesisEvent, Signed, Kind, Zero
<1>2. Log(Creator)!Follows(<<>>, GenesisEvent)
  BY DEF Log!Follows, GenesisEvent, Zero
<1>3. \A x : <<x>> = Append(<<>>, x)
  OBVIOUS
<1>4. /\ GoodLog(Append(<<>>, GenesisEvent))
      /\ Events(Append(<<>>, GenesisEvent)) = {} \cup {GenesisEvent}
  <2> HIDE DEF GenesisEvent
  <2>1. ASSUME NEW l, GoodLog(l), Log(Creator)!Follows(l, GenesisEvent)
        PROVE  GoodLog(Append(l, GenesisEvent)) /\ Events(Append(l, GenesisEvent)) = Events(l) \cup {GenesisEvent}
    BY <1>1, <2>1, GoodAppend, ZenonT(30)
  <2> QED
    BY <1>2, <2>1, EmptyLog, ZenonT(30)
<1>5. Parents(GenesisEvent) = {}
  BY DEF Parents, GenesisEvent, Zero
<1>6. GoodLog(<<GenesisEvent>>) /\ Events(<<GenesisEvent>>) = {} \cup {GenesisEvent}
  BY <1>3, <1>4, ZenonT(30)
<1> QED
  BY <1>1, <1>5, <1>6, ZenonT(30)

LEMMA FreshRep ==
    ASSUME NEW l, GoodLog(l), NEW pool, Events(l) \subseteq pool
    PROVE  [log |-> l, state |-> NewState] \in Reps(pool, {})
<1>1. l \in Seq(Signed)
  BY DEF GoodLog
<1>2. Granted(Events(l), NewState.senders) /\ NewState \in States
  BY EmptyLog DEF Granted
<1> HIDE DEF NewState
<1> QED
  BY <1>1, <1>2 DEF Reps

LEMMA ReplicasInit == ReplicationInit => ReplicasInv
<1> SUFFICES ASSUME ReplicationInit PROVE ReplicasInv
  OBVIOUS
<1> DEFINE g == GenesisEvent
<1>1. /\ log = [r \in Replica |-> IF r = Creator THEN <<g>> ELSE <<>>]
      /\ state = [r \in Replica |-> NewState] /\ sent = {g} /\ reloads = 0
  BY DEF ReplicationInit
<1>2. g \in Signed /\ Parents(g) = {} /\ GoodLog(<<g>>) /\ Events(<<g>>) = {g}
  BY GenesisFacts
<1>3. g.author = Creator /\ g.kind = "CreateServer" /\ Creator \in Replica
  BY ReplicationAssumption DEF GenesisEvent
<1> HIDE DEF g
<1>4. ASSUME NEW r \in Replica PROVE Rep(r) \in Reps(sent, {}) /\ log[r] \in Seq(Signed)
  <2>1. Rep(r) = [log |-> IF r = Creator THEN <<g>> ELSE <<>>, state |-> NewState]
    BY <1>1 DEF Rep
  <2>2. <<g>> \in Seq(Signed) /\ <<>> \in Seq(Signed)
    BY <1>2
  <2>3. [log |-> <<g>>, state |-> NewState] \in Reps(sent, {})
    BY <1>1, <1>2, FreshRep
  <2>6. GoodLog(<<>>) /\ Events(<<>>) \subseteq sent
    BY EmptyLog
  <2>7. [log |-> <<>>, state |-> NewState] \in Reps(sent, {})
    BY <2>6, FreshRep
  <2>4. CASE r = Creator
    BY <1>1, <2>1, <2>2, <2>3, <2>4, ZenonT(30)
  <2>5. CASE r # Creator
    BY <1>1, <2>1, <2>2, <2>5, <2>7, ZenonT(30)
  <2> QED
    BY <2>4, <2>5
<1>5. Typed
  BY <1>1, <1>2, <1>4, EmptyLog, ZenonT(30) DEF Typed
<1>6. GoodSent(sent)
  <2>1. UniqueHashes({g}) /\ Closed({g}) /\ GrantsByCreator({g}) /\ PastHasGrant({g})
    BY <1>2, <1>3 DEF UniqueHashes, Closed, GrantsByCreator, PastHasGrant
  <2>2. Acyclic({g})
    <3> SUFFICES ASSUME NEW some \in SUBSET {g}, some # {} PROVE Ready(some) # {}
      BY DEF Acyclic
    <3>1. g \in some
      OBVIOUS
    <3> QED
      BY <1>2, <3>1 DEF Ready
  <2> QED
    BY <1>1, <2>1, <2>2, SMTT(30) DEF GoodSent
<1>7. AuthorsHoldTheirs
  BY <1>1, <1>2, <1>3, ZenonT(30) DEF AuthorsHoldTheirs
<1> QED
  BY <1>5, <1>6, <1>7 DEF ReplicasInv

LEMMA ReplicasStep == ReplicasInv /\ [ReplicationNext]_replicationVars => ReplicasInv'
<1> SUFFICES ASSUME ReplicasInv, [ReplicationNext]_replicationVars PROVE ReplicasInv'
  OBVIOUS
<1>1. Typed /\ GoodSent(sent) /\ AuthorsHoldTheirs
  BY DEF ReplicasInv
<1>2. ASSUME NEW r \in Replica, NEW h \in EventHash, Create(r, h, "Message", r) PROVE ReplicasInv'
  BY <1>2, CreateKeeps DEF Kind
<1>3. ASSUME NEW r \in Replica, NEW peer \in Replica \ {Creator}, NEW h \in EventHash,
             NEW kind \in {"Grant", "Revoke"}, Create(r, h, kind, peer)
      PROVE  ReplicasInv'
  <2>1. kind \in Kind \ {"CreateServer"} /\ peer \in Replica
    BY DEF Kind
  <2> QED
    BY <1>3, <2>1, CreateKeeps
<1>4. ASSUME NEW r \in Replica, NEW e \in sent, Deliver(r, e) PROVE ReplicasInv'
  <2>1. <<e>> \in Seq(sent)
    OBVIOUS
  <2> QED
    BY <1>4, <2>1, InsertKeeps, ZenonT(30) DEF Deliver
<1>5. ASSUME NEW r \in Replica, NEW s \in Replica, Sync(r, s) PROVE ReplicasInv'
  <2>1. PICK authors \in Orders : Insert(r, EventsSince(s, r, authors))
    BY <1>5, SMTT(30) DEF Sync
  <2>2. EventsSince(s, r, authors) \in Seq(Dag(s)) /\ Dag(s) \subseteq sent
    BY <1>1, SinceBatch, RepFacts
  <2>3. EventsSince(s, r, authors) \in Seq(sent)
    BY <2>2
  <2> QED
    BY <1>5, <2>1, <2>3, InsertKeeps, SMTT(30) DEF Sync
<1>6. ASSUME NEW r \in Replica, Restart(r) PROVE ReplicasInv'
  <2>1. /\ reloads' = reloads + 1 /\ log' = [log EXCEPT ![r] = <<>>]
        /\ state' = [state EXCEPT ![r] = NewState] /\ sent' = sent
    BY <1>6 DEF Restart
  <2>2. ASSUME NEW q \in Replica PROVE Rep(q)' \in Reps(sent, {})
    <3>1. CASE q = r
      <4>1. Rep(q)' = [log |-> <<>>, state |-> NewState]
        BY <1>1, <2>1, <3>1, ZenonT(30) DEF Rep, Typed
      <4>2. GoodLog(<<>>) /\ Events(<<>>) \subseteq sent
        BY EmptyLog
      <4> QED
        BY <4>1, <4>2, FreshRep, ZenonT(30)
    <3>2. CASE q # r
      BY <1>1, <2>1, <3>2, ZenonT(30) DEF Rep, Typed
    <3> QED
      BY <3>1, <3>2
  <2>3. Typed'
    BY <1>1, <2>1, <2>2, EmptyLog, SMTT(30) DEF Typed
  <2>4. AuthorsHoldTheirs'
    BY <1>1, <2>1, SMTT(30) DEF AuthorsHoldTheirs, Typed
  <2> QED
    BY <1>1, <2>1, <2>3, <2>4, ZenonT(30) DEF ReplicasInv
<1>7. CASE UNCHANGED replicationVars
  BY <1>7 DEF ReplicasInv, Typed, AuthorsHoldTheirs, Rep, replicationVars
<1> QED
  BY <1>2, <1>3, <1>4, <1>5, <1>6, <1>7, ZenonT(30) DEF ReplicationNext

LEMMA ReplicasAlways == ReplicationSpec => []ReplicasInv
BY ReplicasInit, ReplicasStep, PTL DEF ReplicationSpec

LEMMA NoForkUnreloaded == ReplicasInv => OnlyRestartsFork
<1> SUFFICES ASSUME ReplicasInv, reloads = 0, NEW e \in sent, NEW f \in sent,
                    e.author = f.author, e.seq = f.seq
             PROVE  e = f
  BY ZenonT(30) DEF OnlyRestartsFork, AuthorsNeverFork
<1>1. Typed /\ AuthorsHoldTheirs /\ e.author \in Replica
  BY SignedFacts DEF ReplicasInv, Typed
<1>2. e \in ChainIn(Dag(e.author), e.author) /\ f \in ChainIn(Dag(e.author), e.author)
  BY <1>1 DEF AuthorsHoldTheirs, Dag, ChainIn
<1> QED
  BY <1>1, <1>2, RepFacts DEF Dense

\* No author signs two events with one number as long as no replica was lost: whatever
\* is lost, repeated or reordered, ManagedDag::create_and_insert only forks a chain after
\* a restart.
THEOREM NobodyForksUnrestarted == ReplicationSpec => []OnlyRestartsFork
BY ReplicasAlways, NoForkUnreloaded, PTL

-----------------------------------------------------------------------------
(* Answers.                                                                *)

\* One event created the server.
OneGenesis == \A e \in sent : e.kind = "CreateServer" => e = GenesisEvent

LEMMA GenesisInit == ReplicationInit => OneGenesis
BY DEF ReplicationInit, OneGenesis

LEMMA GenesisStep == OneGenesis /\ [ReplicationNext]_replicationVars => OneGenesis'
<1> SUFFICES ASSUME OneGenesis, [ReplicationNext]_replicationVars PROVE OneGenesis'
  OBVIOUS
<1>1. ASSUME NEW r, NEW h, NEW kind, kind # "CreateServer", NEW peer, Create(r, h, kind, peer)
      PROVE  OneGenesis'
  <2>1. sent' = sent \cup {NewEvent(r, h, kind, peer)}
    BY <1>1 DEF Create
  <2>2. NewEvent(r, h, kind, peer).kind = kind
    BY DEF NewEvent
  <2> QED
    BY <1>1, <2>1, <2>2, Zenon DEF OneGenesis
<1>2. ASSUME UNCHANGED sent PROVE OneGenesis'
  BY <1>2, Zenon DEF OneGenesis
<1>3. ASSUME NEW r \in Replica, NEW e \in sent, Deliver(r, e) PROVE UNCHANGED sent
  BY <1>3 DEF Deliver
<1>4. ASSUME NEW r \in Replica, NEW s \in Replica, Sync(r, s) PROVE UNCHANGED sent
  BY <1>4 DEF Sync
<1>5. ASSUME NEW r \in Replica, Restart(r) PROVE UNCHANGED sent
  BY <1>5 DEF Restart
<1>6. ASSUME UNCHANGED replicationVars PROVE UNCHANGED sent
  BY <1>6 DEF replicationVars
<1>7. ASSUME NEW kind \in {"Grant", "Revoke"} PROVE kind # "CreateServer"
  OBVIOUS
<1>8. "Message" # "CreateServer"
  OBVIOUS
<1> QED
  BY <1>1, <1>2, <1>3, <1>4, <1>5, <1>6, <1>7, <1>8, ZenonT(60) DEF ReplicationNext

\* Every author is asked for.
LEMMA OrdersAreOnto ==
    ASSUME NEW authors \in Orders
    PROVE  /\ authors \in Seq(Replica) /\ Len(authors) = Cardinality(Replica)
           /\ \A a \in Replica : \E n \in 1 .. Len(authors) : authors[n] = a
<1> DEFINE c == Cardinality(Replica)
<1>1. IsFiniteSet(Replica) /\ c \in Nat
  BY ReplicationAssumption, FS_CardinalityType
<1>2. authors \in [1 .. c -> Replica] /\ \A i, j \in 1 .. c : authors[i] = authors[j] => i = j
  BY DEF Orders
<1> HIDE DEF c
<1>3. authors \in Seq(Replica) /\ Len(authors) = c
  BY <1>1, <1>2
<1>4. authors \in Injection(1 .. c, Replica)
  BY <1>2, Zenon DEF Injection, IsInjective
<1>5. Cardinality(1 .. c) = c
  BY <1>1, FS_Interval
<1>6. authors \in Surjection(1 .. c, Replica)
  BY <1>1, <1>4, <1>5, FS_Injection, Zenon DEF c
<1> QED
  BY <1>3, <1>6, Zenon DEF Surjection, c

\* The events of s that come next in the chains of r.
NextFor(r, s) == {e \in Dag(s) : e.seq = LatestSeq(r, e.author) + 1}

\* The events of a chain from a number on, if there are any, start with the next.
LEMMA SinceStarts ==
    ASSUME Typed, NEW s \in Replica, NEW a \in Replica, NEW seq \in Nat
    PROVE  /\ Since(s, a, seq) # <<>> <=> LatestSeq(s, a) > seq
           /\ Since(s, a, seq) # <<>> =>
                 Since(s, a, seq)[1] \in ChainOf(s, a) /\ Since(s, a, seq)[1].seq = seq + 1
<1> DEFINE last == LatestSeq(s, a)
           m == IF last <= seq THEN 0 ELSE last - seq
           c == [i \in 1 .. m |-> CHOOSE e \in ChainOf(s, a) : e.seq = seq + i]
<1>1. Since(s, a, seq) = c
  BY DEF Since
<1>2. last \in Nat /\ m \in Nat /\ (m > 0 <=> last > seq)
  BY LatestFacts
<1>3. c # <<>> <=> m > 0
  <2> DEFINE T == {c[i] : i \in 1 .. m}
  <2>1. c \in [1 .. m -> T]
    BY Zenon
  <2> HIDE DEF c, m, T
  <2>2. Len(c) = m /\ c \in Seq(T)
    BY <1>2, <2>1
  <2>3. \A S : \A x \in Seq(S) : x = <<>> <=> Len(x) = 0
    OBVIOUS
  <2> QED
    BY <1>2, <2>2, <2>3
<1>4. ASSUME m > 0 PROVE c[1] \in ChainOf(s, a) /\ c[1].seq = seq + 1
  <2>1. seq + 1 \in 1 .. last /\ 1 \in 1 .. m
    BY <1>2, <1>4, SMTT(30)
  <2>2. \E e \in ChainOf(s, a) : e.seq = seq + 1
    BY <2>1, LatestFacts
  <2>3. c[1] = CHOOSE e \in ChainOf(s, a) : e.seq = seq + 1
    BY <2>1
  <2> HIDE DEF c
  <2> QED
    BY <2>2, <2>3, Zenon
<1> HIDE DEF c, m, last
<1> QED
  BY <1>1, <1>2, <1>3, <1>4, Zenon DEF last

\* Without forks, what r lacks of s starts after the end of a chain of r.
LEMMA LackStarts ==
    ASSUME Typed, AuthorsNeverFork, NEW r \in Replica, NEW s \in Replica,
           NEW e \in Dag(s), e \notin Dag(r)
    PROVE  e.author \in Replica /\ LatestSeq(s, e.author) > LatestSeq(r, e.author)
<1> DEFINE a == e.author
<1>1. Dag(s) \subseteq sent /\ Dag(r) \subseteq sent /\ sent \in SUBSET Signed
  BY RepFacts DEF Typed
<1>2. a \in Replica
  BY <1>1, SignedFacts
<1>3. e \in ChainOf(s, a)
  BY DEF ChainOf
<1>4. e.seq \in 1 .. LatestSeq(s, a) /\ LatestSeq(s, a) \in Nat /\ LatestSeq(r, a) \in Nat
  BY <1>2, <1>3, LatestFacts, SMTT(30)
<1>5. e.seq \notin 1 .. LatestSeq(r, a)
  <2> SUFFICES ASSUME e.seq \in 1 .. LatestSeq(r, a) PROVE FALSE
    OBVIOUS
  <2>1. PICK f \in ChainOf(r, a) : f.seq = e.seq
    BY <1>2, LatestFacts
  <2>2. f \in Dag(r) /\ f.author = e.author
    BY DEF ChainOf
  <2> QED
    BY <1>1, <2>1, <2>2, Zenon DEF AuthorsNeverFork
<1> QED
  BY <1>2, <1>4, <1>5, SMTT(30)

\* An answer starts with an event that comes next, and is empty only if no author
\* asked for has more.
LEMMA WalkStarts ==
    ASSUME Typed, NEW s \in Replica, NEW r \in Replica, NEW authors \in Seq(Replica)
    PROVE  \A n \in 0 .. Len(authors) :
              /\ Walk(s, r, authors)[n] # <<>> => Walk(s, r, authors)[n][1] \in NextFor(r, s)
              /\ \A k \in 1 .. n : LatestSeq(s, authors[k]) > LatestSeq(r, authors[k]) =>
                    Walk(s, r, authors)[n] # <<>>
              /\ n > 0 /\ LatestSeq(s, authors[1]) > LatestSeq(r, authors[1]) =>
                    Walk(s, r, authors)[n][1].author = authors[1]
<1> DEFINE l == Len(authors)
           w == Walk(s, r, authors)
           c(n) == Since(s, authors[n], LatestSeq(r, authors[n]))
           more(n) == LatestSeq(s, authors[n]) > LatestSeq(r, authors[n])
           P(n) == /\ w[n] # <<>> => w[n][1] \in NextFor(r, s)
                   /\ \A k \in 1 .. n : more(k) => w[n] # <<>>
                   /\ n > 0 /\ more(1) => w[n][1].author = authors[1]
           G == {n \in 0 .. l : P(n)}
<1>1. l \in Nat /\ \A n \in 1 .. l : authors[n] \in Replica
  OBVIOUS
<1>2. /\ w \in [0 .. l -> Seq(Dag(s))] /\ w[0] = <<>>
      /\ \A n \in 1 .. l : w[n] = w[n - 1] \o c(n)
  BY WalkFacts, Zenon
<1>3. ASSUME NEW n \in 1 .. l
      PROVE  /\ c(n) \in Seq(Dag(s)) /\ (c(n) # <<>> <=> more(n))
             /\ c(n) # <<>> => c(n)[1] \in NextFor(r, s) /\ c(n)[1].author = authors[n]
  <2>1. authors[n] \in Replica /\ LatestSeq(r, authors[n]) \in Nat
    BY <1>1, LatestFacts, Zenon
  <2>2. /\ c(n) # <<>> <=> more(n)
        /\ c(n) # <<>> => /\ c(n)[1] \in ChainOf(s, authors[n])
                          /\ c(n)[1].seq = LatestSeq(r, authors[n]) + 1
    BY <2>1, SinceStarts
  <2>3. c(n) \in Seq(Dag(s))
    BY <2>1, SinceFacts, Zenon
  <2> HIDE DEF c, more
  <2> QED
    BY <2>2, <2>3, Zenon DEF ChainOf, NextFor
<1>4. 0 \in G
  BY <1>1, <1>2
<1>5. ASSUME NEW n \in 1 .. l, n - 1 \in G PROVE n \in G
  <2> HIDE DEF w, c, more, l
  <2>0. n \in 0 .. l /\ n - 1 \in 0 .. l /\ n > 0
    BY <1>1
  <2>9. P(n - 1)
    BY <1>5, Zenon
  <2>1. /\ n \in 0 .. l /\ n - 1 \in 0 .. l /\ w[n - 1] \in Seq(Dag(s))
        /\ c(n) \in Seq(Dag(s)) /\ P(n - 1) /\ w[n] = w[n - 1] \o c(n) /\ n > 0
    BY <1>2, <1>3, <2>0, <2>9, ZenonT(30)
  <2>2. ASSUME w[n - 1] # <<>> PROVE w[n] # <<>> /\ w[n][1] = w[n - 1][1]
    BY <2>1, <2>2, SMTT(30)
  <2>3. ASSUME w[n - 1] = <<>> PROVE w[n] = c(n)
    BY <2>1, <2>3, SMTT(30)
  <2>4. w[n] # <<>> => w[n][1] \in NextFor(r, s)
    BY <1>3, <2>1, <2>2, <2>3, SMTT(30)
  <2>5. \A k \in 1 .. n : k = n \/ k \in 1 .. n - 1
    OBVIOUS
  <2>6. ASSUME NEW k \in 1 .. n, more(k) PROVE w[n] # <<>>
    <3>1. CASE k = n
      BY <1>3, <2>2, <2>3, <2>6, <3>1, ZenonT(30)
    <3>2. CASE k \in 1 .. n - 1
      BY <2>1, <2>2, <2>6, <3>2, Zenon
    <3> QED
      BY <2>5, <3>1, <3>2, SMTT(30)
  <2>7. ASSUME more(1) PROVE w[n][1].author = authors[1]
    <3>1. CASE n = 1
      BY <1>2, <1>3, <2>3, <2>7, <3>1, SMTT(30)
    <3>2. CASE n # 1
      <4>1. n - 1 > 0 /\ 1 \in 1 .. n - 1
        BY <3>2
      <4> QED
        BY <2>1, <2>2, <2>7, <4>1, Zenon
    <3> QED
      BY <3>1, <3>2
  <2> QED
    BY <2>1, <2>4, <2>6, <2>7, Zenon
<1> HIDE DEF G
<1>6. \A n \in 0 .. l : n \in G
  BY <1>1, <1>4, <1>5, UpTo, ZenonT(30)
<1> QED
  BY <1>6, Zenon DEF G

\* A replica that has the server's creation accepts what comes next in its chains.
LEMMA NextFollows ==
    ASSUME Typed, OneGenesis, AuthorsNeverFork, NEW r \in Replica, NEW s \in Replica,
           NEW e \in NextFor(r, s), log[r] # <<>> \/ e = GenesisEvent
    PROVE  Log(Creator)!Follows(log[r], e) /\ e \notin Dag(r)
<1> DEFINE a == e.author
<1>1. /\ e \in Dag(s) /\ e.seq = LatestSeq(r, a) + 1
      /\ Dag(s) \subseteq sent /\ Dag(r) \subseteq sent /\ sent \in SUBSET Signed
  BY RepFacts, SMTT(30) DEF Typed, NextFor
<1>2. a \in Replica /\ LatestSeq(r, a) \in Nat
  BY <1>1, SignedFacts, LatestFacts, SMTT(30)
<1>3. log[r] \in Seq(Signed) /\ Founded(log[r]) /\ Chained(Dag(s))
  BY RepFacts DEF GoodLog
<1>4. \A f \in Dag(r) : f.author = a => f.seq \in 1 .. LatestSeq(r, a)
  BY <1>2, LatestFacts DEF ChainOf
<1>5. \A f \in Dag(r) : f.author = a => f.seq < e.seq
  BY <1>1, <1>2, <1>4, SMTT(30)
<1>6. \A i \in 1 .. Len(log[r]) : log[r][i] \in Dag(r)
  BY <1>3 DEF Dag, Events
<1>7. \A f \in Dag(r) : \E i \in 1 .. Len(log[r]) : f = log[r][i]
  BY <1>3 DEF Dag, Events
<1>8. e.kind = "CreateServer" <=> log[r] = <<>>
  <2>1. CASE log[r] = <<>>
    BY <2>1 DEF GenesisEvent
  <2>2. CASE log[r] # <<>>
    <3>1. PICK g \in Dag(r) : g.kind = "CreateServer"
      BY <1>3, <2>2 DEF Founded, Dag
    <3>2. g = GenesisEvent
      BY <1>1, <3>1 DEF OneGenesis
    <3>3. e # GenesisEvent
      BY <1>1, <1>2, <1>5, <3>1, <3>2, SMTT(30)
    <3> QED
      BY <1>1, <2>2, <3>3, SMTT(30) DEF OneGenesis
  <2> QED
    BY <2>1, <2>2, SMTT(30)
<1>9. \/ e.seq = 1 /\ e.prev = 0
      \/ \E f \in Dag(r) : f.author = a /\ f.seq = e.seq - 1 /\ f.hash = e.prev
  <2>1. CASE e.seq = 1 /\ e.prev = 0
    BY <2>1, SMTT(30)
  <2>2. CASE \E f \in Dag(s) : f.author = a /\ f.seq = e.seq - 1 /\ f.hash = e.prev
    <3>1. PICK f \in Dag(s) : f.author = a /\ f.seq = e.seq - 1 /\ f.hash = e.prev
      BY <2>2
    <3>2. f \in ChainOf(s, a)
      BY <3>1 DEF ChainOf
    <3>3. f.seq \in 1 .. LatestSeq(r, a)
      <4>1. f.seq \in 1 .. LatestSeq(s, a) /\ LatestSeq(s, a) \in Nat
        BY <1>2, <3>2, LatestFacts, SMTT(30)
      <4> QED
        BY <1>1, <1>2, <3>1, <4>1, SMTT(30)
    <3>4. PICK g \in ChainOf(r, a) : g.seq = f.seq
      BY <1>2, <3>3, LatestFacts, SMTT(30)
    <3>5. g \in Dag(r) /\ g.author = a
      BY DEF ChainOf
    <3>6. g = f
      BY <1>1, <3>1, <3>4, <3>5, ZenonT(30) DEF AuthorsNeverFork
    <3> QED
      BY <3>1, <3>5, <3>6, SMTT(30)
  <2> QED
    BY <1>1, <1>3, <2>1, <2>2, SMTT(30) DEF Chained
<1>10. e \notin Dag(r)
  BY <1>1, <1>2, <1>5, SMTT(30)
<1>11. Log(Creator)!Follows(log[r], e)
  <2>1. \A i \in 1 .. Len(log[r]) : log[r][i].author = e.author => log[r][i].seq < e.seq
    BY <1>5, <1>6
  <2>2. \/ e.seq = 1 /\ e.prev = 0
        \/ \E i \in 1 .. Len(log[r]) :
             log[r][i].author = e.author /\ log[r][i].seq = e.seq - 1 /\ log[r][i].hash = e.prev
    BY <1>7, <1>9, Zenon
  <2> QED
    BY <1>8, <2>1, <2>2 DEF Log!Follows
<1> QED
  BY <1>10, <1>11, SMTT(30)

\* A batch whose first event follows adds it.
LEMMA FirstIsAdded ==
    ASSUME Typed, NEW r \in Replica, NEW batch \in Seq(sent), batch # <<>>,
           Log(Creator)!Follows(log[r], batch[1])
    PROVE  batch[1] \in Events(Accepted(Rep(r), batch)[Len(batch)].log)
<1> DEFINE g == Accepted(Rep(r), batch)
           e == batch[1]
           G == {n \in 0 .. Len(batch) : n > 0 => e \in Events(g[n].log)}
           l == Len(batch)
<1>1. l \in Nat /\ l > 0 /\ \A i \in 1 .. l : batch[i] \in sent
  OBVIOUS
<1>2. sent \in SUBSET Signed /\ Rep(r) \in Reps(sent, {})
  BY DEF Typed
<1>3. /\ g \in [0 .. l -> Reps(sent, {})] /\ g[0] = Rep(r)
      /\ \A n \in 1 .. l : g[n] = Accept(g[n - 1], batch[n])
  BY <1>2, AcceptedFacts
<1>4. ASSUME NEW n \in 1 .. l
      PROVE  Events(g[n].log) =
                IF Log(Creator)!Follows(g[n - 1].log, batch[n])
                THEN Events(g[n - 1].log) \cup {batch[n]} ELSE Events(g[n - 1].log)
  <2>1. n - 1 \in 0 .. l
    BY <1>1
  <2>2. g[n - 1] \in Reps(sent, {}) /\ batch[n] \in sent /\ g[n] = Accept(g[n - 1], batch[n])
    BY <1>1, <1>3, <2>1, Zenon
  <2>3. ASSUME NEW x \in Reps(sent, {}), NEW y \in sent
        PROVE  Events(Accept(x, y).log) =
                  IF Log(Creator)!Follows(x.log, y) THEN Events(x.log) \cup {y} ELSE Events(x.log)
    BY <1>2, AcceptStays, ZenonT(30)
  <2> HIDE DEF g, l
  <2> QED
    BY <2>2, <2>3, Zenon
<1>5. Rep(r).log = log[r]
  BY DEF Rep
<1> HIDE DEF g
<1>6. 0 \in G
  BY <1>1
<1>7. ASSUME NEW n \in 1 .. l, n - 1 \in G PROVE n \in G
  <2>1. n \in 0 .. l /\ n - 1 \in 0 .. l
    BY <1>1
  <2>2. CASE n = 1
    <3>1. g[0].log = log[r] /\ 1 - 1 = 0
      BY <1>3, <1>5
    <3>2. Events(g[1].log) = Events(g[0].log) \cup {e}
      <4> HIDE DEF e
      <4>1. Log(Creator)!Follows(g[1 - 1].log, batch[1])
        BY <3>1, Zenon
      <4> QED
        BY <1>4, <2>2, <3>1, <4>1, Zenon DEF e
    <3> QED
      BY <2>1, <2>2, <3>2, Zenon
  <2>3. CASE n # 1
    <3>1. n - 1 > 0
      BY <2>3
    <3>2. e \in Events(g[n - 1].log)
      BY <1>7, <3>1
    <3>3. e \in Events(g[n].log)
      BY <1>4, <3>2, Zenon
    <3> QED
      BY <2>1, <3>3, Zenon
  <2> QED
    BY <2>2, <2>3
<1> HIDE DEF G, l, e
<1>8. \A n \in 0 .. l : n \in G
  BY <1>1, <1>6, <1>7, UpTo, ZenonT(30)
<1> QED
  BY <1>1, <1>8 DEF G, g, l, e

\* What r holds after the answer of s to its heads.
Taken(r, s, authors) ==
    LET batch == EventsSince(s, r, authors) IN Events(Accepted(Rep(r), batch)[Len(batch)].log)

\* Unless an author forked, whatever the order of the authors and however little fits,
\* an answer (EventDag::events_since) brings a replica an event that it lacked, as long as
\* there is one: nothing is answered that the replica cannot insert.  A replica without
\* any event has to get the server's creation first.
EveryAnswerHelps ==
    AuthorsNeverFork =>
        \A r, s \in Replica : \A authors \in Orders :
            /\ ~ (Dag(s) \subseteq Dag(r))
            /\ log[r] # <<>> \/ authors[1] = Creator
            => \E e \in Dag(s) \ Dag(r) : e \in Taken(r, s, authors)

LEMMA AnswersHelp == ReplicasInv /\ OneGenesis => EveryAnswerHelps
<1> SUFFICES ASSUME ReplicasInv, OneGenesis, AuthorsNeverFork, NEW r \in Replica, NEW s \in Replica,
                    NEW authors \in Orders, ~ (Dag(s) \subseteq Dag(r)),
                    log[r] # <<>> \/ authors[1] = Creator
             PROVE  \E e \in Dag(s) \ Dag(r) : e \in Taken(r, s, authors)
  BY Zenon DEF EveryAnswerHelps
<1>1. Typed /\ Dag(s) \subseteq sent /\ Dag(r) \subseteq sent
  BY RepFacts DEF ReplicasInv
<1>2. /\ authors \in Seq(Replica) /\ \A a \in Replica : \E n \in 1 .. Len(authors) : authors[n] = a
      /\ Len(authors) \in 0 .. Len(authors) /\ Len(authors) > 0 /\ authors[1] \in Replica
  <2>1. authors \in Seq(Replica) /\ \A a \in Replica : \E n \in 1 .. Len(authors) : authors[n] = a
    BY OrdersAreOnto
  <2>2. PICK n \in 1 .. Len(authors) : authors[n] = r
    BY <2>1
  <2>3. Len(authors) \in Nat /\ Len(authors) > 0
    <3>1. Len(authors) \in Nat
      BY <2>1, LenProperties, Zenon
    <3> QED
      BY <2>2, <3>1
  <2>4. authors[1] \in Replica
    BY <2>1, <2>3, SMTT(30)
  <2> QED
    BY <2>1, <2>3, <2>4, SMTT(30)
<1> DEFINE all == Walk(s, r, authors)[Len(authors)]
           batch == EventsSince(s, r, authors)
<1>3. PICK x \in Dag(s) : x \notin Dag(r)
  OBVIOUS
<1>4. x.author \in Replica /\ LatestSeq(s, x.author) > LatestSeq(r, x.author)
  BY <1>1, <1>3, LackStarts
<1>5. /\ all # <<>> /\ all[1] \in NextFor(r, s)
      /\ LatestSeq(s, authors[1]) > LatestSeq(r, authors[1]) => all[1].author = authors[1]
  <2>1. PICK n \in 1 .. Len(authors) : authors[n] = x.author
    BY <1>2, <1>4, Zenon
  <2>2. /\ all # <<>> => all[1] \in NextFor(r, s)
        /\ \A k \in 1 .. Len(authors) : LatestSeq(s, authors[k]) > LatestSeq(r, authors[k]) => all # <<>>
        /\ LatestSeq(s, authors[1]) > LatestSeq(r, authors[1]) => all[1].author = authors[1]
    <3>1. \A i \in 0 .. Len(authors) :
             /\ Walk(s, r, authors)[i] # <<>> => Walk(s, r, authors)[i][1] \in NextFor(r, s)
             /\ \A k \in 1 .. i : LatestSeq(s, authors[k]) > LatestSeq(r, authors[k]) =>
                   Walk(s, r, authors)[i] # <<>>
             /\ i > 0 /\ LatestSeq(s, authors[1]) > LatestSeq(r, authors[1]) =>
                   Walk(s, r, authors)[i][1].author = authors[1]
      BY <1>1, <1>2, WalkStarts, Zenon
    <3> QED
      BY <1>2, <3>1, ZenonT(30)
  <2> HIDE DEF all
  <2> QED
    BY <1>4, <2>1, <2>2, Zenon
<1>6. batch \in Seq(Dag(s)) /\ batch # <<>> /\ batch[1] = all[1]
  <2>1. batch = SubSeq(all, 1, IF Len(all) < Limit THEN Len(all) ELSE Limit)
    BY DEF EventsSince
  <2>2. all \in Seq(Dag(s))
    <3>1. Walk(s, r, authors) \in [0 .. Len(authors) -> Seq(Dag(s))]
      BY <1>1, <1>2, WalkFacts, Zenon
    <3> QED
      BY <1>2, <3>1, Zenon
  <2> HIDE DEF all
  <2>3. Len(all) > 0 /\ Limit \in Nat \ {0}
    BY <1>5, <2>2, ReplicationAssumption
  <2> HIDE DEF batch
  <2> QED
    BY <2>1, <2>2, <2>3
<1>7. log[r] # <<>> \/ batch[1] = GenesisEvent
  <2> SUFFICES ASSUME log[r] = <<>>, authors[1] = Creator PROVE batch[1] = GenesisEvent
    OBVIOUS
  <2>1. Dag(r) = {}
    BY EmptyLog DEF Dag
  <2>2. PICK g \in Dag(s) : g.kind = "CreateServer"
    <3>1. Founded(log[s]) /\ log[s] # <<>>
      BY <1>1, <1>3, RepFacts, EmptyLog, SMTT(30) DEF GoodLog, Dag
    <3> QED
      BY <3>1, SMTT(30) DEF Founded, Dag
  <2>3. g = GenesisEvent /\ g.author = Creator /\ g.seq = 1 /\ Creator \in Replica
    BY <1>1, <2>2, ReplicationAssumption, SMTT(30) DEF OneGenesis, GenesisEvent
  <2>4. LatestSeq(s, Creator) > LatestSeq(r, Creator)
    BY <1>1, <2>1, <2>3, LackStarts, SMTT(30)
  <2>5. all[1].author = Creator /\ all[1] \in Dag(s) /\ all[1].seq = LatestSeq(r, Creator) + 1
    BY <1>5, <2>4, ZenonT(30) DEF NextFor
  <2>6. LatestSeq(r, Creator) = 0
    <3>1. ChainOf(r, Creator) = {}
      BY <2>1, SMTT(30) DEF ChainOf
    <3> QED
      BY <3>1, FS_EmptySet, SMTT(30) DEF LatestSeq
  <2>7. all[1].seq = 1
    BY <2>5, <2>6, SMTT(30)
  <2> HIDE DEF all, batch
  <2> QED
    BY <1>1, <1>6, <2>2, <2>3, <2>5, <2>7, Zenon DEF AuthorsNeverFork
<1> HIDE DEF all, batch
<1>8. Log(Creator)!Follows(log[r], batch[1]) /\ batch[1] \notin Dag(r)
  BY <1>1, <1>5, <1>6, <1>7, NextFollows, ZenonT(30)
<1>9. batch \in Seq(sent) /\ batch[1] \in Dag(s)
  BY <1>1, <1>6
<1>10. batch[1] \in Events(Accepted(Rep(r), batch)[Len(batch)].log)
  BY <1>1, <1>6, <1>8, <1>9, FirstIsAdded, ZenonT(30)
<1> QED
  BY <1>8, <1>9, <1>10, Zenon DEF Taken, batch

\* As long as no author forked, every answer to a replica that lacks events adds one, for
\* any number of replicas and any limit of the answers: what convergence rests on.
THEOREM AnswersAlwaysHelp == ReplicationSpec => []EveryAnswerHelps
BY ReplicasAlways, GenesisInit, GenesisStep, AnswersHelp, PTL DEF ReplicationSpec

-----------------------------------------------------------------------------
(* The sort.                                                               *)

\* What Kahn's algorithm takes next.
First(es) == CHOOSE f \in Ready(es) : \A g \in Ready(es) : f.hash <= g.hash

\* One round of it; f sorts the rest.
Round(f, es) == IF Ready(es) = {} THEN <<>> ELSE <<First(es)>> \o f[es \ {First(es)}]

LEMMA FirstFacts ==
    ASSUME NEW es \in SUBSET Signed, Ready(es) # {}
    PROVE  First(es) \in Ready(es) /\ First(es) \in es
<1> DEFINE H == {f.hash : f \in Ready(es)}
<1>1. Ready(es) \subseteq es
  BY DEF Ready
<1>2. \A f \in Ready(es) : f.hash \in Nat
  BY <1>1, SignedFacts, ZenonT(30)
<1>3. H \in SUBSET Nat /\ H # {}
  BY <1>2
<1>4. PICK p \in H : \A q \in H : p <= q
  BY <1>3, LeastNumber, Zenon
<1>5. \E f \in Ready(es) : \A g \in Ready(es) : f.hash <= g.hash
  BY <1>4
<1>6. First(es) \in Ready(es)
  BY <1>5, Zenon DEF First
<1> QED
  BY <1>1, <1>6, ZenonT(30)

LEMMA RestFacts ==
    ASSUME NEW all \in SUBSET Signed, IsFiniteSet(all), NEW es \in SUBSET all, Ready(es) # {}
    PROVE  /\ es \ {First(es)} \in SUBSET all
           /\ Cardinality(es) \in Nat /\ Cardinality(es \ {First(es)}) = Cardinality(es) - 1
<1>1. IsFiniteSet(es) /\ First(es) \in es
  BY FirstFacts, FS_Subset
<1> QED
  BY <1>1, FS_RemoveElement, FS_CardinalityType, ZenonT(30)

LEMMA SortExists ==
    ASSUME NEW all \in SUBSET Signed, IsFiniteSet(all)
    PROVE  \E f : f = [es \in SUBSET all |-> Round(f, es)]
<1> DEFINE N == Cardinality(all)
           Up(f, n) == /\ f = [es \in SUBSET all |-> f[es]]
                       /\ \A es \in SUBSET all : Cardinality(es) <= n => f[es] = Round(f, es)
           G == {n \in 0 .. N : \E f : Up(f, n)}
<1>1. N \in Nat /\ \A es \in SUBSET all : Cardinality(es) \in Nat /\ Cardinality(es) <= N
  BY FS_Subset, FS_CardinalityType
<1>2. \E f : Up(f, 0)
  <2> DEFINE f == [es \in SUBSET all |-> <<>>]
  <2>1. ASSUME NEW es \in SUBSET all, Cardinality(es) <= 0 PROVE f[es] = Round(f, es)
    <3>1. Cardinality(es) = 0 /\ IsFiniteSet(es)
      BY <1>1, <2>1, FS_Subset, SMTT(30)
    <3>2. es = {}
      BY <3>1, FS_EmptySet, Zenon
    <3>3. Ready(es) = {}
      BY <3>2 DEF Ready
    <3> QED
      BY <3>3 DEF Round
  <2>2. f = [es \in SUBSET all |-> f[es]]
    OBVIOUS
  <2>3. Up(f, 0)
    BY <2>1, <2>2, Zenon
  <2> QED
    BY <2>3, Zenon
<1>3. ASSUME NEW n \in 1 .. N, NEW f, Up(f, n - 1) PROVE \E g : Up(g, n)
  <2> DEFINE g == [es \in SUBSET all |-> IF Cardinality(es) = n THEN Round(f, es) ELSE f[es]]
  <2>1. ASSUME NEW es \in SUBSET all, Cardinality(es) <= n PROVE g[es] = Round(g, es)
    <3>1. g[es] = Round(f, es)
      <4>1. CASE Cardinality(es) = n
        BY <4>1
      <4>2. CASE Cardinality(es) # n
        <5>1. Cardinality(es) <= n - 1
          BY <1>1, <2>1, <4>2, SMTT(30)
        <5> QED
          BY <1>3, <4>2, <5>1, ZenonT(30)
      <4> QED
        BY <4>1, <4>2, Zenon
    <3>2. CASE Ready(es) = {}
      BY <3>1, <3>2 DEF Round
    <3>3. CASE Ready(es) # {}
      <4> DEFINE rest == es \ {First(es)}
      <4>1. rest \in SUBSET all /\ Cardinality(rest) = Cardinality(es) - 1
        BY <3>3, RestFacts
      <4>2. Cardinality(rest) # n
        BY <1>1, <2>1, <4>1, SMTT(30)
      <4>3. g[rest] = f[rest]
        BY <4>1, <4>2, SMTT(30)
      <4> QED
        BY <3>1, <3>3, <4>3, ZenonT(30) DEF Round
    <3> QED
      BY <3>2, <3>3, Zenon
  <2>2. g = [es \in SUBSET all |-> g[es]]
    OBVIOUS
  <2>3. Up(g, n)
    BY <2>1, <2>2, Zenon
  <2> QED
    BY <2>3, Zenon
<1> HIDE DEF Up
<1>4. 0 \in G /\ \A n \in 1 .. N : n - 1 \in G => n \in G
  BY <1>1, <1>2, <1>3, SMTT(30)
<1>5. N \in G
  <2> HIDE DEF G, N
  <2> QED
    BY <1>1, <1>4, UpTo, SMTT(30)
<1>6. PICK f : Up(f, N)
  BY <1>5
<1>7. f = [es \in SUBSET all |-> f[es]] /\ \A es \in SUBSET all : f[es] = Round(f, es)
  BY <1>1, <1>6, Zenon DEF Up
<1>8. f = [es \in SUBSET all |-> Round(f, es)]
  BY <1>7, Zenon
<1> QED
  BY <1>8

LEMMA SortIsFold ==
    ASSUME NEW all \in SUBSET Signed, IsFiniteSet(all)
    PROVE  \E f : f = [es \in SUBSET all |-> Round(f, es)] /\ TopologicalSort(all) = f[all]
<1> DEFINE D(f) == f = [es \in SUBSET all |-> Round(f, es)]
           sort == CHOOSE f : D(f)
<1>1. \E f : D(f)
  BY SortExists, Zenon
<1>2. D(sort)
  <2> HIDE DEF D
  <2> QED
    BY <1>1, Zenon
<1>3. TopologicalSort(all) = sort[all]
  BY DEF TopologicalSort, Round, First
<1> QED
  BY <1>2, <1>3, Zenon

\* The events in an order in which no parent comes after its child.
Ordered(l, es) ==
    /\ l \in Seq(es) /\ Len(l) = Cardinality(es) /\ Events(l) = es
    /\ \A i, j \in 1 .. Len(l) : l[j].hash \in Parents(l[i]) => j < i

\* m is l with e before it.
Preceded(m, e, l, S) ==
    /\ m \in Seq(S) /\ Len(m) = Len(l) + 1 /\ Len(l) \in Nat /\ m[1] = e
    /\ \A i \in 2 .. Len(l) + 1 : m[i] = l[i - 1]

LEMMA JoinOne ==
    ASSUME NEW S, NEW k \in Seq(S), Len(k) = 1, NEW l \in Seq(S)
    PROVE  Preceded(k \o l, k[1], l, S)
<1> DEFINE m == k \o l
<1>1. /\ m \in Seq(S) /\ Len(m) = Len(k) + Len(l)
      /\ \A i \in 1 .. Len(k) + Len(l) :
            m[i] = IF i <= Len(k) THEN k[i] ELSE l[i - Len(k)]
  BY ConcatProperties, Zenon
<1>2. Len(l) \in Nat
  OBVIOUS
<1> HIDE DEF m
<1>3. Preceded(m, k[1], l, S)
  BY <1>1, <1>2, SMTT(30) DEF Preceded
<1> QED
  BY <1>3 DEF m

LEMMA OrderedCons ==
    ASSUME NEW es, IsFiniteSet(es), NEW e \in Ready(es), NEW l, Ordered(l, es \ {e})
    PROVE  Ordered(<<e>> \o l, es)
<1> DEFINE m == <<e>> \o l
<1>1. e \in es /\ \A f \in es : f.hash \notin Parents(e)
  BY DEF Ready
<1>2. l \in Seq(es) /\ Len(l) = Cardinality(es \ {e}) /\ Events(l) = es \ {e}
  BY DEF Ordered
<1>3. /\ m \in Seq(es) /\ Len(m) = Len(l) + 1 /\ Len(l) \in Nat /\ m[1] = e
      /\ \A i \in 2 .. Len(l) + 1 : m[i] = l[i - 1]
  <2> DEFINE k == <<e>>
  <2>1. k \in Seq(es) /\ Len(k) = 1 /\ k[1] = e
    BY <1>1
  <2>2. m = k \o l
    OBVIOUS
  <2> HIDE DEF k, m
  <2>3. l \in Seq(es)
    BY <1>2
  <2>4. Preceded(k \o l, k[1], l, es)
    BY <2>1, <2>3, JoinOne, ZenonT(30)
  <2>5. Preceded(m, e, l, es)
    BY <2>1, <2>2, <2>4, ZenonT(30)
  <2> QED
    BY <2>5 DEF Preceded
<1>4. Len(m) = Cardinality(es)
  <2>1. Cardinality(es) \in Nat /\ Cardinality(es \ {e}) = Cardinality(es) - 1
    BY <1>1, FS_RemoveElement, FS_CardinalityType, Zenon
  <2> HIDE DEF m
  <2> QED
    BY <1>2, <1>3, <2>1, SMTT(30)
<1> HIDE DEF m
<1>5. DOMAIN m = 1 .. Len(l) + 1 /\ DOMAIN l = 1 .. Len(l)
  BY <1>2, <1>3
<1>6. Events(m) = es
  <2>1. ASSUME NEW x \in es PROVE x \in Events(m)
    <3>1. CASE x = e
      BY <1>3, <1>5, <3>1, SMTT(30) DEF Events
    <3>2. CASE x # e
      <4>1. PICK i \in 1 .. Len(l) : l[i] = x
        BY <1>2, <1>5, <3>2, Zenon DEF Events
      <4>2. i + 1 \in 1 .. Len(l) + 1 /\ m[i + 1] = x
        BY <1>3, <4>1
      <4> QED
        BY <1>5, <4>2, Zenon DEF Events
    <3> QED
      BY <3>1, <3>2, Zenon
  <2>2. Events(m) \subseteq es
    BY <1>3 DEF Events
  <2> QED
    BY <2>1, <2>2
<1>7. ASSUME NEW i \in 1 .. Len(m), NEW j \in 1 .. Len(m), m[j].hash \in Parents(m[i])
      PROVE  j < i
  <2>1. m[j] \in es
    BY <1>3, SMTT(30)
  <2>2. i # 1
    BY <1>1, <1>3, <1>7, <2>1, ZenonT(30)
  <2>3. CASE j = 1
    BY <1>3, <2>2, <2>3, SMTT(30)
  <2>4. CASE j # 1
    <3>1. /\ i - 1 \in 1 .. Len(l) /\ j - 1 \in 1 .. Len(l)
          /\ m[i] = l[i - 1] /\ m[j] = l[j - 1]
      BY <1>3, <2>2, <2>4, SMTT(30)
    <3>2. j - 1 < i - 1
      BY <1>7, <3>1, ZenonT(30) DEF Ordered
    <3> QED
      BY <1>3, <3>1, <3>2, SMTT(30)
  <2> QED
    BY <2>3, <2>4
<1> QED
  BY <1>3, <1>4, <1>6, <1>7, ZenonT(30) DEF Ordered, m

LEMMA SortOrders ==
    ASSUME NEW all \in SUBSET Signed, IsFiniteSet(all), Acyclic(all)
    PROVE  Ordered(TopologicalSort(all), all)
<1>1. PICK f : f = [es \in SUBSET all |-> Round(f, es)] /\ TopologicalSort(all) = f[all]
  BY SortIsFold, ZenonT(30)
<1> DEFINE N == Cardinality(all)
           G == {n \in 0 .. N : \A es \in SUBSET all : Cardinality(es) = n => Ordered(f[es], es)}
<1>2. N \in Nat
  BY FS_CardinalityType
<1>3. 0 \in G
  <2> SUFFICES ASSUME NEW es \in SUBSET all, Cardinality(es) = 0 PROVE Ordered(f[es], es)
    BY <1>2
  <2>1. es = {}
    BY FS_Subset, FS_EmptySet
  <2>2. Ready(es) = {}
    BY <2>1, ZenonT(30) DEF Ready
  <2>3. f[es] = <<>>
    BY <1>1, <2>2 DEF Round
  <2>4. Events(<<>>) = {} /\ <<>> \in Seq(es) /\ Len(<<>>) = 0
    BY SMTT(30) DEF Events
  <2> QED
    BY <2>1, <2>3, <2>4, SMTT(30) DEF Ordered
<1>4. ASSUME NEW n \in 1 .. N, n - 1 \in G PROVE n \in G
  <2> SUFFICES ASSUME NEW es \in SUBSET all, Cardinality(es) = n PROVE Ordered(f[es], es)
    BY <1>2
  <2>1. es # {} /\ IsFiniteSet(es)
    BY FS_Subset, FS_EmptySet
  <2>2. Ready(es) # {}
    BY <2>1 DEF Acyclic
  <2> DEFINE e == First(es)  rest == es \ {e}
  <2>3. f[es] = <<e>> \o f[rest]
    BY <1>1, <2>2, ZenonT(30) DEF Round
  <2>4. rest \in SUBSET all /\ Cardinality(rest) = n - 1
    BY <2>2, RestFacts, SMTT(30)
  <2>5. Ordered(f[rest], rest)
    BY <1>4, <2>4
  <2>6. e \in Ready(es)
    BY <2>2, FirstFacts
  <2> QED
    BY <2>1, <2>3, <2>5, <2>6, OrderedCons, ZenonT(30)
<1> HIDE DEF G
<1>5. N \in G
  <2> HIDE DEF N
  <2> QED
    BY <1>2, <1>3, <1>4, UpTo, SMTT(30)
<1> QED
  BY <1>1, <1>5, ZenonT(30) DEF G

LEMMA DagOrdered ==
    ASSUME ReplicasInv, NEW r \in Replica
    PROVE  Ordered(TopologicalSort(Dag(r)), Dag(r)) /\ Dag(r) \in SUBSET Signed
<1>1. Typed /\ GoodSent(sent)
  BY DEF ReplicasInv
<1>2. IsFiniteSet(Dag(r)) /\ Dag(r) \in SUBSET sent /\ Dag(r) \in SUBSET Signed
  BY <1>1, RepFacts DEF Typed
<1>3. Acyclic(Dag(r))
  BY <1>1, <1>2, Zenon DEF GoodSent, Acyclic
<1> QED
  BY <1>2, <1>3, SortOrders, SMTT(30)

LEMMA SortsAreCausal == ReplicasInv => SortIsCausal
<1> SUFFICES ASSUME ReplicasInv, NEW r \in Replica
             PROVE  LET order == TopologicalSort(Dag(r))
                    IN  /\ Len(order) = Len(log[r]) /\ Events(order) = Dag(r)
                        /\ \A i, j \in DOMAIN order : order[j].hash \in Parents(order[i]) => j < i
  BY Zenon DEF SortIsCausal
<1> DEFINE order == TopologicalSort(Dag(r))
<1>1. Ordered(order, Dag(r))
  BY DagOrdered, Zenon
<1>2. Cardinality(Dag(r)) = Len(log[r])
  BY RepFacts DEF ReplicasInv, GoodLog, Dag
<1> HIDE DEF order
<1>3. DOMAIN order = 1 .. Len(order)
  BY <1>1, SMTT(30) DEF Ordered
<1> QED
  BY <1>1, <1>2, <1>3 DEF Ordered, order

\* EventDag::topological_sort, on any replica that can arise: it takes all the events,
\* and each after its causal parents (Kahn's algorithm never stops short, for the
\* parents of the events of a replica form no cycle).
THEOREM SortsStayCausal == ReplicationSpec => []SortIsCausal
BY ReplicasAlways, SortsAreCausal, PTL

-----------------------------------------------------------------------------
(* Replays.                                                                *)

LEMMA ReplayFacts ==
    ASSUME NEW batch \in Seq(Signed)
    PROVE  /\ Replay(batch) \in [0 .. Len(batch) -> States]
           /\ \A n \in 1 .. Len(batch) : Replay(batch)[n] = ApplyEvent(Replay(batch)[n - 1], batch[n])
<1> DEFINE S == States
           l == Len(batch)
           step == [p \in S \X (1 .. l) |-> ApplyEvent(p[1], batch[p[2]])]
           g == Replay(batch)
           D(f) == f = [n \in 0 .. l |-> IF n = 0 THEN NewState ELSE ApplyEvent(f[n - 1], batch[n])]
<1>1. l \in Nat /\ \A i \in 1 .. l : batch[i] \in Signed
  BY SMTT(30)
<1> HIDE DEF S, l
<1>2. step \in [S \X (1 .. l) -> S]
  BY <1>1, ApplyFacts, ZenonT(30) DEF S
<1>3. NewState \in S
  BY EmptyLog DEF S
<1>4. PICK f : f \in [0 .. l -> S] /\ IsFold(f, l, NewState, step)
  <2> HIDE DEF step
  <2> QED
    BY <1>1, <1>2, <1>3, FoldExists, ZenonT(30)
<1>5. D(f)
  <2>1. ASSUME NEW n \in 0 .. l, n # 0 PROVE step[<<f[n - 1], n>>] = ApplyEvent(f[n - 1], batch[n])
    <3>1. n - 1 \in 0 .. l /\ n \in 1 .. l
      BY <1>1, <2>1, SMTT(30)
    <3>2. <<f[n - 1], n>> \in S \X (1 .. l)
      BY <1>4, <3>1, Zenon
    <3> QED
      BY <3>2
  <2> HIDE DEF step
  <2>2. f = [n \in 0 .. l |-> IF n = 0 THEN NewState ELSE step[<<f[n - 1], n>>]]
    BY <1>4, Zenon DEF IsFold
  <2> QED
    BY <2>1, <2>2, ZenonT(30)
<1>6. g = CHOOSE f_1 : D(f_1)
  BY DEF Replay, l
<1>7. D(g)
  <2> HIDE DEF D, g
  <2> QED
    BY <1>5, <1>6, Zenon
<1> HIDE DEF g, step
<1> DEFINE G == {n \in 0 .. l : g[n] \in S}
<1>8. g[0] = NewState /\ \A n \in 1 .. l : g[n] = ApplyEvent(g[n - 1], batch[n])
  BY <1>1, <1>7
<1>9. 0 \in G
  BY <1>1, <1>3, <1>8
<1>10. ASSUME NEW n \in 1 .. l, n - 1 \in G PROVE n \in G
  <2>1. g[n] \in S
    BY <1>1, <1>8, <1>10, ApplyFacts, ZenonT(30) DEF S
  <2> QED
    BY <1>1, <2>1, SMTT(30)
<1> HIDE DEF G
<1>11. \A n \in 0 .. l : n \in G
  BY <1>1, <1>9, <1>10, UpTo, ZenonT(30)
<1>12. g \in [0 .. l -> S]
  BY <1>7, <1>11 DEF G
<1> QED
  BY <1>8, <1>12 DEF S, g, l

\* Induction from a number on.
LEMMA FromOn ==
    ASSUME NEW k \in Nat, NEW l \in Nat, NEW G, k \in G,
           \A n \in k + 1 .. l : n - 1 \in G => n \in G
    PROVE  \A n \in k .. l : n \in G
<1> DEFINE H == {n \in k .. l : n \notin G}
<1> SUFFICES ASSUME H # {} PROVE FALSE
  OBVIOUS
<1>1. H \in SUBSET Nat
  OBVIOUS
<1>2. PICK n \in H : \A q \in H : n <= q
  BY <1>1, LeastNumber, Zenon
<1>3. n \in k + 1 .. l /\ n - 1 \in k .. l /\ n - 1 \notin H
  BY <1>2
<1> QED
  BY <1>3

LEMMA ShownStays ==
    ASSUME NEW order \in Seq(Signed), NEW i \in 1 .. Len(order), NEW h,
           h \in Replay(order)[i].shown
    PROVE  h \in Replay(order)[Len(order)].shown
<1> DEFINE R == Replay(order)  l == Len(order)  G == {n \in 0 .. l : h \in R[n].shown}
<1>1. l \in Nat /\ \A n \in 1 .. l : order[n] \in Signed
  OBVIOUS
<1>2. R \in [0 .. l -> States] /\ \A n \in 1 .. l : R[n] = ApplyEvent(R[n - 1], order[n])
  BY ReplayFacts, Zenon
<1>3. i \in Nat /\ i \in G
  BY <1>1, SMTT(30)
<1> HIDE DEF R, l
<1>4. ASSUME NEW n \in i + 1 .. l, n - 1 \in G PROVE n \in G
  <2>1. n \in 1 .. l /\ n - 1 \in 0 .. l /\ h \in R[n - 1].shown
    BY <1>1, <1>3, <1>4, SMTT(30)
  <2>2. R[n - 1].shown \subseteq ApplyEvent(R[n - 1], order[n]).shown
    BY <1>1, <1>2, <2>1, ApplyFacts, Zenon
  <2> QED
    BY <1>1, <1>2, <2>1, <2>2, SMTT(30)
<1> HIDE DEF G
<1>5. \A n \in i .. l : n \in G
  BY <1>1, <1>3, <1>4, FromOn, Zenon
<1>6. l \in i .. l
  BY <1>1 DEF l
<1> QED
  BY <1>5, <1>6, ZenonT(30) DEF G, R, l

LEMMA SenderStays ==
    ASSUME NEW order \in Seq(Signed), NEW j \in 1 .. Len(order), NEW a \in Replica,
           a \in Replay(order)[j].senders,
           \A n \in 1 .. Len(order) : order[n].kind = "Revoke" => order[n].peer # a
    PROVE  \A n \in j .. Len(order) : a \in Replay(order)[n].senders
<1> DEFINE R == Replay(order)  l == Len(order)  G == {n \in 0 .. l : a \in R[n].senders}
<1>1. l \in Nat /\ \A n \in 1 .. l : order[n] \in Signed
  OBVIOUS
<1>2. R \in [0 .. l -> States] /\ \A n \in 1 .. l : R[n] = ApplyEvent(R[n - 1], order[n])
  BY ReplayFacts
<1>3. j \in Nat /\ j \in G
  BY <1>1
<1>4. \A n \in 1 .. l : order[n].kind = "Revoke" => order[n].peer # a
  OBVIOUS
<1> HIDE DEF R, l
<1>5. ASSUME NEW n \in j + 1 .. l, n - 1 \in G PROVE n \in G
  <2>1. n \in 1 .. l /\ n - 1 \in 0 .. l /\ a \in R[n - 1].senders
    BY <1>1, <1>3, <1>5, SMTT(30)
  <2>2. a \in ApplyEvent(R[n - 1], order[n]).senders
    BY <1>1, <1>2, <1>4, <2>1, ApplyFacts, ZenonT(30)
  <2> QED
    BY <1>1, <1>2, <2>1, <2>2, SMTT(30)
<1> HIDE DEF G
<1>6. \A n \in j .. l : n \in G
  BY <1>1, <1>3, <1>5, FromOn, Zenon
<1> QED
  BY <1>6 DEF G, R, l

\* Of the past of an event, what the sort takes up to it is its past again.
LEMMA GrantComesFirst ==
    ASSUME ReplicasInv, NEW es \in SUBSET sent, NEW order, Ordered(order, es),
           NEW i \in 1 .. Len(order), order[i].kind = "Message", order[i].author # Creator,
           PastIn(es, order[i])
    PROVE  \E j \in 1 .. Len(order) :
              j < i /\ IsGrant(order[j], order[i].author) /\ order[j].author = Creator
<1> DEFINE e == order[i]  n == Len(order)
<1>1. GoodSent(sent)
  BY Zenon DEF ReplicasInv
<1>2. /\ order \in Seq(es) /\ Events(order) = es
      /\ \A p, q \in 1 .. n : order[q].hash \in Parents(order[p]) => q < p
  BY DEF Ordered
<1>3. DOMAIN order = 1 .. n /\ n \in Nat /\ \A p \in 1 .. n : order[p] \in es
  BY <1>2, SMTT(30)
<1>4. \A x \in es : \E p \in 1 .. n : order[p] = x
  BY <1>2, <1>3, ZenonT(30) DEF Events
<1>5. PICK past \in SUBSET es : e \in past /\ Closed(past)
  BY Zenon DEF PastIn
<1> DEFINE before == {x \in past : \E p \in 1 .. i : order[p] = x}
<1>6. ASSUME NEW x \in before, NEW h \in Parents(x) PROVE \E f \in before : f.hash = h
  <2>1. PICK p \in 1 .. i : order[p] = x
    OBVIOUS
  <2>2. PICK f \in past : f.hash = h
    BY <1>5, Zenon DEF Closed
  <2>3. PICK q \in 1 .. n : order[q] = f
    BY <1>4, ZenonT(30)
  <2>4. q < p
    BY <1>2, <1>3, <2>1, <2>2, <2>3, SMTT(30)
  <2>5. q \in 1 .. i
    BY <1>3, <2>4, SMTT(30)
  <2> QED
    BY <2>2, <2>3, <2>5, ZenonT(30)
<1>7. Closed(before)
  BY <1>6, Zenon DEF Closed
<1>8. e \in before /\ before \in SUBSET sent /\ e \in sent
  BY <1>3, <1>5, SMTT(30)
<1>9. PICK g \in before : IsGrant(g, e.author)
  <2> HIDE DEF before
  <2> QED
    BY <1>1, <1>7, <1>8, ZenonT(30) DEF GoodSent, PastHasGrant
<1>10. PICK j \in 1 .. i : order[j] = g
  BY <1>9, Zenon
<1>11. j # i
  BY <1>9, <1>10, Zenon DEF IsGrant
<1>12. g.author = Creator
  BY <1>1, <1>8, <1>9, ZenonT(30) DEF GoodSent, GrantsByCreator, IsGrant
<1> QED
  BY <1>3, <1>9, <1>10, <1>11, <1>12, SMTT(30)

LEMMA MessagesShow == ReplicasInv => GrantedMessagesShow
<1> SUFFICES ASSUME ReplicasInv, NEW r \in Replica, NEW e \in Dag(r),
                    e.kind = "Message", PastIn(Dag(r), e),
                    \A f \in Dag(r) : f.kind = "Revoke" => f.peer # e.author
             PROVE  e.hash \in Materialize(Dag(r)).shown
  BY Zenon DEF GrantedMessagesShow
<1> DEFINE order == TopologicalSort(Dag(r))  R == Replay(order)
<1>1. Ordered(order, Dag(r)) /\ Dag(r) \in SUBSET Signed
  BY DagOrdered, Zenon
<1>2. Materialize(Dag(r)) = R[Len(order)]
  BY Zenon DEF Materialize
<1>3. Dag(r) \in SUBSET sent
  BY RepFacts, Zenon DEF ReplicasInv
<1> HIDE DEF order, R
<1>4. order \in Seq(Dag(r)) /\ Events(order) = Dag(r)
  BY <1>1, Zenon DEF Ordered
<1>5. /\ order \in Seq(Signed) /\ DOMAIN order = 1 .. Len(order) /\ Len(order) \in Nat
      /\ \A n \in 1 .. Len(order) : order[n] \in Dag(r) /\ order[n] \in Signed
  BY <1>1, <1>4, SMTT(30)
<1>6. PICK i \in 1 .. Len(order) : order[i] = e
  BY <1>4, <1>5, Zenon DEF Events
<1>7. R \in [0 .. Len(order) -> States] /\ \A n \in 1 .. Len(order) : R[n] = ApplyEvent(R[n - 1], order[n])
  BY <1>5, ReplayFacts, Zenon DEF R
<1>8. R[i - 1] \in States /\ R[i] = ApplyEvent(R[i - 1], e)
  BY <1>5, <1>6, <1>7, SMTT(30)
<1>9. e.author = Creator \/ e.author \in R[i - 1].senders
  <2> SUFFICES ASSUME e.author # Creator PROVE e.author \in R[i - 1].senders
    BY Zenon
  <2>1. PICK j \in 1 .. Len(order) : j < i /\ IsGrant(order[j], e.author) /\ order[j].author = Creator
    BY <1>1, <1>3, <1>6, GrantComesFirst, ZenonT(30)
  <2>2. R[j - 1] \in States /\ R[j] = ApplyEvent(R[j - 1], order[j])
    BY <1>5, <1>7, SMTT(30)
  <2>3. e.author \in R[j].senders
    BY <1>5, <2>1, <2>2, ApplyFacts, Zenon DEF IsGrant
  <2>4. e.author \in Replica
    BY <1>1, SignedFacts, SMTT(30)
  <2>5. \A n \in 1 .. Len(order) : order[n].kind = "Revoke" => order[n].peer # e.author
    BY <1>5
  <2>6. \A n \in j .. Len(order) : e.author \in R[n].senders
    BY <1>5, <2>3, <2>4, <2>5, SenderStays, ZenonT(30) DEF R
  <2>7. i - 1 \in j .. Len(order)
    BY <1>5, <2>1, SMTT(30)
  <2> QED
    BY <2>6, <2>7, Zenon
<1>10. e.hash \in R[i].shown
  BY <1>1, <1>8, <1>9, ApplyFacts, ZenonT(30)
<1> QED
  BY <1>2, <1>5, <1>10, ShownStays, ZenonT(30) DEF R

\* A message whose author was permitted to send it is shown by every full replay
\* (materialize) of a replica that has its causal past, unless the permission was
\* revoked: the dependencies that create_and_insert names bring the grant before the
\* message in every topological sort.
THEOREM GrantedMessagesAlwaysShow == ReplicationSpec => []GrantedMessagesShow
BY ReplicasAlways, MessagesShow, PTL
=============================================================================
