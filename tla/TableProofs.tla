---------------------------- MODULE TableProofs ----------------------------
(* Proofs about HybridClock, for every set of nodes and every size of the   *)
(* counter, the clocks and the drift; about RelayTopics, for all finite sets *)
(* of signers and topics and every limit; and about the search index and    *)
(* the task that feeds it (SearchIndex, SearchIndexer), for any documents,  *)
(* tokens, channels and tasks.                                              *)
EXTENDS HybridClock, RelayTopics, SearchIndexer, FiniteSetTheorems, SequenceTheorems, TLAPS

-----------------------------------------------------------------------------
(* What one call of the clock does.                                        *)

\* bump_counter gives a later timestamp, in the same millisecond or the next one.
LEMMA BumpAdvances ==
    ASSUME NEW m \in 0 .. MaxMillis, m < MaxMillis, NEW c \in 0 .. MaxCounter
    PROVE  /\ BumpCounter(m, c) \in Stamp
           /\ BumpCounter(m, c).millis \in {m, m + 1}
           /\ Before([millis |-> m, counter |-> c], BumpCounter(m, c))
  BY ClockAssumption DEF BumpCounter, Stamp, Before, Smaller

\* now() is after the clock's last timestamp, and at most one millisecond past the wall
\* clock and that timestamp.
LEMMA NowAdvances ==
    ASSUME NEW clock \in Stamp, clock.millis < MaxMillis, NEW wall \in 0 .. TopWall
    PROVE  /\ NowAt(clock, wall) \in Stamp
           /\ Before(clock, NowAt(clock, wall))
           /\ NowAt(clock, wall).millis <= Larger(wall, clock.millis) + 1
  <1>1. clock.millis \in 0 .. MaxMillis /\ clock.counter \in 0 .. MaxCounter
    BY DEF Stamp
  <1>2. clock = [millis |-> clock.millis, counter |-> clock.counter]
    BY DEF Stamp
  <1>3. CASE wall <= clock.millis
    BY <1>1, <1>2, <1>3, BumpAdvances, ClockAssumption, SMTT(30) DEF NowAt, Larger
  <1>4. CASE ~(wall <= clock.millis)
    BY <1>1, <1>4, ClockAssumption DEF NowAt, Larger, Stamp, Before
  <1> QED
    BY <1>3, <1>4

\* A raised counter is raised above each counter it was raised from.
LEMMA BumpAdvancesFrom ==
    ASSUME NEW m \in 0 .. MaxMillis, m < MaxMillis, NEW c \in 0 .. MaxCounter,
           NEW x \in Stamp, x.millis < m \/ (x.millis = m /\ x.counter <= c)
    PROVE  Before(x, BumpCounter(m, c))
  <1>1. x.millis \in Nat /\ x.counter \in Nat
    BY ClockAssumption DEF Stamp
  <1> QED
    BY <1>1, ClockAssumption DEF BumpCounter, Before, Smaller

\* receive() is after the clock's last timestamp, after the remote one unless that was
\* clamped, and at most one millisecond past all it was computed from.
LEMMA ReceiveAdvances ==
    ASSUME NEW clock \in Stamp, NEW remote \in Stamp, NEW wall \in 0 .. TopWall,
           clock.millis < MaxMillis
    PROVE  LET result == ReceiveAt(clock, remote, wall)
               clamped == Clamped(remote, wall)
           IN  /\ result \in Stamp
               /\ Before(clock, result)
               /\ clamped = remote.millis => Before(remote, result)
               /\ result.millis <= Larger(Larger(wall, clock.millis), clamped) + 1
               /\ clamped \in Nat /\ clamped <= TopWall + Drift
  <1> DEFINE clamped == Clamped(remote, wall)
             millis == Larger(Larger(wall, clock.millis), clamped)
             result == ReceiveAt(clock, remote, wall)
             top == Larger(clock.counter, remote.counter)
  <1>1. /\ clock.millis \in 0 .. MaxMillis /\ clock.counter \in 0 .. MaxCounter
        /\ remote.millis \in 0 .. MaxMillis /\ remote.counter \in 0 .. MaxCounter
    BY DEF Stamp
  <1>2. /\ clamped \in Nat /\ clamped <= TopWall + Drift /\ clamped <= remote.millis
        /\ wall \in Nat /\ wall <= TopWall
    BY <1>1, ClockAssumption, SMTT(30) DEF Clamped, Smaller
  <1>3. /\ millis \in 0 .. MaxMillis /\ millis < MaxMillis
        /\ millis >= clock.millis /\ millis >= clamped /\ millis >= wall
    BY <1>1, <1>2, ClockAssumption, SMTT(30) DEF Larger
  <1>4. /\ top \in 0 .. MaxCounter /\ clock.counter <= top /\ remote.counter <= top
    BY <1>1, SMTT(30) DEF Larger
  <1>5. \/ millis = clock.millis /\ millis = clamped /\ result = BumpCounter(millis, top)
        \/ millis = clock.millis /\ millis # clamped /\ result = BumpCounter(millis, clock.counter)
        \/ millis # clock.millis /\ millis = clamped /\ result = BumpCounter(millis, remote.counter)
        \/ /\ millis # clock.millis /\ millis # clamped
           /\ result = [millis |-> millis, counter |-> 0]
    BY DEF ReceiveAt
  <1> HIDE DEF clamped, millis, result, top
  <1> SUFFICES /\ result \in Stamp
               /\ Before(clock, result)
               /\ clamped = remote.millis => Before(remote, result)
               /\ result.millis <= millis + 1
    BY <1>2 DEF clamped, millis, result
  <1>6. ASSUME NEW c \in 0 .. MaxCounter, result = BumpCounter(millis, c)
        PROVE  result \in Stamp /\ result.millis <= millis + 1
    <2>1. BumpCounter(millis, c) \in Stamp /\ BumpCounter(millis, c).millis \in {millis, millis + 1}
      BY <1>3, BumpAdvances, ZenonT(30)
    <2> QED
      BY <1>3, <1>6, <2>1, SMTT(30)
  <1>7. CASE millis = clock.millis /\ millis = clamped /\ result = BumpCounter(millis, top)
    BY <1>1, <1>2, <1>3, <1>4, <1>6, <1>7, BumpAdvancesFrom, ZenonT(30)
  <1>8. CASE millis = clock.millis /\ millis # clamped /\ result = BumpCounter(millis, clock.counter)
    BY <1>1, <1>2, <1>3, <1>6, <1>8, BumpAdvancesFrom, SMTT(30)
  <1>9. CASE millis # clock.millis /\ millis = clamped /\ result = BumpCounter(millis, remote.counter)
    BY <1>1, <1>2, <1>3, <1>6, <1>9, BumpAdvancesFrom, SMTT(30)
  <1>10. CASE /\ millis # clock.millis /\ millis # clamped
              /\ result = [millis |-> millis, counter |-> 0]
    BY <1>1, <1>2, <1>3, <1>10, ClockAssumption, SMTT(30) DEF Stamp, Before
  <1> QED
    BY <1>5, <1>7, <1>8, <1>9, <1>10, Zenon

-----------------------------------------------------------------------------
(* The invariant.                                                          *)

ClockInvariant == ClockTypeOK /\ CausesComeFirst /\ DriftIsBounded

\* A clock within the drift is far from the end of its range.
LEMMA RoomLeft ==
    ASSUME ClockInvariant, NEW n \in ClockNode
    PROVE  /\ latest[n] \in Stamp /\ latest[n].millis < MaxMillis
           /\ heard[n] \in Stamp /\ rolls[n] \in 0 .. MaxRolls
  BY ClockAssumption DEF ClockInvariant, ClockTypeOK, DriftIsBounded, Stamp

\* The order of the timestamps is transitive.
LEMMA BeforeTransitive ==
    ASSUME NEW x \in Stamp, NEW y \in Stamp, NEW z \in Stamp, Before(x, y), Before(y, z)
    PROVE  Before(x, z)
  BY DEF Before, Stamp

\* Roll-overs pay for the milliseconds that a clock is past its inputs.
LEMMA RolledBound ==
    ASSUME NEW n \in ClockNode, rolls[n] \in Nat, NEW inputs \in Nat, NEW result \in Nat,
           result <= inputs + 1, inputs <= TopWall + Drift + rolls[n]
    PROVE  result <= TopWall + Drift + Rolled(n, inputs, result) /\ Rolled(n, inputs, result) \in Nat
  BY ClockAssumption DEF Rolled

\* now() keeps the invariant and advances the clock.
LEMMA NowStep ==
    ASSUME ClockInvariant, NEW n \in ClockNode, NEW wall \in 0 .. TopWall, StampNow(n, wall)
    PROVE  ClockInvariant' /\ Before(latest[n], latest'[n])
  <1> DEFINE stamp == NowAt(latest[n], wall)
             inputs == Larger(wall, latest[n].millis)
  <1>1. /\ stamp \in Stamp /\ Before(latest[n], stamp) /\ stamp.millis <= inputs + 1
        /\ rolls[n] \in 0 .. MaxRolls
    BY RoomLeft, NowAdvances, ZenonT(30)
  <1>2. inputs \in Nat /\ inputs <= TopWall + Drift + rolls[n] /\ stamp.millis \in Nat
    BY <1>1, RoomLeft, ClockAssumption, SMTT(30) DEF ClockInvariant, DriftIsBounded, Larger, Stamp
  <1>3. /\ stamp.millis <= TopWall + Drift + Rolled(n, inputs, stamp.millis)
        /\ Rolled(n, inputs, stamp.millis) \in Nat
    BY <1>1, <1>2, RolledBound, SMTT(30)
  <1> HIDE DEF stamp, inputs
  <1>4. /\ latest' = [latest EXCEPT ![n] = stamp] /\ heard' = [heard EXCEPT ![n] = stamp]
        /\ stamps' = stamps \cup {stamp}
        /\ rolls' = [rolls EXCEPT ![n] = Rolled(n, inputs, stamp.millis)] /\ rolls'[n] <= MaxRolls
    BY DEF StampNow, stamp, inputs
  <1>5. ClockTypeOK'
    BY <1>1, <1>3, <1>4, ClockAssumption, SMTT(30) DEF ClockInvariant, ClockTypeOK
  <1>6. CausesComeFirst'
    BY <1>4 DEF ClockInvariant, ClockTypeOK, CausesComeFirst, Before
  <1>7. DriftIsBounded'
    BY <1>3, <1>4, Zenon DEF ClockInvariant, ClockTypeOK, DriftIsBounded
  <1> QED
    BY <1>1, <1>4, <1>5, <1>6, <1>7, ZenonT(30) DEF ClockInvariant, ClockTypeOK

\* receive() keeps the invariant and advances the clock.
LEMMA ReceiveStep ==
    ASSUME ClockInvariant, NEW n \in ClockNode, NEW wall \in 0 .. TopWall,
           NEW remote \in stamps, ReceiveStamp(n, remote, wall)
    PROVE  ClockInvariant' /\ Before(latest[n], latest'[n])
  <1> DEFINE stamp == ReceiveAt(latest[n], remote, wall)
             clamped == Clamped(remote, wall)
             inputs == Larger(Larger(wall, latest[n].millis), clamped)
  <1>0. remote \in Stamp
    BY DEF ClockInvariant, ClockTypeOK
  <1>1. /\ stamp \in Stamp /\ Before(latest[n], stamp) /\ stamp.millis <= inputs + 1
        /\ clamped = remote.millis => Before(remote, stamp)
        /\ clamped \in Nat /\ clamped <= TopWall + Drift
        /\ rolls[n] \in 0 .. MaxRolls
    BY <1>0, RoomLeft, ReceiveAdvances, Zenon
  <1>2. inputs \in Nat /\ inputs <= TopWall + Drift + rolls[n] /\ stamp.millis \in Nat
    BY <1>1, RoomLeft, ClockAssumption, SMTT(30) DEF ClockInvariant, DriftIsBounded, Larger, Stamp
  <1>3. /\ stamp.millis <= TopWall + Drift + Rolled(n, inputs, stamp.millis)
        /\ Rolled(n, inputs, stamp.millis) \in Nat
    BY <1>1, <1>2, RolledBound, SMTT(30)
  <1> HIDE DEF stamp, inputs, clamped
  <1>4. /\ latest' = [latest EXCEPT ![n] = stamp] /\ stamps' = stamps
        /\ heard' = IF clamped = remote.millis /\ Before(heard[n], remote)
                    THEN [heard EXCEPT ![n] = remote] ELSE heard
        /\ rolls' = [rolls EXCEPT ![n] = Rolled(n, inputs, stamp.millis)] /\ rolls'[n] <= MaxRolls
    BY DEF ReceiveStamp, stamp, inputs, clamped
  <1>5. ClockTypeOK'
    BY <1>0, <1>1, <1>3, <1>4, ClockAssumption, SMTT(30) DEF ClockInvariant, ClockTypeOK
  <1>6. CausesComeFirst'
    <2>1. Before(heard[n], stamp)
      BY <1>1, RoomLeft, BeforeTransitive, Zenon DEF ClockInvariant, CausesComeFirst
    <2>2. heard'[n] \in {heard[n], remote} /\ (heard'[n] = remote => heard[n] = remote \/ clamped = remote.millis)
      BY <1>4 DEF ClockInvariant, ClockTypeOK
    <2>3. Before(heard'[n], stamp)
      BY <1>1, <2>1, <2>2, Zenon
    <2>4. latest'[n] = stamp /\ \A m \in ClockNode \ {n} : heard'[m] = heard[m] /\ latest'[m] = latest[m]
      BY <1>4 DEF ClockInvariant, ClockTypeOK
    <2> QED
      BY <2>3, <2>4, Zenon DEF ClockInvariant, CausesComeFirst
  <1>7. DriftIsBounded'
    BY <1>3, <1>4 DEF ClockInvariant, ClockTypeOK, DriftIsBounded
  <1> QED
    BY <1>1, <1>4, <1>5, <1>6, <1>7, Zenon DEF ClockInvariant, ClockTypeOK

\* The invariant holds in every state.
LEMMA ClockInvariantHolds == ClockSpec => []ClockInvariant
  <1>1. ClockInit => ClockInvariant
    BY ClockAssumption DEF ClockInit, ClockInvariant, ClockTypeOK, CausesComeFirst,
       DriftIsBounded, Zero, Stamp
  <1>2. ClockInvariant /\ [ClockNext]_clockVars => ClockInvariant'
    <2> SUFFICES ASSUME ClockInvariant, [ClockNext]_clockVars PROVE ClockInvariant'
      OBVIOUS
    <2>1. CASE ClockNext
      BY <2>1, NowStep, ReceiveStep, ZenonT(30) DEF ClockNext
    <2>2. CASE UNCHANGED clockVars
      BY <2>2 DEF clockVars, ClockInvariant, ClockTypeOK, CausesComeFirst, DriftIsBounded, Before
    <2> QED
      BY <2>1, <2>2, ZenonT(30)
  <1> QED
    BY <1>1, <1>2, PTL DEF ClockSpec

\* Every timestamp a node has sent, or received within the drift, is in the past of its
\* clock, for every history of wall clocks and deliveries.
THEOREM CausesAlwaysComeFirst == ClockSpec => []CausesComeFirst
  BY ClockInvariantHolds, PTL DEF ClockInvariant

\* No clock is further ahead of the latest wall clock than the drift and its own
\* roll-overs allow, whatever timestamps it receives.
THEOREM DriftIsAlwaysBounded == ClockSpec => []DriftIsBounded
  BY ClockInvariantHolds, PTL DEF ClockInvariant

\* A node's clock only moves forward: not when its wall clock is set back, not when the
\* counter rolls over.
THEOREM ClocksAdvance == ClockSpec => ClockAdvances
  <1>1. ClockInvariant /\ [ClockNext]_clockVars
            => (\A n \in ClockNode : latest'[n] = latest[n] \/ Before(latest[n], latest'[n]))
               \/ UNCHANGED clockVars
    <2> SUFFICES ASSUME ClockInvariant, NEW m \in ClockNode, NEW wall \in 0 .. TopWall,
                        StampNow(m, wall) \/ \E remote \in stamps : ReceiveStamp(m, remote, wall),
                        NEW n \in ClockNode
                 PROVE  latest'[n] = latest[n] \/ Before(latest[n], latest'[n])
      BY DEF ClockNext
    <2>1. CASE n = m
      BY <2>1, NowStep, ReceiveStep, ZenonT(30)
    <2>2. CASE n # m
      BY <2>2 DEF StampNow, ReceiveStamp, ClockInvariant, ClockTypeOK
    <2> QED
      BY <2>1, <2>2, ZenonT(30)
  <1> QED
    BY <1>1, ClockInvariantHolds, PTL DEF ClockSpec, ClockAdvances

-----------------------------------------------------------------------------
(* The relay's topic table.                                                *)

Items(q) == {q[i] : i \in DOMAIN q}

Distinct(q) == \A i, j \in DOMAIN q : q[i] = q[j] => i = j

\* No signer holds a topic twice; without that an eviction would not give the topic up.
NoRepeats == \A s \in Signer : Distinct(signerTopics[s])

RelayInvariant == RelayTypeOK /\ NoRepeats /\ RefcountExact

Holders(t) == {s \in Signer : t \in Held(s)}

-----------------------------------------------------------------------------
(* The queues.                                                             *)

\* Where the entries of a queue of length n come from when the i-th moves to the back.
LEMMA MovedFrom ==
    ASSUME NEW n \in Nat, NEW i \in 1 .. n, NEW j \in 1 .. n, NEW k \in 1 .. n,
           (IF j < i THEN j ELSE IF j < n THEN j + 1 ELSE i) =
           (IF k < i THEN k ELSE IF k < n THEN k + 1 ELSE i)
    PROVE  j = k
  OBVIOUS

\* Moving an entry to the back changes neither the entries nor the length.
LEMMA MovedQueue ==
    ASSUME NEW q \in Seq(Topic), NEW i \in DOMAIN q, Distinct(q)
    PROVE  /\ Moved(q, i) \in Seq(Topic) /\ Len(Moved(q, i)) = Len(q)
           /\ Distinct(Moved(q, i)) /\ Items(Moved(q, i)) = Items(q)
  <1> DEFINE r == Moved(q, i)
  <1>1. DOMAIN q = 1 .. Len(q) /\ Len(q) \in Nat /\ i \in 1 .. Len(q)
    OBVIOUS
  <1>2. /\ r = [j \in 1 .. Len(q) |->
                  IF j < i THEN q[j] ELSE IF j < Len(q) THEN q[j + 1] ELSE q[i]]
    BY <1>1 DEF Moved
  <1>3. r \in [1 .. Len(q) -> Topic]
    BY <1>1, <1>2
  <1>4. r \in Seq(Topic) /\ Len(r) = Len(q) /\ DOMAIN r = 1 .. Len(q)
    BY <1>1, <1>3
  <1>5. ASSUME NEW j \in 1 .. Len(q), NEW k \in 1 .. Len(q), r[j] = r[k]
        PROVE  j = k
    <2> DEFINE from(n) == IF n < i THEN n ELSE IF n < Len(q) THEN n + 1 ELSE i
    <2>1. \A n \in 1 .. Len(q) : from(n) \in 1 .. Len(q) /\ r[n] = q[from(n)]
      BY <1>1, <1>2, SMTT(30)
    <2>2. from(j) = from(k)
      BY <1>1, <1>5, <2>1, ZenonT(30) DEF Distinct
    <2> QED
      BY <1>1, <2>2, MovedFrom, ZenonT(30)
  <1>6. \A j \in 1 .. Len(q) : \E k \in 1 .. Len(q) : r[j] = q[k]
    BY <1>1, <1>2
  <1>7. ASSUME NEW j \in 1 .. Len(q) PROVE \E k \in 1 .. Len(q) : r[k] = q[j]
    <2>1. CASE j < i
      BY <1>1, <1>2, <2>1, ZenonT(30)
    <2>2. CASE j = i
      BY <1>1, <1>2, <2>2, SMTT(30)
    <2>3. CASE j > i
      <3>1. j - 1 \in 1 .. Len(q) /\ ~(j - 1 < i) /\ j - 1 < Len(q) /\ (j - 1) + 1 = j
        BY <1>1, <2>3
      <3> QED
        BY <1>2, <3>1
    <2> QED
      BY <1>1, <2>1, <2>2, <2>3, SMTT(30)
  <1> HIDE DEF r
  <1>8. Items(r) = Items(q)
    <2>1. Items(r) = {r[j] : j \in 1 .. Len(q)} /\ Items(q) = {q[j] : j \in 1 .. Len(q)}
      BY <1>1, <1>4 DEF Items
    <2> QED
      BY <1>6, <1>7, <2>1, ZenonT(30)
  <1> QED
    BY <1>4, <1>5, <1>8, ZenonT(30) DEF Distinct, r

\* Taking the first entry off takes it out of the entries.
LEMMA TailQueue ==
    ASSUME NEW q \in Seq(Topic), q # << >>, Distinct(q)
    PROVE  /\ Tail(q) \in Seq(Topic) /\ Len(Tail(q)) = Len(q) - 1
           /\ Distinct(Tail(q)) /\ Items(Tail(q)) = Items(q) \ {Head(q)}
           /\ Head(q) \in Items(q) /\ Head(q) \in Topic
  <1>1. /\ Len(q) \in Nat \ {0} /\ DOMAIN q = 1 .. Len(q) /\ Head(q) = q[1]
        /\ Tail(q) \in Seq(Topic) /\ Len(Tail(q)) = Len(q) - 1
        /\ DOMAIN Tail(q) = 1 .. Len(q) - 1
        /\ \A i \in 1 .. Len(q) - 1 : Tail(q)[i] = q[i + 1]
    OBVIOUS
  <1>2. Distinct(Tail(q))
    BY <1>1 DEF Distinct
  <1>3. ASSUME NEW i \in 1 .. Len(q) - 1 PROVE Tail(q)[i] \in Items(q) \ {Head(q)}
    <2>1. i + 1 \in 1 .. Len(q) /\ i + 1 # 1 /\ 1 \in 1 .. Len(q)
      BY <1>1
    <2> QED
      BY <1>1, <2>1, SMTT(30) DEF Distinct, Items
  <1>4. ASSUME NEW i \in 1 .. Len(q), q[i] # Head(q) PROVE q[i] \in Items(Tail(q))
    <2>1. i # 1
      BY <1>1, <1>4, Zenon
    <2>2. i - 1 \in 1 .. Len(q) - 1 /\ (i - 1) + 1 = i
      BY <1>1, <2>1, SMTT(30)
    <2> QED
      BY <1>1, <2>2, Zenon DEF Items
  <1> QED
    BY <1>1, <1>2, <1>3, <1>4 DEF Items

\* A new entry at the back.
LEMMA AppendQueue ==
    ASSUME NEW q \in Seq(Topic), NEW t \in Topic, Distinct(q), t \notin Items(q)
    PROVE  /\ Append(q, t) \in Seq(Topic) /\ Len(Append(q, t)) = Len(q) + 1
           /\ Distinct(Append(q, t)) /\ Items(Append(q, t)) = Items(q) \cup {t}
  <1>1. /\ Len(q) \in Nat /\ DOMAIN q = 1 .. Len(q)
        /\ Append(q, t) \in Seq(Topic) /\ Len(Append(q, t)) = Len(q) + 1
        /\ DOMAIN Append(q, t) = 1 .. Len(q) + 1
        /\ \A i \in 1 .. Len(q) : Append(q, t)[i] = q[i]
        /\ Append(q, t)[Len(q) + 1] = t
    OBVIOUS
  <1>2. \A i \in 1 .. Len(q) + 1 : i \in 1 .. Len(q) \/ i = Len(q) + 1
    BY <1>1
  <1>3. 1 .. Len(q) \subseteq 1 .. Len(q) + 1 /\ Len(q) + 1 \in 1 .. Len(q) + 1
    BY <1>1
  <1>4. Distinct(Append(q, t))
    BY <1>1, <1>2, ZenonT(30) DEF Distinct, Items
  <1>5. Items(Append(q, t)) = Items(q) \cup {t}
    BY <1>1, <1>2, <1>3, Zenon DEF Items
  <1> QED
    BY <1>1, <1>4, <1>5, Zenon

-----------------------------------------------------------------------------
(* The count of a set that one signer enters or leaves.                    *)

\* A finite set of signers has one element less without one of them, and one more with
\* a new one.
LEMMA OneMoreOrLess ==
    ASSUME NEW A \in SUBSET Signer, NEW s \in Signer
    PROVE  /\ Cardinality(A) \in Nat
           /\ s \in A => Cardinality(A \ {s}) = Cardinality(A) - 1 /\ Cardinality(A) > 0
           /\ s \notin A => Cardinality(A \cup {s}) = Cardinality(A) + 1
  <1>1. IsFiniteSet(A)
    BY RelayAssumption, FS_Subset
  <1>2. Cardinality(A) \in Nat /\ (Cardinality(A) = 0 <=> A = {})
    BY <1>1, FS_CardinalityType, FS_EmptySet, ZenonT(30)
  <1>3. s \in A => Cardinality(A \ {s}) = Cardinality(A) - 1
    BY <1>1, FS_RemoveElement
  <1>4. s \notin A => Cardinality(A \cup {s}) = Cardinality(A) + 1
    BY <1>1, FS_AddElement, ZenonT(30)
  <1> QED
    BY <1>2, <1>3, <1>4, SMTT(30)

\* A subset of a table is no larger, and a new topic makes it larger by one.
LEMMA TableSize ==
    ASSUME NEW A \in SUBSET Topic
    PROVE  /\ Cardinality(A) \in Nat
           /\ \A B \in SUBSET A : Cardinality(B) <= Cardinality(A)
           /\ \A t \in Topic \ A : Cardinality(A \cup {t}) = Cardinality(A) + 1
  <1>1. IsFiniteSet(A)
    BY RelayAssumption, FS_Subset, ZenonT(30)
  <1> QED
    BY <1>1, FS_CardinalityType, FS_Subset, FS_AddElement, ZenonT(30)

-----------------------------------------------------------------------------
(* process_topic.                                                          *)

\* The state after the eviction that makes room: the queue has room, and the counts are
\* those of the queues as they then are.
LEMMA Eviction ==
    ASSUME RelayInvariant, NEW s \in Signer
    PROVE  /\ Kept(s) \in Seq(Topic) /\ Distinct(Kept(s)) /\ Len(Kept(s)) + 1 <= MaxPerSigner
           /\ Items(Kept(s)) \subseteq Held(s)
           /\ Released(s) \in [Topic -> Nat]
           /\ \A t \in Topic :
                /\ Released(s)[t] <= refcount[t]
                /\ Released(s)[t] =
                     Cardinality({x \in Signer : t \in IF x = s THEN Items(Kept(s)) ELSE Held(x)})
  <1> DEFINE q == signerTopics[s]
             after(t) == {x \in Signer : t \in IF x = s THEN Items(Kept(s)) ELSE Held(x)}
  <1>1. /\ q \in Seq(Topic) /\ Distinct(q) /\ Len(q) <= MaxPerSigner /\ Held(s) = Items(q)
        /\ MaxPerSigner \in Nat \ {0} /\ Len(q) \in Nat
        /\ refcount \in [Topic -> Nat]
        /\ \A t \in Topic : refcount[t] = Cardinality(Holders(t))
    <2>1. q \in Seq(Topic) /\ refcount \in [Topic -> Nat] /\ MaxPerSigner \in Nat \ {0}
      BY RelayAssumption DEF RelayInvariant, RelayTypeOK
    <2>2. Distinct(q) /\ Len(q) <= MaxPerSigner
      BY DEF RelayInvariant, NoRepeats, RefcountExact
    <2>3. Held(s) = Items(q)
      BY DEF Held, Items
    <2>4. \A t \in Topic : refcount[t] = Cardinality(Holders(t))
      BY Zenon DEF RelayInvariant, RefcountExact, Holders
    <2> QED
      BY <2>1, <2>2, <2>3, <2>4, SMTT(30)
  <1>2. CASE ~ Full(s)
    <2>1. Kept(s) = q /\ Released(s) = refcount
      BY <1>2 DEF Kept, Released
    <2>2. \A t \in Topic : after(t) = Holders(t)
      BY <1>1, <2>1, Zenon DEF Holders
    <2>3. Len(q) + 1 <= MaxPerSigner
      BY <1>1, <1>2, SMTT(30) DEF Full
    <2>4. \A t \in Topic : refcount[t] <= refcount[t] /\ refcount[t] = Cardinality(after(t))
      <3> HIDE DEF after
      <3> QED  BY <1>1, <2>2, SMTT(30)
    <2> QED
      BY <1>1, <2>1, <2>3, <2>4, Zenon
  <1>3. CASE Full(s)
    <2> DEFINE u == Head(q)
    <2>1. Kept(s) = Tail(q) /\ Released(s) = [refcount EXCEPT ![u] = @ - 1] /\ q # << >>
      BY <1>1, <1>3, SMTT(30) DEF Kept, Released, Full
    <2>2. /\ Tail(q) \in Seq(Topic) /\ Len(Tail(q)) = Len(q) - 1
          /\ Distinct(Tail(q)) /\ Items(Tail(q)) = Items(q) \ {u}
          /\ u \in Items(q) /\ u \in Topic
      BY <1>1, <2>1, TailQueue, Zenon
    <2> HIDE DEF q, u
    <2>3. after(u) = Holders(u) \ {s} /\ s \in Holders(u)
      BY <1>1, <2>1, <2>2, Zenon DEF Holders
    <2>4. \A t \in Topic \ {u} : after(t) = Holders(t)
      BY <1>1, <2>1, <2>2, ZenonT(30) DEF Holders
    <2>5. Cardinality(after(u)) = refcount[u] - 1 /\ refcount[u] \in Nat /\ refcount[u] > 0
      <3>1. Holders(u) \in SUBSET Signer
        BY DEF Holders
      <3>2. /\ Cardinality(Holders(u) \ {s}) = Cardinality(Holders(u)) - 1
            /\ Cardinality(Holders(u)) > 0
        BY <2>3, <3>1, OneMoreOrLess, ZenonT(30)
      <3> QED
        BY <1>1, <2>2, <2>3, <3>2, Zenon
    <2>6. Released(s) \in [Topic -> Nat] /\ \A t \in Topic : Released(s)[t] <= refcount[t]
      BY <1>1, <2>1, <2>2, <2>5, SMTT(30)
    <2>7. \A t \in Topic : Released(s)[t] = Cardinality(after(t))
      BY <1>1, <2>1, <2>2, <2>4, <2>5, ZenonT(30)
    <2> QED
      BY <1>1, <2>1, <2>2, <2>6, <2>7, SMTT(30) DEF q
  <1> QED
    BY <1>2, <1>3, ZenonT(30)

\* What is left of a table after an eviction is part of it.
LEMMA ReleasedTable ==
    ASSUME RelayInvariant, NEW s \in Signer
    PROVE  /\ Table(Released(s)) \in SUBSET Table(refcount)
           /\ Table(refcount) \in SUBSET Topic
           /\ Cardinality(Table(Released(s))) <= MaxTopics
           /\ Cardinality(Table(Released(s))) \in Nat
  <1>1. Table(Released(s)) \in SUBSET Table(refcount)
    <2>1. /\ Released(s) \in [Topic -> Nat] /\ refcount \in [Topic -> Nat]
          /\ \A t \in Topic : Released(s)[t] <= refcount[t]
      BY Eviction, ZenonT(30) DEF RelayInvariant, RelayTypeOK
    <2>2. \A t \in Topic : Released(s)[t] > 0 => refcount[t] > 0
      BY <2>1, SMTT(30)
    <2> QED
      BY <2>2, ZenonT(30) DEF Table
  <1>2. Table(refcount) \in SUBSET Topic /\ Cardinality(Table(refcount)) <= MaxTopics
    BY DEF Table, RelayInvariant, RefcountExact
  <1>3. /\ Cardinality(Table(Released(s))) <= Cardinality(Table(refcount))
        /\ Cardinality(Table(Released(s))) \in Nat /\ Cardinality(Table(refcount)) \in Nat
    BY <1>1, <1>2, TableSize, ZenonT(30)
  <1> QED
    BY <1>1, <1>2, <1>3, RelayAssumption, SMTT(30)

\* A promotion keeps the invariant.
LEMMA PromoteStep ==
    ASSUME RelayInvariant, NEW s \in Signer, NEW t \in Topic, Promote(s, t)
    PROVE  RelayInvariant'
  <1>1. PICK i \in DOMAIN signerTopics[s] :
            signerTopics' = [signerTopics EXCEPT ![s] = Moved(signerTopics[s], i)]
    BY Zenon DEF Promote
  <1>2. signerTopics[s] \in Seq(Topic) /\ Distinct(signerTopics[s])
    BY DEF RelayInvariant, RelayTypeOK, NoRepeats
  <1> DEFINE q == Moved(signerTopics[s], i)
  <1>3. /\ q \in Seq(Topic) /\ Len(q) = Len(signerTopics[s])
        /\ Distinct(q) /\ Items(q) = Items(signerTopics[s])
    BY <1>2, MovedQueue, ZenonT(30)
  <1> HIDE DEF q
  <1>4. /\ signerTopics' \in [Signer -> Seq(Topic)]
        /\ signerTopics'[s] = q /\ \A x \in Signer \ {s} : signerTopics'[x] = signerTopics[x]
    BY <1>1, <1>3, ZenonT(30) DEF RelayInvariant, RelayTypeOK, q
  <1>5. \A x \in Signer : Held(x)' = Held(x)
    <2>1. \A x \in Signer : Held(x) = Items(signerTopics[x]) /\ Held(x)' = Items(signerTopics'[x])
      BY DEF Held, Items
    <2> QED
      BY <1>3, <1>4, <2>1, ZenonT(30)
  <1>6. RelayTypeOK' /\ NoRepeats'
    BY <1>3, <1>4, ZenonT(30) DEF RelayInvariant, RelayTypeOK, NoRepeats, Promote, Distinct
  <1>7. \A u \in Topic : {x \in Signer : u \in Held(x)'} = {x \in Signer : u \in Held(x)}
    BY <1>5
  <1>8. RefcountExact'
    <2>1. \A u \in Topic : refcount'[u] = Cardinality({x \in Signer : u \in Held(x)})'
      BY <1>7, ZenonT(30) DEF RelayInvariant, RefcountExact, Promote
    <2>2. \A x \in Signer : Len(signerTopics'[x]) <= MaxPerSigner
      BY <1>3, <1>4, ZenonT(30) DEF RelayInvariant, RefcountExact
    <2>3. Cardinality(Table(refcount)') <= MaxTopics
      BY DEF RelayInvariant, RefcountExact, Promote, Table
    <2> QED
      BY <2>1, <2>2, <2>3, ZenonT(30) DEF RefcountExact
  <1> QED
    BY <1>6, <1>8 DEF RelayInvariant

\* A refusal, which keeps the eviction made for it, keeps the invariant.
LEMMA RefuseStep ==
    ASSUME RelayInvariant, NEW s \in Signer, NEW t \in Topic, Refuse(s, t)
    PROVE  RelayInvariant'
  <1> DEFINE q == Kept(s)
  <1>1. /\ q \in Seq(Topic) /\ Distinct(q) /\ Len(q) + 1 <= MaxPerSigner
        /\ Released(s) \in [Topic -> Nat]
        /\ \A u \in Topic : Released(s)[u] =
                Cardinality({x \in Signer : u \in IF x = s THEN Items(q) ELSE Held(x)})
    BY Eviction, ZenonT(30)
  <1>2. signerTopics' = [signerTopics EXCEPT ![s] = q] /\ refcount' = Released(s)
    BY DEF Refuse
  <1> HIDE DEF q
  <1>3. /\ signerTopics' \in [Signer -> Seq(Topic)]
        /\ signerTopics'[s] = q /\ \A x \in Signer \ {s} : signerTopics'[x] = signerTopics[x]
    BY <1>1, <1>2, ZenonT(30) DEF RelayInvariant, RelayTypeOK
  <1>4. Held(s)' = Items(q) /\ \A x \in Signer \ {s} : Held(x)' = Held(x)
    BY <1>3 DEF Held, Items
  <1>5. NoRepeats'
    BY <1>1, <1>3, ZenonT(30) DEF RelayInvariant, NoRepeats, Distinct
  <1>6. RelayTypeOK'
    <2>1. topics' \in SUBSET Topic /\ failed' \in SUBSET Topic
      BY ReleasedTable, ZenonT(30) DEF Refuse, Drive, RelayInvariant, RelayTypeOK
    <2> QED
      BY <1>1, <1>2, <1>3, <2>1, ZenonT(30) DEF RelayTypeOK
  <1>7. \A u \in Topic : {x \in Signer : u \in Held(x)}' =
                         {x \in Signer : u \in IF x = s THEN Items(q) ELSE Held(x)}
    BY <1>4
  <1>8. RefcountExact'
    <2>1. \A u \in Topic : refcount'[u] = Cardinality({x \in Signer : u \in Held(x)})'
      BY <1>1, <1>2, <1>7, ZenonT(30)
    <2>2. \A x \in Signer : Len(signerTopics'[x]) <= MaxPerSigner
      BY <1>1, <1>3, RelayAssumption, SMTT(30) DEF RelayInvariant, RefcountExact
    <2>3. Cardinality(Table(refcount)') <= MaxTopics
      BY <1>2, ReleasedTable, Zenon DEF Table
    <2> QED
      BY <2>1, <2>2, <2>3, ZenonT(30) DEF RefcountExact
  <1> QED
    BY <1>5, <1>6, <1>8, ZenonT(30) DEF RelayInvariant

\* A topic that is accepted, with the eviction made for it, keeps the invariant.
LEMMA AcceptStep ==
    ASSUME RelayInvariant, NEW s \in Signer, NEW t \in Topic, Accept(s, t)
    PROVE  RelayInvariant'
  <1> DEFINE k == Kept(s)
             q == Append(k, t)
             after(u) == {x \in Signer : u \in IF x = s THEN Items(k) ELSE Held(x)}
             then(u) == {x \in Signer : u \in IF x = s THEN Items(q) ELSE Held(x)}
  <1>1. /\ k \in Seq(Topic) /\ Distinct(k) /\ Len(k) + 1 <= MaxPerSigner
        /\ Items(k) \subseteq Held(s)
        /\ Released(s) \in [Topic -> Nat]
        /\ \A u \in Topic : Released(s)[u] = Cardinality(after(u))
    BY Eviction, Zenon
  <1>2. /\ signerTopics' = [signerTopics EXCEPT ![s] = q]
        /\ refcount' = [Released(s) EXCEPT ![t] = @ + 1]
        /\ t \notin Items(k)
    BY <1>1, Zenon DEF Accept
  <1>3. q \in Seq(Topic) /\ Len(q) = Len(k) + 1 /\ Distinct(q) /\ Items(q) = Items(k) \cup {t}
    BY <1>1, <1>2, AppendQueue, Zenon
  <1> HIDE DEF k, q
  <1>4. /\ signerTopics' \in [Signer -> Seq(Topic)]
        /\ signerTopics'[s] = q /\ \A x \in Signer \ {s} : signerTopics'[x] = signerTopics[x]
    BY <1>2, <1>3, ZenonT(30) DEF RelayInvariant, RelayTypeOK
  <1>5. Held(s)' = Items(q) /\ \A x \in Signer \ {s} : Held(x)' = Held(x)
    BY <1>4, ZenonT(30) DEF Held, Items
  <1>6. NoRepeats'
    BY <1>3, <1>4, ZenonT(30) DEF RelayInvariant, NoRepeats, Distinct
  <1>7. RelayTypeOK'
    <2>1. topics' \in SUBSET Topic /\ failed' \in SUBSET Topic
      BY ReleasedTable DEF Accept, Drive, RelayInvariant, RelayTypeOK
    <2> QED
      BY <1>1, <1>2, <1>4, <2>1, SMTT(30) DEF RelayTypeOK
  <1>8. \A u \in Topic : {x \in Signer : u \in Held(x)}' = then(u)
    BY <1>5, Zenon
  <1>9. \A u \in Topic \ {t} : then(u) = after(u)
    BY <1>3, Zenon
  <1>10. then(t) = after(t) \cup {s} /\ s \notin after(t) /\ after(t) \in SUBSET Signer
    BY <1>2, <1>3, Zenon
  <1>11. Cardinality(then(t)) = Released(s)[t] + 1
    BY <1>1, <1>10, OneMoreOrLess, ZenonT(30)
  <1>12. \A u \in Topic : refcount'[u] = Cardinality({x \in Signer : u \in Held(x)})'
    <2> HIDE DEF after, then
    <2> QED
      BY <1>1, <1>2, <1>8, <1>9, <1>11, Zenon
  <1>13. \A x \in Signer : Len(signerTopics'[x]) <= MaxPerSigner
    BY <1>1, <1>3, <1>4, ZenonT(30) DEF RelayInvariant, RefcountExact
  <1>14. Cardinality(Table(refcount)') <= MaxTopics
    <2>1. Table(refcount)' = Table(Released(s)) \cup {t}
      BY <1>1, <1>2, SMTT(30) DEF Table
    <2>2. Table(Released(s)) \in SUBSET Topic
      BY DEF Table
    <2>3. CASE t \in Table(Released(s))
      <3>1. Table(refcount)' = Table(Released(s))
        BY <2>1, <2>3, Zenon
      <3> QED
        BY <3>1, ReleasedTable, Zenon
    <2>4. CASE t \notin Table(Released(s))
      <3>1. Cardinality(Table(Released(s))) < MaxTopics
        BY <2>4, Zenon DEF Accept
      <3>2. Cardinality(Table(Released(s)) \cup {t}) = Cardinality(Table(Released(s))) + 1
        BY <2>2, <2>4, TableSize, ZenonT(30)
      <3> QED
        BY <2>1, <3>1, <3>2, ReleasedTable, RelayAssumption, SMTT(30)
    <2> QED
      BY <2>3, <2>4, ZenonT(30)
  <1> QED
    BY <1>6, <1>7, <1>12, <1>13, <1>14, Zenon DEF RelayInvariant, RefcountExact

\* The invariant holds in every state.
LEMMA RelayInvariantHolds == RelaySpec => []RelayInvariant
  <1>1. RelayInit => RelayInvariant
    <2> SUFFICES ASSUME RelayInit PROVE RelayInvariant
      OBVIOUS
    <2>1. RelayTypeOK /\ NoRepeats
      BY DEF RelayInit, RelayTypeOK, NoRepeats, Distinct
    <2>2. \A s \in Signer : Held(s) = {} /\ Len(signerTopics[s]) = 0
      BY DEF RelayInit, Held
    <2>3. Cardinality({}) = 0
      BY FS_EmptySet
    <2>4. Table(refcount) = {} /\ \A t \in Topic : {s \in Signer : t \in Held(s)} = {}
      BY <2>2 DEF RelayInit, Table
    <2>5. RefcountExact
      <3>1. \A t \in Topic : refcount[t] = Cardinality({s \in Signer : t \in Held(s)})
        BY <2>3, <2>4, ZenonT(30) DEF RelayInit
      <3>2. \A s \in Signer : Len(signerTopics[s]) <= MaxPerSigner
        BY <2>2, RelayAssumption, SMTT(30)
      <3>3. Cardinality(Table(refcount)) <= MaxTopics
        BY <2>3, <2>4, RelayAssumption, SMTT(30)
      <3> QED
        BY <3>1, <3>2, <3>3, ZenonT(30) DEF RefcountExact
    <2> QED
      BY <2>1, <2>5 DEF RelayInvariant
  <1>2. RelayInvariant /\ [RelayNext]_relayVars => RelayInvariant'
    <2> SUFFICES ASSUME RelayInvariant, [RelayNext]_relayVars PROVE RelayInvariant'
      OBVIOUS
    <2>1. CASE RelayNext
      BY <2>1, PromoteStep, RefuseStep, AcceptStep, ZenonT(30) DEF RelayNext, Announce
    <2>2. CASE UNCHANGED relayVars
      BY <2>2, ZenonT(30) DEF relayVars, RelayInvariant, RelayTypeOK, NoRepeats, Distinct, RefcountExact,
         Held, Table
    <2> QED
      BY <2>1, <2>2, ZenonT(30)
  <1> QED
    BY <1>1, <1>2, PTL DEF RelaySpec

\* The reference counts of the relay's topic table are exact and its limits hold, for
\* any number of signers and topics.
THEOREM RefcountsStayExact == RelaySpec => []RefcountExact
  BY RelayInvariantHolds, PTL DEF RelayInvariant

\* The relay is subscribed to the topics that somebody holds, and to no others, where no
\* network call failed.
THEOREM SubscriptionsFollowCounts == RelaySpec => []SubscribedIsCounted
  <1>1. RelayInit => SubscribedIsCounted
    BY SMTT(30) DEF RelayInit, SubscribedIsCounted
  <1>2. RelayInvariant /\ SubscribedIsCounted /\ [RelayNext]_relayVars => SubscribedIsCounted'
    <2> SUFFICES ASSUME RelayInvariant, SubscribedIsCounted, [RelayNext]_relayVars
                 PROVE  SubscribedIsCounted'
      OBVIOUS
    <2>1. ASSUME UNCHANGED <<refcount, topics, failed>> PROVE SubscribedIsCounted'
      BY <2>1, ZenonT(30) DEF SubscribedIsCounted
    <2>2. ASSUME NEW s \in Signer, NEW t \in Topic, Refuse(s, t)
          PROVE  SubscribedIsCounted'
      <3> DEFINE leave == Table(refcount) \ Table(Released(s))
      <3>1. PICK bad \in SUBSET leave :
                topics' = topics \ (leave \ bad) /\ failed' = (failed \ leave) \cup bad
        BY <2>2, ZenonT(30) DEF Refuse, Drive
      <3>2. /\ refcount' = Released(s)
            /\ \A u \in Topic : (u \in Table(refcount) <=> refcount[u] > 0)
                             /\ (u \in Table(Released(s)) <=> Released(s)[u] > 0)
        BY <2>2, ZenonT(30) DEF Refuse, Table
      <3>3. Table(Released(s)) \in SUBSET Table(refcount)
        BY ReleasedTable, ZenonT(30)
      <3> HIDE DEF leave
      <3>4. SUFFICES ASSUME NEW u \in Topic \ failed'
                     PROVE  u \in topics' <=> refcount'[u] > 0
        BY Zenon DEF SubscribedIsCounted
      <3>5. CASE u \in leave
        BY <3>1, <3>2, <3>5, ZenonT(30) DEF leave
      <3>6. CASE u \notin leave
        <4>1. u \in topics <=> refcount[u] > 0
          BY <3>1, <3>6, ZenonT(30) DEF SubscribedIsCounted
        <4> QED
          BY <3>1, <3>2, <3>3, <3>6, <4>1, ZenonT(30) DEF leave
      <3> QED
        BY <3>5, <3>6, ZenonT(30)
    <2>3. ASSUME NEW s \in Signer, NEW t \in Topic, Accept(s, t)
          PROVE  SubscribedIsCounted'
      <3> DEFINE leave == Table(refcount) \ Table(Released(s))
                 enter == {t} \ Table(Released(s))
      <3>1. PICK bad \in SUBSET (leave \cup enter) :
                /\ topics' = (topics \ (leave \ bad)) \cup (enter \ bad)
                /\ failed' = (failed \ (leave \cup enter)) \cup bad
        BY <2>3, ZenonT(30) DEF Accept, Drive
      <3>2. /\ refcount' = [Released(s) EXCEPT ![t] = @ + 1]
            /\ Released(s) \in [Topic -> Nat]
        BY <2>3, Eviction, ZenonT(30) DEF Accept
      <3>3. \A u \in Topic : /\ u \in Table(refcount) <=> refcount[u] > 0
                             /\ u \in Table(Released(s)) <=> Released(s)[u] > 0
                             /\ refcount'[u] > 0 <=> u = t \/ Released(s)[u] > 0
        BY <3>2, SMTT(30) DEF Table
      <3>4. Table(Released(s)) \in SUBSET Table(refcount)
        BY ReleasedTable, Zenon
      <3>5. t \notin leave
        <4>1. t \notin Held(s)
          BY <2>3, Zenon DEF Accept
        <4>2. Full(s) => Head(signerTopics[s]) \in Held(s)
          <5>1. signerTopics[s] \in Seq(Topic) /\ (Full(s) => signerTopics[s] # << >>)
            BY RelayAssumption, SMTT(30) DEF RelayInvariant, RelayTypeOK, Full
          <5>2. Distinct(signerTopics[s])
            BY Zenon DEF RelayInvariant, NoRepeats
          <5>3. Held(s) = Items(signerTopics[s])
            BY Zenon DEF Held, Items
          <5> QED
            BY <5>1, <5>2, <5>3, TailQueue, Zenon
        <4>3. refcount \in [Topic -> Nat]
          BY DEF RelayInvariant, RelayTypeOK
        <4>4. Released(s)[t] = refcount[t]
          BY <4>1, <4>2, <4>3, ZenonT(30) DEF Released
        <4> QED
          BY <3>3, <4>4, Zenon
      <3> HIDE DEF leave, enter
      <3>6. SUFFICES ASSUME NEW u \in Topic \ failed'
                     PROVE  u \in topics' <=> refcount'[u] > 0
        BY DEF SubscribedIsCounted
      <3>7. u \notin bad /\ (u \in failed => u \in leave \cup enter)
        BY <3>1, ZenonT(30)
      <3>8. CASE u \in enter
        BY <3>1, <3>3, <3>7, <3>8, ZenonT(30) DEF enter
      <3>9. CASE u \in leave
        BY <3>1, <3>3, <3>5, <3>7, <3>9, ZenonT(30) DEF leave, enter
      <3>10. CASE u \notin leave /\ u \notin enter
        <4>1. u \in topics <=> refcount[u] > 0
          BY <3>7, <3>10, ZenonT(30) DEF SubscribedIsCounted
        <4> QED
          BY <3>1, <3>3, <3>4, <3>10, <4>1, ZenonT(30) DEF leave, enter
      <3> QED
        BY <3>8, <3>9, <3>10, ZenonT(30)
    <2> QED
      BY <2>1, <2>2, <2>3, Zenon DEF RelayNext, Announce, Promote, relayVars
  <1> QED
    BY <1>1, <1>2, RelayInvariantHolds, PTL DEF RelaySpec

-----------------------------------------------------------------------------
(* The index (SearchIndex).                                                *)

IndexInv == DOMAIN postings = Token /\ PostingsExact

\* `insert' puts a document into lists that hold nothing of its message.
LEMMA InsertKeeps ==
    ASSUME IndexInv, NEW d \in Doc, Insert(d)
    PROVE  IndexInv'
<1>1. CASE ~ (Allowed(d) /\ MessageOf[d] \notin DOMAIN by_msg)
  BY <1>1, SMTT(30) DEF Insert, IndexInv, PostingsExact
<1>2. CASE Allowed(d) /\ MessageOf[d] \notin DOMAIN by_msg
  <2> DEFINE m == MessageOf[d]
  <2>1. /\ postings' = [t \in Token |->
              IF t \in TokensOf[d] THEN postings[t] \cup {d} ELSE postings[t]]
        /\ by_msg' = [k \in DOMAIN by_msg \cup {m} |->
              IF k = m THEN TokensOf[d] ELSE by_msg[k]]
    BY <1>2 DEF Insert
  <2>2. TokensOf[d] \subseteq Token
    BY SearchAssumption
  <2>3. \A t \in Token : \A e \in postings[t] : MessageOf[e] # m
    BY <1>2, Zenon DEF IndexInv, PostingsExact
  <2>4. \A t \in Token : \A e \in postings'[t] :
            MessageOf[e] \in DOMAIN by_msg' /\ t \in by_msg'[MessageOf[e]]
    BY <2>1, <2>3, SMTT(30) DEF IndexInv, PostingsExact
  <2>5. ASSUME NEW k \in DOMAIN by_msg'
        PROVE  \E e \in Doc : /\ MessageOf[e] = k /\ by_msg'[k] = TokensOf[e]
                              /\ \A t \in TokensOf[e] : {f \in postings'[t] : MessageOf[f] = k} = {e}
    <3>1. CASE k = m
      <4>1. \A t \in TokensOf[d] : {f \in postings'[t] : MessageOf[f] = k} = {d}
        BY <2>1, <2>2, <2>3, <3>1, Zenon
      <4> QED
        BY <2>1, <3>1, <4>1, Zenon
    <3>2. CASE k # m
      <4>1. k \in DOMAIN by_msg /\ by_msg'[k] = by_msg[k]
        BY <2>1, <3>2, ZenonT(30)
      <4>2. PICK e \in Doc : /\ MessageOf[e] = k /\ by_msg[k] = TokensOf[e]
                             /\ \A t \in TokensOf[e] : {f \in postings[t] : MessageOf[f] = k} = {e}
        BY <4>1, ZenonT(30) DEF IndexInv, PostingsExact
      <4>3. TokensOf[e] \subseteq Token
        BY SearchAssumption, ZenonT(30)
      <4>4. \A t \in TokensOf[e] : {f \in postings'[t] : MessageOf[f] = k}
                                     = {f \in postings[t] : MessageOf[f] = k}
        BY <2>1, <3>2, <4>3, ZenonT(30)
      <4> QED
        BY <4>1, <4>2, <4>4, ZenonT(30)
    <3> QED
      BY <3>1, <3>2, Zenon
  <2> QED
    BY <2>1, <2>4, <2>5, Zenon DEF IndexInv, PostingsExact
<1> QED
  BY <1>1, <1>2, ZenonT(30)

\* `remove_message' finds every list the message is in.
LEMMA ForgetKeeps ==
    ASSUME IndexInv, NEW ids, Forget(ids)
    PROVE  IndexInv'
<1>1. /\ DOMAIN postings' = Token
      /\ by_msg' = [m \in DOMAIN by_msg \ ids |-> by_msg[m]]
      /\ \A t \in Token : postings'[t] =
            {d \in postings[t] : ~ (/\ MessageOf[d] \in ids \cap DOMAIN by_msg
                                    /\ t \in by_msg[MessageOf[d]])}
  BY ZenonT(30) DEF Forget
<1>2. \A t \in Token : postings'[t] = {d \in postings[t] : MessageOf[d] \notin ids}
  BY <1>1, ZenonT(30) DEF IndexInv, PostingsExact
<1>3. \A t \in Token : \A d \in postings'[t] :
          MessageOf[d] \in DOMAIN by_msg' /\ t \in by_msg'[MessageOf[d]]
  BY <1>1, <1>2, SMTT(30) DEF IndexInv, PostingsExact
<1>4. ASSUME NEW m \in DOMAIN by_msg'
      PROVE  \E d \in Doc : /\ MessageOf[d] = m /\ by_msg'[m] = TokensOf[d]
                            /\ \A t \in TokensOf[d] : {e \in postings'[t] : MessageOf[e] = m} = {d}
  <2>1. m \in DOMAIN by_msg /\ m \notin ids /\ by_msg'[m] = by_msg[m]
    BY <1>1, Zenon
  <2>2. PICK d \in Doc : /\ MessageOf[d] = m /\ by_msg[m] = TokensOf[d]
                         /\ \A t \in TokensOf[d] : {e \in postings[t] : MessageOf[e] = m} = {d}
    BY <2>1, Zenon DEF IndexInv, PostingsExact
  <2>3. TokensOf[d] \subseteq Token
    BY SearchAssumption, Zenon
  <2>4. \A t \in TokensOf[d] : {e \in postings'[t] : MessageOf[e] = m}
                                 = {e \in postings[t] : MessageOf[e] = m}
    BY <1>2, <2>1, <2>3, ZenonT(30)
  <2> QED
    BY <2>1, <2>2, <2>4, Zenon
<1> QED
  BY <1>1, <1>3, <1>4, ZenonT(30) DEF IndexInv, PostingsExact

LEMMA RebuildKeeps ==
    ASSUME NEW docs \in SUBSET Doc, Rebuild(docs)
    PROVE  IndexInv'
<1>1. /\ postings' = [t \in Token |-> {d \in docs : t \in TokensOf[d]}]
      /\ by_msg' = [m \in {MessageOf[d] : d \in docs} |->
                        TokensOf[CHOOSE d \in docs : MessageOf[d] = m]]
      /\ \A d, e \in docs : MessageOf[d] = MessageOf[e] => d = e
  BY DEF Rebuild
<1>2. ASSUME NEW d \in docs PROVE (CHOOSE e \in docs : MessageOf[e] = MessageOf[d]) = d
  BY <1>1
<1>3. \A d \in docs : MessageOf[d] \in DOMAIN by_msg' /\ by_msg'[MessageOf[d]] = TokensOf[d]
  BY <1>1, <1>2, ZenonT(30)
<1>4. \A t \in Token : \A d \in postings'[t] :
          MessageOf[d] \in DOMAIN by_msg' /\ t \in by_msg'[MessageOf[d]]
  BY <1>1, <1>3, ZenonT(30)
<1>5. ASSUME NEW m \in DOMAIN by_msg'
      PROVE  \E d \in Doc : /\ MessageOf[d] = m /\ by_msg'[m] = TokensOf[d]
                            /\ \A t \in TokensOf[d] : {e \in postings'[t] : MessageOf[e] = m} = {d}
  <2>1. PICK d \in docs : MessageOf[d] = m
    BY <1>1, ZenonT(30)
  <2>2. TokensOf[d] \subseteq Token
    BY SearchAssumption, ZenonT(30)
  <2>3. \A t \in TokensOf[d] : {e \in postings'[t] : MessageOf[e] = m} = {d}
    BY <1>1, <2>1, <2>2, ZenonT(30)
  <2> QED
    BY <1>3, <2>1, <2>3, ZenonT(30)
<1> QED
  BY <1>1, <1>4, <1>5, ZenonT(30) DEF IndexInv, PostingsExact

LEMMA IndexStarts == SearchInit => IndexInv
  BY DEF SearchInit, IndexInv, PostingsExact

\* The two tables of the index tell the same after any sequence of insertions, removals
\* of messages, channels and groves, rebuilds and changes of the configuration.
THEOREM PostingsStayExact == SearchSpec => []PostingsExact
<1>1. IndexInv /\ [SearchNext]_searchVars => IndexInv'
  <2> SUFFICES ASSUME IndexInv, [SearchNext]_searchVars PROVE IndexInv'
    OBVIOUS
  <2>1. ASSUME NEW d \in Doc, Insert(d) PROVE IndexInv'
    BY <2>1, InsertKeeps
  <2>2. ASSUME NEW ids, Forget(ids) PROVE IndexInv'
    BY <2>2, ForgetKeeps, ZenonT(30)
  <2>3. ASSUME NEW docs \in SUBSET Doc, Rebuild(docs) PROVE IndexInv'
    BY <2>3, RebuildKeeps, ZenonT(30)
  <2>4. ASSUME UNCHANGED <<postings, by_msg>> PROVE IndexInv'
    BY <2>4, ZenonT(30) DEF IndexInv, PostingsExact
  <2> QED
    BY <2>1, <2>2, <2>3, <2>4, ZenonT(30)
       DEF SearchNext, RemoveMessage, RemoveChannel, RemoveGrove, SetConfig, searchVars
<1> QED
  BY <1>1, IndexStarts, PTL DEF SearchSpec, IndexInv

-----------------------------------------------------------------------------
(* How the index follows the messages (SearchIndexer).                     *)

Message == Range(MessageOf)
ShownMessages == {MessageOf[d] : d \in shown}

Event == [kind : {"Received", "Edited", "Deleted", "ChannelDeleted"},
          channel : SearchChannel \cup {NoChannel}, message : Message \cup {NoChannel}]

Mail == {InsertMail(d) : d \in Doc} \cup {RemoveMail(m) : m \in Message \cup {NoChannel}}
            \cup {RemoveChannelMail(c) : c \in SearchChannel \cup {NoChannel}}

\* What a message of the search actor's mailbox, or an event, does to message m.
Inserts(msg, m) == msg.kind = "Insert" /\ MessageOf[msg.doc] = m
Removes(msg, m) ==
    \/ msg.kind = "RemoveMessage" /\ msg.message = m
    \/ msg.kind = "RemoveChannel" /\ \E d \in Doc : MessageOf[d] = m /\ ChannelOf[d] = msg.channel
Deletes(event, m) == event.kind \in {"Deleted", "ChannelDeleted"} /\ m \in About(event)

\* The message is in the index or will be.
Findable(m) == m \in DOMAIN by_msg \/ \E i \in DOMAIN mail : Inserts(mail[i], m)

\* Its removal is on its way, behind whatever inserts it.
RemovalDue(m) ==
    \/ \E j \in DOMAIN mail : /\ Removes(mail[j], m)
                              /\ \A i \in DOMAIN mail : Inserts(mail[i], m) => i < j
    \/ \E k \in DOMAIN bus : Deletes(bus[k], m)
    \/ \E t \in Applier : \E k \in DOMAIN unpublished[t] : Deletes(unpublished[t][k], m)

FollowerTypes ==
    /\ shown \in SUBSET Doc /\ IsFiniteSet(shown)
    /\ unpublished \in [Applier -> Seq(Event)] /\ \A t \in Applier : Len(unpublished[t]) <= 1
    /\ bus \in Seq(Event) /\ mail \in Seq(Mail)
    /\ open \subseteq SearchChannel

\* Only a message that was sent is findable, and one that is no longer shown only until
\* its removal has come through.
FollowerInv ==
    /\ IndexInv /\ FollowerTypes
    /\ ShownMessages \subseteq received
    /\ \A m \in Message : Findable(m) =>
            /\ m \in received
            /\ m \in ShownMessages \/ m \in missed \/ RemovalDue(m)

LEMMA MailFacts ==
    /\ \A d \in Doc : /\ InsertMail(d) \in Mail /\ InsertMail(d).kind = "Insert"
                       /\ InsertMail(d).doc = d /\ MessageOf[d] \in Message
    /\ \A e \in Event : /\ RemoveMail(e.message) \in Mail
                         /\ RemoveMail(e.message).kind = "RemoveMessage"
                         /\ RemoveMail(e.message).message = e.message
                         /\ RemoveChannelMail(e.channel) \in Mail
                         /\ RemoveChannelMail(e.channel).kind = "RemoveChannel"
                         /\ RemoveChannelMail(e.channel).channel = e.channel
    /\ \A msg \in Mail : msg.kind = "Insert" => msg.doc \in Doc
  <1>1. \A d \in Doc : MessageOf[d] \in Message
    BY SearchAssumption, ZenonT(30) DEF Message, Range
  <1>2. \A d \in Doc : InsertMail(d) \in Mail /\ InsertMail(d).kind = "Insert" /\ InsertMail(d).doc = d
    BY ZenonT(30) DEF InsertMail, Mail
  <1>3. \A m \in Message \cup {NoChannel} : /\ RemoveMail(m) \in Mail /\ RemoveMail(m).message = m
                                            /\ RemoveMail(m).kind = "RemoveMessage"
    BY ZenonT(30) DEF RemoveMail, Mail
  <1>4. \A c \in SearchChannel \cup {NoChannel} :
            /\ RemoveChannelMail(c) \in Mail /\ RemoveChannelMail(c).channel = c
            /\ RemoveChannelMail(c).kind = "RemoveChannel"
    BY DEF RemoveChannelMail, Mail
  <1>5. \A e \in Event : e.message \in Message \cup {NoChannel} /\ e.channel \in SearchChannel \cup {NoChannel}
    BY ZenonT(30) DEF Event
  <1>6. \A msg \in Mail : msg.kind = "Insert" => msg.doc \in Doc
    BY SMTT(30) DEF Mail, InsertMail, RemoveMail, RemoveChannelMail
  <1> QED
    BY <1>1, <1>2, <1>3, <1>4, <1>5, <1>6, ZenonT(30)

\* An event is applied: the event that says so is unpublished.
LEMMA AppliedKeeps ==
    ASSUME FollowerTypes, NEW t \in Applier, NEW event \in Event, Applied(t, event)
    PROVE  /\ unpublished' \in [Applier -> Seq(Event)] /\ \A u \in Applier : Len(unpublished'[u]) <= 1
           /\ UNCHANGED <<bus, mail, postings, by_msg, missed>>
           /\ \A m : /\ Findable(m)' <=> Findable(m)
                     /\ RemovalDue(m) => RemovalDue(m)'
                     /\ Deletes(event, m) => RemovalDue(m)'
<1>1. /\ unpublished[t] = << >> /\ unpublished' = [unpublished EXCEPT ![t] = <<event>>]
      /\ UNCHANGED <<bus, mail, postings, by_msg, missed>>
  BY ZenonT(30) DEF Applied, searchVars
<1>2. unpublished'[t] = <<event>> /\ \A u \in Applier : u # t => unpublished'[u] = unpublished[u]
  BY <1>1, ZenonT(30) DEF FollowerTypes
<1>3. unpublished' \in [Applier -> Seq(Event)] /\ \A u \in Applier : Len(unpublished'[u]) <= 1
  BY <1>1, <1>2, SMTT(30) DEF FollowerTypes
<1>4. ASSUME NEW m PROVE Findable(m)' <=> Findable(m)
  BY <1>1, Zenon DEF Findable
<1>5. ASSUME NEW m, RemovalDue(m) PROVE RemovalDue(m)'
  <2>1. ASSUME NEW u \in Applier, NEW k \in DOMAIN unpublished[u], Deletes(unpublished[u][k], m)
        PROVE  k \in DOMAIN unpublished'[u] /\ Deletes(unpublished'[u][k], m)
    <3>1. DOMAIN unpublished[t] = {}
      BY <1>1, SMTT(30)
    <3> QED
      BY <1>2, <2>1, <3>1, Zenon
  <2> QED
    BY <1>1, <1>5, <2>1, Zenon DEF RemovalDue
<1>6. ASSUME NEW m, Deletes(event, m) PROVE RemovalDue(m)'
  <2>1. 1 \in DOMAIN unpublished'[t] /\ unpublished'[t][1] = event
    BY <1>2, SMTT(30)
  <2> QED
    BY <1>6, <2>1, ZenonT(30) DEF RemovalDue
<1> QED
  BY <1>1, <1>3, <1>4, <1>5, <1>6, ZenonT(30)

\* A message, an edit, a deletion of a message or of a channel.
LEMMA StateKeeps ==
    ASSUME FollowerInv,
           \/ \E t \in Applier, d \in Doc : Arrive(t, d) \/ Delete(t, d)
           \/ \E t \in Applier, d, e \in Doc : Edit(t, d, e)
           \/ \E t \in Applier, c \in SearchChannel : DropChannel(t, c)
    PROVE  FollowerInv'
<1>1. SUFFICES ASSUME NEW t \in Applier, NEW event \in Event, Applied(t, event),
                      shown' \in SUBSET Doc, IsFiniteSet(shown'), open' \subseteq SearchChannel,
                      received \subseteq received', ShownMessages' \subseteq received',
                      \A m \in ShownMessages : m \in ShownMessages' \/ Deletes(event, m)
               PROVE  FollowerInv'
  <2>0. FollowerTypes /\ ShownMessages \subseteq received
    BY Zenon DEF FollowerInv
  <2>1. ASSUME NEW t \in Applier, NEW d \in Doc, Arrive(t, d) PROVE FollowerInv'
    <3> DEFINE event == ClientEvent("Received", ChannelOf[d], MessageOf[d])
    <3>1. event \in Event
      BY SearchAssumption, ZenonT(30) DEF Event, ClientEvent, SearchChannel, Message, Range
    <3>2. /\ Applied(t, event) /\ open' = open /\ received' = received \cup {MessageOf[d]}
          /\ shown' = shown \/ shown' = shown \cup {d}
      BY <2>1, ZenonT(30) DEF Arrive
    <3>3. shown' \in SUBSET Doc /\ IsFiniteSet(shown')
      <4>1. shown \in SUBSET Doc /\ IsFiniteSet(shown) /\ IsFiniteSet(shown \cup {d})
        BY <2>0, FS_AddElement, ZenonT(30) DEF FollowerTypes
      <4> QED
        BY <3>2, <4>1, ZenonT(30)
    <3>4. ShownMessages' \subseteq received' /\ ShownMessages \subseteq ShownMessages'
      BY <2>0, <3>2, ZenonT(30) DEF ShownMessages
    <3> HIDE DEF event
    <3> QED
      BY <1>1, <2>0, <3>1, <3>2, <3>3, <3>4, ZenonT(30) DEF FollowerTypes
  <2>2. ASSUME NEW t \in Applier, NEW d \in Doc, Delete(t, d) PROVE FollowerInv'
    <3> DEFINE event == ClientEvent("Deleted", NoChannel, MessageOf[d])
    <3>1. event \in Event
      BY SearchAssumption, ZenonT(30) DEF Event, ClientEvent, Message, Range
    <3>2. /\ Applied(t, event) /\ open' = open /\ received' = received /\ shown' = shown \ {d}
      BY <2>2, ZenonT(30) DEF Delete
    <3>3. shown' \in SUBSET Doc /\ IsFiniteSet(shown')
      BY <2>0, <3>2, FS_RemoveElement, ZenonT(30) DEF FollowerTypes
    <3>4. /\ ShownMessages' \subseteq received'
          /\ \A m \in ShownMessages : m \in ShownMessages' \/ m = MessageOf[d]
      BY <2>0, <3>2, ZenonT(30) DEF ShownMessages
    <3>5. Deletes(event, MessageOf[d])
      BY ZenonT(30) DEF Deletes, About, ClientEvent
    <3> HIDE DEF event
    <3> QED
      BY <1>1, <2>0, <3>1, <3>2, <3>3, <3>4, <3>5, ZenonT(30) DEF FollowerTypes
  <2>3. ASSUME NEW t \in Applier, NEW d \in Doc, NEW e \in Doc, Edit(t, d, e) PROVE FollowerInv'
    <3> DEFINE event == ClientEvent("Edited", NoChannel, MessageOf[d])
    <3>1. event \in Event
      BY SearchAssumption, ZenonT(30) DEF Event, ClientEvent, Message, Range
    <3>2. /\ Applied(t, event) /\ open' = open /\ received' = received
          /\ d \in shown /\ MessageOf[e] = MessageOf[d] /\ shown' = (shown \ {d}) \cup {e}
      BY <2>3, ZenonT(30) DEF Edit
    <3>3. shown' \in SUBSET Doc /\ IsFiniteSet(shown')
      BY <2>0, <3>2, FS_AddElement, FS_RemoveElement, ZenonT(30) DEF FollowerTypes
    <3>4. ShownMessages' \subseteq received' /\ ShownMessages \subseteq ShownMessages'
      BY <2>0, <3>2, ZenonT(30) DEF ShownMessages
    <3> HIDE DEF event
    <3> QED
      BY <1>1, <2>0, <3>1, <3>2, <3>3, <3>4, ZenonT(30) DEF FollowerTypes
  <2>4. ASSUME NEW t \in Applier, NEW c \in SearchChannel, DropChannel(t, c) PROVE FollowerInv'
    <3> DEFINE event == ClientEvent("ChannelDeleted", c, NoChannel)
    <3>1. event \in Event
      BY ZenonT(30) DEF Event, ClientEvent
    <3>2. /\ Applied(t, event) /\ open' = open \ {c} /\ received' = received
          /\ shown' = {d \in shown : ChannelOf[d] # c}
      BY <2>4, ZenonT(30) DEF DropChannel
    <3>3. shown' \in SUBSET Doc /\ IsFiniteSet(shown')
      BY <2>0, <3>2, FS_Subset, ZenonT(30) DEF FollowerTypes
    <3>4. ShownMessages' \subseteq received'
      BY <2>0, <3>2, ZenonT(30) DEF ShownMessages
    <3>5. \A m \in ShownMessages : m \in ShownMessages' \/ Deletes(event, m)
      BY <2>0, <3>2, ZenonT(30) DEF ShownMessages, Deletes, About, ClientEvent, FollowerTypes
    <3> HIDE DEF event
    <3> QED
      BY <1>1, <2>0, <3>1, <3>2, <3>3, <3>4, <3>5, ZenonT(30) DEF FollowerTypes
  <2> QED
    BY <2>1, <2>2, <2>3, <2>4, Zenon
<1>2. /\ unpublished' \in [Applier -> Seq(Event)] /\ \A u \in Applier : Len(unpublished'[u]) <= 1
      /\ UNCHANGED <<bus, mail, postings, by_msg, missed>>
      /\ \A m : /\ Findable(m)' <=> Findable(m)
                /\ RemovalDue(m) => RemovalDue(m)'
                /\ Deletes(event, m) => RemovalDue(m)'
  BY <1>1, AppliedKeeps, ZenonT(30) DEF FollowerInv
<1>3. IndexInv' /\ FollowerTypes'
  BY <1>1, <1>2, ZenonT(30) DEF FollowerInv, IndexInv, PostingsExact, FollowerTypes
<1>4. ASSUME NEW m \in Message, Findable(m)'
      PROVE  m \in received' /\ (m \in ShownMessages' \/ m \in missed' \/ RemovalDue(m)')
  BY <1>1, <1>2, <1>4, ZenonT(30) DEF FollowerInv
<1> QED
  BY <1>1, <1>3, <1>4, Zenon DEF FollowerInv

\* Publish: the event goes to the subscription, or is missed.
LEMMA PublishKeeps ==
    ASSUME FollowerInv, NEW t \in Applier, PublishEvent(t)
    PROVE  FollowerInv'
<1> DEFINE event == Head(unpublished[t])
<1>1. /\ unpublished[t] # << >> /\ unpublished' = [unpublished EXCEPT ![t] = << >>]
      /\ \/ missed' = missed \cup About(event) /\ bus' = bus
         \/ bus' = Append(bus, event) /\ missed' = missed
      /\ UNCHANGED <<mail, postings, by_msg, shown, received, open>>
  BY ZenonT(30) DEF PublishEvent, searchVars, serverVars
<1>2. /\ unpublished[t] \in Seq(Event) /\ Len(unpublished[t]) = 1
      /\ event \in Event /\ DOMAIN unpublished[t] = {1} /\ event = unpublished[t][1]
  <2>1. unpublished[t] \in Seq(Event) /\ Len(unpublished[t]) <= 1
    BY DEF FollowerInv, FollowerTypes
  <2>2. Len(unpublished[t]) = 1
    <3>1. Len(unpublished[t]) \in Nat \ {0}
      BY <1>1, <2>1, EmptySeq, ZenonT(30)
    <3>2. \A n \in Nat \ {0} : n <= 1 => n = 1
      BY SMTT(30)
    <3> QED
      BY <2>1, <3>1, <3>2, ZenonT(30)
  <2>3. DOMAIN unpublished[t] = 1 .. 1
    BY <2>1, <2>2, SMTT(30)
  <2> QED
    BY <2>1, <2>2, <2>3, SMTT(30)
<1> HIDE DEF event
<1>3. unpublished'[t] = << >> /\ \A u \in Applier : u # t => unpublished'[u] = unpublished[u]
  BY <1>1, ZenonT(30) DEF FollowerInv, FollowerTypes
<1>4. bus \in Seq(Event) /\ bus' \in Seq(Event)
  <2>1. bus \in Seq(Event) /\ Append(bus, event) \in Seq(Event)
    BY <1>2, SMTT(30) DEF FollowerInv, FollowerTypes
  <2> QED
    BY <1>1, <2>1, ZenonT(30)
<1>5. FollowerTypes' /\ IndexInv'
  <2>1. unpublished' \in [Applier -> Seq(Event)]
    BY <1>1, SMTT(30) DEF FollowerInv, FollowerTypes
  <2>2. \A u \in Applier : Len(unpublished'[u]) <= 1
    BY <1>3, SMTT(30) DEF FollowerInv, FollowerTypes
  <2>3. FollowerTypes'
    <3>1. /\ shown \in SUBSET Doc /\ IsFiniteSet(shown)
          /\ mail \in Seq(Mail) /\ open \subseteq SearchChannel
      BY ZenonT(30) DEF FollowerInv, FollowerTypes
    <3> QED
      BY <1>1, <1>4, <2>1, <2>2, <3>1, ZenonT(30) DEF FollowerTypes
  <2>4. IndexInv'
    <3>1. postings' = postings /\ by_msg' = by_msg /\ IndexInv
      BY <1>1, ZenonT(30) DEF FollowerInv
    <3> QED
      BY <3>1, SMTT(30) DEF IndexInv, PostingsExact
  <2> QED
    BY <2>3, <2>4, ZenonT(30)
<1>6. ASSUME NEW m \in Message, RemovalDue(m) PROVE m \in missed' \/ RemovalDue(m)'
  <2>1. CASE \E j \in DOMAIN mail : /\ Removes(mail[j], m)
                                   /\ \A i \in DOMAIN mail : Inserts(mail[i], m) => i < j
    BY <1>1, <2>1, ZenonT(30) DEF RemovalDue
  <2>2. ASSUME NEW k \in DOMAIN bus, Deletes(bus[k], m) PROVE RemovalDue(m)'
    <3>1. k \in DOMAIN bus' /\ bus'[k] = bus[k]
      BY <1>1, <1>2, <1>4, SMTT(30)
    <3> QED
      BY <2>2, <3>1, ZenonT(30) DEF RemovalDue
  <2>3. ASSUME NEW u \in Applier, NEW k \in DOMAIN unpublished[u], Deletes(unpublished[u][k], m)
        PROVE  m \in missed' \/ RemovalDue(m)'
    <3>1. CASE u # t
      BY <1>3, <2>3, <3>1, ZenonT(30) DEF RemovalDue
    <3>2. CASE u = t
      <4>1. Deletes(event, m)
        BY <1>2, <2>3, <3>2, ZenonT(30)
      <4>2. CASE missed' = missed \cup About(event)
        BY <4>1, <4>2, ZenonT(30) DEF Deletes
      <4>3. CASE bus' = Append(bus, event)
        <5>1. Len(bus) + 1 \in DOMAIN bus' /\ bus'[Len(bus) + 1] = event
          BY <1>2, <1>4, <4>3, SMTT(30)
        <5> QED
          BY <4>1, <5>1, ZenonT(30) DEF RemovalDue
      <4> QED
        BY <1>1, <4>2, <4>3, ZenonT(30)
    <3> QED
      BY <3>1, <3>2, ZenonT(30)
  <2> QED
    BY <1>6, <2>1, <2>2, <2>3, ZenonT(30) DEF RemovalDue
<1>7. \A m : Findable(m)' <=> Findable(m)
  BY <1>1, ZenonT(30) DEF Findable
<1>8. missed \subseteq missed' /\ ShownMessages' = ShownMessages
  BY <1>1, ZenonT(30) DEF ShownMessages
<1> QED
  BY <1>1, <1>5, <1>6, <1>7, <1>8, ZenonT(30) DEF FollowerInv

\* The indexer sends the search actor messages that are shown.
LEMMA InsertsSent ==
    ASSUME FollowerInv, NEW s \in Seq(Mail), mail' = mail \o s,
           \A i \in DOMAIN s : s[i].kind = "Insert" /\ MessageOf[s[i].doc] \in ShownMessages,
           UNCHANGED <<postings, by_msg, shown, received, open, unpublished, bus, missed>>
    PROVE  FollowerInv'
<1>1. /\ mail \in Seq(Mail) /\ mail' \in Seq(Mail) /\ Len(mail) \in Nat /\ Len(s) \in Nat
      /\ DOMAIN mail = 1 .. Len(mail) /\ DOMAIN mail' = 1 .. Len(mail) + Len(s)
      /\ \A i \in DOMAIN mail : mail'[i] = mail[i]
      /\ \A i \in DOMAIN mail' : i \in DOMAIN mail \/ (i - Len(mail) \in DOMAIN s /\ mail'[i] = s[i - Len(mail)])
  BY ConcatProperties, SMTT(30) DEF FollowerInv, FollowerTypes
<1>2. FollowerTypes' /\ IndexInv'
  BY <1>1, Zenon DEF FollowerInv, FollowerTypes, IndexInv, PostingsExact
<1>3. \A i \in DOMAIN mail' : i \in DOMAIN mail \/ (mail'[i].kind = "Insert" /\ MessageOf[mail'[i].doc] \in ShownMessages)
  BY <1>1, ZenonT(30)
<1>4. ShownMessages' = ShownMessages
  BY DEF ShownMessages
<1>5. ASSUME NEW m \in Message, m \notin ShownMessages
      PROVE  /\ Findable(m)' => Findable(m)
             /\ RemovalDue(m) => RemovalDue(m)'
  <2>1. \A i \in DOMAIN mail' : Inserts(mail'[i], m) => i \in DOMAIN mail /\ Inserts(mail[i], m)
    BY <1>1, <1>3, <1>5, ZenonT(30) DEF Inserts
  <2>2. DOMAIN mail \subseteq DOMAIN mail'
    BY <1>1, SMTT(30)
  <2>3. Findable(m)' => Findable(m)
    BY <2>1, ZenonT(30) DEF Findable
  <2>4. RemovalDue(m) => RemovalDue(m)'
    BY <1>1, <2>1, <2>2, ZenonT(30) DEF RemovalDue
  <2> QED
    BY <2>3, <2>4, ZenonT(30)
<1> QED
  BY <1>2, <1>4, <1>5, ZenonT(30) DEF FollowerInv

\* The indexer takes an event: a deletion goes on to the search actor's mailbox, behind
\* all that is there.
LEMMA TakeEventKeeps ==
    ASSUME FollowerInv, TakeEvent
    PROVE  FollowerInv'
<1> DEFINE event == Head(bus)
<1>1. /\ bus # << >> /\ bus' = Tail(bus)
      /\ \/ event.kind \notin {"Deleted", "ChannelDeleted"} /\ mail' = mail
         \/ event.kind \in {"Edited", "Deleted"} /\ mail' = Append(mail, RemoveMail(event.message))
         \/ event.kind = "ChannelDeleted" /\ mail' = Append(mail, RemoveChannelMail(event.channel))
      /\ UNCHANGED <<postings, by_msg, shown, received, open, unpublished, missed>>
  BY ZenonT(30) DEF TakeEvent, searchVars, serverVars
<1>2. /\ bus \in Seq(Event) /\ bus' \in Seq(Event) /\ event \in Event /\ event = bus[1]
      /\ Len(bus) \in Nat /\ DOMAIN bus = 1 .. Len(bus) /\ DOMAIN bus' = 1 .. Len(bus) - 1
      /\ \A k \in DOMAIN bus' : bus'[k] = bus[k + 1]
  BY <1>1, SMTT(30) DEF FollowerInv, FollowerTypes
<1> HIDE DEF event
<1>3. mail \in Seq(Mail) /\ Len(mail) \in Nat /\ DOMAIN mail = 1 .. Len(mail)
  BY SMTT(30) DEF FollowerInv, FollowerTypes
<1>4. ASSUME NEW m \in Message
      PROVE  /\ Findable(m)' => Findable(m)
             /\ RemovalDue(m) => RemovalDue(m)'
  <2>1. CASE mail' = mail /\ event.kind \notin {"Deleted", "ChannelDeleted"}
    <3>1. ASSUME NEW k \in DOMAIN bus, Deletes(bus[k], m)
          PROVE  \E l \in DOMAIN bus' : Deletes(bus'[l], m)
      <4>1. k # 1
        BY <1>2, <2>1, <3>1, ZenonT(30) DEF Deletes
      <4>2. k - 1 \in DOMAIN bus' /\ bus'[k - 1] = bus[k]
        BY <1>2, <4>1, SMTT(30)
      <4> QED
        BY <3>1, <4>2, ZenonT(30)
    <3> QED
      BY <1>1, <2>1, <3>1, ZenonT(30) DEF Findable, RemovalDue
  <2>2. ASSUME NEW msg, mail' = Append(mail, msg), msg.kind # "Insert",
               Deletes(event, m) => Removes(msg, m)
        PROVE  /\ Findable(m)' => Findable(m)
               /\ RemovalDue(m) => RemovalDue(m)'
    <3>1. /\ DOMAIN mail' = 1 .. Len(mail) + 1 /\ mail'[Len(mail) + 1] = msg
          /\ \A i \in DOMAIN mail : mail'[i] = mail[i]
      <4>1. mail \in Seq(Mail \cup {msg})
        BY <1>3, SMTT(30)
      <4> QED
        BY <1>3, <2>2, <4>1, SMTT(30)
    <3>2. \A i \in DOMAIN mail' : Inserts(mail'[i], m) => i \in DOMAIN mail /\ Inserts(mail[i], m)
      BY <1>3, <2>2, <3>1, SMTT(30) DEF Inserts
    <3>3. ASSUME NEW k \in DOMAIN bus, Deletes(bus[k], m) PROVE RemovalDue(m)'
      <4>1. CASE k = 1
        <5>1. Len(mail) + 1 \in DOMAIN mail' /\ Removes(mail'[Len(mail) + 1], m)
          BY <1>2, <1>3, <2>2, <3>1, <3>3, <4>1, SMTT(30)
        <5>2. \A i \in DOMAIN mail' : Inserts(mail'[i], m) => i < Len(mail) + 1
          BY <1>3, <3>2
        <5> QED
          BY <5>1, <5>2, ZenonT(30) DEF RemovalDue
      <4>2. CASE k # 1
        <5>1. k - 1 \in DOMAIN bus' /\ bus'[k - 1] = bus[k]
          BY <1>2, <4>2, SMTT(30)
        <5> QED
          BY <3>3, <5>1, Zenon DEF RemovalDue
      <4> QED
        BY <4>1, <4>2, Zenon
    <3>4. DOMAIN mail \subseteq DOMAIN mail'
      BY <1>3, <3>1, SMTT(30)
    <3>5. Findable(m)' => Findable(m)
      BY <1>1, <3>2, ZenonT(30) DEF Findable
    <3>6. ASSUME NEW j \in DOMAIN mail, Removes(mail[j], m),
                 \A i \in DOMAIN mail : Inserts(mail[i], m) => i < j
          PROVE  RemovalDue(m)'
      BY <3>1, <3>2, <3>4, <3>6, ZenonT(30) DEF RemovalDue
    <3>7. ASSUME NEW t \in Applier, NEW k \in DOMAIN unpublished[t], Deletes(unpublished[t][k], m)
          PROVE  RemovalDue(m)'
      BY <1>1, <3>7, ZenonT(30) DEF RemovalDue
    <3> QED
      BY <3>3, <3>5, <3>6, <3>7, ZenonT(30) DEF RemovalDue
  <2>3. CASE event.kind \in {"Edited", "Deleted"} /\ mail' = Append(mail, RemoveMail(event.message))
    <3>1. RemoveMail(event.message).kind = "RemoveMessage" /\ RemoveMail(event.message).message = event.message
      BY <1>2, MailFacts, ZenonT(30)
    <3>2. Deletes(event, m) => Removes(RemoveMail(event.message), m)
      BY <2>3, <3>1, ZenonT(30) DEF Deletes, Removes, About
    <3> QED
      BY <2>2, <2>3, <3>1, <3>2, ZenonT(30)
  <2>4. CASE event.kind = "ChannelDeleted" /\ mail' = Append(mail, RemoveChannelMail(event.channel))
    <3>1. /\ RemoveChannelMail(event.channel).kind = "RemoveChannel"
          /\ RemoveChannelMail(event.channel).channel = event.channel
      BY <1>2, MailFacts, ZenonT(30)
    <3>2. Deletes(event, m) => Removes(RemoveChannelMail(event.channel), m)
      BY <2>4, <3>1, ZenonT(30) DEF Deletes, Removes, About
    <3> QED
      BY <2>2, <2>4, <3>1, <3>2, ZenonT(30)
  <2> QED
    BY <1>1, <2>1, <2>3, <2>4, ZenonT(30)
<1>5. mail' \in Seq(Mail)
  <2>1. RemoveMail(event.message) \in Mail /\ RemoveChannelMail(event.channel) \in Mail
    BY <1>2, MailFacts
  <2>2. \A x \in Mail : Append(mail, x) \in Seq(Mail)
    BY <1>3, SMTT(30)
  <2> QED
    BY <1>1, <1>3, <2>1, <2>2, ZenonT(30)
<1>6. FollowerTypes' /\ IndexInv' /\ ShownMessages' = ShownMessages
  BY <1>1, <1>2, <1>5, ZenonT(30) DEF FollowerInv, FollowerTypes, IndexInv, PostingsExact, ShownMessages
<1> QED
  BY <1>1, <1>4, <1>6, ZenonT(30) DEF FollowerInv

\* A message of a channel is listed under its tokens, so RemoveChannel finds it.
LEMMA ChannelIsFound ==
    ASSUME IndexInv, NEW m \in DOMAIN by_msg, NEW c,
           \E d \in Doc : MessageOf[d] = m /\ ChannelOf[d] = c
    PROVE  m \in {MessageOf[d] : d \in {e \in Listed : ChannelOf[e] = c}}
<1>1. PICK d \in Doc : /\ MessageOf[d] = m /\ by_msg[m] = TokensOf[d]
                      /\ \A t \in TokensOf[d] : {e \in postings[t] : MessageOf[e] = m} = {d}
  BY ZenonT(30) DEF IndexInv, PostingsExact
<1>2. TokensOf[d] \subseteq Token /\ TokensOf[d] # {} /\ ChannelOf[d] = c
  BY <1>1, SearchAssumption, ZenonT(30)
<1>3. PICK t \in Token : t \in TokensOf[d]
  BY <1>2, ZenonT(30)
<1>4. d \in postings[t]
  BY <1>1, <1>3, ZenonT(30)
<1>5. d \in Listed
  BY <1>3, <1>4, ZenonT(30) DEF Listed, Range, IndexInv
<1> QED
  BY <1>1, <1>2, <1>5, ZenonT(30)

\* The search actor works off its mailbox.
LEMMA ActorKeeps ==
    ASSUME FollowerInv, SearchActorStep
    PROVE  FollowerInv'
<1> DEFINE msg == Head(mail)
<1>1. /\ mail # << >> /\ mail' = Tail(mail)
      /\ \/ msg.kind = "Insert" /\ Insert(msg.doc)
         \/ msg.kind = "RemoveMessage" /\ Forget({msg.message})
         \/ /\ msg.kind = "RemoveChannel"
            /\ Forget({MessageOf[d] : d \in {e \in Listed : ChannelOf[e] = msg.channel}})
      /\ UNCHANGED <<shown, received, open, unpublished, bus, missed>>
  BY ZenonT(30) DEF SearchActorStep, serverVars, RemoveMessage, RemoveChannel
<1>2. /\ mail \in Seq(Mail) /\ mail' \in Seq(Mail) /\ msg \in Mail /\ msg = mail[1]
      /\ Len(mail) \in Nat /\ DOMAIN mail = 1 .. Len(mail) /\ DOMAIN mail' = 1 .. Len(mail) - 1
      /\ 1 \in DOMAIN mail /\ \A i \in DOMAIN mail' : mail'[i] = mail[i + 1]
  BY <1>1, SMTT(30) DEF FollowerInv, FollowerTypes
<1> HIDE DEF msg
<1>3. IndexInv'
  BY <1>1, <1>2, InsertKeeps, ForgetKeeps, MailFacts, ZenonT(30) DEF FollowerInv
<1>4. FollowerTypes' /\ ShownMessages' = ShownMessages
  BY <1>1, <1>2, ZenonT(30) DEF FollowerInv, FollowerTypes, ShownMessages
<1>5. \A i \in DOMAIN mail' : i + 1 \in DOMAIN mail /\ i \in Nat
  BY <1>2, SMTT(30)
<1>6. \A j \in DOMAIN mail : j # 1 => j - 1 \in DOMAIN mail' /\ mail'[j - 1] = mail[j]
  BY <1>2, SMTT(30)
<1>7. ASSUME NEW m \in Message, Findable(m)' PROVE Findable(m)
  <2>1. ASSUME m \in DOMAIN by_msg' PROVE m \in DOMAIN by_msg \/ Inserts(mail[1], m)
    <3>1. CASE msg.kind = "Insert" /\ Insert(msg.doc)
      BY <1>2, <2>1, <3>1, SMTT(30) DEF Insert, Inserts
    <3>2. ASSUME NEW ids, Forget(ids) PROVE m \in DOMAIN by_msg
      BY <2>1, <3>2, Zenon DEF Forget
    <3> QED
      BY <1>1, <3>1, <3>2, ZenonT(30)
  <2> QED
    BY <1>2, <1>5, <1>7, <2>1, ZenonT(30) DEF Findable
<1>8. ASSUME NEW m \in Message, Findable(m)', RemovalDue(m) PROVE RemovalDue(m)'
  <2>1. ASSUME NEW j \in DOMAIN mail, Removes(mail[j], m),
               \A i \in DOMAIN mail : Inserts(mail[i], m) => i < j
        PROVE  RemovalDue(m)'
    <3>1. CASE j = 1
      <4>1. \A i \in DOMAIN mail : ~ Inserts(mail[i], m)
        BY <1>2, <2>1, <3>1, SMTT(30)
      <4>2. m \in DOMAIN by_msg'
        BY <1>2, <1>5, <1>8, <4>1, ZenonT(30) DEF Findable
      <4>3. m \in DOMAIN by_msg
        BY <1>7, <1>8, <4>1, ZenonT(30) DEF Findable
      <4>4. ASSUME NEW ids, Forget(ids), m \in ids PROVE FALSE
        BY <4>2, <4>4, ZenonT(30) DEF Forget
      <4>5. CASE msg.kind = "RemoveMessage"
        BY <1>1, <1>2, <2>1, <3>1, <4>4, <4>5, ZenonT(30) DEF Removes
      <4>6. CASE msg.kind = "RemoveChannel"
        <5>1. \E d \in Doc : MessageOf[d] = m /\ ChannelOf[d] = msg.channel
          BY <1>2, <2>1, <3>1, <4>6, ZenonT(30) DEF Removes
        <5>2. m \in {MessageOf[d] : d \in {e \in Listed : ChannelOf[e] = msg.channel}}
          BY <4>3, <5>1, ChannelIsFound, ZenonT(30) DEF FollowerInv
        <5> QED
          BY <1>1, <4>4, <4>6, <5>2, ZenonT(30)
      <4> QED
        BY <1>2, <2>1, <3>1, <4>5, <4>6, ZenonT(30) DEF Removes
    <3>2. CASE j # 1
      <4>1. \A i \in DOMAIN mail' : Inserts(mail'[i], m) => i < j - 1
        BY <1>2, <1>5, <2>1, SMTT(30)
      <4> QED
        BY <1>6, <2>1, <3>2, <4>1, ZenonT(30) DEF RemovalDue
    <3> QED
      BY <3>1, <3>2, ZenonT(30)
  <2> QED
    BY <1>1, <1>8, <2>1, ZenonT(30) DEF RemovalDue
<1> QED
  BY <1>1, <1>3, <1>4, <1>7, <1>8, ZenonT(30) DEF FollowerInv

\* A sequence with the elements of a finite set has only those.
LEMMA SetToSeqFacts ==
    ASSUME NEW S, IsFiniteSet(S)
    PROVE  /\ SetToSeq(S) \in Seq(S) /\ DOMAIN SetToSeq(S) = 1 .. Len(SetToSeq(S))
           /\ Len(SetToSeq(S)) \in Nat
           /\ \A i \in DOMAIN SetToSeq(S) : SetToSeq(S)[i] \in S
<1> DEFINE n == Cardinality(S)
<1>1. n \in Nat /\ ExistsBijection(1 .. n, S)
  BY FS_CardinalityType, ZenonT(30)
<1>2. PICK f \in [1 .. n -> S] : IsInjective(f)
  BY <1>1, ZenonT(30) DEF ExistsBijection, Bijection, Injection
<1>3. SetToSeq(S) \in [1 .. n -> S]
  BY <1>2, ZenonT(30) DEF SetToSeq
<1> HIDE DEF n
<1> QED
  BY <1>1, <1>3, SMTT(30)

\* A deleted message, or one of a deleted channel, is not found once nothing is under
\* way, for any messages and tasks: whatever is inserted is shown at that moment, and the
\* removal that follows it is never overtaken by the insertion.  The tables of the index
\* stay exact.
THEOREM DeletedStaysForgotten == IndexerSpec => []DeletedIsForgotten /\ []PostingsExact
<1>1. IndexerInit => FollowerInv
  <2> SUFFICES ASSUME IndexerInit PROVE FollowerInv
    BY ZenonT(30)
  <2>1. IndexInv
    BY IndexStarts, ZenonT(30) DEF IndexerInit
  <2>2. /\ unpublished = [t \in Applier |-> << >>] /\ bus = << >> /\ mail = << >>
        /\ DOMAIN by_msg = {} /\ received = ShownMessages
    BY ZenonT(30) DEF IndexerInit, SearchInit, ShownMessages
  <2>3. \A t \in Applier : unpublished[t] = << >>
    BY <2>2, ZenonT(30)
  <2>4. FollowerTypes
    <3>1. << >> \in Seq(Event) /\ << >> \in Seq(Mail) /\ Len(<< >>) = 0
      BY SMTT(30)
    <3>2. shown \in SUBSET Doc /\ IsFiniteSet(shown) /\ open = SearchChannel
      BY ZenonT(30) DEF IndexerInit
    <3> QED
      BY <2>2, <2>3, <3>1, <3>2, SMTT(30) DEF FollowerTypes
  <2>5. \A m : ~ Findable(m)
    BY <2>2, SMTT(30) DEF Findable
  <2> QED
    BY <2>1, <2>2, <2>4, <2>5, ZenonT(30) DEF FollowerInv
<1>2. FollowerInv /\ [IndexerNext]_indexerVars => FollowerInv'
  <2> SUFFICES ASSUME FollowerInv, [IndexerNext]_indexerVars PROVE FollowerInv'
    BY ZenonT(30)
  <2>0. FollowerTypes
    BY ZenonT(30) DEF FollowerInv
  <2>1. ASSUME UNCHANGED <<postings, by_msg, shown, received, open, unpublished, bus, mail, missed>>
        PROVE  FollowerInv'
    BY <2>1, ZenonT(30) DEF FollowerInv, FollowerTypes, IndexInv, PostingsExact, ShownMessages, Findable, RemovalDue
  <2>2. ASSUME NEW c \in todo, HydrateChannel(c) PROVE FollowerInv'
    <3> DEFINE S == {d \in shown : ChannelOf[d] = c}
               docs == SetToSeq(S)
               msgs == [i \in DOMAIN docs |-> InsertMail(docs[i])]
    <3>1. /\ mail' = mail \o msgs
          /\ UNCHANGED <<postings, by_msg, shown, received, open, unpublished, bus, missed>>
      BY <2>2, ZenonT(30) DEF HydrateChannel, searchVars, serverVars
    <3>2. IsFiniteSet(S) /\ S \subseteq shown /\ shown \subseteq Doc
      BY <2>0, FS_Subset, ZenonT(30) DEF FollowerTypes
    <3>3. /\ docs \in Seq(S) /\ DOMAIN docs = 1 .. Len(docs) /\ Len(docs) \in Nat
          /\ \A i \in DOMAIN docs : docs[i] \in S
      BY <3>2, SetToSeqFacts, ZenonT(30)
    <3> HIDE DEF docs, S
    <3>4. \A i \in DOMAIN docs : /\ InsertMail(docs[i]) \in Mail /\ msgs[i].kind = "Insert"
                                 /\ MessageOf[msgs[i].doc] \in ShownMessages
      BY <3>2, <3>3, MailFacts, ZenonT(30) DEF ShownMessages
    <3>5. msgs \in Seq(Mail) /\ DOMAIN msgs = DOMAIN docs
      BY <3>3, <3>4, SMTT(30)
    <3> HIDE DEF msgs
    <3> QED
      BY <3>1, <3>4, <3>5, InsertsSent, ZenonT(30)
  <2>3. CASE ReadMessage
    <3>1. UNCHANGED <<postings, by_msg, shown, received, open, unpublished, bus, missed>>
      BY <2>3, ZenonT(30) DEF ReadMessage, searchVars, serverVars
    <3>2. CASE mail' = mail
      BY <2>1, <3>1, <3>2, ZenonT(30)
    <3>3. ASSUME NEW d \in Current, mail' = Append(mail, InsertMail(d)) PROVE FollowerInv'
      <4>1. d \in Doc /\ MessageOf[d] \in ShownMessages
        BY <2>0, ZenonT(30) DEF Current, ShownMessages, FollowerTypes
      <4>2. InsertMail(d) \in Mail /\ InsertMail(d).kind = "Insert" /\ InsertMail(d).doc = d
        BY <4>1, MailFacts, ZenonT(30)
      <4>3. mail' = mail \o <<InsertMail(d)>>
        BY <2>0, <3>3, <4>2, AppendIsConcat, ZenonT(30) DEF FollowerTypes
      <4>4. /\ <<InsertMail(d)>> \in Seq(Mail) /\ DOMAIN <<InsertMail(d)>> = {1}
            /\ <<InsertMail(d)>>[1] = InsertMail(d)
        BY <4>2, SMTT(30)
      <4> QED
        BY <3>1, <4>1, <4>2, <4>3, <4>4, InsertsSent, ZenonT(30)
    <3> QED
      BY <2>3, <3>2, <3>3, ZenonT(30) DEF ReadMessage
  <2>4. CASE HydrateStart \/ Subscribe \/ ResolveChannel \/ UNCHANGED indexerVars
    BY <2>1, <2>4, ZenonT(30) DEF HydrateStart, Subscribe, ResolveChannel, indexerVars, followerVars,
                      searchVars, serverVars
  <2> QED
    BY <2>2, <2>3, <2>4, StateKeeps, PublishKeeps, TakeEventKeeps, ActorKeeps, ZenonT(30) DEF IndexerNext
<1>3. FollowerInv => DeletedIsForgotten /\ PostingsExact
  <2> SUFFICES ASSUME FollowerInv, IndexQuiet, NEW m \in DOMAIN by_msg
               PROVE  m \in {MessageOf[d] : d \in shown} \cup missed
    BY ZenonT(30) DEF DeletedIsForgotten, FollowerInv, IndexInv
  <2>1. m \in Message
    BY SearchAssumption, ZenonT(30) DEF FollowerInv, IndexInv, PostingsExact, Message, Range
  <2>2. DOMAIN mail = {} /\ DOMAIN bus = {} /\ \A t \in Applier : DOMAIN unpublished[t] = {}
    BY SMTT(30) DEF IndexQuiet
  <2>3. ~ RemovalDue(m)
    BY <2>2 DEF RemovalDue
  <2> QED
    BY <2>1, <2>3, ZenonT(30) DEF FollowerInv, Findable, ShownMessages
<1> QED
  BY <1>1, <1>2, <1>3, PTL DEF IndexerSpec
=============================================================================
