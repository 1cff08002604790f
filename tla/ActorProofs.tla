---------------------------- MODULE ActorProofs ----------------------------
(* Proofs about DerivedState and ActorSystem: for any selector, mailbox    *)
(* capacity and number of mutations; for any actors, tasks that ask and    *)
(* capacities of mailboxes.                                                *)
EXTENDS ActorSystem, DerivedState, SequenceTheorems, TLAPS

-----------------------------------------------------------------------------
(* A derived view (DerivedState): the subscriber.                          *)

\* A value the subscriber does not show is announced, or will be.
Announced ==
    /\ told \in BOOLEAN /\ ddirty \in BOOLEAN /\ dawake \in BOOLEAN
    /\ ChangeIsAnnounced

\* The subscriber of a derived actor is told of every change of the cached value,
\* whatever the capacity of the mailboxes and the order the recomputations end in: the
\* dirty flag that UpdateCache sets is there until idle() has sent the Notify.
THEOREM ChangesAreAnnounced == Spec => []ChangeIsAnnounced
<1>1. Init => Announced
  BY Zenon DEF Init, Announced, ChangeIsAnnounced
<1>2. Announced /\ [Next]_vars => Announced'
  <2> SUFFICES ASSUME Announced, [Next]_vars PROVE Announced'
    BY Zenon
  <2> USE DEF Announced, ChangeIsAnnounced
  <2>1. CASE SendMutate
    BY <2>1, Zenon DEF SendMutate, derivedVars, readerVars
  <2>2. CASE SourceHandle
    BY <2>2, Zenon DEF SourceHandle, derivedVars, readerVars
  <2>3. CASE SourceIdle
    BY <2>3, Zenon DEF SourceIdle, readerVars
  <2>4. CASE Started
    BY <2>4, Zenon DEF Started, readerVars
  <2>5. CASE DerivedHandle
    <3>1. /\ dawake' = TRUE /\ told' = told /\ shown' = shown
          /\ \/ cached' = cached /\ ddirty' = ddirty
             \/ ddirty' = (ddirty \/ cached # cached')
      BY <2>5, Zenon DEF DerivedHandle, readerVars
    <3>2. ddirty' \in BOOLEAN
      BY <3>1, Zenon
    <3>3. cached' = cached \/ ddirty'
      BY <3>1, Zenon
    <3>4. shown = cached \/ told \/ ddirty
      BY Zenon
    <3>5. ddirty => ddirty'
      BY <3>1, Zenon
    <3> QED
      BY <3>1, <3>2, <3>3, <3>4, <3>5, Zenon
  <2>6. CASE DerivedIdle
    BY <2>6, Zenon DEF DerivedIdle
  <2>7. CASE TaskStep
    BY <2>7 DEF TaskStep, TaskAsk, TaskReport, derivedVars, readerVars
  <2>8. CASE Read
    BY <2>8, Zenon DEF Read, derivedVars
  <2>9. CASE UNCHANGED vars
    BY <2>9, Zenon DEF vars, derivedVars, readerVars
  <2> QED
    BY <2>1, <2>2, <2>3, <2>4, <2>5, <2>6, <2>7, <2>8, <2>9, Zenon DEF Next
<1> QED
  BY <1>1, <1>2, PTL DEF Spec, Announced

-----------------------------------------------------------------------------
(* A derived view: no wakeup is lost.                                      *)

\* Tasks are in the order they were spawned, and so have got as far: first those that
\* have their answer, then those that have asked, then those that have not run yet.
TasksInOrder(ts, n) ==
    /\ \A i \in DOMAIN ts : /\ ts[i].id \in Nat /\ ts[i].id <= n
                            /\ ts[i].pc \in {"new", "asked", "replied"}
    /\ \A i, j \in DOMAIN ts : i < j =>
            /\ ts[i].id < ts[j].id
            /\ ts[j].pc = "replied" => ts[i].pc = "replied"
            /\ ts[j].pc = "asked" => ts[i].pc # "new"

\* The questions in the source's mailbox are those of the tasks that have asked, in the
\* order of the tasks.
QuestionsInOrder(ts, box) ==
    /\ \A k \in DOMAIN box : box[k].type = "Get" =>
            \E i \in DOMAIN ts : ts[i].pc = "asked" /\ ts[i].id = box[k].task
    /\ \A i \in DOMAIN ts : ts[i].pc = "asked" =>
            \E k \in DOMAIN box : box[k].type = "Get" /\ box[k].task = ts[i].id
    /\ \A k, l \in DOMAIN box : k < l /\ box[k].type = "Get" /\ box[l].type = "Get" =>
            box[k].task < box[l].task

\* The last value on its way to the cache, or else the cached one, is v.
Arrives(v) ==
    \/ \E i \in Replies : tasks[i].value = v /\ \A j \in Replies : j <= i
    \/ Replies = {} /\ \E i \in Updates : dbox[i].value = v /\ \A j \in Updates : j <= i
    \/ Replies = {} /\ Updates = {} /\ cached = v

\* Unless a message was refused.
Wakeful ==
    /\ TasksInOrder(tasks, spawned)
    /\ QuestionsInOrder(tasks, sbox)
    /\ started => subscribed \/ Waiting(sbox, Subscribe)
    /\ RecomputationDue \/ Arrives(Derive[source])

IsSeq(s) == s \in Seq(Range(s))

DerivedTypes ==
    /\ IsSeq(tasks) /\ IsSeq(sbox) /\ IsSeq(dbox)
    /\ spawned \in Nat
    /\ sdirty \in BOOLEAN /\ subscribed \in BOOLEAN /\ started \in BOOLEAN /\ lost \in BOOLEAN

DerivedInv == DerivedTypes /\ (lost \/ Wakeful)

\* A sequence of anything is a sequence of its elements.
LEMMA AnySeq ==
    ASSUME NEW S, NEW s \in Seq(S)
    PROVE  IsSeq(s)
  <1>1. s \in [1 .. Len(s) -> S] /\ Len(s) \in Nat /\ DOMAIN s = 1 .. Len(s)
    OBVIOUS
  <1>2. s \in [1 .. Len(s) -> Range(s)]
    BY <1>1, Zenon DEF Range
  <1> QED
    BY <1>1, <1>2 DEF IsSeq

LEMMA SeqFacts ==
    ASSUME NEW s, IsSeq(s)
    PROVE  Len(s) \in Nat /\ DOMAIN s = 1 .. Len(s)
  BY DEF IsSeq

LEMMA AppendFacts ==
    ASSUME NEW s, IsSeq(s), NEW x
    PROVE  /\ IsSeq(Append(s, x))
           /\ Len(Append(s, x)) = Len(s) + 1 /\ DOMAIN Append(s, x) = 1 .. Len(s) + 1
           /\ Append(s, x)[Len(s) + 1] = x
           /\ \A i \in 1 .. Len(s) : Append(s, x)[i] = s[i]
  <1>1. s \in Seq(Range(s) \cup {x})
    BY DEF IsSeq
  <1>2. Append(s, x) \in Seq(Range(s) \cup {x})
    BY <1>1
  <1>3. IsSeq(Append(s, x))
    BY <1>2, AnySeq, Zenon
  <1> QED
    BY <1>1, <1>3

LEMMA TailFacts ==
    ASSUME NEW s, IsSeq(s), s # << >>
    PROVE  /\ IsSeq(Tail(s)) /\ Head(s) = s[1] /\ 1 \in DOMAIN s
           /\ Len(Tail(s)) = Len(s) - 1 /\ DOMAIN Tail(s) = 1 .. Len(s) - 1
           /\ \A i \in 1 .. Len(s) - 1 : Tail(s)[i] = s[i + 1]
  <1>1. s \in Seq(Range(s))
    BY Zenon DEF IsSeq
  <1>2. Tail(s) \in Seq(Range(s))
    BY <1>1
  <1>3. IsSeq(Tail(s))
    BY <1>2, AnySeq, Zenon
  <1> QED
    BY <1>1, <1>3

LEMMA RemoveFacts ==
    ASSUME NEW s, IsSeq(s), NEW i \in DOMAIN s
    PROVE  IsSeq(Finished(s, i)) /\ (i = 1 => Finished(s, i) = Tail(s))
  <1>1. s \in Seq(Range(s)) /\ Len(s) \in Nat /\ i \in 1 .. Len(s)
    BY DEF IsSeq
  <1>2. SubSeq(s, 1, i - 1) \in Seq(Range(s)) /\ SubSeq(s, i + 1, Len(s)) \in Seq(Range(s))
    BY <1>1
  <1>3. Finished(s, i) \in Seq(Range(s))
    BY <1>2 DEF Finished
  <1>4. ASSUME i = 1 PROVE Finished(s, i) = Tail(s)
    <2>1. SubSeq(s, 1, 0) = << >> /\ SubSeq(s, 2, Len(s)) = Tail(s) /\ Tail(s) \in Seq(Range(s))
      BY <1>1
    <2>2. << >> \o Tail(s) = Tail(s)
      BY <2>1, ConcatEmptySeq, Zenon
    <2> QED
      BY <1>4, <2>1, <2>2 DEF Finished
  <1> QED
    BY <1>3, <1>4, AnySeq, Zenon

\* The first answer on its way: TaskReport takes the oldest task.
LEMMA FirstReports ==
    ASSUME Ordered, TasksInOrder(tasks, spawned), IsSeq(tasks), NEW i \in DOMAIN tasks, TaskReport(i)
    PROVE  i = 1
  BY SeqFacts DEF TasksInOrder, TaskReport

LEMMA DerivedTypesKept == DerivedTypes /\ [Next]_vars => DerivedTypes'
  <1> SUFFICES ASSUME DerivedTypes, [Next]_vars PROVE DerivedTypes'
    BY Zenon
  <1>0. /\ \A msg : IsSeq(Sent(sbox, msg)) /\ IsSeq(Sent(dbox, msg))
        /\ \A msg : IsSeq(Append(sbox, msg)) /\ IsSeq(Append(tasks, msg))
        /\ sbox # << >> => IsSeq(Tail(sbox))
        /\ dbox # << >> => IsSeq(Tail(dbox))
    BY AppendFacts, TailFacts, Zenon DEF DerivedTypes, Sent
  <1>a. \A box : Accepts(box) \in BOOLEAN
    BY DEF Accepts
  <1> USE DEF DerivedTypes
  <1>1. CASE SendMutate
    BY <1>0, <1>1, Zenon DEF SendMutate, derivedVars, taskVars
  <1>2. CASE SourceHandle
    <2>1. IsSeq(sbox') /\ IsSeq(dbox') /\ spawned' = spawned /\ started' = started /\ lost' = lost
      BY <1>0, <1>2, Zenon DEF SourceHandle, derivedVars
    <2>2. ASSUME NEW t PROVE IsSeq(Replied(t))
      <3>1. DOMAIN tasks = 1 .. Len(tasks) /\ Len(tasks) \in Nat
        BY SeqFacts, Zenon
      <3>2. Replied(t) \in [1 .. Len(tasks) -> Range(Replied(t))]
        BY <3>1, Zenon DEF Replied, Range
      <3>3. Replied(t) \in Seq(Range(Replied(t)))
        BY <3>1, <3>2
      <3> QED
        BY <3>3, Zenon DEF IsSeq
    <2> QED
      BY <1>2, <2>1, <2>2, Zenon DEF SourceHandle
  <1>3. CASE SourceIdle
    BY <1>0, <1>a, <1>3, Zenon DEF SourceIdle, taskVars
  <1>4. CASE Started
    BY <1>0, <1>a, <1>4 DEF Started, Spawn
  <1>5. CASE DerivedHandle
    <2>1. /\ IsSeq(dbox')
          /\ UNCHANGED <<sbox, sdirty, subscribed, started, lost>>
          /\ Spawn \/ UNCHANGED <<tasks, spawned>>
      BY <1>0, <1>5, Zenon DEF DerivedHandle, sourceVars, taskVars
    <2>2. IsSeq(tasks') /\ spawned' \in Nat
      <3>1. CASE Spawn
        <4>1. tasks' = Append(tasks, [id |-> spawned + 1, pc |-> "new"]) /\ spawned' = spawned + 1
          BY <3>1, Zenon DEF Spawn
        <4>2. IsSeq(tasks')
          BY <4>1, AppendFacts, Zenon
        <4> QED
          BY <4>1, <4>2
      <3> QED
        BY <2>1, <3>1, Zenon
    <2> QED
      BY <2>1, <2>2, Zenon
  <1>6. CASE DerivedIdle
    BY <1>6, Zenon DEF DerivedIdle, sourceVars, taskVars
  <1>7. ASSUME NEW i \in DOMAIN tasks, TaskAsk(i) PROVE DerivedTypes'
    <2>1. /\ IsSeq(sbox') /\ lost' \in BOOLEAN
          /\ UNCHANGED <<spawned, sdirty, subscribed, started, dbox>>
      BY <1>0, <1>a, <1>7, Zenon DEF TaskAsk, derivedVars
    <2>2. IsSeq([tasks EXCEPT ![i].pc = "asked"])
      <3> DEFINE ts == [tasks EXCEPT ![i].pc = "asked"]
      <3>1. DOMAIN ts = 1 .. Len(tasks) /\ Len(tasks) \in Nat /\ ts = [k \in 1 .. Len(tasks) |-> ts[k]]
        BY SeqFacts, Zenon
      <3> HIDE DEF ts
      <3>2. ts \in [1 .. Len(tasks) -> Range(ts)]
        BY <3>1, Zenon DEF Range
      <3>3. ts \in Seq(Range(ts))
        BY <3>1, <3>2
      <3> QED
        BY <3>3, Zenon DEF IsSeq, ts
    <2>3. IsSeq(tasks')
      BY <1>7, <2>2, RemoveFacts, Zenon DEF TaskAsk
    <2> QED
      BY <2>1, <2>3, Zenon
  <1>8. ASSUME NEW i \in DOMAIN tasks, TaskReport(i) PROVE DerivedTypes'
    BY <1>0, <1>8, RemoveFacts, Zenon DEF TaskReport, sourceVars
  <1>9. CASE Read
    BY <1>9, Zenon DEF Read, sourceVars, derivedVars, taskVars
  <1>10. CASE UNCHANGED vars
    BY <1>10, Zenon DEF vars, sourceVars, derivedVars, taskVars
  <1> QED
    BY <1>1, <1>2, <1>3, <1>4, <1>5, <1>6, <1>7, <1>8, <1>9, <1>10, Zenon DEF Next, TaskStep

\* A message that is no question.
LEMMA OtherSent ==
    ASSUME NEW ts, NEW box, NEW msg, IsSeq(box), QuestionsInOrder(ts, box), msg.type # "Get"
    PROVE  QuestionsInOrder(ts, Append(box, msg))
  <1>1. Len(box) \in Nat /\ DOMAIN box = 1 .. Len(box)
    BY SeqFacts, Zenon
  <1> QED
    BY <1>1, AppendFacts DEF QuestionsInOrder

LEMMA OtherHandled ==
    ASSUME NEW ts, NEW box, IsSeq(box), QuestionsInOrder(ts, box), box # << >>,
           Head(box).type # "Get"
    PROVE  QuestionsInOrder(ts, Tail(box))
  <1> DEFINE rest == Tail(box)
  <1>1. /\ Len(box) \in Nat /\ DOMAIN box = 1 .. Len(box) /\ DOMAIN rest = 1 .. Len(box) - 1
        /\ box[1].type # "Get" /\ \A i \in DOMAIN rest : rest[i] = box[i + 1]
    BY SeqFacts, TailFacts, Zenon
  <1> HIDE DEF rest
  <1>2. \A k \in DOMAIN box : k # 1 => k - 1 \in DOMAIN rest /\ rest[k - 1] = box[k]
    BY <1>1
  <1>3. \A k \in DOMAIN rest : k + 1 \in DOMAIN box /\ k \in Int
    BY <1>1
  <1>4. ASSUME NEW k \in DOMAIN rest, NEW l \in DOMAIN rest, k < l,
               rest[k].type = "Get", rest[l].type = "Get"
        PROVE  rest[k].task < rest[l].task
    BY <1>1, <1>3, <1>4, SMTT(30) DEF QuestionsInOrder
  <1>5. ASSUME NEW k \in DOMAIN rest, rest[k].type = "Get"
        PROVE  \E i \in DOMAIN ts : ts[i].pc = "asked" /\ ts[i].id = rest[k].task
    BY <1>1, <1>3, <1>5 DEF QuestionsInOrder
  <1>6. ASSUME NEW i \in DOMAIN ts, ts[i].pc = "asked"
        PROVE  \E k \in DOMAIN rest : rest[k].type = "Get" /\ rest[k].task = ts[i].id
    <2>1. PICK k \in DOMAIN box : box[k].type = "Get" /\ box[k].task = ts[i].id
      BY <1>6, Zenon DEF QuestionsInOrder
    <2> QED
      BY <1>1, <1>2, <2>1
  <1> QED
    BY <1>4, <1>5, <1>6, Zenon DEF QuestionsInOrder, rest

LEMMA SpawnKeeps ==
    ASSUME NEW ts, NEW box, NEW n \in Nat, IsSeq(ts),
           TasksInOrder(ts, n), QuestionsInOrder(ts, box)
    PROVE  LET now == Append(ts, [id |-> n + 1, pc |-> "new"])
           IN  TasksInOrder(now, n + 1) /\ QuestionsInOrder(now, box)
  <1> DEFINE now == Append(ts, [id |-> n + 1, pc |-> "new"])
  <1>1. /\ Len(ts) \in Nat /\ DOMAIN ts = 1 .. Len(ts) /\ DOMAIN now = 1 .. Len(ts) + 1
        /\ now[Len(ts) + 1] = [id |-> n + 1, pc |-> "new"]
        /\ \A i \in DOMAIN ts : now[i] = ts[i]
    BY SeqFacts, AppendFacts
  <1> HIDE DEF now
  <1>2. now[Len(ts) + 1].id = n + 1 /\ now[Len(ts) + 1].pc = "new"
    BY <1>1
  <1>3. TasksInOrder(now, n + 1)
    <2>1. \A i \in DOMAIN now : i \in DOMAIN ts \/ i = Len(ts) + 1
      BY <1>1
    <2>2. \A i \in DOMAIN now : /\ now[i].id \in Nat /\ now[i].id <= n + 1
                               /\ now[i].pc \in {"new", "asked", "replied"}
      BY <1>1, <1>2, <2>1 DEF TasksInOrder
    <2>3. ASSUME NEW i \in DOMAIN now, NEW j \in DOMAIN now, i < j
          PROVE  /\ now[i].id < now[j].id
                 /\ now[j].pc = "replied" => now[i].pc = "replied"
                 /\ now[j].pc = "asked" => now[i].pc # "new"
      <3>1. i \in DOMAIN ts /\ ts[i].id \in Nat /\ ts[i].id <= n
        BY <1>1, <2>3 DEF TasksInOrder
      <3>2. CASE j = Len(ts) + 1
        BY <1>1, <1>2, <3>1, <3>2
      <3>3. CASE j \in DOMAIN ts
        BY <1>1, <2>3, <3>1, <3>3, Zenon DEF TasksInOrder
      <3> QED
        BY <2>1, <3>2, <3>3, Zenon
    <2> QED
      BY <2>2, <2>3, Zenon DEF TasksInOrder
  <1>4. QuestionsInOrder(now, box)
    BY <1>1, <1>2, SMTT(30) DEF QuestionsInOrder
  <1> QED
    BY <1>3, <1>4, Zenon DEF now

\* The oldest task that has not run asks.
LEMMA AskKeeps ==
    ASSUME NEW ts, NEW box, NEW n \in Nat, IsSeq(ts), IsSeq(box),
           TasksInOrder(ts, n), QuestionsInOrder(ts, box),
           NEW i \in DOMAIN ts, ts[i].pc = "new", \A j \in 1 .. i - 1 : ts[j].pc # "new"
    PROVE  LET now == [ts EXCEPT ![i].pc = "asked"]
           IN  /\ TasksInOrder(now, n) /\ QuestionsInOrder(now, Append(box, Get(ts[i].id)))
               /\ i \in DOMAIN now /\ now[i].pc = "asked"
  <1> DEFINE now == [ts EXCEPT ![i].pc = "asked"]
             new == Append(box, Get(ts[i].id))
  <1>1. /\ Len(ts) \in Nat /\ DOMAIN ts = 1 .. Len(ts) /\ DOMAIN now = DOMAIN ts
        /\ \A j \in DOMAIN ts : j # i => now[j] = ts[j]
    BY SeqFacts, Zenon
  <1>2. now[i].id = ts[i].id /\ now[i].pc = "asked"
    BY <1>1 DEF TasksInOrder
  <1>3. /\ Len(box) \in Nat /\ DOMAIN box = 1 .. Len(box) /\ DOMAIN new = 1 .. Len(box) + 1
        /\ new[Len(box) + 1].type = "Get" /\ new[Len(box) + 1].task = ts[i].id
        /\ \A k \in DOMAIN box : new[k] = box[k]
    BY SeqFacts, AppendFacts DEF Get
  <1> HIDE DEF now, new
  <1>4. \A j \in DOMAIN ts : j < i => ts[j].pc # "new"
    BY <1>1
  <1>5. \A j \in DOMAIN ts : j > i => ts[j].pc = "new"
    BY Zenon DEF TasksInOrder
  <1>6. TasksInOrder(now, n)
    <2>1. \A j \in DOMAIN now : /\ now[j].id = ts[j].id
                               /\ now[j].pc = IF j = i THEN "asked" ELSE ts[j].pc
      BY <1>1, <1>2, Zenon
    <2>2. \A j \in DOMAIN now : /\ now[j].id \in Nat /\ now[j].id <= n
                               /\ now[j].pc \in {"new", "asked", "replied"}
      BY <1>1, <2>1, Zenon DEF TasksInOrder
    <2>3. ASSUME NEW j \in DOMAIN now, NEW k \in DOMAIN now, j < k
          PROVE  /\ now[j].id < now[k].id
                 /\ now[k].pc = "replied" => now[j].pc = "replied"
                 /\ now[k].pc = "asked" => now[j].pc # "new"
      <3>1. /\ ts[j].id < ts[k].id
            /\ ts[k].pc = "replied" => ts[j].pc = "replied"
            /\ ts[k].pc = "asked" => ts[j].pc # "new"
        BY <1>1, <2>3, Zenon DEF TasksInOrder
      <3> QED
        BY <1>1, <1>4, <1>5, <2>1, <2>3, <3>1
    <2> QED
      BY <2>2, <2>3, Zenon DEF TasksInOrder
  <1>7. ASSUME NEW k \in DOMAIN box, box[k].type = "Get" PROVE box[k].task < ts[i].id
    <2>1. PICK j \in DOMAIN ts : ts[j].pc = "asked" /\ ts[j].id = box[k].task
      BY <1>7, Zenon DEF QuestionsInOrder
    <2>2. j < i
      BY <1>1, <1>5, <2>1
    <2> QED
      BY <2>1, <2>2, Zenon DEF TasksInOrder
  <1>8. QuestionsInOrder(now, new)
    <2>1. ASSUME NEW k \in DOMAIN new, new[k].type = "Get"
          PROVE  \E j \in DOMAIN now : now[j].pc = "asked" /\ now[j].id = new[k].task
      <3>1. CASE k = Len(box) + 1
        BY <1>1, <1>2, <1>3, <3>1, Zenon
      <3>2. CASE k \in DOMAIN box
        <4>1. PICK j \in DOMAIN ts : ts[j].pc = "asked" /\ ts[j].id = box[k].task
          BY <1>3, <2>1, <3>2 DEF QuestionsInOrder
        <4> QED
          BY <1>1, <1>3, <3>2, <4>1, Zenon
      <3> QED
        BY <1>3, <3>1, <3>2
    <2>2. ASSUME NEW j \in DOMAIN now, now[j].pc = "asked"
          PROVE  \E k \in DOMAIN new : new[k].type = "Get" /\ new[k].task = now[j].id
      <3>1. CASE j = i
        <4>1. Len(box) + 1 \in DOMAIN new
          BY <1>3
        <4> QED
          BY <1>2, <1>3, <3>1, <4>1, Zenon
      <3>2. CASE j # i
        <4>1. PICK k \in DOMAIN box : box[k].type = "Get" /\ box[k].task = ts[j].id
          BY <1>1, <2>2, <3>2, Zenon DEF QuestionsInOrder
        <4> QED
          BY <1>1, <1>3, <3>2, <4>1
      <3> QED
        BY <3>1, <3>2, Zenon
    <2>3. \A k, l \in DOMAIN new : k < l /\ new[k].type = "Get" /\ new[l].type = "Get" =>
            new[k].task < new[l].task
      BY <1>3, <1>7, SMTT(30) DEF QuestionsInOrder
    <2> QED
      BY <2>1, <2>2, <2>3, Zenon DEF QuestionsInOrder
  <1> QED
    BY <1>1, <1>2, <1>6, <1>8, Zenon DEF now, new

\* The source answers the oldest question, which is the oldest unanswered task's.
LEMMA AnswerKeeps ==
    ASSUME NEW n \in Nat, IsSeq(tasks), IsSeq(sbox), TasksInOrder(tasks, n),
           QuestionsInOrder(tasks, sbox), sbox # << >>, Head(sbox).type = "Get"
    PROVE  LET now == Replied(Head(sbox).task)
           IN  /\ TasksInOrder(now, n) /\ QuestionsInOrder(now, Tail(sbox))
               /\ \E i \in DOMAIN now : /\ now[i].pc = "replied" /\ now[i].value = Derive[source]
                                        /\ \A j \in DOMAIN now : now[j].pc = "replied" => j <= i
  <1> DEFINE now == Replied(Head(sbox).task)
             rest == Tail(sbox)
  <1>1. /\ Len(sbox) \in Nat /\ DOMAIN sbox = 1 .. Len(sbox) /\ DOMAIN rest = 1 .. Len(sbox) - 1
        /\ \A k \in DOMAIN rest : rest[k] = sbox[k + 1]
        /\ Head(sbox) = sbox[1] /\ 1 \in DOMAIN sbox
        /\ Len(tasks) \in Nat /\ DOMAIN tasks = 1 .. Len(tasks)
    BY SeqFacts, TailFacts, Zenon
  <1>2. PICK i \in DOMAIN tasks : tasks[i].pc = "asked" /\ tasks[i].id = sbox[1].task
    BY <1>1, Zenon DEF QuestionsInOrder
  <1>3. \A j \in DOMAIN tasks : tasks[j].id = tasks[i].id => j = i
    BY <1>1, SMTT(30) DEF TasksInOrder
  <1>4. /\ DOMAIN now = DOMAIN tasks
        /\ \A j \in DOMAIN tasks : j # i => now[j] = tasks[j]
        /\ now[i].pc = "replied" /\ now[i].id = tasks[i].id /\ now[i].value = Derive[source]
    BY <1>1, <1>2, <1>3, Zenon DEF Replied
  <1> HIDE DEF now, rest
  <1>5. ASSUME NEW j \in DOMAIN tasks, j < i PROVE tasks[j].pc = "replied"
    <2>1. tasks[j].pc # "new" /\ tasks[j].id < tasks[i].id /\ tasks[j].id \in Nat
          /\ tasks[i].id \in Nat /\ tasks[j].pc \in {"new", "asked", "replied"}
      BY <1>2, <1>5, Zenon DEF TasksInOrder
    <2>2. ASSUME tasks[j].pc = "asked" PROVE FALSE
      <3>1. PICK k \in DOMAIN sbox : sbox[k].type = "Get" /\ sbox[k].task = tasks[j].id
        BY <2>2, Zenon DEF QuestionsInOrder
      <3>2. k > 1
        BY <1>1, <1>2, <2>1, <3>1
      <3>3. sbox[1].task < sbox[k].task
        BY <1>1, <3>1, <3>2, Zenon DEF QuestionsInOrder
      <3> QED
        BY <1>2, <2>1, <3>1, <3>3
    <2> QED
      BY <2>1, <2>2, Zenon
  <1>6. \A j \in DOMAIN tasks : j > i => tasks[j].pc # "replied"
    BY <1>2, Zenon DEF TasksInOrder
  <1>7. TasksInOrder(now, n)
    <2>1. \A j \in DOMAIN now : /\ now[j].id = tasks[j].id
                               /\ now[j].pc = IF j = i THEN "replied" ELSE tasks[j].pc
      BY <1>4, Zenon
    <2>2. \A j \in DOMAIN now : /\ now[j].id \in Nat /\ now[j].id <= n
                               /\ now[j].pc \in {"new", "asked", "replied"}
      BY <1>4, <2>1, Zenon DEF TasksInOrder
    <2>3. ASSUME NEW j \in DOMAIN now, NEW k \in DOMAIN now, j < k
          PROVE  /\ now[j].id < now[k].id
                 /\ now[k].pc = "replied" => now[j].pc = "replied"
                 /\ now[k].pc = "asked" => now[j].pc # "new"
      <3>1. /\ tasks[j].id < tasks[k].id
            /\ tasks[k].pc = "replied" => tasks[j].pc = "replied"
            /\ tasks[k].pc = "asked" => tasks[j].pc # "new"
        BY <1>4, <2>3, Zenon DEF TasksInOrder
      <3> QED
        BY <1>1, <1>4, <1>5, <1>6, <2>1, <2>3, <3>1, Zenon
    <2> QED
      BY <2>2, <2>3, Zenon DEF TasksInOrder
  <1>8. QuestionsInOrder(now, rest)
    <2>0. \A k \in DOMAIN rest : k + 1 \in DOMAIN sbox /\ k + 1 > 1 /\ k \in Nat
      BY <1>1
    <2>1. ASSUME NEW k \in DOMAIN rest, rest[k].type = "Get"
          PROVE  \E j \in DOMAIN now : now[j].pc = "asked" /\ now[j].id = rest[k].task
      <3>1. sbox[1].task < sbox[k + 1].task /\ sbox[k + 1].type = "Get"
        BY <1>1, <2>0, <2>1, Zenon DEF QuestionsInOrder
      <3>2. PICK j \in DOMAIN tasks : tasks[j].pc = "asked" /\ tasks[j].id = sbox[k + 1].task
        BY <2>0, <3>1, Zenon DEF QuestionsInOrder
      <3>3. tasks[i].id \in Nat /\ tasks[j].id \in Nat
        BY Zenon DEF TasksInOrder
      <3>4. j # i
        BY <1>2, <3>1, <3>2, <3>3
      <3> QED
        BY <1>1, <1>4, <3>2, <3>4, Zenon
    <2>2. ASSUME NEW j \in DOMAIN now, now[j].pc = "asked"
          PROVE  \E k \in DOMAIN rest : rest[k].type = "Get" /\ rest[k].task = now[j].id
      <3>1. j # i /\ tasks[j].pc = "asked" /\ now[j] = tasks[j] /\ j \in DOMAIN tasks
        BY <1>4, <2>2, Zenon
      <3>2. PICK k \in DOMAIN sbox : sbox[k].type = "Get" /\ sbox[k].task = tasks[j].id
        BY <3>1, Zenon DEF QuestionsInOrder
      <3>3. k # 1
        BY <1>2, <1>3, <3>1, <3>2, Zenon
      <3>4. k - 1 \in DOMAIN rest /\ rest[k - 1] = sbox[k]
        BY <1>1, <3>3
      <3> QED
        BY <3>1, <3>2, <3>4, Zenon
    <2>3. ASSUME NEW k \in DOMAIN rest, NEW l \in DOMAIN rest, k < l,
                 rest[k].type = "Get", rest[l].type = "Get"
          PROVE  rest[k].task < rest[l].task
      <3>1. k + 1 \in DOMAIN sbox /\ l + 1 \in DOMAIN sbox /\ k + 1 < l + 1
        BY <2>0, <2>3
      <3>2. sbox[k + 1].type = "Get" /\ sbox[l + 1].type = "Get"
        BY <1>1, <2>3, Zenon
      <3>3. sbox[k + 1].task < sbox[l + 1].task
        BY <3>1, <3>2, Zenon DEF QuestionsInOrder
      <3> QED
        BY <1>1, <3>3, Zenon
    <2> QED
      BY <2>1, <2>2, <2>3, Zenon DEF QuestionsInOrder
  <1>9. \A j \in DOMAIN now : now[j].pc = "replied" => j <= i
    BY <1>1, <1>4, <1>6
  <1> QED
    BY <1>4, <1>7, <1>8, <1>9, Zenon DEF now, rest

\* The oldest task reports and ends.
LEMMA ReportKeeps ==
    ASSUME NEW ts, NEW box, NEW n \in Nat, IsSeq(ts), ts # << >>, ts[1].pc = "replied",
           TasksInOrder(ts, n), QuestionsInOrder(ts, box)
    PROVE  TasksInOrder(Tail(ts), n) /\ QuestionsInOrder(Tail(ts), box)
  <1> DEFINE now == Tail(ts)
  <1>1. /\ Len(ts) \in Nat /\ DOMAIN ts = 1 .. Len(ts) /\ DOMAIN now = 1 .. Len(ts) - 1
        /\ \A i \in DOMAIN now : now[i] = ts[i + 1]
    BY SeqFacts, TailFacts, Zenon
  <1> HIDE DEF now
  <1>2. \A i \in DOMAIN now : i + 1 \in DOMAIN ts /\ i \in Nat
    BY <1>1
  <1>3. TasksInOrder(now, n)
    BY <1>1, <1>2, SMTT(30) DEF TasksInOrder
  <1>4. \A k \in DOMAIN box : box[k].type = "Get" =>
            \E i \in DOMAIN now : now[i].pc = "asked" /\ now[i].id = box[k].task
    <2> SUFFICES ASSUME NEW k \in DOMAIN box, box[k].type = "Get"
                 PROVE  \E i \in DOMAIN now : now[i].pc = "asked" /\ now[i].id = box[k].task
      BY Zenon
    <2>1. PICK i \in DOMAIN ts : ts[i].pc = "asked" /\ ts[i].id = box[k].task
      BY Zenon DEF QuestionsInOrder
    <2>2. i - 1 \in DOMAIN now /\ now[i - 1] = ts[i]
      BY <1>1, <2>1, SMTT(30)
    <2> QED
      BY <2>1, <2>2, Zenon
  <1>5. QuestionsInOrder(now, box)
    BY <1>1, <1>2, <1>4, SMTT(30) DEF QuestionsInOrder
  <1> QED
    BY <1>3, <1>5, Zenon DEF now

\* The value underway depends on the answers and updates that are left.
LEMMA SameArrives ==
    ASSUME UNCHANGED <<tasks, dbox, cached>>, NEW v
    PROVE  Arrives(v) <=> Arrives(v)'
  BY DEF Arrives, Replies, Updates

LEMMA SameValueDue ==
    ASSUME UNCHANGED <<source, sdirty, started, tasks, dbox, cached>>,
           RecomputationDue \/ Arrives(Derive[source])
    PROVE  (RecomputationDue \/ Arrives(Derive[source]))'
  <1>1. RecomputationDue <=> RecomputationDue'
    BY Zenon DEF RecomputationDue, Waiting
  <1>2. Arrives(Derive[source]) <=> Arrives(Derive[source])'
    BY DEF Arrives, Replies, Updates
  <1> QED
    BY <1>1, <1>2, Zenon

LEMMA MaxIs ==
    ASSUME NEW S \in SUBSET Nat, NEW x \in S, \A y \in S : y <= x
    PROVE  Max(S) = x
  <1>1. \A y \in S : x >= y
    BY Zenon
  <1>2. Max(S) \in S /\ \A y \in S : Max(S) >= y
    BY <1>1, Zenon DEF Max
  <1>3. Max(S) >= x /\ x >= Max(S)
    BY <1>1, <1>2, Zenon
  <1>4. Max(S) \in Int /\ x \in Int
    <2>1. \A y \in S : y \in Int
      OBVIOUS
    <2> QED
      BY <1>2, <2>1, Zenon
  <1>5. \A a, b \in Int : a >= b /\ b >= a => a = b
    OBVIOUS
  <1> QED
    BY <1>3, <1>4, <1>5, Zenon

\* UpdateCache(value): the mailbox's value goes into the cache.
LEMMA UpdateArrives ==
    ASSUME IsSeq(dbox), dbox # << >>, Head(dbox).type = "UpdateCache", NEW v, Arrives(v),
           tasks' = tasks, dbox' = Tail(dbox), cached' = Head(dbox).value
    PROVE  Arrives(v)'
  <1>1. /\ Len(dbox) \in Nat /\ DOMAIN dbox = 1 .. Len(dbox) /\ DOMAIN dbox' = 1 .. Len(dbox) - 1
        /\ \A i \in DOMAIN dbox' : dbox'[i] = dbox[i + 1]
        /\ Head(dbox) = dbox[1] /\ 1 \in DOMAIN dbox
    BY SeqFacts, TailFacts, Zenon
  <1>2. Replies' = Replies /\ \A i \in Replies : tasks'[i] = tasks[i]
    BY Zenon DEF Replies
  <1>3. ASSUME NEW i \in DOMAIN dbox PROVE i \in Updates' <=> i + 1 \in Updates
    <2>1. i \in DOMAIN dbox' <=> i + 1 \in DOMAIN dbox
      BY <1>1
    <2> QED
      BY <1>1, <2>1, Zenon DEF Updates
  <1>4. 1 \in Updates
    BY <1>1, Zenon DEF Updates
  <1>5. CASE Replies # {}
    BY <1>2, <1>5, Zenon DEF Arrives
  <1>6. CASE Replies = {}
    <2>1. PICK i \in Updates : dbox[i].value = v /\ \A j \in Updates : j <= i
      BY <1>4, <1>6, Zenon DEF Arrives
    <2>2. CASE i = 1
      <3>1. \A j \in Updates' : j \in DOMAIN dbox /\ j >= 1 /\ j + 1 \in Updates
        BY <1>1, <1>3 DEF Updates
      <3>2. Updates' = {}
        BY <2>1, <2>2, <3>1, <1>1
      <3> QED
        BY <1>1, <1>2, <1>6, <2>1, <2>2, <3>2, Zenon DEF Arrives
    <2>3. CASE i # 1
      <3>1. i - 1 \in DOMAIN dbox' /\ dbox'[i - 1] = dbox[i] /\ i - 1 \in DOMAIN dbox
        BY <1>1, <2>3 DEF Updates
      <3>2. i - 1 \in Updates' /\ dbox'[i - 1].value = v
        BY <1>3, <2>1, <3>1, Zenon DEF Updates
      <3>3. \A j \in Updates' : j <= i - 1
        <4>1. \A j \in Updates' : j \in Nat /\ j \in DOMAIN dbox /\ j + 1 \in Updates
          BY <1>1, <1>3 DEF Updates
        <4>2. i \in Nat
          BY <1>1 DEF Updates
        <4> QED
          BY <2>1, <4>1, <4>2
      <3> QED
        BY <1>2, <1>6, <3>2, <3>3, Zenon DEF Arrives
    <2> QED
      BY <2>2, <2>3, Zenon
  <1> QED
    BY <1>5, <1>6, Zenon

\* The oldest answer is sent to the mailbox as UpdateCache.
LEMMA ReportArrives ==
    ASSUME IsSeq(tasks), IsSeq(dbox), tasks # << >>, tasks[1].pc = "replied", NEW v, Arrives(v),
           tasks' = Tail(tasks), dbox' = Append(dbox, UpdateCache(tasks[1].value)),
           cached' = cached
    PROVE  Arrives(v)'
  <1>1. /\ Len(dbox) \in Nat /\ DOMAIN dbox = 1 .. Len(dbox) /\ DOMAIN dbox' = 1 .. Len(dbox) + 1
        /\ dbox'[Len(dbox) + 1].type = "UpdateCache"
        /\ dbox'[Len(dbox) + 1].value = tasks[1].value
    BY SeqFacts, AppendFacts DEF UpdateCache
  <1>2. /\ Len(tasks) \in Nat /\ DOMAIN tasks = 1 .. Len(tasks)
        /\ DOMAIN tasks' = 1 .. Len(tasks) - 1 /\ 1 \in DOMAIN tasks
        /\ \A i \in DOMAIN tasks' : tasks'[i] = tasks[i + 1]
    BY SeqFacts, TailFacts, Zenon
  <1>3. 1 \in Replies
    BY <1>2, Zenon DEF Replies
  <1>4. PICK i \in Replies : tasks[i].value = v /\ \A j \in Replies : j <= i
    BY <1>3, Zenon DEF Arrives
  <1>5. \A j \in Replies' : j \in Nat /\ j >= 1 /\ j + 1 \in Replies
    BY <1>2, SMTT(30) DEF Replies
  <1>6. CASE i = 1
    <2>1. Replies' = {}
      BY <1>4, <1>5, <1>6, SMTT(30)
    <2>2. Len(dbox) + 1 \in Updates' /\ \A j \in Updates' : j <= Len(dbox) + 1
      BY <1>1 DEF Updates
    <2> QED
      BY <1>1, <1>4, <1>6, <2>1, <2>2, Zenon DEF Arrives
  <1>7. CASE i # 1
    <2>1. i \in Nat /\ i - 1 \in DOMAIN tasks' /\ tasks'[i - 1] = tasks[i]
      BY <1>2, <1>7 DEF Replies
    <2>2. i - 1 \in Replies' /\ tasks'[i - 1].value = v
      BY <1>4, <2>1, Zenon DEF Replies
    <2>3. \A j \in Replies' : j <= i - 1
      BY <1>4, <1>5, <2>1
    <2> QED
      BY <2>2, <2>3, Zenon DEF Arrives
  <1> QED
    BY <1>6, <1>7, Zenon

\* A message stays in a mailbox that another one is sent to; one that is not the first
\* stays in a mailbox whose first one is handled.
LEMMA WaitingKept ==
    ASSUME NEW box, IsSeq(box), NEW msg, Waiting(box, msg)
    PROVE  /\ \A other : Waiting(Append(box, other), msg)
           /\ Head(box) # msg => box # << >> /\ Waiting(Tail(box), msg)
  <1>1. Len(box) \in Nat /\ DOMAIN box = 1 .. Len(box)
    BY SeqFacts, Zenon
  <1>2. PICK i \in 1 .. Len(box) : box[i] = msg
    BY Zenon DEF Waiting
  <1>3. ASSUME NEW other PROVE Waiting(Append(box, other), msg)
    <2>1. Len(Append(box, other)) = Len(box) + 1 /\ Append(box, other)[i] = msg
      BY <1>2, AppendFacts
    <2> QED
      BY <1>1, <1>2, <2>1 DEF Waiting
  <1>4. ASSUME Head(box) # msg PROVE box # << >> /\ Waiting(Tail(box), msg)
    <2>1. box # << >>
      BY <1>1, <1>2
    <2>2. /\ Head(box) = box[1] /\ Len(Tail(box)) = Len(box) - 1
          /\ \A k \in 1 .. Len(box) - 1 : Tail(box)[k] = box[k + 1]
      BY <2>1, TailFacts, Zenon
    <2>3. i - 1 \in 1 .. Len(Tail(box)) /\ Tail(box)[i - 1] = msg
      BY <1>1, <1>2, <1>4, <2>2
    <2> QED
      BY <2>1, <2>3, Zenon DEF Waiting
  <1> QED
    BY <1>3, <1>4, Zenon

LEMMA AppendWaiting ==
    ASSUME NEW box, IsSeq(box), NEW msg
    PROVE  Waiting(Append(box, msg), msg)
  <1>1. /\ Len(box) \in Nat /\ Len(Append(box, msg)) = Len(box) + 1
        /\ Append(box, msg)[Len(box) + 1] = msg
    BY SeqFacts, AppendFacts, Zenon
  <1> QED
    BY <1>1 DEF Waiting

\* A message of one of the actors' mailboxes is handled or sent.
LEMMA WakefulByMailbox ==
    ASSUME DerivedTypes, Wakeful, UNCHANGED <<tasks, spawned>>,
           \/ SendMutate
           \/ SourceHandle /\ Head(sbox).type # "Get"
           \/ SourceIdle /\ ~ lost'
           \/ DerivedHandle
    PROVE  Wakeful'
  <1> USE DEF DerivedTypes
  <1>1. CASE SendMutate
    <2>1. sbox' = Append(sbox, Mutate) /\ UNCHANGED <<source, sdirty, subscribed, started, dbox, cached>>
      BY <1>1, Zenon DEF SendMutate, derivedVars
    <2>2. QuestionsInOrder(tasks', sbox')
      BY <2>1, OtherSent, Zenon DEF Wakeful, Mutate
    <2>3. Waiting(sbox, Subscribe) => Waiting(sbox', Subscribe)
      BY <2>1, WaitingKept, Zenon
    <2>4. (RecomputationDue \/ Arrives(Derive[source]))'
      BY <2>1, SameValueDue, Zenon DEF Wakeful
    <2> QED
      BY <2>1, <2>2, <2>3, <2>4, Zenon DEF Wakeful
  <1>2. CASE SourceHandle /\ Head(sbox).type # "Get"
    <2>1. /\ sbox # << >> /\ sbox' = Tail(sbox) /\ UNCHANGED <<started, dbox, cached>>
          /\ \/ Head(sbox).type = "Mutate" /\ sdirty' = TRUE /\ subscribed' = subscribed
             \/ Head(sbox).type = "Subscribe" /\ subscribed' = TRUE /\ UNCHANGED <<source, sdirty>>
      BY <1>2, Zenon DEF SourceHandle, derivedVars
    <2>2. QuestionsInOrder(tasks', sbox')
      BY <1>2, <2>1, OtherHandled, Zenon DEF Wakeful
    <2>3. Head(sbox).type = "Mutate" /\ Waiting(sbox, Subscribe) => Waiting(sbox', Subscribe)
      BY <2>1, WaitingKept, SMTT(30) DEF Subscribe
    <2>4. RecomputationDue \/ Arrives(Derive[source]) => RecomputationDue' \/ Arrives(Derive[source])'
      BY <2>1 DEF RecomputationDue, Arrives, Replies, Updates
    <2>5. started' => subscribed' \/ Waiting(sbox', Subscribe)
      BY <2>1, <2>3 DEF Wakeful
    <2> QED
      BY <2>1, <2>2, <2>4, <2>5, Zenon DEF Wakeful
  <1>3. CASE SourceIdle /\ ~ lost'
    <2>1. /\ sbox = << >> /\ sdirty' = FALSE
          /\ UNCHANGED <<source, sbox, started, cached, ddirty>>
          /\ IF sdirty /\ subscribed THEN dbox' = Append(dbox, Notify) /\ subscribed' = TRUE
                                     ELSE UNCHANGED <<dbox, subscribed>>
      BY <1>3, Zenon DEF SourceIdle, Sent
    <2>2. ~ Waiting(sbox, Subscribe)
      BY <2>1 DEF Waiting
    <2>3. CASE sdirty /\ subscribed
      <3>1. Waiting(dbox', Notify)
        BY <2>1, <2>3, AppendWaiting, Zenon
      <3> QED
        BY <2>1, <2>3, <3>1, Zenon DEF Wakeful, RecomputationDue
    <2>4. CASE ~ (sdirty /\ subscribed)
      <3>1. sdirty => ~ started
        BY <2>2, <2>4, Zenon DEF Wakeful
      <3>2. RecomputationDue \/ Arrives(Derive[source]) => RecomputationDue' \/ Arrives(Derive[source])'
        BY <2>1, <2>4, <3>1 DEF RecomputationDue, Arrives, Replies, Updates
      <3> QED
        BY <2>1, <2>4, <3>2, Zenon DEF Wakeful
    <2> QED
      BY <2>3, <2>4, Zenon
  <1>4. CASE DerivedHandle
    <2>1. /\ dbox # << >> /\ dbox' = Tail(dbox) /\ UNCHANGED <<source, sbox, sdirty, subscribed, started>>
          /\ Head(dbox).type = "UpdateCache" /\ cached' = Head(dbox).value
      BY <1>4 DEF DerivedHandle, sourceVars, Spawn
    <2>2. Waiting(dbox, Notify) => Waiting(dbox', Notify)
      BY <2>1, WaitingKept DEF Notify
    <2>3. Arrives(Derive[source]) => Arrives(Derive[source])'
      BY <2>1, UpdateArrives, Zenon
    <2>4. RecomputationDue => RecomputationDue'
      BY <2>1, <2>2, Zenon DEF RecomputationDue
    <2> QED
      BY <2>1, <2>3, <2>4, Zenon DEF Wakeful
  <1> QED
    BY <1>1, <1>2, <1>3, <1>4, Zenon

\* A task is spawned, asks, is answered or reports.
LEMMA WakefulByTasks ==
    ASSUME Ordered, DerivedTypes, Wakeful, ~ lost',
           \/ Started
           \/ DerivedHandle /\ Spawn
           \/ SourceHandle /\ Head(sbox).type = "Get"
           \/ TaskStep
    PROVE  Wakeful'
  <1> USE DEF DerivedTypes
  <1>1. CASE Spawn /\ (Started \/ DerivedHandle)
    <2> DEFINE new == [id |-> spawned + 1, pc |-> "new"]
    <2>1. spawned' = spawned + 1 /\ tasks' = Append(tasks, new)
      BY <1>1, Zenon DEF Spawn
    <2>2. TasksInOrder(tasks', spawned') /\ QuestionsInOrder(tasks', sbox)
      BY <2>1, SpawnKeeps, Zenon DEF Wakeful
    <2>3. RecomputationDue'
      <3>1. Len(tasks) + 1 \in DOMAIN tasks' /\ tasks'[Len(tasks) + 1].pc = "new"
        BY <2>1, SeqFacts, AppendFacts
      <3> QED
        BY <3>1, Zenon DEF RecomputationDue
    <2>4. CASE Started
      <3>1. sbox' = Append(sbox, Subscribe)
        BY <2>4, Zenon DEF Started, Sent
      <3>2. QuestionsInOrder(tasks', sbox') /\ Waiting(sbox', Subscribe)
        BY <2>2, <3>1, OtherSent, AppendWaiting, Zenon DEF Subscribe
      <3> QED
        BY <2>2, <2>3, <3>2, Zenon DEF Wakeful
    <2>5. CASE DerivedHandle
      <3>1. UNCHANGED <<sbox, subscribed, started>>
        BY <2>5, Zenon DEF DerivedHandle, sourceVars
      <3> QED
        BY <2>2, <2>3, <3>1, Zenon DEF Wakeful
    <2> QED
      BY <1>1, <2>4, <2>5, Zenon
  <1>2. CASE SourceHandle /\ Head(sbox).type = "Get"
    <2>1. /\ sbox # << >> /\ sbox' = Tail(sbox) /\ tasks' = Replied(Head(sbox).task)
          /\ UNCHANGED <<source, sdirty, subscribed, started, spawned>>
      BY <1>2, Zenon DEF SourceHandle, derivedVars
    <2>2. /\ TasksInOrder(tasks', spawned') /\ QuestionsInOrder(tasks', sbox')
          /\ \E i \in DOMAIN tasks' : /\ tasks'[i].pc = "replied" /\ tasks'[i].value = Derive[source]
                                      /\ \A j \in DOMAIN tasks' : tasks'[j].pc = "replied" => j <= i
      BY <1>2, <2>1, AnswerKeeps, Zenon DEF Wakeful
    <2>3. Arrives(Derive[source])'
      BY <2>1, <2>2, Zenon DEF Arrives, Replies
    <2>4. Waiting(sbox, Subscribe) => Waiting(sbox', Subscribe)
      BY <1>2, <2>1, WaitingKept DEF Subscribe
    <2> QED
      BY <2>1, <2>2, <2>3, <2>4, Zenon DEF Wakeful
  <1>3. ASSUME NEW i \in DOMAIN tasks, TaskAsk(i) PROVE Wakeful'
    <2>1. /\ tasks[i].pc = "new" /\ \A j \in 1 .. i - 1 : tasks[j].pc # "new"
          /\ sbox' = Append(sbox, Get(tasks[i].id)) /\ tasks' = [tasks EXCEPT ![i].pc = "asked"]
          /\ UNCHANGED <<source, sdirty, subscribed, started, spawned, dbox, cached>>
      BY <1>3, Zenon DEF TaskAsk, Sent, derivedVars
    <2>2. /\ TasksInOrder(tasks', spawned') /\ QuestionsInOrder(tasks', sbox')
          /\ i \in DOMAIN tasks' /\ tasks'[i].pc = "asked"
      BY <2>1, AskKeeps, ZenonT(30) DEF Wakeful
    <2>3. Waiting(sbox, Subscribe) => Waiting(sbox', Subscribe)
      BY <2>1, WaitingKept, Zenon
    <2>4. RecomputationDue'
      BY <2>2, Zenon DEF RecomputationDue
    <2> QED
      BY <2>1, <2>2, <2>3, <2>4, Zenon DEF Wakeful
  <1>4. ASSUME NEW i \in DOMAIN tasks, TaskReport(i) PROVE Wakeful'
    <2>1. i = 1
      BY <1>4, FirstReports, Zenon DEF Wakeful
    <2>2. tasks # << >> /\ Finished(tasks, i) = Tail(tasks)
      BY <2>1, RemoveFacts, SeqFacts
    <2>3. /\ tasks[1].pc = "replied" /\ tasks' = Tail(tasks)
          /\ dbox' = Append(dbox, UpdateCache(tasks[1].value))
          /\ UNCHANGED <<source, sbox, sdirty, subscribed, started, cached, spawned>>
      BY <1>4, <2>1, <2>2, Zenon DEF TaskReport, Sent, sourceVars
    <2>4. TasksInOrder(tasks', spawned') /\ QuestionsInOrder(tasks', sbox')
      BY <2>2, <2>3, ReportKeeps, Zenon DEF Wakeful
    <2>5. Arrives(Derive[source]) => Arrives(Derive[source])'
      BY <2>2, <2>3, ReportArrives, Zenon
    <2>6. RecomputationDue => RecomputationDue'
      <3>1. Waiting(dbox, Notify) => Waiting(dbox', Notify)
        BY <2>3, WaitingKept, Zenon
      <3>2. ASSUME NEW j \in DOMAIN tasks, tasks[j].pc \in {"new", "asked"}
            PROVE  \E k \in DOMAIN tasks' : tasks'[k].pc \in {"new", "asked"}
        <4>1. /\ DOMAIN tasks = 1 .. Len(tasks) /\ DOMAIN tasks' = 1 .. Len(tasks) - 1
              /\ Len(tasks) \in Nat /\ \A k \in DOMAIN tasks' : tasks'[k] = tasks[k + 1]
          BY <2>2, <2>3, SeqFacts, TailFacts, Zenon
        <4>2. j - 1 \in DOMAIN tasks' /\ tasks'[j - 1] = tasks[j]
          BY <2>3, <3>2, <4>1
        <4> QED
          BY <3>2, <4>2, Zenon
      <3> QED
        BY <2>3, <3>1, <3>2, Zenon DEF RecomputationDue
    <2> QED
      BY <2>3, <2>4, <2>5, <2>6, Zenon DEF Wakeful
  <1> QED
    BY <1>1, <1>2, <1>3, <1>4, Zenon DEF Started, TaskStep

\* On a single-threaded executor no wakeup is lost, for any selector and capacity and
\* however mutations, notifications and recomputations interleave: while no mailbox has
\* refused a message, either the source will be read again or the last value on its way
\* to the cache is derived from the source as it is.
THEOREM NoWakeupIsLost == Ordered => (Spec => []NoLostWakeup)
<1> SUFFICES ASSUME Ordered PROVE Spec => []NoLostWakeup
  BY Zenon
<1>1. Init => DerivedInv
  <2> SUFFICES ASSUME Init PROVE DerivedInv
    BY Zenon
  <2>1. IsSeq(<< >>) /\ DOMAIN << >> = {}
    <3>1. << >> \in Seq({})
      OBVIOUS
    <3>2. IsSeq(<< >>)
      BY <3>1, AnySeq, Zenon
    <3>3. DOMAIN << >> = {}
      OBVIOUS
    <3> QED
      BY <3>2, <3>3, Zenon
  <2>2. tasks = << >> /\ sbox = << >> /\ started = FALSE
    BY Zenon DEF Init
  <2>3. TasksInOrder(tasks, spawned) /\ QuestionsInOrder(tasks, sbox)
    BY <2>1, <2>2, Zenon DEF TasksInOrder, QuestionsInOrder
  <2> QED
    BY <2>1, <2>2, <2>3, Zenon DEF Init, DerivedInv, DerivedTypes, Wakeful, RecomputationDue
<1>2. DerivedInv /\ [Next]_vars => DerivedInv'
  <2> SUFFICES ASSUME DerivedInv, [Next]_vars PROVE DerivedInv'
    BY Zenon
  <2>1. DerivedTypes'
    BY DerivedTypesKept, Zenon DEF DerivedInv
  <2>2. lost => lost'
    BY Zenon DEF Next, SendMutate, SourceHandle, SourceIdle, Started, DerivedHandle, DerivedIdle,
           TaskStep, TaskAsk, TaskReport, Read, vars
  <2>3. ASSUME ~ lost' PROVE Wakeful'
    <3>0. DerivedTypes /\ Wakeful
      BY <2>2, <2>3, Zenon DEF DerivedInv
    <3>1. CASE SendMutate
      BY <3>0, <3>1, WakefulByMailbox, Zenon DEF SendMutate, taskVars
    <3>2. CASE SourceHandle
      <4>1. CASE Head(sbox).type = "Get"
        BY <2>3, <3>0, <3>2, <4>1, WakefulByTasks, Zenon
      <4>2. CASE Head(sbox).type # "Get"
        BY <3>0, <3>2, <4>2, WakefulByMailbox, Zenon DEF SourceHandle
      <4> QED
        BY <4>1, <4>2, Zenon
    <3>3. CASE SourceIdle
      BY <2>3, <3>0, <3>3, WakefulByMailbox, Zenon DEF SourceIdle, taskVars
    <3>4. CASE Started \/ TaskStep
      BY <2>3, <3>0, <3>4, WakefulByTasks, Zenon
    <3>5. CASE DerivedHandle
      BY <2>3, <3>0, <3>5, WakefulByTasks, WakefulByMailbox, Zenon DEF DerivedHandle, taskVars
    <3>6. CASE DerivedIdle \/ Read \/ UNCHANGED vars
      <4>1. UNCHANGED <<sourceVars, taskVars, started, dbox, cached>>
        BY <3>6, Zenon DEF DerivedIdle, Read, vars, derivedVars
      <4>2. (RecomputationDue \/ Arrives(Derive[source]))'
        BY <3>0, <4>1, SameValueDue, Zenon DEF sourceVars, taskVars, Wakeful
      <4>3. /\ TasksInOrder(tasks, spawned)' /\ QuestionsInOrder(tasks, sbox)'
            /\ (started => subscribed \/ Waiting(sbox, Subscribe))'
        BY <3>0, <4>1, Zenon DEF sourceVars, taskVars, Wakeful
      <4> QED
        BY <4>2, <4>3, Zenon DEF Wakeful
    <3> QED
      BY <3>1, <3>2, <3>3, <3>4, <3>5, <3>6, Zenon DEF Next
  <2> QED
    BY <2>1, <2>3, Zenon DEF DerivedInv, DerivedTypes
<1>3. DerivedInv => NoLostWakeup
  <2> SUFFICES ASSUME DerivedTypes, Arrives(Derive[source]) PROVE Latest = Derive[source]
    BY Zenon DEF DerivedInv, Wakeful, NoLostWakeup
  <2>1. Replies \in SUBSET Nat /\ Updates \in SUBSET Nat
    BY SeqFacts DEF DerivedTypes, Replies, Updates
  <2> QED
    BY <2>1, MaxIs, Zenon DEF Arrives, Latest
<1> QED
  BY <1>1, <1>2, <1>3, PTL DEF Spec

-----------------------------------------------------------------------------
(* The actors of one process (ActorSystem).                                *)

Envelope == {Noop, Tell} \cup {Question(t) : t \in Actor \cup Caller}

Phase == {"unborn", "recv", "handling", "awaiting", "drain", "idle", "stopped", "done"}

ActorTypes ==
    /\ phase \in [Actor -> Phase]
    /\ mailbox \in [Actor -> Seq(Envelope)] /\ current \in [Actor -> Envelope]
    /\ stop \in [Actor -> BOOLEAN]
    /\ reply \in [Actor \cup Caller -> {"none", "pending", "answered", "error"}]
    /\ sysMailbox \in Seq(Actor \cup {Nobody})
    /\ entries \in Seq(Actor) /\ stopping \in Seq(Actor)
    /\ doneRxs \in SUBSET Actor /\ counted \in SUBSET Actor

LEMMA RangeAppend ==
    ASSUME NEW S, NEW s \in Seq(S), NEW x \in S
    PROVE  Append(s, x) \in Seq(S) /\ Range(Append(s, x)) = Range(s) \cup {x}
  <1>1. /\ Append(s, x) \in Seq(S) /\ Len(s) \in Nat
        /\ DOMAIN s = 1 .. Len(s) /\ DOMAIN Append(s, x) = 1 .. Len(s) + 1
        /\ \A i \in 1 .. Len(s) : Append(s, x)[i] = s[i]
        /\ Append(s, x)[Len(s) + 1] = x
    OBVIOUS
  <1>2. \A i \in 1 .. Len(s) + 1 : i \in 1 .. Len(s) \/ i = Len(s) + 1
    BY <1>1
  <1>3. /\ \A i \in 1 .. Len(s) : i \in 1 .. Len(s) + 1
        /\ Len(s) + 1 \in 1 .. Len(s) + 1
    BY <1>1
  <1> QED
    BY <1>1, <1>2, <1>3, Zenon DEF Range

LEMMA RangeTail ==
    ASSUME NEW S, NEW s \in Seq(S), s # << >>
    PROVE  /\ Head(s) \in S /\ Tail(s) \in Seq(S) /\ Head(s) = s[1]
           /\ Range(s) = Range(Tail(s)) \cup {Head(s)}
  <1>1. /\ Head(s) \in S /\ Tail(s) \in Seq(S) /\ Head(s) = s[1] /\ Len(s) \in Nat \ {0}
        /\ DOMAIN s = 1 .. Len(s) /\ DOMAIN Tail(s) = 1 .. Len(s) - 1
        /\ \A i \in 1 .. Len(s) - 1 : Tail(s)[i] = s[i + 1]
    OBVIOUS
  <1>2. /\ \A i \in 1 .. Len(s) : i = 1 \/ (i - 1 \in 1 .. Len(s) - 1 /\ s[i] = Tail(s)[i - 1])
        /\ \A i \in 1 .. Len(s) - 1 : i + 1 \in 1 .. Len(s)
        /\ 1 \in 1 .. Len(s)
    BY <1>1
  <1>3. ASSUME NEW x \in Range(s) PROVE x \in Range(Tail(s)) \cup {Head(s)}
    <2>1. PICK i \in 1 .. Len(s) : x = s[i]
      BY <1>1, Zenon DEF Range
    <2>2. CASE i = 1
      BY <1>1, <2>1, <2>2, Zenon
    <2>3. CASE i - 1 \in DOMAIN Tail(s) /\ s[i] = Tail(s)[i - 1]
      BY <2>1, <2>3, Zenon DEF Range
    <2> QED
      BY <1>1, <1>2, <2>2, <2>3, Zenon
  <1>4. ASSUME NEW x \in Range(Tail(s)) \cup {Head(s)} PROVE x \in Range(s)
    <2>1. CASE x = Head(s)
      BY <1>1, <1>2, <2>1, Zenon DEF Range
    <2>2. CASE x \in Range(Tail(s))
      <3>1. PICK i \in 1 .. Len(s) - 1 : x = Tail(s)[i]
        BY <1>1, <2>2, Zenon DEF Range
      <3>2. x = s[i + 1] /\ i + 1 \in DOMAIN s
        BY <1>1, <1>2, <3>1, Zenon
      <3> QED
        BY <3>2, Zenon DEF Range
    <2> QED
      BY <1>4, <2>1, <2>2, Zenon
  <1> QED
    BY <1>1, <1>3, <1>4, Zenon

LEMMA PostedFacts ==
    ASSUME ActorTypes, NEW a \in Actor, NEW e \in Envelope
    PROVE  /\ Posted(a, e) \in [Actor -> Seq(Envelope)]
           /\ \A b \in Actor : Range(mailbox[b]) \subseteq Range(Posted(a, e)[b])
           /\ Open(a) => e \in Range(Posted(a, e)[a])
           /\ \A b \in Actor : mailbox[b] # << >> => Posted(a, e)[b] # << >>
  <1>1. /\ mailbox \in [Actor -> Seq(Envelope)]
        /\ Append(mailbox[a], e) \in Seq(Envelope)
        /\ Range(Append(mailbox[a], e)) = Range(mailbox[a]) \cup {e}
        /\ Append(mailbox[a], e) # << >>
    <2>1. mailbox \in [Actor -> Seq(Envelope)]
      BY Zenon DEF ActorTypes
    <2>2. mailbox[a] \in Seq(Envelope)
      BY <2>1, Zenon
    <2>3. Append(mailbox[a], e) # << >>
      BY <2>2
    <2> QED
      BY <2>1, <2>2, <2>3, RangeAppend
  <1>2. CASE ~ Open(a)
    BY <1>1, <1>2, Zenon DEF Posted
  <1>3. CASE Open(a)
    <2>1. Posted(a, e) = [mailbox EXCEPT ![a] = Append(mailbox[a], e)]
      BY <1>3, Zenon DEF Posted
    <2> QED
      BY <1>1, <2>1, Zenon
  <1> QED
    BY <1>2, <1>3, Zenon

LEMMA TypesInit == ActorInit => ActorTypes
  BY EmptySeq DEF ActorInit, ActorTypes, Envelope, Phase

LEMMA TypesStep == ActorTypes /\ [ActorNext]_actorVars => ActorTypes'
  <1> SUFFICES ASSUME ActorTypes, [ActorNext]_actorVars PROVE ActorTypes'
    BY Zenon
  <1> USE DEF ActorTypes
  <1>0. Noop \in Envelope /\ Tell \in Envelope /\ \A t \in Actor \cup Caller : Question(t) \in Envelope
    BY Zenon DEF Envelope
  <1>1. ASSUME NEW a \in Actor, Send(a) PROVE ActorTypes'
    <2>1. Posted(a, Tell) \in [Actor -> Seq(Envelope)]
      BY <1>0, PostedFacts, Zenon
    <2> QED
      BY <1>1, <2>1, Zenon DEF Send
  <1>2. ASSUME NEW t \in Actor \cup Caller, NEW a \in Actor, AskOf(t, a)
        PROVE  /\ mailbox' \in [Actor -> Seq(Envelope)]
               /\ reply' \in [Actor \cup Caller -> {"none", "pending", "answered", "error"}]
    <2>1. Posted(a, Question(t)) \in [Actor -> Seq(Envelope)]
      BY <1>0, PostedFacts, Zenon
    <2> QED
      BY <1>2, <2>1, Zenon DEF AskOf
  <1>3. ASSUME NEW c \in Caller, NEW a \in Actor, CallerAsks(c, a) PROVE ActorTypes'
    BY <1>2, <1>3, Zenon DEF CallerAsks
  <1>4. ASSUME NEW a \in Actor, Take(a) PROVE ActorTypes'
    <2>1. mailbox[a] \in Seq(Envelope) /\ mailbox[a] # << >>
      BY <1>4, Zenon DEF Take
    <2>2. Head(mailbox[a]) \in Envelope /\ Tail(mailbox[a]) \in Seq(Envelope)
      BY <2>1, RangeTail, Zenon
    <2> QED
      BY <1>4, <2>2, Zenon DEF Take, Phase
  <1>5. ASSUME NEW a \in Actor, HandlerAsks(a) PROVE ActorTypes'
    <2>1. Downstream[a] \in Actor
      BY <1>5, ActorAssumption, Zenon DEF HandlerAsks
    <2> QED
      BY <1>2, <1>5, <2>1, Zenon DEF HandlerAsks, Phase
  <1>6. ASSUME NEW a \in Actor, HandlerReturns(a) PROVE ActorTypes'
    BY <1>6, Zenon DEF HandlerReturns, Phase
  <1>7. ASSUME NEW a \in Actor, Drained(a) \/ CheckStop(a) PROVE ActorTypes'
    BY <1>7, Zenon DEF Drained, CheckStop, Phase
  <1>8. ASSUME NEW a \in Actor, Done(a) PROVE ActorTypes'
    <2>1. << >> \in Seq(Envelope)
      BY EmptySeq, Zenon
    <2> QED
      BY <1>8, <2>1, Zenon DEF Done, Phase
  <1>9. ASSUME NEW a \in Actor, SpawnActor(a) PROVE ActorTypes'
    <2>1. Append(sysMailbox, a) \in Seq(Actor \cup {Nobody})
      BY RangeAppend, Zenon
    <2> QED
      BY <1>9, <2>1, Zenon DEF SpawnActor, Phase
  <1>10. CASE CallShutdown
    <2>1. Append(sysMailbox, Nobody) \in Seq(Actor \cup {Nobody})
      BY RangeAppend, Zenon
    <2> QED
      BY <1>10, <2>1, Zenon DEF CallShutdown
  <1>11. CASE Register
    <2>1. /\ Head(sysMailbox) \in Actor \cup {Nobody} /\ Tail(sysMailbox) \in Seq(Actor \cup {Nobody})
          /\ Head(sysMailbox) \in Actor
      BY <1>11, RangeTail, SMTT(30) DEF Register
    <2>2. Append(entries, Head(sysMailbox)) \in Seq(Actor)
      BY <2>1, RangeAppend, Zenon
    <2> QED
      BY <1>11, <2>1, <2>2, Zenon DEF Register
  <1>12. CASE Shutdown
    <2>1. Tail(sysMailbox) \in Seq(Actor \cup {Nobody}) /\ << >> \in Seq(Actor)
      BY <1>12, RangeTail, EmptySeq, Zenon DEF Shutdown
    <2> QED
      BY <1>12, <2>1, Zenon DEF Shutdown
  <1>13. CASE SignalStop
    <2>1. Head(stopping) \in Actor /\ Tail(stopping) \in Seq(Actor)
      BY <1>13, RangeTail, Zenon DEF SignalStop
    <2>2. Posted(Head(stopping), Noop) \in [Actor -> Seq(Envelope)]
      BY <1>0, <2>1, PostedFacts, Zenon
    <2> QED
      BY <1>13, <2>1, <2>2, Zenon DEF SignalStop
  <1>14. CASE ShutdownReplies \/ ShutdownEnds
    BY <1>14, Zenon DEF ShutdownReplies, ShutdownEnds
  <1>15. CASE UNCHANGED actorVars
    BY <1>15, Zenon DEF actorVars
  <1> QED
    BY <1>1, <1>3, <1>4, <1>5, <1>6, <1>7, <1>8, <1>9, <1>10, <1>11, <1>12, <1>13, <1>14, <1>15, ZenonT(30)
       DEF ActorNext, ActorStep, SystemStep

-----------------------------------------------------------------------------
(* The actors of one process: shutdown.                                    *)

Born(a) == phase[a] # "unborn"

\* The actors ahead of the Shutdown message in the system actor's mailbox.
Ahead(box) == {box[j] : j \in {j \in DOMAIN box : \A i \in 1 .. j : box[i] # Nobody}}

\* An actor that has been told to stop will look at its flag: it is not asleep in recv()
\* with nothing in its mailbox, although a full mailbox refuses the no-op and the actor may
\* have been anywhere in its loop when the flag was set (signal_stop, run_mailbox).
StopIsHeard == \A a \in doneRxs : stop[a] /\ (phase[a] = "recv" => mailbox[a] # << >>)

\* Whoever a shutdown stops has been spawned.
OnlyBorn ==
    /\ \A a \in Actor : a \in Range(sysMailbox) \cup Range(entries) \cup Range(stopping) => Born(a)
    /\ \A a \in doneRxs : Born(a)

\* Where an actor is whose Register was accepted before Shutdown was sent.
CountedIsKnown ==
    /\ shutdown = "none" => Nobody \notin Range(sysMailbox)
    /\ shutdown \in {"none", "asked"} => counted \subseteq Ahead(sysMailbox) \cup Range(entries)
    /\ shutdown = "stopping" => counted \subseteq Range(stopping) \cup doneRxs
    /\ shutdown = "waiting" => counted \subseteq doneRxs

\* When a shutdown returns, every actor whose Register was accepted before it has
\* stopped (System::shutdown, Handler<Shutdown>).
ShutdownIsComplete == shutdown = "returned" => \A a \in counted : phase[a] = "done"

ShutdownInv ==
    ActorTypes /\ StopIsHeard /\ OnlyBorn /\ CountedIsKnown /\ ShutdownIsComplete

LEMMA AheadFacts ==
    ASSUME NEW S, NEW box \in Seq(S)
    PROVE  /\ \A x \in S : Ahead(box) \subseteq Ahead(Append(box, x))
           /\ \A x \in S : x # Nobody /\ Nobody \notin Range(box) => x \in Ahead(Append(box, x))
           /\ box # << >> => Ahead(box) \subseteq Ahead(Tail(box)) \cup {Head(box)}
           /\ box # << >> /\ Head(box) = Nobody => Ahead(box) = {}
  <1>1. Len(box) \in Nat /\ DOMAIN box = 1 .. Len(box)
    OBVIOUS
  <1>2. ASSUME NEW x \in S
        PROVE  /\ DOMAIN Append(box, x) = 1 .. Len(box) + 1 /\ Append(box, x)[Len(box) + 1] = x
               /\ \A i \in 1 .. Len(box) : Append(box, x)[i] = box[i]
    BY SMTT(30)
  <1>3. ASSUME NEW x \in S, NEW y \in Ahead(box) PROVE y \in Ahead(Append(box, x))
    <2>1. PICK j \in 1 .. Len(box) : y = box[j] /\ \A i \in 1 .. j : box[i] # Nobody
      BY <1>1, Zenon DEF Ahead
    <2>2. j \in DOMAIN Append(box, x) /\ \A i \in 1 .. j : i \in 1 .. Len(box)
      BY <1>1, <1>2, SMTT(30)
    <2>3. Append(box, x)[j] = y /\ \A i \in 1 .. j : Append(box, x)[i] # Nobody
      BY <1>2, <2>1, <2>2, Zenon
    <2> QED
      BY <2>2, <2>3, Zenon DEF Ahead
  <1>4. ASSUME NEW x \in S, x # Nobody, Nobody \notin Range(box) PROVE x \in Ahead(Append(box, x))
    <2>1. Len(box) + 1 \in DOMAIN Append(box, x) /\ Append(box, x)[Len(box) + 1] = x
      BY <1>1, <1>2
    <2>2. ASSUME NEW i \in 1 .. Len(box) + 1 PROVE Append(box, x)[i] # Nobody
      <3>1. CASE i = Len(box) + 1
        BY <1>4, <2>1, <3>1, Zenon
      <3>2. CASE i \in DOMAIN box
        BY <1>1, <1>2, <1>4, <3>2 DEF Range
      <3> QED
        BY <1>1, <3>1, <3>2, SMTT(30)
    <2> QED
      BY <2>1, <2>2, Zenon DEF Ahead
  <1>5. ASSUME box # << >>, NEW y \in Ahead(box) PROVE y \in Ahead(Tail(box)) \cup {Head(box)}
    <2>1. /\ Head(box) = box[1] /\ DOMAIN Tail(box) = 1 .. Len(box) - 1
          /\ \A i \in 1 .. Len(box) - 1 : Tail(box)[i] = box[i + 1]
      BY <1>5
    <2>2. PICK j \in 1 .. Len(box) : y = box[j] /\ \A i \in 1 .. j : box[i] # Nobody
      BY <1>1, Zenon DEF Ahead
    <2>3. CASE j = 1
      BY <2>1, <2>2, <2>3, Zenon
    <2>4. CASE j # 1
      <3>1. j - 1 \in DOMAIN Tail(box) /\ Tail(box)[j - 1] = y
        BY <1>1, <2>1, <2>2, <2>4, SMTT(30)
      <3>2. ASSUME NEW i \in 1 .. j - 1 PROVE Tail(box)[i] # Nobody
        <4>1. i + 1 \in 1 .. j /\ i \in 1 .. Len(box) - 1
          BY <1>1
        <4> QED
          BY <2>1, <2>2, <4>1, Zenon
      <3> QED
        BY <3>1, <3>2, Zenon DEF Ahead
    <2> QED
      BY <2>3, <2>4, Zenon
  <1>6. ASSUME box # << >>, Head(box) = Nobody, NEW y \in Ahead(box) PROVE FALSE
    <2>1. PICK j \in 1 .. Len(box) : \A i \in 1 .. j : box[i] # Nobody
      BY <1>1, Zenon DEF Ahead
    <2>2. 1 \in 1 .. j /\ box[1] = Nobody
      BY <1>1, <1>6, SMTT(30)
    <2> QED
      BY <2>1, <2>2, Zenon
  <1> QED
    BY <1>3, <1>4, <1>5, <1>6, Zenon

\* A step of an actor or of a sender: it leaves the system actor alone, and nobody who was
\* spawned or has stopped is otherwise afterwards.
LEMMA ActorsKeepShutdown ==
    ASSUME ShutdownInv, ActorTypes',
           UNCHANGED <<stop, sysMailbox, entries, stopping, doneRxs, shutdown, counted>>,
           \A b \in Actor : Born(b) => Born(b)',
           \A b \in Actor : phase[b] = "done" => phase'[b] = "done",
           \A b \in doneRxs : phase'[b] = "recv" => mailbox'[b] # << >>
    PROVE  ShutdownInv'
  <1>1. /\ doneRxs \subseteq Actor /\ counted \subseteq Actor
        /\ stop' = stop /\ sysMailbox' = sysMailbox /\ entries' = entries /\ stopping' = stopping
        /\ doneRxs' = doneRxs /\ shutdown' = shutdown /\ counted' = counted
    BY Zenon DEF ShutdownInv, ActorTypes
  <1>2. StopIsHeard'
    BY <1>1, Zenon DEF ShutdownInv, StopIsHeard
  <1>3. OnlyBorn'
    BY <1>1, ZenonT(30) DEF ShutdownInv, OnlyBorn, Born
  <1>4. CountedIsKnown'
    BY Zenon DEF ShutdownInv, CountedIsKnown, Ahead
  <1>5. ShutdownIsComplete'
    BY <1>1, Zenon DEF ShutdownInv, ShutdownIsComplete
  <1> QED
    BY <1>2, <1>3, <1>4, <1>5, Zenon DEF ShutdownInv

LEMMA ActorStepsKeepShutdown ==
    ASSUME ShutdownInv, ActorTypes', NEW a \in Actor, ActorStep(a)
    PROVE  ShutdownInv'
  <1>1. /\ phase \in [Actor -> Phase] /\ mailbox \in [Actor -> Seq(Envelope)]
        /\ \A b \in doneRxs : stop[b] /\ (phase[b] = "recv" => mailbox[b] # << >>)
        /\ doneRxs \subseteq Actor
        /\ Noop \in Envelope /\ \A t \in Actor \cup Caller : Question(t) \in Envelope
    BY Zenon DEF ShutdownInv, ActorTypes, StopIsHeard, Envelope
  <1>2. CASE Take(a)
    BY <1>1, <1>2, ActorsKeepShutdown, Zenon DEF Take, Born
  <1>3. CASE HandlerAsks(a)
    <2>1. Downstream[a] \in Actor
      BY <1>3, ActorAssumption, Zenon DEF HandlerAsks
    <2>2. \A b \in Actor : mailbox[b] # << >> => mailbox'[b] # << >>
      BY <1>1, <1>3, <2>1, PostedFacts, Zenon DEF HandlerAsks, AskOf, ShutdownInv
    <2> QED
      BY <1>1, <1>3, <2>2, ActorsKeepShutdown, Zenon DEF HandlerAsks, Born
  <1>4. CASE HandlerReturns(a)
    BY <1>1, <1>4, ActorsKeepShutdown, ZenonT(30) DEF HandlerReturns, Born
  <1>5. CASE Drained(a)
    BY <1>1, <1>5, ActorsKeepShutdown, Zenon DEF Drained, Born
  <1>6. CASE CheckStop(a)
    BY <1>1, <1>6, ActorsKeepShutdown, Zenon DEF CheckStop, Born
  <1>7. CASE Done(a)
    BY <1>1, <1>7, ActorsKeepShutdown, Zenon DEF Done, Born
  <1> QED
    BY <1>2, <1>3, <1>4, <1>5, <1>6, <1>7, Zenon DEF ActorStep

LEMMA SendersKeepShutdown ==
    ASSUME ShutdownInv, ActorTypes', NEW a \in Actor,
           Send(a) \/ \E c \in Caller : CallerAsks(c, a)
    PROVE  ShutdownInv'
  <1>1. PICK e \in Envelope : mailbox' = Posted(a, e)
    BY Zenon DEF Send, CallerAsks, AskOf, Envelope
  <1>2. \A b \in Actor : mailbox[b] # << >> => mailbox'[b] # << >>
    BY <1>1, PostedFacts, Zenon DEF ShutdownInv
  <1>3. doneRxs \subseteq Actor /\ \A b \in doneRxs : phase[b] = "recv" => mailbox[b] # << >>
    BY Zenon DEF ShutdownInv, StopIsHeard, ActorTypes
  <1>4. UNCHANGED <<phase, stop, sysMailbox, entries, stopping, doneRxs, shutdown, counted>>
    BY Zenon DEF Send, CallerAsks
  <1> QED
    BY <1>2, <1>3, <1>4, ActorsKeepShutdown, Zenon DEF Born

LEMMA SpawnKeepsShutdown ==
    ASSUME ShutdownInv, ActorTypes', NEW a \in Actor, SpawnActor(a)
    PROVE  ShutdownInv'
  <1>1. /\ phase \in [Actor -> Phase] /\ sysMailbox \in Seq(Actor \cup {Nobody})
        /\ entries \in Seq(Actor) /\ stopping \in Seq(Actor)
        /\ doneRxs \subseteq Actor /\ counted \subseteq Actor /\ Nobody \notin Actor
    BY ActorAssumption, Zenon DEF ShutdownInv, ActorTypes
  <1>2. /\ phase[a] = "unborn" /\ phase' = [phase EXCEPT ![a] = "recv"]
        /\ stop' = stop /\ mailbox' = mailbox /\ entries' = entries /\ stopping' = stopping
        /\ doneRxs' = doneRxs /\ shutdown' = shutdown
    BY Zenon DEF SpawnActor
  <1>3. /\ Range(Append(sysMailbox, a)) = Range(sysMailbox) \cup {a}
        /\ Ahead(sysMailbox) \subseteq Ahead(Append(sysMailbox, a))
        /\ Nobody \notin Range(sysMailbox) => a \in Ahead(Append(sysMailbox, a))
    <2>1. a \in Actor \cup {Nobody} /\ a # Nobody
      BY <1>1, Zenon
    <2> QED
      BY <1>1, <2>1, RangeAppend, AheadFacts
  <1>4. \/ /\ sysMailbox' = Append(sysMailbox, a)
           /\ counted' = counted \/ (shutdown = "none" /\ counted' = counted \cup {a})
        \/ sysMailbox' = sysMailbox /\ counted' = counted
    <2>1. CASE Len(sysMailbox) < SystemCapacity
      BY <2>1, Zenon DEF SpawnActor
    <2>2. CASE ~ (Len(sysMailbox) < SystemCapacity)
      BY <2>2, Zenon DEF SpawnActor
    <2> QED
      BY <2>1, <2>2, Zenon
  <1>5. a \notin doneRxs
    BY <1>2, Zenon DEF ShutdownInv, OnlyBorn, Born
  <1>6. StopIsHeard'
    BY <1>1, <1>2, <1>5, Zenon DEF ShutdownInv, StopIsHeard
  <1>7. OnlyBorn'
    <2>1. Range(sysMailbox') \subseteq Range(sysMailbox) \cup {a}
      BY <1>3, <1>4, Zenon
    <2>2. \A b \in Actor : Born(b) \/ b = a => Born(b)'
      BY <1>1, <1>2, Zenon DEF Born
    <2>3. /\ \A b \in Actor : b \in Range(sysMailbox) \cup Range(entries) \cup Range(stopping) => Born(b)
          /\ \A b \in doneRxs : Born(b)
      BY Zenon DEF ShutdownInv, OnlyBorn
    <2> QED
      BY <1>1, <1>2, <2>1, <2>2, <2>3, Zenon DEF OnlyBorn
  <1>8. CountedIsKnown'
    BY <1>1, <1>2, <1>3, <1>4, Zenon DEF ShutdownInv, CountedIsKnown
  <1>9. ShutdownIsComplete'
    BY <1>1, <1>2, <1>4, Zenon DEF ShutdownInv, ShutdownIsComplete
  <1> QED
    BY <1>6, <1>7, <1>8, <1>9, Zenon DEF ShutdownInv

LEMMA SystemKeepsShutdown ==
    ASSUME ShutdownInv, ActorTypes', SystemStep \/ CallShutdown \/ ShutdownEnds
    PROVE  ShutdownInv'
  <1>1. /\ phase \in [Actor -> Phase] /\ sysMailbox \in Seq(Actor \cup {Nobody})
        /\ stop \in [Actor -> BOOLEAN]
        /\ entries \in Seq(Actor) /\ stopping \in Seq(Actor)
        /\ doneRxs \subseteq Actor /\ counted \subseteq Actor /\ Nobody \notin Actor
    BY ActorAssumption, Zenon DEF ShutdownInv, ActorTypes
  <1>2. CASE CallShutdown
    <2>1. /\ Range(Append(sysMailbox, Nobody)) = Range(sysMailbox) \cup {Nobody}
          /\ Ahead(sysMailbox) \subseteq Ahead(Append(sysMailbox, Nobody))
      BY <1>1, RangeAppend, AheadFacts, SMTT(30)
    <2>2. /\ shutdown = "none"
          /\ \/ sysMailbox' = Append(sysMailbox, Nobody) /\ shutdown' = "asked"
             \/ sysMailbox' = sysMailbox /\ shutdown' = "refused"
          /\ phase' = phase /\ mailbox' = mailbox /\ stop' = stop /\ entries' = entries
          /\ stopping' = stopping /\ doneRxs' = doneRxs /\ counted' = counted
      BY <1>2, Zenon DEF CallShutdown
    <2>3. StopIsHeard' /\ ShutdownIsComplete'
      BY <2>2, Zenon DEF ShutdownInv, StopIsHeard, ShutdownIsComplete
    <2>4. OnlyBorn'
      <3>1. Range(sysMailbox') \subseteq Range(sysMailbox) \cup {Nobody}
        BY <2>1, <2>2, Zenon
      <3> QED
        BY <1>1, <2>2, <3>1, Zenon DEF ShutdownInv, OnlyBorn, Born
    <2>5. CountedIsKnown'
      BY <2>1, <2>2, Zenon DEF ShutdownInv, CountedIsKnown
    <2> QED
      BY <2>3, <2>4, <2>5, Zenon DEF ShutdownInv
  <1>3. CASE Register
    <2> DEFINE a == Head(sysMailbox)
    <2>1. /\ a \in Actor /\ Range(sysMailbox) = Range(Tail(sysMailbox)) \cup {a}
          /\ Ahead(sysMailbox) \subseteq Ahead(Tail(sysMailbox)) \cup {a}
      BY <1>1, <1>3, RangeTail, AheadFacts, SMTT(30) DEF Register
    <2>2. Range(Append(entries, a)) = Range(entries) \cup {a}
      BY <1>1, <2>1, RangeAppend, SMTT(30)
    <2>3. /\ entries' = Append(entries, a) /\ sysMailbox' = Tail(sysMailbox)
          /\ phase' = phase /\ mailbox' = mailbox /\ stop' = stop /\ shutdown' = shutdown
          /\ stopping' = stopping /\ doneRxs' = doneRxs /\ counted' = counted
      BY <1>3, Zenon DEF Register
    <2> HIDE DEF a
    <2>4. StopIsHeard' /\ ShutdownIsComplete'
      BY <2>3, Zenon DEF ShutdownInv, StopIsHeard, ShutdownIsComplete
    <2>5. OnlyBorn'
      BY <1>1, <2>1, <2>2, <2>3, Zenon DEF ShutdownInv, OnlyBorn, Born
    <2>6. CountedIsKnown'
      BY <2>1, <2>2, <2>3, Zenon DEF ShutdownInv, CountedIsKnown
    <2> QED
      BY <2>4, <2>5, <2>6, Zenon DEF ShutdownInv
  <1>4. CASE Shutdown
    <2>1. /\ Range(sysMailbox) = Range(Tail(sysMailbox)) \cup {Nobody} /\ Ahead(sysMailbox) = {}
      BY <1>1, <1>4, RangeTail, AheadFacts, Zenon DEF Shutdown
    <2>2. /\ entries' = << >> /\ stopping' = entries /\ sysMailbox' = Tail(sysMailbox)
          /\ shutdown = "asked" /\ shutdown' = "stopping"
          /\ phase' = phase /\ mailbox' = mailbox /\ stop' = stop
          /\ doneRxs' = doneRxs /\ counted' = counted
      BY <1>4, Zenon DEF Shutdown
    <2>3. Range(<< >>) = {}
      BY SMTT(30) DEF Range
    <2>4. StopIsHeard' /\ ShutdownIsComplete'
      BY <2>2, Zenon DEF ShutdownInv, StopIsHeard, ShutdownIsComplete
    <2>5. OnlyBorn'
      BY <1>1, <2>1, <2>2, <2>3, Zenon DEF ShutdownInv, OnlyBorn, Born
    <2>6. CountedIsKnown'
      BY <2>1, <2>2, Zenon DEF ShutdownInv, CountedIsKnown
    <2> QED
      BY <2>4, <2>5, <2>6, Zenon DEF ShutdownInv
  <1>5. CASE SignalStop
    <2> DEFINE a == Head(stopping)
    <2>1. a \in Actor /\ Range(stopping) = Range(Tail(stopping)) \cup {a}
      BY <1>1, <1>5, RangeTail, Zenon DEF SignalStop
    <2>2. /\ phase' = phase /\ sysMailbox' = sysMailbox /\ entries' = entries
          /\ shutdown = "stopping" /\ shutdown' = shutdown /\ counted' = counted
          /\ \/ /\ stop' = [stop EXCEPT ![a] = TRUE] /\ mailbox' = mailbox
                /\ doneRxs' = doneRxs /\ stopping' = stopping
             \/ /\ stop[a] /\ stop' = stop /\ mailbox' = Posted(a, Noop)
                /\ doneRxs' = doneRxs \cup {a} /\ stopping' = Tail(stopping)
      BY <1>5, Zenon DEF SignalStop
    <2> HIDE DEF a
    <2>3. Born(a)
      BY <2>1, Zenon DEF ShutdownInv, OnlyBorn
    <2>4. /\ \A b \in Actor : mailbox[b] # << >> => Posted(a, Noop)[b] # << >>
          /\ phase[a] = "recv" => Posted(a, Noop)[a] # << >>
      <3>1. /\ \A b \in Actor : mailbox[b] # << >> => Posted(a, Noop)[b] # << >>
            /\ Open(a) => Noop \in Range(Posted(a, Noop)[a])
        BY <2>1, PostedFacts, Zenon DEF ShutdownInv, Envelope
      <3>2. mailbox[a] = << >> /\ phase[a] = "recv" => Open(a)
        BY ActorAssumption, SMTT(30) DEF Open
      <3>3. Range(<< >>) = {}
        BY DEF Range
      <3> QED
        BY <2>1, <3>1, <3>2, <3>3, Zenon
    <2>5. StopIsHeard'
      <3>1. \A b \in doneRxs : stop[b] /\ (phase[b] = "recv" => mailbox[b] # << >>)
        BY Zenon DEF ShutdownInv, StopIsHeard
      <3>2. CASE /\ stop' = [stop EXCEPT ![a] = TRUE] /\ mailbox' = mailbox /\ doneRxs' = doneRxs
        BY <1>1, <2>1, <2>2, <3>1, <3>2, Zenon DEF StopIsHeard
      <3>3. CASE /\ stop[a] /\ stop' = stop /\ mailbox' = Posted(a, Noop)
                 /\ doneRxs' = doneRxs \cup {a}
        <4>1. ASSUME NEW b \in doneRxs \cup {a}
              PROVE  stop[b] /\ (phase[b] = "recv" => Posted(a, Noop)[b] # << >>)
          BY <1>1, <2>1, <2>4, <3>1, <3>3, Zenon
        <4> QED
          BY <2>2, <3>3, <4>1, Zenon DEF StopIsHeard
      <3> QED
        BY <2>2, <3>2, <3>3, Zenon
    <2>6. OnlyBorn'
      BY <1>1, <2>1, <2>2, <2>3, Zenon DEF ShutdownInv, OnlyBorn, Born
    <2>7. CountedIsKnown' /\ ShutdownIsComplete'
      BY <2>1, <2>2, Zenon DEF ShutdownInv, CountedIsKnown, ShutdownIsComplete
    <2> QED
      BY <2>5, <2>6, <2>7, Zenon DEF ShutdownInv
  <1>6. CASE ShutdownReplies \/ ShutdownEnds
    <2>1. /\ phase' = phase /\ sysMailbox' = sysMailbox /\ entries' = entries /\ mailbox' = mailbox
          /\ stop' = stop /\ stopping' = stopping /\ doneRxs' = doneRxs /\ counted' = counted
          /\ \/ shutdown = "stopping" /\ stopping = << >> /\ shutdown' = "waiting"
             \/ /\ shutdown = "waiting" /\ shutdown' = "returned"
                /\ \A b \in doneRxs : phase[b] = "done"
      BY <1>6, Zenon DEF ShutdownReplies, ShutdownEnds
    <2>2. Range(<< >>) = {}
      BY DEF Range
    <2>3. StopIsHeard' /\ OnlyBorn'
      BY <2>1, Zenon DEF ShutdownInv, StopIsHeard, OnlyBorn, Born
    <2>4. CountedIsKnown' /\ ShutdownIsComplete'
      BY <2>1, <2>2, Zenon DEF ShutdownInv, CountedIsKnown, ShutdownIsComplete
    <2> QED
      BY <2>3, <2>4, Zenon DEF ShutdownInv
  <1> QED
    BY <1>2, <1>3, <1>4, <1>5, <1>6, Zenon DEF SystemStep

LEMMA ShutdownAlways == ActorSpec => []ShutdownInv
  <1>1. ActorInit => ShutdownInv
    <2>1. Range(<< >>) = {}
      BY DEF Range
    <2> QED
      BY <2>1, TypesInit, Zenon DEF ActorInit, ShutdownInv, StopIsHeard, OnlyBorn, CountedIsKnown,
                             ShutdownIsComplete
  <1>2. ShutdownInv /\ [ActorNext]_actorVars => ShutdownInv'
    <2> SUFFICES ASSUME ShutdownInv, [ActorNext]_actorVars PROVE ShutdownInv'
      BY Zenon
    <2>1. ActorTypes'
      BY TypesStep, Zenon DEF ShutdownInv
    <2>2. CASE UNCHANGED actorVars
      <3>1. /\ phase' = phase /\ sysMailbox' = sysMailbox /\ entries' = entries /\ mailbox' = mailbox
            /\ stop' = stop /\ stopping' = stopping /\ doneRxs' = doneRxs /\ counted' = counted
            /\ shutdown' = shutdown
        BY <2>2, Zenon DEF actorVars
      <3> QED
        BY <2>1, <3>1, Zenon DEF ShutdownInv, StopIsHeard, OnlyBorn, CountedIsKnown, ShutdownIsComplete,
                          Born, Ahead
    <2>3. CASE ActorNext
      BY <2>1, <2>3, ActorStepsKeepShutdown, SendersKeepShutdown, SpawnKeepsShutdown,
         SystemKeepsShutdown, Zenon DEF ActorNext
    <2> QED
      BY <2>2, <2>3, Zenon
  <1> QED
    BY <1>1, <1>2, PTL DEF ActorSpec

\* When System::shutdown returns every actor whose Register was accepted before it has
\* stopped, for any actors and capacities, whatever they were doing.
THEOREM ShutdownsAreComplete == ActorSpec => []ShutdownIsComplete
  BY ShutdownAlways, PTL DEF ShutdownInv

\* No stop is slept through: signal_stop sets the flag before it sends the no-op, and a
\* mailbox that refuses the no-op has something else in it to wake up for.
THEOREM StopsAreHeard == ActorSpec => []StopIsHeard
  BY ShutdownAlways, PTL DEF ShutdownInv

-----------------------------------------------------------------------------
(* The actors of one process: questions.                                   *)

\* Actor a runs and has t's question, in its mailbox or in hand.
Holds(a, t) ==
    /\ phase[a] \notin {"unborn", "done"}
    /\ \/ Question(t) \in Range(mailbox[a])
       \/ phase[a] \in {"handling", "awaiting"} /\ current[a] = Question(t)

\* Whoever waits for an answer waits for an actor that still runs and has the question: none
\* is left behind in the channel of an actor that stopped, and no handler returns without
\* answering (Addr::ask, envelope_ask, run_mailbox).
PendingIsHeld ==
    \A t \in Actor \cup Caller : reply[t] = "pending" => \E a \in Actor : Holds(a, t)

LEMMA QuestionFacts ==
    /\ \A t, u : Question(t) = Question(u) => t = u
    /\ \A t : Question(t).kind = "ask" /\ Question(t).from = t
  BY Zenon DEF Question

LEMMA AskKeepsHeld ==
    ASSUME ActorTypes, PendingIsHeld, NEW t \in Actor \cup Caller, NEW a \in Actor, AskOf(t, a),
           NEW b, \A c \in Actor : c # b => phase'[c] = phase[c],
           b \in Actor => phase[b] = "handling" /\ phase'[b] = "awaiting",
           UNCHANGED current
    PROVE  PendingIsHeld'
  <1>1. Question(t) \in Envelope
    BY Zenon DEF Envelope
  <1>2. /\ mailbox' = Posted(a, Question(t))
        /\ reply' = [reply EXCEPT ![t] = IF Open(a) THEN "pending" ELSE "error"]
    BY Zenon DEF AskOf
  <1>3. /\ \A c \in Actor : Range(mailbox[c]) \subseteq Range(mailbox'[c])
        /\ Open(a) => Question(t) \in Range(mailbox'[a])
    BY <1>1, <1>2, PostedFacts, Zenon
  <1>4. /\ \A c \in Actor : phase[c] \notin {"unborn", "done"} => phase'[c] \notin {"unborn", "done"}
        /\ \A c \in Actor : phase[c] \in {"handling", "awaiting"} => phase'[c] \in {"handling", "awaiting"}
    <2>1. ASSUME NEW c \in Actor
          PROVE  /\ phase[c] \notin {"unborn", "done"} => phase'[c] \notin {"unborn", "done"}
                 /\ phase[c] \in {"handling", "awaiting"} => phase'[c] \in {"handling", "awaiting"}
      <3>1. CASE c = b
        BY <3>1, Zenon
      <3>2. CASE c # b
        BY <3>2, Zenon
      <3> QED
        BY <3>1, <3>2, Zenon
    <2> QED
      BY <2>1, Zenon
  <1>5. \A c \in Actor : \A u : Holds(c, u) => Holds(c, u)'
    BY <1>3, <1>4, Zenon DEF Holds, Question
  <1>6. ASSUME NEW u \in Actor \cup Caller, reply'[u] = "pending" PROVE \E c \in Actor : Holds(c, u)'
    <2>1. CASE u = t
      <3>1. Open(a)
        BY <1>2, <1>6, <2>1, Zenon DEF ActorTypes
      <3>2. Question(u) \in Range(mailbox'[a]) /\ phase'[a] \notin {"unborn", "done"}
        BY <1>3, <1>4, <2>1, <3>1, ZenonT(30) DEF Open
      <3>3. Holds(a, u)'
        BY <3>2, ZenonT(30) DEF Holds, Question
      <3> QED
        BY <3>3, Zenon
    <2>2. CASE u # t
      <3>1. reply[u] = "pending"
        BY <1>2, <1>6, <2>2, Zenon DEF ActorTypes
      <3> QED
        BY <1>5, <3>1, Zenon DEF PendingIsHeld
    <2> QED
      BY <2>1, <2>2, Zenon
  <1> QED
    BY <1>6, Zenon DEF PendingIsHeld

\* Nothing is taken from a mailbox or a handler, and nobody asks.
LEMMA OthersKeepHeld ==
    ASSUME PendingIsHeld, UNCHANGED reply,
           \A a \in Actor : phase[a] \notin {"unborn", "done"} => phase'[a] \notin {"unborn", "done"},
           \A a \in Actor : phase[a] \in {"handling", "awaiting"}
                => phase'[a] = phase[a] /\ current'[a] = current[a],
           \A a \in Actor : Range(mailbox[a]) \subseteq Range(mailbox'[a])
    PROVE  PendingIsHeld'
  <1>1. \A a \in Actor : \A t : Holds(a, t) => Holds(a, t)'
    BY Zenon DEF Holds, Question
  <1> QED
    BY <1>1, ZenonT(30) DEF PendingIsHeld

\* Every ask that has neither an answer nor an error is with an actor that runs: run_mailbox
\* drops what its channel holds when it ends, and a dropped question is an error.
THEOREM PendingAsksAreHeld == ActorSpec => []PendingIsHeld
  <1>1. ActorInit => ActorTypes /\ PendingIsHeld
    BY TypesInit, Zenon DEF ActorInit, PendingIsHeld
  <1>2. ActorTypes /\ PendingIsHeld /\ [ActorNext]_actorVars => ActorTypes' /\ PendingIsHeld'
    <2> SUFFICES ASSUME ActorTypes, PendingIsHeld, [ActorNext]_actorVars PROVE PendingIsHeld'
      BY TypesStep, Zenon
    <2>0. /\ phase \in [Actor -> Phase] /\ mailbox \in [Actor -> Seq(Envelope)]
          /\ current \in [Actor -> Envelope] /\ sysMailbox \in Seq(Actor \cup {Nobody})
          /\ reply \in [Actor \cup Caller -> {"none", "pending", "answered", "error"}]
          /\ Noop \in Envelope /\ Tell \in Envelope
      BY Zenon DEF ActorTypes, Envelope
    <2>1. ASSUME NEW a \in Actor, Send(a) PROVE PendingIsHeld'
      <3>1. \A b \in Actor : Range(mailbox[b]) \subseteq Range(mailbox'[b])
        BY <2>0, <2>1, PostedFacts, Zenon DEF Send
      <3> QED
        BY <2>1, <3>1, OthersKeepHeld, Zenon DEF Send
    <2>2. ASSUME NEW c \in Caller, NEW a \in Actor, CallerAsks(c, a) PROVE PendingIsHeld'
      <3>1. c \in Actor \cup Caller /\ AskOf(c, a) /\ phase' = phase /\ current' = current /\ Nobody \notin Actor
        BY <2>2, ActorAssumption, Zenon DEF CallerAsks
      <3> QED
        BY <3>1, AskKeepsHeld, Zenon
    <2>3. ASSUME NEW a \in Actor, HandlerAsks(a) PROVE PendingIsHeld'
      <3>1. Downstream[a] \in Actor
        BY <2>3, ActorAssumption, Zenon DEF HandlerAsks
      <3>2. /\ AskOf(a, Downstream[a]) /\ phase[a] = "handling" /\ phase'[a] = "awaiting"
            /\ \A c \in Actor : c # a => phase'[c] = phase[c]
            /\ current' = current /\ a \in Actor \cup Caller
        BY <2>0, <2>3, Zenon DEF HandlerAsks
      <3> QED
        BY <3>1, <3>2, AskKeepsHeld, Zenon
    <2>4. ASSUME NEW a \in Actor, Take(a) PROVE PendingIsHeld'
      <3>1. /\ mailbox[a] \in Seq(Envelope) /\ mailbox[a] # << >>
            /\ phase[a] \in {"recv", "drain"} /\ phase'[a] = "handling"
            /\ current'[a] = Head(mailbox[a]) /\ mailbox'[a] = Tail(mailbox[a]) /\ reply' = reply
            /\ \A b \in Actor : b # a =>
                  phase'[b] = phase[b] /\ current'[b] = current[b] /\ mailbox'[b] = mailbox[b]
        BY <2>0, <2>4, Zenon DEF Take
      <3>2. Range(mailbox[a]) = Range(mailbox'[a]) \cup {current'[a]}
        BY <3>1, RangeTail, ZenonT(30)
      <3>3. ASSUME NEW b \in Actor, NEW t, Holds(b, t) PROVE Holds(b, t)'
        <4>1. CASE b # a
          BY <3>1, <3>3, <4>1, Zenon DEF Holds, Question
        <4>2. CASE b = a
          <5>1. Question(t) \in Range(mailbox[a])
            BY <3>1, <3>3, <4>2, Zenon DEF Holds
          <5>2. Question(t) \in Range(mailbox'[a]) \/ current'[a] = Question(t)
            BY <3>2, <5>1, Zenon
          <5> QED
            BY <3>1, <4>2, <5>2, Zenon DEF Holds, Question
        <4> QED
          BY <4>1, <4>2, Zenon
      <3> QED
        BY <3>1, <3>3, Zenon DEF PendingIsHeld
    <2>5. ASSUME NEW a \in Actor, HandlerReturns(a) PROVE PendingIsHeld'
      <3>1. /\ mailbox' = mailbox /\ current' = current /\ phase[a] \in {"handling", "awaiting"}
            /\ phase'[a] = "drain" /\ \A b \in Actor : b # a => phase'[b] = phase[b]
            /\ reply' = IF current[a].kind = "ask" THEN [reply EXCEPT ![current[a].from] = "answered"]
                        ELSE reply
        BY <2>0, <2>5, Zenon DEF HandlerReturns
      <3>2. ASSUME NEW t \in Actor \cup Caller, reply'[t] = "pending" PROVE \E b \in Actor : Holds(b, t)'
        <4>1. reply[t] = "pending" /\ current[a] # Question(t)
          <5>1. current[a] = Question(t) => reply'[t] = "answered"
            BY <2>0, <3>1, QuestionFacts, SMTT(30)
          <5> QED
            BY <2>0, <3>1, <3>2, <5>1, Zenon
        <4>2. PICK b \in Actor : Holds(b, t)
          BY <4>1, Zenon DEF PendingIsHeld
        <4>3. Holds(b, t)'
          <5>1. CASE b = a
            BY <3>1, <4>1, <4>2, <5>1, ZenonT(30) DEF Holds, Question
          <5>2. CASE b # a
            BY <3>1, <4>2, <5>2, Zenon DEF Holds, Question
          <5> QED
            BY <5>1, <5>2, Zenon
        <4> QED
          BY <4>3, Zenon
      <3> QED
        BY <3>2, Zenon DEF PendingIsHeld
    <2>6. ASSUME NEW a \in Actor, Drained(a) \/ CheckStop(a) PROVE PendingIsHeld'
      <3>1. /\ mailbox' = mailbox /\ current' = current /\ reply' = reply
            /\ phase[a] \in {"drain", "idle"} /\ phase'[a] \in {"idle", "stopped", "recv"}
            /\ \A b \in Actor : b # a => phase'[b] = phase[b]
        BY <2>0, <2>6, Zenon DEF Drained, CheckStop
      <3>2. \A b \in Actor : phase[b] \notin {"unborn", "done"} => phase'[b] \notin {"unborn", "done"}
        BY <3>1, Zenon
      <3>3. \A b \in Actor : phase[b] \in {"handling", "awaiting"} => phase'[b] = phase[b]
        BY <3>1, Zenon
      <3> QED
        BY <3>1, <3>2, <3>3, OthersKeepHeld, Zenon
    <2>7. ASSUME NEW a \in Actor, Done(a) PROVE PendingIsHeld'
      <3>1. /\ current' = current /\ phase[a] = "stopped"
            /\ \A b \in Actor : b # a => phase'[b] = phase[b] /\ mailbox'[b] = mailbox[b]
            /\ \A t \in Actor \cup Caller :
                  reply'[t] = IF Question(t) \in Range(mailbox[a]) THEN "error" ELSE reply[t]
        BY <2>0, <2>7, Zenon DEF Done, Range
      <3>2. ASSUME NEW t \in Actor \cup Caller, reply'[t] = "pending" PROVE \E b \in Actor : Holds(b, t)'
        <4>1. reply[t] = "pending" /\ Question(t) \notin Range(mailbox[a])
          BY <3>1, <3>2, ZenonT(30)
        <4>2. PICK b \in Actor : Holds(b, t)
          BY <4>1, Zenon DEF PendingIsHeld
        <4>3. b # a
          BY <3>1, <4>1, <4>2, ZenonT(30) DEF Holds
        <4>4. Holds(b, t)'
          BY <3>1, <4>2, <4>3, Zenon DEF Holds, Question
        <4> QED
          BY <4>4, Zenon
      <3> QED
        BY <3>2, Zenon DEF PendingIsHeld
    <2>8. ASSUME NEW a \in Actor, SpawnActor(a) PROVE PendingIsHeld'
      <3>1. /\ phase[a] = "unborn" /\ \A b \in Actor : b # a => phase'[b] = phase[b]
            /\ phase'[a] = "recv" /\ mailbox' = mailbox /\ current' = current /\ reply' = reply
        BY <2>0, <2>8, Zenon DEF SpawnActor
      <3>2. \A b \in Actor : phase[b] \notin {"unborn", "done"} => phase'[b] \notin {"unborn", "done"}
        BY <3>1, Zenon
      <3>3. \A b \in Actor : phase[b] \in {"handling", "awaiting"} => phase'[b] = phase[b]
        BY <3>1, Zenon
      <3> QED
        BY <3>1, <3>2, <3>3, OthersKeepHeld, Zenon
    <2>9. CASE SignalStop
      <3>1. Head(stopping) \in Actor
        BY <2>9, RangeTail, Zenon DEF ActorTypes, SignalStop
      <3>2. mailbox' = mailbox \/ mailbox' = Posted(Head(stopping), Noop)
        BY <2>9, Zenon DEF SignalStop
      <3>3. \A b \in Actor : Range(mailbox[b]) \subseteq Range(mailbox'[b])
        BY <2>0, <3>1, <3>2, PostedFacts, Zenon
      <3> QED
        BY <2>9, <3>3, OthersKeepHeld, Zenon DEF SignalStop
    <2>10. CASE Register \/ Shutdown \/ ShutdownReplies \/ ShutdownEnds \/ CallShutdown \/ UNCHANGED actorVars
      <3>1. phase' = phase /\ mailbox' = mailbox /\ current' = current /\ reply' = reply
        BY <2>10, Zenon DEF Register, Shutdown, ShutdownReplies, ShutdownEnds, CallShutdown, actorVars
      <3> QED
        BY <3>1, OthersKeepHeld, Zenon
    <2> QED
      BY <2>1, <2>2, <2>3, <2>4, <2>5, <2>6, <2>7, <2>8, <2>9, <2>10, Zenon
         DEF ActorNext, ActorStep, SystemStep
  <1> QED
    BY <1>1, <1>2, PTL DEF ActorSpec
=============================================================================
