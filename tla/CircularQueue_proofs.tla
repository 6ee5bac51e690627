------------------------ MODULE CircularQueue_proofs ------------------------
(***************************************************************************)
(* Proofs about CircularQueue for every queue size of at least two, every  *)
(* number of steps, every set of bodies and every number of kills.         *)
(***************************************************************************)
EXTENDS CircularQueue, SequenceTheorems, TLAPS

(* The slot after i, without the modulus.                                   *)
LEMMA NextSlotCases ==
  \A i \in Slots : /\ NextSlot(i) = IF i = QueueSize - 1 THEN 0 ELSE i + 1
                   /\ NextSlot(i) \in Slots
BY QueueSizeAssumption DEF NextSlot, Slots

(* Storing the next tail adds exactly the slot that tail named.             *)
LEMMA BetweenGrows ==
  ASSUME NEW h \in Slots, NEW t \in Slots, NextSlot(t) # h
  PROVE  \A i \in Slots : Between(h, NextSlot(t), i) <=> Between(h, t, i) \/ i = t
BY NextSlotCases, QueueSizeAssumption DEF Between, Slots

(* Storing the next head removes exactly the slot that head named.          *)
LEMMA BetweenShrinks ==
  ASSUME NEW h \in Slots, NEW t \in Slots, h # t
  PROVE  \A i \in Slots : Between(NextSlot(h), t, i) <=> Between(h, t, i) /\ i # h
BY NextSlotCases, QueueSizeAssumption DEF Between, Slots

(* The slot tail names is free and after all the taken ones; the slot head   *)
(* names is taken, unless the queue is empty, and before all the others.     *)
LEMMA BetweenEnds ==
  ASSUME NEW h \in Slots, NEW t \in Slots
  PROVE  /\ ~Between(h, t, t)
         /\ h # t => Between(h, t, h)
         /\ \A i \in Slots : Between(h, t, i) => ~Before(h, t, i)
         /\ \A i \in Slots : ~Before(h, i, i)
         /\ \A i \in Slots : i # h => Before(h, h, i)
BY QueueSizeAssumption DEF Between, Before, Slots

(* Dropping the first slot does not change the order of the others.         *)
LEMMA BeforeShrinks ==
  ASSUME NEW h \in Slots, NEW i \in Slots, NEW j \in Slots, i # h, j # h,
         Before(NextSlot(h), i, j)
  PROVE  Before(h, i, j)
BY NextSlotCases, QueueSizeAssumption DEF Before, Slots

LEMMA InitIInv == Init => IInv
<1> SUFFICES ASSUME Init PROVE IInv
  OBVIOUS
<1>1. TypeOK
  <2> USE QueueSizeAssumption, NStepsAssumption, MaxKillsAssumption
  <2>1. 0 \in Slots /\ 0 \in Steps /\ kills \in 0 .. MaxKills
    BY DEF Init, Slots, Steps
  <2>2. view \in [step : Steps, moves : Moves,
                  pos : [Bodies -> Moves \cup {None}], trace : Steps]
    BY <2>1 DEF Init, Moves
  <2>3. pos \in [Slots -> [Bodies -> Moves \cup {None}]]
    BY DEF Init
  <2>4. usesCL \in BOOLEAN
    BY Zenon DEF Init
  <2>5. info \in [Slots -> Snapshot] /\ moves \in Moves
    BY <2>1 DEF Init, Snapshot, Moves, Steps
  <2> QED
    BY <2>1, <2>2, <2>3, <2>4, <2>5 DEF Init, TypeOK, Writing, Reading
<1>2. \A i \in Slots : ~InQueue(i)
  BY DEF Init, InQueue, Between, Slots
<1>3. ProgressInv /\ ProducerInv /\ ConsumerInv
  BY NStepsAssumption
  DEF Init, ProgressInv, ProducerInv, ConsumerInv, Steps, NoSnapshot, None, Writing, Reading,
      BetweenPushes
<1> QED
  BY <1>1, <1>2, <1>3 DEF IInv, QueuedInv, OrderInv

LEMMA TypeStep == TypeOK /\ [Next]_vars => TypeOK'
<1> SUFFICES ASSUME TypeOK, [Next]_vars PROVE TypeOK'
  OBVIOUS
<1> USE QueueSizeAssumption, NStepsAssumption, MaxKillsAssumption
<1>1. CASE StepPlain \/ StepKernels \/ CountStep
  <2>1. step' \in Steps /\ moves' \in Moves
    <3>1. CASE StepPlain
      BY <3>1 DEF TypeOK, StepPlain, Steps, Moves
    <3>2. CASE StepKernels
      BY <3>2 DEF TypeOK, StepKernels, Steps, Moves
    <3>3. CASE CountStep
      BY <3>3 DEF TypeOK, CountStep, Steps, Moves
    <3> QED
      BY <1>1, <3>1, <3>2, <3>3
  <2> QED
    BY <1>1, <2>1 DEF TypeOK, StepPlain, StepKernels, CountStep, slots, consumer
<1>2. CASE PushLoadTail
  BY <1>2 DEF TypeOK, PushLoadTail, slots, caller, consumer
<1>3. CASE PushLoadHead
  BY <1>3 DEF TypeOK, PushLoadHead, slots, caller, consumer, Writing
<1>4. CASE WriteInfo
  <2>1. Current \in Snapshot
    BY DEF TypeOK, Current, Snapshot
  <2> QED
    BY <1>4, <2>1 DEF TypeOK, WriteInfo, caller, consumer, Writing
<1>5. CASE \E b \in Bodies : WriteBody(b)
  <2> PICK b \in Bodies : WriteBody(b)
    BY <1>5
  <2>1. pos' \in [Slots -> [Bodies -> Moves \cup {None}]]
    BY DEF TypeOK, WriteBody
  <2> QED
    BY <2>1 DEF TypeOK, WriteBody, caller, consumer
<1>6. CASE EndBodies
  BY <1>6 DEF TypeOK, EndBodies, slots, caller, consumer, Writing
<1>7. CASE WriteTrace
  BY <1>7 DEF TypeOK, WriteTrace, caller, consumer, Writing
<1>8. CASE StoreTail
  BY <1>8, NextSlotCases DEF TypeOK, StoreTail, slots, caller, consumer
<1>9. CASE PopLoadHead
  BY <1>9 DEF TypeOK, PopLoadHead, slots, producer, caller
<1>10. CASE PopLoadTail
  BY <1>10 DEF TypeOK, PopLoadTail, slots, producer, caller, Reading
<1>11. CASE \E b \in Bodies : ReadBody(b)
  <2> PICK b \in Bodies : ReadBody(b)
    BY <1>11
  <2>1. pos[cHead][b] \in Moves \cup {None}
    BY DEF TypeOK
  <2>2. view' \in [step : Steps, moves : Moves,
                   pos : [Bodies -> Moves \cup {None}], trace : Steps]
    BY <2>1 DEF TypeOK, ReadBody
  <2> QED
    BY <2>2 DEF TypeOK, ReadBody, slots, producer, caller
<1>12. CASE ReadInfo
  <2>1. info[cHead].step \in Steps /\ info[cHead].moves \in Moves
    BY DEF TypeOK, Snapshot
  <2>2. view' \in [step : Steps, moves : Moves,
                   pos : [Bodies -> Moves \cup {None}], trace : Steps]
    BY <1>12, <2>1 DEF TypeOK, ReadInfo
  <2> QED
    BY <1>12, <2>2 DEF TypeOK, ReadInfo, slots, producer, caller, Reading
<1>13. CASE ReadTrace
  BY <1>13 DEF TypeOK, ReadTrace, slots, producer, caller, Reading
<1>14. CASE StoreHead
  <2>1. Displayed \in Snapshot
    BY DEF TypeOK, Displayed, Snapshot
  <2> QED
    BY <1>14, <2>1, NextSlotCases DEF TypeOK, StoreHead, slots, producer, caller
<1>15. CASE Kill
  BY <1>15 DEF TypeOK, Kill, slots, producer, caller
<1>16. CASE UNCHANGED vars
  BY <1>16 DEF TypeOK, vars, slots, producer, caller, consumer
<1> QED
  BY <1>1, <1>2, <1>3, <1>4, <1>5, <1>6, <1>7, <1>8, <1>9, <1>10, <1>11,
     <1>12, <1>13, <1>14, <1>15, <1>16 DEF Next, Push, Pop

-----------------------------------------------------------------------------
(* Each part of the invariant depends on some of the variables only.        *)
LEMMA Frame ==
  /\ QueuedInv /\ UNCHANGED <<head, tail, info, pos, trace, step, moves, shown>>
       /\ (ppc' = "idle" \/ ppc # "idle") => QueuedInv'
  /\ OrderInv /\ UNCHANGED <<head, tail, info>> => OrderInv'
  /\ ProgressInv /\ UNCHANGED <<trace, step, moves, shown>>
       /\ (ppc' = "idle" \/ ppc # "idle") => ProgressInv'
  /\ ProducerInv /\ UNCHANGED <<head, tail, info, pos, trace, producer>> => ProducerInv'
  /\ ConsumerInv /\ UNCHANGED <<head, tail, info, cpc, cHead, view, unread>>
       => ConsumerInv'
<1>1. QueuedInv /\ UNCHANGED <<head, tail, info, pos, trace, step, moves, shown>>
        /\ (ppc' = "idle" \/ ppc # "idle") => QueuedInv'
  BY DEF QueuedInv, InQueue, WholeSlot
<1>2. OrderInv /\ UNCHANGED <<head, tail, info>> => OrderInv'
  BY DEF OrderInv, InQueue
<1>3. ProgressInv /\ UNCHANGED <<trace, step, moves, shown>>
        /\ (ppc' = "idle" \/ ppc # "idle") => ProgressInv'
  BY DEF ProgressInv
<1>4. ProducerInv /\ UNCHANGED <<head, tail, info, pos, trace, producer>> => ProducerInv'
  BY DEF ProducerInv, WholeSlot, producer, caller, BetweenPushes, Current
<1>5. ConsumerInv /\ UNCHANGED <<head, tail, info, cpc, cHead, view, unread>>
        => ConsumerInv'
  BY DEF ConsumerInv, Displayed
<1> QED
  BY <1>1, <1>2, <1>3, <1>4, <1>5

(* The parts of a snapshot, and of what was displayed, are numbers.         *)
LEMMA SnapshotParts ==
  ASSUME TypeOK
  PROVE  /\ \A i \in Slots : info[i].step \in Int /\ info[i].moves \in Int
         /\ shown.step \in Int /\ shown.moves \in Int
         /\ step \in Int /\ moves \in Int /\ trace \in Int
<1>1. \A i \in Slots : info[i] \in Snapshot
  BY DEF TypeOK
<1>2. \A i \in Slots : info[i].step \in Int /\ info[i].moves \in Int
  BY <1>1 DEF Snapshot, Steps, Moves
<1>3. shown.step \in Int /\ shown.moves \in Int
  BY DEF TypeOK, Snapshot, NoSnapshot, None, Steps, Moves
<1> QED
  BY <1>2, <1>3 DEF TypeOK, Steps, Moves

(* A step of the simulation before it stores tail writes no queued slot.    *)
LEMMA AdvanceStep == IInv /\ (StepPlain \/ StepKernels \/ CountStep) => IInv'
<1> SUFFICES ASSUME IInv, StepPlain \/ StepKernels \/ CountStep PROVE IInv'
  OBVIOUS
<1>1. TypeOK /\ TypeOK'
  BY TypeStep DEF IInv, Next
<1>2. /\ UNCHANGED <<head, tail, info, pos, trace, pTail, todo, consumer>>
      /\ step' >= step /\ moves' >= moves /\ step' <= moves'
      /\ ppc' = "update" => moves' > moves
      /\ ppc' \in {"idle", "update"}
  BY <1>1, SnapshotParts DEF IInv, ProgressInv, StepPlain, StepKernels, CountStep, slots
<1>3. QueuedInv'
  <2> SUFFICES ASSUME NEW i \in Slots, InQueue(i)
               PROVE  /\ info[i].step <= step' /\ info[i].moves <= moves'
                      /\ ppc' # "idle" => info[i].moves < moves'
    BY <1>2 DEF IInv, QueuedInv, InQueue, WholeSlot, Newer, consumer
  <2>1. info[i].step <= step /\ info[i].moves <= moves
    BY DEF IInv, QueuedInv
  <2>2. info[i].step \in Int /\ info[i].moves \in Int
    BY <1>1, SnapshotParts
  <2>3. step' \in Int /\ moves' \in Int /\ step \in Int /\ moves \in Int
    BY <1>1 DEF TypeOK, Steps, Moves
  <2> QED
    BY <1>2, <2>1, <2>2, <2>3
<1>4. ProgressInv'
  <2>1. step' \in Int /\ moves' \in Int
    BY <1>1 DEF TypeOK, Steps, Moves
  <2>2. shown' = shown
    BY <1>2 DEF consumer
  <2> QED
    BY <1>1, <1>2, <2>1, <2>2, SnapshotParts DEF IInv, ProgressInv
<1>5. OrderInv' /\ ConsumerInv'
  BY <1>2, Frame DEF IInv, consumer
<1>6. ProducerInv'
  BY <1>2 DEF ProducerInv, Writing, BetweenPushes
<1> QED
  BY <1>1, <1>3, <1>4, <1>5, <1>6 DEF IInv

LEMMA PushLoadStep == IInv /\ (PushLoadTail \/ PushLoadHead) => IInv'
<1> SUFFICES ASSUME IInv, PushLoadTail \/ PushLoadHead PROVE IInv'
  OBVIOUS
<1>1. TypeOK'
  BY TypeStep DEF IInv, Next, Push
<1>2. QueuedInv' /\ OrderInv' /\ ProgressInv' /\ ConsumerInv'
  BY Frame DEF IInv, PushLoadTail, PushLoadHead, slots, caller, consumer
<1>3. ProducerInv'
  <2>1. CASE PushLoadTail
    BY <2>1 DEF IInv, ProducerInv, PushLoadTail, Writing, BetweenPushes
  <2>2. CASE PushLoadHead
    BY <2>2 DEF IInv, ProducerInv, PushLoadHead, Writing, BetweenPushes
  <2> QED
    BY <2>1, <2>2
<1> QED
  BY <1>1, <1>2, <1>3 DEF IInv

LEMMA WriteStep ==
  IInv /\ (WriteInfo \/ (\E b \in Bodies : WriteBody(b)) \/ EndBodies \/ WriteTrace) => IInv'
<1> SUFFICES ASSUME IInv,
                    WriteInfo \/ (\E b \in Bodies : WriteBody(b)) \/ EndBodies \/ WriteTrace
             PROVE  IInv'
  OBVIOUS
<1>1. TypeOK /\ TypeOK'
  BY TypeStep DEF IInv, Next, Push
<1>2. /\ pTail = tail /\ UNCHANGED <<head, tail, step, moves, shown>>
      /\ trace' >= trace /\ trace' <= step /\ ppc # "idle"
      /\ \A i \in Slots : i # tail => info'[i] = info[i] /\ pos'[i] = pos[i]
  BY <1>1 DEF IInv, TypeOK, ProducerInv, ProgressInv, WriteInfo, WriteBody, EndBodies,
     WriteTrace, caller, consumer, slots, Steps, BetweenPushes
<1>3. \A i \in Slots : InQueue(i) => i # tail
  BY <1>1, BetweenEnds DEF InQueue, TypeOK
<1>4. \A i \in Slots : InQueue(i)' <=> InQueue(i)
  BY <1>2 DEF InQueue
<1>5. QueuedInv'
  <2> SUFFICES ASSUME NEW i \in Slots, InQueue(i)'
               PROVE  /\ WholeSlot(i)' /\ info'[i].step <= trace'
                      /\ Newer(shown', info'[i])
                      /\ info'[i].step <= step' /\ info'[i].moves <= moves'
                      /\ ppc' # "idle" => info'[i].moves < moves'
    BY DEF QueuedInv, Newer
  <2>1. InQueue(i) /\ info'[i] = info[i] /\ pos'[i] = pos[i]
    BY <1>2, <1>3, <1>4
  <2>2. info[i].step <= trace'
    <3>1. info[i].step <= trace
      BY <2>1 DEF IInv, QueuedInv
    <3>2. info[i].step \in Int /\ trace \in Int /\ trace' \in Int
      BY <1>1, SnapshotParts DEF TypeOK, Steps
    <3> QED
      BY <1>2, <3>1, <3>2
  <2> QED
    BY <1>2, <2>1, <2>2 DEF IInv, QueuedInv, WholeSlot
<1>6. OrderInv'
  BY <1>2, <1>3, <1>4 DEF IInv, OrderInv, Newer
<1>7. ProgressInv'
  BY <1>2 DEF IInv, ProgressInv
<1>8. ConsumerInv'
  <2>1. cpc \in Reading => info'[head] = info[head]
    BY <1>1, <1>2 DEF IInv, ConsumerInv, TypeOK
  <2>2. UNCHANGED consumer
    BY DEF WriteInfo, WriteBody, EndBodies, WriteTrace
  <2> QED
    BY <1>2, <2>1, <2>2 DEF IInv, ConsumerInv, consumer, Reading, Displayed
<1>9. ProducerInv'
  <2>1. CASE WriteInfo
    <3>1. info'[tail] = Current'
      BY <1>1, <1>2, <2>1 DEF WriteInfo, Current, caller, TypeOK
    <3> QED
      BY <1>1, <1>2, <2>1, <3>1 DEF IInv, ProducerInv, WriteInfo, Writing, BetweenPushes, TypeOK
  <2>2. CASE \E b \in Bodies : WriteBody(b)
    <3> PICK b \in Bodies : WriteBody(b)
      BY <2>2
    <3>1. \A c \in Bodies \ todo' : pos'[tail][c] = moves
      BY <1>1, <1>2 DEF IInv, ProducerInv, WriteBody, TypeOK
    <3> QED
      BY <1>2, <3>1 DEF IInv, ProducerInv, WriteBody, Writing, BetweenPushes, Current
  <2>3. CASE EndBodies
    <3>1. WholeSlot(tail) /\ info[tail] = Current
      BY <2>3 DEF IInv, ProducerInv, EndBodies, Writing, WholeSlot, Current
    <3> QED
      BY <1>2, <2>3, <3>1 DEF IInv, ProducerInv, EndBodies, Writing, WholeSlot, slots,
         BetweenPushes, Current
  <2>4. CASE WriteTrace
    BY <1>2, <2>4 DEF IInv, ProducerInv, WriteTrace, Writing, WholeSlot, BetweenPushes, Current
  <2> QED
    BY <2>1, <2>2, <2>3, <2>4
<1> QED
  BY <1>1, <1>5, <1>6, <1>7, <1>8, <1>9 DEF IInv

(* The store of tail publishes a whole slot, newer than all the queued ones. *)
LEMMA StoreTailStep == IInv /\ StoreTail => IInv'
<1> SUFFICES ASSUME IInv, StoreTail PROVE IInv'
  OBVIOUS
<1>1. TypeOK /\ TypeOK'
  BY TypeStep DEF IInv, Next, Push
<1>2. /\ pTail = tail /\ ppc # "idle" /\ ppc' = "idle" /\ NextSlot(tail) # head
      /\ tail' = NextSlot(tail) /\ WholeSlot(tail) /\ info[tail] = Current /\ trace = step
      /\ UNCHANGED <<head, info, pos, trace, step, moves, consumer>>
  BY DEF IInv, ProducerInv, StoreTail, Writing, slots, caller, BetweenPushes
<1>3. \A i \in Slots : InQueue(i)' <=> InQueue(i) \/ i = tail
  BY <1>1, <1>2, BetweenGrows DEF InQueue, TypeOK
<1>4. info[tail].step = step /\ info[tail].moves = moves
  BY <1>2 DEF Current
<1>5. QueuedInv'
  <2> SUFFICES ASSUME NEW i \in Slots, InQueue(i)'
               PROVE  /\ WholeSlot(i) /\ info[i].step <= trace /\ Newer(shown, info[i])
                      /\ info[i].step <= step /\ info[i].moves <= moves
    BY <1>2 DEF QueuedInv, WholeSlot, Newer, consumer
  <2>1. CASE i = tail
    BY <1>1, <1>2, <1>4, <2>1, SnapshotParts DEF IInv, ProgressInv, Newer
  <2>2. CASE InQueue(i)
    BY <2>2 DEF IInv, QueuedInv
  <2> QED
    BY <1>3, <2>1, <2>2
<1>6. OrderInv'
  <2> SUFFICES ASSUME NEW i \in Slots, NEW j \in Slots, InQueue(i)', InQueue(j)',
                      Before(head, i, j)
               PROVE  Newer(info[i], info[j])
    BY <1>2 DEF OrderInv, Newer
  <2>1. i # tail /\ InQueue(i)
    BY <1>1, <1>3, BetweenEnds DEF InQueue, TypeOK
  <2>2. CASE j = tail
    BY <1>2, <1>4, <2>1, <2>2 DEF IInv, QueuedInv, Newer
  <2>3. CASE InQueue(j)
    BY <2>1, <2>3 DEF IInv, OrderInv
  <2> QED
    BY <1>3, <2>2, <2>3
<1>7. ProgressInv'
  BY <1>2 DEF IInv, ProgressInv, consumer
<1>8. ProducerInv'
  BY <1>2 DEF ProducerInv, Writing, BetweenPushes
<1>9. ConsumerInv'
  BY <1>2 DEF IInv, ConsumerInv, Displayed, consumer
<1> QED
  BY <1>1, <1>5, <1>6, <1>7, <1>8, <1>9 DEF IInv

(* A pop before its store of head changes nothing but the consumer's copy.  *)
LEMMA ReadStep ==
  IInv /\ (\/ PopLoadHead \/ PopLoadTail \/ (\E b \in Bodies : ReadBody(b))
          \/ ReadInfo \/ ReadTrace \/ Kill) => IInv'
<1> SUFFICES ASSUME IInv,
                    \/ PopLoadHead \/ PopLoadTail \/ (\E b \in Bodies : ReadBody(b))
                    \/ ReadInfo \/ ReadTrace \/ Kill
             PROVE  IInv'
  OBVIOUS
<1>1. TypeOK /\ TypeOK'
  BY TypeStep DEF IInv, Next, Pop
<1>2. UNCHANGED <<head, tail, info, pos, trace, producer, shown>>
  BY DEF PopLoadHead, PopLoadTail, ReadBody, ReadInfo, ReadTrace, Kill, slots
<1>3. QueuedInv' /\ OrderInv' /\ ProgressInv' /\ ProducerInv'
  BY <1>2, Frame DEF IInv, producer, caller
<1>4. cpc \in Reading => WholeSlot(head) /\ info[head].step <= trace
  <2>1. cpc \in Reading => InQueue(head)
    BY <1>1, BetweenEnds DEF IInv, ConsumerInv, InQueue, TypeOK
  <2> QED
    BY <1>1, <2>1 DEF IInv, QueuedInv, TypeOK
<1>5. ConsumerInv'
  <2>1. CASE PopLoadHead
    BY <1>2, <2>1 DEF PopLoadHead, ConsumerInv, Reading
  <2>2. CASE PopLoadTail
    BY <1>2, <2>2 DEF IInv, PopLoadTail, ConsumerInv, Reading
  <2>3. CASE \E b \in Bodies : ReadBody(b)
    <3> PICK b \in Bodies : ReadBody(b)
      BY <2>3
    <3>1. \A c \in Bodies \ unread' : view'.pos[c] = info[head].moves
      BY <1>1, <1>4 DEF IInv, ConsumerInv, ReadBody, TypeOK, WholeSlot, Reading
    <3> QED
      BY <1>2, <3>1 DEF IInv, ReadBody, ConsumerInv, Reading
  <2>4. CASE ReadInfo
    <3>1. cHead = head /\ info[head] \in Snapshot /\ \A b \in Bodies : view.pos[b] = info[head].moves
      BY <1>1, <2>4 DEF IInv, ReadInfo, ConsumerInv, TypeOK
    <3>2. /\ view'.step = info[head].step /\ view'.moves = info[head].moves
          /\ view'.pos = view.pos
      BY <1>1, <2>4, <3>1 DEF ReadInfo, TypeOK
    <3>3. Displayed' = info[head]
      BY <3>1, <3>2 DEF Displayed, Snapshot
    <3> QED
      BY <1>2, <2>4, <3>1, <3>2, <3>3 DEF IInv, ReadInfo, ConsumerInv, Reading
  <2>5. CASE ReadTrace
    <3>1. Displayed = info[head] /\ view.step <= trace
      BY <1>4, <2>5 DEF IInv, ConsumerInv, ReadTrace, Reading, Displayed
    <3>2. /\ view'.trace = view'.step /\ view'.step = view.step
          /\ view'.moves = view.moves /\ view'.pos = view.pos
      BY <1>1, <3>1, <2>5 DEF ReadTrace, TypeOK, Steps
    <3>3. Displayed' = Displayed
      BY <3>2 DEF Displayed
    <3> QED
      BY <1>2, <3>1, <3>2, <3>3, <2>5 DEF IInv, ReadTrace, ConsumerInv, Reading
  <2>6. CASE Kill
    BY <1>2, <2>6 DEF Kill, ConsumerInv, Reading
  <2> QED
    BY <2>1, <2>2, <2>3, <2>4, <2>5, <2>6
<1> QED
  BY <1>1, <1>3, <1>5 DEF IInv

(* The store of head drops the oldest snapshot, which was just displayed.   *)
LEMMA StoreHeadStep == IInv /\ StoreHead => IInv' /\ Newer(shown, shown')
<1> SUFFICES ASSUME IInv, StoreHead PROVE IInv' /\ Newer(shown, shown')
  OBVIOUS
<1>1. TypeOK /\ TypeOK'
  BY TypeStep DEF IInv, Next, Pop
<1>2. /\ head # tail /\ head' = NextSlot(head) /\ shown' = info[head]
      /\ UNCHANGED <<tail, info, pos, trace, producer>>
  BY DEF IInv, ConsumerInv, StoreHead, Reading, slots
<1>3. InQueue(head) /\ \A i \in Slots : InQueue(i)' <=> InQueue(i) /\ i # head
  BY <1>1, <1>2, BetweenShrinks, BetweenEnds DEF InQueue, TypeOK
<1>4. /\ Newer(shown, shown')
      /\ info[head].step <= step /\ info[head].moves <= moves
      /\ ppc # "idle" => info[head].moves < moves
  BY <1>1, <1>2, <1>3 DEF IInv, QueuedInv, TypeOK
<1>5. QueuedInv'
  <2> SUFFICES ASSUME NEW i \in Slots, InQueue(i)'
               PROVE  /\ WholeSlot(i) /\ info[i].step <= trace /\ Newer(info[head], info[i])
                      /\ info[i].step <= step /\ info[i].moves <= moves
                      /\ ppc # "idle" => info[i].moves < moves
    BY <1>2 DEF QueuedInv, WholeSlot, Newer, producer, caller
  <2>1. InQueue(i) /\ i # head
    BY <1>3
  <2>2. Newer(info[head], info[i])
    BY <2>1, <1>1, <1>3, BetweenEnds DEF IInv, OrderInv, TypeOK
  <2> QED
    BY <2>1, <2>2 DEF IInv, QueuedInv
<1>6. OrderInv'
  <2> SUFFICES ASSUME NEW i \in Slots, NEW j \in Slots, InQueue(i)', InQueue(j)',
                      Before(head', i, j)
               PROVE  Newer(info[i], info[j])
    BY <1>2 DEF OrderInv, Newer
  <2> QED
    BY <1>1, <1>2, <1>3, BeforeShrinks DEF IInv, OrderInv, TypeOK
<1>7. ProgressInv'
  BY <1>2, <1>4 DEF IInv, ProgressInv, producer, caller
<1>8. ProducerInv'
  <2>1. ppc \in Writing => NextSlot(tail) # NextSlot(head)
    BY <1>1, <1>2, NextSlotCases DEF TypeOK, Slots
  <2> QED
    BY <1>2, <2>1 DEF IInv, ProducerInv, producer, caller, WholeSlot, BetweenPushes, Current
<1>9. ConsumerInv'
  BY DEF StoreHead, ConsumerInv, Reading
<1> QED
  BY <1>1, <1>4, <1>5, <1>6, <1>7, <1>8, <1>9 DEF IInv

LEMMA NextStep == IInv /\ [Next]_vars => IInv'
<1> SUFFICES ASSUME IInv, [Next]_vars PROVE IInv'
  OBVIOUS
<1>1. CASE UNCHANGED vars
  <2>1. TypeOK'
    BY TypeStep DEF IInv
  <2> QED
    BY <1>1, <2>1, Frame DEF IInv, vars, slots, producer, caller, consumer
<1> QED
  BY <1>1, AdvanceStep, PushLoadStep, WriteStep, StoreTailStep, ReadStep, StoreHeadStep
  DEF Next, Push, Pop

-----------------------------------------------------------------------------
(* The inductive invariant of the queue: what is between head and tail is   *)
(* whole, in order, and out of the producer's reach.                        *)
THEOREM QueueInvariant == Spec => []IInv
BY InitIInv, NextStep, PTL DEF Spec

(* The shared words, slots and local copies keep their types: head and tail *)
(* always name slots of the ring.                                           *)
THEOREM TypeCorrect == Spec => []TypeOK
<1>1. IInv => TypeOK
  BY DEF IInv
<1> QED
  BY <1>1, QueueInvariant, PTL

(* nbPopCircularQueue copies whole snapshots out of unlocked slots: bodies, *)
(* SceneInfo and orbit trace of one and the same step.                      *)
THEOREM WholeSnapshots == Spec => []NoTornSnapshot
<1>1. IInv => NoTornSnapshot
  BY DEF IInv, ConsumerInv, NoTornSnapshot
<1> QED
  BY <1>1, QueueInvariant, PTL

(* nbPushCircularQueue never writes the slot nbPopCircularQueue is copying. *)
THEOREM ExclusiveSlots == Spec => []SlotExclusion
<1>1. IInv => SlotExclusion
  BY DEF IInv, ProducerInv, ConsumerInv, SlotExclusion, Writing, Reading, BetweenPushes
<1> QED
  BY <1>1, QueueInvariant, PTL

(* Snapshots are displayed in the order they were taken in, none of them    *)
(* twice, kills or not, although the OpenCL caller pushes a step twice.     *)
THEOREM DisplayOrder == Spec => ShownInOrder
<1>1. IInv /\ [Next]_vars => [Newer(shown, shown')]_shown
  <2> SUFFICES ASSUME IInv, [Next]_vars, shown' # shown PROVE Newer(shown, shown')
    OBVIOUS
  <2>1. StoreHead
    BY DEF Next, Push, Pop, vars, consumer, StepPlain, StepKernels, CountStep, PushLoadTail,
       PushLoadHead, WriteInfo, WriteBody, EndBodies, WriteTrace, StoreTail, PopLoadHead,
       PopLoadTail, ReadBody, ReadInfo, ReadTrace, Kill
  <2> QED
    BY <2>1, StoreHeadStep
<1> QED
  BY <1>1, QueueInvariant, PTL DEF Spec, ShownInOrder

-----------------------------------------------------------------------------
(* The refinement of BoundedFIFO.                                           *)

(* The modulus, on the numbers the queue takes it of.                       *)
LEMMA ModCases ==
  ASSUME NEW n \in 0 .. 2 * QueueSize - 1
  PROVE  n % QueueSize = IF n < QueueSize THEN n ELSE n - QueueSize
BY QueueSizeAssumption

(* The number of slots from h up to t, and the k-th of them.                *)
Count(h, t) == IF h <= t THEN t - h ELSE t + QueueSize - h
Nth(h, k) == IF h + k - 1 < QueueSize THEN h + k - 1 ELSE h + k - 1 - QueueSize

LEMMA CountCases ==
  ASSUME NEW h \in Slots, NEW t \in Slots
  PROVE  /\ (t + QueueSize - h) % QueueSize = Count(h, t)
         /\ Count(h, t) \in 0 .. QueueSize - 1
         /\ \A k \in 1 .. QueueSize : (h + k - 1) % QueueSize = Nth(h, k) /\ Nth(h, k) \in Slots
<1>1. /\ QueueSize \in Nat /\ t + QueueSize - h \in 0 .. 2 * QueueSize - 1
      /\ Count(h, t) = IF t + QueueSize - h < QueueSize THEN t + QueueSize - h ELSE t - h
  BY QueueSizeAssumption DEF Slots, Count
<1>2. (t + QueueSize - h) % QueueSize = Count(h, t)
  BY <1>1, ModCases DEF Slots
<1>3. Count(h, t) \in 0 .. QueueSize - 1
  BY QueueSizeAssumption DEF Slots, Count
<1>4. ASSUME NEW k \in 1 .. QueueSize
      PROVE  (h + k - 1) % QueueSize = Nth(h, k) /\ Nth(h, k) \in Slots
  <2>1. h + k - 1 \in 0 .. 2 * QueueSize - 1
    BY QueueSizeAssumption DEF Slots
  <2>2. PICK n \in 0 .. 2 * QueueSize - 1 : n = h + k - 1
    BY <2>1
  <2>3. n % QueueSize = IF n < QueueSize THEN n ELSE n - QueueSize
    BY ModCases
  <2>4. (h + k - 1) % QueueSize = Nth(h, k)
    BY <2>2, <2>3, QueueSizeAssumption DEF Nth, Slots
  <2>5. Nth(h, k) \in Slots
    BY QueueSizeAssumption DEF Slots, Nth
  <2> QED
    BY <2>4, <2>5
<1> QED
  BY <1>2, <1>3, <1>4

(* Storing the next tail adds the slot tail named at the end; storing the   *)
(* next head drops the first slot.                                          *)
LEMMA CountGrows ==
  ASSUME NEW h \in Slots, NEW t \in Slots, NextSlot(t) # h
  PROVE  /\ Count(h, NextSlot(t)) = Count(h, t) + 1 /\ Count(h, t) < QueueSize - 1
         /\ Nth(h, Count(h, t) + 1) = t
BY NextSlotCases, QueueSizeAssumption DEF Count, Nth, Slots

LEMMA CountShrinks ==
  ASSUME NEW h \in Slots, NEW t \in Slots, h # t
  PROVE  /\ Count(NextSlot(h), t) = Count(h, t) - 1 /\ Count(h, t) > 0 /\ Nth(h, 1) = h
         /\ \A k \in 1 .. Count(h, t) - 1 : Nth(NextSlot(h), k) = Nth(h, k + 1)
BY NextSlotCases, QueueSizeAssumption DEF Count, Nth, Slots

LEMMA NthBetween ==
  ASSUME NEW h \in Slots, NEW t \in Slots, NEW k \in 1 .. Count(h, t)
  PROVE  Nth(h, k) \in Slots /\ Between(h, t, Nth(h, k))
BY QueueSizeAssumption DEF Count, Nth, Slots, Between

(* The queue as a sequence of snapshots.                                    *)
QueuedIs ==
  /\ Queued \in Seq(Snapshot) /\ Len(Queued) = Count(head, tail)
  /\ \A k \in 1 .. Count(head, tail) : Queued[k] = info[Nth(head, k)]

LEMMA QueuedSeq == TypeOK => QueuedIs
<1> SUFFICES ASSUME TypeOK PROVE QueuedIs
  OBVIOUS
<1>1. Count(head, tail) \in Nat /\ \A k \in 1 .. Count(head, tail) : k \in 1 .. QueueSize
  <2>1. Count(head, tail) \in 0 .. QueueSize - 1
    BY CountCases DEF TypeOK
  <2> HIDE DEF Count
  <2> QED
    BY <2>1, QueueSizeAssumption
<1>2. \A k \in 1 .. Count(head, tail) : (head + k - 1) % QueueSize = Nth(head, k)
  BY <1>1, CountCases DEF TypeOK
<1>3. \A k \in 1 .. Count(head, tail) : info[Nth(head, k)] \in Snapshot
  BY NthBetween DEF TypeOK
<1>4. Queued = [k \in 1 .. Count(head, tail) |-> info[Nth(head, k)]]
  <2>1. (tail + QueueSize - head) % QueueSize = Count(head, tail)
    BY CountCases DEF TypeOK
  <2> QED
    BY <1>2, <2>1 DEF Queued
<1>5. Queued \in [1 .. Count(head, tail) -> Snapshot]
  BY <1>3, <1>4
<1>6. Queued \in Seq(Snapshot) /\ Len(Queued) = Count(head, tail)
  BY <1>1, <1>5
<1> QED
  BY <1>4, <1>6 DEF QueuedIs

(* The store of tail appends the snapshot of the current step.              *)
LEMMA StoreTailPuts == IInv /\ StoreTail => Abstract!Put
<1> SUFFICES ASSUME IInv, StoreTail PROVE Abstract!Put
  OBVIOUS
<1>1. TypeOK /\ TypeOK' /\ IInv'
  BY TypeStep, StoreTailStep DEF IInv, Next, Push
<1>2. /\ ppc # "idle" /\ NextSlot(tail) # head /\ tail' = NextSlot(tail)
      /\ info[tail] = Current /\ head \in Slots /\ tail \in Slots /\ Current \in Snapshot
      /\ UNCHANGED <<head, info, Current, shown>>
  BY <1>1 DEF IInv, ProducerInv, StoreTail, Writing, slots, caller, consumer, TypeOK,
     Current, Snapshot, BetweenPushes
<1>3. /\ Queued \in Seq(Snapshot) /\ Len(Queued) = Count(head, tail)
      /\ \A k \in 1 .. Count(head, tail) : Queued[k] = info[Nth(head, k)]
  BY <1>1, QueuedSeq DEF QueuedIs
<1>4. /\ Queued' \in Seq(Snapshot) /\ Len(Queued') = Count(head, tail')
      /\ \A k \in 1 .. Count(head, tail') : Queued'[k] = info[Nth(head, k)]
  <2>1. TypeOK' => QueuedIs'
    BY QueuedSeq, PTL
  <2> QED
    BY <1>1, <1>2, <2>1 DEF QueuedIs
<1>5. /\ Count(head, tail') = Count(head, tail) + 1 /\ Count(head, tail) < QueueSize - 1
      /\ Nth(head, Count(head, tail) + 1) = tail /\ Count(head, tail) \in Nat
  BY <1>2, CountGrows, CountCases
<1> HIDE DEF Count, Nth
<1>6. /\ Append(Queued, Current) \in Seq(Snapshot) /\ Len(Append(Queued, Current)) = Count(head, tail) + 1
      /\ \A k \in 1 .. Count(head, tail) : Append(Queued, Current)[k] = Queued[k]
      /\ Append(Queued, Current)[Count(head, tail) + 1] = Current
  BY <1>2, <1>3, AppendProperties
<1>7. \A k \in 1 .. Count(head, tail) + 1 : Queued'[k] = Append(Queued, Current)[k]
  <2> SUFFICES ASSUME NEW k \in 1 .. Count(head, tail) + 1
               PROVE  Queued'[k] = Append(Queued, Current)[k]
    OBVIOUS
  <2>1. Queued'[k] = info[Nth(head, k)]
    BY <1>4, <1>5
  <2>2. CASE k = Count(head, tail) + 1
    BY <1>2, <1>5, <1>6, <2>1, <2>2
  <2>3. CASE k \in 1 .. Count(head, tail)
    BY <1>3, <1>6, <2>1, <2>3
  <2>4. Count(head, tail) \in Nat
    BY <1>5
  <2>5. k = Count(head, tail) + 1 \/ k \in 1 .. Count(head, tail)
    BY <2>4
  <2> QED
    BY <2>2, <2>3, <2>5
<1>8. Queued' = Append(Queued, Current)
  BY <1>4, <1>5, <1>6, <1>7, SeqEqual
<1>9. \A k \in 1 .. Len(Queued) :
        Queued[k].moves < Current.moves /\ Queued[k].step <= Current.step
  <2> SUFFICES ASSUME NEW k \in 1 .. Count(head, tail)
               PROVE  Queued[k].moves < moves /\ Queued[k].step <= step
    BY <1>3 DEF Current
  <2>1. Nth(head, k) \in Slots /\ InQueue(Nth(head, k))
    BY <1>2, NthBetween DEF InQueue
  <2> QED
    BY <1>2, <1>3, <2>1 DEF IInv, QueuedInv
<1>10. Len(Queued) < QueueSize - 1
  BY <1>3, <1>5
<1> QED
  BY <1>2, <1>8, <1>9, <1>10 DEF Abstract!Put

(* The store of head takes the oldest snapshot out.                         *)
LEMMA StoreHeadTakes == IInv /\ StoreHead => Abstract!Take
<1> SUFFICES ASSUME IInv, StoreHead PROVE Abstract!Take
  OBVIOUS
<1>1. TypeOK /\ TypeOK'
  BY TypeStep DEF IInv, Next, Pop
<1>2. /\ head # tail /\ head' = NextSlot(head) /\ shown' = info[head]
      /\ head \in Slots /\ tail \in Slots /\ UNCHANGED <<tail, info, Current>>
  BY <1>1 DEF IInv, ConsumerInv, StoreHead, Reading, slots, producer, caller, Current, TypeOK
<1>3. /\ Queued \in Seq(Snapshot) /\ Len(Queued) = Count(head, tail)
      /\ \A k \in 1 .. Count(head, tail) : Queued[k] = info[Nth(head, k)]
  BY <1>1, QueuedSeq DEF QueuedIs
<1>4. /\ Queued' \in Seq(Snapshot) /\ Len(Queued') = Count(head', tail)
      /\ \A k \in 1 .. Count(head', tail) : Queued'[k] = info[Nth(head', k)]
  <2>1. TypeOK' => QueuedIs'
    BY QueuedSeq, PTL
  <2> QED
    BY <1>1, <1>2, <2>1 DEF QueuedIs
<1>5. /\ Count(head', tail) = Count(head, tail) - 1 /\ Count(head, tail) > 0 /\ Nth(head, 1) = head
      /\ Count(head, tail) \in Nat
      /\ \A k \in 1 .. Count(head, tail) - 1 : Nth(head', k) = Nth(head, k + 1)
  BY <1>2, CountShrinks, CountCases
<1> HIDE DEF Count, Nth
<1>6. Queued # <<>>
  BY <1>3, <1>5, EmptySeq
<1>7. /\ Tail(Queued) \in Seq(Snapshot) /\ Len(Tail(Queued)) = Count(head, tail) - 1
      /\ \A k \in 1 .. Count(head, tail) - 1 : Tail(Queued)[k] = Queued[k + 1]
  BY <1>3, <1>6, HeadTailProperties
<1>8. \A k \in 1 .. Count(head, tail) - 1 : Queued'[k] = Tail(Queued)[k]
  <2> SUFFICES ASSUME NEW k \in 1 .. Count(head, tail) - 1 PROVE Queued'[k] = Tail(Queued)[k]
    OBVIOUS
  <2>1. k + 1 \in 1 .. Count(head, tail)
    BY <1>5
  <2> QED
    BY <1>3, <1>4, <1>5, <1>7, <2>1
<1>9. Queued' = Tail(Queued)
  BY <1>4, <1>5, <1>7, <1>8, SeqEqual
<1>10. Head(Queued) = info[head]
  <2>1. 1 \in 1 .. Count(head, tail)
    BY <1>5
  <2>2. Head(Queued) = Queued[1]
    BY <1>3, <1>6
  <2> QED
    BY <1>3, <1>5, <2>1, <2>2
<1> QED
  BY <1>2, <1>6, <1>9, <1>10 DEF Abstract!Take

(* No other step is seen from outside the queue.                            *)
LEMMA WriteHidden ==
  ASSUME IInv, UNCHANGED <<head, tail>>, TypeOK', \A i \in Slots : i # tail => info'[i] = info[i]
  PROVE  Queued' = Queued
<1>1. TypeOK /\ head \in Slots /\ tail \in Slots
  BY DEF IInv, TypeOK
<1>2. /\ Queued \in Seq(Snapshot) /\ Len(Queued) = Count(head, tail)
      /\ \A k \in 1 .. Count(head, tail) : Queued[k] = info[Nth(head, k)]
  BY <1>1, QueuedSeq DEF QueuedIs
<1>3. /\ Queued' \in Seq(Snapshot) /\ Len(Queued') = Count(head, tail)
      /\ \A k \in 1 .. Count(head, tail) : Queued'[k] = info'[Nth(head, k)]
  <2>1. TypeOK' => QueuedIs'
    BY QueuedSeq, PTL
  <2> QED
    BY <2>1 DEF QueuedIs
<1> HIDE DEF Count, Nth
<1>4. \A k \in 1 .. Count(head, tail) : Nth(head, k) \in Slots /\ Nth(head, k) # tail
  BY <1>1, NthBetween, BetweenEnds
<1>5. \A k \in 1 .. Count(head, tail) : Queued'[k] = Queued[k]
  BY <1>2, <1>3, <1>4
<1> QED
  BY <1>2, <1>3, <1>5, SeqEqual

LEMMA NextRefines == IInv /\ [Next]_vars => [Abstract!Next]_Abstract!vars
<1> SUFFICES ASSUME IInv, [Next]_vars PROVE Abstract!Next \/ UNCHANGED <<Queued, Current, shown>>
  BY DEF Abstract!vars
<1>1. TypeOK /\ TypeOK'
  BY TypeStep DEF IInv
<1>2. CASE StepPlain \/ StepKernels \/ CountStep
  <2>1. UNCHANGED <<head, tail, info, shown>>
    BY <1>2 DEF StepPlain, StepKernels, CountStep, slots, consumer
  <2>2. Queued' = Queued
    BY <2>1 DEF Queued
  <2>3. Current'.step \in Steps /\ Current'.moves \in Moves
    BY <1>1 DEF TypeOK, Current
  <2>4. \/ step' > step /\ moves' >= moves
        \/ step' = step /\ moves' > moves
    BY <1>1, <1>2, SnapshotParts DEF StepPlain, StepKernels, CountStep
  <2> QED
    BY <2>1, <2>2, <2>3, <2>4 DEF Abstract!Next, Abstract!Tick, Current
<1>3. CASE WriteInfo
  <2>1. UNCHANGED <<head, tail, Current, shown>> /\ \A i \in Slots : i # tail => info'[i] = info[i]
    BY <1>1, <1>3 DEF IInv, ProducerInv, WriteInfo, caller, consumer, Current, BetweenPushes, TypeOK
  <2> QED
    BY <1>1, <2>1, WriteHidden
<1>4. CASE StoreTail
  BY <1>4, StoreTailPuts DEF Abstract!Next
<1>5. CASE StoreHead
  BY <1>5, StoreHeadTakes DEF Abstract!Next
<1>6. CASE \/ PushLoadTail \/ PushLoadHead \/ (\E b \in Bodies : WriteBody(b)) \/ EndBodies \/ WriteTrace
           \/ PopLoadHead \/ PopLoadTail \/ (\E b \in Bodies : ReadBody(b)) \/ ReadInfo \/ ReadTrace
           \/ Kill \/ UNCHANGED vars
  <2>1. UNCHANGED <<head, tail, info, Current, shown>>
    BY <1>6 DEF vars, slots, producer, caller, consumer, Current, PushLoadTail, PushLoadHead, WriteBody, EndBodies,
       WriteTrace, PopLoadHead, PopLoadTail, ReadBody, ReadInfo, ReadTrace, Kill
  <2> QED
    BY <2>1 DEF Queued
<1> QED
  BY <1>2, <1>3, <1>4, <1>5, <1>6 DEF Next, Push, Pop

(* The ring of unlocked slots implements the bounded FIFO, for every queue  *)
(* size: a push that nbPushCircularQueue began takes effect at its store of *)
(* tail, a pop at the store of head, and nothing is lost, duplicated or     *)
(* reordered, whoever is killed in between.                                 *)
THEOREM QueueIsFIFO == Spec => ImplementsFIFO
<1>1. Init => Abstract!Init
  <2> SUFFICES ASSUME Init PROVE /\ Queued = <<>> /\ shown = [step |-> -1, moves |-> -1]
                                 /\ Current.step \in Steps /\ Current.moves \in Moves
    BY DEF Abstract!Init
  <2>1. TypeOK /\ head = 0 /\ tail = 0
    BY InitIInv DEF IInv, Init
  <2>2. Queued \in Seq(Snapshot) /\ Len(Queued) = Count(head, tail)
    BY <2>1, QueuedSeq DEF QueuedIs
  <2>3. Count(head, tail) = 0
    BY <2>1 DEF Count
  <2>4. Queued = <<>>
    BY <2>2, <2>3, EmptySeq
  <2> QED
    BY <2>1, <2>4 DEF Init, NoSnapshot, None, Current, TypeOK
<1>2. IInv /\ [Next]_vars => [Abstract!Next]_Abstract!vars
  BY NextRefines
<1> QED
  BY <1>1, <1>2, QueueInvariant, PTL DEF Spec, ImplementsFIFO, Abstract!Spec

=============================================================================
