--------------------------- MODULE FinalizerProofs ---------------------------
(***************************************************************************)
(* Theorems about Finalizer, for any set of requests, any clock and any    *)
(* number of crashes.                                                      *)
(***************************************************************************)
EXTENDS Finalizer, TLAPS

-----------------------------------------------------------------------------
(* Types.                                                                  *)

(* Job r, now with status s, is saved, for the first or the second time. *)
Saves(id, r, s) == Save(id, r, s) \/ (s = "failed" /\ SaveTwice(id, r))

LEMMA SaveType ==
  ASSUME TypeOK, NEW id \in {0} \cup Seconds, NEW r \in Requests, NEW s \in Statuses,
         Saves(id, r, s)
  PROVE  /\ store' \in [Seconds -> Records \cup {None}]
         /\ unsaved' \in SUBSET Requests
  BY DEF TypeOK, Saves, Save, SaveTwice, Records, Statuses

LEMMA TypeStep == FinalizerAssumption /\ TypeOK /\ [Next]_vars => TypeOK'
<1> SUFFICES ASSUME FinalizerAssumption, TypeOK, [Next]_vars
             PROVE  TypeOK'
  OBVIOUS
<1> USE DEF TypeOK
<1>1. CASE Tick
  BY <1>1 DEF Tick, Seconds, FinalizerAssumption
<1>2. ASSUME NEW r \in Requests, QueueFinalization(r)
      PROVE  TypeOK'
  <2>1. store' \in [Seconds -> Records \cup {None}] /\ unsaved' \in SUBSET Requests
    BY <1>2, SaveType DEF QueueFinalization, Saves, Statuses
  <2> QED
    BY <1>2, <2>1 DEF QueueFinalization, Statuses
<1>3. CASE StartJob
  <2> DEFINE r == Head(pending_queue)
  <2>1. r \in Requests /\ Tail(pending_queue) \in Seq(Requests)
    BY <1>3 DEF StartJob
  <2>2. store' \in [Seconds -> Records \cup {None}] /\ unsaved' \in SUBSET Requests
    BY <1>3, <2>1, SaveType DEF StartJob, Saves, Statuses
  <2> QED
    BY <1>3, <2>1, <2>2 DEF StartJob, Statuses
<1>4. ASSUME NEW r \in Requests, EndJob(r)
      PROVE  TypeOK'
  <2>1. PICK s \in Statuses : status' = [status EXCEPT ![r] = s] /\ Saves(job_id[r], r, s)
    BY <1>4 DEF EndJob, Saves, Statuses
  <2>2. store' \in [Seconds -> Records \cup {None}] /\ unsaved' \in SUBSET Requests
    BY <2>1, SaveType
  <2> QED
    BY <1>4, <2>1, <2>2 DEF EndJob
<1>5. CASE Crash
  <2>1. <<>> \in Seq(Requests)
    OBVIOUS
  <2>2. {pending_queue[k] : k \in DOMAIN pending_queue} \subseteq Requests
    OBVIOUS
  <2> QED
    BY <1>5, <2>1, <2>2 DEF Crash, FinalizerAssumption
<1>6. CASE UNCHANGED vars
  BY <1>6 DEF vars
<1> QED
  BY <1>1, <1>2, <1>3, <1>4, <1>5, <1>6 DEF Next

(* The service's memory and the records in the store keep their types. *)
THEOREM TypeCorrect == Spec => []TypeOK
<1>1. FinalizerAssumption /\ Init => TypeOK
  <2>1. <<>> \in Seq(Requests)
    OBVIOUS
  <2> QED
    BY <2>1 DEF Init, TypeOK, FinalizerAssumption, Seconds
<1> QED
  BY <1>1, TypeStep, FinalizerAssumption, PTL DEF Spec

-----------------------------------------------------------------------------
(* No job is lost or run twice.                                            *)

(* What a crash took away is nowhere any more, and is never queued again. *)
LostIsGone ==
  \A r \in lost : status[r] # None /\ ~ Queued(r) /\ r \notin active

QueueInv == NoJobLost /\ LostIsGone

(* Every job of a queue that loses its head, but the head, stays in it. *)
LEMMA Taken ==
  ASSUME NEW q \in Seq(Requests), q # <<>>,
         \A j, k \in DOMAIN q : q[j] = q[k] => j = k
  PROVE  /\ \A j, k \in DOMAIN Tail(q) : Tail(q)[j] = Tail(q)[k] => j = k
         /\ \A r : (\E k \in DOMAIN Tail(q) : Tail(q)[k] = r)
                     <=> (\E k \in DOMAIN q : q[k] = r) /\ r # Head(q)
         /\ \E k \in DOMAIN q : q[k] = Head(q)
<1>1. /\ Head(q) = q[1] /\ Len(q) \in Nat \ {0}
      /\ DOMAIN q = 1 .. Len(q) /\ DOMAIN Tail(q) = 1 .. Len(q) - 1
      /\ \A k \in 1 .. Len(q) - 1 : Tail(q)[k] = q[k + 1]
  OBVIOUS
<1> DEFINE t == Tail(q)
<1> HIDE DEF t
<1>2. ASSUME NEW j \in DOMAIN t, NEW k \in DOMAIN t, t[j] = t[k]
      PROVE  j = k
  BY <1>1, <1>2 DEF t
<1>3. ASSUME NEW k \in DOMAIN t
      PROVE  (\E l \in DOMAIN q : q[l] = t[k]) /\ t[k] # Head(q)
  <2>1. k + 1 \in DOMAIN q /\ q[k + 1] = t[k] /\ k + 1 # 1
    BY <1>1 DEF t
  <2> QED
    BY <1>1, <2>1
<1>4. ASSUME NEW k \in DOMAIN q, q[k] # Head(q)
      PROVE  \E l \in DOMAIN t : t[l] = q[k]
  <2>1. k - 1 \in DOMAIN t /\ t[k - 1] = q[k]
    BY <1>1, <1>4 DEF t
  <2> QED
    BY <2>1
<1>5. \E k \in DOMAIN q : q[k] = Head(q)
  BY <1>1
<1> QED
  BY <1>2, <1>3, <1>4, <1>5 DEF t

LEMMA Added ==
  ASSUME NEW q \in Seq(Requests), NEW r \in Requests,
         \A j, k \in DOMAIN q : q[j] = q[k] => j = k,
         ~ \E k \in DOMAIN q : q[k] = r
  PROVE  /\ \A j, k \in DOMAIN Append(q, r) : Append(q, r)[j] = Append(q, r)[k] => j = k
         /\ \A p : (\E k \in DOMAIN Append(q, r) : Append(q, r)[k] = p)
                     <=> (\E k \in DOMAIN q : q[k] = p) \/ p = r
<1>1. /\ Len(q) \in Nat /\ DOMAIN q = 1 .. Len(q)
      /\ DOMAIN Append(q, r) = 1 .. Len(q) + 1
      /\ \A i \in 1 .. Len(q) : Append(q, r)[i] = q[i]
      /\ Append(q, r)[Len(q) + 1] = r
  OBVIOUS
<1> DEFINE a == Append(q, r)
<1> HIDE DEF a
<1>2. ASSUME NEW j \in DOMAIN a, NEW k \in DOMAIN a, a[j] = a[k]
      PROVE  j = k
  BY <1>1, <1>2 DEF a
<1>3. ASSUME NEW k \in DOMAIN a
      PROVE  (\E l \in DOMAIN q : q[l] = a[k]) \/ a[k] = r
  BY <1>1 DEF a
<1>4. ASSUME NEW k \in DOMAIN q
      PROVE  \E l \in DOMAIN a : a[l] = q[k]
  <2>1. k \in DOMAIN a /\ a[k] = q[k]
    BY <1>1 DEF a
  <2> QED
    BY <2>1
<1>5. \E l \in DOMAIN a : a[l] = r
  BY <1>1 DEF a
<1> QED
  BY <1>2, <1>3, <1>4, <1>5 DEF a

LEMMA QueueStep ==
  ASSUME FinalizerAssumption, TypeOK, QueueInv, [Next]_vars
  PROVE  QueueInv'
<1> USE DEF QueueInv, NoJobLost, LostIsGone, Queued
<1>1. CASE Tick
  BY <1>1 DEF Tick
<1>2. ASSUME NEW r \in Requests, QueueFinalization(r)
      PROVE  QueueInv'
  <2>1. r \notin lost /\ r \notin active /\ ~ Queued(r)
    BY <1>2 DEF QueueFinalization, FinalizerAssumption, Statuses
  <2>2. /\ pending_queue \in Seq(Requests)
        /\ \A j, k \in DOMAIN pending_queue : pending_queue[j] = pending_queue[k] => j = k
        /\ pending_queue' = Append(pending_queue, r)
    BY <1>2 DEF TypeOK, QueueFinalization
  <2>3. /\ \A j, k \in DOMAIN pending_queue' :
             pending_queue'[j] = pending_queue'[k] => j = k
        /\ \A p \in Requests : Queued(p)' <=> Queued(p) \/ p = r
    BY <2>1, <2>2, Added
  <2>4. \A p \in Requests : status'[p] = IF p = r THEN "queued" ELSE status[p]
    BY <1>2 DEF TypeOK, QueueFinalization
  <2> HIDE DEF Queued
  <2>5. UNCHANGED <<active, lost>>
    BY <1>2 DEF QueueFinalization
  <2>6. lost \subseteq Requests /\ None # "queued"
    BY DEF TypeOK, FinalizerAssumption, Statuses
  <2>7. NoJobLost'
    <3>1. \A p, q \in active' : p = q
      BY <2>5
    <3>2. \A p \in Requests \ lost' : Queued(p)' <=> status'[p] = "queued"
      BY <2>1, <2>3, <2>4, <2>5
    <3>3. \A p \in Requests \ lost' : p \in active' <=> status'[p] = "processing"
      BY <2>1, <2>4, <2>5
    <3> QED
      BY <2>3, <3>1, <3>2, <3>3
  <2>8. LostIsGone'
    <3> SUFFICES ASSUME NEW p \in lost
                 PROVE  status'[p] # None /\ ~ Queued(p)' /\ p \notin active
      BY <2>5
    <3>1. p \in Requests /\ p # r /\ status'[p] = status[p]
      BY <2>1, <2>4, <2>6
    <3>2. Queued(p)' <=> Queued(p)
      BY <2>3, <3>1
    <3> QED
      BY <3>1, <3>2
  <2> QED
    BY <2>7, <2>8
<1>3. CASE StartJob
  <2> DEFINE h == Head(pending_queue)
  <2>1. pending_queue \in Seq(Requests) /\ pending_queue # <<>> /\ h \in Requests
    BY <1>3 DEF TypeOK, StartJob
  <2>2. /\ \A j, k \in DOMAIN pending_queue' :
             pending_queue'[j] = pending_queue'[k] => j = k
        /\ \A p \in Requests : Queued(p)' <=> Queued(p) /\ p # h
        /\ Queued(h)
    <3> DEFINE q == pending_queue
    <3>1. q \in Seq(Requests) /\ q # <<>> /\ pending_queue' = Tail(q)
      BY <1>3, <2>1 DEF StartJob
    <3>2. \A j, k \in DOMAIN q : q[j] = q[k] => j = k
      BY DEF NoJobLost
    <3> HIDE DEF q, h
    <3>3. /\ \A j, k \in DOMAIN Tail(q) : Tail(q)[j] = Tail(q)[k] => j = k
          /\ \A p : (\E k \in DOMAIN Tail(q) : Tail(q)[k] = p)
                      <=> (\E k \in DOMAIN q : q[k] = p) /\ p # Head(q)
          /\ \E k \in DOMAIN q : q[k] = Head(q)
      BY <3>1, <3>2, Taken
    <3> QED
      BY <3>1, <3>3 DEF q, h
  <2>3. \A p \in Requests : status'[p] = IF p = h THEN "processing" ELSE status[p]
    BY <1>3, <2>1 DEF TypeOK, StartJob
  <2> HIDE DEF h
  <2>4. active = {} /\ active' = {h} /\ lost' = lost
    BY <1>3 DEF StartJob, h
  <2>5. lost \subseteq Requests /\ None # "processing"
    BY DEF TypeOK, FinalizerAssumption, Statuses
  <2> HIDE DEF Queued
  <2>6. NoJobLost'
    <3>1. \A p, q \in active' : p = q
      BY <2>4
    <3>2. \A p \in Requests \ lost' : Queued(p)' <=> status'[p] = "queued"
      BY <2>2, <2>3, <2>4
    <3>3. \A p \in Requests \ lost' : p \in active' <=> status'[p] = "processing"
      BY <2>3, <2>4
    <3> QED
      BY <2>2, <3>1, <3>2, <3>3
  <2>7. LostIsGone'
    <3> SUFFICES ASSUME NEW p \in lost
                 PROVE  status'[p] # None /\ ~ Queued(p)' /\ p \notin active'
      BY <2>4
    <3>1. p \in Requests /\ p # h /\ status'[p] = status[p]
      BY <2>2, <2>3, <2>5
    <3>2. Queued(p)' <=> Queued(p)
      BY <2>2, <3>1
    <3> QED
      BY <2>4, <3>1, <3>2
  <2> QED
    BY <2>6, <2>7
<1>4. ASSUME NEW r \in Requests, EndJob(r)
      PROVE  QueueInv'
  <2>1. PICK s \in {"completed", "failed"} : status' = [status EXCEPT ![r] = s]
    BY <1>4 DEF EndJob
  <2>2. \A p \in Requests : status'[p] = IF p = r THEN s ELSE status[p]
    BY <2>1 DEF TypeOK
  <2>3. /\ r \in active /\ active' = active \ {r}
        /\ UNCHANGED <<pending_queue, lost>>
        /\ lost \subseteq Requests /\ None \notin {"completed", "failed"}
    BY <1>4 DEF EndJob, TypeOK, FinalizerAssumption, Statuses
  <2> QED
    BY <2>2, <2>3
<1>5. CASE Crash
  <2>1. active' = {} /\ pending_queue' = <<>> /\ UNCHANGED status
    BY <1>5 DEF Crash
  <2>2. \A p : ~ Queued(p)'
    BY <2>1
  <2>3. \A p \in Requests : p \in lost' <=> p \in lost \/ p \in active \/ Queued(p)
    BY <1>5 DEF Crash
  <2>4. lost' \subseteq Requests
    BY <1>5, TypeStep DEF TypeOK, Next
  <2> HIDE DEF Queued
  <2>5. NoJobLost'
    BY <2>1, <2>2, <2>3
  <2>6. \A p \in Requests : p \in lost' => status[p] # None
    BY <2>3 DEF FinalizerAssumption, Statuses
  <2> QED
    BY <2>1, <2>2, <2>4, <2>5, <2>6
<1>6. CASE UNCHANGED vars
  BY <1>6 DEF vars
<1> QED
  BY <1>1, <1>2, <1>3, <1>4, <1>5, <1>6 DEF Next

LEMMA QueueInvariant == Spec => []QueueInv
<1>1. FinalizerAssumption /\ Init => QueueInv
  BY DEF Init, QueueInv, NoJobLost, LostIsGone, Queued, FinalizerAssumption, Statuses
<1>2. FinalizerAssumption /\ TypeOK /\ QueueInv /\ [Next]_vars => QueueInv'
  BY QueueStep
<1> QED
  BY <1>1, <1>2, TypeCorrect, FinalizerAssumption, PTL DEF Spec

(* Short of a crash, every accepted job is in exactly one place, and the   *)
(* worker runs one job at a time.                                          *)
THEOREM NoJobIsLost == Spec => []NoJobLost
<1>1. QueueInv => NoJobLost
  BY DEF QueueInv
<1> QED
  BY <1>1, QueueInvariant, PTL

-----------------------------------------------------------------------------
(* Jobs are taken in order.                                                *)

(* The id of a job is the second it was accepted in. *)
IdsInv ==
  \A r \in Requests : IF status[r] = None THEN job_id[r] = 0
                      ELSE job_id[r] \in Seconds /\ job_id[r] <= second

QueueInOrder ==
  \A j, k \in DOMAIN pending_queue :
    j <= k => job_id[pending_queue[j]] <= job_id[pending_queue[k]]

OrderInv == IdsInv /\ QueueInOrder /\ FirstComeFirstServed

LEMMA QueuedStatus ==
  ASSUME TypeOK, QueueInv, NEW k \in DOMAIN pending_queue
  PROVE  /\ pending_queue[k] \in Requests /\ status[pending_queue[k]] = "queued"
         /\ pending_queue[k] \notin lost /\ pending_queue[k] \notin active
<1>1. pending_queue[k] \in Requests /\ Queued(pending_queue[k])
  BY DEF TypeOK, Queued
<1>2. pending_queue[k] \notin lost
  BY <1>1 DEF QueueInv, LostIsGone
<1> QED
  BY <1>1, <1>2 DEF QueueInv, NoJobLost

LEMMA OrderStep ==
  ASSUME FinalizerAssumption, TypeOK, QueueInv, OrderInv, [Next]_vars
  PROVE  OrderInv'
<1>1. CASE Tick
  <2>1. second' = second + 1 /\ UNCHANGED <<pending_queue, status, job_id, lost>>
    BY <1>1 DEF Tick
  <2>2. IdsInv'
    BY <2>1 DEF OrderInv, IdsInv, TypeOK, Seconds
  <2>3. QueueInOrder' /\ FirstComeFirstServed'
    BY <2>1 DEF OrderInv, QueueInOrder, FirstComeFirstServed, Queued
  <2> QED
    BY <2>2, <2>3 DEF OrderInv
<1>2. ASSUME NEW r \in Requests, QueueFinalization(r)
      PROVE  OrderInv'
  <2> DEFINE q == pending_queue
             l == Len(q) + 1
  <2>1. /\ \A p \in Requests : job_id'[p] = IF p = r THEN second ELSE job_id[p]
        /\ \A p \in Requests : status'[p] = IF p = r THEN "queued" ELSE status[p]
        /\ UNCHANGED <<second, lost>> /\ status[r] = None /\ pending_queue' = Append(q, r)
    BY <1>2 DEF QueueFinalization, TypeOK
  <2>2. second \in Seconds /\ second \in Nat /\ None \notin Statuses /\ "queued" \in Statuses
    BY DEF TypeOK, Seconds, FinalizerAssumption, Statuses
  <2>3. \A p \in Requests : job_id[p] \in Nat /\ job_id[p] <= second
    BY <2>2 DEF OrderInv, IdsInv, Seconds
  <2>4. q \in Seq(Requests)
    BY DEF TypeOK
  <2>5. \A k \in DOMAIN q : q[k] \in Requests /\ q[k] # r
    BY <2>1, <2>2, QueuedStatus
  <2> HIDE DEF q
  <2>6. /\ Len(q) \in Nat /\ DOMAIN q = 1 .. Len(q) /\ DOMAIN Append(q, r) = 1 .. l
        /\ \A k \in DOMAIN q : Append(q, r)[k] = q[k]
        /\ Append(q, r)[l] = r
    BY <2>4
  <2>7. IdsInv'
    BY <2>1, <2>2 DEF OrderInv, IdsInv
  <2>8. QueueInOrder'
    <3> SUFFICES ASSUME NEW j \in 1 .. l, NEW k \in 1 .. l, j <= k
                 PROVE  job_id'[Append(q, r)[j]] <= job_id'[Append(q, r)[k]]
      BY <2>1, <2>6 DEF QueueInOrder
    <3>1. CASE k = l
      <4>1. job_id'[Append(q, r)[k]] = second
        BY <2>1, <2>6, <3>1
      <4>2. job_id'[Append(q, r)[j]] \in Nat /\ job_id'[Append(q, r)[j]] <= second
        <5>1. CASE j = l
          BY <2>1, <2>2, <2>6, <5>1
        <5>2. CASE j # l
          BY <2>1, <2>3, <2>5, <2>6, <5>2
        <5> QED
          BY <5>1, <5>2
      <4> QED
        BY <4>1, <4>2
    <3>2. CASE k # l
      <4>1. j \in DOMAIN q /\ k \in DOMAIN q
        BY <2>6, <3>2
      <4>2. job_id[q[j]] <= job_id[q[k]]
        BY <4>1 DEF OrderInv, QueueInOrder, q
      <4> QED
        BY <2>1, <2>5, <2>6, <4>1, <4>2
    <3> QED
      BY <3>1, <3>2
  <2>9. FirstComeFirstServed'
    <3> SUFFICES ASSUME NEW p \in Requests, NEW o \in Requests, Queued(p)', o \notin lost,
                        status'[o] \in {"processing", "completed", "failed"}
                 PROVE  job_id'[o] <= job_id'[p]
      BY <2>1 DEF FirstComeFirstServed
    <3>1. o # r /\ status'[o] = status[o] /\ job_id'[o] = job_id[o]
      BY <2>1
    <3>2. CASE p = r
      BY <2>1, <2>3, <3>1, <3>2
    <3>3. CASE p # r
      <4>1. PICK k \in 1 .. l : Append(q, r)[k] = p
        BY <2>1, <2>6 DEF Queued
      <4>2. k # l
        BY <2>6, <3>3, <4>1
      <4>3. Queued(p)
        BY <2>6, <4>1, <4>2 DEF Queued, q
      <4> QED
        BY <2>1, <3>1, <3>3, <4>3 DEF OrderInv, FirstComeFirstServed
    <3> QED
      BY <3>2, <3>3
  <2> QED
    BY <2>7, <2>8, <2>9 DEF OrderInv
<1>3. CASE StartJob
  <2> DEFINE q == pending_queue
             h == Head(q)
  <2>1. /\ q \in Seq(Requests) /\ q # <<>> /\ h \in Requests /\ pending_queue' = Tail(q)
        /\ UNCHANGED <<second, job_id, lost>>
        /\ \A p \in Requests : status'[p] = IF p = h THEN "processing" ELSE status[p]
    BY <1>3 DEF TypeOK, StartJob
  <2> HIDE DEF q
  <2>2. /\ Len(q) \in Nat \ {0} /\ h = q[1] /\ DOMAIN q = 1 .. Len(q)
        /\ DOMAIN Tail(q) = 1 .. Len(q) - 1
        /\ \A k \in 1 .. Len(q) - 1 : Tail(q)[k] = q[k + 1]
    BY <2>1
  <2>3. \A k \in 1 .. Len(q) - 1 : k + 1 \in DOMAIN q /\ 1 \in DOMAIN q
    BY <2>2
  <2>4. status[h] = "queued"
    BY <2>2, QueuedStatus DEF q
  <2> HIDE DEF h
  <2>5. IdsInv'
    BY <2>1, <2>4 DEF OrderInv, IdsInv, FinalizerAssumption, Statuses
  <2>6. QueueInOrder'
    <3> SUFFICES ASSUME NEW j \in 1 .. Len(q) - 1, NEW k \in 1 .. Len(q) - 1, j <= k
                 PROVE  job_id[Tail(q)[j]] <= job_id[Tail(q)[k]]
      BY <2>1, <2>2 DEF QueueInOrder
    <3>1. j + 1 \in DOMAIN q /\ k + 1 \in DOMAIN q /\ j + 1 <= k + 1
      BY <2>2, <2>3
    <3>2. job_id[q[j + 1]] <= job_id[q[k + 1]]
      BY <3>1 DEF OrderInv, QueueInOrder, q
    <3> QED
      BY <2>2, <3>2
  <2>7. FirstComeFirstServed'
    <3> SUFFICES ASSUME NEW p \in Requests, NEW o \in Requests, Queued(p)', o \notin lost,
                        status'[o] \in {"processing", "completed", "failed"}
                 PROVE  job_id[o] <= job_id[p]
      BY <2>1 DEF FirstComeFirstServed
    <3>1. PICK k \in 1 .. Len(q) - 1 : Tail(q)[k] = p
      BY <2>1, <2>2 DEF Queued
    <3>2. q[k + 1] = p /\ k + 1 \in DOMAIN q /\ 1 \in DOMAIN q /\ 1 <= k + 1
      BY <2>2, <2>3, <3>1
    <3>3. CASE o = h
      <4>1. job_id[q[1]] <= job_id[q[k + 1]]
        BY <3>2 DEF OrderInv, QueueInOrder, q
      <4> QED
        BY <2>2, <3>2, <3>3, <4>1
    <3>4. CASE o # h
      <4>1. Queued(p)
        BY <3>2 DEF Queued, q
      <4> QED
        BY <2>1, <3>4, <4>1 DEF OrderInv, FirstComeFirstServed
    <3> QED
      BY <3>3, <3>4
  <2> QED
    BY <2>5, <2>6, <2>7 DEF OrderInv
<1>4. ASSUME NEW r \in Requests, EndJob(r)
      PROVE  OrderInv'
  <2>1. PICK s \in {"completed", "failed"} : status' = [status EXCEPT ![r] = s]
    BY <1>4 DEF EndJob
  <2>2. /\ UNCHANGED <<second, pending_queue, job_id, lost>> /\ r \in active
        /\ \A p \in Requests : status'[p] = IF p = r THEN s ELSE status[p]
    BY <1>4, <2>1 DEF EndJob, TypeOK
  <2>3. r \notin lost /\ status[r] = "processing"
    BY <2>2 DEF QueueInv, LostIsGone, NoJobLost
  <2>4. IdsInv'
    BY <2>2, <2>3 DEF OrderInv, IdsInv, FinalizerAssumption, Statuses
  <2>5. QueueInOrder'
    BY <2>2 DEF OrderInv, QueueInOrder
  <2>6. FirstComeFirstServed'
    BY <2>2, <2>3 DEF OrderInv, FirstComeFirstServed, Queued
  <2> QED
    BY <2>4, <2>5, <2>6 DEF OrderInv
<1>5. CASE Crash
  <2>1. pending_queue' = <<>> /\ UNCHANGED <<second, status, job_id>>
    BY <1>5 DEF Crash
  <2>2. \A p : ~ Queued(p)'
    BY <2>1 DEF Queued
  <2>3. QueueInOrder'
    BY <2>1 DEF QueueInOrder
  <2> QED
    BY <2>1, <2>2, <2>3 DEF OrderInv, IdsInv, FirstComeFirstServed
<1>6. CASE UNCHANGED vars
  BY <1>6 DEF vars, OrderInv, IdsInv, QueueInOrder, FirstComeFirstServed, Queued
<1> QED
  BY <1>1, <1>2, <1>3, <1>4, <1>5, <1>6 DEF Next

LEMMA OrderInvariant == Spec => []OrderInv
<1>1. FinalizerAssumption /\ Init => OrderInv
  BY DEF Init, OrderInv, IdsInv, QueueInOrder, FirstComeFirstServed, FinalizerAssumption, Statuses
<1>2. FinalizerAssumption /\ TypeOK /\ QueueInv /\ OrderInv /\ [Next]_vars => OrderInv'
  BY OrderStep
<1> QED
  BY <1>1, <1>2, TypeCorrect, QueueInvariant, FinalizerAssumption, PTL DEF Spec

(* A job that waits was not accepted in an earlier second than one the     *)
(* worker has already taken.                                               *)
THEOREM InOrderOfArrival == Spec => []FirstComeFirstServed
<1>1. OrderInv => FirstComeFirstServed
  BY DEF OrderInv
<1> QED
  BY <1>1, OrderInvariant, PTL

-----------------------------------------------------------------------------
(* The store follows the jobs.                                             *)

LEMMA SaveFollows ==
  ASSUME FinalizerAssumption, TypeOK, StoreFollowsJobs,
         NEW r \in Requests, NEW s \in Statuses, NEW id \in Seconds,
         Saves(id, r, s),
         \A p \in Requests : status'[p] = IF p = r THEN s ELSE status[p],
         \A p \in Requests : job_id'[p] = IF p = r THEN id ELSE job_id[p],
         \A p \in Requests : status[p] # None => job_id[p] \in Seconds,
         status[r] = None => job_id[r] = 0 /\ \A i \in Seconds : store[i] # None => store[i].job # r,
         status[r] # None => job_id[r] = id /\ Rank(status[r]) <= Rank(s)
  PROVE  StoreFollowsJobs'
<1>1. ASSUME NEW p \in Requests, p # r, status'[p] # None
      PROVE  LET rec == store'[job_id'[p]] IN
               /\ rec # None /\ rec.job = p => Rank(rec.status) <= Rank(status'[p])
               /\ p \notin unsaved' /\ ~ Shares(p)' => rec = [job |-> p, status |-> status'[p]]
  <2>1. /\ status'[p] = status[p] /\ job_id'[p] = job_id[p] /\ job_id[p] \in Seconds
        /\ p \in unsaved' <=> p \in unsaved
        /\ 0 \notin Seconds
    BY <1>1 DEF Saves, Save, SaveTwice, Seconds, FinalizerAssumption
  <2>2. CASE job_id[p] = id
    <3>1. Shares(p)'
      BY <1>1, <2>1, <2>2 DEF Shares
    <3>2. \/ store'[id] # None /\ store'[id].job = r
          \/ store'[id] = store[id]
      <4>1. \A u \in Statuses : [job |-> r, status |-> u] \in Records
        BY DEF Records
      <4>2. \A u \in Statuses : [job |-> r, status |-> u] # None
        BY <4>1 DEF FinalizerAssumption
      <4> QED
        BY <4>2 DEF Saves, Save, SaveTwice, TypeOK, Statuses
    <3>3. store[id] # None /\ store[id].job = p => Rank(store[id].status) <= Rank(status[p])
      BY <1>1, <2>1, <2>2 DEF StoreFollowsJobs
    <3>4. CASE store'[id] # None /\ store'[id].job = r
      BY <1>1, <2>1, <2>2, <3>1, <3>4
    <3>5. CASE store'[id] = store[id]
      BY <2>1, <2>2, <3>1, <3>3, <3>5
    <3> QED
      BY <3>2, <3>4, <3>5
  <2>3. CASE job_id[p] # id
    <3>1. store'[job_id[p]] = store[job_id[p]]
      BY <2>1, <2>3 DEF Saves, Save, SaveTwice, TypeOK
    <3>2. Shares(p) => Shares(p)'
      BY <1>1, <2>1, <2>3 DEF Shares
    <3> QED
      BY <1>1, <2>1, <3>1, <3>2 DEF StoreFollowsJobs
  <2> QED
    BY <2>2, <2>3
<1>2. LET rec == store'[job_id'[r]] IN
        /\ rec # None /\ rec.job = r => Rank(rec.status) <= Rank(status'[r])
        /\ r \notin unsaved' /\ ~ Shares(r)' => rec = [job |-> r, status |-> status'[r]]
  <2>1. job_id'[r] = id /\ status'[r] = s
    OBVIOUS
  <2>2. CASE store' = [store EXCEPT ![id] = [job |-> r, status |-> s]]
    <3>1. store'[id] = [job |-> r, status |-> s]
      BY <2>2 DEF TypeOK
    <3>2. Rank(s) <= Rank(s)
      BY DEF Rank
    <3> QED
      BY <2>1, <3>1, <3>2
  <2>3. CASE r \in unsaved' /\ store' = store
    <3>1. ASSUME store[id] # None, store[id].job = r
          PROVE  Rank(store[id].status) <= Rank(s)
      <4>1. status[r] # None
        BY <3>1
      <4>2. Rank(store[id].status) <= Rank(status[r]) /\ Rank(status[r]) <= Rank(s)
        BY <3>1, <4>1 DEF StoreFollowsJobs
      <4>3. \A x : Rank(x) \in {1, 2, 3}
        BY DEF Rank
      <4> QED
        BY <4>2, <4>3
    <3> QED
      BY <2>1, <2>3, <3>1
  <2>4. CASE /\ r \in unsaved' /\ s = "failed"
             /\ store' = [store EXCEPT ![id] = [job |-> r, status |-> "completed"]]
    <3>1. store'[id] = [job |-> r, status |-> "completed"]
      BY <2>4 DEF TypeOK
    <3>2. Rank("completed") <= Rank(s)
      BY <2>4 DEF Rank
    <3> QED
      BY <2>1, <2>4, <3>1, <3>2
  <2> QED
    BY <2>2, <2>3, <2>4 DEF Saves, Save, SaveTwice, TypeOK
<1> QED
  BY <1>1, <1>2 DEF StoreFollowsJobs

(* A record is that of a job the service has accepted. *)
Accepted == \A id \in Seconds : store[id] # None => status[store[id].job] # None
StoreInv == StoreFollowsJobs /\ Accepted

LEMMA StoreStep ==
  ASSUME FinalizerAssumption, TypeOK, QueueInv, IdsInv, StoreInv, [Next]_vars
  PROVE  StoreInv'
<1>1. StoreFollowsJobs /\ Accepted
  BY DEF StoreInv
<1>2. \A p \in Requests : status[p] # None => job_id[p] \in Seconds
  BY DEF IdsInv
<1>3. ASSUME UNCHANGED <<status, job_id, store, unsaved>>
      PROVE  StoreInv'
  BY <1>1, <1>3 DEF StoreInv, StoreFollowsJobs, Accepted, Shares
<1>4. ASSUME NEW r \in Requests, NEW s \in Statuses, NEW id \in Seconds, Saves(id, r, s),
             \A p \in Requests : status'[p] = IF p = r THEN s ELSE status[p]
      PROVE  Accepted'
  <2>1. \A p \in Requests : status[p] # None => status'[p] # None
    BY <1>4 DEF FinalizerAssumption
  <2>2. status'[r] # None
    BY <1>4 DEF FinalizerAssumption
  <2> SUFFICES ASSUME NEW i \in Seconds, store'[i] # None
               PROVE  status'[store'[i].job] # None
    BY DEF Accepted
  <2>3. CASE store'[i] = store[i]
    <3>1. store[i].job \in Requests
      BY <2>3 DEF TypeOK, Records
    <3> QED
      BY <1>1, <2>1, <2>3, <3>1 DEF Accepted
  <2>4. CASE \E u : store'[i] = [job |-> r, status |-> u]
    BY <2>2, <2>4
  <2> QED
    BY <1>4, <2>3, <2>4 DEF Saves, Save, SaveTwice, TypeOK
<1>5. ASSUME NEW r \in Requests, QueueFinalization(r)
      PROVE  StoreInv'
  <2>1. /\ \A p \in Requests : status'[p] = IF p = r THEN "queued" ELSE status[p]
        /\ \A p \in Requests : job_id'[p] = IF p = r THEN second ELSE job_id[p]
        /\ Saves(second, r, "queued") /\ status[r] = None
        /\ second \in Seconds /\ "queued" \in Statuses
    BY <1>5 DEF QueueFinalization, Saves, TypeOK, Statuses
  <2>2. job_id[r] = 0 /\ \A i \in Seconds : store[i] # None => store[i].job # r
    BY <1>1, <2>1 DEF IdsInv, Accepted
  <2>3. StoreFollowsJobs'
    BY <1>1, <1>2, <2>1, <2>2, SaveFollows
  <2> QED
    BY <1>4, <2>1, <2>3 DEF StoreInv
<1>6. ASSUME NEW r \in Requests, NEW s \in Statuses, Saves(job_id[r], r, s),
             status' = [status EXCEPT ![r] = s], job_id' = job_id,
             status[r] # None, Rank(status[r]) <= Rank(s)
      PROVE  StoreInv'
  <2>1. /\ \A p \in Requests : status'[p] = IF p = r THEN s ELSE status[p]
        /\ \A p \in Requests : job_id'[p] = IF p = r THEN job_id[r] ELSE job_id[p]
        /\ job_id[r] \in Seconds
    BY <1>2, <1>6 DEF TypeOK
  <2>2. StoreFollowsJobs'
    BY <1>1, <1>2, <1>6, <2>1, SaveFollows
  <2> QED
    BY <1>4, <1>6, <2>1, <2>2 DEF StoreInv
<1>7. CASE StartJob
  <2> DEFINE h == Head(pending_queue)
  <2>1. h = pending_queue[1] /\ 1 \in DOMAIN pending_queue
    BY <1>7 DEF StartJob, TypeOK
  <2>2. h \in Requests /\ status[h] = "queued"
    BY <2>1, QueuedStatus
  <2>3. /\ Saves(job_id[h], h, "processing") /\ status' = [status EXCEPT ![h] = "processing"]
        /\ job_id' = job_id
    BY <1>7 DEF StartJob, Saves
  <2> HIDE DEF h
  <2>4. Rank("queued") = 1 /\ Rank("processing") = 2
    BY DEF Rank
  <2>5. "processing" \in Statuses /\ status[h] # None
        /\ Rank(status[h]) <= Rank("processing")
    BY <2>2, <2>4 DEF FinalizerAssumption, Statuses
  <2> QED
    BY <1>6, <2>2, <2>3, <2>5, Zenon
<1>8. ASSUME NEW r \in Requests, EndJob(r)
      PROVE  StoreInv'
  <2>1. PICK s \in {"completed", "failed"} :
          status' = [status EXCEPT ![r] = s] /\ Saves(job_id[r], r, s) /\ job_id' = job_id
    BY <1>8 DEF EndJob, Saves
  <2>2. status[r] = "processing"
    BY <1>8 DEF EndJob, QueueInv, LostIsGone, NoJobLost
  <2>3. Rank("processing") = 2 /\ Rank(s) = 3
    BY DEF Rank
  <2>4. s \in Statuses /\ status[r] # None /\ Rank(status[r]) <= Rank(s)
    BY <2>2, <2>3 DEF FinalizerAssumption, Statuses
  <2> QED
    BY <1>6, <1>8, <2>1, <2>4, Zenon
<1>9. CASE Tick \/ Crash \/ UNCHANGED vars
  BY <1>3, <1>9 DEF Tick, Crash, vars
<1> QED
  BY <1>5, <1>7, <1>8, <1>9 DEF Next

(* A record in the store is never ahead of its job, and a job whose last   *)
(* save went through is shown as it is.                                    *)
THEOREM StoreIsTrue == Spec => []StoreFollowsJobs
<1>1. FinalizerAssumption /\ Init => StoreInv
  BY DEF Init, StoreInv, StoreFollowsJobs, Accepted
<1>2. FinalizerAssumption /\ TypeOK /\ QueueInv /\ OrderInv /\ StoreInv /\ [Next]_vars
        => StoreInv'
  BY StoreStep DEF OrderInv
<1>3. StoreInv => StoreFollowsJobs
  BY DEF StoreInv
<1> QED
  BY <1>1, <1>2, <1>3, TypeCorrect, QueueInvariant, OrderInvariant, FinalizerAssumption,
     PTL DEF Spec

-----------------------------------------------------------------------------
(* The finalizer is a JobService.                                          *)

(* Only the jobs named by a step change their state. *)
LEMMA OneJobMoves ==
  ASSUME TypeOK, NEW r \in Requests, NEW s \in Statuses, r \notin lost, lost' = lost,
         status' = [status EXCEPT ![r] = s]
  PROVE  [q \in Requests |-> JobState(q)]' =
           [[q \in Requests |-> JobState(q)] EXCEPT ![r] =
              CASE s = "queued" -> "waiting" [] s = "processing" -> "running" [] OTHER -> "ended"]
<1> DEFINE t == CASE s = "queued" -> "waiting" [] s = "processing" -> "running" [] OTHER -> "ended"
<1>1. status'[r] = s /\ s # None /\ \A q \in Requests \ {r} : status'[q] = status[q]
  BY FinalizerAssumption DEF TypeOK, FinalizerAssumption
<1>2. JobState(r)' = t
  BY <1>1 DEF JobState, Statuses
<1>3. \A q \in Requests \ {r} : JobState(q)' = JobState(q)
  BY <1>1 DEF JobState
<1> QED
  BY <1>2, <1>3

LEMMA ServiceStep ==
  TypeOK /\ QueueInv /\ [Next]_vars => [Service!Next]_(Service!vars)
<1> SUFFICES ASSUME TypeOK, QueueInv, [Next]_vars
             PROVE  [Service!Next]_(Service!vars)
  OBVIOUS
<1> USE FinalizerAssumption
<1>1. ASSUME NEW r \in Requests, QueueFinalization(r)
      PROVE  Service!Accept(r)
  <2>1. /\ status[r] = None /\ status' = [status EXCEPT ![r] = "queued"] /\ lost' = lost
        /\ pending_queue' = Append(pending_queue, r)
    BY <1>1 DEF QueueFinalization
  <2>2. r \notin lost
    BY <2>1 DEF QueueInv, LostIsGone
  <2>3. JobState(r) = "new"
    BY <2>1, <2>2 DEF JobState, FinalizerAssumption, Statuses
  <2> QED
    BY <2>1, <2>2, <2>3, OneJobMoves DEF Service!Accept, Statuses
<1>2. CASE StartJob
  <2> DEFINE r == Head(pending_queue)
  <2>1. /\ pending_queue # <<>> /\ active = {} /\ lost' = lost
        /\ status' = [status EXCEPT ![r] = "processing"]
        /\ pending_queue' = Tail(pending_queue)
    BY <1>2 DEF StartJob
  <2>2. r = pending_queue[1] /\ 1 \in DOMAIN pending_queue
    BY <2>1 DEF TypeOK
  <2>3. r \in Requests /\ r \notin lost
    BY <2>2, QueuedStatus
  <2>4. \A q \in Requests : JobState(q) # "running"
    BY <2>1 DEF JobState, QueueInv, NoJobLost, FinalizerAssumption, Statuses
  <2> HIDE DEF r
  <2>5. [q \in Requests |-> JobState(q)]' =
          [[q \in Requests |-> JobState(q)] EXCEPT ![r] = "running"]
    BY <2>1, <2>3, OneJobMoves DEF Statuses
  <2> QED
    BY <2>1, <2>4, <2>5 DEF Service!Next, Service!Start, r
<1>3. ASSUME NEW r \in Requests, EndJob(r)
      PROVE  Service!End(r)
  <2>1. PICK s \in {"completed", "failed"} : status' = [status EXCEPT ![r] = s]
    BY <1>3 DEF EndJob
  <2>2. r \in active /\ lost' = lost /\ pending_queue' = pending_queue
    BY <1>3 DEF EndJob
  <2>3. r \notin lost /\ status[r] = "processing"
    BY <2>2 DEF QueueInv, NoJobLost, LostIsGone
  <2>4. JobState(r) = "running"
    BY <2>3 DEF JobState, FinalizerAssumption, Statuses
  <2> QED
    BY <2>1, <2>2, <2>3, <2>4, OneJobMoves DEF Service!End, Statuses
<1>4. CASE Crash
  <2>1. /\ pending_queue' = <<>> /\ status' = status
        /\ lost' = lost \cup active \cup {pending_queue[k] : k \in DOMAIN pending_queue}
    BY <1>4 DEF Crash
  <2>2. ASSUME NEW q \in Requests
        PROVE  JobState(q)' = IF JobState(q) \in {"waiting", "running"} THEN "lost" ELSE JobState(q)
    <3>1. q \in lost' <=> q \in lost \/ q \in active \/ Queued(q)
      BY <2>1 DEF Queued
    <3>2. q \notin lost =>
            /\ Queued(q) <=> status[q] = "queued"
            /\ q \in active <=> status[q] = "processing"
      BY DEF QueueInv, NoJobLost
    <3>3. status[q] \in Statuses \cup {None}
      BY DEF TypeOK
    <3>4. JobState(q)' = IF q \in lost' THEN "lost" ELSE JobState(q)
      BY <2>1, <3>1 DEF JobState
    <3>5. JobState(q) \in {"waiting", "running"} <=>
            q \notin lost /\ status[q] \in {"queued", "processing"}
      BY <3>3 DEF JobState, Statuses, FinalizerAssumption
    <3>6. JobState(q) = "lost" <=> q \in lost
      BY <3>3 DEF JobState
    <3> QED
      BY <3>1, <3>2, <3>4, <3>5, <3>6
  <2> QED
    BY <2>1, <2>2 DEF Service!Next, Service!Crash
<1>5. CASE Tick \/ UNCHANGED vars
  <2>1. UNCHANGED <<status, lost, pending_queue>>
    BY <1>5 DEF Tick, vars
  <2> QED
    BY <2>1 DEF Service!vars, JobState
<1> QED
  BY <1>1, <1>2, <1>3, <1>4, <1>5 DEF Next, Service!Next

(* The finalizer implements a JobService: for any number of requests and   *)
(* crashes, jobs run one at a time, once each, in the order in which       *)
(* queue_finalization accepted them, and none is lost short of a crash.    *)
THEOREM Implementation == Spec => ImplementsJobService
<1>1. FinalizerAssumption /\ Init => Service!Init
  <2> SUFFICES ASSUME FinalizerAssumption, Init
               PROVE  Service!Init
    OBVIOUS
  <2>1. \A r \in Requests : JobState(r) = "new"
    BY DEF Init, JobState, FinalizerAssumption, Statuses
  <2> QED
    BY <2>1 DEF Init, Service!Init
<1>2. TypeOK /\ QueueInv /\ [Next]_vars => [Service!Next]_(Service!vars)
  BY ServiceStep
<1> QED
  BY <1>1, <1>2, TypeCorrect, QueueInvariant, FinalizerAssumption, PTL
  DEF Spec, ImplementsJobService, Service!Spec
=============================================================================
