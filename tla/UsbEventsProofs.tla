-------------------------- MODULE UsbEventsProofs --------------------------
(***************************************************************************)
(* Proofs about UsbEvents, for any number of threads, devices and errors   *)
(* of poll().  EventsInv puts together who holds the events lock, the two  *)
(* counters, what is polled, and where each transfer is.                   *)
(***************************************************************************)
EXTENDS UsbEvents, FiniteSetTheorems, SequenceTheorems, WellFoundedInduction, TLAPS

(* Lists: the least position, and what insertion and removal leave.         *)
LEMMA MinProperties ==
  ASSUME NEW S \in SUBSET Nat, S # {}
  PROVE  Min(S) \in S /\ \A j \in S : Min(S) <= j
<1>1. PICK x \in S : \A y \in S : ~(<<y, x>> \in OpToRel(<, Nat))
  BY NatLessThanWellFounded, WFMin
<1>2. ASSUME NEW y \in S, y < x  PROVE FALSE
  <2>1. <<y, x>> \in Nat \X Nat /\ <<y, x>>[1] < <<y, x>>[2]
    BY <1>2
  <2>2. <<y, x>> \in {ss \in Nat \X Nat : ss[1] < ss[2]}
    BY <2>1
  <2> QED  BY <1>1, <2>2 DEF OpToRel
<1>3. \A y \in S : x <= y
  BY <1>2
<1> QED  BY <1>3 DEF Min

LEMMA InsertAtProperties ==
  ASSUME NEW S, NEW s \in Seq(S), NEW e \in S, NEW p \in 1 .. Len(s) + 1
  PROVE  /\ InsertAt(s, p, e) \in Seq(S)
         /\ Len(InsertAt(s, p, e)) = Len(s) + 1
         /\ \A k \in 1 .. Len(s) + 1 :
              InsertAt(s, p, e)[k] = IF k < p THEN s[k] ELSE IF k = p THEN e ELSE s[k - 1]
<1> DEFINE l == SubSeq(s, 1, p - 1)  r == SubSeq(s, p, Len(s))
<1>1. Len(s) \in Nat /\ \A i \in 1 .. Len(s) : s[i] \in S
  BY ElementOfSeq, LenProperties
<1>2. l \in Seq(S) /\ Len(l) = p - 1 /\ \A i \in 1 .. p - 1 : l[i] = s[i]
  <2>1. \A i \in 1 .. p - 1 : s[i] \in S
    BY <1>1
  <2> QED  BY <1>1, <2>1, SubSeqProperties
<1>3. r \in Seq(S) /\ Len(r) = Len(s) + 1 - p /\ \A i \in 1 .. Len(s) + 1 - p : r[i] = s[p + i - 1]
  <2>1. \A i \in p .. Len(s) : s[i] \in S
    BY <1>1
  <2> QED  BY <1>1, <2>1, SubSeqProperties
<1>4. <<e>> \in Seq(S) /\ Len(<<e>>) = 1 /\ <<e>>[1] = e
  OBVIOUS
<1> HIDE DEF l, r
<1> DEFINE m == l \o <<e>>
<1>5. /\ m \in Seq(S) /\ Len(m) = p
      /\ \A i \in 1 .. p : m[i] = IF i <= p - 1 THEN l[i] ELSE <<e>>[i - (p - 1)]
  <2>1. p - 1 + 1 = p  OBVIOUS
  <2> QED  BY <1>2, <1>4, <2>1, ConcatProperties
<1>6. \A i \in 1 .. p : m[i] = IF i < p THEN s[i] ELSE e
  BY <1>2, <1>4, <1>5
<1> HIDE DEF m
<1>7. /\ m \o r \in Seq(S) /\ Len(m \o r) = Len(s) + 1
      /\ \A i \in 1 .. Len(s) + 1 : (m \o r)[i] = IF i <= p THEN m[i] ELSE r[i - p]
  <2>1. p + (Len(s) + 1 - p) = Len(s) + 1
    BY <1>1
  <2> QED  BY <1>1, <1>3, <1>5, <2>1, ConcatProperties
<1>8. \A k \in 1 .. Len(s) + 1 : (m \o r)[k] = IF k < p THEN s[k] ELSE IF k = p THEN e ELSE s[k - 1]
  <2> TAKE k \in 1 .. Len(s) + 1
  <2>1. CASE k <= p
    BY <1>1, <1>6, <1>7, <2>1
  <2>2. CASE k > p
    <3>1. k - p \in 1 .. Len(s) + 1 - p /\ p + (k - p) - 1 = k - 1
      BY <1>1, <2>2
    <3> QED  BY <1>1, <1>3, <1>7, <2>2, <3>1
  <2>3. k <= p \/ k > p
    BY <1>1
  <2> QED  BY <2>1, <2>2, <2>3
<1>9. InsertAt(s, p, e) = m \o r
  BY DEF InsertAt, m, l, r
<1> QED  BY <1>7, <1>8, <1>9

LEMMA RemoveAtProperties ==
  ASSUME NEW S, NEW s \in Seq(S), NEW p \in 1 .. Len(s)
  PROVE  /\ RemoveAt(s, p) \in Seq(S)
         /\ Len(RemoveAt(s, p)) = Len(s) - 1
         /\ \A k \in 1 .. Len(s) - 1 : RemoveAt(s, p)[k] = IF k < p THEN s[k] ELSE s[k + 1]
<1> DEFINE l == SubSeq(s, 1, p - 1)  r == SubSeq(s, p + 1, Len(s))
<1>1. Len(s) \in Nat /\ \A i \in 1 .. Len(s) : s[i] \in S
  BY ElementOfSeq, LenProperties
<1>2. l \in Seq(S) /\ Len(l) = p - 1 /\ \A i \in 1 .. p - 1 : l[i] = s[i]
  <2>1. \A i \in 1 .. p - 1 : s[i] \in S
    BY <1>1
  <2> QED  BY <1>1, <2>1, SubSeqProperties
<1>3. r \in Seq(S) /\ Len(r) = Len(s) - p /\ \A i \in 1 .. Len(s) - p : r[i] = s[p + i]
  <2>1. \A i \in p + 1 .. Len(s) : s[i] \in S
    BY <1>1
  <2>2. /\ r \in Seq(S) /\ Len(r) = IF p + 1 <= Len(s) THEN Len(s) - (p + 1) + 1 ELSE 0
        /\ \A i \in 1 .. Len(s) - (p + 1) + 1 : r[i] = s[p + 1 + i - 1]
    BY <1>1, <2>1, SubSeqProperties
  <2> QED  BY <1>1, <2>2
<1> HIDE DEF l, r
<1>4. /\ l \o r \in Seq(S) /\ Len(l \o r) = Len(s) - 1
      /\ \A i \in 1 .. Len(s) - 1 : (l \o r)[i] = IF i <= p - 1 THEN l[i] ELSE r[i - (p - 1)]
  <2>1. (p - 1) + (Len(s) - p) = Len(s) - 1
    BY <1>1
  <2> QED  BY <1>1, <1>2, <1>3, <2>1, ConcatProperties
<1>5. \A k \in 1 .. Len(s) - 1 : (l \o r)[k] = IF k < p THEN s[k] ELSE s[k + 1]
  <2> TAKE k \in 1 .. Len(s) - 1
  <2>1. CASE k < p
    BY <1>1, <1>2, <1>4, <2>1
  <2>2. CASE k >= p
    <3>1. k - (p - 1) \in 1 .. Len(s) - p /\ p + (k - (p - 1)) = k + 1
      BY <1>1, <2>2
    <3> QED  BY <1>1, <1>3, <1>4, <2>2, <3>1
  <2>3. k < p \/ k >= p
    BY <1>1
  <2> QED  BY <2>1, <2>2, <2>3
<1>6. RemoveAt(s, p) = l \o r
  BY DEF RemoveAt, l, r
<1> QED  BY <1>4, <1>5, <1>6

(* list_del and add_to_flying_list: no transfer is on the list twice, and  *)
(* the list stays in the order of the timeouts.                             *)
LEMMA RemovedFromList ==
  ASSUME flying \in Seq(Threads), due \in [Threads -> Nat], OnceOnList, FlyingInOrder, NEW t \in Threads,
         flying' = Without(t), due' = due
  PROVE  /\ flying' \in Seq(Threads) /\ OnceOnList' /\ FlyingInOrder' /\ ~Contains(flying', t)
         /\ \A u \in Threads : Contains(flying', u) => Contains(flying, u)
<1> Len(flying) \in Nat /\ DOMAIN flying = 1 .. Len(flying)
  BY LenProperties
<1>1. CASE ~Contains(flying, t)
  BY <1>1 DEF Without, OnceOnList, FlyingInOrder
<1>2. CASE Contains(flying, t)
  <2> DEFINE p == CHOOSE i \in DOMAIN flying : flying[i] = t
  <2>0. p \in 1 .. Len(flying) /\ flying[p] = t /\ flying' = RemoveAt(flying, p)
    BY <1>2 DEF Contains, Without
  <2>1. p \in 1 .. Len(flying) /\ flying[p] = t
    BY <2>0
  <2> HIDE DEF p
  <2>2. /\ flying' \in Seq(Threads) /\ Len(flying') = Len(flying) - 1
        /\ \A k \in 1 .. Len(flying) - 1 : flying'[k] = IF k < p THEN flying[k] ELSE flying[k + 1]
    <3>1. /\ RemoveAt(flying, p) \in Seq(Threads) /\ Len(RemoveAt(flying, p)) = Len(flying) - 1
          /\ \A k \in 1 .. Len(flying) - 1 :
               RemoveAt(flying, p)[k] = IF k < p THEN flying[k] ELSE flying[k + 1]
      BY <2>1, RemoveAtProperties
    <3> QED  BY <2>0, <3>1
  <2>3. DOMAIN flying' = 1 .. Len(flying) - 1
    BY <2>2, LenProperties
  <2> DEFINE old(k) == IF k < p THEN k ELSE k + 1
  <2>4. \A k \in DOMAIN flying' : flying'[k] = flying[old(k)] /\ old(k) \in DOMAIN flying /\ old(k) # p
    BY SMTT(30), <2>1, <2>2, <2>3
  <2>5. \A i, j \in DOMAIN flying' : (i < j => old(i) < old(j)) /\ (old(i) = old(j) => i = j)
    BY <2>1, <2>3
  <2> HIDE DEF old
  <2>6. OnceOnList'
    BY <2>4, <2>5 DEF OnceOnList
  <2>7. FlyingInOrder'
    BY <2>4, <2>5 DEF FlyingInOrder
  <2>8. ASSUME NEW u \in Threads, Contains(flying', u)  PROVE u # t /\ Contains(flying, u)
    <3>1. PICK k \in DOMAIN flying' : flying'[k] = u
      BY <2>2, <2>3, <2>8 DEF Contains
    <3>2. old(k) \in DOMAIN flying /\ flying[old(k)] = u /\ old(k) # p
      BY <2>4, <3>1
    <3> QED  BY <2>1, <3>2 DEF Contains, OnceOnList
  <2> QED  BY <2>2, <2>6, <2>7, <2>8
<1> QED  BY <1>1, <1>2

LEMMA InsertedInList ==
  ASSUME flying \in Seq(Threads), due \in [Threads -> Nat], OnceOnList, FlyingInOrder, NEW t \in Threads,
         ~Contains(flying, t), NEW d \in Nat, flying' = Inserted(t, d), due' = [due EXCEPT ![t] = d]
  PROVE  /\ flying' \in Seq(Threads) /\ OnceOnList' /\ FlyingInOrder'
         /\ \A u \in Threads : Contains(flying', u) => u = t \/ Contains(flying, u)
<1> Len(flying) \in Nat /\ DOMAIN flying = 1 .. Len(flying)
  BY LenProperties
<1> DEFINE later == {i \in DOMAIN flying : d > 0 /\ (due[flying[i]] = 0 \/ due[flying[i]] > d)}
           p == Min(later \cup {Len(flying) + 1})
<1>1. p \in later \cup {Len(flying) + 1} /\ \A j \in later \cup {Len(flying) + 1} : p <= j
  <2>1. later \cup {Len(flying) + 1} \in SUBSET Nat
    OBVIOUS
  <2> QED  BY <2>1, MinProperties
<1>2. p \in 1 .. Len(flying) + 1
  BY <1>1
<1>3. ASSUME NEW i \in 1 .. Len(flying), i < p
      PROVE  ~(d > 0 /\ (due[flying[i]] = 0 \/ due[flying[i]] > d))
  <2>1. i \notin later
    <3> HIDE DEF p, later
    <3> QED  BY <1>1, <1>2, <1>3
  <2> QED  BY <2>1
<1>4. p <= Len(flying) => d > 0 /\ (due[flying[p]] = 0 \/ due[flying[p]] > d)
  BY SMTT(30), <1>1
<1> HIDE DEF p, later
<1>5. /\ flying' \in Seq(Threads) /\ Len(flying') = Len(flying) + 1
      /\ \A k \in 1 .. Len(flying) + 1 :
           flying'[k] = IF k < p THEN flying[k] ELSE IF k = p THEN t ELSE flying[k - 1]
  <2>1. t \in Threads /\ flying \in Seq(Threads)
    OBVIOUS
  <2>2. /\ InsertAt(flying, p, t) \in Seq(Threads) /\ Len(InsertAt(flying, p, t)) = Len(flying) + 1
        /\ \A k \in 1 .. Len(flying) + 1 : InsertAt(flying, p, t)[k] =
             IF k < p THEN flying[k] ELSE IF k = p THEN t ELSE flying[k - 1]
    BY ONLY <1>2, <2>1, InsertAtProperties
  <2>3. flying' = InsertAt(flying, p, t)
    BY DEF Inserted, p, later
  <2> QED  BY <2>2, <2>3
<1>6. DOMAIN flying' = 1 .. Len(flying) + 1
  BY <1>5, LenProperties
<1>7. \A i \in DOMAIN flying : flying[i] \in Threads /\ flying[i] # t
  BY ElementOfSeq DEF Contains
<1> DEFINE old(k) == IF k < p THEN k ELSE k - 1
<1>8. \A k \in DOMAIN flying' :
        \/ k = p /\ flying'[k] = t
        \/ k # p /\ flying'[k] = flying[old(k)] /\ old(k) \in DOMAIN flying
  <2> TAKE k \in DOMAIN flying'
  <2>1. k \in 1 .. Len(flying) + 1 /\ k \in Int /\ p \in Int
    BY <1>2, <1>6
  <2>2. k # p => old(k) \in 1 .. Len(flying)
    BY <1>2, <2>1
  <2>3. flying'[k] = IF k < p THEN flying[k] ELSE IF k = p THEN t ELSE flying[k - 1]
    BY <1>5, <2>1
  <2>4. CASE k < p
    BY <2>1, <2>2, <2>3, <2>4
  <2>5. CASE ~(k < p)
    BY <2>1, <2>2, <2>3, <2>5
  <2> QED  BY <2>4, <2>5
<1>9. \A i, j \in DOMAIN flying' :
        i # p /\ j # p => (i < j => old(i) < old(j)) /\ (old(i) = old(j) => i = j)
  BY <1>2, <1>6
<1>10. \A k \in DOMAIN flying' : k # p => (k < p <=> old(k) < p)
  BY <1>2, <1>6
<1>11. \A i, j \in DOMAIN flying : flying[i] = flying[j] => i = j
  BY DEF OnceOnList
<1> HIDE DEF old
<1>12. OnceOnList'
  <2> SUFFICES ASSUME NEW i \in DOMAIN flying', NEW j \in DOMAIN flying', flying'[i] = flying'[j]
               PROVE  i = j
    BY DEF OnceOnList
  <2> QED  BY <1>7, <1>8, <1>9, <1>11
<1>13. FlyingInOrder'
  <2> SUFFICES ASSUME NEW i \in DOMAIN flying', NEW j \in DOMAIN flying', i < j, due'[flying'[j]] > 0
               PROVE  due'[flying'[i]] > 0 /\ due'[flying'[i]] <= due'[flying'[j]]
    BY DEF FlyingInOrder
  <2>1. \A k \in DOMAIN flying : due'[flying[k]] = due[flying[k]] /\ due[flying[k]] \in Nat
    BY <1>7
  <2>2. due'[t] = d
    OBVIOUS
  <2>3. i \in Int /\ j \in Int /\ p \in Int
    BY <1>2, <1>6
  <2>4. \A k, l \in DOMAIN flying : k < l /\ due[flying[l]] > 0 =>
          due[flying[k]] > 0 /\ due[flying[k]] <= due[flying[l]]
    BY DEF FlyingInOrder
  <2>5. CASE i # p /\ j # p
    BY SMTT(30), <1>8, <1>9, <2>1, <2>4, <2>5
  <2>6. CASE j = p
    <3>1. flying'[j] = t /\ flying'[i] = flying[old(i)] /\ old(i) \in DOMAIN flying /\ old(i) < p
      BY <1>8, <1>10, <2>3, <2>6
    <3>2. ~(d > 0 /\ (due[flying[old(i)]] = 0 \/ due[flying[old(i)]] > d))
      BY <1>3, <3>1
    <3> QED  BY <2>1, <2>2, <3>1, <3>2
  <2>7. CASE i = p
    <3>1. flying'[i] = t /\ flying'[j] = flying[old(j)] /\ old(j) \in DOMAIN flying /\ p <= old(j)
      <4>1. flying'[i] = t /\ flying'[j] = flying[old(j)] /\ old(j) \in DOMAIN flying /\ ~(old(j) < p)
        BY <1>8, <1>10, <2>3, <2>7
      <4> QED  BY <2>3, <4>1
    <3>2. p \in DOMAIN flying /\ d > 0 /\ (due[flying[p]] = 0 \/ due[flying[p]] > d)
      BY <1>2, <1>4, <3>1
    <3>3. p < old(j) => due[flying[p]] > 0 /\ due[flying[p]] <= due[flying[old(j)]]
      BY <2>1, <2>4, <3>1, <3>2
    <3>4. due[flying[old(j)]] > 0 /\ p \in Int /\ old(j) \in Int
      BY <2>1, <3>1, <3>2
    <3> QED  BY <2>1, <2>2, <3>1, <3>2, <3>3, <3>4
  <2> QED  BY <2>5, <2>6, <2>7
<1>14. ASSUME NEW u \in Threads, Contains(flying', u)  PROVE u = t \/ Contains(flying, u)
  <2>1. PICK k \in DOMAIN flying' : flying'[k] = u
    BY <1>5, <1>6, <1>14 DEF Contains
  <2> QED  BY <1>8, <2>1 DEF Contains
<1> QED  BY <1>5, <1>12, <1>13, <1>14

(* One lemma for each part of the invariant: what a thread does keeps who   *)
(* holds the events lock, and how often ...                                 *)
LEMMA LockStep ==
  ASSUME EventsInv, NEW t \in Threads, Step(t) \/ PollFails(t) \/ DeviceAnswers(t)
  PROVE  LockInv' /\ depth' \in 0 .. 2 /\ (depth' = 0 <=> owner' = NoThread)
<1> pc \in [Threads -> Labels] /\ LockInv /\ owner \in Threads \cup {NoThread} /\ NoThread \notin Threads
  BY EventsAssumption DEF EventsInv, TypeOK
<1> (depth = 0 <=> owner = NoThread) /\ depth \in 0 .. 2
  BY DEF EventsInv, TypeOK
<1> USE DEF LockInv, Holding, Polling, At, Go, lockv, condv, fdv, timev, callv, envv
<1>1. CASE Open(t)
  BY <1>1 DEF Open
<1>2. CASE Notify(t)
  <2>1. CASE Modify(t) \/ Write(t) \/ Read(t) \/ Modified(t)
    BY <2>1 DEF Modify, Write, Read, Modified
  <2>2. CASE LockToModify(t)
    BY <2>2 DEF LockToModify, LockEvents
  <2>3. CASE UnlockModified(t)
    BY <2>3 DEF UnlockModified, UnlockEvents, Release
  <2>4. CASE BroadcastModified(t)
    BY <2>4 DEF BroadcastModified, Broadcast
  <2> QED  BY <1>2, <2>1, <2>2, <2>3, <2>4 DEF Notify
<1>3. CASE Close(t)
  <2>1. CASE CloseLock(t)
    BY <2>1 DEF CloseLock, LockEvents
  <2>2. CASE CloseUnlock(t)
    BY <2>2 DEF CloseUnlock, UnlockEvents, Release
  <2>3. CASE CloseBroadcast(t) \/ CloseDevice(t)
    BY <2>3 DEF CloseBroadcast, Broadcast, CloseDevice
  <2> QED  BY <1>3, <2>1, <2>2, <2>3 DEF Close
<1>4. CASE Submit(t) \/ SubmitUrb(t) \/ Arm(t)
  BY <1>4 DEF Submit, SubmitUrb, Arm
<1>5. CASE HandleEvents(t)
  <2>1. CASE Begin(t) \/ Gate(t)
    BY <2>1 DEF Begin, Gate
  <2>2. CASE TryLock(t)
    BY <2>2 DEF TryLock, LockEvents
  <2>3. CASE Copy(t) \/ Poll(t) \/ PollTimesOut(t)
    BY <2>3 DEF Copy, Poll, PollTimesOut
  <2>4. CASE Disarm(t) \/ HandleRing(t) \/ Reap(t) \/ Complete(t)
    BY <2>4 DEF Disarm, HandleRing, Reap, Complete
  <2>5. CASE Unlock(t)
    BY <2>5 DEF Unlock, UnlockEvents, Release
  <2>6. CASE BroadcastCompleted(t) \/ UnlockBroadcast(t)
    BY <2>6 DEF BroadcastCompleted, UnlockBroadcast, Broadcast
  <2> QED  BY <1>5, <2>1, <2>2, <2>3, <2>4, <2>5, <2>6 DEF HandleEvents
<1>6. CASE Wait(t)
  <2>1. CASE LockWaiters(t) \/ Look(t) \/ Wake(t)
    BY <2>1 DEF LockWaiters, Look, Wake
  <2>2. CASE Waited(t) \/ Relock(t) \/ Overslept(t)
    BY <2>2 DEF Waited, Relock, Overslept
  <2> QED  BY <1>6, <2>1, <2>2 DEF Wait
<1>7. CASE Returned(t) \/ PollFails(t)
  BY <1>7 DEF Returned, PollFails
<1>8. CASE DeviceAnswers(t)
  BY <1>8 DEF DeviceAnswers
<1> QED  BY <1>1, <1>2, <1>3, <1>4, <1>5, <1>6, <1>7, <1>8 DEF Step

(* ... the two counters with which a thread interrupts the one that polls  *)
LEMMA CountStep ==
  ASSUME EventsInv, NEW t \in Threads, Step(t) \/ PollFails(t) \/ DeviceAnswers(t)
  PROVE  CountInv'
<1> DEFINE M == {u \in Threads : pc[u] \in Modifying}  W == {u \in Threads : pc[u] \in Writing}
<1> pc \in [Threads -> Labels] /\ modify = Cardinality(M) /\ pipe = Cardinality(W)
  BY DEF EventsInv, TypeOK, CountInv
<1> IsFiniteSet(M) /\ IsFiniteSet(W) /\ Cardinality(M) \in Nat /\ Cardinality(W) \in Nat
  BY EventsAssumption, FS_Subset, FS_CardinalityType
<1>1. /\ Cardinality(M \cup {t}) = IF t \in M THEN Cardinality(M) ELSE Cardinality(M) + 1
      /\ Cardinality(W \cup {t}) = IF t \in W THEN Cardinality(W) ELSE Cardinality(W) + 1
      /\ Cardinality(M \ {t}) = IF t \in M THEN Cardinality(M) - 1 ELSE Cardinality(M)
      /\ Cardinality(W \ {t}) = IF t \in W THEN Cardinality(W) - 1 ELSE Cardinality(W)
  BY FS_AddElement, FS_RemoveElement
<1>2. ASSUME M' = M, W' = W, modify' = modify, pipe' = pipe  PROVE CountInv'
  BY <1>2 DEF CountInv
<1> USE DEF Modifying, Writing, At, Go, lockv, condv, fdv, timev, callv, envv
<1>3. CASE Open(t)
  <2>1. M' = M /\ W' = W
    BY <1>3 DEF Open
  <2> QED  BY <1>2, <1>3, <2>1 DEF Open
<1>4. CASE Notify(t)
  <2>1. CASE Modify(t)
    <3>1. M' = M \cup {t} /\ W' = W /\ t \notin M
      BY <2>1 DEF Modify
    <3> QED  BY <1>1, <2>1, <3>1 DEF Modify, CountInv
  <2>2. CASE Write(t)
    <3>1. M' = M /\ W' = W \cup {t} /\ t \notin W
      BY <2>2 DEF Write
    <3> QED  BY <1>1, <2>2, <3>1 DEF Write, CountInv
  <2>3. CASE Read(t)
    <3>1. M' = M /\ W' = W \ {t} /\ t \in W
      BY <2>3 DEF Read
    <3> QED  BY <1>1, <2>3, <3>1 DEF Read, CountInv
  <2>4. CASE Modified(t)
    <3>1. M' = M \ {t} /\ W' = W /\ t \in M
      BY <2>4 DEF Modified
    <3> QED  BY <1>1, <2>4, <3>1 DEF Modified, CountInv
  <2>5. CASE LockToModify(t) \/ UnlockModified(t) \/ BroadcastModified(t)
    <3>1. M' = M /\ W' = W /\ modify' = modify /\ pipe' = pipe
      BY <2>5 DEF LockToModify, UnlockModified, BroadcastModified, Broadcast
    <3> QED  BY <1>2, <3>1
  <2> QED  BY <1>4, <2>1, <2>2, <2>3, <2>4, <2>5 DEF Notify
<1>5. CASE Close(t)
  <2>1. M' = M /\ W' = W /\ modify' = modify /\ pipe' = pipe
    BY <1>5 DEF Close, CloseLock, CloseUnlock, CloseBroadcast, CloseDevice, Broadcast
  <2> QED  BY <1>2, <2>1
<1>6. CASE Submit(t) \/ SubmitUrb(t) \/ Arm(t) \/ Returned(t) \/ PollFails(t) \/ DeviceAnswers(t)
  <2>1. M' = M /\ W' = W /\ modify' = modify /\ pipe' = pipe
    BY <1>6 DEF Submit, SubmitUrb, Arm, Returned, PollFails, DeviceAnswers
  <2> QED  BY <1>2, <2>1
<1>7. CASE HandleEvents(t)
  <2>1. CASE Begin(t) \/ Gate(t) \/ TryLock(t) \/ Copy(t) \/ Poll(t) \/ PollTimesOut(t)
    <3>1. M' = M /\ W' = W /\ modify' = modify /\ pipe' = pipe
      BY <2>1 DEF Begin, Gate, TryLock, Copy, Poll, PollTimesOut
    <3> QED  BY <1>2, <3>1
  <2>2. CASE \/ Disarm(t) \/ HandleRing(t) \/ Reap(t) \/ Complete(t) \/ BroadcastCompleted(t)
             \/ Unlock(t) \/ UnlockBroadcast(t)
    <3>1. M' = M /\ W' = W /\ modify' = modify /\ pipe' = pipe
      BY <2>2 DEF Disarm, HandleRing, Reap, Complete, BroadcastCompleted, Unlock, UnlockBroadcast,
                  Broadcast
    <3> QED  BY <1>2, <3>1
  <2> QED  BY <1>7, <2>1, <2>2 DEF HandleEvents
<1>8. CASE Wait(t)
  <2>1. M' = M /\ W' = W /\ modify' = modify /\ pipe' = pipe
    BY <1>8 DEF Wait, LockWaiters, Look, Wake, Waited, Relock, Overslept
  <2> QED  BY <1>2, <2>1
<1> QED  BY <1>3, <1>4, <1>5, <1>6, <1>7, <1>8 DEF Step

(* ... that only the holder of the lock polls, and what is open            *)
LEMMA PollStep ==
  ASSUME EventsInv, NEW t \in Threads, Step(t) \/ PollFails(t) \/ DeviceAnswers(t)
  PROVE  PollInv' /\ PolledIsOpen'
<1> /\ pc \in [Threads -> Labels]
    /\ polled \in [Threads -> SUBSET Threads] /\ todo \in [Threads -> SUBSET Threads]
    /\ PollInv /\ PolledIsOpen
  BY DEF EventsInv, TypeOK
<1> USE DEF PollInv, PolledIsOpen, Polling, At, Go, lockv, condv, fdv, timev, callv, envv
<1>1. CASE Open(t)
  BY <1>1 DEF Open
<1>2. CASE Notify(t)
  BY <1>2 DEF Notify, Modify, Write, LockToModify, Read, Modified, UnlockModified, BroadcastModified,
              Broadcast
<1>3. CASE Close(t)
  <2>1. CASE CloseLock(t) \/ CloseUnlock(t) \/ CloseBroadcast(t)
    BY <2>1 DEF CloseLock, CloseUnlock, CloseBroadcast, Broadcast
  <2>2. CASE CloseDevice(t)
    <3>1. \A u \in Threads : polled[u] = {} /\ todo[u] = {}
      BY <2>2 DEF CloseDevice, EventsInv, LockInv, Holding, Polling
    <3> QED  BY <2>2, <3>1 DEF CloseDevice
  <2> QED  BY <1>3, <2>1, <2>2 DEF Close
<1>4. CASE Submit(t) \/ SubmitUrb(t) \/ Arm(t) \/ Returned(t) \/ DeviceAnswers(t)
  BY <1>4 DEF Submit, SubmitUrb, Arm, Returned, DeviceAnswers
<1>5. CASE PollFails(t)
  BY <1>5 DEF PollFails
<1>6. CASE HandleEvents(t)
  <2>1. CASE Begin(t) \/ Gate(t) \/ TryLock(t)
    BY <2>1 DEF Begin, Gate, TryLock
  <2>2. CASE Copy(t)
    BY <2>2 DEF Copy
  <2>3. CASE Poll(t)
    BY <2>3 DEF Poll, Ready
  <2>4. CASE PollTimesOut(t)
    BY <2>4 DEF PollTimesOut
  <2>5. CASE Disarm(t) \/ HandleRing(t)
    BY <2>5 DEF Disarm, HandleRing
  <2>6. CASE Reap(t)
    BY <2>6 DEF Reap
  <2>7. CASE Complete(t)
    BY <2>7 DEF Complete
  <2>8. CASE BroadcastCompleted(t) \/ Unlock(t) \/ UnlockBroadcast(t)
    BY <2>8 DEF BroadcastCompleted, Unlock, UnlockBroadcast, Broadcast
  <2> QED  BY <1>6, <2>1, <2>2, <2>3, <2>4, <2>5, <2>6, <2>7, <2>8 DEF HandleEvents
<1>7. CASE Wait(t)
  BY <1>7 DEF Wait, LockWaiters, Look, Wake, Waited, Relock, Overslept
<1> QED  BY <1>1, <1>2, <1>3, <1>4, <1>5, <1>6, <1>7 DEF Step

(* ... the list of the transfers that are flying                           *)
LEMMA ListStep ==
  ASSUME EventsInv, NEW t \in Threads, Step(t) \/ PollFails(t) \/ DeviceAnswers(t)
  PROVE  flying' \in Seq(Threads) /\ due' \in [Threads -> Nat] /\ OnceOnList' /\ FlyingInOrder'
<1> /\ pc \in [Threads -> Labels] /\ flying \in Seq(Threads) /\ due \in [Threads -> Nat]
    /\ now \in Nat /\ limit \in [Threads -> Nat] /\ OnceOnList /\ FlyingInOrder
    /\ todo \in [Threads -> SUBSET Threads]
  BY SMTT(30), EventsAssumption DEF EventsInv, TypeOK, AnswerInv
<1> USE DEF At, Go, lockv, condv, fdv, timev, callv, envv
<1>1. ASSUME flying' = flying, due' = due
      PROVE  flying' \in Seq(Threads) /\ due' \in [Threads -> Nat] /\ OnceOnList' /\ FlyingInOrder'
  BY <1>1 DEF OnceOnList, FlyingInOrder
<1>2. CASE Open(t) \/ Notify(t) \/ SubmitUrb(t) \/ Arm(t) \/ Returned(t) \/ PollFails(t) \/ DeviceAnswers(t)
  <2>1. flying' = flying /\ due' = due
    BY <1>2 DEF Open, Notify, Modify, Write, LockToModify, Read, Modified, UnlockModified,
                BroadcastModified, Broadcast, SubmitUrb, Arm, Returned, PollFails, DeviceAnswers
  <2> QED  BY <1>1, <2>1
<1>3. CASE Close(t)
  <2>1. CASE CloseLock(t)
    <3>1. flying' = Without(t) /\ due' = due
      BY <2>1 DEF CloseLock
    <3> QED  BY <3>1, RemovedFromList
  <2>2. CASE CloseUnlock(t) \/ CloseBroadcast(t) \/ CloseDevice(t)
    <3>1. flying' = flying /\ due' = due
      BY <2>2 DEF CloseUnlock, CloseBroadcast, CloseDevice, Broadcast
    <3> QED  BY <1>1, <3>1
  <2> QED  BY <1>3, <2>1, <2>2 DEF Close
<1>4. CASE Submit(t)
  <2>1. ~Contains(flying, t)
    BY <1>4 DEF Submit, EventsInv, AnswerInv, Fresh, Opening
  <2> DEFINE d == IF limit[t] = 0 THEN 0 ELSE now + limit[t]
  <2>2. d \in Nat /\ flying' = Inserted(t, d) /\ due' = [due EXCEPT ![t] = d]
    BY <1>4 DEF Submit
  <2> HIDE DEF d
  <2>3. due' \in [Threads -> Nat]
    BY <2>2
  <2> QED  BY <2>1, <2>2, <2>3, InsertedInList
<1>5. CASE HandleEvents(t)
  <2>1. CASE Reap(t)
    <3>1. CASE \E u \in todo[t] : flying' = Without(u) /\ due' = due
      <4>1. PICK u \in Threads : flying' = Without(u) /\ due' = due
        BY <3>1
      <4> QED  BY <4>1, RemovedFromList
    <3>2. CASE flying' = flying /\ due' = due
      BY <1>1, <3>2
    <3> QED  BY <2>1, <3>1, <3>2 DEF Reap
  <2>2. CASE Begin(t) \/ Gate(t) \/ TryLock(t) \/ Copy(t) \/ Poll(t) \/ PollTimesOut(t) \/ Disarm(t)
    <3>1. flying' = flying /\ due' = due
      BY <2>2 DEF Begin, Gate, TryLock, Copy, Poll, PollTimesOut, Disarm
    <3> QED  BY <1>1, <3>1
  <2>3. CASE HandleRing(t) \/ Complete(t) \/ BroadcastCompleted(t) \/ Unlock(t) \/ UnlockBroadcast(t)
    <3>1. flying' = flying /\ due' = due
      BY <2>3 DEF HandleRing, Complete, BroadcastCompleted, Unlock, UnlockBroadcast, Broadcast
    <3> QED  BY <1>1, <3>1
  <2> QED  BY <1>5, <2>1, <2>2, <2>3 DEF HandleEvents
<1>6. CASE Wait(t)
  <2>1. flying' = flying /\ due' = due
    BY <1>6 DEF Wait, LockWaiters, Look, Wake, Waited, Relock, Overslept
  <2> QED  BY <1>1, <2>1
<1> QED  BY <1>2, <1>3, <1>4, <1>5, <1>6 DEF Step

(* ... where each transfer is                                              *)
LEMMA AnswerStep ==
  ASSUME EventsInv, NEW t \in Threads, Step(t) \/ PollFails(t) \/ DeviceAnswers(t)
  PROVE  AnswerInv'
<1> /\ pc \in [Threads -> Labels] /\ flying \in Seq(Threads) /\ due \in [Threads -> Nat]
    /\ io \in [Threads -> {"none", "flying", "ready"}] /\ completed \in [Threads -> BOOLEAN]
    /\ ret \in [Threads -> {"ok", "first", "error", "cancelled", "again"}]
    /\ todo \in [Threads -> SUBSET Threads] /\ AnswerInv /\ OnceOnList /\ FlyingInOrder
  BY DEF EventsInv, TypeOK, AnswerInv
<1> DEFINE Known(u) ==
      /\ Fresh(u) => io[u] = "none" /\ ~completed[u] /\ \A v \in Threads : u \notin todo[v]
      /\ io[u] = "none" /\ ~At(u, "submit_urb") => ~Contains(flying, u)
      /\ completed[u] => io[u] = "none"
      /\ pc[u] \in Closing \cup {"end"} => completed[u] \/ ret[u] = "again"
<1>1. OnceOnList'
  BY ListStep
<1>2. \A u \in Threads : Known(u)
  BY DEF AnswerInv
<1>3. SUFFICES \A u \in Threads : Known(u)'
  BY <1>1 DEF AnswerInv
<1> HIDE DEF AnswerInv
<1> USE <1>2 DEF Fresh, Opening, Closing, At, Go, lockv, condv, fdv, timev, callv, envv
<1>4. CASE Open(t)
  BY <1>4 DEF Open
<1>5. CASE Notify(t)
  <2>1. CASE Modify(t) \/ Write(t) \/ Read(t) \/ Modified(t)
    BY <2>1 DEF Modify, Write, Read, Modified
  <2>2. CASE LockToModify(t) \/ UnlockModified(t) \/ BroadcastModified(t)
    BY <2>2 DEF LockToModify, UnlockModified, BroadcastModified, Broadcast
  <2> QED  BY <1>5, <2>1, <2>2 DEF Notify
<1>6. CASE Close(t)
  <2>1. CASE CloseLock(t)
    <3>1. flying' = Without(t) /\ due' = due
      BY <2>1 DEF CloseLock
    <3>2. \A u \in Threads : Contains(flying', u) => Contains(flying, u)
      BY <3>1, RemovedFromList
    <3> QED  BY <2>1, <3>2 DEF CloseLock
  <2>2. CASE CloseUnlock(t) \/ CloseBroadcast(t) \/ CloseDevice(t)
    BY <2>2 DEF CloseUnlock, CloseBroadcast, CloseDevice, Broadcast
  <2> QED  BY <1>6, <2>1, <2>2 DEF Close
<1>7. CASE Submit(t)
  <2> DEFINE d == IF limit[t] = 0 THEN 0 ELSE now + limit[t]
  <2>1. d \in Nat /\ flying' = Inserted(t, d) /\ due' = [due EXCEPT ![t] = d] /\ ~Contains(flying, t)
    BY <1>7, EventsAssumption DEF Submit, EventsInv, TypeOK
  <2> HIDE DEF d
  <2>2. \A u \in Threads : Contains(flying', u) => u = t \/ Contains(flying, u)
    BY <2>1, InsertedInList
  <2> QED  BY <1>7, <2>2 DEF Submit
<1>8. CASE SubmitUrb(t) \/ Arm(t)
  BY <1>8 DEF SubmitUrb, Arm
<1>9. CASE HandleEvents(t)
  <2>1. CASE Begin(t)
    BY SMTT(30), <2>1 DEF Begin, HandleTimeouts
  <2>2. CASE Gate(t) \/ TryLock(t) \/ Copy(t)
    BY <2>2 DEF Gate, TryLock, Copy
  <2>3. CASE Poll(t)
    BY <2>3 DEF Poll, Ready
  <2>4. CASE PollTimesOut(t)
    BY <2>4 DEF PollTimesOut, HandleTimeouts
  <2>5. CASE Disarm(t) \/ HandleRing(t)
    BY <2>5 DEF Disarm, HandleRing, HandleTimeouts
  <2>6. CASE Reap(t)
    <3>1. CASE todo[t] = {} /\ Go(t, "unlock") /\ UNCHANGED <<io, flying, armed>>
      BY <2>6, <3>1 DEF Reap
    <3>2. CASE \E u \in todo[t] : io' = [io EXCEPT ![u] = "none"] /\ flying' = Without(u) /\ Go(t, "disarm")
      <4>1. PICK u \in Threads : /\ u \in todo[t] /\ io' = [io EXCEPT ![u] = "none"]
                                 /\ flying' = Without(u) /\ Go(t, "disarm")
        BY <3>2
      <4>2. due' = due /\ UNCHANGED <<todo, ret, completed>> /\ At(t, "reap")
        BY <2>6 DEF Reap
      <4>3. ~Contains(flying', u) /\ \A v \in Threads : Contains(flying', v) => Contains(flying, v)
        BY <4>1, <4>2, RemovedFromList
      <4> QED  BY <4>1, <4>2, <4>3
    <3> QED  BY <2>6, <3>1, <3>2 DEF Reap
  <2>7. CASE Complete(t)
    BY <2>7 DEF Complete
  <2>8. CASE BroadcastCompleted(t) \/ Unlock(t) \/ UnlockBroadcast(t)
    BY <2>8 DEF BroadcastCompleted, Unlock, UnlockBroadcast, Broadcast
  <2> QED  BY <1>9, <2>1, <2>2, <2>3, <2>4, <2>5, <2>6, <2>7, <2>8 DEF HandleEvents
<1>10. CASE Wait(t)
  <2>1. CASE LockWaiters(t) \/ Look(t) \/ Wake(t)
    BY <2>1 DEF LockWaiters, Look, Wake
  <2>2. CASE Waited(t) \/ Relock(t) \/ Overslept(t)
    BY <2>2 DEF Waited, Relock, Overslept, HandleTimeouts
  <2> QED  BY <1>10, <2>1, <2>2 DEF Wait
<1>11. CASE Returned(t)
  BY SMTT(30), <1>11 DEF Returned, GivesUp
<1>12. CASE PollFails(t)
  BY <1>12 DEF PollFails
<1>13. CASE DeviceAnswers(t)
  BY <1>13 DEF DeviceAnswers
<1> QED  BY <1>4, <1>5, <1>6, <1>7, <1>8, <1>9, <1>10, <1>11, <1>12, <1>13 DEF Step

(* ... and the types.                                                       *)
LEMMA NextDueType ==
  ASSUME due \in [Threads -> Nat], NEW list \in Seq(Threads), NEW handled
  PROVE  NextDue(list, handled) \in Nat
<1>1. DOMAIN list \in SUBSET Nat /\ \A i \in DOMAIN list : list[i] \in Threads
  BY LenProperties, ElementOfSeq
<1>2. CASE Waiting(list, handled) = {}
  BY <1>2 DEF NextDue
<1>3. CASE Waiting(list, handled) # {}
  <2>1. Waiting(list, handled) \in SUBSET Nat /\ Waiting(list, handled) \subseteq DOMAIN list
    BY <1>1 DEF Waiting
  <2>2. Min(Waiting(list, handled)) \in DOMAIN list
    BY <1>3, <2>1, MinProperties
  <2> QED  BY <1>1, <1>3, <2>2 DEF NextDue
<1> QED  BY <1>2, <1>3

LEMMA ArmedType ==
  ASSUME due \in [Threads -> Nat], armed \in Nat, NEW list \in Seq(Threads), NEW handled
  PROVE  Armed(list, handled) \in Nat
BY NextDueType DEF Armed

LEMMA OverdueType ==
  ASSUME flying \in Seq(Threads)
  PROVE  Overdue \subseteq Threads
<1> DEFINE late == {i \in DOMAIN flying : flying[i] \notin timed_out /\ ~Expired(flying[i])}
           p == Min(late \cup {Len(flying) + 1})
<1>1. Len(flying) \in Nat /\ DOMAIN flying = 1 .. Len(flying)
  BY LenProperties
<1>2. p \in late \cup {Len(flying) + 1}
  <2>1. late \cup {Len(flying) + 1} \in SUBSET Nat
    BY <1>1
  <2> QED  BY <2>1, MinProperties
<1>3. p \in 1 .. Len(flying) + 1
  BY <1>1, <1>2
<1> HIDE DEF p
<1>4. {flying[i] : i \in 1 .. p - 1} \subseteq Threads
  BY <1>1, <1>3, ElementOfSeq
<1> QED  BY <1>4 DEF Overdue, p

LEMMA TypeStep ==
  ASSUME EventsInv, NEW t \in Threads, Step(t) \/ PollFails(t) \/ DeviceAnswers(t)
  PROVE  TypeOK'
<1> DEFINE Rest ==
      /\ owner \in Threads \cup {NoThread} /\ active \in BOOLEAN
      /\ waiters \in Threads \cup {NoThread} /\ sleeping \subseteq Threads /\ event \subseteq Threads
      /\ pollfds \subseteq Threads /\ opened \subseteq Threads
      /\ polled \in [Threads -> SUBSET Threads] /\ todo \in [Threads -> SUBSET Threads]
      /\ wake \in [Threads -> Nat]
      /\ ret \in [Threads -> {"ok", "first", "error", "cancelled", "again"}]
      /\ io \in [Threads -> {"none", "flying", "ready"}] /\ completed \in [Threads -> BOOLEAN]
      /\ timed_out \subseteq Threads /\ armed \in Nat /\ now \in 1 .. MaxNow
<1>1. TypeOK /\ Rest
  BY DEF EventsInv, TypeOK
<1>2. Rest'
  <2> SUFFICES ASSUME Rest  PROVE Rest'
    BY <1>1
  <2> flying \in Seq(Threads) /\ due \in [Threads -> Nat]
    BY <1>1 DEF TypeOK
  <2>1. Overdue \subseteq Threads
    BY OverdueType
  <2> USE DEF At, Go, lockv, condv, fdv, timev, callv, envv
  <2>2. CASE Open(t)
    BY <2>2 DEF Open
  <2>3. CASE Notify(t)
    <3>1. CASE Modify(t) \/ Write(t) \/ Read(t) \/ Modified(t)
      BY <3>1 DEF Modify, Write, Read, Modified
    <3>2. CASE LockToModify(t) \/ UnlockModified(t)
      BY <3>2 DEF LockToModify, LockEvents, UnlockModified, UnlockEvents, Release
    <3>3. CASE BroadcastModified(t)
      BY <3>3 DEF BroadcastModified, Broadcast
    <3> QED  BY <2>3, <3>1, <3>2, <3>3 DEF Notify
  <2>4. CASE Close(t)
    <3>1. CASE CloseLock(t) \/ CloseUnlock(t)
      BY <3>1 DEF CloseLock, LockEvents, CloseUnlock, UnlockEvents, Release
    <3>2. CASE CloseBroadcast(t) \/ CloseDevice(t)
      BY <3>2 DEF CloseBroadcast, Broadcast, CloseDevice
    <3> QED  BY <2>4, <3>1, <3>2 DEF Close
  <2>5. CASE Submit(t) \/ SubmitUrb(t) \/ Arm(t)
    <3>1. CASE Submit(t)
      <4>1. UNCHANGED <<lockv, condv, fdv, timed_out, armed, wake, io, completed, envv>>
        BY <3>1 DEF Submit
      <4>2. \E r \in {"first", "ok"} : ret' = [ret EXCEPT ![t] = r]
        BY <3>1 DEF Submit
      <4> QED  BY <4>1, <4>2
    <3>2. CASE SubmitUrb(t)
      BY <3>2 DEF SubmitUrb
    <3>3. CASE Arm(t)
      BY <3>3 DEF Arm
    <3> QED  BY <2>5, <3>1, <3>2, <3>3
  <2>6. CASE HandleEvents(t)
    <3>1. CASE Begin(t)
      <4>1. NextDue(flying, timed_out) \in Nat
        BY NextDueType
      <4>2. CASE HandleTimeouts /\ UNCHANGED wake
        BY <2>1, <3>1, <4>2 DEF Begin, HandleTimeouts
      <4>3. CASE /\ \E next \in {NextDue(flying, timed_out), 0} : wake' = [wake EXCEPT ![t] = next]
                 /\ UNCHANGED <<timed_out, io>>
        BY <3>1, <4>1, <4>3 DEF Begin
      <4> QED  BY <3>1, <4>2, <4>3 DEF Begin
    <3>2. CASE Gate(t) \/ TryLock(t) \/ Copy(t)
      BY <3>2 DEF Gate, TryLock, LockEvents, Copy
    <3>3. CASE Poll(t)
      BY <3>3 DEF Poll, Ready
    <3>4. CASE PollTimesOut(t)
      BY <2>1, <3>4 DEF PollTimesOut, HandleTimeouts
    <3>5. CASE Disarm(t)
      BY <3>5 DEF Disarm
    <3>6. CASE HandleRing(t)
      BY <2>1, <3>6, ArmedType DEF HandleRing, HandleTimeouts
    <3>7. CASE Reap(t)
      <4>1. CASE todo[t] = {} /\ Go(t, "unlock") /\ polled' = [polled EXCEPT ![t] = {}]
                 /\ UNCHANGED <<io, flying, armed>>
        BY <3>7, <4>1 DEF Reap
      <4>2. CASE \E u \in todo[t] :
                   /\ io' = [io EXCEPT ![u] = "none"] /\ flying' = Without(u)
                   /\ armed' = IF mode = "timerfd" THEN Armed(Without(u), timed_out) ELSE armed
                   /\ Go(t, "disarm") /\ UNCHANGED polled
        <5>1. PICK u \in Threads :
                   /\ io' = [io EXCEPT ![u] = "none"] /\ flying' = Without(u)
                   /\ armed' = IF mode = "timerfd" THEN Armed(Without(u), timed_out) ELSE armed
                   /\ Go(t, "disarm") /\ UNCHANGED polled
          BY <4>2
        <5>2. Without(u) \in Seq(Threads)
          BY <5>1, <3>7, ListStep
        <5>3. armed' \in Nat
          BY <5>1, <5>2, ArmedType
        <5>4. UNCHANGED <<lockv, condv, pollfds, opened, todo, due, timed_out, wake, ret, completed, envv>>
          BY <3>7 DEF Reap
        <5> QED  BY <5>1, <5>3, <5>4
      <4> QED  BY <3>7, <4>1, <4>2 DEF Reap
    <3>8. CASE Complete(t)
      BY <3>8 DEF Complete
    <3>9. CASE BroadcastCompleted(t) \/ UnlockBroadcast(t)
      BY <3>9 DEF BroadcastCompleted, UnlockBroadcast, Broadcast
    <3>10. CASE Unlock(t)
      BY <3>10 DEF Unlock, UnlockEvents, Release
    <3> QED  BY <2>6, <3>1, <3>2, <3>3, <3>4, <3>5, <3>6, <3>7, <3>8, <3>9, <3>10 DEF HandleEvents
  <2>7. CASE Wait(t)
    <3>1. CASE LockWaiters(t) \/ Look(t) \/ Wake(t)
      BY <3>1 DEF LockWaiters, Look, Wake
    <3>2. CASE Waited(t) \/ Relock(t)
      BY <3>2 DEF Waited, Relock
    <3>3. CASE Overslept(t)
      BY <2>1, <3>3 DEF Overslept, HandleTimeouts
    <3> QED  BY <2>7, <3>1, <3>2, <3>3 DEF Wait
  <2>8. CASE Returned(t) \/ PollFails(t) \/ DeviceAnswers(t)
    <3>1. CASE Returned(t)
      <4>1. UNCHANGED <<lockv, condv, fdv, timev, wake, completed, envv>>
        BY <3>1 DEF Returned
      <4>2. io' = io \/ \E i \in {"ready", io[t]} : io' = [io EXCEPT ![t] = i]
        BY <3>1 DEF Returned
      <4>3. ret' = ret \/ ret' = [ret EXCEPT ![t] = "cancelled"]
        BY <3>1 DEF Returned
      <4>4. io' \in [Threads -> {"none", "flying", "ready"}]
        BY <4>2
      <4> QED  BY <4>1, <4>3, <4>4
    <3>2. CASE PollFails(t)
      BY <3>2 DEF PollFails
    <3>3. CASE DeviceAnswers(t)
      BY <3>3 DEF DeviceAnswers
    <3> QED  BY <2>8, <3>1, <3>2, <3>3
  <2> QED  BY <2>2, <2>3, <2>4, <2>5, <2>6, <2>7, <2>8 DEF Step
<1>3. flying' \in Seq(Threads) /\ due' \in [Threads -> Nat]
  BY ListStep
<1>4. modify' \in 0 .. Cardinality(Threads) /\ pipe' \in 0 .. Cardinality(Threads)
  <2>1. CountInv'
    BY CountStep
  <2>2. \A S \in SUBSET Threads : Cardinality(S) \in 0 .. Cardinality(Threads)
    BY EventsAssumption, FS_Subset, FS_CardinalityType
  <2> QED  BY <2>1, <2>2 DEF CountInv
<1>5. \E s \in Settings : /\ mode' = s.mode /\ cond' = s.cond /\ limit' = s.limit
                         /\ errors' \in 0 .. s.errors
  <2> PICK s \in Settings : /\ mode = s.mode /\ cond = s.cond /\ limit = s.limit
                            /\ errors \in 0 .. s.errors
    BY <1>1 DEF TypeOK
  <2> s.errors \in Nat
    BY EventsAssumption
  <2>1. mode' = mode /\ cond' = cond /\ limit' = limit
        /\ (errors' = errors \/ (errors > 0 /\ errors' = errors - 1))
    <3> USE DEF envv
    <3>1. CASE Open(t) \/ Notify(t) \/ Close(t)
      BY <3>1 DEF Open, Notify, Modify, Write, LockToModify, Read, Modified, UnlockModified,
                  BroadcastModified, Broadcast, Close, CloseLock, CloseUnlock, CloseBroadcast, CloseDevice
    <3>2. CASE Submit(t) \/ SubmitUrb(t) \/ Arm(t) \/ Returned(t) \/ PollFails(t) \/ DeviceAnswers(t)
      BY <3>2 DEF Submit, SubmitUrb, Arm, Returned, PollFails, DeviceAnswers
    <3>3. CASE HandleEvents(t)
      BY <3>3 DEF HandleEvents, Begin, Gate, TryLock, Copy, Poll, PollTimesOut, Disarm, HandleRing, Reap,
                  Complete, BroadcastCompleted, Unlock, UnlockBroadcast, Broadcast
    <3>4. CASE Wait(t)
      BY <3>4 DEF Wait, LockWaiters, Look, Wake, Waited, Relock, Overslept
    <3> QED  BY <3>1, <3>2, <3>3, <3>4 DEF Step
  <2> QED  BY <2>1
<1>7. pc' \in [Threads -> Labels]
  <2> pc \in [Threads -> Labels]
    BY <1>1 DEF TypeOK
  <2> USE DEF Go, Labels, Opening, Closing, Holding, Polling
  <2>1. CASE Open(t) \/ Notify(t) \/ Close(t)
    BY <2>1 DEF Open, Notify, Modify, Write, LockToModify, Read, Modified, UnlockModified,
                BroadcastModified, Broadcast, Close, CloseLock, CloseUnlock, CloseBroadcast, CloseDevice
  <2>2. CASE Submit(t) \/ SubmitUrb(t) \/ Arm(t) \/ Returned(t) \/ PollFails(t) \/ DeviceAnswers(t)
    BY <2>2 DEF Submit, SubmitUrb, Arm, Returned, PollFails, DeviceAnswers
  <2>3. CASE HandleEvents(t)
    BY <2>3 DEF HandleEvents, Begin, Gate, TryLock, Copy, Poll, PollTimesOut, Disarm, HandleRing, Reap,
                Complete, BroadcastCompleted, Unlock, UnlockBroadcast, Broadcast
  <2>4. CASE Wait(t)
    BY <2>4 DEF Wait, LockWaiters, Look, Wake, Waited, Relock, Overslept
  <2> QED  BY <2>1, <2>2, <2>3, <2>4 DEF Step
<1>6. depth' \in 0 .. 2 /\ (depth' = 0 <=> owner' = NoThread)
  BY LockStep
<1> HIDE DEF Rest
<1> QED  BY <1>2, <1>3, <1>4, <1>5, <1>6, <1>7 DEF TypeOK, Rest

(* The invariant holds at first, and every step keeps it.                   *)
LEMMA EventsInit == Init => EventsInv
<1> SUFFICES ASSUME Init  PROVE EventsInv
  OBVIOUS
<1> PICK s \in Settings : mode = s.mode /\ cond = s.cond /\ limit = s.limit /\ errors = s.errors
  BY DEF Init
<1> s.errors \in Nat
  BY EventsAssumption
<1>1. /\ {t \in Threads : pc[t] \in Modifying} = {} /\ {t \in Threads : pc[t] \in Writing} = {}
      /\ \A t \in Threads : pc[t] = "open"
  BY DEF Init, Modifying, Writing
<1>2. <<>> \in Seq(Threads) /\ DOMAIN <<>> = {} /\ \A t \in Threads : ~Contains(<<>>, t)
  BY DEF Contains
<1>3. Cardinality({}) = 0 /\ Cardinality(Threads) \in Nat
  BY EventsAssumption, FS_EmptySet, FS_CardinalityType
<1>4. TypeOK
  <2>1. /\ pc \in [Threads -> Labels] /\ polled \in [Threads -> SUBSET Threads]
        /\ todo \in [Threads -> SUBSET Threads] /\ wake \in [Threads -> Nat]
        /\ ret \in [Threads -> {"ok", "first", "error", "cancelled", "again"}]
        /\ io \in [Threads -> {"none", "flying", "ready"}] /\ completed \in [Threads -> BOOLEAN]
        /\ due \in [Threads -> Nat]
    BY DEF Init, Labels, Opening
  <2>2. now \in 1 .. MaxNow /\ modify \in 0 .. Cardinality(Threads) /\ pipe \in 0 .. Cardinality(Threads)
    BY EventsAssumption, <1>3 DEF Init
  <2>3. flying \in Seq(Threads)
    BY <1>2 DEF Init
  <2>4. \E r \in Settings : mode = r.mode /\ cond = r.cond /\ limit = r.limit /\ errors \in 0 .. r.errors
    OBVIOUS
  <2>5. /\ owner \in Threads \cup {NoThread} /\ (depth = 0 <=> owner = NoThread)
        /\ depth \in 0 .. 2 /\ waiters \in Threads \cup {NoThread} /\ sleeping \subseteq Threads
        /\ event \subseteq Threads /\ pollfds \subseteq Threads /\ opened \subseteq Threads
        /\ timed_out \subseteq Threads /\ armed \in Nat
    BY DEF Init
  <2>6. active \in BOOLEAN
    BY DEF Init
  <2> QED  BY <2>1, <2>2, <2>3, <2>4, <2>5, <2>6 DEF TypeOK
<1>5. PolledIsOpen /\ PollInv /\ FlyingInOrder /\ OnceOnList
  BY <1>2 DEF Init, PolledIsOpen, PollInv, FlyingInOrder, OnceOnList
<1>6. LockInv
  BY <1>1, EventsAssumption DEF Init, LockInv, Holding, Polling
<1>7. CountInv
  BY <1>1, <1>3 DEF Init, CountInv
<1>8. AnswerInv
  BY <1>1, <1>2, <1>5 DEF Init, AnswerInv, Closing
<1> QED  BY <1>4, <1>5, <1>6, <1>7, <1>8 DEF EventsInv

LEMMA EventsStep == EventsInv /\ [Next]_vars => EventsInv'
<1> SUFFICES ASSUME EventsInv, [Next]_vars  PROVE EventsInv'
  OBVIOUS
<1>1. ASSUME UNCHANGED <<pc, lockv, condv, fdv, timev, callv>>, UNCHANGED <<mode, cond, limit, errors>>,
             now' \in 1 .. MaxNow
      PROVE  EventsInv'
  <2> USE DEF lockv, condv, fdv, timev, callv
  <2>1. TypeOK'
    BY <1>1 DEF EventsInv, TypeOK
  <2>2. PolledIsOpen' /\ PollInv'
    BY <1>1 DEF EventsInv, PolledIsOpen, PollInv, At
  <2>3. FlyingInOrder' /\ OnceOnList'
    BY <1>1 DEF EventsInv, AnswerInv, FlyingInOrder, OnceOnList
  <2>4. LockInv' /\ CountInv'
    BY <1>1 DEF EventsInv, LockInv, CountInv, At
  <2>5. AnswerInv'
    BY <1>1, <2>3 DEF EventsInv, AnswerInv, At, Fresh
  <2> QED  BY <2>1, <2>2, <2>3, <2>4, <2>5 DEF EventsInv
<1>2. CASE UNCHANGED vars
  BY <1>1, <1>2 DEF vars, envv, EventsInv, TypeOK
<1>3. CASE Tick
  <2>1. UNCHANGED <<pc, lockv, condv, fdv, timev, callv>> /\ UNCHANGED <<mode, cond, limit, errors>>
    BY <1>3 DEF Tick
  <2>2. now' \in 1 .. MaxNow
    BY <1>3, EventsAssumption DEF Tick, EventsInv, TypeOK
  <2> QED  BY <1>1, <2>1, <2>2
<1>4. ASSUME NEW t \in Threads, Step(t) \/ PollFails(t) \/ DeviceAnswers(t)  PROVE EventsInv'
  BY <1>4, TypeStep, PollStep, ListStep, LockStep, CountStep, AnswerStep DEF EventsInv
<1> QED  BY <1>2, <1>3, <1>4 DEF Next

LEMMA EventsInvariant == Spec => []EventsInv
BY EventsInit, EventsStep, PTL DEF Spec

(* The events lock keeps the descriptors that a thread polls open, and the *)
(* list of flying transfers stays in the order of their timeouts, for any  *)
(* number of threads.                                                      *)
THEOREM OpenAndOrderedCorrect == Spec => []OpenAndOrdered
<1>1. EventsInv => OpenAndOrdered
  BY DEF EventsInv, OpenAndOrdered
<1> QED  BY <1>1, EventsInvariant, PTL

(* A thread that frees its transfer has had its answer, or has given up    *)
(* with a second error, for any number of threads and of errors of poll(). *)
THEOREM FreedIsAnsweredCorrect == Spec => []FreedIsAnswered
<1>1. EventsInv => FreedIsAnswered
  <2> SUFFICES ASSUME EventsInv, NEW t \in Threads, pc[t] \in Closing \cup {"end"}, ret[t] # "again"
               PROVE  io[t] = "none" /\ ~Contains(flying, t)
    BY DEF FreedIsAnswered
  <2>1. completed[t] /\ io[t] = "none" /\ ~At(t, "submit_urb")
    BY DEF EventsInv, AnswerInv, At, Closing
  <2> QED  BY <2>1 DEF EventsInv, AnswerInv
<1> QED  BY <1>1, EventsInvariant, PTL
=============================================================================
