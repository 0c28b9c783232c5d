-------------------------- MODULE UsbDevicesProofs --------------------------
(***************************************************************************)
(* Theorems about UsbDevices, for any number of threads and objects and    *)
(* any tree of at most three levels, where the threads take turns (Serial: *)
(* the run UsbDevicesRace shows that the counts need it); and, at the end, *)
(* about WinContext: contexts, and the backend that they share.            *)
(***************************************************************************)
EXTENDS UsbDevices, WinContext, FiniteSetTheorems, SequenceTheorems, WellFoundedInduction, TLAPS

(***************************************************************************)
(* What is known of the objects, and of the threads while they enumerate   *)
(***************************************************************************)

\* Labels at which an entry is being read, and at which references are given up.
Reading == {"alloc", "initialize", "append", "append_new"}
Leaving == {"drop", "destroy"}

\* Thread t is between the first entry of an enumeration and its end.
Busy(t) == pc[t] \in Reading \cup {"scan", "deliver"} \/ entry[t][1] # NoDir

\* One thread at a time is in a call.
Turns == \A t, u \in Threads : pc[t] # "idle" /\ pc[u] # "idle" => t = u

\* The entry and the object that a thread has at hand.
AtHand(t) ==
  /\ pc[t] \in Reading => entry[t][1] # NoDir
  /\ entry[t][1] # NoDir => pc[t] \in Reading \cup Leaving
  /\ pc[t] \in Reading \ {"alloc"} =>
       dev[t] \in Objs /\ heap[dev[t]] # Free /\ heap[dev[t]].session = entry[t][2]
  /\ pc[t] = "destroy" => heap[Head(drop[t])] # Free /\ heap[Head(drop[t])].refcnt = 0

AtHandInv == \A t \in Threads : AtHand(t)

\* What a thread does not have at a place, so that nothing is lost there.
Empty(t) ==
  /\ pc[t] \notin Leaving => drop[t] = <<>>
  /\ pc[t] = "destroy" => drop[t] # <<>>
  /\ pc[t] \in {"path", "vid_pid"} => goal[t] = pc[t]
  /\ Busy(t) /\ goal[t] = "list" => list[t] = <<>>
  /\ (Busy(t) \/ pc[t] = "vid_pid") /\ goal[t] = "vid_pid" => handle[t] = NoObj
  /\ ~Busy(t) /\ pc[t] \notin {"path", "vid_pid"} => discdevs[t] = <<>>

EmptyInv == \A t \in Threads : Empty(t)

\* The objects that are alive are those on the list, each once.
HeapInv ==
  /\ \A o \in Objs : heap[o] # Free => heap[o].session \in 1 .. MaxAddr /\ heap[o].dir \in Dirs
  /\ \A o \in Objs : heap[o] # Free <=> \E i \in DOMAIN usb_devs : usb_devs[i] = o
  /\ \A i, j \in DOMAIN usb_devs : usb_devs[i] = usb_devs[j] => i = j

HeldInv == CountsMatch /\ \A o \in Objs : Held(o) > 0 => heap[o] # Free

RefsInv == TypeOK /\ Turns /\ AtHandInv /\ EmptyInv /\ HeapInv /\ HeldInv

\* Places with the numbers that are known for them: a number is given to one place.
Seen ==
  Attached \cup {<<heap[o].dir, heap[o].session>> : o \in {q \in Objs : heap[q] # Free}}
  \cup (UNION {todo[t] : t \in Threads}) \cup {entry[t] : t \in {u \in Threads : entry[u][1] # NoDir}}

SeenInv ==
  /\ \A x \in Seen : x[2] \in 1 .. next_addr - 1
  /\ \A x, y \in Seen : x[2] = y[2] => x[1] = y[1]

\* A root hub is never unplugged.
RootsInv == \A d \in RootHubs : addr[d] # 0

\* What there is to be read, and what has been there since the directory was opened.
There(t) ==
  /\ there[t] \subseteq Attached /\ buses[t] \subseteq RootHubs
  /\ mode # "usbfs" => buses[t] = {}
  /\ At(t, "deliver") => todo[t] = {} /\ buses[t] = {}

\* The places that thread t has yet to read: on buses not yet opened, or entries.
Within(t) == UNION {Behind(h) : h \in buses[t]}
Left(t) == {x[1] : x \in todo[t]} \cup Within(t)
FoundAt(t, i) == heap[discdevs[t][i]].dir

\* No place is read twice.
Once(t) ==
  /\ \A x, y \in todo[t] : x[1] = y[1] => x = y
  /\ \A x \in todo[t] : x[1] \notin Within(t)
  /\ pc[t] \in Reading => entry[t][1] \notin Left(t)
  /\ \A i \in DOMAIN discdevs[t] : FoundAt(t, i) \notin Left(t) /\ (pc[t] \in Reading => FoundAt(t, i) # entry[t][1])
  /\ \A i, j \in DOMAIN discdevs[t] : FoundAt(t, i) = FoundAt(t, j) => i = j

CanRead(x) == mode = "sysfs" \/ x[1] \notin Sealed
Listed(t, x) == \E i \in DOMAIN discdevs[t] : heap[discdevs[t][i]].session = x[2]
ToBeRead(t, x) == x \in todo[t] \/ (pc[t] \in Reading /\ entry[t] = x)

\* What has been there all the time has been read, or will be.
Complete(t) ==
  /\ \A x \in there[t] : CanRead(x) =>
       Listed(t, x) \/ ToBeRead(t, x) \/ x[1] \in Within(t) \/ (At(t, "deliver") /\ ~r[t])
  /\ mode = "sysfs" => r[t] \/ \E x \in there[t] : x[1] \in RootHubs /\ ToBeRead(t, x)

InOrder(t) == There(t) /\ Once(t) /\ Complete(t)
BusyInv == \A t \in Threads : Busy(t) => InOrder(t)

ListInv == SeenInv /\ RootsInv /\ BusyInv

-----------------------------------------------------------------------------
(* Sequences: how often an object is in one.                               *)

LEMMA TimesType ==
  ASSUME NEW S, NEW s \in Seq(S), NEW o
  PROVE  /\ Len(s) \in Nat /\ DOMAIN s = 1 .. Len(s) /\ \A i \in DOMAIN s : s[i] \in S
         /\ Positions(o, s) \subseteq 1 .. Len(s)
         /\ IsFiniteSet(Positions(o, s)) /\ Times(o, s) \in Nat
<1>1. Len(s) \in Nat /\ DOMAIN s = 1 .. Len(s) /\ \A i \in 1 .. Len(s) : s[i] \in S
  BY LenProperties, ElementOfSeq
<1>2. Positions(o, s) \in SUBSET (1 .. Len(s)) BY <1>1 DEF Positions
<1>3. IsFiniteSet(1 .. Len(s)) BY <1>1, FS_Interval
<1>4. IsFiniteSet(Positions(o, s)) BY <1>2, <1>3, FS_Subset
<1>5. QED BY <1>1, <1>2, <1>4, FS_CardinalityType DEF Times

LEMMA TimesEmpty == ASSUME NEW o PROVE Positions(o, <<>>) = {} /\ Times(o, <<>>) = 0
<1>1. Positions(o, <<>>) = {} BY DEF Positions
<1>2. QED BY <1>1, FS_EmptySet DEF Times

LEMMA TimesAppend ==
  ASSUME NEW S, NEW s \in Seq(S), NEW x \in S, NEW o
  PROVE  Append(s, x) \in Seq(S) /\ Times(o, Append(s, x)) = Times(o, s) + (IF x = o THEN 1 ELSE 0)
<1> DEFINE P == Positions(o, s)
<1>1. /\ Append(s, x) \in Seq(S) /\ Len(Append(s, x)) = Len(s) + 1
      /\ \A i \in 1 .. Len(s) : Append(s, x)[i] = s[i]
      /\ Append(s, x)[Len(s) + 1] = x
  BY AppendProperties
<1>2. /\ Len(s) \in Nat /\ DOMAIN s = 1 .. Len(s) /\ DOMAIN Append(s, x) = 1 .. Len(s) + 1
      /\ IsFiniteSet(P) /\ Times(o, s) \in Nat /\ Len(s) + 1 \notin P
  BY <1>1, TimesType, LenProperties
<1>3. Positions(o, Append(s, x)) = IF x = o THEN P \cup {Len(s) + 1} ELSE P
  BY <1>1, <1>2 DEF Positions
<1> HIDE DEF P
<1>4. Cardinality(P \cup {Len(s) + 1}) = Cardinality(P) + 1 BY <1>2, FS_AddElement
<1>5. QED BY <1>1, <1>2, <1>3, <1>4 DEF Times, P

LEMMA TimesOne ==
  ASSUME NEW x, NEW o
  PROVE  <<x>> \in Seq({x}) /\ Times(o, <<x>>) = IF x = o THEN 1 ELSE 0
<1>1. Positions(o, <<x>>) = IF x = o THEN {1} ELSE {} BY DEF Positions
<1>2. QED BY <1>1, FS_Singleton, FS_EmptySet DEF Times

LEMMA TimesTail ==
  ASSUME NEW S, NEW s \in Seq(S), s # <<>>, NEW o
  PROVE  /\ Head(s) \in S /\ Tail(s) \in Seq(S)
         /\ Times(o, s) = Times(o, Tail(s)) + (IF Head(s) = o THEN 1 ELSE 0)
<1> DEFINE B == Positions(o, s) \ {1}
           f == [k \in Positions(o, Tail(s)) |-> k + 1]
<1>1. /\ Len(s) \in Nat /\ DOMAIN s = 1 .. Len(s) /\ Len(s) >= 1 /\ Head(s) = s[1] /\ Head(s) \in S
      /\ Tail(s) \in Seq(S) /\ DOMAIN Tail(s) = 1 .. Len(s) - 1 /\ \A k \in 1 .. Len(s) - 1 : Tail(s)[k] = s[k + 1]
  <2>1. Len(s) \in Nat /\ DOMAIN s = 1 .. Len(s) /\ Len(s) # 0 BY LenProperties, EmptySeq
  <2>2. /\ Tail(s) \in Seq(S) /\ Len(Tail(s)) = Len(s) - 1 /\ Head(s) = s[1] /\ Head(s) \in S
        /\ \A k \in 1 .. Len(Tail(s)) : Tail(s)[k] = s[k + 1]
    BY HeadTailProperties
  <2>3. QED BY <2>1, <2>2, LenProperties
<1>2. \A k \in Positions(o, Tail(s)) : k \in 1 .. Len(s) - 1 /\ k + 1 \in B BY <1>1 DEF Positions
<1>3. f \in Bijection(Positions(o, Tail(s)), B)
  <2>1. \A k \in B : k - 1 \in Positions(o, Tail(s)) /\ f[k - 1] = k BY <1>1 DEF Positions
  <2>2. \A j, k \in Positions(o, Tail(s)) : f[j] = f[k] => j = k BY <1>2
  <2>3. f \in [Positions(o, Tail(s)) -> B] BY <1>2
  <2> HIDE DEF f, B
  <2>4. QED BY <2>1, <2>2, <2>3 DEF Bijection, Injection, Surjection, IsInjective
<1>4. IsFiniteSet(Positions(o, Tail(s))) /\ IsFiniteSet(Positions(o, s)) /\ Times(o, s) \in Nat
  BY <1>1, TimesType
<1>5. Cardinality(B) = Times(o, Tail(s))
  <2>1. ExistsBijection(Positions(o, Tail(s)), B) BY <1>3 DEF ExistsBijection
  <2> HIDE DEF B, f
  <2>2. QED BY <1>4, <2>1, FS_Bijection DEF Times
<1>6. Cardinality(B) = IF 1 \in Positions(o, s) THEN Times(o, s) - 1 ELSE Times(o, s)
  BY <1>4, FS_RemoveElement DEF Times
<1>7. 1 \in Positions(o, s) <=> Head(s) = o BY <1>1 DEF Positions
<1>8. QED BY <1>1, <1>4, <1>5, <1>6, <1>7

\* An object has no place in a sequence only if it is not in it.
LEMMA TimesPositive ==
  ASSUME NEW S, NEW s \in Seq(S), NEW i \in DOMAIN s
  PROVE  Times(s[i], s) > 0
<1>1. IsFiniteSet(Positions(s[i], s)) /\ Times(s[i], s) \in Nat BY TimesType
<1>2. i \in Positions(s[i], s) BY DEF Positions
<1>3. QED BY <1>1, <1>2, FS_EmptySet DEF Times

LEMMA RemoveAtProperties ==
  ASSUME NEW S, NEW s \in Seq(S), NEW p \in 1 .. Len(s)
  PROVE  /\ RemoveAt(s, p) \in Seq(S)
         /\ Len(RemoveAt(s, p)) = Len(s) - 1
         /\ \A k \in 1 .. Len(s) - 1 : RemoveAt(s, p)[k] = IF k < p THEN s[k] ELSE s[k + 1]
<1> DEFINE front == SubSeq(s, 1, p - 1)  back == SubSeq(s, p + 1, Len(s))
<1>1. Len(s) \in Nat /\ \A i \in 1 .. Len(s) : s[i] \in S
  BY ElementOfSeq, LenProperties
<1>2. front \in Seq(S) /\ Len(front) = p - 1 /\ \A i \in 1 .. p - 1 : front[i] = s[i]
  <2>1. \A i \in 1 .. p - 1 : s[i] \in S
    BY <1>1
  <2> QED  BY <1>1, <2>1, SubSeqProperties
<1>3. back \in Seq(S) /\ Len(back) = Len(s) - p /\ \A i \in 1 .. Len(s) - p : back[i] = s[p + i]
  <2>1. \A i \in p + 1 .. Len(s) : s[i] \in S
    BY <1>1
  <2>2. /\ back \in Seq(S) /\ Len(back) = IF p + 1 <= Len(s) THEN Len(s) - (p + 1) + 1 ELSE 0
        /\ \A i \in 1 .. Len(s) - (p + 1) + 1 : back[i] = s[p + 1 + i - 1]
    BY <1>1, <2>1, SubSeqProperties
  <2> QED  BY <1>1, <2>2
<1> HIDE DEF front, back
<1>4. /\ front \o back \in Seq(S) /\ Len(front \o back) = Len(s) - 1
      /\ \A i \in 1 .. Len(s) - 1 : (front \o back)[i] = IF i <= p - 1 THEN front[i] ELSE back[i - (p - 1)]
  <2>1. (p - 1) + (Len(s) - p) = Len(s) - 1
    BY <1>1
  <2>2. /\ front \o back \in Seq(S) /\ Len(front \o back) = Len(front) + Len(back)
        /\ \A i \in 1 .. Len(front) + Len(back) :
             (front \o back)[i] = IF i <= Len(front) THEN front[i] ELSE back[i - Len(front)]
    BY <1>2, <1>3, ConcatProperties
  <2> QED  BY <1>2, <1>3, <2>1, <2>2
<1>5. \A k \in 1 .. Len(s) - 1 : (front \o back)[k] = IF k < p THEN s[k] ELSE s[k + 1]
  <2> TAKE k \in 1 .. Len(s) - 1
  <2>1. CASE k < p
    BY <1>1, <1>2, <1>4, <2>1
  <2>2. CASE k >= p
    <3>1. k - (p - 1) \in 1 .. Len(s) - p /\ p + (k - (p - 1)) = k + 1
      BY <1>1, <2>2
    <3> QED  BY <1>1, <1>3, <1>4, <2>2, <3>1
  <2>3. k < p \/ k >= p
    BY <1>1
  <2> QED  BY <2>1, <2>2, <2>3
<1>6. RemoveAt(s, p) = front \o back
  BY DEF RemoveAt, front, back
<1> QED  BY <1>4, <1>5, <1>6

\* list_del takes away the only place of an object, and moves those behind it.
LEMMA WithoutProperties ==
  ASSUME NEW S, NEW s \in Seq(S), NEW o, \A i, j \in DOMAIN s : s[i] = s[j] => i = j
  PROVE  /\ Without(s, o) \in Seq(S)
         /\ \A k \in DOMAIN Without(s, o) : Without(s, o)[k] # o /\ \E i \in DOMAIN s : s[i] = Without(s, o)[k]
         /\ \A i \in DOMAIN s : s[i] # o => \E k \in DOMAIN Without(s, o) : Without(s, o)[k] = s[i]
         /\ \A i, j \in DOMAIN Without(s, o) : Without(s, o)[i] = Without(s, o)[j] => i = j
<1>1. Len(s) \in Nat /\ DOMAIN s = 1 .. Len(s) BY LenProperties
<1>2. CASE Positions(o, s) = {} BY <1>1, <1>2 DEF Without, Positions
<1>3. CASE Positions(o, s) # {}
  <2> DEFINE p == CHOOSE i \in Positions(o, s) : TRUE
             w == Without(s, o)
  <2>1. p \in 1 .. Len(s) /\ s[p] = o BY <1>1, <1>3 DEF Positions
  <2>2. w = RemoveAt(s, p) BY <1>3 DEF Without
  <2> HIDE DEF p, w
  <2>3. /\ w \in Seq(S) /\ Len(w) = Len(s) - 1 /\ DOMAIN w = 1 .. Len(s) - 1
        /\ \A k \in 1 .. Len(s) - 1 : w[k] = IF k < p THEN s[k] ELSE s[k + 1]
    <3>1. /\ RemoveAt(s, p) \in Seq(S) /\ Len(RemoveAt(s, p)) = Len(s) - 1
          /\ \A k \in 1 .. Len(s) - 1 : RemoveAt(s, p)[k] = IF k < p THEN s[k] ELSE s[k + 1]
      BY <2>1, RemoveAtProperties
    <3>2. QED BY <2>2, <3>1, LenProperties
  <2> DEFINE at(k) == IF k < p THEN k ELSE k + 1
  <2>4. \A k \in DOMAIN w : at(k) \in DOMAIN s /\ at(k) # p /\ w[k] = s[at(k)] BY <1>1, <2>1, <2>3
  <2>5. \A i \in DOMAIN s : i # p => \E k \in DOMAIN w : at(k) = i
    <3> TAKE i \in DOMAIN s
    <3>1. CASE i < p BY <1>1, <2>1, <2>3, <3>1
    <3>2. CASE i > p
      <4>1. i - 1 \in DOMAIN w /\ at(i - 1) = i BY <1>1, <2>1, <2>3, <3>2
      <4>2. QED BY <4>1
    <3>3. QED BY <1>1, <2>1, <3>1, <3>2
  <2>6. \A j, k \in DOMAIN w : at(j) = at(k) => j = k BY <1>1, <2>1, <2>3
  <2> HIDE DEF at
  <2>7. \A k \in DOMAIN w : w[k] # o /\ \E i \in DOMAIN s : s[i] = w[k] BY <1>1, <2>1, <2>4
  <2>8. \A i \in DOMAIN s : s[i] # o => \E k \in DOMAIN w : w[k] = s[i] BY <2>1, <2>4, <2>5
  <2>9. \A i, j \in DOMAIN w : w[i] = w[j] => i = j BY <2>4, <2>6
  <2>10. QED BY <2>3, <2>7, <2>8, <2>9 DEF w
<1>4. QED BY <1>2, <1>3

-----------------------------------------------------------------------------
(* References: those of one thread, and those of the others.               *)

LEMMA PlacesCount ==
  ASSUME NEW S, NEW s \in Seq(S), NEW kind, NEW x, NEW o
  PROVE  IsFiniteSet(Places(kind, x, s, o)) /\ Cardinality(Places(kind, x, s, o)) = Times(o, s)
<1> DEFINE P == Positions(o, s)  A == Places(kind, x, s, o)
           f == [i \in P |-> <<kind, x, i>>]
<1>1. f \in Bijection(P, A)
  <2>1. f \in [P -> A] BY DEF Places
  <2>2. \A i, j \in P : f[i] = f[j] => i = j OBVIOUS
  <2>3. \A a \in A : \E i \in P : f[i] = a BY DEF Places
  <2> HIDE DEF f, P, A
  <2>4. QED BY <2>1, <2>2, <2>3 DEF Bijection, Injection, Surjection, IsInjective
<1>2. IsFiniteSet(P) BY TimesType
<1>3. ExistsBijection(P, A) BY <1>1 DEF ExistsBijection
<1> HIDE DEF P, A, f
<1>4. IsFiniteSet(A) /\ Cardinality(A) = Cardinality(P) BY <1>2, <1>3, FS_Bijection
<1>5. QED BY <1>4 DEF Times, A, P

LEMMA DisjointUnion ==
  ASSUME NEW A, NEW B, IsFiniteSet(A), IsFiniteSet(B), \A x \in A : x \notin B
  PROVE  /\ IsFiniteSet(A \cup B) /\ Cardinality(A \cup B) = Cardinality(A) + Cardinality(B)
         /\ Cardinality(A) \in Nat /\ Cardinality(B) \in Nat
<1>1. A \cap B = {} OBVIOUS
<1>2. Cardinality(A \cap B) = 0 BY <1>1, FS_EmptySet
<1>3. Cardinality(A) \in Nat /\ Cardinality(B) \in Nat BY FS_CardinalityType
<1>4. IsFiniteSet(A \cup B) /\ Cardinality(A \cup B) = Cardinality(A) + Cardinality(B) - Cardinality(A \cap B)
  BY FS_Union
<1>5. QED BY <1>2, <1>3, <1>4

\* The references of thread t, by what it has, and how many they are.
Refs(t, o, a, b, c, d, e) ==
  Places("list", t, a, o) \cup Places("found", t, b, o) \cup Places("drop", t, c, o)
  \cup Places("handle", t, d, o) \cup Places("new", t, e, o)
Total(o, a, b, c, d, e) == Times(o, a) + Times(o, b) + Times(o, c) + Times(o, d) + Times(o, e)

Elsewhere(t, o) == (UNION {RefsOf(u, o) : u \in Threads \ {t}}) \cup LostRefs(o)
Mine(t, o) == Total(o, list[t], discdevs[t], GivingUp(t), <<handle[t]>>, New(t))

LEMMA RefsCount ==
  ASSUME NEW S, NEW a \in Seq(S), NEW b \in Seq(S), NEW c \in Seq(S), NEW d \in Seq(S), NEW e \in Seq(S),
         NEW t, NEW o, NEW E, IsFiniteSet(E), \A x \in E : x[1] = "lost" \/ x[2] # t
  PROVE  /\ Cardinality(Refs(t, o, a, b, c, d, e) \cup E) = Total(o, a, b, c, d, e) + Cardinality(E)
         /\ Total(o, a, b, c, d, e) \in Nat
<1> DEFINE A1 == Places("list", t, a, o)  A2 == Places("found", t, b, o)  A3 == Places("drop", t, c, o)
           A4 == Places("handle", t, d, o)  A5 == Places("new", t, e, o)
<1>1. /\ \A x \in A1 : x[1] = "list" /\ x[2] = t
      /\ \A x \in A2 : x[1] = "found" /\ x[2] = t
      /\ \A x \in A3 : x[1] = "drop" /\ x[2] = t
      /\ \A x \in A4 : x[1] = "handle" /\ x[2] = t
      /\ \A x \in A5 : x[1] = "new" /\ x[2] = t
  BY DEF Places
<1>2. /\ IsFiniteSet(A1) /\ Cardinality(A1) = Times(o, a) /\ Times(o, a) \in Nat
      /\ IsFiniteSet(A2) /\ Cardinality(A2) = Times(o, b) /\ Times(o, b) \in Nat
      /\ IsFiniteSet(A3) /\ Cardinality(A3) = Times(o, c) /\ Times(o, c) \in Nat
      /\ IsFiniteSet(A4) /\ Cardinality(A4) = Times(o, d) /\ Times(o, d) \in Nat
      /\ IsFiniteSet(A5) /\ Cardinality(A5) = Times(o, e) /\ Times(o, e) \in Nat
  BY PlacesCount, TimesType
<1> HIDE DEF A1, A2, A3, A4, A5
<1> DEFINE U5 == A5 \cup E  U4 == A4 \cup U5  U3 == A3 \cup U4  U2 == A2 \cup U3  U1 == A1 \cup U2
<1>3. /\ \A x \in A5 : x \notin E
      /\ \A x \in A4 : x \notin U5
      /\ \A x \in A3 : x \notin U4
      /\ \A x \in A2 : x \notin U3
      /\ \A x \in A1 : x \notin U2
  BY <1>1
<1>4. Refs(t, o, a, b, c, d, e) \cup E = U1 BY DEF Refs, A1, A2, A3, A4, A5
<1> HIDE DEF U5
<1>5. IsFiniteSet(U5) /\ Cardinality(U5) = Times(o, e) + Cardinality(E) /\ Cardinality(E) \in Nat
  BY <1>2, <1>3, DisjointUnion DEF U5
<1> HIDE DEF U4
<1>6. IsFiniteSet(U4) /\ Cardinality(U4) = Times(o, d) + Cardinality(U5) BY <1>2, <1>3, <1>5, DisjointUnion DEF U4
<1> HIDE DEF U3
<1>7. IsFiniteSet(U3) /\ Cardinality(U3) = Times(o, c) + Cardinality(U4) BY <1>2, <1>3, <1>6, DisjointUnion DEF U3
<1> HIDE DEF U2
<1>8. IsFiniteSet(U2) /\ Cardinality(U2) = Times(o, b) + Cardinality(U3) BY <1>2, <1>3, <1>7, DisjointUnion DEF U2
<1> HIDE DEF U1
<1>9. Cardinality(U1) = Times(o, a) + Cardinality(U2) BY <1>2, <1>3, <1>8, DisjointUnion, ZenonT(30) DEF U1
<1> HIDE DEF A1, A2, A3, A4, A5
<1>10. Total(o, a, b, c, d, e) \in Nat BY <1>2 DEF Total
<1>11. Cardinality(U1) = Total(o, a, b, c, d, e) + Cardinality(E)
  <2>1. /\ Times(o, a) \in Nat /\ Times(o, b) \in Nat /\ Times(o, c) \in Nat /\ Times(o, d) \in Nat
        /\ Times(o, e) \in Nat /\ Cardinality(E) \in Nat
    BY <1>2, <1>5
  <2>2. Cardinality(U1) = Times(o, a) + (Times(o, b) + (Times(o, c) + (Times(o, d) + (Times(o, e) + Cardinality(E)))))
    BY <1>5, <1>6, <1>7, <1>8, <1>9
  <2> DEFINE m == Times(o, a)  n == Times(o, b)  p == Times(o, c)  q == Times(o, d)  s == Times(o, e)  k == Cardinality(E)
  <2>3. Total(o, a, b, c, d, e) = m + n + p + q + s BY DEF Total
  <2>4. Cardinality(U1) = m + (n + (p + (q + (s + k)))) /\ m \in Nat /\ n \in Nat /\ p \in Nat /\ q \in Nat /\ s \in Nat /\ k \in Nat
    BY <2>1, <2>2
  <2> HIDE DEF m, n, p, q, s
  <2>5. QED BY <2>3, <2>4
<1>12. QED BY <1>4, <1>10, <1>11

LEMMA RefsFinite ==
  ASSUME NEW S, NEW a \in Seq(S), NEW b \in Seq(S), NEW c \in Seq(S), NEW d \in Seq(S), NEW e \in Seq(S),
         NEW t, NEW o
  PROVE  IsFiniteSet(Refs(t, o, a, b, c, d, e)) /\ \A x \in Refs(t, o, a, b, c, d, e) : x[2] = t
<1>1. /\ IsFiniteSet(Places("list", t, a, o)) /\ IsFiniteSet(Places("found", t, b, o))
      /\ IsFiniteSet(Places("drop", t, c, o)) /\ IsFiniteSet(Places("handle", t, d, o))
      /\ IsFiniteSet(Places("new", t, e, o))
  BY PlacesCount
<1>2. IsFiniteSet(Refs(t, o, a, b, c, d, e)) BY <1>1, FS_Union DEF Refs
<1>3. QED BY <1>2 DEF Refs, Places

\* What the fields of thread t are, before or after a step.
MineTyped(t) ==
  /\ list[t] \in Seq(Objs) /\ discdevs[t] \in Seq(Objs) /\ GivingUp(t) \in Seq(Objs)
  /\ handle[t] \in Objs \cup {NoObj} /\ New(t) \in Seq(Objs \cup {NoObj})

LEMMA MineIsTyped == ASSUME TypeOK, EmptyInv, NEW t \in Threads PROVE MineTyped(t)
<1>1. GivingUp(t) \in Seq(Objs)
  <2>1. CASE At(t, "destroy") BY <2>1, HeadTailProperties DEF TypeOK, EmptyInv, Empty, At, GivingUp
  <2>2. CASE ~At(t, "destroy") BY <2>2 DEF TypeOK, GivingUp
  <2>3. QED BY <2>1, <2>2
<1>2. New(t) \in Seq(Objs \cup {NoObj})
  <2>1. dev[t] \in Objs \cup {NoObj} BY DEF TypeOK
  <2>2. <<>> \in Seq(Objs \cup {NoObj}) /\ <<dev[t]>> \in Seq(Objs \cup {NoObj}) BY <2>1
  <2>3. QED BY <2>2 DEF New
<1>3. QED BY <1>1, <1>2 DEF TypeOK, MineTyped

LEMMA ObjSeq ==
  ASSUME NEW s \in Seq(Objs)
  PROVE  s \in Seq(Objs \cup {NoObj})
OBVIOUS

LEMMA LostIsFinite == ASSUME TypeOK, NEW o PROVE IsFiniteSet(LostRefs(o))
<1> DEFINE S(n) == Places("lost", n, lost[n], o)
           SS == {S(n) : n \in DOMAIN lost}
           g == [n \in DOMAIN lost |-> S(n)]
<1>1. IsFiniteSet(DOMAIN lost) /\ \A n \in DOMAIN lost : lost[n] \in Seq(Objs)
  <2>1. Len(lost) \in Nat /\ DOMAIN lost = 1 .. Len(lost) /\ \A n \in 1 .. Len(lost) : lost[n] \in Seq(Objs)
    BY LenProperties, ElementOfSeq DEF TypeOK
  <2>2. QED BY <2>1, FS_Interval
<1>2. \A n \in DOMAIN lost : IsFiniteSet(S(n)) BY <1>1, PlacesCount
<1> HIDE DEF S
<1>3. g \in Surjection(DOMAIN lost, SS)
  <2>1. g \in [DOMAIN lost -> SS] /\ \A x \in SS : \E n \in DOMAIN lost : g[n] = x OBVIOUS
  <2> HIDE DEF g, SS
  <2>2. QED BY <2>1 DEF Surjection
<1>4. \A x \in SS : IsFiniteSet(x) BY <1>2
<1>5. LostRefs(o) = UNION SS BY DEF LostRefs, S
<1> HIDE DEF g, SS
<1>6. IsFiniteSet(SS) BY <1>1, <1>3, FS_Surjection
<1>7. QED BY <1>4, <1>5, <1>6, FS_UNION

LEMMA ElsewhereIsFinite ==
  ASSUME TreeAssumption, TypeOK, EmptyInv, NEW t \in Threads, NEW o
  PROVE  /\ IsFiniteSet(Elsewhere(t, o)) /\ Cardinality(Elsewhere(t, o)) \in Nat
         /\ \A x \in Elsewhere(t, o) : x[1] = "lost" \/ x[2] # t
         /\ (UNION {RefsOf(u, o) : u \in Threads}) \cup LostRefs(o) = RefsOf(t, o) \cup Elsewhere(t, o)
<1> DEFINE SS == {RefsOf(u, o) : u \in Threads \ {t}}
           g == [u \in Threads \ {t} |-> RefsOf(u, o)]
<1>1. \A u \in Threads : IsFiniteSet(RefsOf(u, o)) /\ \A x \in RefsOf(u, o) : x[2] = u
  <2> TAKE u \in Threads
  <2> DEFINE S == Objs \cup {NoObj}
             a == list[u]  b == discdevs[u]  c == GivingUp(u)  d == <<handle[u]>>  e == New(u)
  <2>1. a \in Seq(S) /\ b \in Seq(S) /\ c \in Seq(S) /\ d \in Seq(S) /\ e \in Seq(S)
    BY MineIsTyped, ObjSeq DEF MineTyped
  <2>2. RefsOf(u, o) = Refs(u, o, a, b, c, d, e) BY DEF RefsOf, Refs
  <2> HIDE DEF S, a, b, c, d, e
  <2>3. IsFiniteSet(Refs(u, o, a, b, c, d, e)) /\ \A x \in Refs(u, o, a, b, c, d, e) : x[2] = u
    BY <2>1, RefsFinite
  <2>4. QED BY <2>2, <2>3
<1>2. g \in Surjection(Threads \ {t}, SS)
  <2>1. g \in [Threads \ {t} -> SS] /\ \A x \in SS : \E u \in Threads \ {t} : g[u] = x OBVIOUS
  <2> HIDE DEF g, SS
  <2>2. QED BY <2>1 DEF Surjection
<1>3. \A x \in SS : IsFiniteSet(x) BY <1>1
<1>4. IsFiniteSet(Threads \ {t}) BY FS_Subset DEF TreeAssumption
<1>5. /\ \A x \in UNION SS : x[2] # t
      /\ UNION {RefsOf(u, o) : u \in Threads} = RefsOf(t, o) \cup (UNION SS)
  BY <1>1
<1>6. Elsewhere(t, o) = (UNION SS) \cup LostRefs(o) BY DEF Elsewhere
<1> HIDE DEF g, SS
<1>7. IsFiniteSet(SS) BY <1>2, <1>4, FS_Surjection
<1>8. IsFiniteSet(UNION SS) BY <1>3, <1>7, FS_UNION
<1>9. IsFiniteSet(Elsewhere(t, o))
  <2> DEFINE A == UNION SS  B == LostRefs(o)
  <2>1. IsFiniteSet(A) /\ IsFiniteSet(B) /\ Elsewhere(t, o) = A \cup B BY <1>6, <1>8, LostIsFinite
  <2> HIDE DEF A, B
  <2>2. IsFiniteSet(A \cup B) BY <2>1, FS_Union
  <2>3. QED BY <2>1, <2>2
<1>10. \A x \in LostRefs(o) : x[1] = "lost" BY DEF LostRefs, Places
<1>11. QED BY <1>5, <1>6, <1>9, <1>10, FS_CardinalityType

LEMMA HeldIsMineAndOthers ==
  ASSUME NEW t, NEW o, NEW E, IsFiniteSet(E), \A x \in E : x[1] = "lost" \/ x[2] # t, MineTyped(t)
  PROVE  Cardinality(RefsOf(t, o) \cup E) = Mine(t, o) + Cardinality(E) /\ Mine(t, o) \in Nat
<1> DEFINE S == Objs \cup {NoObj}
           a == list[t]  b == discdevs[t]  c == GivingUp(t)  d == <<handle[t]>>  e == New(t)
<1>1. a \in Seq(S) /\ b \in Seq(S) /\ c \in Seq(S) /\ d \in Seq(S) /\ e \in Seq(S) BY ObjSeq DEF MineTyped
<1>2. RefsOf(t, o) = Refs(t, o, a, b, c, d, e) /\ Mine(t, o) = Total(o, a, b, c, d, e) BY DEF RefsOf, Refs, Mine
<1> HIDE DEF S, a, b, c, d, e
<1>3. Cardinality(Refs(t, o, a, b, c, d, e) \cup E) = Total(o, a, b, c, d, e) + Cardinality(E)
      /\ Total(o, a, b, c, d, e) \in Nat
  BY <1>1, RefsCount
<1>4. QED BY <1>2, <1>3

LEMMA HeldIsMineAndOthersAfter ==
  ASSUME NEW t, NEW o, NEW E, IsFiniteSet(E), \A x \in E : x[1] = "lost" \/ x[2] # t, MineTyped(t)'
  PROVE  Cardinality(RefsOf(t, o)' \cup E) = Mine(t, o)' + Cardinality(E) /\ Mine(t, o)' \in Nat
<1> DEFINE S == Objs \cup {NoObj}
           a == list'[t]  b == discdevs'[t]  c == GivingUp(t)'  d == <<handle'[t]>>  e == New(t)'
<1>1. a \in Seq(S) /\ b \in Seq(S) /\ c \in Seq(S) /\ d \in Seq(S) /\ e \in Seq(S) BY ObjSeq DEF MineTyped
<1>2. RefsOf(t, o)' = Refs(t, o, a, b, c, d, e) /\ Mine(t, o)' = Total(o, a, b, c, d, e) BY DEF RefsOf, Refs, Mine
<1> HIDE DEF S, a, b, c, d, e
<1>3. Cardinality(Refs(t, o, a, b, c, d, e) \cup E) = Total(o, a, b, c, d, e) + Cardinality(E)
      /\ Total(o, a, b, c, d, e) \in Nat
  BY <1>1, RefsCount
<1>4. QED BY <1>2, <1>3

\* Only thread t has more or fewer references after its step.
OnlyMine(t) ==
  /\ UNCHANGED lost
  /\ \A u \in Threads \ {t} :
       /\ list'[u] = list[u] /\ discdevs'[u] = discdevs[u] /\ drop'[u] = drop[u]
       /\ handle'[u] = handle[u] /\ pc'[u] = pc[u] /\ dev'[u] = dev[u]

LEMMA HeldChange ==
  ASSUME TreeAssumption, TypeOK, EmptyInv, NEW t \in Threads, NEW o, OnlyMine(t), MineTyped(t)'
  PROVE  \E n \in Nat : /\ Held(o) = Mine(t, o) + n /\ Held(o)' = Mine(t, o)' + n
                        /\ Mine(t, o) \in Nat /\ Mine(t, o)' \in Nat
<1> DEFINE E == Elsewhere(t, o)  n == Cardinality(E)
<1>1. IsFiniteSet(E) /\ n \in Nat /\ \A x \in E : x[1] = "lost" \/ x[2] # t BY ElsewhereIsFinite
<1>2. Held(o) = Cardinality(RefsOf(t, o) \cup E) BY ElsewhereIsFinite DEF Held
<1>3. Held(o)' = Cardinality(RefsOf(t, o)' \cup E)
  <2>1. LostRefs(o)' = LostRefs(o) BY DEF LostRefs, OnlyMine
  <2>2. \A u \in Threads \ {t} : RefsOf(u, o)' = RefsOf(u, o) BY DEF RefsOf, OnlyMine, GivingUp, New, At
  <2>3. (UNION {RefsOf(u, o)' : u \in Threads}) \cup LostRefs(o)' = RefsOf(t, o)' \cup E BY <2>1, <2>2 DEF Elsewhere
  <2>4. QED BY <2>3 DEF Held
<1>4. MineTyped(t) BY MineIsTyped
<1> HIDE DEF E
<1>5. Cardinality(RefsOf(t, o) \cup E) = Mine(t, o) + n /\ Mine(t, o) \in Nat BY <1>1, <1>4, HeldIsMineAndOthers
<1>6. Cardinality(RefsOf(t, o)' \cup E) = Mine(t, o)' + n /\ Mine(t, o)' \in Nat
  BY <1>1, HeldIsMineAndOthersAfter
<1>7. QED BY <1>1, <1>2, <1>3, <1>5, <1>6

\* The count of an object changes as the references of the thread do: all that
\* is left to see is that it is freed at nought.
LEMMA CountsKept ==
  ASSUME TreeAssumption, TypeOK, EmptyInv, HeldInv, NEW t \in Threads, OnlyMine(t), MineTyped(t)', TypeOK',
         \A o \in Objs : heap'[o].refcnt + Mine(t, o) = heap[o].refcnt + Mine(t, o)',
         \A o \in Objs : heap'[o].refcnt = 0 /\ heap'[o] # Free => \E u \in Threads : At(u, "destroy")' /\ Head(drop'[u]) = o
  PROVE  HeldInv'
<1>1. \A o \in Objs : heap'[o].refcnt = Held(o)'
  <2> TAKE o \in Objs
  <2>1. heap[o].refcnt = Held(o) /\ heap[o].refcnt \in Nat /\ heap'[o].refcnt \in Nat BY DEF HeldInv, CountsMatch, TypeOK
  <2>2. PICK n \in Nat : /\ Held(o) = Mine(t, o) + n /\ Held(o)' = Mine(t, o)' + n
                         /\ Mine(t, o) \in Nat /\ Mine(t, o)' \in Nat
    BY HeldChange
  <2>3. heap'[o].refcnt + Mine(t, o) = heap[o].refcnt + Mine(t, o)' OBVIOUS
  <2>4. QED BY <2>1, <2>2, <2>3
<1>2. \A o \in Objs : heap'[o] = Free => heap'[o].refcnt = 0 BY DEF Free
<1>3. QED BY <1>1, <1>2 DEF HeldInv, CountsMatch

LEMMA MineStaysTyped == ASSUME TypeOK', EmptyInv', NEW t \in Threads PROVE MineTyped(t)'
<1>1. GivingUp(t)' \in Seq(Objs)
  <2>1. CASE At(t, "destroy")' BY <2>1, HeadTailProperties DEF TypeOK, EmptyInv, Empty, At, GivingUp
  <2>2. CASE ~At(t, "destroy")' BY <2>2 DEF TypeOK, GivingUp
  <2>3. QED BY <2>1, <2>2
<1>2. New(t)' \in Seq(Objs \cup {NoObj})
  <2>1. dev'[t] \in Objs \cup {NoObj} BY DEF TypeOK
  <2>2. <<>> \in Seq(Objs \cup {NoObj}) /\ <<dev'[t]>> \in Seq(Objs \cup {NoObj}) BY <2>1
  <2>3. QED BY <2>2 DEF New
<1>3. QED BY <1>1, <1>2 DEF TypeOK, MineTyped

\* Steps that leave all references where they are.
LEMMA QuietCounts ==
  ASSUME HeldInv, UNCHANGED <<list, discdevs, drop, handle, lost>>,
         \A u \in Threads : New(u)' = New(u) /\ (At(u, "destroy")' <=> At(u, "destroy")),
         \A o \in Objs : heap'[o].refcnt = heap[o].refcnt /\ (heap'[o] = Free => heap[o] = Free)
                                                       /\ (heap[o] = Free => heap'[o] = Free)
  PROVE  HeldInv'
<1>1. \A u \in Threads, o \in Objs : RefsOf(u, o)' = RefsOf(u, o) BY DEF RefsOf, GivingUp
<1>2. \A o \in Objs : LostRefs(o)' = LostRefs(o) BY DEF LostRefs
<1>3. \A o \in Objs : Held(o)' = Held(o) BY <1>1, <1>2 DEF Held
<1>4. QED BY <1>3 DEF HeldInv, CountsMatch

\* A thread that does nothing keeps what is known of it.
Untouched(u) ==
  /\ pc'[u] = pc[u] /\ goal'[u] = goal[u] /\ entry'[u] = entry[u] /\ dev'[u] = dev[u]
  /\ list'[u] = list[u] /\ discdevs'[u] = discdevs[u] /\ drop'[u] = drop[u] /\ handle'[u] = handle[u]
Others(t) == \A u \in Threads \ {t} : Untouched(u)
Solo(t) == \A u \in Threads \ {t} : pc[u] = "idle"

LEMMA OthersKeep ==
  ASSUME RefsInv, NEW t \in Threads, Others(t), Solo(t), AtHand(t)', Empty(t)'
  PROVE  Turns' /\ AtHandInv' /\ EmptyInv'
<1>1. Turns' BY DEF Others, Solo, Untouched, Turns
<1>2. ASSUME NEW u \in Threads \ {t} PROVE AtHand(u)' /\ Empty(u)'
  <2>1. Untouched(u) /\ pc[u] = "idle" /\ AtHand(u) /\ Empty(u) BY DEF Others, Solo, RefsInv, AtHandInv, EmptyInv
  <2>2. AtHand(u)' BY <2>1 DEF AtHand, Untouched, Reading
  <2>3. Empty(u)' BY <2>1 DEF Empty, Untouched, Busy
  <2>4. QED BY <2>2, <2>3
<1>3. QED BY <1>1, <1>2 DEF AtHandInv, EmptyInv

LEMMA TurnIsSolo == ASSUME RefsInv, NEW t \in Threads, pc[t] # "idle" PROVE Solo(t)
BY DEF RefsInv, Turns, Solo

LEMMA AloneIsSolo == ASSUME Serial, NEW t \in Threads, Alone(t) PROVE Solo(t)
BY DEF Alone, Solo

(* The bus, and the steps of an enumeration that make no object.           *)

LEMMA PlugKeepsRefs == ASSUME TreeAssumption, RefsInv, NEW d \in Dirs, Plug(d) PROVE RefsInv'
<1>1. TypeOK' BY SMTT(30) DEF RefsInv, TypeOK, Plug, TreeAssumption, objv, scan, app
<1>2. Turns' /\ AtHandInv' /\ EmptyInv' /\ HeapInv'
  BY DEF RefsInv, Plug, objv, scan, app, Turns, AtHandInv, AtHand, EmptyInv, Empty, HeapInv, Busy
<1>3. HeldInv'
  <2>1. \A u \in Threads : New(u)' = New(u) /\ (At(u, "destroy")' <=> At(u, "destroy")) BY DEF Plug, New, At, scan
  <2>2. QED BY <2>1, QuietCounts DEF RefsInv, Plug, objv, app
<1>4. QED BY <1>1, <1>2, <1>3 DEF RefsInv

LEMMA UnplugKeepsRefs == ASSUME TreeAssumption, RefsInv, NEW d \in Dirs, Unplug(d) PROVE RefsInv'
<1>1. TypeOK'
  <2>1. addr' \in [Dirs -> 0 .. MaxAddr]
    <3>1. \A e \in Dirs : (IF e \in Behind(d) THEN 0 ELSE addr[e]) \in 0 .. MaxAddr
      BY DEF RefsInv, TypeOK, TreeAssumption
    <3>2. QED BY <3>1 DEF Unplug
  <2>2. there' \in [Threads -> SUBSET (Dirs \X (1 .. MaxAddr))]
    <3>1. \A u \in Threads : {x \in there[u] : x[1] \notin Behind(d)} \in SUBSET (Dirs \X (1 .. MaxAddr))
      BY DEF RefsInv, TypeOK
    <3>2. QED BY <3>1 DEF Unplug
  <2>3. QED BY <2>1, <2>2 DEF RefsInv, TypeOK, Unplug, objv, scan, app
<1>2. Turns' /\ AtHandInv' /\ EmptyInv' /\ HeapInv'
  BY DEF RefsInv, Unplug, objv, scan, app, Turns, AtHandInv, AtHand, EmptyInv, Empty, HeapInv, Busy
<1>3. HeldInv'
  <2>1. \A u \in Threads : New(u)' = New(u) /\ (At(u, "destroy")' <=> At(u, "destroy")) BY DEF Unplug, New, At, scan
  <2>2. QED BY <2>1, QuietCounts DEF RefsInv, Unplug, objv, app
<1>4. QED BY <1>1, <1>2, <1>3 DEF RefsInv

LEMMA AttachedType == ASSUME TypeOK PROVE Attached \subseteq Dirs \X (1 .. MaxAddr)
BY DEF Attached, TypeOK

LEMMA GetDeviceListKeepsRefs ==
  ASSUME TreeAssumption, Serial, RefsInv, NEW t \in Threads, NEW g \in Goals[mode][t], GetDeviceList(t, g)
  PROVE  RefsInv'
<1>1. g \in {"list", "path", "vid_pid"}
  <2>1. mode \in {"sysfs", "nodes", "usbfs", "names"} BY DEF RefsInv, TypeOK
  <2>2. QED BY <2>1 DEF TreeAssumption
<1>2. /\ pc[t] = "idle" /\ Solo(t) /\ pc' = [pc EXCEPT ![t] = "scan"] /\ goal' = [goal EXCEPT ![t] = g]
      /\ UNCHANGED <<bus, objv, entry, dev, list, handle, lost, discdevs, drop>>
      /\ g = "list" => list[t] = <<>>
      /\ g = "vid_pid" => handle[t] = NoObj
  BY <1>1, AloneIsSolo DEF GetDeviceList, At, Go
<1>3. TypeOK'
  <2>1. RootHubs \in SUBSET Dirs /\ Attached \in SUBSET (Dirs \X (1 .. MaxAddr))
    BY AttachedType DEF RefsInv, RootHubs
  <2>2. /\ there' \in [Threads -> SUBSET (Dirs \X (1 .. MaxAddr))] /\ buses' \in [Threads -> SUBSET Dirs]
        /\ todo' \in [Threads -> SUBSET (Dirs \X (1 .. MaxAddr))] /\ r' \in [Threads -> BOOLEAN]
    BY <2>1 DEF RefsInv, TypeOK, GetDeviceList, Sysfs
  <2>3. QED BY <1>1, <1>2, <2>2 DEF RefsInv, TypeOK, bus, objv
<1>4. Others(t) /\ pc'[t] = "scan" /\ goal'[t] = g BY <1>2 DEF Others, Untouched, RefsInv, TypeOK
<1>5. AtHand(t) /\ Empty(t) BY DEF RefsInv, AtHandInv, EmptyInv
<1>6. AtHand(t)' BY <1>2, <1>4, <1>5 DEF AtHand, Reading, Leaving
<1>7. Empty(t)' BY <1>2, <1>4, <1>5 DEF Empty, AtHand, Busy, Reading, Leaving
<1>8. Turns' /\ AtHandInv' /\ EmptyInv' BY <1>2, <1>4, <1>6, <1>7, OthersKeep
<1>9. HeapInv' BY <1>2 DEF RefsInv, objv, HeapInv
<1>10. HeldInv'
  <2>1. \A u \in Threads : New(u)' = New(u) /\ (At(u, "destroy")' <=> At(u, "destroy"))
    BY <1>2, <1>4 DEF New, At, Others, Untouched
  <2>2. QED BY <1>2, <2>1, QuietCounts DEF RefsInv, objv
<1>11. QED BY <1>3, <1>8, <1>9, <1>10 DEF RefsInv

LEMMA ScanBusKeepsRefs ==
  ASSUME TreeAssumption, RefsInv, NEW t \in Threads, NEW b \in RootHubs, ScanBus(t, b)
  PROVE  RefsInv'
<1>1. TypeOK' BY AttachedType DEF RefsInv, TypeOK, ScanBus, bus, objv, app
<1>2. Turns' /\ AtHandInv' /\ HeapInv' /\ EmptyInv'
  BY DEF RefsInv, ScanBus, bus, objv, app, Turns, AtHandInv, AtHand, EmptyInv, Empty, HeapInv, Busy
<1>3. HeldInv'
  <2>1. \A u \in Threads : New(u)' = New(u) /\ (At(u, "destroy")' <=> At(u, "destroy")) BY DEF ScanBus, New, At
  <2>2. QED BY <2>1, QuietCounts DEF RefsInv, ScanBus, objv, app
<1>4. QED BY <1>1, <1>2, <1>3 DEF RefsInv

LEMMA SkipEntryKeepsRefs ==
  ASSUME TreeAssumption, RefsInv, NEW t \in Threads, NEW x \in todo[t], SkipEntry(t, x)
  PROVE  RefsInv'
<1>1. TypeOK' BY ZenonT(30) DEF RefsInv, TypeOK, SkipEntry, bus, objv, app
<1>2. Turns' /\ AtHandInv' /\ HeapInv' /\ EmptyInv'
  BY DEF RefsInv, SkipEntry, bus, objv, app, Turns, AtHandInv, AtHand, EmptyInv, Empty, HeapInv, Busy
<1>3. HeldInv'
  <2>1. \A u \in Threads : New(u)' = New(u) /\ (At(u, "destroy")' <=> At(u, "destroy")) BY DEF SkipEntry, New, At
  <2>2. QED BY <2>1, QuietCounts DEF RefsInv, SkipEntry, objv, app
<1>4. QED BY <1>1, <1>2, <1>3 DEF RefsInv

LEMMA NumberType ==
  ASSUME TreeAssumption, RefsInv, NEW t \in Threads, NEW x \in todo[t], Number(x) # 0
  PROVE  <<x[1], Number(x)>> \in Dirs \X (1 .. MaxAddr) /\ x[1] # NoDir /\ x \in Dirs \X (1 .. MaxAddr)
<1>1. x \in Dirs \X (1 .. MaxAddr) BY DEF RefsInv, TypeOK
<1>2. x[1] \in Dirs /\ x[2] \in 1 .. MaxAddr /\ addr[x[1]] \in 0 .. MaxAddr BY <1>1 DEF RefsInv, TypeOK
<1>3. Number(x) \in 1 .. MaxAddr BY <1>2 DEF Number, TreeAssumption
<1>4. NoDir \notin Dirs BY DEF TreeAssumption
<1>5. QED BY <1>1, <1>2, <1>3, <1>4

LEMMA ReadEntryKeepsRefs ==
  ASSUME TreeAssumption, RefsInv, NEW t \in Threads, NEW x \in todo[t], ReadEntry(t, x)
  PROVE  RefsInv'
<1>1. <<x[1], Number(x)>> \in Dirs \X (1 .. MaxAddr) /\ x[1] # NoDir BY NumberType DEF ReadEntry
<1>2. /\ pc[t] = "scan" /\ UNCHANGED <<bus, objv, buses, r, app, there, discdevs, drop>>
      /\ todo' = [todo EXCEPT ![t] = @ \ {x}] /\ entry' = [entry EXCEPT ![t] = <<x[1], Number(x)>>]
  BY DEF ReadEntry, At
<1>3. \/ Go(t, "alloc") /\ UNCHANGED dev
      \/ /\ Go(t, "append")
         /\ \E i \in Known(Number(x)) : dev' = [dev EXCEPT ![t] = usb_devs[i]]
  BY DEF ReadEntry
<1>4. \A i \in Known(Number(x)) :
        /\ i \in DOMAIN usb_devs /\ usb_devs[i] \in Objs /\ heap[usb_devs[i]].session = Number(x) /\ heap[usb_devs[i]] # Free
  <2>1. \A i \in DOMAIN usb_devs : usb_devs[i] \in Objs BY ElementOfSeq, LenProperties DEF RefsInv, TypeOK
  <2>2. QED BY <2>1 DEF RefsInv, Known, HeapInv
<1>5. TypeOK' BY <1>1, <1>2, <1>3, <1>4 DEF RefsInv, TypeOK, Go, bus, objv, app
<1>6. Others(t) /\ Solo(t)
  BY <1>2, <1>3, TurnIsSolo DEF Others, Untouched, RefsInv, TypeOK, Go, app
<1>7. /\ pc'[t] \in {"alloc", "append"} /\ entry'[t] = <<x[1], Number(x)>> /\ heap' = heap
      /\ pc'[t] = "append" => dev'[t] \in Objs /\ heap[dev'[t]] # Free /\ heap[dev'[t]].session = entry'[t][2]
  <2>1. entry'[t] = <<x[1], Number(x)>> /\ heap' = heap BY <1>2 DEF RefsInv, TypeOK, objv
  <2>2. CASE Go(t, "alloc")
    <3>1. pc'[t] = "alloc" BY <2>2 DEF Go, RefsInv, TypeOK
    <3>2. QED BY <2>1, <3>1
  <2>3. ASSUME NEW i \in Known(Number(x)), Go(t, "append"), dev' = [dev EXCEPT ![t] = usb_devs[i]]
        PROVE  pc'[t] = "append" /\ dev'[t] = usb_devs[i]
    BY <2>3 DEF Go, RefsInv, TypeOK
  <2>4. QED BY <1>3, <1>4, <2>1, <2>2, <2>3
<1>8. AtHand(t)' BY <1>1, <1>7 DEF AtHand, Reading
<1>9. Empty(t)'
  <2>1. Empty(t) BY DEF RefsInv, EmptyInv
  <2>2. Busy(t) /\ Busy(t)' BY <1>2, <1>7 DEF Busy, Reading
  <2>3. QED BY <1>2, <1>7, <2>1, <2>2 DEF Empty, Leaving, app
<1>10. Turns' /\ AtHandInv' /\ EmptyInv' BY <1>6, <1>8, <1>9, OthersKeep
<1>11. HeapInv' BY <1>2 DEF RefsInv, HeapInv, objv
<1>12. HeldInv'
  <2>1. \A u \in Threads : New(u)' = New(u) /\ (At(u, "destroy")' <=> At(u, "destroy"))
    BY <1>2, <1>6, <1>7 DEF New, At, Others, Untouched
  <2>2. QED BY <1>2, <2>1, QuietCounts DEF RefsInv, objv, app
<1>13. QED BY <1>5, <1>10, <1>11, <1>12 DEF RefsInv

LEMMA DroppedKeepsRefs == ASSUME TreeAssumption, RefsInv, NEW t \in Threads, Dropped(t) PROVE RefsInv'
<1>1. /\ pc[t] = "drop" /\ drop[t] = <<>>
      /\ UNCHANGED <<bus, objv, buses, todo, list, handle, lost, discdevs, drop>>
  BY DEF Dropped, At
<1>2. \/ /\ Go(t, "scan") /\ entry' = [entry EXCEPT ![t] = <<NoDir, 0>>] /\ entry[t][1] # NoDir
         /\ dev' = [dev EXCEPT ![t] = NoObj] /\ UNCHANGED <<goal, there, r>>
      \/ /\ Return(t) /\ UNCHANGED <<entry, dev>> /\ entry[t][1] = NoDir
  BY DEF Dropped
<1>3. TypeOK' BY <1>1, <1>2, ZenonT(40) DEF RefsInv, TypeOK, Go, Return, bus, objv
<1>4. Others(t) /\ Solo(t) BY <1>1, <1>2, TurnIsSolo, ZenonT(40) DEF Others, Untouched, RefsInv, TypeOK, Go, Return
<1>5. /\ pc'[t] \in {"scan", "idle"} /\ entry'[t][1] = NoDir
      /\ pc'[t] = "scan" => Busy(t) /\ goal'[t] = goal[t]
      /\ pc'[t] = "idle" => ~Busy(t)
  BY <1>1, <1>2 DEF RefsInv, TypeOK, Go, Return, Busy, Reading
<1>6. AtHand(t)' BY <1>5 DEF AtHand, Reading, Leaving
<1>7. Empty(t)'
  <2>1. Empty(t) BY DEF RefsInv, EmptyInv
  <2>2. (pc'[t] = "idle" => ~Busy(t)') /\ (pc'[t] = "scan" => Busy(t)') BY <1>5 DEF Busy, Reading
  <2>3. QED BY <1>1, <1>5, <2>1, <2>2 DEF Empty, Leaving
<1>8. Turns' /\ AtHandInv' /\ EmptyInv' BY <1>4, <1>6, <1>7, OthersKeep
<1>9. HeapInv' BY <1>1 DEF RefsInv, HeapInv, objv
<1>10. HeldInv'
  <2>1. \A u \in Threads : New(u)' = New(u) /\ (At(u, "destroy")' <=> At(u, "destroy"))
    BY <1>1, <1>4, <1>5 DEF New, At, Others, Untouched
  <2>2. QED BY <1>1, <2>1, QuietCounts DEF RefsInv, objv
<1>11. QED BY <1>3, <1>8, <1>9, <1>10 DEF RefsInv

LEMMA TermsOfMine ==
  ASSUME RefsInv, NEW t \in Threads, NEW o
  PROVE  /\ Times(o, list[t]) \in Nat /\ Times(o, discdevs[t]) \in Nat /\ Times(o, GivingUp(t)) \in Nat
         /\ Times(o, <<handle[t]>>) \in Nat /\ Times(o, New(t)) \in Nat
<1>1. MineTyped(t) BY MineIsTyped DEF RefsInv
<1>2. Times(o, <<handle[t]>>) \in Nat BY TimesOne
<1>3. QED BY <1>1, <1>2, TimesType DEF MineTyped

\* An object that a thread has a reference to is alive, and counted.
LEMMA MineIsAlive ==
  ASSUME TreeAssumption, RefsInv, NEW t \in Threads, NEW o \in Objs,
         \/ Times(o, list[t]) > 0 \/ Times(o, discdevs[t]) > 0
         \/ Times(o, <<handle[t]>>) > 0 \/ Times(o, GivingUp(t)) > 0
  PROVE  heap[o] # Free /\ heap[o].refcnt \in Nat \ {0}
<1> DEFINE E == Elsewhere(t, o)
<1>1. IsFiniteSet(E) /\ Cardinality(E) \in Nat /\ \A x \in E : x[1] = "lost" \/ x[2] # t
  BY ElsewhereIsFinite DEF RefsInv
<1>2. Held(o) = Cardinality(RefsOf(t, o) \cup E) BY ElsewhereIsFinite DEF RefsInv, Held
<1>3. MineTyped(t) BY MineIsTyped DEF RefsInv
<1> HIDE DEF E
<1>4. Cardinality(RefsOf(t, o) \cup E) = Mine(t, o) + Cardinality(E) /\ Mine(t, o) \in Nat
  BY <1>1, <1>3, HeldIsMineAndOthers
<1>5. Mine(t, o) > 0 BY TermsOfMine DEF Mine, Total
<1>6. Held(o) \in Nat \ {0} BY <1>1, <1>2, <1>4, <1>5
<1>7. QED BY <1>6 DEF RefsInv, HeldInv, CountsMatch

LEMMA FoundIsAlive ==
  ASSUME TreeAssumption, RefsInv, NEW t \in Threads
  PROVE  /\ \A o \in ToSet(list[t]) \cup ToSet(discdevs[t]) \cup ToSet(GivingUp(t)) :
              o \in Objs /\ heap[o] # Free /\ heap[o].refcnt \in Nat \ {0}
         /\ handle[t] # NoObj => handle[t] \in Objs /\ heap[handle[t]] # Free
<1>1. MineTyped(t) BY MineIsTyped DEF RefsInv
<1>2. ASSUME NEW s \in {list[t], discdevs[t], GivingUp(t)}, NEW o \in ToSet(s)
      PROVE  o \in Objs /\ heap[o] # Free /\ heap[o].refcnt \in Nat \ {0}
  <2>1. s \in Seq(Objs) BY <1>1 DEF MineTyped
  <2>2. PICK i \in DOMAIN s : s[i] = o BY DEF ToSet
  <2>3. o \in Objs BY <2>1, <2>2, TimesType
  <2>4. Times(o, s) > 0 BY <2>1, <2>2, TimesPositive
  <2>5. QED BY <2>3, <2>4, MineIsAlive
<1>3. handle[t] # NoObj => handle[t] \in Objs /\ heap[handle[t]] # Free
  <2> HAVE handle[t] # NoObj
  <2>1. handle[t] \in Objs BY DEF RefsInv, TypeOK
  <2>2. Times(handle[t], <<handle[t]>>) > 0 BY TimesOne
  <2>3. QED BY <2>1, <2>2, MineIsAlive
<1>4. QED BY <1>2, <1>3

(* The steps that make an object, and those that move references.          *)

\* A step of thread t: its references and the counts change alike.
LEMMA StepKeepsRefs ==
  ASSUME TreeAssumption, RefsInv, NEW t \in Threads, Others(t), Solo(t), UNCHANGED lost,
         TypeOK', AtHand(t)', Empty(t)', HeapInv',
         \A o \in Objs : heap'[o].refcnt + Mine(t, o) = heap[o].refcnt + Mine(t, o)',
         \A o \in Objs : heap'[o].refcnt = 0 /\ heap'[o] # Free => At(t, "destroy")' /\ Head(drop'[t]) = o
  PROVE  RefsInv'
<1>1. Turns' /\ AtHandInv' /\ EmptyInv' BY OthersKeep
<1>2. MineTyped(t)' BY <1>1, MineStaysTyped
<1>3. OnlyMine(t) BY DEF OnlyMine, Others, Untouched
<1>4. HeldInv' BY <1>1, <1>2, <1>3, CountsKept DEF RefsInv
<1>5. QED BY <1>1, <1>4 DEF RefsInv

\* While no thread frees an object, every object that is alive has a reference.
LEMMA NobodyFrees ==
  ASSUME RefsInv, NEW t \in Threads, Solo(t), pc[t] # "destroy", NEW o \in Objs, heap[o] # Free
  PROVE  heap[o].refcnt # 0 /\ heap[o].refcnt \in Nat
<1>1. \A u \in Threads : pc[u] # "destroy" BY DEF Solo
<1>2. QED BY <1>1 DEF RefsInv, HeldInv, CountsMatch, At, TypeOK

LEMMA NewDeviceKeepsRefs == ASSUME TreeAssumption, RefsInv, NEW t \in Threads, NewDevice(t) PROVE RefsInv'
<1>1. /\ pc[t] = "alloc" /\ Go(t, "initialize")
      /\ UNCHANGED <<bus, buses, todo, entry, r, app, there, discdevs, drop>>
  BY DEF NewDevice, At
<1>2. PICK o \in Objs : /\ heap[o] = Free /\ Alloc(o, entry[t][2], entry[t][1]) /\ dev' = [dev EXCEPT ![t] = o]
  BY DEF NewDevice
<1> DEFINE new == [Free EXCEPT !.session = entry[t][2], !.dir = entry[t][1], !.refcnt = 1]
<1>3. /\ entry[t] \in Dirs \X (1 .. MaxAddr) /\ new.refcnt = 1 /\ new.session = entry[t][2] /\ new.dir = entry[t][1]
      /\ new \in [session : 0 .. MaxAddr, dir : Dirs \cup {NoDir}, refcnt : Nat, parent : Objs \cup {NoObj}, port : Nat]
  <2>1. entry[t] \in Dirs \X (1 .. MaxAddr) BY <1>1 DEF RefsInv, TypeOK, AtHandInv, AtHand, Reading
  <2>2. entry[t][1] \in Dirs /\ entry[t][2] \in 0 .. MaxAddr BY <2>1
  <2>3. new \in [session : 0 .. MaxAddr, dir : Dirs \cup {NoDir}, refcnt : Nat, parent : Objs \cup {NoObj}, port : Nat]
    BY <2>2 DEF Free
  <2>4. new.refcnt = 1 /\ new.session = entry[t][2] /\ new.dir = entry[t][1] BY DEF Free
  <2>5. QED BY <2>1, <2>3, <2>4
<1>4. new # Free /\ heap' = [heap EXCEPT ![o] = new] /\ usb_devs' = <<o>> \o usb_devs
  BY <1>2, <1>3 DEF Alloc, Free
<1> HIDE DEF new
<1>5. Others(t) /\ Solo(t)
  BY <1>1, <1>2, TurnIsSolo DEF Others, Untouched, RefsInv, TypeOK, Go, app
<1>6. pc'[t] = "initialize" /\ dev'[t] = o /\ entry'[t] = entry[t] /\ heap'[o] = new
  BY <1>1, <1>2, <1>4 DEF RefsInv, TypeOK, Go
<1>7. /\ usb_devs' \in Seq(Objs) /\ DOMAIN usb_devs' = 1 .. Len(usb_devs) + 1 /\ Len(usb_devs) \in Nat
      /\ DOMAIN usb_devs = 1 .. Len(usb_devs)
      /\ usb_devs'[1] = o /\ \A i \in 2 .. Len(usb_devs) + 1 : usb_devs'[i] = usb_devs[i - 1]
  <2>1. usb_devs \in Seq(Objs) /\ <<o>> \in Seq(Objs) /\ Len(<<o>>) = 1 /\ <<o>>[1] = o BY DEF RefsInv, TypeOK
  <2>2. Len(usb_devs) \in Nat /\ DOMAIN usb_devs = 1 .. Len(usb_devs) BY <2>1, LenProperties
  <2>3. /\ usb_devs' \in Seq(Objs) /\ Len(usb_devs') = 1 + Len(usb_devs)
        /\ \A i \in 1 .. 1 + Len(usb_devs) : usb_devs'[i] = IF i <= 1 THEN <<o>>[i] ELSE usb_devs[i - 1]
    BY <1>4, <2>1, ConcatProperties
  <2>4. DOMAIN usb_devs' = 1 .. Len(usb_devs) + 1 BY <2>2, <2>3, LenProperties
  <2>5. QED BY <2>1, <2>2, <2>3, <2>4
<1>8. TypeOK' BY <1>1, <1>2, <1>3, <1>4, <1>7 DEF RefsInv, TypeOK, Go, bus, app
<1>9. HeapInv'
  <2>1. \A i \in 1 .. Len(usb_devs) : usb_devs[i] # o BY <1>2, <1>7 DEF RefsInv, HeapInv
  <2>2. \A q \in Objs : heap'[q] # Free => heap'[q].session \in 1 .. MaxAddr /\ heap'[q].dir \in Dirs
    BY <1>3, <1>4 DEF RefsInv, HeapInv, TypeOK
  <2>3. \A q \in Objs : heap'[q] # Free <=> \E i \in DOMAIN usb_devs' : usb_devs'[i] = q
    <3> TAKE q \in Objs
    <3>1. CASE q = o
      <4>1. 1 \in DOMAIN usb_devs' /\ usb_devs'[1] = q BY <1>7, <3>1
      <4>2. QED BY <1>4, <1>6, <3>1, <4>1
    <3>2. CASE q # o
      <4>1. heap'[q] = heap[q] BY <1>4, <3>2
      <4>2. \A i \in 1 .. Len(usb_devs) : usb_devs[i] = q => i + 1 \in DOMAIN usb_devs' /\ usb_devs'[i + 1] = q
        <5> TAKE i \in 1 .. Len(usb_devs)
        <5> DEFINE k == i + 1
        <5>1. k \in 2 .. Len(usb_devs) + 1 /\ k \in DOMAIN usb_devs' /\ k - 1 = i BY <1>7
        <5> HIDE DEF k
        <5>2. usb_devs'[k] = usb_devs[i] BY <1>7, <5>1
        <5>3. QED BY <5>1, <5>2 DEF k
      <4>3. \A i \in DOMAIN usb_devs' : usb_devs'[i] = q => i - 1 \in DOMAIN usb_devs /\ usb_devs[i - 1] = q
        BY <1>7, <3>2
      <4>4. heap[q] # Free <=> \E i \in DOMAIN usb_devs : usb_devs[i] = q BY DEF RefsInv, HeapInv
      <4>5. DOMAIN usb_devs = 1 .. Len(usb_devs) BY <1>7
      <4>6. QED BY <4>1, <4>2, <4>3, <4>4, <4>5
    <3>3. QED BY <3>1, <3>2
  <2>4. \A i, j \in DOMAIN usb_devs' : usb_devs'[i] = usb_devs'[j] => i = j
    <3> TAKE i, j \in DOMAIN usb_devs'
    <3> HAVE usb_devs'[i] = usb_devs'[j]
    <3>1. CASE i = 1 \/ j = 1
      <4>1. \A k \in 2 .. Len(usb_devs) + 1 : usb_devs'[k] # o BY <1>7, <2>1
      <4>2. QED BY <1>7, <3>1, <4>1
    <3>2. CASE i # 1 /\ j # 1
      <4>1. i - 1 \in DOMAIN usb_devs /\ j - 1 \in DOMAIN usb_devs /\ usb_devs[i - 1] = usb_devs[j - 1] BY <1>7, <3>2
      <4>2. i - 1 = j - 1 BY <4>1 DEF RefsInv, HeapInv
      <4>3. QED BY <1>7, <4>2
    <3>3. QED BY <3>1, <3>2
  <2>5. QED BY <2>2, <2>3, <2>4 DEF HeapInv
<1>10. AtHand(t)' BY <1>3, <1>4, <1>6, TreeAssumption DEF AtHand, Reading, RefsInv, AtHandInv
<1>11. Empty(t)'
  <2>1. Empty(t) BY DEF RefsInv, EmptyInv
  <2>2. Busy(t) /\ Busy(t)' BY <1>1, <1>6 DEF Busy, Reading
  <2>3. QED BY <1>1, <1>6, <2>1, <2>2 DEF Empty, Leaving, app
<1>12. \A q \in Objs : heap'[q].refcnt + Mine(t, q) = heap[q].refcnt + Mine(t, q)'
  <2> TAKE q \in Objs
  <2>1. Times(q, New(t)) = 0 /\ Times(q, New(t)') = IF q = o THEN 1 ELSE 0
    BY <1>1, <1>6, TimesEmpty, TimesOne DEF New
  <2>2. GivingUp(t)' = GivingUp(t) BY <1>1, <1>6 DEF GivingUp, At
  <2>3. Mine(t, q)' = Mine(t, q) + (IF q = o THEN 1 ELSE 0)
    BY <1>1, <2>1, <2>2, TermsOfMine DEF Mine, Total, app
  <2>4. Mine(t, q) \in Nat BY TermsOfMine DEF Mine, Total
  <2>5. heap'[q].refcnt = heap[q].refcnt + (IF q = o THEN 1 ELSE 0) /\ heap[q].refcnt \in Nat
    <3>1. heap[q].refcnt \in Nat /\ heap[o].refcnt = 0 BY <1>2 DEF RefsInv, TypeOK, Free
    <3>2. q # o => heap'[q] = heap[q] BY <1>4
    <3>3. QED BY <1>3, <1>6, <3>1, <3>2
  <2>6. QED BY <2>3, <2>4, <2>5
<1>13. \A q \in Objs : heap'[q].refcnt = 0 => heap'[q] = Free
  <2> TAKE q \in Objs
  <2>1. heap[q].refcnt = 0 => heap[q] = Free BY <1>1, <1>5, NobodyFrees
  <2>2. CASE q = o BY <1>3, <1>6, <2>2
  <2>3. CASE q # o BY <1>4, <2>1, <2>3
  <2>4. QED BY <2>2, <2>3
<1>14. QED BY <1>1, <1>5, <1>8, <1>9, <1>10, <1>11, <1>12, <1>13, StepKeepsRefs DEF app

LEMMA InitializeKeepsRefs == ASSUME TreeAssumption, RefsInv, NEW t \in Threads, Initialize(t) PROVE RefsInv'
<1>1. pc[t] = "initialize" /\ UNCHANGED <<bus, objv, buses, todo, entry, dev, app, there, discdevs>>
  BY DEF Initialize, At
<1>2. \/ Go(t, "append_new") /\ UNCHANGED <<drop, r>>
      \/ GiveUp(t, <<dev[t]>>) /\ r' = [r EXCEPT ![t] = Counted(t, FALSE)]
  BY DEF Initialize
<1>3. Empty(t) /\ AtHand(t) /\ drop[t] = <<>> /\ dev[t] \in Objs /\ entry[t][1] # NoDir
  BY <1>1 DEF RefsInv, EmptyInv, AtHandInv, Empty, AtHand, Reading, Leaving
<1>4. /\ \/ pc'[t] = "append_new" /\ drop'[t] = <<>>
         \/ pc'[t] = "drop" /\ drop'[t] = <<dev[t]>>
      /\ Others(t) /\ Solo(t)
  BY <1>1, <1>2, <1>3, TurnIsSolo, ZenonT(40) DEF RefsInv, TypeOK, GiveUp, Go, Others, Untouched, app
<1>5. TypeOK'
  <2>1. <<dev[t]>> \in Seq(Objs) BY <1>3
  <2>2. drop' \in [Threads -> Seq(Objs)]
    <3>1. drop' = drop \/ drop' = [drop EXCEPT ![t] = <<dev[t]>>] BY <1>2 DEF GiveUp
    <3>2. drop \in [Threads -> Seq(Objs)] BY DEF RefsInv, TypeOK
    <3>3. QED BY <2>1, <3>1, <3>2
  <2>3. r' \in [Threads -> BOOLEAN] BY <1>2 DEF Counted, RefsInv, TypeOK
  <2>4. QED BY <1>1, <1>2, <2>2, <2>3 DEF RefsInv, TypeOK, Go, GiveUp, bus, objv, app
<1>6. HeapInv' BY <1>1 DEF RefsInv, HeapInv, objv
<1>7. AtHand(t)' BY <1>1, <1>3, <1>4 DEF AtHand, objv, Reading, Leaving
<1>8. Empty(t)'
  <2>1. Busy(t) /\ Busy(t)' BY <1>1, <1>3, <1>4 DEF Busy, Reading
  <2>2. QED BY <1>1, <1>3, <1>4, <2>1 DEF Empty, Leaving, app
<1>9. \A o \in Objs : Mine(t, o)' = Mine(t, o)
  <2> TAKE o \in Objs
  <2>1. Times(o, GivingUp(t)) = 0 /\ New(t) = <<dev[t]>> BY <1>1, <1>3, TimesEmpty DEF GivingUp, At, New
  <2>2. CASE pc'[t] = "append_new"
    <3>1. New(t)' = New(t) /\ GivingUp(t)' = GivingUp(t) BY <1>1, <1>3, <1>4, <2>2 DEF New, GivingUp, At
    <3>2. QED BY <1>1, <3>1 DEF Mine, app
  <2>3. CASE pc'[t] = "drop"
    <3>1. New(t)' = <<>> /\ GivingUp(t)' = <<dev[t]>> BY <1>4, <2>3 DEF New, GivingUp, At
    <3>2. Times(o, New(t)') = 0 BY <3>1, TimesEmpty
    <3> DEFINE a == Times(o, list[t])  b == Times(o, discdevs[t])  d == Times(o, <<handle[t]>>)  e == Times(o, New(t))
    <3>3. a \in Nat /\ b \in Nat /\ d \in Nat /\ e \in Nat BY TermsOfMine
    <3>4. Mine(t, o) = a + b + 0 + d + e BY <2>1 DEF Mine, Total
    <3>5. Mine(t, o)' = a + b + e + d + 0 BY <1>1, <2>1, <3>1, <3>2 DEF Mine, Total, app
    <3> HIDE DEF a, b, d, e
    <3>6. QED BY <3>3, <3>4, <3>5
  <2>4. QED BY <1>4, <2>2, <2>3
<1>10. \A o \in Objs : heap'[o] # Free => heap'[o].refcnt # 0 BY <1>1, <1>4, NobodyFrees DEF objv
<1>11. \A o \in Objs : heap'[o].refcnt + Mine(t, o) = heap[o].refcnt + Mine(t, o)' BY <1>1, <1>9 DEF objv
<1>12. QED BY <1>1, <1>4, <1>5, <1>6, <1>7, <1>8, <1>10, <1>11, StepKeepsRefs DEF app

\* One more reference to an object that is alive.
LEMMA RefProperties ==
  ASSUME RefsInv, NEW o \in Objs, heap[o] # Free, heap' = Ref(o), UNCHANGED usb_devs
  PROVE  /\ heap' \in [Objs -> [session : 0 .. MaxAddr, dir : Dirs \cup {NoDir}, refcnt : Nat,
                                parent : Objs \cup {NoObj}, port : Nat]]
         /\ \A q \in Objs : /\ heap'[q].session = heap[q].session /\ heap'[q].dir = heap[q].dir
                            /\ heap'[q].refcnt = heap[q].refcnt + (IF q = o THEN 1 ELSE 0)
                            /\ heap'[q].parent = heap[q].parent /\ heap'[q].port = heap[q].port
                            /\ (heap'[q] = Free <=> heap[q] = Free)
                            /\ heap'[q].refcnt \in Nat /\ heap[q].refcnt \in Nat
         /\ HeapInv'
<1>1. heap[o].session \in 1 .. MaxAddr /\ heap'[o].session = heap[o].session BY DEF RefsInv, TypeOK, HeapInv, Ref
<1>2. heap'[o] # Free BY <1>1 DEF Free
<1>3. /\ heap' \in [Objs -> [session : 0 .. MaxAddr, dir : Dirs \cup {NoDir}, refcnt : Nat,
                             parent : Objs \cup {NoObj}, port : Nat]]
      /\ \A q \in Objs : /\ heap'[q].session = heap[q].session /\ heap'[q].dir = heap[q].dir
                         /\ heap'[q].refcnt = heap[q].refcnt + (IF q = o THEN 1 ELSE 0)
                         /\ heap'[q].parent = heap[q].parent /\ heap'[q].port = heap[q].port
                         /\ (heap'[q] = Free <=> heap[q] = Free)
                         /\ heap'[q].refcnt \in Nat /\ heap[q].refcnt \in Nat
  <2>1. heap' \in [Objs -> [session : 0 .. MaxAddr, dir : Dirs \cup {NoDir}, refcnt : Nat,
                           parent : Objs \cup {NoObj}, port : Nat]]
    <3> DEFINE R == [session : 0 .. MaxAddr, dir : Dirs \cup {NoDir}, refcnt : Nat, parent : Objs \cup {NoObj}, port : Nat]
               new == [heap[o] EXCEPT !.refcnt = @ + 1]
    <3>1. heap \in [Objs -> R] BY DEF RefsInv, TypeOK
    <3>2. new \in R BY <3>1
    <3>3. heap' = [heap EXCEPT ![o] = new] BY DEF Ref
    <3> HIDE DEF new, R
    <3>4. heap' \in [Objs -> R] BY <3>1, <3>2, <3>3
    <3>5. QED BY <3>4 DEF R
  <2>2. /\ heap'[o].session = heap[o].session /\ heap'[o].dir = heap[o].dir /\ heap'[o].refcnt = heap[o].refcnt + 1
        /\ heap'[o].parent = heap[o].parent /\ heap'[o].port = heap[o].port
    BY DEF RefsInv, TypeOK, Ref
  <2>3. \A q \in Objs : q # o => heap'[q] = heap[q] BY DEF RefsInv, TypeOK, Ref
  <2>4. \A q \in Objs : heap[q].refcnt \in Nat /\ heap'[q].refcnt \in Nat BY <2>1 DEF RefsInv, TypeOK
  <2> SUFFICES ASSUME NEW q \in Objs
               PROVE  /\ heap'[q].session = heap[q].session /\ heap'[q].dir = heap[q].dir
                      /\ heap'[q].refcnt = heap[q].refcnt + (IF q = o THEN 1 ELSE 0)
                      /\ heap'[q].parent = heap[q].parent /\ heap'[q].port = heap[q].port
                      /\ (heap'[q] = Free <=> heap[q] = Free)
    BY <2>1, <2>4
  <2>5. CASE q = o BY <1>2, <2>2, <2>5
  <2>6. CASE q # o BY <2>3, <2>4, <2>6
  <2>7. QED BY <2>5, <2>6
<1>4. HeapInv' BY <1>3 DEF RefsInv, HeapInv
<1>5. QED BY <1>3, <1>4

LEMMA AppendDeviceKeepsRefs == ASSUME TreeAssumption, RefsInv, NEW t \in Threads, AppendDevice(t) PROVE RefsInv'
<1> DEFINE o == dev[t]  gone == IF At(t, "append_new") THEN <<dev[t]>> ELSE <<>>
<1>1. /\ pc[t] \in {"append", "append_new"} /\ UNCHANGED <<bus, usb_devs, buses, todo, entry, dev, app, there>>
      /\ discdevs' = [discdevs EXCEPT ![t] = Append(@, o)] /\ heap' = Ref(o)
      /\ r' = [r EXCEPT ![t] = Counted(t, TRUE)] /\ GiveUp(t, gone)
  BY DEF AppendDevice, AppendRef
<1>2. Empty(t) /\ drop[t] = <<>> /\ o \in Objs /\ heap[o] # Free /\ entry[t][1] # NoDir
  BY <1>1 DEF RefsInv, EmptyInv, AtHandInv, Empty, AtHand, Reading, Leaving
<1>3. /\ pc'[t] = "drop" /\ drop'[t] = gone /\ discdevs'[t] = Append(discdevs[t], o)
      /\ Others(t) /\ Solo(t)
  BY <1>1, TurnIsSolo DEF RefsInv, TypeOK, GiveUp, Go, Others, Untouched, app
<1>4. gone \in Seq(Objs) /\ \A q : Times(q, gone) = IF At(t, "append_new") /\ q = o THEN 1 ELSE 0
  BY <1>2, TimesEmpty, TimesOne
<1>5. /\ Append(discdevs[t], o) \in Seq(Objs)
      /\ \A q : Times(q, Append(discdevs[t], o)) = Times(q, discdevs[t]) + (IF o = q THEN 1 ELSE 0)
  <2>1. discdevs[t] \in Seq(Objs) BY DEF RefsInv, TypeOK
  <2>2. QED BY <1>2, <2>1, TimesAppend
<1> HIDE DEF o, gone
<1>6. TypeOK'
  <2>1. drop' \in [Threads -> Seq(Objs)] /\ discdevs' \in [Threads -> Seq(Objs)]
    BY <1>1, <1>4, <1>5 DEF GiveUp, RefsInv, TypeOK
  <2>2. r' \in [Threads -> BOOLEAN] BY <1>1 DEF Counted, RefsInv, TypeOK
  <2>3. QED BY <1>1, <1>2, <2>1, <2>2, RefProperties DEF RefsInv, TypeOK, Go, GiveUp, bus, app
<1>7. HeapInv' BY <1>1, <1>2, RefProperties
<1>8. AtHand(t)' BY <1>3 DEF AtHand, Reading, Leaving
<1>9. Empty(t)'
  <2>1. Busy(t) /\ Busy(t)' BY <1>1, <1>2, <1>3 DEF Busy, Reading
  <2>2. QED BY <1>1, <1>2, <1>3, <2>1 DEF Empty, Leaving, app
<1>10. \A q \in Objs : heap'[q].refcnt + Mine(t, q) = heap[q].refcnt + Mine(t, q)'
  <2> TAKE q \in Objs
  <2>1. Times(q, GivingUp(t)) = 0 BY <1>1, <1>2, TimesEmpty DEF GivingUp, At
  <2>2. New(t) = gone BY <1>1, <1>2 DEF New, At, gone, o
  <2>3. New(t)' = <<>> /\ GivingUp(t)' = gone BY <1>3 DEF New, GivingUp, At
  <2>4. Times(q, New(t)') = 0 BY <2>3, TimesEmpty
  <2>5. Times(q, gone) \in Nat BY <2>2, TermsOfMine
  <2>6. Mine(t, q)' = Mine(t, q) + (IF o = q THEN 1 ELSE 0) /\ Mine(t, q) \in Nat
    <3>1. list' = list /\ handle' = handle BY <1>1 DEF app
    <3>2. Mine(t, q) = Times(q, list[t]) + Times(q, discdevs[t]) + 0 + Times(q, <<handle[t]>>) + Times(q, gone)
      BY <2>1, <2>2 DEF Mine, Total
    <3>3. Mine(t, q)' = Times(q, list[t]) + (Times(q, discdevs[t]) + (IF o = q THEN 1 ELSE 0)) + Times(q, gone)
                        + Times(q, <<handle[t]>>) + 0
      BY <1>3, <1>5, <2>3, <2>4, <3>1 DEF Mine, Total
    <3>4. Times(q, list[t]) \in Nat /\ Times(q, discdevs[t]) \in Nat /\ Times(q, <<handle[t]>>) \in Nat
      BY TermsOfMine
    <3>5. QED BY <2>5, <3>2, <3>3, <3>4
  <2>7. heap'[q].refcnt = heap[q].refcnt + (IF q = o THEN 1 ELSE 0) /\ heap[q].refcnt \in Nat
    BY <1>1, <1>2, RefProperties
  <2>8. QED BY <2>6, <2>7
<1>11. \A q \in Objs : heap'[q] # Free => heap'[q].refcnt # 0
  <2> TAKE q \in Objs
  <2>1. heap[q] # Free => heap[q].refcnt # 0 BY <1>1, <1>3, NobodyFrees
  <2>2. /\ heap'[q].refcnt = heap[q].refcnt + (IF q = o THEN 1 ELSE 0) /\ heap[q].refcnt \in Nat
        /\ (heap'[q] = Free <=> heap[q] = Free)
    BY <1>1, <1>2, RefProperties
  <2>3. QED BY <2>1, <2>2
<1>12. QED BY <1>1, <1>3, <1>6, <1>7, <1>8, <1>9, <1>10, <1>11, StepKeepsRefs DEF app

\* The end of an enumeration changes neither what an object is nor its count.
LEMMA AnalyzedProperties ==
  ASSUME TreeAssumption, RefsInv, NEW t \in Threads, pc[t] = "scan", NEW o \in Objs
  PROVE  LET a == Analyzed(discdevs[t])[o]
         IN /\ a \in [session : 0 .. MaxAddr, dir : Dirs \cup {NoDir}, refcnt : Nat, parent : Objs \cup {NoObj}, port : Nat]
            /\ a.session = heap[o].session /\ a.dir = heap[o].dir /\ a.refcnt = heap[o].refcnt
            /\ (a = Free <=> heap[o] = Free)
<1> DEFINE devs == discdevs[t]
           p == CHOOSE q \in Parents(o, devs) : TRUE
           up == IF Parents(o, devs) = {} THEN heap[o].parent ELSE p
           a == Analyzed(devs)[o]
<1>1. \A q \in ToSet(devs) : q \in Objs /\ heap[q] # Free BY FoundIsAlive
<1>2. Parents(o, devs) # {} => p \in Objs BY <1>1 DEF Parents
<1>3. heap[o] \in [session : 0 .. MaxAddr, dir : Dirs \cup {NoDir}, refcnt : Nat, parent : Objs \cup {NoObj}, port : Nat]
  BY DEF RefsInv, TypeOK
<1>4. up \in Objs \cup {NoObj} BY <1>2, <1>3
<1>5. CASE o \notin ToSet(devs) \/ heap[o].dir \in RootHubs \cup {NoDir}
  <2>1. a = heap[o] BY <1>5 DEF Analyzed
  <2>2. QED BY <1>3, <2>1
<1>6. CASE o \in ToSet(devs) /\ heap[o].dir \notin RootHubs \cup {NoDir}
  <2>1. a = [heap[o] EXCEPT !.port = Port[heap[o].dir], !.parent = up] BY <1>6 DEF Analyzed
  <2>2. Port[heap[o].dir] \in Nat BY <1>3, <1>6 DEF TreeAssumption
  <2>3. heap[o] # Free /\ heap[o].session # 0 BY <1>1, <1>6 DEF RefsInv, HeapInv
  <2> HIDE DEF up, a
  <2>4. /\ a \in [session : 0 .. MaxAddr, dir : Dirs \cup {NoDir}, refcnt : Nat, parent : Objs \cup {NoObj}, port : Nat]
        /\ a.session = heap[o].session /\ a.dir = heap[o].dir /\ a.refcnt = heap[o].refcnt
    BY <1>3, <1>4, <2>1, <2>2
  <2>5. a # Free BY <2>3, <2>4 DEF Free
  <2>6. QED BY <2>3, <2>4, <2>5 DEF a
<1>7. QED BY <1>5, <1>6

LEMMA EndScanKeepsRefs == ASSUME TreeAssumption, RefsInv, NEW t \in Threads, EndScan(t) PROVE RefsInv'
<1>1. /\ pc[t] = "scan" /\ Go(t, "deliver") /\ buses' = [buses EXCEPT ![t] = {}]
      /\ UNCHANGED <<bus, usb_devs, todo, entry, dev, r, app, there, discdevs, drop>>
      /\ heap' = IF Sysfs THEN Analyzed(discdevs[t]) ELSE heap
  BY DEF EndScan, At
<1>2. /\ heap' \in [Objs -> [session : 0 .. MaxAddr, dir : Dirs \cup {NoDir}, refcnt : Nat,
                             parent : Objs \cup {NoObj}, port : Nat]]
      /\ \A o \in Objs : /\ heap'[o].session = heap[o].session /\ heap'[o].dir = heap[o].dir
                         /\ heap'[o].refcnt = heap[o].refcnt /\ (heap'[o] = Free <=> heap[o] = Free)
  <2>1. CASE Sysfs
    <3>1. heap' = Analyzed(discdevs[t]) BY <1>1, <2>1
    <3>2. heap' = [o \in Objs |-> heap'[o]] BY <3>1 DEF Analyzed
    <3>3. QED BY <1>1, <3>1, <3>2, AnalyzedProperties
  <2>2. CASE ~Sysfs BY <1>1, <2>2 DEF RefsInv, TypeOK
  <2>3. QED BY <2>1, <2>2
<1>3. TypeOK' BY <1>1, <1>2 DEF RefsInv, TypeOK, Go, bus, app
<1>4. Others(t) /\ Solo(t) /\ pc'[t] = "deliver" /\ entry[t][1] = NoDir
  BY <1>1, TurnIsSolo DEF Others, Untouched, RefsInv, TypeOK, Go, app, AtHandInv, AtHand, Reading, Leaving
<1>5. AtHand(t)' BY <1>1, <1>4 DEF AtHand, Reading
<1>6. Empty(t)'
  <2>1. Empty(t) /\ Busy(t) /\ Busy(t)' BY <1>1, <1>4 DEF RefsInv, EmptyInv, Busy
  <2>2. QED BY <1>1, <1>4, <2>1 DEF Empty, Leaving, app
<1>7. Turns' /\ AtHandInv' /\ EmptyInv' BY <1>4, <1>5, <1>6, OthersKeep
<1>8. HeapInv' BY <1>1, <1>2 DEF RefsInv, HeapInv
<1>9. HeldInv'
  <2>1. \A u \in Threads : New(u)' = New(u) /\ (At(u, "destroy")' <=> At(u, "destroy"))
    BY <1>1, <1>4 DEF New, At, Others, Untouched
  <2>2. QED BY <1>1, <1>2, <2>1, QuietCounts DEF RefsInv, app
<1>10. QED BY <1>3, <1>7, <1>8, <1>9 DEF RefsInv

LEMMA DeliverKeepsRefs == ASSUME TreeAssumption, RefsInv, NEW t \in Threads, Deliver(t) PROVE RefsInv'
<1>1. /\ pc[t] = "deliver" /\ UNCHANGED <<bus, objv, buses, todo, entry, dev, handle, lost, drop>>
      /\ \/ /\ goal[t] = "list" /\ Return(t) /\ list' = [list EXCEPT ![t] = discdevs[t]]
            /\ discdevs' = [discdevs EXCEPT ![t] = <<>>]
         \/ goal[t] # "list" /\ Go(t, goal[t]) /\ UNCHANGED <<goal, there, r, list, discdevs>>
  BY DEF Deliver, At
<1>2. Empty(t) /\ AtHand(t) /\ Busy(t) /\ drop[t] = <<>> /\ entry[t][1] = NoDir /\ goal[t] \in {"list", "path", "vid_pid"}
  BY <1>1 DEF RefsInv, EmptyInv, AtHandInv, Empty, AtHand, Busy, Reading, Leaving, TypeOK
<1>3. Others(t) /\ Solo(t)
  <2>1. Solo(t) BY <1>1, TurnIsSolo
  <2>2. Others(t) BY <1>1 DEF RefsInv, TypeOK, Go, Return, Others, Untouched
  <2>3. QED BY <2>1, <2>2
<1>4. \/ /\ goal[t] = "list" /\ pc'[t] = "idle" /\ goal'[t] = "list" /\ list'[t] = discdevs[t] /\ discdevs'[t] = <<>>
         /\ list[t] = <<>>
      \/ /\ goal[t] \in {"path", "vid_pid"} /\ pc'[t] = goal[t] /\ goal'[t] = goal[t]
         /\ list' = list /\ discdevs' = discdevs
  BY <1>1, <1>2 DEF RefsInv, TypeOK, Go, Return, Empty
<1>5. TypeOK'
  <2>1. UNCHANGED <<mode, addr, next_addr, heap, usb_devs, buses, todo, entry, dev, handle, lost, drop>>
    BY <1>1 DEF bus, objv
  <2>2. CASE goal[t] = "list"
    <3>1. /\ pc' = [pc EXCEPT ![t] = "idle"] /\ goal' = [goal EXCEPT ![t] = "list"]
          /\ there' = [there EXCEPT ![t] = {}] /\ r' = [r EXCEPT ![t] = FALSE]
          /\ list' = [list EXCEPT ![t] = discdevs[t]] /\ discdevs' = [discdevs EXCEPT ![t] = <<>>]
      BY <1>1, <2>2 DEF Return, Go
    <3>2. list' \in [Threads -> Seq(Objs)] BY <3>1 DEF RefsInv, TypeOK
    <3>3. discdevs' \in [Threads -> Seq(Objs)]
      <4>1. <<>> \in Seq(Objs) OBVIOUS
      <4>2. QED BY <3>1, <4>1 DEF RefsInv, TypeOK
    <3>4. /\ pc' \in [Threads -> {"idle", "scan", "alloc", "initialize", "append", "append_new",
                                "deliver", "drop", "destroy", "path", "vid_pid"}]
          /\ goal' \in [Threads -> {"list", "path", "vid_pid"}] /\ r' \in [Threads -> BOOLEAN]
          /\ there' \in [Threads -> SUBSET (Dirs \X (1 .. MaxAddr))]
      BY <3>1 DEF RefsInv, TypeOK
    <3>5. QED BY <2>1, <3>2, <3>3, <3>4 DEF RefsInv, TypeOK
  <2>3. CASE goal[t] # "list"
    <3>1. pc' = [pc EXCEPT ![t] = goal[t]] /\ UNCHANGED <<goal, there, r, list, discdevs>>
      BY <1>1, <2>3 DEF Go
    <3>2. QED BY <1>2, <2>1, <2>3, <3>1 DEF RefsInv, TypeOK
  <2>4. QED BY <2>2, <2>3
<1>6. HeapInv' BY <1>1 DEF RefsInv, HeapInv, objv
<1>7. AtHand(t)' BY <1>1, <1>2, <1>4 DEF AtHand, Reading
<1>8. Empty(t)'
  <2>1. ~Busy(t)' BY <1>1, <1>2, <1>4 DEF Busy, Reading
  <2>2. QED BY <1>1, <1>2, <1>4, <2>1 DEF Empty, Leaving
<1>9. \A o \in Objs : Mine(t, o)' = Mine(t, o)
  <2> TAKE o \in Objs
  <2>1. New(t)' = New(t) /\ GivingUp(t)' = GivingUp(t) /\ handle' = handle BY <1>1, <1>4 DEF GivingUp, At, New
  <2>2. Times(o, list'[t]) + Times(o, discdevs'[t]) = Times(o, list[t]) + Times(o, discdevs[t])
    <3>1. Times(o, <<>>) = 0 /\ Times(o, list[t]) \in Nat /\ Times(o, discdevs[t]) \in Nat BY TimesEmpty, TermsOfMine
    <3>2. QED BY <1>4, <3>1
  <2>3. QED BY <2>1, <2>2 DEF Mine, Total
<1>10. \A o \in Objs : heap'[o] # Free => heap'[o].refcnt # 0 BY <1>1, <1>3, NobodyFrees DEF objv
<1>11. \A o \in Objs : heap'[o].refcnt + Mine(t, o) = heap[o].refcnt + Mine(t, o)' BY <1>1, <1>9 DEF objv
<1>12. QED BY <1>1, <1>3, <1>5, <1>6, <1>7, <1>8, <1>10, <1>11, StepKeepsRefs

LEMMA FailKeepsRefs == ASSUME TreeAssumption, RefsInv, NEW t \in Threads, Fail(t) PROVE RefsInv'
<1>1. /\ pc[t] = "deliver" /\ UNCHANGED <<bus, objv, scan, app, there>>
      /\ GiveUp(t, discdevs[t]) /\ discdevs' = [discdevs EXCEPT ![t] = <<>>]
  BY DEF Fail, At
<1>2. Empty(t) /\ AtHand(t) /\ drop[t] = <<>> /\ entry[t][1] = NoDir
  BY <1>1 DEF RefsInv, EmptyInv, AtHandInv, Empty, AtHand, Reading, Leaving
<1>3. Others(t) /\ Solo(t) /\ pc'[t] = "drop" /\ drop'[t] = discdevs[t] /\ discdevs'[t] = <<>>
  BY <1>1, TurnIsSolo DEF RefsInv, TypeOK, Go, GiveUp, Others, Untouched, scan, app
<1>4. TypeOK'
  <2>1. drop' \in [Threads -> Seq(Objs)] /\ discdevs' \in [Threads -> Seq(Objs)]
    <3>1. <<>> \in Seq(Objs) /\ discdevs[t] \in Seq(Objs) BY DEF RefsInv, TypeOK
    <3>2. QED BY <1>1, <3>1 DEF RefsInv, TypeOK, GiveUp
  <2>2. QED BY <1>1, <2>1 DEF RefsInv, TypeOK, Go, GiveUp, bus, objv, scan, app
<1>5. HeapInv' BY <1>1 DEF RefsInv, HeapInv, objv
<1>6. AtHand(t)' BY <1>1, <1>2, <1>3 DEF AtHand, Reading, scan
<1>7. Empty(t)'
  <2>1. ~Busy(t)' BY <1>1, <1>2, <1>3 DEF Busy, Reading, scan
  <2>2. QED BY <1>1, <1>2, <1>3, <2>1 DEF Empty, Leaving, app
<1>8. \A o \in Objs : Mine(t, o)' = Mine(t, o)
  <2> TAKE o \in Objs
  <2>1. /\ New(t) = <<>> /\ New(t)' = <<>> /\ GivingUp(t) = <<>> /\ GivingUp(t)' = discdevs[t]
        /\ handle' = handle /\ list' = list
    BY <1>1, <1>2, <1>3 DEF GivingUp, At, New, app
  <2>2. Times(o, discdevs'[t]) = 0 /\ Times(o, GivingUp(t)) = 0 BY <1>3, <2>1, TimesEmpty
  <2>3. QED BY <2>1, <2>2, TermsOfMine DEF Mine, Total
<1>9. \A o \in Objs : heap'[o] # Free => heap'[o].refcnt # 0 BY <1>1, <1>3, NobodyFrees DEF objv
<1>10. \A o \in Objs : heap'[o].refcnt + Mine(t, o) = heap[o].refcnt + Mine(t, o)' BY <1>1, <1>8 DEF objv
<1>11. QED BY <1>1, <1>3, <1>4, <1>5, <1>6, <1>7, <1>9, <1>10, StepKeepsRefs DEF app

LEMMA FreeDeviceListKeepsRefs ==
  ASSUME TreeAssumption, Serial, RefsInv, NEW t \in Threads, FreeDeviceList(t)
  PROVE  RefsInv'
<1>1. /\ pc[t] = "idle" /\ Solo(t) /\ UNCHANGED <<bus, objv, scan, goal, handle, lost, there, discdevs>>
      /\ GiveUp(t, list[t]) /\ list' = [list EXCEPT ![t] = <<>>]
  BY AloneIsSolo DEF FreeDeviceList, At
<1>2. Empty(t) /\ AtHand(t) /\ drop[t] = <<>> /\ entry[t][1] = NoDir
  BY <1>1 DEF RefsInv, EmptyInv, AtHandInv, Empty, AtHand, Reading, Leaving
<1>3. Others(t) /\ pc'[t] = "drop" /\ drop'[t] = list[t] /\ list'[t] = <<>>
  BY <1>1 DEF RefsInv, TypeOK, Go, GiveUp, Others, Untouched, scan
<1>4. TypeOK'
  <2>1. drop' \in [Threads -> Seq(Objs)] /\ list' \in [Threads -> Seq(Objs)]
    <3>1. <<>> \in Seq(Objs) /\ list[t] \in Seq(Objs) BY DEF RefsInv, TypeOK
    <3>2. QED BY <1>1, <3>1 DEF RefsInv, TypeOK, GiveUp
  <2>2. QED BY <1>1, <2>1 DEF RefsInv, TypeOK, Go, GiveUp, bus, objv, scan
<1>5. HeapInv' BY <1>1 DEF RefsInv, HeapInv, objv
<1>6. AtHand(t)' BY <1>1, <1>2, <1>3 DEF AtHand, Reading, scan
<1>7. Empty(t)'
  <2>1. ~Busy(t) /\ ~Busy(t)' BY <1>1, <1>2, <1>3 DEF Busy, Reading, scan
  <2>2. QED BY <1>1, <1>2, <1>3, <2>1 DEF Empty, Leaving
<1>8. \A o \in Objs : Mine(t, o)' = Mine(t, o)
  <2> TAKE o \in Objs
  <2>1. /\ New(t) = <<>> /\ New(t)' = <<>> /\ GivingUp(t) = <<>> /\ GivingUp(t)' = list[t]
        /\ handle' = handle /\ discdevs' = discdevs
    BY <1>1, <1>2, <1>3 DEF GivingUp, At, New
  <2>2. Times(o, list'[t]) = 0 /\ Times(o, GivingUp(t)) = 0 BY <1>3, <2>1, TimesEmpty
  <2>3. QED BY <2>1, <2>2, TermsOfMine DEF Mine, Total
<1>9. \A o \in Objs : heap'[o] # Free => heap'[o].refcnt # 0 BY <1>1, NobodyFrees DEF objv
<1>10. \A o \in Objs : heap'[o].refcnt + Mine(t, o) = heap[o].refcnt + Mine(t, o)' BY <1>1, <1>8 DEF objv
<1>11. QED BY <1>1, <1>3, <1>4, <1>5, <1>6, <1>7, <1>9, <1>10, StepKeepsRefs

LEMMA CloseKeepsRefs == ASSUME TreeAssumption, Serial, RefsInv, NEW t \in Threads, Close(t) PROVE RefsInv'
<1>1. /\ pc[t] = "idle" /\ Solo(t) /\ UNCHANGED <<bus, objv, scan, goal, list, lost, there, discdevs>>
      /\ handle[t] # NoObj /\ GiveUp(t, <<handle[t]>>) /\ handle' = [handle EXCEPT ![t] = NoObj]
  BY AloneIsSolo DEF Close, At
<1>2. Empty(t) /\ AtHand(t) /\ drop[t] = <<>> /\ entry[t][1] = NoDir /\ handle[t] \in Objs
  <2>1. handle[t] \in Objs BY <1>1 DEF RefsInv, TypeOK
  <2>2. QED BY <1>1, <2>1 DEF RefsInv, EmptyInv, AtHandInv, Empty, AtHand, Reading, Leaving
<1>3. Others(t) /\ pc'[t] = "drop" /\ drop'[t] = <<handle[t]>> /\ handle'[t] = NoObj
  BY <1>1 DEF RefsInv, TypeOK, Go, GiveUp, Others, Untouched, scan
<1>4. TypeOK'
  <2>1. <<handle[t]>> \in Seq(Objs) BY <1>2
  <2>2. drop' \in [Threads -> Seq(Objs)] BY <1>1, <2>1 DEF GiveUp, RefsInv, TypeOK
  <2>3. QED BY <1>1, <2>2 DEF RefsInv, TypeOK, Go, GiveUp, bus, objv, scan
<1>5. HeapInv' BY <1>1 DEF RefsInv, HeapInv, objv
<1>6. AtHand(t)' BY <1>1, <1>2, <1>3 DEF AtHand, Reading, scan
<1>7. Empty(t)'
  <2>1. ~Busy(t) /\ ~Busy(t)' BY <1>1, <1>2, <1>3 DEF Busy, Reading, scan
  <2>2. QED BY <1>1, <1>2, <1>3, <2>1 DEF Empty, Leaving
<1>8. \A o \in Objs : Mine(t, o)' = Mine(t, o)
  <2> TAKE o \in Objs
  <2>1. /\ New(t) = <<>> /\ New(t)' = <<>> /\ GivingUp(t) = <<>> /\ GivingUp(t)' = <<handle[t]>>
        /\ list' = list /\ discdevs' = discdevs
    BY <1>1, <1>2, <1>3 DEF GivingUp, At, New
  <2>2. Times(o, <<handle'[t]>>) = 0 /\ Times(o, GivingUp(t)) = 0 BY <1>3, <2>1, TimesEmpty, TimesOne DEF NoObj, Objs
  <2>3. QED BY <2>1, <2>2, TermsOfMine DEF Mine, Total
<1>9. \A o \in Objs : heap'[o] # Free => heap'[o].refcnt # 0 BY <1>1, NobodyFrees DEF objv
<1>10. \A o \in Objs : heap'[o].refcnt + Mine(t, o) = heap[o].refcnt + Mine(t, o)' BY <1>1, <1>8 DEF objv
<1>11. QED BY <1>1, <1>3, <1>4, <1>5, <1>6, <1>7, <1>9, <1>10, StepKeepsRefs

LEMMA UnrefKeepsRefs == ASSUME TreeAssumption, RefsInv, NEW t \in Threads, Unref(t) PROVE RefsInv'
<1> DEFINE o == Head(drop[t])
<1>1. /\ pc[t] = "drop" /\ drop[t] # <<>> /\ heap' = [heap EXCEPT ![o].refcnt = @ - 1]
      /\ UNCHANGED <<bus, usb_devs, scan, app, there, discdevs>>
      /\ IF LastRef(o) THEN Go(t, "destroy") /\ UNCHANGED drop
         ELSE drop' = [drop EXCEPT ![t] = Tail(@)] /\ UNCHANGED pc
  BY DEF Unref, At
<1>2. GivingUp(t) = drop[t] /\ drop[t] \in Seq(Objs) BY <1>1 DEF GivingUp, At, RefsInv, TypeOK
<1>3. /\ o \in Objs /\ Tail(drop[t]) \in Seq(Objs)
      /\ \A q : Times(q, drop[t]) = Times(q, Tail(drop[t])) + (IF o = q THEN 1 ELSE 0)
  BY <1>1, <1>2, TimesTail
<1>4. Solo(t) BY <1>1, TurnIsSolo
<1>5. heap[o] # Free /\ heap[o].refcnt \in Nat \ {0}
  <2>1. 1 \in DOMAIN drop[t] /\ drop[t][1] = o
    <3>1. Len(drop[t]) \in Nat /\ DOMAIN drop[t] = 1 .. Len(drop[t]) /\ Len(drop[t]) # 0 /\ o = drop[t][1]
      BY <1>1, <1>2, LenProperties, EmptySeq, HeadTailProperties
    <3>2. QED BY <3>1
  <2>2. heap[o] # Free BY <1>2, <2>1, FoundIsAlive DEF ToSet
  <2>3. QED BY <1>1, <1>3, <1>4, <2>2, NobodyFrees
<1> HIDE DEF o
<1>6. /\ heap' \in [Objs -> [session : 0 .. MaxAddr, dir : Dirs \cup {NoDir}, refcnt : Nat,
                             parent : Objs \cup {NoObj}, port : Nat]]
      /\ heap'[o].session = heap[o].session /\ heap'[o].dir = heap[o].dir /\ heap'[o].refcnt = heap[o].refcnt - 1
      /\ \A q \in Objs : q # o => heap'[q] = heap[q]
  <2> DEFINE R == [session : 0 .. MaxAddr, dir : Dirs \cup {NoDir}, refcnt : Nat, parent : Objs \cup {NoObj}, port : Nat]
             new == [heap[o] EXCEPT !.refcnt = @ - 1]
  <2>1. heap \in [Objs -> R] BY DEF RefsInv, TypeOK
  <2>2. new \in R /\ new.session = heap[o].session /\ new.dir = heap[o].dir /\ new.refcnt = heap[o].refcnt - 1
    <3>1. heap[o] \in R /\ heap[o].refcnt - 1 \in Nat BY <1>3, <1>5, <2>1
    <3>2. QED BY <3>1
  <2>3. heap' = [heap EXCEPT ![o] = new] BY <1>1
  <2> HIDE DEF new, R
  <2>4. heap' \in [Objs -> R] BY <2>1, <2>2, <2>3
  <2>5. heap'[o] = new BY <1>3, <2>1, <2>3
  <2>6. \A q \in Objs : q # o => heap'[q] = heap[q] BY <2>1, <2>3
  <2>7. QED BY <2>2, <2>4, <2>5, <2>6 DEF R
<1>7. heap'[o] # Free /\ \A q \in Objs : heap'[q].session = heap[q].session /\ heap'[q].dir = heap[q].dir
  <2>1. heap[o].session # 0 BY <1>3, <1>5 DEF RefsInv, HeapInv
  <2>2. QED BY <1>6, <2>1 DEF Free
<1>8. Others(t)
  <2>1. \A u \in Threads \ {t} : pc'[u] = pc[u] /\ drop'[u] = drop[u] BY <1>1 DEF Go, RefsInv, TypeOK
  <2>2. QED BY <1>1, <2>1 DEF Others, Untouched, scan, app
<1>9. /\ \/ LastRef(o) /\ heap[o].refcnt = 1 /\ pc'[t] = "destroy" /\ drop'[t] = drop[t]
         \/ ~LastRef(o) /\ heap[o].refcnt # 1 /\ pc'[t] = "drop" /\ drop'[t] = Tail(drop[t])
      /\ GivingUp(t)' = Tail(drop[t])
  <2>1. CASE LastRef(o)
    <3>1. pc'[t] = "destroy" /\ drop' = drop /\ heap[o].refcnt = 1
      <4>1. pc' = [pc EXCEPT ![t] = "destroy"] /\ drop' = drop BY <1>1, <2>1 DEF Go
      <4>2. heap[o].refcnt <= 1 BY <2>1 DEF LastRef
      <4>3. heap[o].refcnt = 1 BY <1>5, <4>2
      <4>4. QED BY <4>1, <4>3 DEF RefsInv, TypeOK
    <3>2. QED BY <2>1, <3>1 DEF GivingUp, At
  <2>2. CASE ~LastRef(o)
    <3>1. pc' = pc /\ drop'[t] = Tail(drop[t]) /\ heap[o].refcnt # 1
      <4>1. pc' = pc /\ drop' = [drop EXCEPT ![t] = Tail(@)] BY <1>1, <2>2
      <4>2. heap[o].refcnt # 1 BY <2>2 DEF LastRef
      <4>3. QED BY <4>1, <4>2 DEF RefsInv, TypeOK
    <3>2. QED BY <1>1, <2>2, <3>1 DEF GivingUp, At
  <2>3. QED BY <2>1, <2>2
<1>10. TypeOK'
  <2>1. pc' \in [Threads -> {"idle", "scan", "alloc", "initialize", "append", "append_new",
                             "deliver", "drop", "destroy", "path", "vid_pid"}]
    <3>1. pc' = [pc EXCEPT ![t] = "destroy"] \/ pc' = pc BY <1>1 DEF Go
    <3>2. QED BY <3>1 DEF RefsInv, TypeOK
  <2>2. drop' \in [Threads -> Seq(Objs)] BY <1>1, <1>3, ZenonT(40) DEF RefsInv, TypeOK
  <2>3. QED BY <1>1, <1>6, <2>1, <2>2 DEF RefsInv, TypeOK, bus, scan, app
<1>11. HeapInv'
  <2>1. \A q \in Objs : heap'[q] = Free <=> heap[q] = Free BY <1>5, <1>6, <1>7
  <2>2. QED BY <1>1, <1>7, <2>1 DEF RefsInv, HeapInv
<1>12. AtHand(t)'
  <2>1. AtHand(t) BY DEF RefsInv, AtHandInv
  <2>2. pc'[t] = "destroy" => heap'[Head(drop'[t])] # Free /\ heap'[Head(drop'[t])].refcnt = 0
    BY <1>6, <1>7, <1>9 DEF o
  <2>3. entry'[t] = entry[t] /\ pc'[t] \in Leaving BY <1>1, <1>9 DEF scan, Leaving
  <2>4. QED BY <2>2, <2>3 DEF AtHand, Reading, Leaving
<1>13. Empty(t)'
  <2>1. Empty(t) BY DEF RefsInv, EmptyInv
  <2>2. Busy(t)' <=> Busy(t) BY <1>1, <1>9 DEF Busy, Reading, scan
  <2>3. QED BY <1>1, <1>9, <2>1, <2>2 DEF Empty, Leaving, scan, app
<1>14. \A q \in Objs : heap'[q].refcnt + Mine(t, q) = heap[q].refcnt + Mine(t, q)'
  <2> TAKE q \in Objs
  <2>1. /\ New(t)' = New(t) /\ list' = list /\ discdevs' = discdevs /\ handle' = handle
    BY <1>1, <1>9 DEF New, app
  <2>2. Times(q, Tail(drop[t])) \in Nat BY <1>3, TimesType
  <2>3. Mine(t, q) = Mine(t, q)' + (IF o = q THEN 1 ELSE 0) /\ Mine(t, q)' \in Nat
    <3> DEFINE a == Times(q, list[t])  b == Times(q, discdevs[t])  c == Times(q, Tail(drop[t]))
               d == Times(q, <<handle[t]>>)  e == Times(q, New(t))
    <3>1. a \in Nat /\ b \in Nat /\ c \in Nat /\ d \in Nat /\ e \in Nat BY <2>2, TermsOfMine
    <3>2. Mine(t, q) = a + b + (c + (IF o = q THEN 1 ELSE 0)) + d + e BY <1>2, <1>3 DEF Mine, Total
    <3>3. Mine(t, q)' = a + b + c + d + e BY <1>9, <2>1 DEF Mine, Total
    <3> HIDE DEF a, b, c, d, e
    <3>4. QED BY <3>1, <3>2, <3>3
  <2>4. heap'[q].refcnt = heap[q].refcnt - (IF o = q THEN 1 ELSE 0) /\ heap[q].refcnt \in Nat
    <3>1. heap[q].refcnt \in Nat BY DEF RefsInv, TypeOK
    <3>2. QED BY <1>6, <3>1
  <2>5. QED BY <2>3, <2>4
<1>15. \A q \in Objs : heap'[q].refcnt = 0 /\ heap'[q] # Free => At(t, "destroy")' /\ Head(drop'[t]) = q
  <2> TAKE q \in Objs
  <2>1. CASE q = o BY <1>5, <1>6, <1>9, <2>1 DEF At, o
  <2>2. CASE q # o BY <1>1, <1>4, <1>6, <2>2, NobodyFrees
  <2>3. QED BY <2>1, <2>2
<1>16. QED BY <1>1, <1>4, <1>8, <1>10, <1>11, <1>12, <1>13, <1>14, <1>15, StepKeepsRefs DEF app

LEMMA DestroyKeepsRefs == ASSUME TreeAssumption, RefsInv, NEW t \in Threads, Destroy(t) PROVE RefsInv'
<1> DEFINE o == Head(drop[t])
<1>1. /\ pc[t] = "destroy" /\ Go(t, "drop") /\ usb_devs' = Without(usb_devs, o) /\ heap' = [heap EXCEPT ![o] = Free]
      /\ drop' = [drop EXCEPT ![t] = Tail(@)] /\ UNCHANGED <<bus, scan, app, there, discdevs>>
  BY DEF Destroy, At
<1>2. /\ drop[t] \in Seq(Objs) /\ drop[t] # <<>> /\ o \in Objs /\ Tail(drop[t]) \in Seq(Objs)
      /\ heap[o] # Free /\ heap[o].refcnt = 0
  <2>1. drop[t] \in Seq(Objs) /\ drop[t] # <<>> BY <1>1 DEF RefsInv, TypeOK, EmptyInv, Empty
  <2>2. QED BY <1>1, <2>1, HeadTailProperties DEF RefsInv, AtHandInv, AtHand
<1> HIDE DEF o
<1>3. Others(t) /\ Solo(t) /\ pc'[t] = "drop" /\ drop'[t] = Tail(drop[t])
  <2>1. Solo(t) BY <1>1, TurnIsSolo
  <2>2. QED BY <1>1, <2>1 DEF Others, Untouched, RefsInv, TypeOK, Go, scan, app
<1>4. heap'[o] = Free /\ \A q \in Objs : q # o => heap'[q] = heap[q] BY <1>1, <1>2 DEF RefsInv, TypeOK
<1>5. /\ usb_devs' \in Seq(Objs)
      /\ \A k \in DOMAIN usb_devs' : usb_devs'[k] # o /\ \E i \in DOMAIN usb_devs : usb_devs[i] = usb_devs'[k]
      /\ \A i \in DOMAIN usb_devs : usb_devs[i] # o => \E k \in DOMAIN usb_devs' : usb_devs'[k] = usb_devs[i]
      /\ \A i, j \in DOMAIN usb_devs' : usb_devs'[i] = usb_devs'[j] => i = j
  BY <1>1, WithoutProperties DEF RefsInv, TypeOK, HeapInv
<1>6. TypeOK'
  <2>1. Free \in [session : 0 .. MaxAddr, dir : Dirs \cup {NoDir}, refcnt : Nat, parent : Objs \cup {NoObj}, port : Nat]
    BY DEF Free, TreeAssumption
  <2>2. heap' \in [Objs -> [session : 0 .. MaxAddr, dir : Dirs \cup {NoDir}, refcnt : Nat,
                           parent : Objs \cup {NoObj}, port : Nat]]
    BY <1>1, <2>1 DEF RefsInv, TypeOK
  <2>3. drop' \in [Threads -> Seq(Objs)] BY <1>1, <1>2 DEF RefsInv, TypeOK
  <2>4. QED BY <1>1, <1>5, <2>2, <2>3 DEF RefsInv, TypeOK, Go, bus, scan, app
<1>7. HeapInv'
  <2>1. \A q \in Objs : heap'[q] # Free => q # o /\ heap'[q] = heap[q] BY <1>4
  <2>2. \A q \in Objs : heap'[q] # Free <=> \E i \in DOMAIN usb_devs' : usb_devs'[i] = q
    <3> TAKE q \in Objs
    <3>1. heap[q] # Free <=> \E i \in DOMAIN usb_devs : usb_devs[i] = q BY DEF RefsInv, HeapInv
    <3>2. CASE q = o BY <1>4, <1>5, <3>2
    <3>3. CASE q # o BY <1>4, <1>5, <3>1, <3>3
    <3>4. QED BY <3>2, <3>3
  <2>3. QED BY <1>5, <2>1, <2>2 DEF RefsInv, HeapInv
<1>8. AtHand(t)' BY <1>1, <1>3 DEF AtHand, Reading, Leaving
<1>9. Empty(t)'
  <2>1. Empty(t) BY DEF RefsInv, EmptyInv
  <2>2. Busy(t)' <=> Busy(t) BY <1>1, <1>3 DEF Busy, Reading, scan
  <2>3. QED BY <1>1, <1>3, <2>1, <2>2 DEF Empty, Leaving, scan, app
<1>10. \A q \in Objs : heap'[q].refcnt = heap[q].refcnt
  <2>1. Free.refcnt = 0 BY DEF Free
  <2>2. QED BY <1>2, <1>4, <2>1
<1>11. \A q \in Objs : Mine(t, q)' = Mine(t, q)
  <2>1. New(t)' = New(t) /\ GivingUp(t)' = GivingUp(t) /\ list' = list /\ discdevs' = discdevs /\ handle' = handle
    BY <1>1, <1>3 DEF New, GivingUp, At, app
  <2>2. QED BY <2>1 DEF Mine, Total
<1>12. \A q \in Objs : heap'[q].refcnt = 0 => heap'[q] = Free
  <2> TAKE q \in Objs
  <2>1. CASE q = o BY <1>4, <2>1
  <2>2. CASE q # o
    <3>1. heap[q].refcnt = 0 /\ heap[q] # Free => \E u \in Threads : At(u, "destroy") /\ Head(drop[u]) = q
      BY DEF RefsInv, HeldInv, CountsMatch
    <3>2. \A u \in Threads : At(u, "destroy") => u = t BY <1>3 DEF Solo, At
    <3>3. QED BY <1>4, <2>2, <3>1, <3>2 DEF o
  <2>3. QED BY <2>1, <2>2
<1>13. QED BY <1>1, <1>3, <1>6, <1>7, <1>8, <1>9, <1>10, <1>11, <1>12, StepKeepsRefs DEF app

LEMMA OpenKeepsRefs == ASSUME TreeAssumption, RefsInv, NEW t \in Threads, Open(t) PROVE RefsInv'
<1>1. PICK o \in ToSet(list[t]) : OpenDevice(t, o) BY DEF Open
<1>2. /\ pc[t] = "idle" /\ handle[t] = NoObj /\ heap' = Ref(o) /\ handle' = [handle EXCEPT ![t] = o]
      /\ UNCHANGED <<bus, usb_devs, scan, goal, list, lost, pc, there, discdevs, drop>>
  BY <1>1 DEF Open, OpenDevice, At
<1>3. o \in Objs /\ heap[o] # Free /\ heap[o].refcnt \in Nat \ {0} BY FoundIsAlive
<1>4. TypeOK' BY <1>2, <1>3, RefProperties DEF RefsInv, TypeOK, bus, scan
<1>5. HeapInv' BY <1>2, <1>3, RefProperties
<1>6. handle'[t] = o /\ \A u \in Threads \ {t} : handle'[u] = handle[u] BY <1>2 DEF RefsInv, TypeOK
<1>7. Turns' BY <1>2 DEF RefsInv, Turns
<1>8. AtHandInv'
  <2> SUFFICES ASSUME NEW u \in Threads PROVE AtHand(u)' BY DEF AtHandInv
  <2>1. AtHand(u) BY DEF RefsInv, AtHandInv
  <2>2. pc[u] \in Reading \ {"alloc"} =>
          heap'[dev[u]] # Free /\ heap'[dev[u]].session = heap[dev[u]].session
    BY <1>2, <1>3, <2>1, RefProperties DEF AtHand
  <2>3. pc[u] = "destroy" => heap'[Head(drop[u])] # Free /\ heap'[Head(drop[u])].refcnt = 0
    <3> HAVE pc[u] = "destroy"
    <3>1. Head(drop[u]) \in Objs BY HeadTailProperties DEF RefsInv, TypeOK, EmptyInv, Empty
    <3>2. Head(drop[u]) # o BY <1>3, <2>1 DEF AtHand
    <3>3. QED BY <1>2, <1>3, <2>1, <3>1, <3>2, RefProperties DEF AtHand
  <2>4. QED BY <1>2, <2>1, <2>2, <2>3 DEF AtHand, scan
<1>9. EmptyInv'
  <2> SUFFICES ASSUME NEW u \in Threads PROVE Empty(u)' BY DEF EmptyInv
  <2>1. Empty(u) /\ AtHand(t) BY DEF RefsInv, EmptyInv, AtHandInv
  <2>2. Busy(u)' <=> Busy(u) BY <1>2 DEF Busy, scan
  <2>3. ~Busy(t) BY <1>2, <2>1 DEF Busy, AtHand, Reading, Leaving
  <2>4. QED BY <1>2, <1>6, <2>1, <2>2, <2>3 DEF Empty
<1>10. OnlyMine(t) BY <1>2, <1>6 DEF OnlyMine, scan
<1>11. MineTyped(t)' BY <1>4, <1>9, MineStaysTyped
<1>12. \A q \in Objs : heap'[q].refcnt + Mine(t, q) = heap[q].refcnt + Mine(t, q)'
  <2> TAKE q \in Objs
  <2>1. New(t)' = New(t) /\ GivingUp(t)' = GivingUp(t) BY <1>2 DEF New, GivingUp, At, scan
  <2>2. Times(q, <<handle[t]>>) = 0 /\ Times(q, <<handle'[t]>>) = IF q = o THEN 1 ELSE 0
    BY <1>2, <1>6, TimesOne DEF NoObj, Objs
  <2> DEFINE a == Times(q, list[t])  b == Times(q, discdevs[t])  c == Times(q, GivingUp(t))  e == Times(q, New(t))
  <2>3. a \in Nat /\ b \in Nat /\ c \in Nat /\ e \in Nat BY TermsOfMine
  <2>4. Mine(t, q) = a + b + c + 0 + e BY <2>2 DEF Mine, Total
  <2>5. Mine(t, q)' = a + b + c + (IF q = o THEN 1 ELSE 0) + e BY <1>2, <2>1, <2>2 DEF Mine, Total
  <2>6. heap'[q].refcnt = heap[q].refcnt + (IF q = o THEN 1 ELSE 0) /\ heap[q].refcnt \in Nat
    BY <1>2, <1>3, RefProperties
  <2> HIDE DEF a, b, c, e
  <2>7. QED BY <2>3, <2>4, <2>5, <2>6
<1>13. ASSUME NEW q \in Objs, heap'[q].refcnt = 0, heap'[q] # Free
       PROVE  \E u \in Threads : At(u, "destroy")' /\ Head(drop'[u]) = q
  <2>1. /\ heap'[q].refcnt = heap[q].refcnt + (IF q = o THEN 1 ELSE 0) /\ heap[q].refcnt \in Nat
        /\ (heap'[q] = Free <=> heap[q] = Free)
    BY <1>2, <1>3, RefProperties
  <2>2. heap[q].refcnt = 0 /\ heap[q] # Free BY <1>13, <2>1
  <2>3. PICK u \in Threads : At(u, "destroy") /\ Head(drop[u]) = q BY <2>2 DEF RefsInv, HeldInv, CountsMatch
  <2>4. QED BY <1>2, <2>3 DEF At
<1>14. HeldInv' BY <1>4, <1>10, <1>11, <1>12, <1>13, CountsKept DEF RefsInv
<1>15. QED BY <1>4, <1>5, <1>7, <1>8, <1>9, <1>14 DEF RefsInv

\* A handle is opened on a device that was found, or none is.
LEMMA OpenedProperties ==
  ASSUME TreeAssumption, RefsInv, NEW t \in Threads, handle[t] = NoObj, UNCHANGED usb_devs,
         (\E o \in ToSet(discdevs[t]) : OpenDevice(t, o)) \/ UNCHANGED <<heap, handle>>
  PROVE  /\ heap' \in [Objs -> [session : 0 .. MaxAddr, dir : Dirs \cup {NoDir}, refcnt : Nat,
                                parent : Objs \cup {NoObj}, port : Nat]]
         /\ HeapInv' /\ handle' \in [Threads -> Objs \cup {NoObj}] /\ \A u \in Threads \ {t} : handle'[u] = handle[u]
         /\ \A q \in Objs : /\ heap'[q].refcnt = heap[q].refcnt + Times(q, <<handle'[t]>>)
                            /\ (heap'[q] = Free <=> heap[q] = Free) /\ heap[q].refcnt \in Nat
<1>1. CASE \E o \in ToSet(discdevs[t]) : OpenDevice(t, o)
  <2>1. PICK o \in ToSet(discdevs[t]) : OpenDevice(t, o) BY <1>1
  <2>2. o \in Objs /\ heap[o] # Free BY FoundIsAlive
  <2>3. heap' = Ref(o) /\ handle' = [handle EXCEPT ![t] = o] BY <2>1 DEF OpenDevice
  <2>4. handle' \in [Threads -> Objs \cup {NoObj}] /\ handle'[t] = o /\ \A u \in Threads \ {t} : handle'[u] = handle[u]
    BY <2>2, <2>3 DEF RefsInv, TypeOK
  <2>5. \A q : Times(q, <<handle'[t]>>) = IF q = o THEN 1 ELSE 0 BY <2>4, TimesOne
  <2>6. /\ heap' \in [Objs -> [session : 0 .. MaxAddr, dir : Dirs \cup {NoDir}, refcnt : Nat,
                               parent : Objs \cup {NoObj}, port : Nat]]
        /\ HeapInv'
        /\ \A q \in Objs : /\ heap'[q].refcnt = heap[q].refcnt + (IF q = o THEN 1 ELSE 0)
                           /\ (heap'[q] = Free <=> heap[q] = Free) /\ heap[q].refcnt \in Nat
    BY <2>2, <2>3, RefProperties
  <2>7. QED BY <2>4, <2>5, <2>6
<1>2. CASE UNCHANGED <<heap, handle>>
  <2>1. HeapInv' BY <1>2 DEF RefsInv, HeapInv
  <2>2. \A q \in Objs : /\ heap'[q].refcnt = heap[q].refcnt + Times(q, <<handle'[t]>>)
                       /\ (heap'[q] = Free <=> heap[q] = Free) /\ heap[q].refcnt \in Nat
    <3> TAKE q \in Objs
    <3>1. Times(q, <<handle'[t]>>) = 0 BY <1>2, TimesOne DEF NoObj, Objs
    <3>2. heap[q].refcnt \in Nat BY DEF RefsInv, TypeOK
    <3>3. QED BY <1>2, <3>1, <3>2
  <2>3. QED BY <1>2, <2>1, <2>2 DEF RefsInv, TypeOK
<1>3. QED BY <1>1, <1>2

LEMMA FindAndOpenKeepsRefs == ASSUME TreeAssumption, RefsInv, NEW t \in Threads, FindAndOpen(t) PROVE RefsInv'
<1>1. /\ pc[t] = "vid_pid" /\ GiveUp(t, discdevs[t]) /\ discdevs' = [discdevs EXCEPT ![t] = <<>>]
      /\ UNCHANGED <<bus, usb_devs, scan, goal, list, lost, there>>
      /\ \/ \E o \in ToSet(discdevs[t]) : OpenDevice(t, o)
         \/ UNCHANGED <<heap, handle>>
  BY DEF FindAndOpen, At, ToSet
<1>2. Empty(t) /\ AtHand(t) /\ drop[t] = <<>> /\ handle[t] = NoObj /\ entry[t][1] = NoDir
  BY <1>1 DEF RefsInv, EmptyInv, AtHandInv, Empty, AtHand, Reading, Leaving
<1>3. Solo(t) /\ \A q \in Objs : heap[q] # Free => heap[q].refcnt # 0 BY <1>1, TurnIsSolo, NobodyFrees
<1>4. /\ heap' \in [Objs -> [session : 0 .. MaxAddr, dir : Dirs \cup {NoDir}, refcnt : Nat,
                             parent : Objs \cup {NoObj}, port : Nat]]
      /\ HeapInv' /\ handle' \in [Threads -> Objs \cup {NoObj}] /\ \A u \in Threads \ {t} : handle'[u] = handle[u]
      /\ \A q \in Objs : /\ heap'[q].refcnt = heap[q].refcnt + Times(q, <<handle'[t]>>)
                         /\ (heap'[q] = Free <=> heap[q] = Free) /\ heap[q].refcnt \in Nat
  BY <1>1, <1>2, OpenedProperties
<1>5. Others(t) /\ pc'[t] = "drop" /\ drop'[t] = discdevs[t] /\ discdevs'[t] = <<>>
  BY <1>1, <1>4 DEF RefsInv, TypeOK, Go, GiveUp, Others, Untouched, scan
<1>6. TypeOK'
  <2>1. drop' \in [Threads -> Seq(Objs)] /\ discdevs' \in [Threads -> Seq(Objs)]
    <3>1. <<>> \in Seq(Objs) /\ discdevs[t] \in Seq(Objs) BY DEF RefsInv, TypeOK
    <3>2. QED BY <1>1, <3>1 DEF RefsInv, TypeOK, GiveUp
  <2>2. QED BY <1>1, <1>4, <2>1 DEF RefsInv, TypeOK, Go, GiveUp, bus, scan
<1>7. AtHand(t)' BY <1>1, <1>2, <1>5 DEF AtHand, Reading, scan
<1>8. Empty(t)'
  <2>1. ~Busy(t)' BY <1>1, <1>2, <1>5 DEF Busy, Reading, scan
  <2>2. QED BY <1>1, <1>2, <1>5, <2>1 DEF Empty, Leaving
<1>9. \A q \in Objs : heap'[q].refcnt + Mine(t, q) = heap[q].refcnt + Mine(t, q)'
  <2> TAKE q \in Objs
  <2>1. New(t) = <<>> /\ New(t)' = <<>> /\ GivingUp(t) = <<>> /\ GivingUp(t)' = discdevs[t]
    BY <1>1, <1>2, <1>5 DEF GivingUp, At, New
  <2>2. Times(q, <<>>) = 0 /\ Times(q, <<handle[t]>>) = 0 BY <1>2, TimesEmpty, TimesOne DEF NoObj, Objs
  <2> DEFINE a == Times(q, list[t])  b == Times(q, discdevs[t])  d == Times(q, <<handle'[t]>>)
  <2>3. a \in Nat /\ b \in Nat /\ d \in Nat
    <3>1. d \in Nat BY TimesOne
    <3>2. QED BY <3>1, TermsOfMine
  <2>4. Mine(t, q) = a + b + 0 + 0 + 0 BY <2>1, <2>2 DEF Mine, Total
  <2>5. Mine(t, q)' = a + 0 + b + d + 0 BY <1>1, <1>5, <2>1, <2>2 DEF Mine, Total
  <2>6. heap'[q].refcnt = heap[q].refcnt + d /\ heap[q].refcnt \in Nat BY <1>4
  <2> HIDE DEF a, b, d
  <2>7. QED BY <2>3, <2>4, <2>5, <2>6
<1>10. \A q \in Objs : heap'[q] # Free => heap'[q].refcnt # 0
  <2> TAKE q \in Objs
  <2>1. Times(q, <<handle'[t]>>) \in Nat BY TimesOne
  <2>2. QED BY <1>3, <1>4, <2>1
<1>11. QED BY <1>1, <1>3, <1>4, <1>5, <1>6, <1>7, <1>8, <1>9, <1>10, StepKeepsRefs

LEMMA LostAppended ==
  ASSUME NEW s \in Seq(Objs), TypeOK, lost' = Append(lost, s), NEW o
  PROVE  \E P : /\ IsFiniteSet(P) /\ Cardinality(P) = Times(o, s)
                /\ LostRefs(o)' = LostRefs(o) \cup P
                /\ \A x \in P : x[1] = "lost" /\ x \notin LostRefs(o)
<1> DEFINE P == Places("lost", Len(lost) + 1, s, o)
<1>1. /\ Len(lost) \in Nat /\ DOMAIN lost = 1 .. Len(lost) /\ DOMAIN lost' = 1 .. Len(lost) + 1
      /\ \A n \in 1 .. Len(lost) : lost'[n] = lost[n]
      /\ lost'[Len(lost) + 1] = s
  BY AppendProperties, LenProperties DEF TypeOK
<1>2. LostRefs(o)' = LostRefs(o) \cup P BY <1>1 DEF LostRefs
<1>3. \A x \in P : x[1] = "lost" /\ x \notin LostRefs(o)
  <2>1. \A x \in LostRefs(o) : x[2] \in 1 .. Len(lost) BY <1>1 DEF LostRefs, Places
  <2>2. \A x \in P : x[1] = "lost" /\ x[2] \notin 1 .. Len(lost) BY <1>1 DEF Places
  <2>3. QED BY <2>1, <2>2
<1>4. IsFiniteSet(P) /\ Cardinality(P) = Times(o, s) BY PlacesCount
<1> HIDE DEF P
<1>5. QED BY <1>2, <1>3, <1>4

\* Thread t leaves its list behind, in libusb_get_port_path.
LeavesList(t) ==
  /\ Others(t) /\ pc[t] = "path" /\ pc'[t] = "idle" /\ drop[t] = <<>> /\ UNCHANGED <<heap, list, handle, drop>>
  /\ lost' = Append(lost, discdevs[t]) /\ discdevs'[t] = <<>> /\ MineTyped(t)'

\* A list that is left behind is nobody's: its references are only moved.
LEMMA LeaveListKeepsCounts ==
  ASSUME RefsInv, NEW t \in Threads, LeavesList(t), NEW o
  PROVE  Held(o)' = Held(o)
<1>1. PICK P : /\ IsFiniteSet(P) /\ Cardinality(P) = Times(o, discdevs[t])
               /\ LostRefs(o)' = LostRefs(o) \cup P
               /\ \A x \in P : x[1] = "lost" /\ x \notin LostRefs(o)
  <2>1. discdevs[t] \in Seq(Objs) BY DEF RefsInv, TypeOK
  <2>2. QED BY <2>1, LostAppended DEF RefsInv, LeavesList
<1>2. PICK E : /\ E = Elsewhere(t, o) /\ IsFiniteSet(E) /\ \A x \in E : x[1] = "lost" \/ x[2] # t
  BY TreeAssumption, ElsewhereIsFinite DEF RefsInv
<1>3. Held(o) = Cardinality(RefsOf(t, o) \cup E) BY <1>2, TreeAssumption, ElsewhereIsFinite DEF RefsInv, Held
<1>4. PICK F : F = E \cup P OBVIOUS
<1>5. Held(o)' = Cardinality(RefsOf(t, o)' \cup F)
  <2>1. \A u \in Threads \ {t} : RefsOf(u, o)' = RefsOf(u, o)
    <3> TAKE u \in Threads \ {t}
    <3>1. pc'[u] = pc[u] /\ drop'[u] = drop[u] /\ discdevs'[u] = discdevs[u] /\ list'[u] = list[u]
          /\ handle'[u] = handle[u] /\ dev'[u] = dev[u]
      BY DEF LeavesList, Others, Untouched
    <3>2. GivingUp(u)' = GivingUp(u) /\ New(u)' = New(u) BY <3>1 DEF GivingUp, New, At
    <3>3. QED BY <3>1, <3>2 DEF RefsOf
  <2>2. UNION {RefsOf(u, o)' : u \in Threads} = RefsOf(t, o)' \cup (UNION {RefsOf(u, o) : u \in Threads \ {t}})
    <3>1. {RefsOf(u, o)' : u \in Threads \ {t}} = {RefsOf(u, o) : u \in Threads \ {t}} BY <2>1
    <3>2. UNION {RefsOf(u, o)' : u \in Threads} = RefsOf(t, o)' \cup (UNION {RefsOf(u, o)' : u \in Threads \ {t}})
      OBVIOUS
    <3>3. QED BY <3>1, <3>2
  <2>3. (UNION {RefsOf(u, o)' : u \in Threads}) \cup LostRefs(o)' = RefsOf(t, o)' \cup F
    BY <1>1, <1>2, <1>4, <2>2 DEF Elsewhere
  <2>4. QED BY <2>3 DEF Held
<1>6. IsFiniteSet(F) /\ Cardinality(F) = Cardinality(E) + Times(o, discdevs[t]) /\ Cardinality(E) \in Nat
  <2>1. \A x \in E : x \notin P
    <3>1. \A u \in Threads : \A x \in RefsOf(u, o) : x[1] # "lost" BY DEF RefsOf, Places
    <3>2. \A x \in E : x[1] # "lost" \/ x \in LostRefs(o) BY <1>2, <3>1 DEF Elsewhere
    <3>3. QED BY <1>1, <3>2
  <2>2. /\ IsFiniteSet(E \cup P) /\ Cardinality(E \cup P) = Cardinality(E) + Cardinality(P)
        /\ Cardinality(E) \in Nat
    BY <1>1, <1>2, <2>1, DisjointUnion
  <2>3. QED BY <1>1, <1>4, <2>2
<1>7. \A x \in F : x[1] = "lost" \/ x[2] # t BY <1>1, <1>2, <1>4
<1>8. MineTyped(t) BY MineIsTyped DEF RefsInv
<1>9. Cardinality(RefsOf(t, o) \cup E) = Mine(t, o) + Cardinality(E)
  <2>1. IsFiniteSet(E) /\ \A x \in E : x[1] = "lost" \/ x[2] # t BY <1>2
  <2>2. QED BY <1>8, <2>1, HeldIsMineAndOthers
<1>10. Cardinality(RefsOf(t, o)' \cup F) = Mine(t, o)' + Cardinality(F)
  <2>1. IsFiniteSet(F) BY <1>6
  <2>2. QED BY <1>7, <2>1, HeldIsMineAndOthersAfter DEF LeavesList
<1>11. Mine(t, o) = Mine(t, o)' + Times(o, discdevs[t]) /\ Mine(t, o)' \in Nat /\ Times(o, discdevs[t]) \in Nat
  <2>1. /\ New(t) = <<>> /\ New(t)' = <<>> /\ GivingUp(t) = <<>> /\ GivingUp(t)' = <<>> /\ Times(o, <<>>) = 0
    BY TimesEmpty DEF New, GivingUp, At, LeavesList
  <2> DEFINE a == Times(o, list[t])  b == Times(o, discdevs[t])  d == Times(o, <<handle[t]>>)
  <2>2. a \in Nat /\ b \in Nat /\ d \in Nat BY TermsOfMine
  <2>3. Mine(t, o) = a + b + 0 + d + 0 BY <2>1 DEF Mine, Total
  <2>4. Mine(t, o)' = a + 0 + 0 + d + 0
    <3>1. list' = list /\ handle' = handle /\ discdevs'[t] = <<>> BY DEF LeavesList
    <3>2. QED BY <2>1, <3>1 DEF Mine, Total
  <2>5. b = Times(o, discdevs[t]) OBVIOUS
  <2> HIDE DEF a, b, d
  <2>6. QED BY <2>2, <2>3, <2>4, <2>5
<1>12. QED BY <1>3, <1>5, <1>6, <1>9, <1>10, <1>11

LEMMA GetPortPathKeepsRefs ==
  ASSUME TreeAssumption, RefsInv, NEW t \in Threads, NEW len, GetPortPath(t, len)
  PROVE  RefsInv'
<1>1. /\ pc[t] = "path" /\ discdevs' = [discdevs EXCEPT ![t] = <<>>]
      /\ UNCHANGED <<bus, objv, buses, todo, entry, dev, list, handle>>
      /\ \/ lost' = Append(lost, discdevs[t]) /\ Return(t) /\ UNCHANGED drop
         \/ GiveUp(t, discdevs[t]) /\ UNCHANGED <<goal, there, r, lost>>
  BY DEF GetPortPath, At
<1>2. Empty(t) /\ AtHand(t) /\ drop[t] = <<>> /\ entry[t][1] = NoDir
  BY <1>1 DEF RefsInv, EmptyInv, AtHandInv, Empty, AtHand, Reading, Leaving
<1>3. Solo(t) /\ \A q \in Objs : heap[q] # Free => heap[q].refcnt # 0 BY <1>1, TurnIsSolo, NobodyFrees
<1>4. discdevs'[t] = <<>> /\ discdevs' \in [Threads -> Seq(Objs)]
  <2>1. <<>> \in Seq(Objs) OBVIOUS
  <2>2. QED BY <1>1, <2>1 DEF RefsInv, TypeOK
<1>5. HeapInv' BY <1>1 DEF RefsInv, HeapInv, objv
<1>6. CASE lost' = Append(lost, discdevs[t]) /\ Return(t) /\ UNCHANGED drop
  <2>1. Others(t) /\ pc'[t] = "idle" BY <1>1, <1>6 DEF RefsInv, TypeOK, Return, Go, Others, Untouched
  <2>2. TypeOK'
    <3>1. lost' \in Seq(Seq(Objs)) BY <1>6, AppendProperties DEF RefsInv, TypeOK
    <3>2. QED BY <1>1, <1>4, <1>6, <3>1 DEF RefsInv, TypeOK, Return, Go, bus, objv
  <2>3. AtHand(t)' BY <1>1, <1>2, <2>1 DEF AtHand, Reading
  <2>4. Empty(t)'
    <3>1. ~Busy(t)' BY <1>1, <1>2, <2>1 DEF Busy, Reading
    <3>2. QED BY <1>2, <1>4, <1>6, <2>1, <3>1 DEF Empty, Leaving
  <2>5. Turns' /\ AtHandInv' /\ EmptyInv' BY <1>3, <2>1, <2>3, <2>4, OthersKeep
  <2>6. MineTyped(t)' BY <2>2, <2>5, MineStaysTyped
  <2>7. heap' = heap BY <1>1 DEF objv
  <2>8. \A o \in Objs : Held(o)' = Held(o)
    <3>1. LeavesList(t) BY <1>1, <1>2, <1>4, <1>6, <2>1, <2>6, <2>7 DEF LeavesList
    <3>2. QED BY <3>1, LeaveListKeepsCounts
  <2>9. HeldInv' BY <1>3, <2>7, <2>8 DEF RefsInv, HeldInv, CountsMatch
  <2>10. QED BY <1>5, <2>2, <2>5, <2>9 DEF RefsInv
<1>7. CASE GiveUp(t, discdevs[t]) /\ UNCHANGED <<goal, there, r, lost>>
  <2>1. Others(t) /\ pc'[t] = "drop" /\ drop'[t] = discdevs[t]
    BY <1>1, <1>7 DEF RefsInv, TypeOK, GiveUp, Go, Others, Untouched
  <2>2. TypeOK' BY <1>1, <1>4, <1>7 DEF RefsInv, TypeOK, GiveUp, Go, bus, objv
  <2>3. AtHand(t)' BY <1>1, <1>2, <2>1 DEF AtHand, Reading
  <2>4. Empty(t)'
    <3>1. ~Busy(t)' BY <1>1, <1>2, <2>1 DEF Busy, Reading
    <3>2. QED BY <1>4, <2>1, <3>1 DEF Empty, Leaving
  <2>5. \A o \in Objs : Mine(t, o)' = Mine(t, o)
    <3> TAKE o \in Objs
    <3>1. New(t) = <<>> /\ New(t)' = <<>> /\ GivingUp(t) = <<>> /\ GivingUp(t)' = discdevs[t]
      BY <1>1, <1>2, <2>1 DEF GivingUp, At, New
    <3>2. Times(o, discdevs'[t]) = 0 /\ Times(o, GivingUp(t)) = 0 BY <1>4, <3>1, TimesEmpty
    <3>3. QED BY <1>1, <3>1, <3>2, TermsOfMine DEF Mine, Total
  <2>6. heap' = heap BY <1>1 DEF objv
  <2>7. QED BY <1>3, <1>5, <1>7, <2>1, <2>2, <2>3, <2>4, <2>5, <2>6, StepKeepsRefs
<1>8. QED BY <1>1, <1>6, <1>7

-----------------------------------------------------------------------------
(* The counts, from the start and in every step                            *)

LEMMA InitTyped == ASSUME Init PROVE TypeOK
<1>1. Cardinality(Occupied) \in Nat /\ Cardinality(Occupied) <= MaxAddr
  <2>1. IsFiniteSet(Occupied) BY TreeAssumption, FS_Subset DEF TreeAssumption, Occupied
  <2>2. QED BY <2>1, TreeAssumption, FS_CardinalityType DEF TreeAssumption
<1>2. mode \in {"sysfs", "nodes", "usbfs", "names"} BY DEF Init, Mode, Usbfs
<1>3. next_addr \in 1 .. MaxAddr + 1
  <2> DEFINE n == Cardinality(Occupied)
  <2>1. n \in Nat /\ n <= MaxAddr /\ MaxAddr \in Nat /\ next_addr = 1 + n BY <1>1, TreeAssumption DEF TreeAssumption, Init
  <2> HIDE DEF n
  <2>2. QED BY <2>1
<1>4. heap \in [Objs -> [session : 0 .. MaxAddr, dir : Dirs \cup {NoDir}, refcnt : Nat,
                         parent : Objs \cup {NoObj}, port : Nat]]
  <2>1. Free \in [session : 0 .. MaxAddr, dir : Dirs \cup {NoDir}, refcnt : Nat, parent : Objs \cup {NoObj}, port : Nat]
    BY TreeAssumption DEF Free, TreeAssumption
  <2>2. QED BY <2>1 DEF Init
<1>5. <<>> \in Seq(Objs) /\ <<>> \in Seq(Seq(Objs)) OBVIOUS
<1>6. addr \in [Dirs -> 0 .. MaxAddr] BY TreeAssumption DEF Init, TreeAssumption
<1>7. QED BY <1>2, <1>3, <1>4, <1>5, <1>6 DEF Init, TypeOK

LEMMA InitRefs == ASSUME Init PROVE RefsInv
<1>1. TypeOK BY InitTyped
<1>2. Turns /\ AtHandInv
  <2>1. \A t \in Threads : pc[t] = "idle" /\ entry[t][1] = NoDir BY DEF Init
  <2>2. QED BY <2>1 DEF Turns, AtHandInv, AtHand, Reading
<1>3. EmptyInv
  <2>1. \A t \in Threads : pc[t] = "idle" /\ entry[t][1] = NoDir /\ drop[t] = <<>> /\ discdevs[t] = <<>> BY DEF Init
  <2>2. QED BY <2>1 DEF EmptyInv, Empty, Busy, Reading
<1>4. \A o \in Objs : heap[o] = Free BY DEF Init
<1>5. HeapInv
  <2>1. DOMAIN usb_devs = {} BY DEF Init
  <2>2. QED BY <1>4, <2>1 DEF HeapInv
<1>6. \A o \in Objs : Held(o) = 0
  <2> TAKE o \in Objs
  <2>1. \A s : Positions(o, <<>>) = {} /\ Positions(o, <<NoObj>>) = {} BY DEF Positions, Objs, NoObj
  <2>2. \A t \in Threads : RefsOf(t, o) = {}
    <3> TAKE t \in Threads
    <3>1. /\ list[t] = <<>> /\ discdevs[t] = <<>> /\ GivingUp(t) = <<>> /\ handle[t] = NoObj /\ New(t) = <<>>
      BY DEF Init, GivingUp, New, At
    <3>2. QED BY <2>1, <3>1 DEF RefsOf, Places
  <2>3. LostRefs(o) = {} BY DEF Init, LostRefs
  <2>4. (UNION {RefsOf(t, o) : t \in Threads}) \cup LostRefs(o) = {} BY <2>2, <2>3
  <2>5. QED BY <2>4, FS_EmptySet DEF Held
<1>7. HeldInv BY <1>4, <1>6 DEF HeldInv, CountsMatch, Free
<1>8. QED BY <1>1, <1>2, <1>3, <1>5, <1>7 DEF RefsInv

LEMMA NextKeepsRefs == ASSUME Serial, RefsInv, [Next]_vars PROVE RefsInv'
<1>1. CASE UNCHANGED vars
  <2>1. TypeOK' BY <1>1 DEF RefsInv, TypeOK, vars, bus, objv, scan, app
  <2>2. Turns' /\ AtHandInv' /\ EmptyInv' /\ HeapInv'
    BY <1>1 DEF RefsInv, Turns, AtHandInv, AtHand, EmptyInv, Empty, Busy, HeapInv, vars, bus, objv, scan, app
  <2>3. HeldInv'
    <3>1. \A u \in Threads : New(u)' = New(u) /\ (At(u, "destroy")' <=> At(u, "destroy"))
      BY <1>1 DEF New, At, vars, scan
    <3>2. QED BY <1>1, <3>1, QuietCounts DEF RefsInv, vars, objv, app
  <2>4. QED BY <2>1, <2>2, <2>3 DEF RefsInv
<1>2. ASSUME NEW d \in Dirs, Plug(d) \/ Unplug(d) PROVE RefsInv'
  BY <1>2, TreeAssumption, PlugKeepsRefs, UnplugKeepsRefs
<1>3. ASSUME NEW t \in Threads, Call(t) PROVE RefsInv'
  BY <1>3, TreeAssumption, GetDeviceListKeepsRefs, FreeDeviceListKeepsRefs, OpenKeepsRefs, CloseKeepsRefs DEF Call
<1>4. ASSUME NEW t \in Threads, Step(t) PROVE RefsInv'
  <2>1. ASSUME NEW b \in RootHubs, ScanBus(t, b) PROVE RefsInv' BY <2>1, TreeAssumption, ScanBusKeepsRefs
  <2>2. ASSUME NEW x \in todo[t], SkipEntry(t, x) \/ ReadEntry(t, x) PROVE RefsInv'
    BY <2>2, TreeAssumption, SkipEntryKeepsRefs, ReadEntryKeepsRefs
  <2>3. CASE NewDevice(t) BY <2>3, TreeAssumption, NewDeviceKeepsRefs
  <2>4. CASE Initialize(t) BY <2>4, TreeAssumption, InitializeKeepsRefs
  <2>5. CASE AppendDevice(t) BY <2>5, TreeAssumption, AppendDeviceKeepsRefs
  <2>6. CASE EndScan(t) BY <2>6, TreeAssumption, EndScanKeepsRefs
  <2>7. CASE Deliver(t) BY <2>7, TreeAssumption, DeliverKeepsRefs
  <2>8. CASE Fail(t) BY <2>8, TreeAssumption, FailKeepsRefs
  <2>9. CASE Unref(t) BY <2>9, TreeAssumption, UnrefKeepsRefs
  <2>10. CASE Destroy(t) BY <2>10, TreeAssumption, DestroyKeepsRefs
  <2>11. CASE Dropped(t) BY <2>11, TreeAssumption, DroppedKeepsRefs
  <2>12. CASE FindAndOpen(t) BY <2>12, TreeAssumption, FindAndOpenKeepsRefs
  <2>13. ASSUME NEW len \in PathLens[mode], GetPortPath(t, len) PROVE RefsInv'
    BY <2>13, TreeAssumption, GetPortPathKeepsRefs
  <2>14. QED
    BY <1>4, <2>1, <2>2, <2>3, <2>4, <2>5, <2>6, <2>7, <2>8, <2>9, <2>10, <2>11, <2>12, <2>13 DEF Step
<1>5. QED BY <1>1, <1>2, <1>3, <1>4 DEF Next

\* An object that has a reference is on the list of the context, once.
LEMMA RefsInvIsEnough == ASSUME RefsInv PROVE RefsAddUp
<1>1. ASSUME NEW o \in Objs, Held(o) > 0 PROVE heap[o] # Free /\ Times(o, usb_devs) = 1
  <2>1. heap[o] # Free BY <1>1 DEF RefsInv, HeldInv
  <2>2. PICK i \in DOMAIN usb_devs : usb_devs[i] = o BY <2>1 DEF RefsInv, HeapInv
  <2>3. Positions(o, usb_devs) = {i} BY <2>2 DEF Positions, RefsInv, HeapInv
  <2>4. QED BY <2>1, <2>3, FS_Singleton DEF Times
<1>2. QED BY <1>1 DEF RefsInv, HeldInv, RefsAddUp, HeldIsAlive

\* The reference count of a device is the number of references that lists,
\* handles and enumerations have to it, at every moment of every execution in
\* which the application's threads take turns: it is never freed while someone
\* has it, and always when nobody has.
THEOREM RefsAddUpCorrect == ASSUME Serial PROVE Spec => []RefsAddUp
<1>1. Init => RefsInv BY InitRefs
<1>2. RefsInv /\ [Next]_vars => RefsInv' BY NextKeepsRefs
<1>3. RefsInv => RefsAddUp BY RefsInvIsEnough
<1>4. QED BY <1>1, <1>2, <1>3, PTL DEF Spec

-----------------------------------------------------------------------------
(* What becomes of the objects in a step                                   *)

Kept(o) == heap'[o] # Free /\ heap'[o].session = heap[o].session /\ heap'[o].dir = heap[o].dir
SameIds == \A o \in Objs : heap'[o].session = heap[o].session /\ heap'[o].dir = heap[o].dir

\* Only a new and a freed object change their number.
LEMMA IdsOfStep ==
  ASSUME RefsInv, NEW t \in Threads, Step(t) \/ Call(t)
  PROVE  SameIds \/ NewDevice(t) \/ Destroy(t)
<1>1. UNCHANGED heap => SameIds BY DEF SameIds
<1>2. ASSUME NEW b \in RootHubs, ScanBus(t, b) PROVE UNCHANGED heap BY <1>2 DEF ScanBus, objv
<1>3. ASSUME NEW x \in todo[t], SkipEntry(t, x) \/ ReadEntry(t, x) PROVE UNCHANGED heap
  BY <1>3 DEF SkipEntry, ReadEntry, objv
<1>4. CASE Initialize(t) \/ Deliver(t) \/ Fail(t) \/ Dropped(t)
  BY <1>1, <1>4 DEF Initialize, Deliver, Fail, Dropped, objv
<1>5. CASE AppendDevice(t)
  <2>1. dev[t] \in Objs /\ heap[dev[t]] # Free BY <1>5 DEF AppendDevice, Reading, RefsInv, AtHandInv, AtHand
  <2>2. heap' = Ref(dev[t]) /\ UNCHANGED usb_devs BY <1>5 DEF AppendDevice, AppendRef
  <2>3. QED BY <2>1, <2>2, RefProperties DEF SameIds
<1>6. CASE EndScan(t)
  <2>1. CASE Sysfs
    <3>1. pc[t] = "scan" /\ heap' = Analyzed(discdevs[t]) BY <1>6, <2>1 DEF EndScan, At
    <3>2. \A o \in Objs : heap'[o].session = heap[o].session /\ heap'[o].dir = heap[o].dir
      BY <3>1, TreeAssumption, AnalyzedProperties
    <3>3. QED BY <3>2 DEF SameIds
  <2>2. CASE ~Sysfs BY <1>1, <1>6, <2>2 DEF EndScan
  <2>3. QED BY <2>1, <2>2
<1>7. CASE Unref(t)
  <2>1. heap' = [heap EXCEPT ![Head(drop[t])].refcnt = @ - 1] BY <1>7 DEF Unref
  <2>2. QED BY <2>1 DEF SameIds, RefsInv, TypeOK
<1>8. CASE FindAndOpen(t)
  <2>1. CASE UNCHANGED heap BY <1>1, <2>1
  <2>2. CASE heap' # heap
    <3>1. PICK o \in ToSet(discdevs[t]) : heap' = Ref(o) /\ UNCHANGED usb_devs
      BY <1>8, <2>2 DEF FindAndOpen, OpenDevice, ToSet
    <3>2. o \in Objs /\ heap[o] # Free BY TreeAssumption, FoundIsAlive
    <3>3. QED BY <3>1, <3>2, RefProperties DEF SameIds
  <2>3. QED BY <2>1, <2>2
<1>9. ASSUME NEW len \in PathLens[mode], GetPortPath(t, len) PROVE UNCHANGED heap BY <1>9 DEF GetPortPath, objv
<1>10. ASSUME NEW g \in Goals[mode][t], GetDeviceList(t, g) PROVE UNCHANGED heap BY <1>10 DEF GetDeviceList, objv
<1>11. CASE FreeDeviceList(t) \/ Close(t) BY <1>1, <1>11 DEF FreeDeviceList, Close, objv
<1>12. CASE Open(t)
  <2>1. PICK o \in ToSet(list[t]) : heap' = Ref(o) /\ UNCHANGED usb_devs BY <1>12 DEF Open, OpenDevice
  <2>2. o \in Objs /\ heap[o] # Free BY TreeAssumption, FoundIsAlive
  <2>3. QED BY <2>1, <2>2, RefProperties DEF SameIds
<1>13. QED
  BY <1>1, <1>2, <1>3, <1>4, <1>5, <1>6, <1>7, <1>8, <1>9, <1>10, <1>11, <1>12 DEF Step, Call

\* An object that is made has the number that its thread has read.
LEMMA NewDeviceIds ==
  ASSUME RefsInv, NEW t \in Threads, NewDevice(t)
  PROVE  \E o \in Objs :
           /\ heap[o] = Free /\ heap'[o].dir = entry[t][1] /\ heap'[o].session = entry[t][2]
           /\ \A q \in Objs : q # o => heap'[q] = heap[q]
<1>1. PICK o \in Objs : heap[o] = Free /\ Alloc(o, entry[t][2], entry[t][1]) BY DEF NewDevice
<1> DEFINE new == [Free EXCEPT !.session = entry[t][2], !.dir = entry[t][1], !.refcnt = 1]
<1>2. new.session = entry[t][2] /\ new.dir = entry[t][1] BY DEF Free
<1>3. heap' = [heap EXCEPT ![o] = new] BY <1>1 DEF Alloc
<1> HIDE DEF new
<1>4. heap'[o] = new /\ \A q \in Objs : q # o => heap'[q] = heap[q] BY <1>3 DEF RefsInv, TypeOK
<1>5. QED BY <1>1, <1>2, <1>4

LEMMA DestroyIds ==
  ASSUME RefsInv, NEW t \in Threads, Destroy(t)
  PROVE  \E o \in Objs : /\ heap[o].refcnt = 0 /\ heap'[o] = Free
                         /\ \A q \in Objs : q # o => heap'[q] = heap[q]
<1>1. pc[t] = "destroy" /\ heap' = [heap EXCEPT ![Head(drop[t])] = Free] BY DEF Destroy, At
<1>2. drop[t] \in Seq(Objs) /\ drop[t] # <<>> BY <1>1 DEF RefsInv, TypeOK, EmptyInv, Empty
<1>3. PICK o \in Objs : o = Head(drop[t]) BY <1>2, HeadTailProperties
<1>4. heap[o].refcnt = 0 BY <1>1, <1>3 DEF RefsInv, AtHandInv, AtHand
<1>5. heap'[o] = Free /\ \A q \in Objs : q # o => heap'[q] = heap[q] BY <1>1, <1>3 DEF RefsInv, TypeOK
<1>6. QED BY <1>4, <1>5

\* An object that is referenced keeps its number and its place, and an object
\* that is new is the one that its thread has made for its entry.
LEMMA ObjectsOfStep ==
  ASSUME RefsInv, RefsInv', NEW t \in Threads, Step(t) \/ Call(t), NEW o \in Objs
  PROVE  /\ heap[o] # Free /\ heap[o].refcnt # 0 => Kept(o)
         /\ heap'[o] # Free =>
              \/ heap[o] # Free /\ Kept(o)
              \/ /\ NewDevice(t) /\ heap[o] = Free /\ heap'[o].dir = entry[t][1] /\ heap'[o].session = entry[t][2]
                 /\ \A q \in Objs : q # o => heap'[q] = heap[q]
<1>1. /\ heap[o] # Free => heap[o].session \in 1 .. MaxAddr
      /\ heap'[o] # Free => heap'[o].session \in 1 .. MaxAddr
      /\ Free.session = 0
  BY DEF RefsInv, HeapInv, Free
<1>2. CASE SameIds
  <2>1. heap'[o].session = heap[o].session /\ heap'[o].dir = heap[o].dir BY <1>2 DEF SameIds
  <2>2. heap[o] # Free <=> heap'[o] # Free BY <1>1, <2>1
  <2>3. QED BY <2>1, <2>2 DEF Kept
<1>3. CASE NewDevice(t) BY <1>3, NewDeviceIds DEF Kept
<1>4. CASE Destroy(t) BY <1>4, DestroyIds DEF Kept
<1>5. QED BY <1>2, <1>3, <1>4, IdsOfStep

\* In particular what an enumeration has found.
LEMMA FoundIsKept ==
  ASSUME RefsInv, RefsInv', NEW t \in Threads, Step(t) \/ Call(t), NEW u \in Threads
  PROVE  \A i \in DOMAIN discdevs[u] : discdevs[u][i] \in Objs /\ Kept(discdevs[u][i])
<1> TAKE i \in DOMAIN discdevs[u]
<1>1. discdevs[u][i] \in ToSet(discdevs[u]) BY DEF ToSet
<1>2. discdevs[u][i] \in Objs /\ heap[discdevs[u][i]] # Free /\ heap[discdevs[u][i]].refcnt # 0
  BY <1>1, TreeAssumption, FoundIsAlive
<1>3. QED BY <1>2, ObjectsOfStep

-----------------------------------------------------------------------------
(* One object for each number                                              *)

Distinct == \A o, q \in Objs : heap[o] # Free /\ heap[q] # Free /\ heap[o].session = heap[q].session => o = q

LEMMA DistinctIsOneObject == ASSUME RefsInv PROVE OneObjectPerDevice <=> Distinct
<1>1. \A i \in DOMAIN usb_devs : usb_devs[i] \in Objs /\ heap[usb_devs[i]] # Free
  <2>1. \A i \in DOMAIN usb_devs : usb_devs[i] \in Objs
    <3>1. DOMAIN usb_devs = 1 .. Len(usb_devs) /\ \A i \in 1 .. Len(usb_devs) : usb_devs[i] \in Objs
      BY LenProperties, ElementOfSeq DEF RefsInv, TypeOK
    <3>2. QED BY <3>1
  <2>2. QED BY <2>1 DEF RefsInv, HeapInv
<1>2. \A o \in Objs : heap[o] # Free => \E i \in DOMAIN usb_devs : usb_devs[i] = o BY DEF RefsInv, HeapInv
<1>3. \A i, j \in DOMAIN usb_devs : usb_devs[i] = usb_devs[j] => i = j BY DEF RefsInv, HeapInv
<1>4. ASSUME Distinct PROVE OneObjectPerDevice BY <1>1, <1>3, <1>4 DEF Distinct, OneObjectPerDevice
<1>5. ASSUME OneObjectPerDevice PROVE Distinct
  <2> SUFFICES ASSUME NEW o \in Objs, NEW q \in Objs, heap[o] # Free, heap[q] # Free, heap[o].session = heap[q].session
               PROVE  o = q
    BY DEF Distinct
  <2>1. PICK i \in DOMAIN usb_devs : usb_devs[i] = o BY <1>2
  <2>2. PICK j \in DOMAIN usb_devs : usb_devs[j] = q BY <1>2
  <2>3. i = j BY <1>5, <2>1, <2>2 DEF OneObjectPerDevice
  <2>4. QED BY <2>1, <2>2, <2>3
<1>6. QED BY <1>4, <1>5

\* Where a thread is about to make an object there is none for the number.
Wanted(t) == At(t, "alloc") => \A o \in Objs : heap[o] # Free => heap[o].session # entry[t][2]
NumbersInv == Distinct /\ \A t \in Threads : Wanted(t)

\* A thread comes to usbi_alloc_device only from its look at the list.
LEMMA StepToAlloc ==
  ASSUME RefsInv, NEW t \in Threads, Step(t) \/ Call(t), NEW u \in Threads, At(u, "alloc")'
  PROVE  \/ At(u, "alloc") /\ ~NewDevice(t) /\ entry'[u] = entry[u]
         \/ UNCHANGED heap /\ \A o \in Objs : heap[o] # Free => heap[o].session # entry'[u][2]
<1> USE DEF At, Go, GiveUp, Return, RefsInv, TypeOK
<1>1. CASE \E b \in RootHubs : ScanBus(t, b) BY <1>1 DEF ScanBus, NewDevice
<1>2. ASSUME NEW x \in todo[t], SkipEntry(t, x) PROVE At(u, "alloc") /\ ~NewDevice(t) /\ entry'[u] = entry[u]
  BY <1>2 DEF SkipEntry, NewDevice
<1>3. ASSUME NEW x \in todo[t], ReadEntry(t, x)
      PROVE  \/ At(u, "alloc") /\ ~NewDevice(t) /\ entry'[u] = entry[u]
             \/ UNCHANGED heap /\ \A o \in Objs : heap[o] # Free => heap[o].session # entry'[u][2]
  <2>1. CASE u = t
    <3>1. Known(Number(x)) = {} /\ entry'[u] = <<x[1], Number(x)>> /\ UNCHANGED heap
      <4>1. CASE Known(Number(x)) = {} BY <1>3, <2>1, <4>1 DEF ReadEntry, objv
      <4>2. CASE Known(Number(x)) # {}
        <5>1. pc' = [pc EXCEPT ![t] = "append"] BY <1>3, <4>2 DEF ReadEntry
        <5>2. QED BY <2>1, <5>1
      <4>3. QED BY <4>1, <4>2
    <3>2. \A o \in Objs : heap[o] # Free => \E i \in DOMAIN usb_devs : usb_devs[i] = o BY DEF HeapInv
    <3>3. QED BY <3>1, <3>2 DEF Known
  <2>2. CASE u # t
    <3>1. pc'[u] = pc[u] /\ entry'[u] = entry[u] /\ pc[t] = "scan" BY <1>3, <2>2 DEF ReadEntry
    <3>2. QED BY <3>1 DEF NewDevice
  <2>3. QED BY <2>1, <2>2
<1>4. CASE NewDevice(t)
  <2>1. pc'[t] = "initialize" /\ pc[t] = "alloc" /\ \A v \in Threads \ {t} : pc'[v] = pc[v] BY <1>4 DEF NewDevice
  <2>2. u # t /\ pc[u] = "alloc" BY <2>1
  <2>3. QED BY <2>1, <2>2 DEF Turns
<1>5. CASE Initialize(t) BY <1>5 DEF Initialize, NewDevice
<1>6. CASE AppendDevice(t)
  <2>1. pc[t] # "alloc" /\ pc' = [pc EXCEPT ![t] = "drop"] /\ entry' = entry BY <1>6 DEF AppendDevice
  <2>2. QED BY <2>1 DEF NewDevice
<1>7. CASE EndScan(t)
  <2>1. pc[t] # "alloc" /\ pc' = [pc EXCEPT ![t] = "deliver"] /\ entry' = entry BY <1>7 DEF EndScan
  <2>2. QED BY <2>1 DEF NewDevice
<1>8. CASE Deliver(t)
  <2>1. pc[t] = "deliver" /\ entry' = entry BY <1>8 DEF Deliver
  <2>2. pc' = [pc EXCEPT ![t] = "idle"] \/ pc' = [pc EXCEPT ![t] = goal[t]] BY <1>8 DEF Deliver
  <2>3. goal[t] # "alloc" OBVIOUS
  <2>4. QED BY <2>1, <2>2, <2>3 DEF NewDevice
<1>9. CASE Fail(t) BY <1>9 DEF Fail, scan, NewDevice
<1>10. CASE Unref(t)
  <2>1. pc[t] = "drop" /\ entry' = entry /\ (pc' = [pc EXCEPT ![t] = "destroy"] \/ pc' = pc)
    BY <1>10 DEF Unref, scan
  <2>2. QED BY <2>1 DEF NewDevice
<1>11. CASE Destroy(t) BY <1>11 DEF Destroy, scan, NewDevice
<1>12. CASE Dropped(t)
  <2>1. /\ pc[t] = "drop" /\ (pc' = [pc EXCEPT ![t] = "scan"] \/ pc' = [pc EXCEPT ![t] = "idle"])
        /\ \A v \in Threads \ {t} : entry'[v] = entry[v]
    BY <1>12 DEF Dropped
  <2>2. QED BY <2>1 DEF NewDevice
<1>13. CASE FindAndOpen(t) BY <1>13 DEF FindAndOpen, scan, NewDevice
<1>14. CASE \E len \in PathLens[mode] : GetPortPath(t, len) BY <1>14 DEF GetPortPath, NewDevice
<1>15. CASE \E g \in Goals[mode][t] : GetDeviceList(t, g)
  <2>1. pc[t] = "idle" /\ pc' = [pc EXCEPT ![t] = "scan"] /\ entry' = entry BY <1>15 DEF GetDeviceList
  <2>2. QED BY <2>1 DEF NewDevice
<1>16. CASE FreeDeviceList(t) \/ Open(t) \/ Close(t) BY <1>16 DEF FreeDeviceList, Open, Close, scan, NewDevice
<1>17. QED
  BY <1>1, <1>2, <1>3, <1>4, <1>5, <1>6, <1>7, <1>8, <1>9, <1>10, <1>11, <1>12, <1>13, <1>14, <1>15, <1>16
  DEF Step, Call

LEMMA StepKeepsNumbers ==
  ASSUME RefsInv, RefsInv', NumbersInv, NEW t \in Threads, Step(t) \/ Call(t)
  PROVE  NumbersInv'
<1>1. CASE NewDevice(t)
  <2>1. PICK n \in Objs : heap'[n].session = entry[t][2] /\ \A q \in Objs : q # n => heap'[q] = heap[q]
    BY <1>1, NewDeviceIds
  <2>2. \A q \in Objs : heap[q] # Free => heap[q].session # entry[t][2] BY <1>1 DEF NumbersInv, Wanted, NewDevice
  <2>3. Distinct' BY <2>1, <2>2 DEF Distinct, NumbersInv
  <2>4. \A u \in Threads : ~At(u, "alloc")'
    <3>1. pc[t] = "alloc" /\ pc' = [pc EXCEPT ![t] = "initialize"] BY <1>1 DEF NewDevice, At, Go
    <3>2. QED BY <3>1 DEF At, RefsInv, Turns, TypeOK
  <2>5. QED BY <2>3, <2>4 DEF NumbersInv, Wanted
<1>2. CASE ~NewDevice(t)
  <2>1. \A o \in Objs : heap'[o] # Free => heap[o] # Free /\ heap'[o].session = heap[o].session
    BY <1>2, ObjectsOfStep DEF Kept
  <2>2. Distinct' BY <2>1 DEF Distinct, NumbersInv
  <2>3. ASSUME NEW u \in Threads, At(u, "alloc")', NEW o \in Objs, heap'[o] # Free
        PROVE  heap'[o].session # entry'[u][2]
    <3>1. heap[o] # Free /\ heap'[o].session = heap[o].session BY <2>1, <2>3
    <3>2. CASE At(u, "alloc") /\ entry'[u] = entry[u] BY <3>1, <3>2 DEF NumbersInv, Wanted
    <3>3. CASE \A q \in Objs : heap[q] # Free => heap[q].session # entry'[u][2] BY <3>1, <3>3
    <3>4. QED BY <2>3, <3>2, <3>3, StepToAlloc
  <2>4. QED BY <2>2, <2>3 DEF NumbersInv, Wanted
<1>3. QED BY <1>1, <1>2

LEMMA NextKeepsNumbers == ASSUME RefsInv, RefsInv', NumbersInv, [Next]_vars PROVE NumbersInv'
<1>1. CASE UNCHANGED vars BY <1>1 DEF NumbersInv, Distinct, Wanted, At, vars, objv, scan
<1>2. ASSUME NEW d \in Dirs, Plug(d) \/ Unplug(d) PROVE NumbersInv'
  BY <1>2 DEF NumbersInv, Distinct, Wanted, At, Plug, Unplug, objv, scan
<1>3. ASSUME NEW t \in Threads, Call(t) \/ Step(t) PROVE NumbersInv' BY <1>3, StepKeepsNumbers
<1>4. QED BY <1>1, <1>2, <1>3 DEF Next

\* A device on the bus has one object at every moment of every execution in
\* which the application's threads take turns: what an enumeration finds again
\* is what the lists and handles that the application already has refer to.
THEOREM OneObjectPerDeviceCorrect == ASSUME Serial PROVE Spec => []OneObjectPerDevice
<1>1. Init => RefsInv BY InitRefs
<1>2. Init => NumbersInv BY DEF Init, NumbersInv, Distinct, Wanted, At
<1>3. RefsInv /\ [Next]_vars => RefsInv' BY NextKeepsRefs
<1>4. RefsInv /\ RefsInv' /\ NumbersInv /\ [Next]_vars => NumbersInv' BY NextKeepsNumbers
<1>5. RefsInv /\ NumbersInv => OneObjectPerDevice BY DistinctIsOneObject DEF NumbersInv
<1>6. QED BY <1>1, <1>2, <1>3, <1>4, <1>5, PTL DEF Spec

-----------------------------------------------------------------------------
(* The tree, and what the directories have                                 *)

LEMMA TreeDisjoint ==
  ASSUME NEW h \in RootHubs, NEW k \in RootHubs, h # k
  PROVE  \A d \in Behind(h) : d \notin Behind(k)
BY TreeAssumption DEF TreeAssumption, RootHubs, Behind

LEMMA TreeCovered ==
  ASSUME NEW d \in Dirs
  PROVE  \E h \in RootHubs : d \in Behind(h)
<1>1. CASE Hub[d] = NoDir BY <1>1 DEF RootHubs, Behind
<1>2. CASE Hub[d] # NoDir /\ Hub[Hub[d]] = NoDir
  <2>1. Hub[d] \in RootHubs BY <1>2, TreeAssumption DEF TreeAssumption, RootHubs
  <2>2. QED BY <2>1 DEF Behind
<1>3. CASE Hub[d] # NoDir /\ Hub[Hub[d]] # NoDir
  <2>1. Hub[Hub[d]] \in RootHubs BY <1>3, TreeAssumption DEF TreeAssumption, RootHubs
  <2>2. QED BY <1>3, <2>1 DEF Behind
<1>4. QED BY <1>1, <1>2, <1>3

LEMMA OneNumberPerPlace == \A x, y \in Attached : x[1] = y[1] => x = y
BY DEF Attached

LEMMA AttachedPlace == \A x \in Attached : x[1] \in Dirs /\ addr[x[1]] = x[2] /\ x[2] # 0 /\ x = <<x[1], x[2]>>
BY DEF Attached

\* The steps that read a directory are few.
LEMMA ScanOfStep ==
  ASSUME NEW t \in Threads, Step(t) \/ Call(t)
  PROVE  /\ UNCHANGED bus
         /\ \/ UNCHANGED <<todo, entry>>
            \/ \E b \in RootHubs : ScanBus(t, b)
            \/ \E x \in todo[t] : SkipEntry(t, x) \/ ReadEntry(t, x)
            \/ Dropped(t)
            \/ \E g \in Goals[mode][t] : GetDeviceList(t, g)
<1>1. CASE NewDevice(t) BY <1>1 DEF NewDevice
<1>2. CASE Initialize(t) BY <1>2 DEF Initialize
<1>3. CASE AppendDevice(t) BY <1>3 DEF AppendDevice
<1>4. CASE EndScan(t) \/ Deliver(t) BY <1>4 DEF EndScan, Deliver
<1>5. CASE Fail(t) \/ Unref(t) \/ Destroy(t) \/ FindAndOpen(t) BY <1>5 DEF Fail, Unref, Destroy, FindAndOpen, scan
<1>6. CASE \E len \in PathLens[mode] : GetPortPath(t, len) BY <1>6 DEF GetPortPath
<1>7. CASE FreeDeviceList(t) \/ Open(t) \/ Close(t) BY <1>7 DEF FreeDeviceList, Open, Close, scan
<1>8. CASE (\E b \in RootHubs : ScanBus(t, b)) \/ Dropped(t) BY <1>8 DEF ScanBus, Dropped
<1>9. CASE \E x \in todo[t] : SkipEntry(t, x) \/ ReadEntry(t, x) BY <1>9 DEF SkipEntry, ReadEntry
<1>10. CASE \E g \in Goals[mode][t] : GetDeviceList(t, g) BY <1>10 DEF GetDeviceList
<1>11. QED BY <1>1, <1>2, <1>3, <1>4, <1>5, <1>6, <1>7, <1>8, <1>9, <1>10 DEF Step, Call

-----------------------------------------------------------------------------
(* A number belongs to one place                                           *)

LEMMA StepKeepsSeen ==
  ASSUME RefsInv, RefsInv', SeenInv, NEW t \in Threads, Step(t) \/ Call(t)
  PROVE  SeenInv'
<1>1. UNCHANGED bus /\ Attached' = Attached BY ScanOfStep DEF bus, Attached
<1>2. ASSUME NEW o \in Objs, heap'[o] # Free PROVE <<heap'[o].dir, heap'[o].session>> \in Seen
  <2>1. CASE heap[o] # Free /\ Kept(o) BY <2>1 DEF Seen, Kept
  <2>2. CASE NewDevice(t) /\ heap'[o].dir = entry[t][1] /\ heap'[o].session = entry[t][2]
    <3>1. pc[t] \in Reading BY <2>2 DEF NewDevice, At, Reading
    <3>2. entry[t][1] # NoDir BY <3>1 DEF RefsInv, AtHandInv, AtHand
    <3>3. entry[t] \in Dirs \X (1 .. MaxAddr) BY <3>2 DEF RefsInv, TypeOK
    <3>4. <<heap'[o].dir, heap'[o].session>> = entry[t] BY <2>2, <3>3
    <3>5. QED BY <3>2, <3>4 DEF Seen
  <2>3. QED BY <1>2, <2>1, <2>2, ObjectsOfStep
<1>3. ASSUME NEW x \in todo[t], ReadEntry(t, x) PROVE <<x[1], Number(x)>> \in Seen
  <2>1. x \in Dirs \X (1 .. MaxAddr) /\ Number(x) # 0 BY <1>3 DEF ReadEntry, RefsInv, TypeOK
  <2>2. CASE Sysfs
    <3>1. <<x[1], addr[x[1]]>> \in Attached BY <2>1, <2>2 DEF Attached, Number
    <3>2. QED BY <2>2, <3>1 DEF Seen, Number
  <2>3. CASE ~Sysfs
    <3>1. <<x[1], Number(x)>> = x BY <2>1, <2>3 DEF Number
    <3>2. QED BY <3>1 DEF Seen
  <2>4. QED BY <2>2, <2>3
<1>4. ASSUME NEW u \in Threads
      PROVE  todo'[u] \subseteq todo[u] \cup Attached /\ (entry'[u][1] # NoDir => entry'[u] \in Seen)
  <2>1. entry[u][1] # NoDir => entry[u] \in Seen BY DEF Seen
  <2>2. CASE UNCHANGED <<todo, entry>> BY <2>1, <2>2
  <2>3. CASE \E b \in RootHubs : ScanBus(t, b) BY <2>1, <2>3 DEF ScanBus, RefsInv, TypeOK
  <2>4. ASSUME NEW x \in todo[t], SkipEntry(t, x)
        PROVE  todo'[u] \subseteq todo[u] \cup Attached /\ (entry'[u][1] # NoDir => entry'[u] \in Seen)
    BY <2>1, <2>4 DEF SkipEntry, RefsInv, TypeOK
  <2>5. ASSUME NEW x \in todo[t], ReadEntry(t, x)
        PROVE  todo'[u] \subseteq todo[u] \cup Attached /\ (entry'[u][1] # NoDir => entry'[u] \in Seen)
    <3>1. /\ todo' = [todo EXCEPT ![t] = @ \ {x}] /\ entry' = [entry EXCEPT ![t] = <<x[1], Number(x)>>]
      BY <2>5 DEF ReadEntry
    <3>2. entry'[u] = IF u = t THEN <<x[1], Number(x)>> ELSE entry[u] BY <3>1 DEF RefsInv, TypeOK
    <3>3. todo'[u] \subseteq todo[u] BY <3>1 DEF RefsInv, TypeOK
    <3>4. QED BY <1>3, <2>1, <2>5, <3>2, <3>3
  <2>6. CASE Dropped(t)
    <3>1. todo' = todo /\ (entry' = entry \/ entry' = [entry EXCEPT ![t] = <<NoDir, 0>>]) BY <2>6 DEF Dropped
    <3>2. entry'[u] = entry[u] \/ entry'[u][1] = NoDir
      <4>1. CASE entry' = entry BY <4>1
      <4>2. CASE entry' = [entry EXCEPT ![t] = <<NoDir, 0>>]
        <5>1. entry'[u] = IF u = t THEN <<NoDir, 0>> ELSE entry[u] BY <4>2 DEF RefsInv, TypeOK
        <5>2. QED BY <5>1
      <4>3. QED BY <3>1, <4>1, <4>2
    <3>3. QED BY <2>1, <3>1, <3>2
  <2>7. CASE \E g \in Goals[mode][t] : GetDeviceList(t, g) BY <2>1, <2>7 DEF GetDeviceList, RefsInv, TypeOK
  <2>8. QED BY <2>2, <2>3, <2>4, <2>5, <2>6, <2>7, ScanOfStep
<1>5. Seen' \subseteq Seen
  <2>1. ASSUME NEW x \in Seen' PROVE x \in Seen
    <3>1. CASE x \in Attached' BY <1>1, <3>1 DEF Seen
    <3>2. CASE \E o \in Objs : heap'[o] # Free /\ x = <<heap'[o].dir, heap'[o].session>> BY <1>2, <3>2
    <3>3. CASE \E u \in Threads : x \in todo'[u]
      <4>1. PICK u \in Threads : x \in todo'[u] BY <3>3
      <4>2. x \in todo[u] \/ x \in Attached BY <1>4, <4>1
      <4>3. QED BY <4>2 DEF Seen
    <3>4. CASE \E u \in Threads : entry'[u][1] # NoDir /\ x = entry'[u] BY <1>4, <3>4
    <3>5. QED BY <2>1, <3>1, <3>2, <3>3, <3>4 DEF Seen
  <2>2. QED BY <2>1
<1>6. QED BY <1>1, <1>5 DEF SeenInv, bus

LEMMA BusKeepsSeen ==
  ASSUME RefsInv, SeenInv, NEW d \in Dirs, Plug(d) \/ Unplug(d)
  PROVE  SeenInv'
<1>1. UNCHANGED <<heap, todo, entry>> BY DEF Plug, Unplug, objv, scan
<1>2. next_addr \in Nat /\ next_addr >= 1 BY TreeAssumption DEF TreeAssumption, RefsInv, TypeOK
<1>3. \A x \in Seen' : x \in Seen \/ x \in Attached' BY <1>1 DEF Seen
<1>4. Attached \subseteq Seen BY DEF Seen
<1>5. CASE Plug(d)
  <2>1. next_addr' = next_addr + 1 /\ addr' = [addr EXCEPT ![d] = next_addr] BY <1>5 DEF Plug
  <2>2. \A x \in Attached' : x \in Attached \/ x = <<d, next_addr>> BY <2>1 DEF Attached, RefsInv, TypeOK
  <2>3. \A x \in Seen' : x \in Seen \/ x = <<d, next_addr>> BY <1>3, <1>4, <2>2
  <2>4. \A x \in Seen : x[2] \in 1 .. next_addr - 1 BY DEF SeenInv
  <2>5. \A x \in Seen' : x[2] \in 1 .. next_addr BY <1>2, <2>3, <2>4
  <2>6. \A x, y \in Seen' : x[2] = y[2] => x[1] = y[1]
    <3>1. \A x \in Seen : x[2] # next_addr BY <1>2, <2>4
    <3>2. QED BY <2>3, <3>1 DEF SeenInv
  <2>7. QED BY <1>2, <2>1, <2>5, <2>6 DEF SeenInv
<1>6. CASE Unplug(d)
  <2>1. next_addr' = next_addr /\ addr' = [e \in Dirs |-> IF e \in Behind(d) THEN 0 ELSE addr[e]]
    BY <1>6 DEF Unplug
  <2>2. \A x \in Attached' : x \in Attached BY <2>1 DEF Attached
  <2>3. \A x \in Seen' : x \in Seen BY <1>3, <1>4, <2>2
  <2>4. QED BY <2>1, <2>3 DEF SeenInv
<1>7. QED BY <1>5, <1>6

-----------------------------------------------------------------------------
(* One enumeration: what is read, found, and still to be read              *)

\* A step that changes nothing of what thread u is reading.
LEMMA QuietBusy ==
  ASSUME NEW u \in Threads, InOrder(u), UNCHANGED <<mode, addr>>,
         todo'[u] = todo[u], buses'[u] = buses[u], there'[u] = there[u], r'[u] = r[u], discdevs'[u] = discdevs[u],
         pc[u] \in Reading <=> pc'[u] \in Reading, pc[u] \in Reading => entry'[u] = entry[u],
         At(u, "deliver") <=> At(u, "deliver")',
         \A i \in DOMAIN discdevs[u] : Kept(discdevs[u][i])
  PROVE  InOrder(u)'
<1>1. There(u)' BY DEF InOrder, There, Attached
<1>2. Within(u)' = Within(u) /\ Left(u)' = Left(u) BY DEF Within, Left
<1>3. \A i \in DOMAIN discdevs[u] : FoundAt(u, i)' = FoundAt(u, i) BY DEF FoundAt, Kept
<1>4. Once(u)' BY <1>2, <1>3 DEF InOrder, Once
<1>5. \A x : Listed(u, x)' <=> Listed(u, x) BY DEF Listed, Kept
<1>6. \A x : (ToBeRead(u, x)' <=> ToBeRead(u, x)) /\ (CanRead(x)' <=> CanRead(x)) BY DEF ToBeRead, CanRead
<1>7. Complete(u)' BY <1>2, <1>5, <1>6 DEF InOrder, Complete
<1>8. QED BY <1>1, <1>4, <1>7 DEF InOrder

LEMMA GetDeviceListInOrder ==
  ASSUME RefsInv, RootsInv, NEW t \in Threads, NEW g \in Goals[mode][t], GetDeviceList(t, g)
  PROVE  InOrder(t)'
<1>1. /\ pc[t] = "idle" /\ pc'[t] = "scan" /\ there'[t] = Attached /\ UNCHANGED <<bus, heap, discdevs>>
      /\ buses'[t] = (IF mode = "usbfs" THEN RootHubs ELSE {})
      /\ todo'[t] = (IF mode = "usbfs" THEN {} ELSE Attached)
  BY DEF GetDeviceList, At, Go, RefsInv, TypeOK, objv
<1>2. Attached' = Attached BY <1>1 DEF Attached, bus
<1>3. DOMAIN discdevs'[t] = {}
  <2>1. entry[t][1] = NoDir BY <1>1 DEF RefsInv, AtHandInv, AtHand, Reading, Leaving
  <2>2. discdevs[t] = <<>> BY <1>1, <2>1 DEF RefsInv, EmptyInv, Empty, Busy, Reading
  <2>3. QED BY <1>1, <2>2
<1>4. There(t)' BY <1>1, <1>2 DEF There, At, bus
<1>5. todo'[t] = {} \/ buses'[t] = {} BY <1>1
<1>6. Once(t)'
  <2>1. \A x, y \in todo'[t] : x[1] = y[1] => x = y BY <1>1, OneNumberPerPlace
  <2>2. \A x \in todo'[t] : x[1] \notin Within(t)' BY <1>5 DEF Within
  <2>3. QED BY <1>1, <1>3, <2>1, <2>2 DEF Once, Reading
<1>7. \A x \in Attached : ToBeRead(t, x)' \/ x[1] \in Within(t)'
  <2> TAKE x \in Attached
  <2>1. CASE mode # "usbfs" BY <1>1, <2>1 DEF ToBeRead
  <2>2. CASE mode = "usbfs"
    <3>1. PICK h \in RootHubs : x[1] \in Behind(h) BY AttachedPlace, TreeCovered
    <3>2. QED BY <1>1, <2>2, <3>1 DEF Within
  <2>3. QED BY <2>1, <2>2
<1>8. mode = "sysfs" => \E x \in there'[t] : x[1] \in RootHubs /\ ToBeRead(t, x)'
  <2> HAVE mode = "sysfs"
  <2>1. PICK d \in Dirs : TRUE BY TreeAssumption DEF TreeAssumption
  <2>2. PICK h \in RootHubs : d \in Behind(h) BY TreeCovered
  <2>3. <<h, addr[h]>> \in Attached BY DEF RootsInv, Attached, RootHubs
  <2>4. QED BY <1>1, <2>3 DEF ToBeRead
<1>9. Complete(t)' BY <1>1, <1>7, <1>8 DEF Complete, bus
<1>10. QED BY <1>4, <1>6, <1>9 DEF InOrder

LEMMA ScanBusInOrder ==
  ASSUME RefsInv, NEW t \in Threads, InOrder(t), NEW b \in RootHubs, ScanBus(t, b)
  PROVE  InOrder(t)'
<1>1. /\ pc[t] = "scan" /\ todo[t] = {} /\ b \in buses[t] /\ UNCHANGED <<bus, heap, discdevs, pc, there, entry>>
      /\ buses'[t] = buses[t] \ {b} /\ todo'[t] = {x \in Attached : x[1] \in Behind(b)}
  BY DEF ScanBus, At, RefsInv, TypeOK, objv
<1>2. Attached' = Attached BY <1>1 DEF Attached, bus
<1>3. mode = "usbfs" BY <1>1 DEF InOrder, There
<1>4. There(t)' BY <1>1, <1>2 DEF InOrder, There, At, bus
<1>5. \A d \in Behind(b) : d \in Within(t) /\ d \notin Within(t)'
  <2>1. \A h \in buses'[t] : h \in RootHubs /\ h # b BY <1>1 DEF InOrder, There
  <2>2. QED BY <1>1, <2>1, TreeDisjoint DEF Within
<1>6. \A d \in Within(t) : d \in Within(t)' \/ d \in Behind(b) BY <1>1 DEF Within
<1>7. Left(t)' \subseteq Left(t)
  <2>1. Within(t)' \subseteq Within(t) BY <1>1 DEF Within
  <2>2. QED BY <1>1, <1>5, <2>1 DEF Left
<1>8. Once(t)'
  <2>1. \A x, y \in todo'[t] : x[1] = y[1] => x = y BY <1>1, OneNumberPerPlace
  <2>2. \A x \in todo'[t] : x[1] \notin Within(t)' BY <1>1, <1>5
  <2>3. \A i \in DOMAIN discdevs[t] : FoundAt(t, i)' = FoundAt(t, i) BY <1>1 DEF FoundAt
  <2>4. QED BY <1>1, <1>7, <2>1, <2>2, <2>3 DEF InOrder, Once, Reading
<1>9. Complete(t)'
  <2>1. ASSUME NEW x \in there[t], CanRead(x) PROVE Listed(t, x)' \/ ToBeRead(t, x)' \/ x[1] \in Within(t)'
    <3>1. Listed(t, x) \/ x[1] \in Within(t) BY <1>1, <2>1 DEF InOrder, Complete, ToBeRead, Reading, At
    <3>2. CASE Listed(t, x) BY <1>1, <3>2 DEF Listed
    <3>3. CASE x[1] \in Behind(b) BY <1>1, <3>3 DEF ToBeRead, InOrder, There
    <3>4. QED BY <1>6, <3>1, <3>2, <3>3
  <2>2. \A x : CanRead(x)' <=> CanRead(x) BY <1>1 DEF CanRead, bus
  <2>3. QED BY <1>1, <1>3, <2>1, <2>2 DEF Complete, bus
<1>10. QED BY <1>4, <1>8, <1>9 DEF InOrder

LEMMA SkipEntryInOrder ==
  ASSUME RefsInv, NEW t \in Threads, InOrder(t), NEW x \in todo[t], SkipEntry(t, x)
  PROVE  InOrder(t)'
<1>1. /\ pc[t] = "scan" /\ Number(x) = 0 /\ UNCHANGED <<bus, heap, discdevs, pc, there, entry, buses, r>>
      /\ todo'[t] = todo[t] \ {x}
  BY DEF SkipEntry, At, RefsInv, TypeOK, objv, app
<1>2. x \notin there[t]
  <2>1. x \in Dirs \X (1 .. MaxAddr) BY DEF RefsInv, TypeOK
  <2>2. CASE Sysfs
    <3>1. addr[x[1]] = 0 BY <1>1, <2>2 DEF Number
    <3>2. x \notin Attached BY <3>1, AttachedPlace
    <3>3. QED BY <3>2 DEF InOrder, There
  <2>3. CASE ~Sysfs BY <1>1, <2>1, <2>3 DEF Number
  <2>4. QED BY <2>2, <2>3
<1>3. Attached' = Attached BY <1>1 DEF Attached, bus
<1>4. There(t)' BY <1>1, <1>3 DEF InOrder, There, At, bus
<1>5. Within(t)' = Within(t) /\ Left(t)' \subseteq Left(t) BY <1>1 DEF Within, Left
<1>6. Once(t)'
  <2>1. \A i \in DOMAIN discdevs[t] : FoundAt(t, i)' = FoundAt(t, i) BY <1>1 DEF FoundAt
  <2>2. QED BY <1>1, <1>5, <2>1 DEF InOrder, Once, Reading
<1>7. Complete(t)'
  <2>1. \A y : (Listed(t, y)' <=> Listed(t, y)) /\ (CanRead(y)' <=> CanRead(y)) BY <1>1 DEF Listed, CanRead, bus
  <2>2. \A y \in there[t] : ToBeRead(t, y) => ToBeRead(t, y)' BY <1>1, <1>2 DEF ToBeRead, Reading
  <2>3. QED BY <1>1, <1>5, <2>1, <2>2 DEF InOrder, Complete, At, bus
<1>8. QED BY <1>4, <1>6, <1>7 DEF InOrder

LEMMA ReadEntryInOrder ==
  ASSUME RefsInv, NEW t \in Threads, InOrder(t), NEW x \in todo[t], ReadEntry(t, x)
  PROVE  InOrder(t)'
<1>1. /\ pc[t] = "scan" /\ UNCHANGED <<bus, heap, discdevs, there, buses, r>>
      /\ todo'[t] = todo[t] \ {x} /\ entry'[t] = <<x[1], Number(x)>>
  BY DEF ReadEntry, At, RefsInv, TypeOK, objv, app
<1>2. pc'[t] \in {"alloc", "append"}
  <2>1. pc' = [pc EXCEPT ![t] = "alloc"] \/ pc' = [pc EXCEPT ![t] = "append"] BY DEF ReadEntry, Go
  <2>2. QED BY <2>1 DEF RefsInv, TypeOK
<1>3. x \in there[t] => entry'[t] = x
  <2> HAVE x \in there[t]
  <2>1. addr[x[1]] = x[2] /\ x = <<x[1], x[2]>> BY AttachedPlace DEF InOrder, There
  <2>2. QED BY <1>1, <2>1 DEF Number
<1>4. Attached' = Attached BY <1>1 DEF Attached, bus
<1>5. There(t)' BY <1>1, <1>2, <1>4 DEF InOrder, There, At, bus
<1>6. Within(t)' = Within(t) /\ Left(t)' \subseteq Left(t) BY <1>1 DEF Within, Left
<1>7. x[1] \notin Left(t)'
  <2>1. \A y \in todo'[t] : y[1] # x[1] BY <1>1 DEF InOrder, Once
  <2>2. x[1] \notin Within(t)' BY <1>6 DEF InOrder, Once
  <2>3. QED BY <2>1, <2>2 DEF Left
<1>8. Once(t)'
  <2>1. \A i \in DOMAIN discdevs[t] : FoundAt(t, i)' = FoundAt(t, i) BY <1>1 DEF FoundAt
  <2>2. x[1] \in Left(t) /\ entry'[t][1] = x[1] BY <1>1 DEF Left
  <2>3. \A i \in DOMAIN discdevs[t] : FoundAt(t, i) \notin Left(t) BY DEF InOrder, Once
  <2>4. \A i \in DOMAIN discdevs'[t] : FoundAt(t, i)' \notin Left(t)' /\ FoundAt(t, i)' # entry'[t][1]
    BY <1>1, <1>6, <2>1, <2>2, <2>3
  <2>5. \A i, j \in DOMAIN discdevs'[t] : FoundAt(t, i)' = FoundAt(t, j)' => i = j
    BY <1>1, <2>1 DEF InOrder, Once
  <2>6. /\ \A y, z \in todo'[t] : y[1] = z[1] => y = z
        /\ \A y \in todo'[t] : y[1] \notin Within(t)'
    BY <1>1, <1>6 DEF InOrder, Once
  <2>7. entry'[t][1] \notin Left(t)' BY <1>7, <2>2
  <2>8. QED BY <2>4, <2>5, <2>6, <2>7 DEF Once
<1>9. Complete(t)'
  <2>1. \A y : (Listed(t, y)' <=> Listed(t, y)) /\ (CanRead(y)' <=> CanRead(y)) BY <1>1 DEF Listed, CanRead, bus
  <2>2. \A y \in there[t] : ToBeRead(t, y) => ToBeRead(t, y)' BY <1>1, <1>2, <1>3 DEF ToBeRead, Reading
  <2>3. QED BY <1>1, <1>6, <2>1, <2>2 DEF InOrder, Complete, At, bus
<1>10. QED BY <1>5, <1>8, <1>9 DEF InOrder

LEMMA NewDeviceInOrder ==
  ASSUME RefsInv, RefsInv', NEW t \in Threads, InOrder(t), NewDevice(t)
  PROVE  InOrder(t)'
<1>1. /\ pc[t] = "alloc" /\ pc'[t] = "initialize"
      /\ UNCHANGED <<bus, todo, buses, there, r, discdevs, entry>>
  BY DEF NewDevice, At, Go, RefsInv, TypeOK
<1>2. \A i \in DOMAIN discdevs[t] : Kept(discdevs[t][i]) BY FoundIsKept DEF Step
<1>3. QED BY <1>1, <1>2, QuietBusy DEF bus, Reading, At

\* The references that are given up in an enumeration are none of what it has found.
LEMMA LeavingInOrder ==
  ASSUME RefsInv, RefsInv', NEW t \in Threads, InOrder(t), Unref(t) \/ Destroy(t)
  PROVE  InOrder(t)'
<1>1. pc[t] \in Leaving /\ pc'[t] \in Leaving /\ UNCHANGED <<bus, todo, buses, there, r, discdevs, entry>>
  <2>1. CASE Destroy(t) BY <2>1 DEF Destroy, At, Go, RefsInv, TypeOK, Leaving, scan
  <2>2. CASE Unref(t)
    <3>1. pc[t] = "drop" /\ (pc' = pc \/ pc' = [pc EXCEPT ![t] = "destroy"])
      BY <2>2 DEF Unref, At, Go
    <3>2. pc'[t] \in Leaving BY <3>1 DEF RefsInv, TypeOK, Leaving
    <3>3. QED BY <2>2, <3>1, <3>2 DEF Unref, Leaving, scan
  <2>3. QED BY <2>1, <2>2
<1>2. \A i \in DOMAIN discdevs[t] : Kept(discdevs[t][i]) BY FoundIsKept DEF Step
<1>3. QED BY <1>1, <1>2, QuietBusy DEF bus, Reading, Leaving, At

LEMMA DroppedInOrder ==
  ASSUME RefsInv, RefsInv', NEW t \in Threads, InOrder(t), Dropped(t), entry[t][1] # NoDir
  PROVE  InOrder(t)'
<1>1. /\ pc[t] = "drop" /\ pc'[t] = "scan" /\ UNCHANGED <<bus, todo, buses, there, r, discdevs>>
  BY DEF Dropped, At, Go, RefsInv, TypeOK
<1>2. \A i \in DOMAIN discdevs[t] : Kept(discdevs[t][i]) BY FoundIsKept DEF Step
<1>3. QED BY <1>1, <1>2, QuietBusy DEF bus, Reading, At

LEMMA InitializeInOrder ==
  ASSUME RefsInv, RefsInv', NEW t \in Threads, InOrder(t), Initialize(t)
  PROVE  InOrder(t)'
<1>1. pc[t] = "initialize" /\ UNCHANGED <<bus, heap, todo, buses, there, discdevs, entry>>
  BY DEF Initialize, At, objv
<1>2. \A i \in DOMAIN discdevs[t] : Kept(discdevs[t][i]) BY FoundIsKept DEF Step
<1>3. CASE Readable(entry[t][1], entry[t][2])
  <2>1. pc'[t] = "append_new" /\ r' = r BY <1>3 DEF Initialize, Go, RefsInv, TypeOK
  <2>2. QED BY <1>1, <1>2, <2>1, QuietBusy DEF bus, Reading, At
<1>4. CASE ~Readable(entry[t][1], entry[t][2])
  <2>1. pc'[t] = "drop" /\ r'[t] = Counted(t, FALSE) BY <1>4 DEF Initialize, GiveUp, Go, RefsInv, TypeOK
  <2>2. ~(entry[t] \in there[t] /\ CanRead(entry[t]))
    <3> SUFFICES ASSUME entry[t] \in there[t], CanRead(entry[t]) PROVE FALSE OBVIOUS
    <3>1. entry[t][1] \in Dirs /\ addr[entry[t][1]] = entry[t][2] /\ entry[t][2] # 0
      BY AttachedPlace DEF InOrder, There
    <3>2. CASE mode = "sysfs" BY <1>4, <3>1, <3>2 DEF Readable
    <3>3. CASE mode # "sysfs" BY <1>4, <3>1, <3>3 DEF Readable, Node, CanRead
    <3>4. QED BY <3>2, <3>3
  <2>3. Within(t)' = Within(t) /\ Left(t)' = Left(t) BY <1>1 DEF Within, Left
  <2>4. There(t)' BY <1>1, <2>1 DEF InOrder, There, Attached, bus, At
  <2>5. Once(t)'
    <3>1. \A i \in DOMAIN discdevs[t] : FoundAt(t, i)' = FoundAt(t, i) BY <1>1 DEF FoundAt
    <3>2. QED BY <1>1, <2>1, <2>3, <3>1 DEF InOrder, Once, Reading
  <2>6. Complete(t)'
    <3>1. \A x : (Listed(t, x)' <=> Listed(t, x)) /\ (CanRead(x)' <=> CanRead(x)) BY <1>1 DEF Listed, CanRead, bus
    <3>2. \A x \in there[t] : ToBeRead(t, x) /\ CanRead(x) => ToBeRead(t, x)' BY <1>1, <2>2 DEF ToBeRead
    <3>3. mode = "sysfs" => r'[t] = r[t] BY <2>1 DEF Counted, RefsInv, TypeOK
    <3>4. mode = "sysfs" => \A x \in there[t] : CanRead(x) BY DEF CanRead
    <3>5. mode' = mode /\ there' = there /\ ~At(t, "deliver") BY <1>1 DEF bus, At
    <3>6. \A x \in there'[t] : CanRead(x)' => Listed(t, x)' \/ ToBeRead(t, x)' \/ x[1] \in Within(t)'
      BY <2>3, <3>1, <3>2, <3>5 DEF InOrder, Complete
    <3>7. mode' = "sysfs" => r'[t] \/ \E x \in there'[t] : x[1] \in RootHubs /\ ToBeRead(t, x)'
      BY <3>2, <3>3, <3>4, <3>5 DEF InOrder, Complete
    <3>8. QED BY <3>6, <3>7 DEF Complete
  <2>7. QED BY <2>4, <2>5, <2>6 DEF InOrder
<1>5. QED BY <1>3, <1>4

LEMMA AppendDeviceInOrder ==
  ASSUME RefsInv, RefsInv', SeenInv, NEW t \in Threads, InOrder(t), AppendDevice(t)
  PROVE  InOrder(t)'
<1>0. PICK n \in Nat : n = Len(discdevs[t]) BY LenProperties DEF RefsInv, TypeOK
<1>1. /\ pc[t] \in {"append", "append_new"} /\ pc'[t] = "drop" /\ UNCHANGED <<bus, usb_devs, todo, buses, there, entry>>
      /\ heap' = Ref(dev[t]) /\ discdevs'[t] = Append(discdevs[t], dev[t]) /\ r'[t] = Counted(t, TRUE)
  BY DEF AppendDevice, AppendRef, GiveUp, Go, RefsInv, TypeOK
<1>2. dev[t] \in Objs /\ heap[dev[t]] # Free /\ heap[dev[t]].session = entry[t][2] /\ entry[t][1] # NoDir
  BY <1>1 DEF RefsInv, AtHandInv, AtHand, Reading
<1>3. \A q \in Objs : heap'[q].session = heap[q].session /\ heap'[q].dir = heap[q].dir
  BY <1>1, <1>2, RefProperties
<1>4. heap[dev[t]].dir = entry[t][1]
  <2>1. <<heap[dev[t]].dir, heap[dev[t]].session>> \in Seen /\ entry[t] \in Seen BY <1>2 DEF Seen
  <2>2. QED BY <1>2, <2>1 DEF SeenInv
<1>5. /\ n \in Nat /\ DOMAIN discdevs[t] = 1 .. n /\ DOMAIN discdevs'[t] = 1 .. n + 1
      /\ \A i \in 1 .. n : discdevs'[t][i] = discdevs[t][i] /\ discdevs[t][i] \in Objs
      /\ discdevs'[t][n + 1] = dev[t]
  <2>1. discdevs[t] \in Seq(Objs) BY DEF RefsInv, TypeOK
  <2>2. QED BY <1>0, <1>1, <1>2, <2>1, AppendProperties, LenProperties, ElementOfSeq
<1>6. FoundAt(t, n + 1)' = entry[t][1] /\ \A i \in 1 .. n : FoundAt(t, i)' = FoundAt(t, i)
  BY <1>2, <1>3, <1>4, <1>5 DEF FoundAt
<1>7. Within(t)' = Within(t) /\ Left(t)' = Left(t) BY <1>1 DEF Within, Left
<1>8. There(t)' BY <1>1 DEF InOrder, There, Attached, bus, At
<1>9. Once(t)'
  <2>1. pc[t] \in Reading /\ pc'[t] \notin Reading BY <1>1 DEF Reading
  <2>2. entry[t][1] \notin Left(t) /\ \A i \in 1 .. n : FoundAt(t, i) \notin Left(t) /\ FoundAt(t, i) # entry[t][1]
    BY <1>5, <2>1 DEF InOrder, Once
  <2>3. \A i \in 1 .. n + 1 : i \in 1 .. n \/ i = n + 1 BY <1>5
  <2>4. \A i \in DOMAIN discdevs'[t] : FoundAt(t, i)' \notin Left(t)' BY <1>5, <1>6, <1>7, <2>2, <2>3
  <2>5. \A i, j \in DOMAIN discdevs'[t] : FoundAt(t, i)' = FoundAt(t, j)' => i = j
    <3>1. \A i, j \in 1 .. n : FoundAt(t, i) = FoundAt(t, j) => i = j BY <1>5 DEF InOrder, Once
    <3>2. QED BY <1>5, <1>6, <2>2, <2>3, <3>1
  <2>6. QED BY <1>1, <1>7, <2>1, <2>4, <2>5 DEF InOrder, Once
<1>10. Complete(t)'
  <2>1. \A x : Listed(t, x) => Listed(t, x)'
    <3> SUFFICES ASSUME NEW x, Listed(t, x) PROVE Listed(t, x)' OBVIOUS
    <3>1. PICK i \in 1 .. n : heap[discdevs[t][i]].session = x[2] BY <1>5 DEF Listed
    <3>2. i \in DOMAIN discdevs'[t] /\ heap'[discdevs'[t][i]].session = x[2] BY <1>3, <1>5, <3>1
    <3>3. QED BY <3>2 DEF Listed
  <2>2. Listed(t, entry[t])'
    <3>1. n + 1 \in DOMAIN discdevs'[t] /\ heap'[discdevs'[t][n + 1]].session = entry[t][2] BY <1>2, <1>3, <1>5
    <3>2. QED BY <1>1, <3>1 DEF Listed
  <2>3. \A x : ToBeRead(t, x) => ToBeRead(t, x)' \/ Listed(t, x)'
    <3>1. \A x : ToBeRead(t, x) => x \in todo'[t] \/ x = entry[t] BY <1>1 DEF ToBeRead
    <3>2. entry' = entry BY <1>1
    <3>3. QED BY <2>2, <3>1, <3>2 DEF ToBeRead
  <2>4. /\ mode = "sysfs" => r'[t]
        /\ mode' = mode /\ there' = there /\ ~At(t, "deliver") /\ \A x : CanRead(x)' <=> CanRead(x)
    BY <1>1 DEF Counted, bus, CanRead, At
  <2>5. QED BY <1>7, <2>1, <2>3, <2>4 DEF InOrder, Complete
<1>11. QED BY <1>8, <1>9, <1>10 DEF InOrder

LEMMA EndScanInOrder ==
  ASSUME RefsInv, RefsInv', NEW t \in Threads, InOrder(t), EndScan(t)
  PROVE  InOrder(t)'
<1>1. /\ pc[t] = "scan" /\ pc'[t] = "deliver" /\ todo[t] = {} /\ buses'[t] = {} /\ (buses[t] = {} \/ ~r[t])
      /\ UNCHANGED <<bus, todo, there, entry, discdevs, r>>
  BY DEF EndScan, At, Go, RefsInv, TypeOK
<1>2. \A i \in DOMAIN discdevs[t] : Kept(discdevs[t][i]) BY FoundIsKept DEF Step
<1>3. There(t)' BY <1>1 DEF InOrder, There, Attached, bus
<1>4. Left(t)' = {} /\ Within(t)' = {} BY <1>1 DEF Left, Within
<1>5. Once(t)'
  <2>1. \A i \in DOMAIN discdevs[t] : FoundAt(t, i)' = FoundAt(t, i) BY <1>1, <1>2 DEF FoundAt, Kept
  <2>2. QED BY <1>1, <1>4, <2>1 DEF InOrder, Once, Reading
<1>6. Complete(t)'
  <2>1. \A x : Listed(t, x) => Listed(t, x)' BY <1>1, <1>2 DEF Listed, Kept
  <2>2. \A x : ~ToBeRead(t, x) BY <1>1 DEF ToBeRead, Reading
  <2>3. ~r[t] \/ Within(t) = {} BY <1>1 DEF Within
  <2>4. /\ mode' = mode /\ there' = there /\ r' = r /\ At(t, "deliver")' /\ ~At(t, "deliver")
        /\ \A x : CanRead(x)' <=> CanRead(x)
    BY <1>1 DEF bus, CanRead, At
  <2>5. \A x \in there[t] : CanRead(x) => Listed(t, x)' \/ ~r[t] BY <2>1, <2>2, <2>3, <2>4 DEF InOrder, Complete
  <2>6. mode = "sysfs" => r[t] BY <2>2 DEF InOrder, Complete
  <2>7. QED BY <2>4, <2>5, <2>6 DEF Complete
<1>7. QED BY <1>3, <1>5, <1>6 DEF InOrder

-----------------------------------------------------------------------------
(* All enumerations                                                        *)

\* Other threads stay where they are.
LEMMA PlaceOfStep ==
  ASSUME RefsInv, NEW t \in Threads, Step(t) \/ Call(t)
  PROVE  \A u \in Threads \ {t} : pc'[u] = pc[u] /\ entry'[u] = entry[u]
<1>1. UNCHANGED pc \/ \E l : pc' = [pc EXCEPT ![t] = l]
  <2> USE DEF Go, GiveUp, Return
  <2>1. CASE \E b \in RootHubs : ScanBus(t, b) BY <2>1 DEF ScanBus
  <2>2. CASE \E x \in todo[t] : SkipEntry(t, x) BY <2>2 DEF SkipEntry
  <2>3. CASE \E x \in todo[t] : ReadEntry(t, x) BY <2>3 DEF ReadEntry
  <2>4. CASE NewDevice(t) \/ Initialize(t) \/ AppendDevice(t) \/ EndScan(t)
    BY <2>4 DEF NewDevice, Initialize, AppendDevice, EndScan
  <2>5. CASE Deliver(t) \/ Fail(t) \/ Unref(t) \/ Destroy(t) \/ Dropped(t)
    BY <2>5 DEF Deliver, Fail, Unref, Destroy, Dropped
  <2>6. CASE FindAndOpen(t) \/ \E len \in PathLens[mode] : GetPortPath(t, len) BY <2>6 DEF FindAndOpen, GetPortPath
  <2>7. CASE \E g \in Goals[mode][t] : GetDeviceList(t, g) BY <2>7 DEF GetDeviceList
  <2>8. CASE FreeDeviceList(t) \/ Open(t) \/ Close(t) BY <2>8 DEF FreeDeviceList, Open, Close
  <2>9. QED BY <2>1, <2>2, <2>3, <2>4, <2>5, <2>6, <2>7, <2>8 DEF Step, Call
<1>2. UNCHANGED entry \/ \E x : entry' = [entry EXCEPT ![t] = x]
  <2>1. CASE \E b \in RootHubs : ScanBus(t, b) BY <2>1 DEF ScanBus
  <2>2. CASE \E x \in todo[t] : SkipEntry(t, x) \/ ReadEntry(t, x) BY <2>2 DEF SkipEntry, ReadEntry
  <2>3. CASE Dropped(t) BY <2>3 DEF Dropped
  <2>4. CASE \E g \in Goals[mode][t] : GetDeviceList(t, g) BY <2>4 DEF GetDeviceList
  <2>5. QED BY <2>1, <2>2, <2>3, <2>4, ScanOfStep
<1>3. \A u \in Threads \ {t} : pc'[u] = pc[u] BY <1>1 DEF RefsInv, TypeOK
<1>4. \A u \in Threads \ {t} : entry'[u] = entry[u]
  <2>1. DOMAIN entry = Threads BY DEF RefsInv, TypeOK
  <2>2. QED BY <1>2, <2>1
<1>5. QED BY <1>3, <1>4

\* The other threads rest, whatever one thread does but libusb_open.
LEMMA OthersRest ==
  ASSUME Serial, RefsInv, NEW t \in Threads, Step(t) \/ Call(t), ~Open(t), NEW u \in Threads \ {t}
  PROVE  pc[u] = "idle" /\ pc'[u] = "idle"
<1>1. CASE pc[t] # "idle" BY <1>1, PlaceOfStep DEF RefsInv, Turns
<1>2. CASE pc[t] = "idle"
  <2>1. ~Step(t)
    BY <1>2 DEF Step, ScanBus, SkipEntry, ReadEntry, NewDevice, Initialize, AppendDevice, EndScan, Deliver, Fail,
                Unref, Destroy, Dropped, FindAndOpen, GetPortPath, At
  <2>2. Alone(t) BY <2>1 DEF Call, GetDeviceList, FreeDeviceList, Close
  <2>3. QED BY <2>2, PlaceOfStep DEF Alone
<1>3. QED BY <1>1, <1>2

LEMMA OthersAreIdle ==
  ASSUME Serial, RefsInv, NEW t \in Threads, Step(t) \/ Call(t), ~Open(t), NEW u \in Threads \ {t}
  PROVE  ~Busy(u)'
<1>1. pc[u] = "idle" /\ pc'[u] = "idle" BY OthersRest
<1>2. entry[u][1] = NoDir BY <1>1 DEF RefsInv, AtHandInv, AtHand, Reading, Leaving
<1>3. QED BY <1>1, <1>2, PlaceOfStep DEF Busy, Reading

\* libusb_open may come while another thread enumerates; it disturbs nobody.
LEMMA OpenKeepsBusy ==
  ASSUME RefsInv, RefsInv', BusyInv, NEW t \in Threads, Open(t)
  PROVE  BusyInv'
<1> SUFFICES ASSUME NEW u \in Threads, Busy(u)' PROVE InOrder(u)' BY DEF BusyInv
<1>1. UNCHANGED <<bus, scan, pc, there, discdevs>> BY DEF Open
<1>2. Busy(u) BY <1>1 DEF Busy, scan
<1>3. \A i \in DOMAIN discdevs[u] : Kept(discdevs[u][i]) BY FoundIsKept DEF Call
<1>4. InOrder(u) BY <1>2 DEF BusyInv
<1>5. QED BY <1>1, <1>3, <1>4, QuietBusy DEF bus, scan, At

LEMMA BusKeepsBusy ==
  ASSUME RefsInv, BusyInv, RootsInv, NEW d \in Dirs, Plug(d) \/ Unplug(d)
  PROVE  BusyInv' /\ RootsInv'
<1>1. UNCHANGED <<mode, heap, buses, todo, entry, r, pc, discdevs>> BY DEF Plug, Unplug, objv, scan
<1>2. \A u \in Threads : there'[u] \subseteq there[u] /\ \A x \in there[u] : x[1] \in RootHubs => x \in there'[u]
  <2>1. CASE Plug(d) BY <2>1 DEF Plug
  <2>2. CASE Unplug(d)
    <3>1. \A e \in Behind(d) : e \notin RootHubs BY <2>2, TreeAssumption DEF TreeAssumption, Unplug, Behind, RootHubs
    <3>2. QED BY <2>2, <3>1 DEF Unplug
  <2>3. QED BY <2>1, <2>2
<1>3. \A u \in Threads : there[u] \subseteq Attached => there'[u] \subseteq Attached'
  <2>1. CASE Plug(d)
    <3>1. there' = there /\ addr[d] = 0 /\ addr' = [addr EXCEPT ![d] = next_addr] BY <2>1 DEF Plug
    <3>2. Attached \subseteq Attached' BY <3>1 DEF Attached, RefsInv, TypeOK
    <3>3. QED BY <3>1, <3>2
  <2>2. CASE Unplug(d)
    <3>1. /\ addr' = [e \in Dirs |-> IF e \in Behind(d) THEN 0 ELSE addr[e]]
          /\ there' = [t \in Threads |-> {x \in there[t] : x[1] \notin Behind(d)}]
      BY <2>2 DEF Unplug
    <3>2. \A x \in Attached : x[1] \notin Behind(d) => x \in Attached' BY <3>1 DEF Attached
    <3>3. QED BY <3>1, <3>2
  <2>3. QED BY <2>1, <2>2
<1>4. RootsInv'
  <2>1. CASE Plug(d) BY <2>1, TreeAssumption DEF Plug, RootsInv, RootHubs, RefsInv, TypeOK, TreeAssumption
  <2>2. CASE Unplug(d)
    <3>1. \A e \in Behind(d) : e \notin RootHubs BY <2>2, TreeAssumption DEF TreeAssumption, Unplug, Behind, RootHubs
    <3>2. QED BY <2>2, <3>1 DEF Unplug, RootsInv, RootHubs
  <2>3. QED BY <2>1, <2>2
<1>5. ASSUME NEW u \in Threads, Busy(u)' PROVE InOrder(u)'
  <2>1. InOrder(u) BY <1>1, <1>5 DEF Busy, BusyInv
  <2>2. There(u)' BY <1>1, <1>3, <2>1 DEF InOrder, There, At
  <2>3. Within(u)' = Within(u) /\ Left(u)' = Left(u) BY <1>1 DEF Within, Left
  <2>4. Once(u)' BY <1>1, <2>1, <2>3 DEF InOrder, Once, FoundAt
  <2>5. \A x : /\ Listed(u, x)' <=> Listed(u, x)
               /\ CanRead(x)' <=> CanRead(x)
               /\ ToBeRead(u, x)' <=> ToBeRead(u, x)
    BY <1>1 DEF Listed, CanRead, ToBeRead
  <2>6. Complete(u)' BY <1>1, <1>2, <2>1, <2>3, <2>5 DEF InOrder, Complete, At
  <2>7. QED BY <2>2, <2>4, <2>6 DEF InOrder
<1>6. QED BY <1>4, <1>5 DEF BusyInv

\* A thread that is not reading a directory any more.
LEMMA StepEnds ==
  ASSUME RefsInv, NEW t \in Threads,
         \/ Deliver(t) \/ Fail(t) \/ FindAndOpen(t) \/ FreeDeviceList(t) \/ Close(t)
         \/ \E len \in PathLens[mode] : GetPortPath(t, len)
  PROVE  ~Busy(t)'
<1>1. pc[t] \notin Reading \cup Leaving /\ entry' = entry
      /\ (\E l \in {"idle", "drop", "path", "vid_pid"} : pc' = [pc EXCEPT ![t] = l])
  <2> USE DEF At, Go, GiveUp, Return, Reading, Leaving
  <2>1. CASE Deliver(t)
    <3>1. goal[t] # "list" => goal[t] \in {"path", "vid_pid"} BY DEF RefsInv, TypeOK
    <3>2. QED BY <2>1, <3>1 DEF Deliver
  <2>2. CASE Fail(t) \/ FindAndOpen(t) \/ FreeDeviceList(t) \/ Close(t)
    BY <2>2 DEF Fail, FindAndOpen, FreeDeviceList, Close, scan
  <2>3. CASE \E len \in PathLens[mode] : GetPortPath(t, len) BY <2>3 DEF GetPortPath
  <2>4. QED BY <2>1, <2>2, <2>3
<1>2. entry[t][1] = NoDir BY <1>1 DEF RefsInv, AtHandInv, AtHand
<1>3. pc'[t] \in {"idle", "drop", "path", "vid_pid"} BY <1>1 DEF RefsInv, TypeOK
<1>4. QED BY <1>1, <1>2, <1>3 DEF Busy, Reading

LEMMA StepKeepsBusy ==
  ASSUME Serial, RefsInv, RefsInv', SeenInv, RootsInv, BusyInv, NEW t \in Threads, Step(t) \/ Call(t)
  PROVE  BusyInv' /\ RootsInv'
<1>1. RootsInv' BY ScanOfStep DEF RootsInv, bus
<1>2. CASE Open(t) BY <1>1, <1>2, OpenKeepsBusy
<1>3. CASE ~Open(t)
  <2>1. \A u \in Threads \ {t} : ~Busy(u)' BY <1>3, OthersAreIdle
  <2>2. ASSUME Busy(t)' PROVE InOrder(t)'
    <3>1. ASSUME NEW g \in Goals[mode][t], GetDeviceList(t, g) PROVE InOrder(t)' BY <3>1, GetDeviceListInOrder
    <3>2. ASSUME pc[t] \in Reading \cup {"scan"} \/ entry[t][1] # NoDir PROVE InOrder(t)
      BY <3>2 DEF BusyInv, Busy
    <3>3. ASSUME NEW b \in RootHubs, ScanBus(t, b) PROVE InOrder(t)'
      BY <3>2, <3>3, ScanBusInOrder DEF ScanBus, At
    <3>4. ASSUME NEW x \in todo[t], SkipEntry(t, x) PROVE InOrder(t)'
      BY <3>2, <3>4, SkipEntryInOrder DEF SkipEntry, At
    <3>5. ASSUME NEW x \in todo[t], ReadEntry(t, x) PROVE InOrder(t)'
      BY <3>2, <3>5, ReadEntryInOrder DEF ReadEntry, At
    <3>6. CASE NewDevice(t) BY <3>2, <3>6, NewDeviceInOrder DEF NewDevice, At, Reading
    <3>7. CASE Initialize(t) BY <3>2, <3>7, InitializeInOrder DEF Initialize, At, Reading
    <3>8. CASE AppendDevice(t) BY <3>2, <3>8, AppendDeviceInOrder DEF AppendDevice, Reading
    <3>9. CASE EndScan(t) BY <3>2, <3>9, EndScanInOrder DEF EndScan, At
    <3>10. CASE Unref(t) \/ Destroy(t)
      <4>1. entry' = entry /\ pc'[t] \in Leaving
        <5>1. CASE Destroy(t) BY <5>1 DEF Destroy, At, Go, RefsInv, TypeOK, Leaving, scan
        <5>2. CASE Unref(t)
          <6>1. pc[t] = "drop" /\ (pc' = pc \/ pc' = [pc EXCEPT ![t] = "destroy"]) BY <5>2 DEF Unref, At, Go
          <6>2. QED BY <5>2, <6>1 DEF Unref, RefsInv, TypeOK, Leaving, scan
        <5>3. QED BY <3>10, <5>1, <5>2
      <4>2. entry[t][1] # NoDir BY <2>2, <4>1 DEF Busy, Reading, Leaving
      <4>3. QED BY <3>2, <3>10, <4>2, LeavingInOrder
    <3>11. CASE Dropped(t)
      <4>1. entry[t][1] # NoDir
        <5> SUFFICES ASSUME entry[t][1] = NoDir PROVE FALSE OBVIOUS
        <5>1. entry' = entry /\ pc' = [pc EXCEPT ![t] = "idle"] BY <3>11 DEF Dropped, Return, Go
        <5>2. pc'[t] = "idle" BY <5>1 DEF RefsInv, TypeOK
        <5>3. QED BY <2>2, <5>1, <5>2 DEF Busy, Reading
      <4>2. QED BY <3>2, <3>11, <4>1, DroppedInOrder
    <3>12. CASE \/ Deliver(t) \/ Fail(t) \/ FindAndOpen(t) \/ FreeDeviceList(t) \/ Close(t)
                \/ \E len \in PathLens[mode] : GetPortPath(t, len)
      BY <2>2, <3>12, StepEnds
    <3>13. QED
      BY <1>3, <3>1, <3>3, <3>4, <3>5, <3>6, <3>7, <3>8, <3>9, <3>10, <3>11, <3>12 DEF Step, Call
  <2>3. QED BY <1>1, <2>1, <2>2 DEF BusyInv
<1>4. QED BY <1>2, <1>3

LEMMA InitList == ASSUME Init PROVE ListInv
<1>1. SeenInv
  <2>1. \A d \in Dirs : addr[d] = FirstAddr[d] BY DEF Init
  <2>2. Seen \subseteq {<<d, FirstAddr[d]>> : d \in Occupied}
    <3>1. \A o \in Objs : heap[o] = Free BY DEF Init
    <3>2. \A t \in Threads : todo[t] = {} /\ entry[t][1] = NoDir BY DEF Init
    <3>3. Seen = Attached BY <3>1, <3>2 DEF Seen
    <3>4. QED BY <2>1, <3>3 DEF Attached, Occupied
  <2>3. \A d \in Occupied : FirstAddr[d] \in 1 .. next_addr - 1
    <3>1. \A d \in Occupied : FirstAddr[d] \in 0 .. MaxAddr /\ FirstAddr[d] # 0 /\ FirstAddr[d] <= Cardinality(Occupied)
      BY TreeAssumption DEF TreeAssumption, Occupied
    <3>2. next_addr = 1 + Cardinality(Occupied) /\ Cardinality(Occupied) \in Nat
      <4>1. IsFiniteSet(Occupied) BY TreeAssumption, FS_Subset DEF TreeAssumption, Occupied
      <4>2. QED BY <4>1, FS_CardinalityType DEF Init
    <3>3. QED BY <3>1, <3>2, TreeAssumption DEF TreeAssumption
  <2>4. \A d \in Occupied, e \in Dirs : FirstAddr[d] = FirstAddr[e] => d = e BY TreeAssumption DEF TreeAssumption
  <2>5. Occupied \subseteq Dirs BY DEF Occupied
  <2>6. QED BY <2>2, <2>3, <2>4, <2>5 DEF SeenInv
<1>2. RootsInv BY TreeAssumption DEF Init, RootsInv, RootHubs, TreeAssumption, Occupied
<1>3. BusyInv
  <2>1. \A t \in Threads : pc[t] = "idle" /\ entry[t][1] = NoDir BY DEF Init
  <2>2. QED BY <2>1 DEF BusyInv, Busy, Reading
<1>4. QED BY <1>1, <1>2, <1>3 DEF ListInv

LEMMA NextKeepsList ==
  ASSUME Serial, RefsInv, RefsInv', ListInv, [Next]_vars
  PROVE  ListInv'
<1>1. CASE UNCHANGED vars
  <2>1. SeenInv' BY <1>1 DEF ListInv, SeenInv, Seen, Attached, vars, bus, objv, scan
  <2>2. RootsInv' BY <1>1 DEF ListInv, RootsInv, vars, bus
  <2>3. BusyInv'
    BY <1>1 DEF ListInv, BusyInv, Busy, InOrder, There, Once, Complete, Left, Within, FoundAt, Listed, ToBeRead,
                CanRead, Attached, At, vars, bus, objv, scan
  <2>4. QED BY <2>1, <2>2, <2>3 DEF ListInv
<1>2. ASSUME NEW d \in Dirs, Plug(d) \/ Unplug(d) PROVE ListInv'
  BY <1>2, BusKeepsSeen, BusKeepsBusy DEF ListInv
<1>3. ASSUME NEW t \in Threads, Call(t) \/ Step(t) PROVE ListInv'
  BY <1>3, StepKeepsSeen, StepKeepsBusy DEF ListInv
<1>4. QED BY <1>1, <1>2, <1>3 DEF Next

LEMMA ListInvIsEnough == ASSUME RefsInv, ListInv PROVE ListIsComplete
<1> SUFFICES ASSUME NEW t \in Threads, At(t, "deliver")
             PROVE  /\ mode = "sysfs" => r[t]
                    /\ r[t] => \A x \in there[t] : Readable(x[1], x[2]) => Listed(t, x)
                    /\ \A i, j \in DOMAIN discdevs[t] : discdevs[t][i] = discdevs[t][j] => i = j
  BY DEF ListIsComplete, Listed
<1>1. InOrder(t) BY DEF ListInv, BusyInv, Busy, At
<1>2. todo[t] = {} /\ Within(t) = {} BY <1>1 DEF InOrder, There, Within
<1>3. \A x : ~ToBeRead(t, x) BY <1>2 DEF ToBeRead, Reading, At
<1>4. mode = "sysfs" => r[t] BY <1>1, <1>3 DEF InOrder, Complete
<1>5. \A x \in there[t] : Readable(x[1], x[2]) => CanRead(x) BY DEF Readable, Node, CanRead
<1>6. r[t] => \A x \in there[t] : Readable(x[1], x[2]) => Listed(t, x)
  BY <1>1, <1>2, <1>3, <1>5 DEF InOrder, Complete
<1>7. \A i, j \in DOMAIN discdevs[t] : discdevs[t][i] = discdevs[t][j] => i = j BY <1>1 DEF InOrder, Once, FoundAt
<1>8. QED BY <1>4, <1>6, <1>7

\* An enumeration gives every device that was attached all the time and can be
\* read, once, however devices come and go meanwhile, and with sysfs it
\* succeeds: for every tree of at most three levels, and threads that take turns.
THEOREM ListIsCompleteCorrect == ASSUME Serial PROVE Spec => []ListIsComplete
<1>1. Init => RefsInv BY InitRefs
<1>2. Init => ListInv BY InitList
<1>3. RefsInv /\ [Next]_vars => RefsInv' BY NextKeepsRefs
<1>4. RefsInv /\ RefsInv' /\ ListInv /\ [Next]_vars => ListInv' BY NextKeepsList
<1>5. RefsInv /\ ListInv => ListIsComplete BY ListInvIsEnough
<1>6. QED BY <1>1, <1>2, <1>3, <1>4, <1>5, PTL DEF Spec

-----------------------------------------------------------------------------
(* The way from a device to its root hub                                   *)

\* A set of numbers that is not empty has a least one.
LEMMA LeastNumber ==
  ASSUME NEW S \in SUBSET Nat, S # {}
  PROVE  \E x \in S : \A y \in S : x <= y
<1>1. PICK x \in S : \A y \in S : ~(<<y, x>> \in OpToRel(<, Nat)) BY NatLessThanWellFounded, WFMin
<1>2. ASSUME NEW y \in S, y < x PROVE FALSE
  <2>1. <<y, x>> \in Nat \X Nat /\ <<y, x>>[1] < <<y, x>>[2] BY <1>2
  <2>2. <<y, x>> \in {ss \in Nat \X Nat : ss[1] < ss[2]} BY <2>1
  <2>3. OpToRel(<, Nat) = {ss \in Nat \X Nat : ss[1] < ss[2]} BY DEF OpToRel
  <2>4. QED BY <1>1, <2>2, <2>3
<1>3. QED BY <1>2

\* A way that ends at a root hub, or where nobody is, is the one the loop follows.
Leads(o, c) ==
  /\ c \in Seq(Objs) /\ Len(c) <= Cardinality(Dirs)
  /\ \A n \in 1 .. Len(c) : heap[c[n]].port # 0 /\ c[n] = IF n = 1 THEN o ELSE heap[c[n - 1]].parent
  /\ LET end == IF Len(c) = 0 THEN o ELSE heap[c[Len(c)]].parent IN end = NoObj \/ heap[end].port = 0

\* Where there is such a way it is the one that libusb_get_port_path goes.
LEMMA WayLeads ==
  ASSUME TreeAssumption, NEW o, NEW c, Leads(o, c)
  PROVE  Way(o) = c
<1> DEFINE N == Cardinality(Dirs)
           P(f) == f = [n \in 1 .. N |->
                    LET p == IF n = 1 THEN o ELSE IF f[n - 1] = NoObj THEN NoObj ELSE heap[f[n - 1]].parent
                    IN IF p = NoObj \/ heap[p].port = 0 THEN NoObj ELSE p]
           f == CHOOSE g : P(g)
           l == Len(c)
           Follow(g, n) == LET p == IF n = 1 THEN o ELSE IF g[n - 1] = NoObj THEN NoObj ELSE heap[g[n - 1]].parent
                          IN IF p = NoObj \/ heap[p].port = 0 THEN NoObj ELSE p
           u == [n \in 1 .. N |-> IF n <= l THEN c[n] ELSE NoObj]
<1>1. N \in Nat /\ l \in Nat /\ l <= N /\ \A n \in 1 .. l : c[n] \in Objs
  <2>1. N \in Nat BY FS_CardinalityType DEF TreeAssumption
  <2>2. l \in Nat /\ l <= N /\ \A n \in 1 .. l : c[n] \in Objs BY LenProperties, ElementOfSeq DEF Leads
  <2>3. QED BY <2>1, <2>2
<1>2. Way(o) = [n \in 1 .. Cardinality({m \in DOMAIN f : f[m] # NoObj}) |-> f[n]] BY DEF Way
<1>3. \A n \in 1 .. l : c[n] # NoObj BY <1>1 DEF Objs, NoObj
<1>4. \A n \in 1 .. l : heap[c[n]].port # 0 /\ c[n] = IF n = 1 THEN o ELSE heap[c[n - 1]].parent BY DEF Leads
<1>5. LET end == IF l = 0 THEN o ELSE heap[c[l]].parent IN end = NoObj \/ heap[end].port = 0 BY DEF Leads
<1>6. ASSUME NEW g, NEW n \in 1 .. N, n = 1 \/ g[n - 1] = u[n - 1] PROVE Follow(g, n) = u[n]
  <2>1. CASE n <= l
    <3>1. n \in 1 .. l /\ u[n] = c[n] BY <1>1, <2>1
    <3>2. CASE n = 1 BY <1>3, <1>4, <3>1, <3>2
    <3>3. CASE n # 1
      <4>1. n - 1 \in 1 .. l /\ n - 1 \in 1 .. N BY <1>1, <3>1, <3>3
      <4>2. g[n - 1] = c[n - 1] BY <1>1, <1>6, <3>3, <4>1
      <4>3. QED BY <1>3, <1>4, <3>1, <3>3, <4>1, <4>2
    <3>4. QED BY <3>2, <3>3
  <2>2. CASE n = l + 1
    <3>1. u[n] = NoObj BY <1>1, <2>2
    <3>2. CASE l = 0 BY <1>5, <2>2, <3>1, <3>2
    <3>3. CASE l # 0
      <4>1. l \in 1 .. l /\ l \in 1 .. N /\ n - 1 = l /\ n # 1 BY <1>1, <2>2, <3>3
      <4>2. g[n - 1] = c[l] BY <1>1, <1>6, <4>1
      <4>3. c[l] # NoObj BY <1>3, <4>1
      <4>4. QED BY <1>5, <3>1, <3>3, <4>1, <4>2, <4>3
    <3>4. QED BY <3>2, <3>3
  <2>3. CASE n > l + 1
    <3>1. n # 1 /\ n - 1 \in 1 .. N /\ ~(n - 1 <= l) /\ ~(n <= l) BY <1>1, <2>3
    <3>2. u[n] = NoObj /\ g[n - 1] = NoObj BY <1>6, <3>1
    <3>3. QED BY <3>1, <3>2
  <2>4. QED BY <1>1, <2>1, <2>2, <2>3
<1>7. P(u)
  <2>1. \A n \in 1 .. N : u[n] = Follow(u, n) BY <1>6
  <2>2. u = [n \in 1 .. N |-> u[n]] OBVIOUS
  <2>3. QED BY <2>1, <2>2
<1>8. P(f) BY <1>7, ZenonT(40)
<1>9. DOMAIN f = 1 .. N /\ \A n \in 1 .. N : f[n] = Follow(f, n) BY <1>8, ZenonT(40)
<1> HIDE DEF P, f, u, Follow, l, N
<1>10. \A n \in 1 .. N : f[n] = u[n]
  <2> DEFINE S == {n \in Nat : n \in 1 .. N /\ f[n] # u[n]}
  <2> SUFFICES ASSUME S # {} PROVE FALSE BY <1>1
  <2>1. PICK n \in S : \A m \in S : n <= m BY LeastNumber
  <2>2. n = 1 \/ (n - 1 \in 1 .. N /\ n - 1 \in Nat /\ n - 1 \notin S) BY <1>1, <2>1
  <2>3. n = 1 \/ f[n - 1] = u[n - 1] BY <2>2
  <2>4. n \in 1 .. N /\ f[n] # u[n] BY <2>1
  <2>5. Follow(f, n) = u[n] BY <1>6, <2>3, <2>4
  <2>6. QED BY <1>9, <2>4, <2>5
<1>11. \A n \in 1 .. N : u[n] = IF n <= l THEN c[n] ELSE NoObj BY DEF u
<1> DEFINE S == {n \in DOMAIN f : f[n] # NoObj}
<1>12. S = 1 .. l
  <2>1. S = {n \in 1 .. N : f[n] # NoObj} BY <1>9
  <2>2. \A n \in 1 .. N : f[n] # NoObj <=> n <= l
    <3>1. \A n \in 1 .. N : n <= l => n \in 1 .. l BY <1>1
    <3>2. \A n \in 1 .. N : f[n] = IF n <= l THEN c[n] ELSE NoObj BY <1>10, <1>11
    <3>3. QED BY <1>3, <3>1, <3>2
  <2>3. \A n \in 1 .. l : n \in 1 .. N BY <1>1
  <2>4. \A n \in 1 .. N : n <= l <=> n \in 1 .. l BY <1>1
  <2>5. QED BY <2>1, <2>2, <2>3, <2>4
<1>13. Cardinality(1 .. l) = l
  <2>1. Cardinality(1 .. l) = IF 1 > l THEN 0 ELSE l - 1 + 1 BY <1>1, FS_Interval
  <2>2. QED BY <1>1, <2>1
<1>14. \A n \in 1 .. l : f[n] = c[n] BY <1>1, <1>10, <1>11
<1>15. Way(o) = [n \in 1 .. l |-> c[n]]
  <2>1. Cardinality(S) = l BY <1>12, <1>13
  <2>2. Way(o) = [n \in 1 .. Cardinality(S) |-> f[n]] BY <1>2
  <2> HIDE DEF S
  <2>3. Way(o) = [n \in 1 .. l |-> f[n]] BY <2>1, <2>2
  <2>4. QED BY <1>14, <2>3
<1>16. c = [n \in 1 .. l |-> c[n]] BY LenProperties DEF Leads, l
<1>17. QED BY <1>15, <1>16

\* A hub that an application may ask for a path behind can be opened: where
\* sysfs has no descriptors they are read from the nodes.
HubsReadable == \A t \in Threads : "path" \in Goals["nodes"][t] => \A d \in Dirs : Hub[d] \notin Sealed

\* A device is attached to a hub that is.
HubsOn == \A d \in Dirs : addr[d] # 0 /\ Hub[d] # NoDir => addr[Hub[d]] # 0

\* An object in the place of a root hub has no port.
Rooted == \A o \in Objs : heap[o].dir \in RootHubs => heap[o].port = 0

\* A device stays attached no longer than the hubs on its way.
Upward(t) ==
  /\ there[t] \subseteq Attached
  /\ \A x \in there[t] : Hub[x[1]] # NoDir => \E y \in there[t] : y[1] = Hub[x[1]]

\* The device of a handle has a node that could be opened.
Opened(t) == handle[t] # NoObj => heap[handle[t]].dir \notin Sealed

\* Only an application with a handle asks for a path.
Meant(t) == goal[t] = "path" => handle[t] # NoObj /\ "path" \in Goals[mode][t] /\ pc[t] # "idle"

\* What has been listed has its port, and its parent where that has been listed too.
Charted(t) ==
  \A o \in ToSet(discdevs[t]) : heap[o].dir \notin RootHubs =>
    /\ heap[o].port = Port[heap[o].dir]
    /\ Parents(o, discdevs[t]) # {} => heap[o].parent \in Parents(o, discdevs[t])

Arrived(t) ==
  /\ pc[t] \in {"deliver", "path"} /\ Sysfs => Charted(t)
  /\ At(t, "path") => \A x \in there[t] : CanRead(x) => Listed(t, x)

PathInv == HubsOn /\ Rooted /\ \A t \in Threads : Upward(t) /\ Opened(t) /\ Meant(t) /\ Arrived(t)

SameTree == \A o \in Objs : /\ heap'[o].dir = heap[o].dir /\ heap'[o].port = heap[o].port
                            /\ heap'[o].parent = heap[o].parent

\* Only a new and a freed object, and the end of an enumeration, change the tree.
LEMMA TreeOfStep ==
  ASSUME RefsInv, NEW t \in Threads, Step(t) \/ Call(t)
  PROVE  SameTree \/ NewDevice(t) \/ Destroy(t) \/ (EndScan(t) /\ Sysfs)
<1>1. UNCHANGED heap => SameTree BY DEF SameTree
<1>2. ASSUME NEW b \in RootHubs, ScanBus(t, b) PROVE UNCHANGED heap BY <1>2 DEF ScanBus, objv
<1>3. ASSUME NEW x \in todo[t], SkipEntry(t, x) \/ ReadEntry(t, x) PROVE UNCHANGED heap
  BY <1>3 DEF SkipEntry, ReadEntry, objv
<1>4. CASE Initialize(t) \/ Deliver(t) \/ Fail(t) \/ Dropped(t)
  BY <1>1, <1>4 DEF Initialize, Deliver, Fail, Dropped, objv
<1>5. CASE AppendDevice(t)
  <2>1. dev[t] \in Objs /\ heap[dev[t]] # Free BY <1>5 DEF AppendDevice, Reading, RefsInv, AtHandInv, AtHand
  <2>2. heap' = Ref(dev[t]) /\ UNCHANGED usb_devs BY <1>5 DEF AppendDevice, AppendRef
  <2>3. QED BY <2>1, <2>2, RefProperties DEF SameTree
<1>6. CASE EndScan(t) BY <1>1, <1>6 DEF EndScan
<1>7. CASE Unref(t)
  <2>1. heap' = [heap EXCEPT ![Head(drop[t])].refcnt = @ - 1] BY <1>7 DEF Unref
  <2>2. QED BY <2>1 DEF SameTree, RefsInv, TypeOK
<1>8. CASE FindAndOpen(t)
  <2>1. CASE UNCHANGED heap BY <1>1, <2>1
  <2>2. CASE heap' # heap
    <3>1. PICK o \in ToSet(discdevs[t]) : heap' = Ref(o) /\ UNCHANGED usb_devs
      BY <1>8, <2>2 DEF FindAndOpen, OpenDevice, ToSet
    <3>2. o \in Objs /\ heap[o] # Free BY TreeAssumption, FoundIsAlive
    <3>3. QED BY <3>1, <3>2, RefProperties DEF SameTree
  <2>3. QED BY <2>1, <2>2
<1>9. ASSUME NEW len \in PathLens[mode], GetPortPath(t, len) PROVE UNCHANGED heap BY <1>9 DEF GetPortPath, objv
<1>10. ASSUME NEW g \in Goals[mode][t], GetDeviceList(t, g) PROVE UNCHANGED heap BY <1>10 DEF GetDeviceList, objv
<1>11. CASE FreeDeviceList(t) \/ Close(t) BY <1>1, <1>11 DEF FreeDeviceList, Close, objv
<1>12. CASE Open(t)
  <2>1. PICK o \in ToSet(list[t]) : heap' = Ref(o) /\ UNCHANGED usb_devs BY <1>12 DEF Open, OpenDevice
  <2>2. o \in Objs /\ heap[o] # Free BY TreeAssumption, FoundIsAlive
  <2>3. QED BY <2>1, <2>2, RefProperties DEF SameTree
<1>13. QED
  BY <1>1, <1>2, <1>3, <1>4, <1>5, <1>6, <1>7, <1>8, <1>9, <1>10, <1>11, <1>12 DEF Step, Call

\* A new object has no port, and an enumeration gives none to a root hub.
LEMMA StepKeepsRooted ==
  ASSUME RefsInv, Rooted, NEW t \in Threads, Step(t) \/ Call(t)
  PROVE  Rooted'
<1>1. CASE SameTree BY <1>1 DEF SameTree, Rooted
<1>2. CASE NewDevice(t)
  <2>1. PICK o \in Objs : Alloc(o, entry[t][2], entry[t][1]) BY <1>2 DEF NewDevice
  <2> DEFINE new == [Free EXCEPT !.session = entry[t][2], !.dir = entry[t][1], !.refcnt = 1]
  <2>2. new.port = 0 BY DEF Free
  <2>3. heap' = [heap EXCEPT ![o] = new] BY <2>1 DEF Alloc
  <2> HIDE DEF new
  <2>4. heap'[o] = new /\ \A q \in Objs : q # o => heap'[q] = heap[q] BY <2>3 DEF RefsInv, TypeOK
  <2>5. QED BY <2>2, <2>4 DEF Rooted
<1>3. CASE Destroy(t)
  <2>1. PICK o \in Objs : heap'[o] = Free /\ \A q \in Objs : q # o => heap'[q] = heap[q] BY <1>3, DestroyIds
  <2>2. Free.port = 0 BY DEF Free
  <2>3. QED BY <2>1, <2>2 DEF Rooted
<1>4. CASE EndScan(t) /\ Sysfs
  <2>1. pc[t] = "scan" /\ heap' = Analyzed(discdevs[t]) BY <1>4 DEF EndScan, At
  <2>2. \A o \in Objs : heap'[o].dir = heap[o].dir BY <2>1, TreeAssumption, AnalyzedProperties
  <2>3. \A o \in Objs : heap[o].dir \in RootHubs => heap'[o] = heap[o] BY <2>1 DEF Analyzed
  <2>4. QED BY <2>2, <2>3 DEF Rooted
<1>5. QED BY <1>1, <1>2, <1>3, <1>4, TreeOfStep

\* What a thread calls libusb_get_device_list for, and what was there then.
LEMMA GoalOfStep ==
  ASSUME RefsInv, NEW t \in Threads, Step(t) \/ Call(t)
  PROVE  \/ UNCHANGED <<goal, there>> /\ (pc[t] # "idle" => pc'[t] # "idle")
         \/ \E g \in Goals[mode][t] : GetDeviceList(t, g)
         \/ goal' = [goal EXCEPT ![t] = "list"] /\ there' = [there EXCEPT ![t] = {}]
<1> USE DEF RefsInv, TypeOK, At, Go, GiveUp
<1>1. CASE \E b \in RootHubs : ScanBus(t, b) BY <1>1 DEF ScanBus, app
<1>2. CASE \E x \in todo[t] : SkipEntry(t, x) BY <1>2 DEF SkipEntry, app
<1>3. CASE \E x \in todo[t] : ReadEntry(t, x)
  <2>1. UNCHANGED <<goal, there>> BY <1>3 DEF ReadEntry, app
  <2>2. pc' = [pc EXCEPT ![t] = "alloc"] \/ pc' = [pc EXCEPT ![t] = "append"] BY <1>3 DEF ReadEntry
  <2>3. QED BY <2>1, <2>2
<1>4. CASE NewDevice(t) BY <1>4 DEF NewDevice, app
<1>5. CASE Initialize(t)
  <2>1. UNCHANGED <<goal, there>> BY <1>5 DEF Initialize, app
  <2>2. pc' = [pc EXCEPT ![t] = "append_new"] \/ pc' = [pc EXCEPT ![t] = "drop"] BY <1>5 DEF Initialize
  <2>3. QED BY <2>1, <2>2
<1>6. CASE AppendDevice(t) BY <1>6 DEF AppendDevice, app
<1>7. CASE EndScan(t) BY <1>7 DEF EndScan, app
<1>8. CASE Deliver(t)
  <2>1. CASE goal[t] = "list" BY <1>8, <2>1 DEF Deliver, Return
  <2>2. CASE goal[t] # "list"
    <3>1. UNCHANGED <<goal, there>> /\ pc' = [pc EXCEPT ![t] = goal[t]] BY <1>8, <2>2 DEF Deliver
    <3>2. goal[t] \in {"path", "vid_pid"} BY <2>2
    <3>3. QED BY <3>1, <3>2
  <2>3. QED BY <2>1, <2>2
<1>9. CASE Fail(t) BY <1>9 DEF Fail, app
<1>10. CASE Unref(t)
  <2>1. UNCHANGED <<goal, there>> BY <1>10 DEF Unref, app
  <2>2. pc' = pc \/ pc' = [pc EXCEPT ![t] = "destroy"] BY <1>10 DEF Unref
  <2>3. QED BY <2>1, <2>2
<1>11. CASE Destroy(t) BY <1>11 DEF Destroy, app
<1>12. CASE Dropped(t)
  <2>1. CASE entry[t][1] # NoDir BY <1>12, <2>1 DEF Dropped
  <2>2. CASE entry[t][1] = NoDir BY <1>12, <2>2 DEF Dropped, Return
  <2>3. QED BY <2>1, <2>2
<1>13. CASE FindAndOpen(t) BY <1>13 DEF FindAndOpen
<1>14. ASSUME NEW len \in PathLens[mode], GetPortPath(t, len)
       PROVE  \/ UNCHANGED <<goal, there>> /\ (pc[t] # "idle" => pc'[t] # "idle")
              \/ goal' = [goal EXCEPT ![t] = "list"] /\ there' = [there EXCEPT ![t] = {}]
  <2>1. CASE Len(Way(handle[t])) > len BY <1>14, <2>1 DEF GetPortPath, Return
  <2>2. CASE ~(Len(Way(handle[t])) > len) BY <1>14, <2>2 DEF GetPortPath
  <2>3. QED BY <2>1, <2>2
<1>15. CASE FreeDeviceList(t) BY <1>15 DEF FreeDeviceList
<1>16. CASE Open(t) BY <1>16 DEF Open
<1>17. CASE Close(t) BY <1>17 DEF Close
<1>18. QED
  BY <1>1, <1>2, <1>3, <1>4, <1>5, <1>6, <1>7, <1>8, <1>9, <1>10, <1>11, <1>12, <1>13, <1>14, <1>15, <1>16, <1>17
  DEF Step, Call

\* A handle is opened on a device with a node, and closed by libusb_close.
LEMMA HandleOfStep ==
  ASSUME RefsInv, NEW t \in Threads, Step(t) \/ Call(t)
  PROVE  \/ UNCHANGED handle
         \/ /\ pc[t] \in {"idle", "vid_pid"} /\ \E o \in Objs : /\ heap[o] # Free /\ OpenDevice(t, o) /\ UNCHANGED usb_devs
         \/ Close(t)
<1>1. CASE Open(t)
  <2>1. PICK o \in ToSet(list[t]) : OpenDevice(t, o) /\ UNCHANGED usb_devs /\ pc[t] = "idle" BY <1>1 DEF Open, At
  <2>2. o \in Objs /\ heap[o] # Free BY TreeAssumption, FoundIsAlive
  <2>3. QED BY <2>1, <2>2
<1>2. CASE FindAndOpen(t)
  <2>1. CASE UNCHANGED handle BY <2>1
  <2>2. CASE handle' # handle
    <3>1. PICK o \in ToSet(discdevs[t]) : OpenDevice(t, o) /\ UNCHANGED usb_devs /\ pc[t] = "vid_pid"
      BY <1>2, <2>2 DEF FindAndOpen, ToSet, At
    <3>2. o \in Objs /\ heap[o] # Free BY TreeAssumption, FoundIsAlive
    <3>3. QED BY <3>1, <3>2
  <2>3. QED BY <2>1, <2>2
<1>3. CASE \E b \in RootHubs : ScanBus(t, b) BY <1>3 DEF ScanBus, app
<1>4. CASE \E x \in todo[t] : SkipEntry(t, x) \/ ReadEntry(t, x) BY <1>4 DEF SkipEntry, ReadEntry, app
<1>5. CASE NewDevice(t) \/ Initialize(t) \/ AppendDevice(t) \/ EndScan(t)
  BY <1>5 DEF NewDevice, Initialize, AppendDevice, EndScan, app
<1>6. CASE Deliver(t) \/ Fail(t) \/ Unref(t) \/ Destroy(t) \/ Dropped(t)
  BY <1>6 DEF Deliver, Fail, Unref, Destroy, Dropped, app
<1>7. CASE \E len \in PathLens[mode] : GetPortPath(t, len) BY <1>7 DEF GetPortPath
<1>8. CASE \E g \in Goals[mode][t] : GetDeviceList(t, g) BY <1>8 DEF GetDeviceList
<1>9. CASE FreeDeviceList(t) BY <1>9 DEF FreeDeviceList
<1>10. QED BY <1>1, <1>2, <1>3, <1>4, <1>5, <1>6, <1>7, <1>8, <1>9 DEF Step, Call

\* A device of which a handle is opened has a node that is not sealed.
LEMMA OpenedHasNode ==
  ASSUME RefsInv, SeenInv, NEW t \in Threads, NEW o \in Objs, heap[o] # Free, OpenDevice(t, o)
  PROVE  heap[o].dir \notin Sealed
<1>1. PICK d \in Dirs \ Sealed : addr[d] = heap[o].session BY DEF OpenDevice, Node
<1>2. heap[o].session \in 1 .. MaxAddr BY DEF RefsInv, HeapInv
<1>3. <<d, addr[d]>> \in Attached BY <1>1, <1>2 DEF Attached
<1>4. <<d, addr[d]>> \in Seen /\ <<heap[o].dir, heap[o].session>> \in Seen BY <1>3 DEF Seen
<1>5. d = heap[o].dir BY <1>1, <1>4 DEF SeenInv
<1>6. QED BY <1>1, <1>5

\* The device of a handle keeps its place, since the handle has a reference to it.
LEMMA StepKeepsOpened ==
  ASSUME RefsInv, RefsInv', SeenInv, NEW t \in Threads, Step(t) \/ Call(t), NEW u \in Threads, Opened(u)
  PROVE  Opened(u)'
<1> SUFFICES ASSUME handle'[u] # NoObj PROVE heap'[handle'[u]].dir \notin Sealed BY DEF Opened
<1>1. CASE handle'[u] = handle[u]
  <2>1. handle[u] \in Objs BY <1>1 DEF RefsInv, TypeOK
  <2>2. Times(handle[u], <<handle[u]>>) > 0 BY TimesOne
  <2>3. heap[handle[u]] # Free /\ heap[handle[u]].refcnt # 0 BY <2>1, <2>2, TreeAssumption, MineIsAlive
  <2>4. Kept(handle[u]) BY <2>1, <2>3, ObjectsOfStep
  <2>5. QED BY <1>1, <2>4 DEF Kept, Opened
<1>2. CASE handle'[u] # handle[u]
  <2>1. ~Close(t)
    <3>1. ASSUME handle' = [handle EXCEPT ![t] = NoObj] PROVE FALSE BY <1>2, <3>1 DEF RefsInv, TypeOK
    <3>2. QED BY <3>1 DEF Close
  <2>2. PICK o \in Objs : heap[o] # Free /\ OpenDevice(t, o) /\ UNCHANGED usb_devs BY <1>2, <2>1, HandleOfStep
  <2>3. handle' = [handle EXCEPT ![t] = o] /\ heap' = Ref(o) BY <2>2 DEF OpenDevice
  <2>4. handle'[u] = o BY <1>2, <2>3 DEF RefsInv, TypeOK
  <2>5. heap'[o].dir = heap[o].dir BY <2>2, <2>3, RefProperties
  <2>6. QED BY <2>2, <2>4, <2>5, OpenedHasNode
<1>3. QED BY <1>1, <1>2

\* Nobody closes the handle of a call that is under way.
LEMMA StepKeepsMeant ==
  ASSUME Serial, RefsInv, RefsInv', NEW t \in Threads, Step(t) \/ Call(t), NEW u \in Threads, Meant(u)
  PROVE  Meant(u)'
<1> SUFFICES ASSUME goal'[u] = "path" PROVE handle'[u] # NoObj /\ "path" \in Goals[mode'][u] /\ pc'[u] # "idle"
  BY DEF Meant
<1>1. mode' = mode BY ScanOfStep DEF bus
<1>2. CASE \E g \in Goals[mode][t] : u = t /\ GetDeviceList(t, g)
  <2>1. PICK g \in Goals[mode][t] : GetDeviceList(t, g) BY <1>2
  <2>2. goal' = [goal EXCEPT ![t] = g] /\ handle' = handle /\ pc' = [pc EXCEPT ![t] = "scan"]
    BY <2>1 DEF GetDeviceList, Go
  <2>3. g = "path" BY <1>2, <2>2 DEF RefsInv, TypeOK
  <2>4. handle[t] # NoObj BY <2>1, <2>3 DEF GetDeviceList
  <2>5. QED BY <1>1, <1>2, <2>2, <2>3, <2>4 DEF RefsInv, TypeOK
<1>3. CASE ~\E g \in Goals[mode][t] : u = t /\ GetDeviceList(t, g)
  <2>1. goal[u] = "path" /\ (u = t /\ pc[t] # "idle" => pc'[t] # "idle")
    <3>1. CASE UNCHANGED <<goal, there>> /\ (pc[t] # "idle" => pc'[t] # "idle") BY <3>1
    <3>2. CASE \E g \in Goals[mode][t] : GetDeviceList(t, g) BY <1>3, <3>2 DEF GetDeviceList, RefsInv, TypeOK
    <3>3. CASE goal' = [goal EXCEPT ![t] = "list"] BY <3>3 DEF RefsInv, TypeOK
    <3>4. QED BY <3>1, <3>2, <3>3, GoalOfStep
  <2>2. handle[u] # NoObj /\ "path" \in Goals[mode][u] /\ pc[u] # "idle" BY <2>1 DEF Meant
  <2>3. pc'[u] # "idle" BY <2>1, <2>2, PlaceOfStep
  <2>4. handle'[u] # NoObj
    <3>1. CASE UNCHANGED handle BY <2>2, <3>1
    <3>2. ASSUME NEW o \in Objs, OpenDevice(t, o) PROVE handle'[u] # NoObj
      <4>1. handle' = [handle EXCEPT ![t] = o] /\ o # NoObj BY <3>2 DEF OpenDevice, Objs, NoObj
      <4>2. QED BY <2>2, <4>1 DEF RefsInv, TypeOK
    <3>3. CASE Close(t)
      <4>1. pc[t] = "idle" /\ handle' = [handle EXCEPT ![t] = NoObj] BY <3>3 DEF Close, At
      <4>2. u # t BY <2>2, <4>1
      <4>3. QED BY <2>2, <4>1, <4>2 DEF RefsInv, TypeOK
    <3>4. QED BY <3>1, <3>2, <3>3, HandleOfStep
  <2>5. QED BY <1>1, <2>2, <2>3, <2>4
<1>4. QED BY <1>2, <1>3

\* A call starts with all that is attached, hubs included.
LEMMA StepKeepsUpward ==
  ASSUME RefsInv, HubsOn, NEW t \in Threads, Step(t) \/ Call(t), NEW u \in Threads, Upward(u)
  PROVE  Upward(u)'
<1>1. Attached' = Attached BY ScanOfStep DEF bus, Attached
<1>2. CASE there'[u] = there[u] BY <1>1, <1>2 DEF Upward
<1>3. CASE there'[u] = {} BY <1>3 DEF Upward
<1>4. CASE there'[u] = Attached
  <2>1. ASSUME NEW x \in Attached, Hub[x[1]] # NoDir PROVE \E y \in Attached : y[1] = Hub[x[1]]
    <3>1. x[1] \in Dirs /\ addr[x[1]] # 0 BY AttachedPlace
    <3>2. Hub[x[1]] \in Dirs BY <2>1, <3>1, TreeAssumption DEF TreeAssumption
    <3>3. addr[Hub[x[1]]] # 0 BY <2>1, <3>1 DEF HubsOn
    <3>4. <<Hub[x[1]], addr[Hub[x[1]]]>> \in Attached BY <3>2, <3>3 DEF Attached
    <3>5. QED BY <3>4
  <2>2. QED BY <1>1, <1>4, <2>1 DEF Upward
<1>5. there'[u] \in {there[u], {}, Attached}
  <2>1. CASE \E g \in Goals[mode][t] : GetDeviceList(t, g) BY <2>1 DEF GetDeviceList, RefsInv, TypeOK
  <2>2. CASE UNCHANGED there BY <2>2
  <2>3. CASE there' = [there EXCEPT ![t] = {}] BY <2>3 DEF RefsInv, TypeOK
  <2>4. QED BY <2>1, <2>2, <2>3, GoalOfStep
<1>6. QED BY <1>2, <1>3, <1>4, <1>5

\* Only the end of an enumeration, and its delivery, bring a thread where the
\* parents of what it has listed matter.
LEMMA ArrivalOfStep ==
  ASSUME RefsInv, NEW t \in Threads, Step(t) \/ Call(t), ~Open(t), pc'[t] \in {"deliver", "path"}
  PROVE  EndScan(t) \/ (Deliver(t) /\ goal[t] # "list")
<1> USE DEF RefsInv, TypeOK, At, Go, GiveUp, Return
<1>1. CASE \E b \in RootHubs : ScanBus(t, b) BY <1>1 DEF ScanBus
<1>2. CASE \E x \in todo[t] : SkipEntry(t, x) BY <1>2 DEF SkipEntry
<1>3. CASE \E x \in todo[t] : ReadEntry(t, x)
  <2>1. pc' = [pc EXCEPT ![t] = "alloc"] \/ pc' = [pc EXCEPT ![t] = "append"] BY <1>3 DEF ReadEntry
  <2>2. QED BY <2>1
<1>4. CASE NewDevice(t) BY <1>4 DEF NewDevice
<1>5. CASE Initialize(t)
  <2>1. pc' = [pc EXCEPT ![t] = "append_new"] \/ pc' = [pc EXCEPT ![t] = "drop"] BY <1>5 DEF Initialize
  <2>2. QED BY <2>1
<1>6. CASE AppendDevice(t) BY <1>6 DEF AppendDevice
<1>7. CASE Deliver(t) BY <1>7 DEF Deliver
<1>8. CASE Fail(t) BY <1>8 DEF Fail
<1>9. CASE Unref(t)
  <2>1. pc[t] = "drop" /\ (pc' = pc \/ pc' = [pc EXCEPT ![t] = "destroy"]) BY <1>9 DEF Unref
  <2>2. QED BY <2>1
<1>10. CASE Destroy(t) BY <1>10 DEF Destroy
<1>11. CASE Dropped(t)
  <2>1. pc' = [pc EXCEPT ![t] = "scan"] \/ pc' = [pc EXCEPT ![t] = "idle"] BY <1>11 DEF Dropped
  <2>2. QED BY <2>1
<1>12. CASE FindAndOpen(t) BY <1>12 DEF FindAndOpen
<1>13. CASE \E len \in PathLens[mode] : GetPortPath(t, len)
  <2>1. pc' = [pc EXCEPT ![t] = "drop"] \/ pc' = [pc EXCEPT ![t] = "idle"] BY <1>13 DEF GetPortPath
  <2>2. QED BY <2>1
<1>14. CASE \E g \in Goals[mode][t] : GetDeviceList(t, g) BY <1>14 DEF GetDeviceList
<1>15. CASE FreeDeviceList(t) \/ Close(t) BY <1>15 DEF FreeDeviceList, Close
<1>16. QED
  BY <1>1, <1>2, <1>3, <1>4, <1>5, <1>6, <1>7, <1>8, <1>9, <1>10, <1>11, <1>12, <1>13, <1>14, <1>15 DEF Step, Call

\* Where the tree and the list of a thread stay as they are, so does its chart.
LEMMA ChartKept ==
  ASSUME RefsInv, NEW u \in Threads, discdevs'[u] = discdevs[u], Charted(u),
         \A o \in Objs : heap'[o].dir = heap[o].dir /\ heap'[o].port = heap[o].port /\ heap'[o].parent = heap[o].parent
  PROVE  Charted(u)'
<1>1. \A o \in ToSet(discdevs[u]) : o \in Objs BY TreeAssumption, FoundIsAlive
<1>2. \A o \in Objs : Parents(o, discdevs[u])' = Parents(o, discdevs[u])
  <2>1. \A o \in Objs : \A p \in ToSet(discdevs[u]) : heap'[p].dir = Hub[heap'[o].dir] <=> heap[p].dir = Hub[heap[o].dir]
    BY <1>1
  <2>2. QED BY <2>1 DEF Parents
<1>3. QED BY <1>1, <1>2 DEF Charted

\* sysfs_analyze_topology finds the parent of what has been listed with it.
LEMMA EndScanCharts ==
  ASSUME RefsInv, NEW t \in Threads, EndScan(t), Sysfs
  PROVE  Charted(t)'
<1> DEFINE devs == discdevs[t]
<1>1. pc[t] = "scan" /\ heap' = Analyzed(devs) /\ discdevs' = discdevs BY DEF EndScan, At
<1>2. \A o \in ToSet(devs) : o \in Objs /\ heap[o] # Free BY TreeAssumption, FoundIsAlive
<1>3. \A o \in Objs : heap'[o].dir = heap[o].dir BY <1>1, TreeAssumption, AnalyzedProperties
<1>4. \A o \in ToSet(devs) : Parents(o, devs)' = Parents(o, devs)
  <2>1. \A o, p \in ToSet(devs) : heap'[p].dir = Hub[heap'[o].dir] <=> heap[p].dir = Hub[heap[o].dir] BY <1>2, <1>3
  <2>2. QED BY <1>1, <2>1 DEF Parents
<1>5. ASSUME NEW o \in ToSet(devs), heap'[o].dir \notin RootHubs
      PROVE  /\ heap'[o].port = Port[heap'[o].dir]
             /\ Parents(o, devs)' # {} => heap'[o].parent \in Parents(o, devs)'
  <2> DEFINE p == CHOOSE q \in Parents(o, devs) : TRUE
             up == IF Parents(o, devs) = {} THEN heap[o].parent ELSE p
  <2>1. heap[o].dir \in Dirs /\ heap[o].dir \notin RootHubs \cup {NoDir}
    BY <1>2, <1>3, <1>5, TreeAssumption DEF RefsInv, HeapInv, TreeAssumption
  <2>2. heap'[o] = [heap[o] EXCEPT !.port = Port[heap[o].dir], !.parent = up] BY <1>1, <1>2, <2>1 DEF Analyzed
  <2>3. Parents(o, devs) # {} => up \in Parents(o, devs) OBVIOUS
  <2>4. heap[o] \in [session : 0 .. MaxAddr, dir : Dirs \cup {NoDir}, refcnt : Nat, parent : Objs \cup {NoObj}, port : Nat]
    BY <1>2 DEF RefsInv, TypeOK
  <2> HIDE DEF up
  <2>5. heap'[o].port = Port[heap[o].dir] /\ heap'[o].parent = up BY <2>2, <2>4
  <2>6. QED BY <1>2, <1>3, <1>4, <2>3, <2>5
<1>6. QED BY <1>1, <1>5 DEF Charted

\* No step of a thread takes away what another one has found out.
LEMMA StepKeepsArrived ==
  ASSUME Serial, RefsInv, RefsInv', ListInv, NEW t \in Threads, Step(t) \/ Call(t), NEW u \in Threads, Arrived(u)
  PROVE  Arrived(u)'
<1>1. mode' = mode /\ (Sysfs' <=> Sysfs) /\ \A x : CanRead(x)' <=> CanRead(x) BY ScanOfStep DEF bus, Sysfs, CanRead
<1>2. CASE Open(t)
  <2>1. UNCHANGED <<pc, there, discdevs>> BY <1>2 DEF Open
  <2>2. SameTree
    <3>1. ~NewDevice(t) /\ ~Destroy(t) /\ ~EndScan(t) BY <1>2 DEF Open, NewDevice, Destroy, EndScan, At
    <3>2. QED BY <3>1, TreeOfStep
  <2>3. Charted(u) => Charted(u)' BY <2>1, <2>2, ChartKept DEF SameTree
  <2>4. \A x : Listed(u, x) => Listed(u, x)' BY <2>1, FoundIsKept DEF Listed, Kept
  <2>5. QED BY <1>1, <2>1, <2>3, <2>4 DEF Arrived, At
<1>3. CASE ~Open(t) /\ u # t
  <2>1. pc'[u] = "idle" BY <1>3, OthersRest
  <2>2. QED BY <2>1 DEF Arrived, At
<1>4. CASE ~Open(t) /\ u = t
  <2>1. CASE EndScan(t)
    <3>1. pc'[t] = "deliver" BY <2>1 DEF EndScan, Go, RefsInv, TypeOK
    <3>2. QED BY <1>1, <1>4, <2>1, <3>1, EndScanCharts DEF Arrived, At
  <2>2. CASE Deliver(t) /\ goal[t] # "list"
    <3>1. /\ pc[t] = "deliver" /\ pc'[t] # "deliver" /\ r[t] /\ UNCHANGED <<heap, there, discdevs>>
      BY <2>2 DEF Deliver, At, Go, objv, RefsInv, TypeOK
    <3>2. Charted(t) => Charted(t)' BY <3>1 DEF Charted, Parents
    <3>3. InOrder(t) BY <3>1 DEF ListInv, BusyInv, Busy
    <3>4. \A x : ~ToBeRead(t, x) /\ x[1] \notin Within(t)
      BY <3>1, <3>3 DEF InOrder, There, ToBeRead, Reading, Within, At
    <3>5. \A x \in there[t] : CanRead(x) => Listed(t, x) BY <3>1, <3>3, <3>4 DEF InOrder, Complete
    <3>6. \A x : Listed(t, x) <=> Listed(t, x)' BY <3>1 DEF Listed
    <3>7. QED BY <1>1, <1>4, <3>1, <3>2, <3>5, <3>6 DEF Arrived
  <2>3. CASE pc'[t] \notin {"deliver", "path"} BY <1>4, <2>3 DEF Arrived, At
  <2>4. QED BY <1>4, <2>1, <2>2, <2>3, ArrivalOfStep
<1>5. QED BY <1>2, <1>3, <1>4

\* A device that is not behind the place that is unplugged has a hub that is not.
LEMMA BehindIsClosed ==
  ASSUME NEW d \in Dirs, NEW e \in Dirs, Hub[e] # NoDir, Hub[e] \in Behind(d)
  PROVE  e \in Behind(d)
<1>1. Hub[e] \in Dirs /\ d # NoDir BY TreeAssumption DEF TreeAssumption
<1>2. CASE Hub[e] = d BY <1>2 DEF Behind
<1>3. CASE Hub[Hub[e]] = d BY <1>3 DEF Behind
<1>4. CASE Hub[Hub[e]] # NoDir /\ Hub[Hub[Hub[e]]] = d
  <2>1. Hub[Hub[Hub[e]]] = NoDir BY <1>4, TreeAssumption DEF TreeAssumption
  <2>2. QED BY <1>1, <1>4, <2>1
<1>5. QED BY <1>2, <1>3, <1>4 DEF Behind

\* A device comes after its hub, and goes with it.
LEMMA BusKeepsHubsOn ==
  ASSUME RefsInv, HubsOn, NEW d \in Dirs, Plug(d) \/ Unplug(d)
  PROVE  HubsOn'
<1>1. CASE Plug(d)
  <2>1. addr' = [addr EXCEPT ![d] = next_addr] /\ (Hub[d] # NoDir => addr[Hub[d]] # 0) BY <1>1 DEF Plug
  <2>2. next_addr # 0 /\ DOMAIN addr = Dirs BY TreeAssumption DEF RefsInv, TypeOK, TreeAssumption
  <2>3. \A e \in Dirs : addr[e] # 0 => addr'[e] # 0 BY <2>1, <2>2
  <2>4. \A e \in Dirs : addr'[e] # 0 => addr[e] # 0 \/ e = d BY <2>1, <2>2
  <2>5. \A e \in Dirs : Hub[e] # NoDir => Hub[e] \in Dirs BY TreeAssumption DEF TreeAssumption
  <2>6. QED BY <2>1, <2>3, <2>4, <2>5 DEF HubsOn
<1>2. CASE Unplug(d)
  <2>1. \A e \in Dirs : addr'[e] = IF e \in Behind(d) THEN 0 ELSE addr[e] BY <1>2 DEF Unplug
  <2>2. \A e \in Dirs : Hub[e] # NoDir => Hub[e] \in Dirs BY TreeAssumption DEF TreeAssumption
  <2>3. QED BY <2>1, <2>2, BehindIsClosed DEF HubsOn
<1>3. QED BY <1>1, <1>2

\* What is unplugged goes with all that is behind it.
LEMMA BusKeepsUpward ==
  ASSUME RefsInv, NEW d \in Dirs, Plug(d) \/ Unplug(d), NEW u \in Threads, Upward(u)
  PROVE  Upward(u)'
<1>1. CASE Plug(d)
  <2>1. there' = there /\ addr[d] = 0 /\ addr' = [addr EXCEPT ![d] = next_addr] BY <1>1 DEF Plug
  <2>2. Attached \subseteq Attached' BY <2>1 DEF Attached, RefsInv, TypeOK
  <2>3. QED BY <2>1, <2>2 DEF Upward
<1>2. CASE Unplug(d)
  <2>1. there'[u] = {x \in there[u] : x[1] \notin Behind(d)} BY <1>2 DEF Unplug
  <2>2. addr' = [e \in Dirs |-> IF e \in Behind(d) THEN 0 ELSE addr[e]] BY <1>2 DEF Unplug
  <2>3. \A x \in Attached : x[1] \in Dirs BY AttachedPlace
  <2>4. \A x \in Attached : x[1] \notin Behind(d) => x \in Attached' BY <2>2 DEF Attached
  <2>5. there'[u] \subseteq Attached' BY <2>1, <2>4 DEF Upward
  <2>6. ASSUME NEW x \in there'[u], Hub[x[1]] # NoDir PROVE \E y \in there'[u] : y[1] = Hub[x[1]]
    <3>1. x \in there[u] /\ x[1] \notin Behind(d) /\ x[1] \in Dirs BY <2>1, <2>3, <2>6 DEF Upward
    <3>2. PICK y \in there[u] : y[1] = Hub[x[1]] BY <2>6, <3>1 DEF Upward
    <3>3. y[1] \notin Behind(d) BY <2>6, <3>1, <3>2, BehindIsClosed
    <3>4. QED BY <2>1, <3>2, <3>3
  <2>7. QED BY <2>5, <2>6 DEF Upward
<1>3. QED BY <1>1, <1>2

\* The bus disturbs no path that is being made.
LEMMA BusKeepsPath ==
  ASSUME RefsInv, PathInv, NEW d \in Dirs, Plug(d) \/ Unplug(d)
  PROVE  PathInv'
<1>1. UNCHANGED <<mode, heap, pc, goal, handle, discdevs>> BY DEF Plug, Unplug, objv, app
<1>2. \A u \in Threads : there'[u] \subseteq there[u] BY DEF Plug, Unplug
<1>3. HubsOn' BY BusKeepsHubsOn DEF PathInv
<1>4. Rooted' BY <1>1 DEF PathInv, Rooted
<1>5. ASSUME NEW u \in Threads PROVE (Upward(u) /\ Opened(u) /\ Meant(u) /\ Arrived(u))'
  <2>1. Upward(u)' BY BusKeepsUpward DEF PathInv
  <2>2. Opened(u)' /\ Meant(u)' BY <1>1 DEF PathInv, Opened, Meant
  <2>3. Arrived(u)' BY <1>1, <1>2 DEF PathInv, Arrived, At, Sysfs, Charted, Parents, CanRead, Listed
  <2>4. QED BY <2>1, <2>2, <2>3
<1>6. QED BY <1>3, <1>4, <1>5 DEF PathInv

\* The invariant behind PathIsRight is kept by every step.
LEMMA NextKeepsPath ==
  ASSUME Serial, RefsInv, RefsInv', ListInv, PathInv, [Next]_vars
  PROVE  PathInv'
<1>1. CASE UNCHANGED vars
  BY <1>1 DEF PathInv, HubsOn, Rooted, Upward, Opened, Meant, Arrived, Attached, At, Sysfs, Charted, Parents,
              CanRead, Listed, vars, bus, objv, scan, app
<1>2. ASSUME NEW d \in Dirs, Plug(d) \/ Unplug(d) PROVE PathInv' BY <1>2, BusKeepsPath
<1>3. ASSUME NEW t \in Threads, Call(t) \/ Step(t) PROVE PathInv'
  <2>1. HubsOn' BY <1>3, ScanOfStep DEF PathInv, HubsOn, bus
  <2>2. Rooted' BY <1>3, StepKeepsRooted DEF PathInv
  <2>3. \A u \in Threads : Upward(u)' BY <1>3, StepKeepsUpward DEF PathInv
  <2>4. \A u \in Threads : Opened(u)' BY <1>3, StepKeepsOpened DEF PathInv, ListInv
  <2>5. \A u \in Threads : Meant(u)' BY <1>3, StepKeepsMeant DEF PathInv
  <2>6. \A u \in Threads : Arrived(u)' BY <1>3, StepKeepsArrived DEF PathInv
  <2>7. QED BY <2>1, <2>2, <2>3, <2>4, <2>5, <2>6 DEF PathInv
<1>4. QED BY <1>1, <1>2, <1>3 DEF Next

\* ... and holds at the start.
LEMMA InitPath == ASSUME Init PROVE PathInv
<1>1. HubsOn BY TreeAssumption DEF Init, HubsOn, TreeAssumption, Occupied
<1>2. Rooted
  <2>1. \A o \in Objs : heap[o].port = 0 BY DEF Init, Free
  <2>2. QED BY <2>1 DEF Rooted
<1>3. ASSUME NEW u \in Threads PROVE Upward(u) /\ Opened(u) /\ Meant(u) /\ Arrived(u)
  BY DEF Init, Upward, Opened, Meant, Arrived, At
<1>4. QED BY <1>1, <1>2, <1>3 DEF PathInv

\* Where a path is being made: from an object that has been listed to its parent.
LEMMA Climb ==
  ASSUME HubsReadable, RefsInv, ListInv, PathInv, NEW t \in Threads, At(t, "path"), Sysfs,
         NEW p \in ToSet(discdevs[t]), NEW x \in there[t], x[1] = heap[p].dir, Hub[heap[p].dir] # NoDir
  PROVE  LET q == heap[p].parent
         IN /\ heap[p].port = Port[heap[p].dir] /\ heap[p].port # 0
            /\ q \in ToSet(discdevs[t]) /\ q \in Objs /\ heap[q] # Free
            /\ heap[q].dir = Hub[heap[p].dir] /\ heap[q].dir \in Dirs
            /\ \E y \in there[t] : y[1] = heap[q].dir
<1>1. \A o \in ToSet(discdevs[t]) : o \in Objs /\ heap[o] # Free /\ heap[o].dir \in Dirs
  BY TreeAssumption, FoundIsAlive DEF RefsInv, HeapInv
<1>2. PICK y \in there[t] : y[1] = Hub[heap[p].dir] BY DEF PathInv, Upward
<1>3. y \in Attached /\ y[1] \in Dirs BY <1>2, AttachedPlace DEF PathInv, Upward
<1>4. CanRead(y)
  <2>1. "path" \in Goals[mode][t] BY DEF RefsInv, EmptyInv, Empty, At, PathInv, Meant
  <2>2. CASE mode = "nodes"
    <3>1. Hub[heap[p].dir] \notin Sealed BY <1>1, <2>1, <2>2 DEF HubsReadable
    <3>2. QED BY <1>2, <3>1 DEF CanRead
  <2>3. QED BY <2>2 DEF CanRead, Sysfs
<1>5. PICK i \in DOMAIN discdevs[t] : heap[discdevs[t][i]].session = y[2]
  BY <1>4 DEF PathInv, Arrived, Listed
<1>6. discdevs[t][i] \in ToSet(discdevs[t]) BY DEF ToSet
<1>7. heap[discdevs[t][i]].dir = y[1]
  <2>1. y \in Seen /\ <<heap[discdevs[t][i]].dir, heap[discdevs[t][i]].session>> \in Seen BY <1>1, <1>3, <1>6 DEF Seen
  <2>2. QED BY <1>5, <2>1 DEF ListInv, SeenInv
<1>8. Parents(p, discdevs[t]) # {} BY <1>2, <1>6, <1>7 DEF Parents
<1>9. heap[p].dir \notin RootHubs BY DEF RootHubs
<1>10. Charted(t) BY DEF PathInv, Arrived, At
<1>11. heap[p].port = Port[heap[p].dir] /\ heap[p].parent \in Parents(p, discdevs[t]) BY <1>8, <1>9, <1>10 DEF Charted
<1>12. Port[heap[p].dir] # 0 BY <1>1, TreeAssumption DEF TreeAssumption
<1>13. heap[p].parent \in ToSet(discdevs[t]) /\ heap[heap[p].parent].dir = Hub[heap[p].dir] BY <1>11 DEF Parents
<1>14. QED BY <1>1, <1>2, <1>11, <1>12, <1>13

\* The way from the device of a handle has the ports of its hubs.
LEMMA PathInvIsEnough ==
  ASSUME HubsReadable, RefsInv, NumbersInv, ListInv, PathInv
  PROVE  PathIsRight
<1> SUFFICES ASSUME NEW t \in Threads, At(t, "path"), Sysfs,
                    <<heap[handle[t]].dir, heap[handle[t]].session>> \in there[t]
             PROVE  LET o == handle[t]
                    IN /\ [n \in DOMAIN Way(o) |-> heap[Way(o)[n]].port] = Ports(heap[o].dir)
                       /\ \A p \in ToSet(Way(o)) : /\ heap[p].parent \in ToSet(discdevs[t])
                                                   /\ heap[heap[p].parent] # Free
  BY DEF PathIsRight
<1> DEFINE o == handle[t]
           d == heap[o].dir
           devs == discdevs[t]
<1>1. o \in Objs /\ heap[o] # Free /\ d \in Dirs
  <2>1. handle[t] # NoObj BY DEF RefsInv, EmptyInv, Empty, At, PathInv, Meant
  <2>2. QED BY <2>1, TreeAssumption, FoundIsAlive DEF RefsInv, HeapInv
<1>2. o \in ToSet(devs)
  <2>1. CanRead(<<d, heap[o].session>>)
    <3>1. handle[t] # NoObj BY <1>1 DEF Objs, NoObj
    <3>2. d \notin Sealed BY <3>1 DEF PathInv, Opened
    <3>3. QED BY <3>2 DEF CanRead
  <2>2. PICK i \in DOMAIN devs : heap[devs[i]].session = heap[o].session
    BY <2>1 DEF PathInv, Arrived, Listed
  <2>3. devs[i] \in ToSet(devs) BY DEF ToSet
  <2>4. devs[i] \in Objs /\ heap[devs[i]] # Free BY <2>3, TreeAssumption, FoundIsAlive
  <2>5. devs[i] = o BY <1>1, <2>2, <2>4 DEF NumbersInv, Distinct
  <2>6. QED BY <2>3, <2>5
<1>3. \A q \in Objs : heap[q].dir \in Dirs /\ Hub[heap[q].dir] = NoDir => heap[q].port = 0
  BY DEF PathInv, Rooted, RootHubs
<1> HIDE DEF d
<1>4. CASE Hub[d] = NoDir
  <2>1. Leads(o, <<>>) BY <1>1, <1>3, <1>4, FS_CardinalityType, TreeAssumption DEF Leads, TreeAssumption, d
  <2>2. Way(o) = <<>> BY <2>1, TreeAssumption, WayLeads
  <2>3. Ports(d) = <<>> BY <1>4 DEF Ports
  <2>4. ToSet(Way(o)) = {} BY <2>2 DEF ToSet
  <2>5. [n \in DOMAIN Way(o) |-> heap[Way(o)[n]].port] = <<>> BY <2>2
  <2>6. QED BY <2>3, <2>4, <2>5 DEF d
<1>5. CASE Hub[d] # NoDir
  <2> DEFINE p == heap[o].parent
             h == Hub[d]
  <2>1. /\ heap[o].port = Port[d] /\ heap[o].port # 0 /\ p \in ToSet(devs) /\ p \in Objs /\ heap[p] # Free
        /\ heap[p].dir = h /\ h \in Dirs /\ \E y \in there[t] : y[1] = h
    BY <1>2, <1>5, Climb DEF d
  <2> HIDE DEF p, h
  <2>2. CASE Hub[h] = NoDir
    <3>1. heap[p].port = 0 BY <1>3, <2>1, <2>2
    <3>2. Leads(o, <<o>>)
      <4>1. Cardinality(Dirs) >= 1
        <5>1. Cardinality(Dirs) \in Nat /\ Cardinality(Dirs) # 0
          BY FS_CardinalityType, FS_EmptySet, TreeAssumption DEF TreeAssumption
        <5>2. QED BY <5>1
      <4>2. QED BY <1>1, <2>1, <3>1, <4>1 DEF Leads, p
    <3>3. Way(o) = <<o>> BY <3>2, TreeAssumption, WayLeads
    <3>4. Ports(d) = <<Port[d]>> BY <1>5, <2>2 DEF Ports, h
    <3>5. ToSet(Way(o)) = {o} BY <3>3 DEF ToSet
    <3>6. [n \in DOMAIN Way(o) |-> heap[Way(o)[n]].port] = <<heap[o].port>> BY <3>3, SMTT(40)
    <3>7. QED BY <2>1, <3>4, <3>5, <3>6 DEF d, p
  <2>3. CASE Hub[h] # NoDir
    <3> DEFINE q == heap[p].parent
    <3>1. /\ heap[p].port = Port[h] /\ heap[p].port # 0 /\ q \in ToSet(devs) /\ q \in Objs /\ heap[q] # Free
          /\ heap[q].dir = Hub[h] /\ heap[q].dir \in Dirs
      BY <2>1, <2>3, Climb
    <3>2. Hub[Hub[h]] = NoDir
      <4>1. d \in Dirs BY <1>1 DEF d
      <4>2. QED BY <1>5, <2>3, <4>1, TreeAssumption DEF TreeAssumption, h
    <3>3. heap[q].port = 0 BY <1>3, <3>1, <3>2
    <3>4. Leads(o, <<o, p>>)
      <4>1. Cardinality(Dirs) >= 2
        <5>1. d # h
          <6>1. CASE d = h BY <1>5, <2>3, <3>2, <6>1 DEF h
          <6>2. QED BY <6>1
        <5>2. {d, h} \subseteq Dirs /\ IsFiniteSet(Dirs) BY <1>1, <2>1, TreeAssumption DEF d, TreeAssumption
        <5>3. Cardinality({d, h}) = 2
          <6>1. {d, h} = {h} \cup {d} /\ d \notin {h} BY <5>1
          <6>2. IsFiniteSet({h}) /\ Cardinality({h}) = 1 BY FS_Singleton
          <6>3. Cardinality({h} \cup {d}) = 1 + 1 BY <6>1, <6>2, FS_AddElement
          <6>4. QED BY <6>1, <6>3
        <5>4. Cardinality({d, h}) <= Cardinality(Dirs) BY <5>2, FS_Subset
        <5>5. QED BY <5>3, <5>4
      <4>2. <<o, p>> \in Seq(Objs) /\ Len(<<o, p>>) = 2 /\ <<o, p>>[1] = o /\ <<o, p>>[2] = p BY <1>1, <2>1
      <4>3. \A n \in 1 .. 2 : heap[<<o, p>>[n]].port # 0 /\ <<o, p>>[n] = IF n = 1 THEN o ELSE heap[<<o, p>>[n - 1]].parent
        <5>1. heap[o].port # 0 /\ heap[p].port # 0 /\ heap[o].parent = p BY <2>1, <3>1 DEF p
        <5>2. \A n \in 1 .. 2 : n = 1 \/ n = 2 OBVIOUS
        <5>3. QED BY <5>1, <5>2
      <4>4. heap[heap[<<o, p>>[2]].parent].port = 0 BY <3>3
      <4>5. QED BY <4>1, <4>2, <4>3, <4>4 DEF Leads
    <3>5. Way(o) = <<o, p>> BY <3>4, TreeAssumption, WayLeads
    <3>6. Ports(d) = <<Port[d], Port[h]>> BY <1>5, <2>3 DEF Ports, h
    <3>7. ToSet(Way(o)) = {o, p} BY <3>5 DEF ToSet
    <3>8. [n \in DOMAIN Way(o) |-> heap[Way(o)[n]].port] = <<heap[o].port, heap[p].port>> BY <3>5
    <3>9. QED BY <2>1, <3>1, <3>6, <3>7, <3>8, Zenon DEF d, p
  <2>4. QED BY <2>2, <2>3
<1>6. QED BY <1>4, <1>5

\* libusb_get_port_path of an open device that stays connected follows objects
\* that are alive and gives the ports of the way to the root hub, however other
\* devices come and go meanwhile: where threads take turns, and where a hub
\* that must be opened to be found can be.
THEOREM PathIsRightCorrect == ASSUME Serial, HubsReadable PROVE Spec => []PathIsRight
<1>1. Init => RefsInv BY InitRefs
<1>2. Init => NumbersInv BY DEF Init, NumbersInv, Distinct, Wanted, At
<1>3. Init => ListInv BY InitList
<1>4. Init => PathInv BY InitPath
<1>5. RefsInv /\ [Next]_vars => RefsInv' BY NextKeepsRefs
<1>6. RefsInv /\ RefsInv' /\ NumbersInv /\ [Next]_vars => NumbersInv' BY NextKeepsNumbers
<1>7. RefsInv /\ RefsInv' /\ ListInv /\ [Next]_vars => ListInv' BY NextKeepsList
<1>8. RefsInv /\ RefsInv' /\ ListInv /\ PathInv /\ [Next]_vars => PathInv' BY NextKeepsPath
<1>9. RefsInv /\ NumbersInv /\ ListInv /\ PathInv => PathIsRight BY PathInvIsEnough
<1>10. QED BY <1>1, <1>2, <1>3, <1>4, <1>5, <1>6, <1>7, <1>8, <1>9, PTL DEF Spec

(***************************************************************************)
(* WinContext, for every set of users and contexts                         *)
(***************************************************************************)

\* What the contexts keep, and what they and the backend know of each other.
ContextsInv ==
  /\ created \subseteq Contexts /\ live \subseteq created /\ backed \subseteq live
  /\ DOMAIN user = Users /\ DOMAIN mine = Users /\ DOMAIN got = Users
  /\ \A c \in live : c \in backed \/ \E u \in Users : user[u] = "leaving" /\ mine[u] = c
  /\ \A u, v \in Users : user[u] = "leaving" /\ user[v] = "leaving" /\ mine[u] = mine[v] => u = v

\* The backend is counted in: by a context, or by a windows_exit that has failed.
Needed == backed # {} \/ unbalanced > 0

\* The count, with the semaphore free, held by the last windows_exit, or lost;
\* the thread lives as long as the backend is counted in.
BackendInv ==
  /\ IsFiniteSet(backed) /\ unbalanced \in 0 .. MaxUnbalanced
  /\ semaphore = Unheld =>
       /\ concurrent_usage + 1 = Cardinality(backed) + unbalanced
       /\ Needed => thread \notin {"none", "ended"} /\ ~quit /\ is_polling_set
       /\ ~Needed => thread = "none"
  /\ semaphore \in Users =>
       concurrent_usage = -1 /\ user[semaphore] = "leaving" /\ backed = {mine[semaphore]} /\ unbalanced = 0
  /\ semaphore = Lost => concurrent_usage = 0 /\ ~Needed

\* The rest of the type invariant: counts, and what is no number.
CountsInv ==
  /\ concurrent_usage \in Int
  /\ request_count \in Nat /\ nb_responses \in Nat /\ timer_response \in 0 .. MAX_TIMER_SEMAPHORES
  /\ retries \in 0 .. MaxRetries

FlagsInv ==
  /\ semaphore \in Users \cup {Unheld, Lost}
  /\ is_polling_set \in BOOLEAN /\ hires_frequency \in BOOLEAN /\ asked \in BOOLEAN /\ quit \in BOOLEAN
  /\ thread \in {"none", "start", "wait", "test", "reset", "again", "time", "answer", "ended"}
  /\ clock \in [Users -> {"idle", "asked", "waiting"}]

TimerInv == CountsInv /\ FlagsInv

IInv == ContextsInv /\ BackendInv /\ TimerInv

LEMMA InitInv == ASSUME WinInit PROVE IInv
<1>1. TimerInv
  <2>1. CountsInv BY WinContextAssumption DEF WinInit, CountsInv
  <2>2. FlagsInv BY DEF WinInit, FlagsInv
  <2>3. QED BY <2>1, <2>2 DEF TimerInv
<1>2. ContextsInv BY DEF WinInit, ContextInit, ContextsInv
<1>3. IsFiniteSet({}) /\ Cardinality({}) = 0 BY FS_EmptySet
<1>4. semaphore = Unheld /\ concurrent_usage = -1 /\ backed = {} /\ unbalanced = 0 /\ thread = "none"
  BY DEF WinInit
<1>5. concurrent_usage + 1 = Cardinality(backed) + unbalanced BY <1>3, <1>4
<1>6. BackendInv BY <1>3, <1>4, <1>5, WinContextAssumption DEF BackendInv, Needed
<1>7. QED BY <1>1, <1>2, <1>6 DEF IInv

\* The semaphore is in one hand only.
LEMMA Hands == Unheld \notin Users /\ Lost \notin Users /\ Unheld # Lost
BY WinContextAssumption

-----------------------------------------------------------------------------
(* The thread and those who ask it for the time                            *)

LEMMA ThreadKeeps == ASSUME IInv, Thread PROVE IInv'
<1> USE DEF IInv, Advance, Same
<1>1. UNCHANGED <<usbi_default_context, created, live, user, mine, got, backendv, clockv>>
  BY DEF Thread, FindCounter, Wake, Quit, Test, ResetRequest, TestAgain, ReadTime, Answer, contextv
<1>2. /\ thread' \in {"wait", "test", "reset", "again", "time", "answer", "ended"}
      /\ thread' = "ended" => quit
      /\ thread # "none"
      /\ UNCHANGED quit
  BY DEF Thread, FindCounter, Wake, Quit, Test, ResetRequest, TestAgain, ReadTime, Answer
<1>3. hires_frequency' \in BOOLEAN /\ asked' \in BOOLEAN
  BY DEF Thread, FindCounter, Wake, Quit, Test, ResetRequest, TestAgain, ReadTime, Answer, TimerInv, CountsInv, FlagsInv, timerv
<1>4. request_count' \in Nat /\ nb_responses' \in Nat /\ timer_response' \in 0 .. MAX_TIMER_SEMAPHORES
  <2>1. CASE Answer BY <2>1, WinContextAssumption DEF Answer, Released, TimerInv, CountsInv, FlagsInv
  <2>2. CASE ReadTime BY <2>2 DEF ReadTime, TimerInv, CountsInv, FlagsInv
  <2>3. CASE FindCounter \/ Wake \/ Quit \/ Test \/ ResetRequest \/ TestAgain
    BY <2>3 DEF FindCounter, Wake, Quit, Test, ResetRequest, TestAgain, timerv, TimerInv, CountsInv, FlagsInv
  <2>4. QED BY <2>1, <2>2, <2>3 DEF Thread
<1>5. ContextsInv' BY <1>1 DEF ContextsInv, backendv
<1>6. BackendInv' BY <1>1, <1>2 DEF BackendInv, Needed, backendv
<1>7. TimerInv' BY <1>1, <1>2, <1>3, <1>4 DEF TimerInv, CountsInv, FlagsInv, backendv, clockv
<1>8. QED BY <1>5, <1>6, <1>7

LEMMA ClockKeeps ==
  ASSUME IInv, NEW u \in Users, Ask(u) \/ Signal(u) \/ Answered(u) \/ Retry(u) \/ Unanswered(u)
  PROVE  IInv'
<1> USE DEF IInv
<1>1. UNCHANGED <<contextv, backendv, threadv>> BY DEF Ask, Signal, Answered, Retry, Unanswered
<1>2. clock' \in [Users -> {"idle", "asked", "waiting"}]
  BY DEF Ask, Signal, Answered, Retry, Unanswered, Clock, TimerInv, CountsInv, FlagsInv
<1>3. CountsInv' BY <1>1, WinContextAssumption DEF Ask, Signal, Answered, Retry, Unanswered, TimerInv, CountsInv, timerv, backendv
<1>4. asked' \in BOOLEAN BY DEF Ask, Signal, Answered, Retry, Unanswered, TimerInv, FlagsInv, timerv
<1>5. ContextsInv' BY <1>1 DEF ContextsInv, contextv, backendv
<1>6. BackendInv' BY <1>1 DEF BackendInv, Needed, contextv, backendv, threadv
<1>7. TimerInv' BY <1>1, <1>2, <1>3, <1>4 DEF TimerInv, FlagsInv, backendv, threadv
<1>8. QED BY <1>5, <1>6, <1>7

-----------------------------------------------------------------------------
(* libusb_init and libusb_exit                                             *)

LEMMA FreshContext ==
  ASSUME ContextsInv, NEW c \in Fresh PROVE c \in Contexts /\ c \notin created
<1>1. created # Contexts BY DEF Fresh
<1>2. \E x \in Contexts : x \notin created BY <1>1 DEF ContextsInv
<1>3. c = CHOOSE x \in Contexts : x \notin created BY <1>1 DEF Fresh
<1>4. QED BY <1>2, <1>3

\* windows_init counts; the first one brings the thread.
LEMMA CountUsageProperties ==
  ASSUME IInv, CountUsage, UNCHANGED clockv
  PROVE  /\ semaphore' = Unheld /\ concurrent_usage' = concurrent_usage + 1 /\ is_polling_set'
         /\ thread' \notin {"none", "ended"} /\ ~quit'
         /\ TimerInv'
<1> USE DEF IInv
<1>1. /\ semaphore = Unheld /\ semaphore' = Unheld /\ concurrent_usage' = concurrent_usage + 1 /\ is_polling_set' = TRUE
      /\ IF First THEN thread' = "start" /\ quit' = FALSE /\ asked' = FALSE /\ timer_response' = 0
         ELSE UNCHANGED <<thread, quit, asked, timer_response>>
      /\ UNCHANGED <<hires_frequency, request_count, nb_responses>>
  BY DEF CountUsage, InitPolling
<1>2. First \/ Needed
  <2>1. Cardinality({}) = 0 BY FS_EmptySet
  <2>2. concurrent_usage + 1 = Cardinality(backed) + unbalanced /\ concurrent_usage \in Int /\ unbalanced \in Nat
    BY <1>1 DEF BackendInv, TimerInv, CountsInv
  <2>3. SUFFICES ASSUME ~Needed PROVE First OBVIOUS
  <2>4. backed = {} /\ unbalanced = 0 BY <2>2, <2>3 DEF Needed
  <2>5. QED BY <2>1, <2>2, <2>4 DEF First
<1>3. thread' \notin {"none", "ended"} /\ ~quit' BY <1>1, <1>2 DEF BackendInv
<1>4. CountsInv' BY <1>1, WinContextAssumption DEF TimerInv, CountsInv, clockv
<1>5. FlagsInv' BY <1>1 DEF TimerInv, FlagsInv, clockv
<1>6. QED BY <1>1, <1>3, <1>4, <1>5 DEF TimerInv

\* A new context is one more for the backend.
LEMMA InitContextKeeps ==
  ASSUME IInv, NEW u \in Users, NEW c \in Fresh, NEW handed, InitContext(u, c, handed)
  PROVE  IInv'
<1> USE DEF IInv
<1>1. c \in Contexts /\ c \notin created BY FreshContext
<1>2. /\ user[u] = "out" /\ created' = created \cup {c} /\ live' = live \cup {c}
      /\ user' = [user EXCEPT ![u] = "in"] /\ mine' = [mine EXCEPT ![u] = handed]
      /\ got' = [got EXCEPT ![u] = c]
  BY DEF InitContext, Create
<1>3. CountUsage /\ backed' = backed \cup {c} /\ UNCHANGED <<unbalanced, clockv>> BY DEF InitContext, BackendInit
<1>4. c \notin backed BY <1>1 DEF ContextsInv
<1>5. IsFiniteSet(backed') /\ Cardinality(backed') = Cardinality(backed) + 1
  BY <1>3, <1>4, FS_AddElement DEF BackendInv
<1>6. Cardinality(backed) \in Nat BY FS_CardinalityType DEF BackendInv
<1>7. ContextsInv'
  <2>1. \A x \in live' : x \in backed' \/ \E v \in Users : user'[v] = "leaving" /\ mine'[v] = x
    BY <1>2, <1>3 DEF ContextsInv
  <2>2. \A v \in Users : user'[v] = "leaving" => user[v] = "leaving" /\ mine'[v] = mine[v]
    BY <1>2 DEF ContextsInv
  <2>3. QED BY <1>1, <1>2, <1>3, <2>1, <2>2 DEF ContextsInv
<1>8. BackendInv'
  <2>1. /\ semaphore' = Unheld /\ concurrent_usage' = concurrent_usage + 1 /\ is_polling_set'
        /\ thread' \notin {"none", "ended"} /\ ~quit'
    BY <1>3, CountUsageProperties
  <2>2. concurrent_usage + 1 = Cardinality(backed) + unbalanced /\ unbalanced \in Nat
    BY <1>3 DEF CountUsage, BackendInv
  <2>3. concurrent_usage' + 1 = Cardinality(backed') + unbalanced'
    BY <1>3, <1>5, <1>6, <2>1, <2>2 DEF TimerInv, CountsInv
  <2>4. QED BY <1>3, <1>5, <2>1, <2>3, Hands DEF BackendInv, Needed
<1>9. TimerInv' BY <1>3, CountUsageProperties
<1>10. QED BY <1>7, <1>8, <1>9

LEMMA InitContextFailsKeeps ==
  ASSUME IInv, NEW u \in Users, NEW c \in Fresh, InitContextFails(u, c) PROVE IInv'
<1> USE DEF IInv
<1>1. c \in Contexts /\ c \notin created BY FreshContext
<1>2. /\ created' = created \cup {c} /\ UNCHANGED <<live, user, mine, got, clockv, backed>>
  BY DEF InitContextFails, CreateFails, BackendRefused, BackendFails, LibrariesMissing, IoInitFails, IoInitStays, backendv
<1>3. ContextsInv' BY <1>1, <1>2 DEF ContextsInv
<1>4. CASE BackendRefused /\ UNCHANGED timerv
  <2>1. BackendInv' BY <1>2, <1>4 DEF BackendRefused, BackendInv, Needed, backendv, threadv
  <2>2. TimerInv' BY <1>2, <1>4 DEF BackendRefused, TimerInv, CountsInv, FlagsInv, backendv, threadv, timerv, clockv
  <2>3. QED BY <1>3, <2>1, <2>2
<1>5. CASE (BackendFails \/ LibrariesMissing \/ IoInitFails) /\ UNCHANGED timerv
  <2>1. semaphore = Unheld /\ UNCHANGED <<unbalanced, thread, quit>>
    BY <1>5 DEF BackendFails, LibrariesMissing, IoInitFails, threadv
  <2>2. First => ~Needed
    <3>1. HAVE First
    <3>2. Cardinality(backed) + unbalanced = 0 /\ unbalanced \in Nat /\ Cardinality(backed) \in Nat
      BY <2>1, <3>1, FS_CardinalityType DEF BackendInv, First
    <3>3. Cardinality(backed) = 0 /\ unbalanced = 0 BY <3>2
    <3>4. backed = {} BY <3>3, FS_EmptySet DEF BackendInv
    <3>5. QED BY <3>3, <3>4 DEF Needed
  <2>3. CountsInv' /\ (semaphore' # Unheld => concurrent_usage' = concurrent_usage + 1)
         /\ (semaphore' = Unheld => UNCHANGED concurrent_usage)
    BY <1>2, <1>5, <2>1, Hands DEF BackendFails, LibrariesMissing, IoInitFails, TimerInv, CountsInv, timerv, clockv
  <2>4. /\ is_polling_set' \in BOOLEAN /\ hires_frequency' \in BOOLEAN /\ semaphore' \in {Unheld, Lost}
        /\ ~First => UNCHANGED <<is_polling_set, semaphore, concurrent_usage>>
        /\ semaphore' # Unheld => semaphore' = Lost /\ First
    BY <1>5, <2>1, Zenon DEF BackendFails, LibrariesMissing, IoInitFails, InitPolling, ExitPolling, TimerInv, FlagsInv, threadv
  <2>5. BackendInv' BY <1>2, <2>1, <2>2, <2>3, <2>4, Hands DEF BackendInv, Needed, First
  <2>6. TimerInv' BY <1>2, <1>5, <2>1, <2>3, <2>4 DEF TimerInv, FlagsInv, timerv, clockv
  <2>7. QED BY <1>3, <2>5, <2>6
<1>6. CASE IoInitStays
  <2>1. CountUsage /\ unbalanced' = unbalanced + 1 /\ unbalanced < MaxUnbalanced BY <1>6 DEF IoInitStays, ExitRefused
  <2>2. /\ semaphore' = Unheld /\ concurrent_usage' = concurrent_usage + 1 /\ is_polling_set'
        /\ thread' \notin {"none", "ended"} /\ ~quit'
    BY <1>2, <2>1, CountUsageProperties
  <2>3. concurrent_usage + 1 = Cardinality(backed) + unbalanced /\ unbalanced \in 0 .. MaxUnbalanced
    BY <2>1 DEF CountUsage, BackendInv
  <2>4. unbalanced' \in 0 .. MaxUnbalanced /\ unbalanced' > 0 BY <2>1, <2>3, WinContextAssumption
  <2>5. Cardinality(backed) \in Nat BY FS_CardinalityType DEF BackendInv
  <2>6. concurrent_usage' + 1 = Cardinality(backed') + unbalanced'
    BY <1>2, <2>1, <2>2, <2>3, <2>5 DEF TimerInv, CountsInv
  <2>7. BackendInv' BY <1>2, <2>2, <2>4, <2>6, Hands DEF BackendInv, Needed
  <2>8. TimerInv' BY <1>2, <2>1, CountUsageProperties
  <2>9. QED BY <1>3, <2>7, <2>8
<1>7. QED BY <1>4, <1>5, <1>6 DEF InitContextFails

\* Users come and go, and give contexts up, without the backend.
LEMMA UsersKeep ==
  ASSUME IInv, NEW u \in Users, ReuseContext(u) \/ ExitContext(u) PROVE IInv'
<1> USE DEF IInv
<1>1. UNCHANGED <<created, live, backendv, threadv, timerv, clockv>>
  BY DEF ReuseContext, ExitContext, Reuse, ExitCounted, ExitLast
<1>2. /\ DOMAIN user' = Users /\ DOMAIN mine' = Users /\ DOMAIN got' = Users
      /\ \A v \in Users : user[v] = "leaving" => user'[v] = "leaving" /\ mine'[v] = mine[v]
  BY DEF ReuseContext, ExitContext, Reuse, ExitCounted, ExitLast, ContextsInv
<1>3. \A v \in Users \ {u} : user'[v] = user[v] /\ mine'[v] = mine[v]
  BY DEF ReuseContext, ExitContext, Reuse, ExitCounted, ExitLast, ContextsInv
<1>4. user'[u] = "leaving" => \A v \in Users \ {u} : user[v] = "leaving" => mine[v] # mine'[u]
  <2>1. CASE ReuseContext(u) BY <2>1 DEF ReuseContext, Reuse, ContextsInv
  <2>2. CASE ExitContext(u)
    <3>1. Context(u) = got[u] /\ ~\E v \in Users : user[v] = "leaving" /\ mine[v] = got[u]
      BY <2>2 DEF ExitContext, Usable
    <3>2. user'[u] = "leaving" => mine'[u] = Context(u)
      BY <2>2 DEF ExitContext, ExitCounted, ExitLast, ContextsInv
    <3>3. QED BY <3>1, <3>2
  <2>3. QED BY <2>1, <2>2
<1>5. \A v, w \in Users : user'[v] = "leaving" /\ user'[w] = "leaving" /\ mine'[v] = mine'[w] => v = w
  BY <1>3, <1>4 DEF ContextsInv
<1>6. ContextsInv' BY <1>1, <1>2, <1>5 DEF ContextsInv, backendv
<1>7. BackendInv' BY <1>1, <1>2 DEF BackendInv, Needed, backendv, threadv
<1>8. TimerInv' BY <1>1 DEF TimerInv, CountsInv, FlagsInv, backendv, threadv, timerv, clockv
<1>9. QED BY <1>6, <1>7, <1>8

LEMMA BackendExitKeeps == ASSUME IInv, NEW u \in Users, BackendExit(u) PROVE IInv'
<1> USE DEF IInv
<1>1. /\ user[u] = "leaving" /\ mine[u] \in backed /\ semaphore = Unheld
      /\ concurrent_usage' = concurrent_usage - 1
      /\ UNCHANGED <<contextv, unbalanced, thread, hires_frequency, timerv, clockv>>
  BY DEF BackendExit
<1>2. UNCHANGED <<created, live, user, mine, got>> BY <1>1 DEF contextv
<1>3. /\ concurrent_usage + 1 = Cardinality(backed) + unbalanced /\ unbalanced \in Nat
      /\ Cardinality(backed) \in Nat /\ Cardinality(backed) # 0
  BY <1>1, FS_CardinalityType, FS_EmptySet DEF BackendInv
<1>4. CASE LastUsage
  <2>1. semaphore' = u /\ quit' = TRUE /\ is_polling_set' = FALSE /\ backed' = backed
    BY <1>4 DEF BackendExit, ExitPolling
  <2>2. Cardinality(backed) = 1 /\ unbalanced = 0 BY <1>3, <1>4 DEF LastUsage
  <2>3. backed = {mine[u]}
    <3>1. \E x : backed = {x} BY <2>2, FS_Singleton DEF BackendInv
    <3>2. QED BY <1>1, <3>1
  <2>4. ContextsInv' BY <1>2, <2>1 DEF ContextsInv
  <2>5. BackendInv' BY <1>1, <1>2, <1>4, <2>1, <2>2, <2>3, Hands DEF BackendInv, LastUsage
  <2>6. TimerInv'
    <3>1. CountsInv' BY <1>1 DEF TimerInv, CountsInv, timerv, clockv
    <3>2. FlagsInv' BY <1>1, <2>1 DEF TimerInv, FlagsInv, timerv, clockv
    <3>3. QED BY <3>1, <3>2 DEF TimerInv
  <2>7. QED BY <2>4, <2>5, <2>6
<1>5. CASE ~LastUsage
  <2>1. backed' = backed \ {mine[u]} /\ UNCHANGED <<semaphore, quit, is_polling_set>> BY <1>5 DEF BackendExit
  <2>2. IsFiniteSet(backed') /\ Cardinality(backed') = Cardinality(backed) - 1
    BY <1>1, <2>1, FS_RemoveElement DEF BackendInv
  <2>3. ContextsInv' BY <1>1, <1>2, <2>1 DEF ContextsInv
  <2>4. concurrent_usage' + 1 = Cardinality(backed') + unbalanced'
    BY <1>1, <1>3, <2>2 DEF TimerInv, CountsInv
  <2>5. Needed'
    <3>1. Cardinality(backed') + unbalanced # 0 BY <1>3, <1>5, <2>2 DEF LastUsage, TimerInv, CountsInv
    <3>2. SUFFICES ASSUME backed' = {} PROVE unbalanced > 0 BY <1>1 DEF Needed
    <3>3. Cardinality(backed') = 0 BY <3>2, FS_EmptySet
    <3>4. QED BY <1>3, <3>1, <3>3
  <2>6. BackendInv'
    <3>1. Needed /\ thread \notin {"none", "ended"} /\ ~quit /\ is_polling_set BY <1>1 DEF BackendInv, Needed
    <3>2. QED BY <1>1, <2>1, <2>2, <2>4, <2>5, <3>1, Hands DEF BackendInv
  <2>7. TimerInv' BY <1>1, <2>1 DEF TimerInv, CountsInv, FlagsInv, timerv, clockv
  <2>8. QED BY <2>3, <2>6, <2>7
<1>6. QED BY <1>4, <1>5

\* A windows_exit that fails leaves its count behind.
LEMMA BackendExitFailsKeeps == ASSUME IInv, NEW u \in Users, BackendExitFails(u) PROVE IInv'
<1> USE DEF IInv
<1>1. /\ user[u] = "leaving" /\ mine[u] \in backed /\ semaphore # u
      /\ backed' = backed \ {mine[u]} /\ unbalanced' = unbalanced + 1 /\ unbalanced < MaxUnbalanced
      /\ UNCHANGED <<contextv, semaphore, concurrent_usage, is_polling_set, threadv, timerv, clockv>>
  BY DEF BackendExitFails, ExitRefused
<1>2. UNCHANGED <<created, live, user, mine, got>> BY <1>1 DEF contextv
<1>3. semaphore = Unheld
  <2>1. semaphore \notin Users BY <1>1 DEF BackendInv, ContextsInv
  <2>2. semaphore # Lost BY <1>1 DEF BackendInv, Needed
  <2>3. QED BY <2>1, <2>2 DEF TimerInv, FlagsInv
<1>4. /\ concurrent_usage + 1 = Cardinality(backed) + unbalanced /\ unbalanced \in Nat
      /\ Cardinality(backed) \in Nat
  BY <1>3, FS_CardinalityType DEF BackendInv
<1>5. IsFiniteSet(backed') /\ Cardinality(backed') = Cardinality(backed) - 1
  BY <1>1, FS_RemoveElement DEF BackendInv
<1>6. concurrent_usage' + 1 = Cardinality(backed') + unbalanced'
  BY <1>1, <1>4, <1>5 DEF TimerInv, CountsInv
<1>7. unbalanced' \in 0 .. MaxUnbalanced /\ unbalanced' > 0 BY <1>1, <1>4, WinContextAssumption
<1>8. thread \notin {"none", "ended"} /\ ~quit /\ is_polling_set BY <1>1, <1>3 DEF BackendInv, Needed
<1>9. ContextsInv' BY <1>1, <1>2 DEF ContextsInv
<1>10. BackendInv' BY <1>1, <1>3, <1>5, <1>6, <1>7, <1>8, Hands DEF BackendInv, Needed, threadv
<1>11. TimerInv' BY <1>1 DEF TimerInv, CountsInv, FlagsInv, threadv, timerv, clockv
<1>12. QED BY <1>9, <1>10, <1>11

LEMMA BackendGoneKeeps == ASSUME IInv, NEW u \in Users, BackendGone(u) PROVE IInv'
<1> USE DEF IInv
<1>1. /\ semaphore = u /\ semaphore' = Unheld /\ thread' = "none" /\ backed' = backed \ {mine[u]}
      /\ UNCHANGED <<contextv, concurrent_usage, unbalanced, is_polling_set, hires_frequency, quit, timerv, clockv>>
  BY DEF BackendGone
<1>2. UNCHANGED <<created, live, user, mine, got>> BY <1>1 DEF contextv
<1>3. concurrent_usage = -1 /\ user[u] = "leaving" /\ backed' = {} /\ unbalanced = 0 BY <1>1 DEF BackendInv
<1>4. ContextsInv' BY <1>1, <1>2, <1>3 DEF ContextsInv
<1>5. ~Needed' BY <1>1, <1>3 DEF Needed
<1>6. BackendInv' BY <1>1, <1>3, <1>5, FS_EmptySet, Hands DEF BackendInv
<1>7. TimerInv' BY <1>1 DEF TimerInv, CountsInv, FlagsInv, timerv, clockv
<1>8. QED BY <1>4, <1>6, <1>7

LEMMA FreeContextKeeps == ASSUME IInv, NEW u \in Users, FreeContext(u) PROVE IInv'
<1> USE DEF IInv
<1>1. /\ user[u] = "leaving" /\ user' = [user EXCEPT ![u] = "out"] /\ live' = live \ {mine[u]}
      /\ mine[u] \notin backed
      /\ UNCHANGED <<created, mine, got, backendv, threadv, timerv, clockv>>
  BY DEF FreeContext, DestroyContext
<1>2. semaphore # u BY <1>1 DEF BackendInv
<1>3. ContextsInv' BY <1>1 DEF ContextsInv, backendv
<1>4. BackendInv' BY <1>1, <1>2 DEF BackendInv, Needed, ContextsInv, backendv, threadv
<1>5. TimerInv' BY <1>1 DEF TimerInv, CountsInv, FlagsInv, backendv, threadv, timerv, clockv
<1>6. QED BY <1>3, <1>4, <1>5

LEMMA NextKeeps == ASSUME IInv, [WinNext]_allvars PROVE IInv'
<1>1. CASE UNCHANGED allvars
  BY <1>1 DEF allvars, contextv, backendv, threadv, timerv, clockv, IInv, ContextsInv, BackendInv, Needed, TimerInv, CountsInv, FlagsInv
<1>2. QED
  BY <1>1, ThreadKeeps, ClockKeeps, InitContextKeeps, InitContextFailsKeeps, UsersKeep, BackendExitKeeps,
    BackendExitFailsKeeps, BackendGoneKeeps, FreeContextKeeps DEF WinNext

\* Who can use a context has a backend under it.
LEMMA InvSuffices == ASSUME IInv PROVE BackendBalanced
<1> USE DEF IInv
<1>1. Cardinality(backed) \in Nat /\ unbalanced \in 0 .. MaxUnbalanced BY FS_CardinalityType DEF BackendInv
<1>2. concurrent_usage \in Nat \cup {-1}
  <2>1. concurrent_usage + 1 = Cardinality(backed) + unbalanced \/ concurrent_usage \in {0, -1}
    BY DEF BackendInv, TimerInv, CountsInv, FlagsInv
  <2>2. QED BY <1>1, <2>1, WinContextAssumption DEF TimerInv, CountsInv
<1>3. WinTypeOK BY <1>1, <1>2 DEF WinTypeOK, TimerInv, CountsInv, FlagsInv, ContextsInv
<1>4. ASSUME NEW u \in Users, Usable(u) PROVE thread \notin {"none", "ended"} /\ ~quit /\ is_polling_set
  <2>1. got[u] \in backed BY <1>4 DEF Usable, ContextsInv
  <2>2. semaphore \notin Users BY <1>4, <2>1 DEF Usable, BackendInv
  <2>3. semaphore = Unheld BY <2>1, <2>2 DEF BackendInv, Needed, TimerInv, CountsInv, FlagsInv
  <2>4. QED BY <2>1, <2>3 DEF BackendInv, Needed
<1>5. ASSUME semaphore = Unheld
      PROVE  /\ concurrent_usage + 1 = Cardinality(backed) + unbalanced
             /\ thread = "none" <=> backed = {} /\ unbalanced = 0
  BY <1>1, <1>5 DEF BackendInv, Needed
<1>6. QED BY <1>3, <1>4, <1>5 DEF BackendBalanced, ContextsInv

\* The backend counts its contexts, and the calls of windows_exit that failed,
\* exactly, and is there for whoever can use a context.
THEOREM BackendBalancedCorrect == WinSpec => []BackendBalanced
<1>1. WinInit => IInv BY InitInv
<1>2. IInv /\ [WinNext]_allvars => IInv' BY NextKeeps
<1>3. IInv => BackendBalanced BY InvSuffices
<1>4. QED BY <1>1, <1>2, <1>3, PTL DEF WinSpec
=============================================================================
