---------------------------- MODULE WinUsbProofs ----------------------------
(***************************************************************************)
(* Theorems about WinUsb: for any number of transfers and interfaces, any  *)
(* table of descriptors and any bounds.                                    *)
(***************************************************************************)
EXTENDS WinUsb, FiniteSetTheorems, WellFoundedInduction, TLAPS

Busy == {"choose", "auto", "create", "start", "refused"}
Telling == {"notify", "lock", "read"}
HasTransfer == {"clear", "release", "complete", "callback"}

\* A thread is in the submission of x, up to where the lock of x is released.
InSubmission(x) == \E th \in Threads : pc[th] \in Busy /\ cur[th] = x

(* In flight, and not yet cleared: these have an entry and are polled.  A   *)
(* thread that is about to start a transfer has made the entry just now.   *)
Running ==
  {x \in flying : ~InSubmission(x) /\ ~(at = x /\ ev \in {"release", "complete"})}
Starting == {x \in flying : \E th \in Threads : pc[th] = "start" /\ cur[th] = x}

\* The pipe is written to, and pollfd_modify counted up, by an application
\* that has not read yet.
ToldInv ==
  /\ pc[Handler] \notin {"lock", "read"}
  /\ pipe.high = modify /\ (pipe.event <=> modify = 1)
  /\ modify = IF pc[App] \in {"lock", "read"} THEN 1 ELSE 0

\* Who is where
ThreadsInv ==
  /\ pc \in [Threads -> {"ready"} \cup Busy \cup Telling]
  /\ ev \in {"gate", "scan", "wait", "expire", "handle", "astray"} \cup HasTransfer
  /\ begun \subseteq Transfers /\ flying \subseteq begun
  /\ \A th \in Threads :
       /\ pc[th] = "ready" <=> cur[th] = None
       /\ pc[th] \in Busy => cur[th] \in flying
       /\ pc[th] \in {"create", "start"} => use[th] # None
       /\ pc[th] \notin {"create", "start", "refused"} => use[th] = None
       /\ pc[th] = "auto" => cur[th] \in control
  /\ pc[App] \in Busy /\ pc[Handler] \in Busy => cur[App] # cur[Handler]
  /\ pc[Handler] \in Busy => ev = "callback" /\ at = cur[Handler]
  /\ ev \in HasTransfer => at \in begun
  /\ ev \in {"clear", "release", "complete"} => at \in flying /\ ~InSubmission(at)

\* Whose the entries of the table are
TableInv ==
  /\ \A f \in Fds : poll_fd[f] = Pipe <=> f = 1
  /\ lost \subseteq Fds
  /\ \A f \in lost : poll_fd[f] \in Transfers
  /\ \A f \in Fds \ lost : poll_fd[f] \in Transfers =>
       \/ poll_fd[f] \in Running /\ fd[poll_fd[f]] = f
       \/ poll_fd[f] \in Starting
  /\ \A f, g \in Fds \ lost : poll_fd[f] \in Transfers /\ poll_fd[f] = poll_fd[g] => f = g
  /\ \A x \in Running : fd[x] \in Fds \ lost /\ poll_fd[fd[x]] = x
  /\ \A x \in Starting : \E f \in Fds \ lost : poll_fd[f] = x

\* What is polled, and what is still to be reported.  The pollable_fd of the
\* last time is gone as soon as the submission has chosen its interface.
PolledInv ==
  /\ 1 \in pollfds /\ pollfds \cap lost = {}
  /\ \A f \in pollfds \ {1} :
       /\ poll_fd[f] \in Running /\ fd[poll_fd[f]] = f
       /\ ~(ev = "clear" /\ at = poll_fd[f])
  /\ ev \in {"scan", "wait"} => polled \subseteq pollfds
  /\ todo \subseteq pollfds \ {1}
  /\ ev \in {"gate", "scan", "wait", "expire"} => todo = {}
  /\ ev \in HasTransfer => fd[at] \notin todo
  /\ pc[App] \in Busy \ {"choose"} => fd[cur[App]] \in {NoFd} \cup lost

\* The control transfers that need interface i
Users(i) ==
  {x \in control \cap flying :
     \/ \E th \in Threads : pc[th] \in Busy /\ cur[th] = x /\ use[th] = i
     \/ ~InSubmission(x) /\ iface[x] = i /\ ~(at = x /\ ev = "complete")}

ClaimInv ==
  /\ IsFiniteSet(flying)
  /\ \A i \in Ifaces \ kept : autoclaim_count[i] <= Cardinality(Users(i))

-----------------------------------------------------------------------------
\* The least of a set of numbers, and what is got with it
LEMMA MinProperties ==
  ASSUME NEW S \in SUBSET Nat, S # {}
  PROVE  Min(S) \in S
<1>1. PICK x \in S : \A y \in S : ~(<<y, x>> \in OpToRel(<, Nat))
  BY NatLessThanWellFounded, WFMin
<1>2. ASSUME NEW y \in S, y < x  PROVE FALSE
  <2>1. <<y, x>> \in Nat \X Nat /\ <<y, x>>[1] < <<y, x>>[2]
    BY <1>2
  <2>2. <<y, x>> \in {ss \in Nat \X Nat : ss[1] < ss[2]}
    BY <2>1
  <2> QED  BY <1>1, <2>2 DEF OpToRel
<1>3. \A y \in S : x <= y
  BY <1>2
<1> QED  BY <1>3 DEF Min

LEMMA ValidIsInterface ==
  ASSUME NEW api
  PROVE  Valid(api) \in Of(api) \cup {None} /\ Of(api) \subseteq Ifaces
<1>1. Of(api) \cap live \in SUBSET Nat
  BY WinUsbAssumption DEF Of
<1> QED  BY <1>1, MinProperties DEF Valid, Of

\* usbi_create_fd takes a free entry.
LEMMA CreatedEntry ==
  ASSUME NEW x, Created(x)
  PROVE  \E f \in Fds : poll_fd[f] = Free /\ poll_fd' = [poll_fd EXCEPT ![f] = x]
<1>1. FreeFds \in SUBSET Nat
  BY PollAssumption DEF FreeFds, Fds
<1>2. Min(FreeFds) \in FreeFds
  BY <1>1, MinProperties DEF Created
<1> QED  BY <1>2 DEF Created, FreeFds

\* The pipe has one entry, and so has a transfer that is about to be started.
LEMMA PipeEntry ==
  ASSUME TableInv  PROVE PipeFd = 1 /\ 1 \in Fds
<1>1. 1 \in Fds
  BY PollAssumption DEF Fds
<1> QED  BY <1>1 DEF PipeFd, TableInv

LEMMA EntryIsTheOne ==
  ASSUME TableInv, ThreadsInv, NEW th \in Threads, pc[th] = "start"
  PROVE  /\ cur[th] \in Transfers
         /\ Entry(cur[th]) \in Fds \ lost /\ poll_fd[Entry(cur[th])] = cur[th]
         /\ \A f \in Fds \ lost : poll_fd[f] = cur[th] => f = Entry(cur[th])
<1>1. cur[th] \in Transfers
  BY DEF ThreadsInv, Busy
<1>2. PICK f \in Fds \ lost : poll_fd[f] = cur[th]
  BY DEF TableInv, Starting, ThreadsInv, Busy
<1>3. Entry(cur[th]) \in Fds \ lost /\ poll_fd[Entry(cur[th])] = cur[th]
  BY <1>2 DEF Entry
<1> QED  BY <1>1, <1>3 DEF TableInv

LEMMA CountsAreNumbers ==
  ASSUME autoclaim_count \in [Ifaces -> Nat], NEW i
  PROVE  /\ Counted(i) \in [Ifaces -> Nat]
         /\ Discounted(i) \in [Ifaces -> Nat]
<1> DEFINE less == IF autoclaim_count[i] > 0 THEN autoclaim_count[i] - 1 ELSE 0
<1>1. i \in Ifaces => less \in Nat /\ autoclaim_count[i] + 1 \in Nat
  OBVIOUS
<1>2. Discounted(i) = [autoclaim_count EXCEPT ![i] = less]
  BY DEF Discounted
<1> HIDE DEF less
<1> QED  BY <1>1, <1>2 DEF Counted

LEMMA TypeKept ==
  ASSUME TypeOK, ToldInv, ThreadsInv, TableInv, Next
  PROVE  TypeOK'
<1> USE DEF At, Go, TypeOK, PollTypeOK, pollv, claimv, transv, subv, ctxv, evv, boundv
<1> App \in Threads /\ Handler \in Threads /\ App # Handler
  BY WinUsbAssumption DEF Threads
<1> 0 \in Ifaces /\ Target \in [Transfers -> Ifaces]
  BY WinUsbAssumption
<1>1. ASSUME NEW x \in Transfers, NEW th \in Threads, Submit(th, x)  PROVE TypeOK'
  BY <1>1 DEF Submit
<1>2. ASSUME NEW x \in Transfers, Cancel(x)  PROVE TypeOK'
  BY <1>2 DEF Cancel, Aborted
<1>3. ASSUME NEW x \in Transfers, DeviceAnswers(x)  PROVE TypeOK'
  BY <1>3 DEF DeviceAnswers
<1>4. ASSUME NEW i \in Ifaces, NEW gone \in SUBSET Ifaces, Claims(i, gone) \/ ClaimFails(gone)
      PROVE  /\ claimed' \subseteq Ifaces
             /\ live' \subseteq Ifaces
             /\ known' \subseteq Ifaces
  <2>1. \A j \in Ifaces : Along(j) \subseteq Ifaces
    BY DEF Along
  <2>2. \A rest \in Remains(gone) : rest \subseteq Ifaces
    BY <2>1 DEF Remains
  <2> QED  BY <1>4, <2>1, <2>2 DEF Claims, ClaimFails, Assigned
<1>5. ASSUME NEW i \in Ifaces, ClaimInterface(i)  PROVE TypeOK'
  BY <1>4, <1>5 DEF ClaimInterface
<1>6. ASSUME NEW i \in Ifaces, ReleaseInterface(i)  PROVE TypeOK'
  BY <1>6 DEF ReleaseInterface, Release, Aborted
<1>7. ASSUME NEW th \in Threads, SubmitStep(th)  PROVE TypeOK'
  <2>0. pc[th] \in Busy => cur[th] \in Transfers
    BY DEF ThreadsInv
  <2>1. CASE ChooseControl(th)
    BY <2>1, ValidIsInterface DEF ChooseControl
  <2>2. CASE ChooseEndpoint(th)
    BY <2>0, <2>2 DEF ChooseEndpoint, Busy
  <2>3. CASE AutoClaim(th)
    <3> DEFINE mine == Of(Api(cur[th]))
    <3>1. mine \subseteq Ifaces
      BY ValidIsInterface
    <3>2. /\ UNCHANGED <<pollv, transv, cur, ctxv, evv, boundv>>
          /\ autoclaim_count' \in [Ifaces -> Nat] /\ use' \in [Threads -> Ifaces \cup {None}]
      <4>1. UNCHANGED <<pollv, transv, cur, ctxv, evv, boundv>>
        BY <2>3 DEF AutoClaim
      <4>2. autoclaim_count' = autoclaim_count \/ \E i \in mine : autoclaim_count' = Counted(i)
        BY <2>3 DEF AutoClaim
      <4>3. use' = use \/ \E i \in mine : use' = [use EXCEPT ![th] = i]
        BY <2>3 DEF AutoClaim
      <4> QED  BY <3>1, <4>1, <4>2, <4>3, CountsAreNumbers
    <3>3. claimed' \subseteq Ifaces /\ live' \subseteq Ifaces /\ known' \subseteq Ifaces
      <4>1. CASE \E i \in mine : Claims(i, {j \in mine : j < i})
        BY <1>4, <3>1, <4>1
      <4>2. CASE ClaimFails(mine)
        BY <1>4, <3>1, <4>2
      <4> QED  BY <4>1, <4>2, <2>3 DEF AutoClaim
    <3> QED  BY <3>2, <3>3
  <2>4. CASE CreateFd(th)
    <3>1. poll_fd' \in [Fds -> Transfers \cup {Pipe, Free}]
      <4>1. CASE Created(cur[th])
        BY <2>0, <2>4, <4>1, CreatedEntry DEF CreateFd, Busy
      <4>2. CASE UNCHANGED poll_fd
        BY <4>2
      <4> QED  BY <4>1, <4>2, <2>4 DEF CreateFd
    <3> QED  BY <3>1, <2>4 DEF CreateFd
  <2>5. CASE Start(th)
    <3>1. Entry(cur[th]) \in Fds /\ cur[th] \in Transfers /\ use[th] \in Ifaces
      BY <2>5, EntryIsTheOne DEF Start, ThreadsInv
    <3> QED  BY <3>1, <2>5 DEF Start, Outcomes, Polled
  <2>6. CASE StartFails(th)
    BY <2>6 DEF StartFails, DropEntry, Freed
  <2>7. CASE StartLeaks(th)
    <3>1. Entry(cur[th]) \in Fds /\ cur[th] \in Transfers /\ use[th] \in Ifaces
      BY <2>7, EntryIsTheOne DEF StartLeaks, ThreadsInv
    <3> QED  BY <3>1, <2>7 DEF StartLeaks
  <2>8. CASE Refused(th)
    BY <2>8 DEF Refused
  <2> QED  BY <1>7, <2>1, <2>2, <2>3, <2>4, <2>5, <2>6, <2>7, <2>8 DEF SubmitStep
<1>8. CASE Notify
  BY <1>8 DEF Notify, Written, ToldInv
<1>9. CASE NotifyLock
  BY <1>9 DEF NotifyLock
<1>10. CASE NotifyRead
  BY <1>10 DEF NotifyRead, Read, Told, ToldInv
<1>11. CASE NotifySelf
  BY <1>11 DEF NotifySelf, Read, Written, ToldInv
<1>12. CASE Gate
  BY <1>12 DEF Gate
<1>13. CASE Scan
  BY <1>13 DEF Scan, Leave, Triggered
<1>14. CASE Wait
  BY <1>14 DEF Wait, Triggered
<1>15. CASE WaitTimesOut
  BY <1>15 DEF WaitTimesOut, Expired
<1>21. CASE Expire
  BY <1>21 DEF Expire, Expired, Leave, Aborted
<1>22. CASE HandleAstray
  BY <1>22 DEF HandleAstray
<1>16. CASE Handle
  BY <1>16 DEF Handle, Leave, Found, Unpolled
<1>17. CASE Clear
  BY <1>17 DEF Clear, Freed
<1>18. CASE AutoRelease
  <2>1. claimed' \subseteq Ifaces /\ live' \subseteq Ifaces
        /\ io' \in [Transfers -> {"none", "pending", "sync", "done", "aborted"}]
    BY <1>18 DEF AutoRelease, Release, Aborted
  <2>2. autoclaim_count' \in [Ifaces -> Nat]
    BY <1>18, CountsAreNumbers DEF AutoRelease
  <2> QED  BY <1>18, <2>1, <2>2 DEF AutoRelease
<1>19. CASE Callback
  BY <1>19 DEF Callback
<1>20. CASE Return
  BY <1>20 DEF Return
<1> QED  BY <1>1, <1>2, <1>3, <1>5, <1>6, <1>7, <1>8, <1>9, <1>10, <1>11, <1>12, <1>13,
            <1>14, <1>15, <1>16, <1>17, <1>18, <1>19, <1>20, <1>21, <1>22
            DEF Next, AppStep, AppCall, HandlerStep

\* What a step of a submission does not touch, and where it leads
LEMMA SubmissionStep ==
  ASSUME NEW th \in Threads, SubmitStep(th)
  PROVE  /\ pc[th] \in Busy
         /\ \E l \in {"auto", "create", "start", "refused", "notify", "ready"} : Go(th, l)
         /\ UNCHANGED <<pipe, modify, owner, evv, dev, control, begun>>
<1> USE DEF Busy, At, pollv, ctxv, evv, boundv
<1>1. CASE ChooseControl(th)
  BY <1>1 DEF ChooseControl
<1>2. CASE ChooseEndpoint(th)
  BY <1>2 DEF ChooseEndpoint
<1>3. CASE AutoClaim(th)
  BY <1>3 DEF AutoClaim
<1>4. CASE CreateFd(th)
  BY <1>4 DEF CreateFd
<1>5. CASE Start(th)
  BY <1>5 DEF Start
<1>6. CASE StartFails(th)
  BY <1>6 DEF StartFails
<1>7. CASE StartLeaks(th)
  BY <1>7 DEF StartLeaks
<1>8. CASE Refused(th)
  BY <1>8 DEF Refused
<1> QED  BY <1>1, <1>2, <1>3, <1>4, <1>5, <1>6, <1>7, <1>8 DEF SubmitStep

LEMMA ToldKept ==
  ASSUME ToldInv, pc \in [Threads -> {"ready"} \cup Busy \cup Telling],
         modify \in 0 .. 1, pipe \in [high : Nat, event : BOOLEAN], Next
  PROVE  ToldInv'
<1> USE DEF ToldInv, At, Go, pollv, subv, ctxv
<1> App \in Threads /\ Handler \in Threads /\ App # Handler
  BY WinUsbAssumption DEF Threads
<1>1. ASSUME NEW x \in Transfers, NEW th \in Threads, Submit(th, x)  PROVE ToldInv'
  BY <1>1 DEF Submit
<1>2. ASSUME NEW th \in Threads, SubmitStep(th)  PROVE ToldInv'
  BY <1>2, SubmissionStep DEF Busy
<1>3. CASE Notify
  <2>1. modify = 0 /\ pipe.high = 0
    BY <1>3 DEF Notify
  <2>2. modify' = 1 /\ pipe' = [high |-> 1, event |-> TRUE]
    BY <1>3, <2>1 DEF Notify, Written
  <2>3. pc' = [pc EXCEPT ![App] = "lock"]
    BY <1>3 DEF Notify
  <2> QED  BY <2>2, <2>3
<1>4. CASE NotifyLock
  BY <1>4 DEF NotifyLock
<1>5. CASE NotifyRead
  <2>1. modify = 1 /\ pipe.high = 1
    BY <1>5 DEF NotifyRead
  <2>2. modify' = 0 /\ pipe'.high = 0 /\ ~pipe'.event
    <3> DEFINE more == pipe.high > 1
    <3>1. modify' = modify - 1 /\ pipe' = [high |-> pipe.high - 1, event |-> more]
      BY <1>5 DEF NotifyRead, Read, Told
    <3>2. more = FALSE
      BY <2>1
    <3> HIDE DEF more
    <3> QED  BY <2>1, <3>1, <3>2
  <2>3. pc' = [pc EXCEPT ![App] = "ready"]
    BY <1>5 DEF NotifyRead
  <2> QED  BY <2>2, <2>3
<1>6. CASE NotifySelf
  BY <1>6 DEF NotifySelf, Read, Written
<1>7. ASSUME UNCHANGED <<pc, pipe, modify>>  PROVE ToldInv'
  BY <1>7
<1>8. ASSUME NEW x \in Transfers, Cancel(x) \/ DeviceAnswers(x)  PROVE UNCHANGED <<pc, pipe, modify>>
  BY <1>8 DEF Cancel, DeviceAnswers
<1>9. ASSUME NEW i \in Ifaces, ClaimInterface(i) \/ ReleaseInterface(i)
      PROVE  UNCHANGED <<pc, pipe, modify>>
  BY <1>9 DEF ClaimInterface, ReleaseInterface
<1>10. ASSUME \/ Gate \/ Scan \/ Wait \/ WaitTimesOut \/ Expire
              \/ Handle \/ HandleAstray \/ Clear \/ AutoRelease \/ Callback \/ Return
       PROVE  UNCHANGED <<pc, pipe, modify>>
  BY <1>10 DEF Gate, Scan, Wait, WaitTimesOut, Expire, Handle, HandleAstray, Clear, AutoRelease,
               Callback, Return
<1> QED  BY <1>1, <1>2, <1>3, <1>4, <1>5, <1>6, <1>7, <1>8, <1>9, <1>10
            DEF Next, AppStep, AppCall, HandlerStep

\* The number of an interface is not None.
LEMMA InterfaceIsNumber == None \notin Ifaces /\ 0 \in Ifaces
BY WinUsbAssumption DEF None

\* What a poll reports belongs to the transfer that has it, and to no other
\* but one whose submission has not begun to prepare it.
LEMMA ReportedHasTransfer ==
  ASSUME ThreadsInv, TableInv, PolledInv, TypeOK, NEW f \in todo
  PROVE  /\ f \in pollfds /\ f # 1
         /\ poll_fd[f] \in Running /\ fd[poll_fd[f]] = f
         /\ poll_fd[f] \in Found(f) /\ Found(f) \subseteq {poll_fd[f]} \cup Renewed
<1>1. f \in pollfds /\ f # 1 /\ poll_fd[f] \in Running /\ fd[poll_fd[f]] = f
  BY DEF PolledInv
<1>2. ASSUME NEW y \in flying, fd[y] = f, y # poll_fd[f]  PROVE y \in Renewed
  <2>1. y \in Transfers /\ f \in Fds /\ f # NoFd /\ f \notin lost
    BY <1>1, <1>2 DEF TypeOK, PolledInv, Fds, NoFd
  <2>2. y \notin Running
    BY <1>2, <2>1 DEF TableInv
  <2>3. CASE at = y /\ ev \in {"release", "complete"}
    BY <1>2, <2>3 DEF PolledInv, HasTransfer
  <2>4. CASE InSubmission(y)
    <3>1. PICK th \in Threads : pc[th] \in Busy /\ cur[th] = y
      BY <2>4 DEF InSubmission
    <3>2. CASE th = App
      BY <1>2, <2>1, <3>1, <3>2 DEF PolledInv, Renewed, At
    <3>3. CASE th = Handler
      BY <1>2, <3>1, <3>3 DEF PolledInv, ThreadsInv, HasTransfer
    <3> QED  BY <3>2, <3>3 DEF Threads
  <2> QED  BY <1>2, <2>2, <2>3, <2>4 DEF Running
<1>3. poll_fd[f] \in flying
  BY <1>1 DEF Running
<1> QED  BY <1>1, <1>2, <1>3 DEF Found

LEMMA ThreadsKept ==
  ASSUME ThreadsInv, TypeOK, TableInv, PolledInv, Next
  PROVE  ThreadsInv'
<1> USE DEF At, Go, pollv, claimv, transv, subv, ctxv, evv, boundv
<1> /\ App \in Threads /\ Handler \in Threads /\ App # Handler /\ Threads = {App, Handler}
    /\ None \notin Transfers
  BY WinUsbAssumption DEF Threads
<1>1. ASSUME NEW x \in Transfers, NEW th \in Threads, Submit(th, x)  PROVE ThreadsInv'
  BY <1>1 DEF Submit, ThreadsInv, InSubmission, TypeOK, Busy, Telling, HasTransfer
<1>2. ASSUME NEW th \in Threads, SubmitStep(th)  PROVE ThreadsInv'
  <2>1. CASE ChooseControl(th)
    BY <2>1, ValidIsInterface DEF ChooseControl, ThreadsInv, InSubmission, TypeOK, Busy, Telling, HasTransfer
  <2>2. CASE ChooseEndpoint(th)
    <3>1. Target[cur[th]] # None
      BY <2>2, InterfaceIsNumber, WinUsbAssumption DEF ChooseEndpoint, ThreadsInv, Busy
    <3> QED
      BY <2>2, <3>1 DEF ChooseEndpoint, ThreadsInv, InSubmission, TypeOK, Busy, Telling, HasTransfer
  <2>3. CASE AutoClaim(th)
    <3>1. UNCHANGED <<cur, evv, flying, begun, control>>
      BY <2>3 DEF AutoClaim
    <3>2. PICK i \in Ifaces :
            \/ use' = [use EXCEPT ![th] = i] /\ Go(th, "create")
            \/ UNCHANGED use /\ Go(th, "refused")
      BY <2>3, ValidIsInterface, InterfaceIsNumber DEF AutoClaim
    <3>3. i # None /\ At(th, "auto")
      BY <2>3, InterfaceIsNumber DEF AutoClaim
    <3> QED  BY <3>1, <3>2, <3>3 DEF ThreadsInv, InSubmission, TypeOK, Busy, Telling, HasTransfer
  <2>4. CASE CreateFd(th)
    BY <2>4 DEF CreateFd, ThreadsInv, InSubmission, TypeOK, Busy, Telling, HasTransfer
  <2>5. CASE Start(th)
    BY <2>5 DEF Start, ThreadsInv, InSubmission, TypeOK, Busy, Telling, HasTransfer
  <2>6. CASE StartFails(th)
    BY <2>6 DEF StartFails, ThreadsInv, InSubmission, TypeOK, Busy, Telling, HasTransfer
  <2>7. CASE StartLeaks(th)
    BY <2>7 DEF StartLeaks, ThreadsInv, InSubmission, TypeOK, Busy, Telling, HasTransfer
  <2>8. CASE Refused(th)
    BY <2>8 DEF Refused, ThreadsInv, InSubmission, TypeOK, Busy, Telling, HasTransfer
  <2> QED  BY <1>2, <2>1, <2>2, <2>3, <2>4, <2>5, <2>6, <2>7, <2>8 DEF SubmitStep
<1>3. CASE Notify \/ NotifyLock \/ NotifyRead
  BY <1>3 DEF Notify, NotifyLock, NotifyRead, ThreadsInv, InSubmission, TypeOK, Busy, Telling, HasTransfer
<1>4. CASE NotifySelf
  BY <1>4 DEF NotifySelf, ThreadsInv, InSubmission, TypeOK, Busy, Telling, HasTransfer
<1>5. ASSUME UNCHANGED <<subv, ev, at, begun, control, flying>>  PROVE ThreadsInv'
  BY <1>5 DEF ThreadsInv, InSubmission
<1>6. ASSUME NEW x \in Transfers, Cancel(x) \/ DeviceAnswers(x)  PROVE ThreadsInv'
  BY <1>5, <1>6 DEF Cancel, DeviceAnswers
<1>7. ASSUME NEW i \in Ifaces, ClaimInterface(i) \/ ReleaseInterface(i)
      PROVE  ThreadsInv'
  BY <1>5, <1>7 DEF ClaimInterface, ReleaseInterface
<1>8. ASSUME UNCHANGED <<subv, begun, control, flying>>, ev \notin HasTransfer,
             ev' \in {"gate", "scan", "wait", "expire", "handle", "astray"}
      PROVE  ThreadsInv'
  BY <1>8 DEF ThreadsInv, InSubmission, HasTransfer
<1>9. CASE Gate \/ Scan \/ Wait \/ WaitTimesOut \/ Expire \/ HandleAstray
  BY <1>8, <1>9 DEF Gate, Scan, Wait, WaitTimesOut, Expire, HandleAstray, Leave, HasTransfer
<1>10. CASE Handle
  <2>1. CASE todo = {} /\ Leave /\ UNCHANGED <<pollfds, at>>
    BY <1>8, <1>10, <2>1 DEF Handle, Leave, HasTransfer
  <2>2. ASSUME NEW f \in todo, at' = poll_fd[f], ev' = "clear"
        PROVE  ThreadsInv'
    <3>1. at' \in flying /\ ~InSubmission(at')
      BY <2>2, ReportedHasTransfer DEF Running
    <3> QED
      BY <1>10, <2>2, <3>1 DEF Handle, ThreadsInv, InSubmission, Busy, HasTransfer
  <2> QED  BY <1>10, <2>1, <2>2 DEF Handle
<1>11. CASE Clear
  BY <1>11 DEF Clear, ThreadsInv, InSubmission, HasTransfer
<1>12. CASE AutoRelease
  BY <1>12 DEF AutoRelease, ThreadsInv, InSubmission, HasTransfer
<1>13. CASE Callback
  BY <1>13 DEF Callback, ThreadsInv, InSubmission, HasTransfer, Busy, Telling
<1>14. CASE Return
  BY <1>14 DEF Return, ThreadsInv, InSubmission, HasTransfer, Busy
<1> QED  BY <1>1, <1>2, <1>3, <1>4, <1>6, <1>7, <1>9, <1>10, <1>11, <1>12, <1>13, <1>14
            DEF Next, AppStep, AppCall, HandlerStep

\* Where a step leaves the transfers
LEMMA RunningSame ==
  ASSUME UNCHANGED flying,
         \A th \in Threads : /\ pc[th] \in Busy <=> pc'[th] \in Busy
                             /\ pc[th] \in Busy => cur'[th] = cur[th],
         UNCHANGED <<ev, at>> \/ {ev, ev'} \cap {"release", "complete"} = {}
  PROVE  Running' = Running
BY DEF Running, InSubmission

LEMMA StartingSame ==
  ASSUME UNCHANGED flying,
         \A th \in Threads : /\ pc[th] = "start" <=> pc'[th] = "start"
                             /\ pc[th] = "start" => cur'[th] = cur[th]
  PROVE  Starting' = Starting
BY DEF Starting

\* A submission
LEMMA SubmissionBegins ==
  ASSUME ThreadsInv, TypeOK, NEW x \in Transfers, NEW th \in Threads, Submit(th, x)
  PROVE  Running' = Running /\ Starting' = Starting
<1> App # Handler /\ App \in Threads /\ Handler \in Threads
  BY WinUsbAssumption DEF Threads
<1>1. /\ x \notin flying /\ flying' = flying \cup {x} /\ UNCHANGED <<ev, at>>
      /\ pc[th] = "ready" /\ pc' = [pc EXCEPT ![th] = "choose"] /\ cur' = [cur EXCEPT ![th] = x]
  BY DEF Submit, At, Go, evv
<1>2. /\ \A t \in Threads \ {th} : pc'[t] = pc[t] /\ cur'[t] = cur[t]
      /\ pc'[th] = "choose" /\ cur'[th] = x
  BY <1>1 DEF ThreadsInv, TypeOK
<1>3. Starting' = Starting
  BY <1>1, <1>2 DEF Starting, ThreadsInv, Busy
<1>4. InSubmission(x)' /\ \A y \in flying : InSubmission(y)' <=> InSubmission(y)
  BY <1>1, <1>2 DEF InSubmission, Busy
<1>5. Running' = Running
  BY <1>1, <1>4 DEF Running
<1> QED  BY <1>3, <1>5

\* Where a transfer that a thread submits is, from one step to the next
LEMMA SubmissionGoesOn ==
  ASSUME ThreadsInv, TypeOK, NEW th \in Threads, pc[th] \in Busy, NEW l, Go(th, l),
         UNCHANGED <<ev, at>>
  PROVE  /\ cur[th] \in flying \ Running
         /\ pc[th] # "start" => cur[th] \notin Starting
         /\ UNCHANGED <<flying, cur>> /\ l \in Busy => Running' = Running
         /\ UNCHANGED <<flying, cur>> /\ l = "notify" => Running' = Running \cup {cur[th]}
         /\ UNCHANGED <<flying, cur>> /\ l = "start" => Starting' = Starting \cup {cur[th]}
         /\ UNCHANGED <<flying, cur>> /\ l # "start" => Starting' = Starting \ {cur[th]}
         /\ flying' = flying \ {cur[th]} /\ cur' = [cur EXCEPT ![th] = None] /\ l = "ready"
              => Running' = Running /\ Starting' = Starting \ {cur[th]}
<1> App # Handler /\ App \in Threads /\ Handler \in Threads /\ Threads = {App, Handler}
  BY WinUsbAssumption DEF Threads
<1> DEFINE x == cur[th]
<1>1. x \in flying /\ InSubmission(x)
  BY DEF ThreadsInv, InSubmission
<1>2. pc'[th] = l /\ \A t \in Threads \ {th} : pc'[t] = pc[t]
  BY DEF Go, ThreadsInv
<1>3. \A t \in Threads \ {th} : pc[t] \in Busy => cur[t] # x
  BY DEF ThreadsInv
<1>4. ASSUME NEW y \in flying \ {x}, UNCHANGED cur \/ cur' = [cur EXCEPT ![th] = None]
      PROVE  /\ InSubmission(y)' <=> InSubmission(y)
             /\ \A t \in Threads : pc'[t] = "start" /\ cur'[t] = y <=> pc[t] = "start" /\ cur[t] = y
  <2>1. y # None
    BY WinUsbAssumption DEF TypeOK
  <2> QED  BY <1>2, <1>4, <2>1 DEF InSubmission, TypeOK, ThreadsInv
<1>5. x \notin Running /\ (pc[th] # "start" => x \notin Starting)
  BY <1>1, <1>3 DEF Running, Starting, Busy
<1>6. ASSUME UNCHANGED <<flying, cur>>, l \in Busy  PROVE Running' = Running
  BY <1>1, <1>2, <1>4, <1>6 DEF Running, InSubmission
<1>7. ASSUME UNCHANGED <<flying, cur>>, l = "notify"  PROVE Running' = Running \cup {x}
  <2>1. ~InSubmission(x)'
    BY <1>2, <1>3, <1>7 DEF InSubmission, Busy
  <2>2. ~(at = x /\ ev \in {"release", "complete"})
    BY <1>1 DEF ThreadsInv
  <2> QED  BY <1>1, <1>4, <1>7, <2>1, <2>2 DEF Running
<1>8. ASSUME UNCHANGED <<flying, cur>>, l = "start"  PROVE Starting' = Starting \cup {x}
  BY <1>1, <1>2, <1>4, <1>8 DEF Starting
<1>9. ASSUME UNCHANGED <<flying, cur>>, l # "start"  PROVE Starting' = Starting \ {x}
  BY <1>1, <1>2, <1>3, <1>4, <1>9 DEF Starting, Busy
<1>10. ASSUME flying' = flying \ {x}, cur' = [cur EXCEPT ![th] = None], l = "ready"
       PROVE  Running' = Running /\ Starting' = Starting \ {x}
  <2>1. Starting' = Starting \ {x}
    BY <1>4, <1>10 DEF Starting
  <2>2. Running' = Running
    BY <1>1, <1>4, <1>10 DEF Running
  <2> QED  BY <2>1, <2>2
<1> QED  BY <1>1, <1>5, <1>6, <1>7, <1>8, <1>9, <1>10

\* The entries, in each step of a submission
LEMMA TableSubmission ==
  ASSUME ThreadsInv, TypeOK, TableInv, NEW th \in Threads, SubmitStep(th)
  PROVE  TableInv'
<1> DEFINE x == cur[th]
<1> USE DEF At, pollv, claimv, transv, subv, ctxv, evv, boundv
<1>0. /\ pc[th] \in Busy /\ x \in flying \ Running /\ x \in Transfers
      /\ Pipe \notin Transfers /\ Free \notin Transfers /\ Pipe # Free
  BY SubmissionStep, SubmissionGoesOn, PollAssumption DEF TypeOK, evv
<1>1. ASSUME UNCHANGED <<poll_fd, lost, flying, cur, ev, at>>, pc[th] # "start",
             \A y \in Transfers \ {x} : fd'[y] = fd[y],
             NEW l \in Busy \ {"start"}, Go(th, l)
      PROVE  TableInv'
  <2>1. Running' = Running /\ Starting' = Starting
    BY <1>0, <1>1, SubmissionGoesOn
  <2>2. Running \subseteq Transfers \ {x}
    BY <1>0 DEF Running, TypeOK
  <2> QED  BY <1>1, <2>1, <2>2 DEF TableInv
<1>2. CASE ChooseControl(th) \/ ChooseEndpoint(th)
  BY <1>0, <1>1, <1>2 DEF ChooseControl, ChooseEndpoint, Busy, TypeOK
<1>3. CASE AutoClaim(th)
  BY <1>1, <1>3 DEF AutoClaim, Busy
<1>4. CASE CreateFd(th)
  <2>1. CASE UNCHANGED poll_fd /\ Go(th, "refused")
    BY <1>1, <1>4, <2>1 DEF CreateFd, Busy
  <2>2. CASE Created(x) /\ Go(th, "start")
    <3>1. PICK f \in Fds : poll_fd[f] = Free /\ poll_fd' = [poll_fd EXCEPT ![f] = x]
      BY <2>2, CreatedEntry
    <3>2. /\ Running' = Running /\ Starting' = Starting \cup {x} /\ x \notin Starting
          /\ UNCHANGED <<fd, lost>>
      BY <1>0, <1>4, <2>2, SubmissionGoesOn DEF CreateFd, Busy
    <3>3. f \notin lost /\ f # 1
      BY <1>0, <3>1 DEF TableInv
    <3>4. poll_fd'[f] = x /\ \A g \in Fds \ {f} : poll_fd'[g] = poll_fd[g]
      BY <3>1 DEF TypeOK, PollTypeOK
    <3>5. \A g \in Fds \ lost : poll_fd[g] # x
      BY <1>0, <3>2 DEF TableInv
    <3>6. \A y \in Running \cup Starting : y # Free
      BY <1>0 DEF Running, Starting, TypeOK
    <3> QED  BY <1>0, <3>1, <3>2, <3>3, <3>4, <3>5, <3>6 DEF TableInv
  <2> QED  BY <1>4, <2>1, <2>2 DEF CreateFd
<1>5. CASE Start(th) \/ StartFails(th) \/ StartLeaks(th)
  <2> DEFINE f == Entry(x)
  <2>1. /\ f \in Fds \ lost /\ poll_fd[f] = x /\ \A g \in Fds \ lost : poll_fd[g] = x => g = f
        /\ f # 1
    BY <1>0, <1>5, EntryIsTheOne DEF Start, StartFails, StartLeaks, TableInv
  <2> HIDE DEF f
  <2>2. CASE Start(th)
    <3>1. Running' = Running \cup {x} /\ Starting' = Starting \ {x}
      BY <1>0, <2>2, SubmissionGoesOn DEF Start
    <3>2. UNCHANGED <<poll_fd, lost>> /\ fd'[x] = f /\ \A y \in Transfers \ {x} : fd'[y] = fd[y]
      BY <1>0, <2>2 DEF Start, TypeOK, f
    <3>3. Running \subseteq Transfers \ {x}
      BY <1>0 DEF Running, TypeOK
    <3> QED  BY <2>1, <3>1, <3>2, <3>3 DEF TableInv
  <2>3. CASE StartFails(th)
    <3>1. Running' = Running /\ Starting' = Starting \ {x}
      BY <1>0, <2>3, SubmissionGoesOn DEF StartFails, Busy
    <3>2. UNCHANGED <<lost, fd>> /\ poll_fd'[f] = Free /\ \A g \in Fds \ {f} : poll_fd'[g] = poll_fd[g]
      BY <2>1, <2>3 DEF StartFails, DropEntry, Freed, TypeOK, PollTypeOK, f, Fds, NoFd
    <3> QED  BY <1>0, <2>1, <3>1, <3>2 DEF TableInv
  <2>4. CASE StartLeaks(th)
    <3>1. Running' = Running /\ Starting' = Starting \ {x}
      BY <1>0, <2>4, SubmissionGoesOn DEF StartLeaks, Busy
    <3>2. UNCHANGED poll_fd /\ lost' = lost \cup {f} /\ \A y \in Transfers \ {x} : fd'[y] = fd[y]
      BY <1>0, <2>4 DEF StartLeaks, TypeOK, f
    <3>3. Running \subseteq Transfers \ {x}
      BY <1>0 DEF Running, TypeOK
    <3> QED  BY <1>0, <2>1, <3>1, <3>2, <3>3 DEF TableInv
  <2> QED  BY <1>5, <2>2, <2>3, <2>4
<1>6. CASE Refused(th)
  <2>1. Running' = Running /\ Starting' = Starting \ {x} /\ x \notin Starting
    BY <1>0, <1>6, SubmissionGoesOn DEF Refused
  <2> QED  BY <1>6, <2>1 DEF Refused, TableInv
<1> QED  BY <1>2, <1>3, <1>4, <1>5, <1>6 DEF SubmitStep

LEMMA TableKept ==
  ASSUME ThreadsInv, TypeOK, TableInv, PolledInv, Next
  PROVE  TableInv'
<1> USE DEF At, Go, pollv, claimv, transv, subv, ctxv, evv, boundv
<1> /\ App \in Threads /\ Handler \in Threads /\ App # Handler /\ Threads = {App, Handler}
  BY WinUsbAssumption DEF Threads
<1>1. ASSUME UNCHANGED <<poll_fd, fd, lost>>, Running' = Running, Starting' = Starting
      PROVE  TableInv'
  BY <1>1 DEF TableInv
<1>2. ASSUME NEW x \in Transfers, NEW th \in Threads, Submit(th, x)  PROVE TableInv'
  BY <1>1, <1>2, SubmissionBegins DEF Submit
<1>3. ASSUME NEW th \in Threads, SubmitStep(th)  PROVE TableInv'
  BY <1>3, TableSubmission
<1>4. CASE Notify \/ NotifyLock \/ NotifyRead \/ NotifySelf
  <2>1. /\ UNCHANGED <<poll_fd, fd, lost, flying, ev, at>>
        /\ \A th \in Threads : /\ pc[th] \in Busy <=> pc'[th] \in Busy
                               /\ pc[th] \in Busy => cur'[th] = cur[th]
                               /\ pc[th] = "start" <=> pc'[th] = "start"
    BY <1>4 DEF Notify, NotifyLock, NotifyRead, NotifySelf, ThreadsInv, TypeOK, Busy
  <2>2. \A th \in Threads : pc[th] = "start" => cur'[th] = cur[th]
    BY <2>1 DEF Busy
  <2> QED  BY <1>1, <2>1, <2>2, RunningSame, StartingSame
<1>5. ASSUME UNCHANGED <<subv, flying>>,
             UNCHANGED <<ev, at>> \/ {ev, ev'} \cap {"release", "complete"} = {}
      PROVE  Running' = Running /\ Starting' = Starting
  BY <1>5, RunningSame, StartingSame
<1>6. ASSUME NEW x \in Transfers, Cancel(x) \/ DeviceAnswers(x)  PROVE TableInv'
  BY <1>1, <1>5, <1>6 DEF Cancel, DeviceAnswers
<1>7. ASSUME NEW i \in Ifaces, ClaimInterface(i) \/ ReleaseInterface(i)  PROVE TableInv'
  BY <1>1, <1>5, <1>7 DEF ClaimInterface, ReleaseInterface
<1>8. CASE Gate \/ Scan \/ Wait \/ WaitTimesOut \/ Expire \/ Handle \/ HandleAstray
  BY <1>1, <1>5, <1>8 DEF Gate, Scan, Wait, WaitTimesOut, Expire, Handle, HandleAstray, Leave
<1>9. CASE Clear
  <2>1. at \in Running
    BY <1>9 DEF Clear, ThreadsInv, Running
  <2>2. fd[at] \in Fds \ lost /\ poll_fd[fd[at]] = at /\ at \in Transfers
    BY <2>1 DEF TableInv, TypeOK, Running
  <2>3. /\ poll_fd'[fd[at]] = Free /\ \A g \in Fds \ {fd[at]} : poll_fd'[g] = poll_fd[g]
        /\ UNCHANGED <<fd, lost, subv, flying, at>> /\ ev' = "release"
    BY <1>9, <2>2 DEF Clear, Freed, TypeOK, PollTypeOK, Fds, NoFd
  <2>4. Running' = Running \ {at} /\ Starting' = Starting
    BY <1>9, <2>3 DEF Clear, Running, Starting, InSubmission
  <2>5. at \notin Starting
    BY <1>9 DEF Clear, Starting, ThreadsInv, InSubmission, Busy
  <2>6. Pipe # Free /\ Free \notin Transfers /\ Pipe \notin Transfers
    BY PollAssumption
  <2> QED  BY <2>2, <2>3, <2>4, <2>5, <2>6 DEF TableInv
<1>10. CASE AutoRelease
  <2>1. Running' = Running /\ Starting' = Starting
    BY <1>10 DEF AutoRelease, Running, Starting, InSubmission
  <2> QED  BY <1>1, <1>10, <2>1 DEF AutoRelease
<1>11. CASE Callback
  <2>1. ~InSubmission(at) /\ \A th \in Threads : pc[th] = "start" => cur[th] # at
    BY <1>11 DEF Callback, ThreadsInv, InSubmission, Busy
  <2>2. Running' = Running /\ Starting' = Starting
    BY <1>11, <2>1 DEF Callback, Running, Starting, InSubmission
  <2> QED  BY <1>1, <1>11, <2>2 DEF Callback
<1>12. CASE Return
  <2>1. Running' = Running /\ Starting' = Starting
    BY <1>12 DEF Return, Running, Starting, InSubmission
  <2> QED  BY <1>1, <1>12, <2>1 DEF Return
<1> QED  BY <1>2, <1>3, <1>4, <1>6, <1>7, <1>8, <1>9, <1>10, <1>11, <1>12
            DEF Next, AppStep, AppCall, HandlerStep

\* What is polled, in each step of a submission
LEMMA PolledSubmission ==
  ASSUME ThreadsInv, TypeOK, TableInv, PolledInv, NEW th \in Threads, SubmitStep(th)
  PROVE  PolledInv'
<1> DEFINE x == cur[th]
<1> USE DEF At, pollv, claimv, transv, subv, ctxv, evv, boundv
<1> /\ App \in Threads /\ Handler \in Threads /\ App # Handler /\ Threads = {App, Handler}
  BY WinUsbAssumption DEF Threads
<1>0. /\ pc[th] \in Busy /\ x \in flying \ Running /\ x \in Transfers /\ UNCHANGED evv
      /\ Pipe \notin Transfers /\ Free \notin Transfers /\ Pipe # Free
  BY SubmissionStep, SubmissionGoesOn, PollAssumption DEF TypeOK
<1>1. /\ Running \subseteq Transfers \ {x} /\ todo \subseteq Fds /\ NoFd \notin Fds
      /\ pc[App] \in Busy => cur[App] \in Transfers /\ (th = Handler => cur[App] # x)
      /\ ev \in HasTransfer => at \in Transfers
      /\ ev = "clear" => at # x
  BY <1>0 DEF Running, TypeOK, PolledInv, ThreadsInv, Fds, NoFd, InSubmission
<1>2. ASSUME UNCHANGED <<pollfds, lost, flying, cur>>,
             \A f \in Fds : poll_fd[f] # Free => poll_fd'[f] = poll_fd[f],
             \A y \in Transfers \ {x} : fd'[y] = fd[y],
             fd'[x] = NoFd \/ (pc[th] # "choose" /\ fd'[x] = fd[x]),
             NEW l \in Busy, Go(th, l)
      PROVE  PolledInv'
  <2>1. Running' = Running
    BY <1>0, <1>2, SubmissionGoesOn
  <2>2. pc'[App] \in Busy => pc[App] \in Busy /\ (th = Handler => pc'[App] = pc[App])
    BY <1>0, <1>2 DEF Go, ThreadsInv
  <2>3. \A f \in pollfds \ {1} : poll_fd'[f] = poll_fd[f] /\ fd'[poll_fd[f]] = fd[poll_fd[f]]
    BY <1>0, <1>1, <1>2 DEF PolledInv, TypeOK
  <2>4. pc'[App] \in Busy \ {"choose"} => fd'[cur'[App]] \in {NoFd} \cup lost
    BY <1>1, <1>2, <2>2 DEF PolledInv
  <2>5. ev \in HasTransfer => fd'[at] \notin todo
    BY <1>1, <1>2 DEF PolledInv
  <2> QED  BY <1>0, <1>2, <2>1, <2>3, <2>4, <2>5 DEF PolledInv
<1>3. CASE ChooseControl(th) \/ ChooseEndpoint(th)
  BY <1>0, <1>2, <1>3 DEF ChooseControl, ChooseEndpoint, Busy, TypeOK
<1>4. CASE AutoClaim(th)
  BY <1>2, <1>4 DEF AutoClaim, Busy
<1>5. CASE CreateFd(th)
  <2>1. \A f \in Fds : poll_fd[f] # Free => poll_fd'[f] = poll_fd[f]
    BY <1>5, CreatedEntry DEF CreateFd, TypeOK, PollTypeOK
  <2> QED  BY <1>2, <1>5, <2>1 DEF CreateFd, Busy
<1>6. CASE Start(th) \/ StartFails(th) \/ StartLeaks(th)
  <2> DEFINE f == Entry(x)
  <2>1. f \in Fds \ lost /\ poll_fd[f] = x /\ f # 1
    BY <1>0, <1>6, EntryIsTheOne DEF Start, StartFails, StartLeaks, TableInv
  <2>2. f \notin pollfds /\ f \notin todo
    BY <1>0, <2>1 DEF PolledInv
  <2> HIDE DEF f
  <2>3. CASE Start(th)
    <3>1. Running' = Running \cup {x}
      BY <1>0, <2>3, SubmissionGoesOn DEF Start
    <3>2. /\ UNCHANGED <<poll_fd, lost, cur>> /\ fd'[x] = f /\ \A y \in Transfers \ {x} : fd'[y] = fd[y]
          /\ pollfds' = pollfds \cup {f}
      BY <1>0, <2>3 DEF Start, TypeOK, f, Polled
    <3>3. pc'[App] \in Busy => pc'[App] = pc[App] /\ th = Handler
      BY <1>0, <2>3 DEF Start, Go, ThreadsInv, Busy
    <3>4. pc'[App] \in Busy \ {"choose"} => fd'[cur'[App]] \in {NoFd} \cup lost
      BY <1>1, <3>2, <3>3 DEF PolledInv
    <3>5. ev \in HasTransfer => fd'[at] \notin todo
      BY <1>1, <2>2, <3>2 DEF PolledInv
    <3>6. \A g \in pollfds' \ {1} :
            /\ poll_fd[g] \in Running' /\ fd'[poll_fd[g]] = g
            /\ ~(ev = "clear" /\ at = poll_fd[g])
      BY <1>1, <2>1, <3>1, <3>2 DEF PolledInv
    <3> QED  BY <1>0, <2>1, <3>2, <3>4, <3>5, <3>6 DEF PolledInv
  <2>4. CASE StartFails(th)
    <3>1. Running' = Running
      BY <1>0, <2>4, SubmissionGoesOn DEF StartFails, Busy
    <3>2. /\ UNCHANGED <<lost, fd, cur, pollfds>>
          /\ \A g \in Fds \ {f} : poll_fd'[g] = poll_fd[g]
      BY <2>1, <2>4 DEF StartFails, DropEntry, Freed, TypeOK, PollTypeOK, f, Fds, NoFd
    <3>3. /\ pollfds \subseteq Fds \ {f}
          /\ pc'[App] \in Busy \ {"choose"} => pc[App] \in Busy \ {"choose"}
      BY <1>0, <2>2, <2>4 DEF TypeOK, StartFails, Go, ThreadsInv
    <3> QED  BY <1>0, <3>1, <3>2, <3>3 DEF PolledInv
  <2>5. CASE StartLeaks(th)
    <3>1. Running' = Running
      BY <1>0, <2>5, SubmissionGoesOn DEF StartLeaks, Busy
    <3>2. /\ UNCHANGED <<poll_fd, cur, pollfds>> /\ lost' = lost \cup {f}
          /\ fd'[x] \in {fd[x], f} /\ \A y \in Transfers \ {x} : fd'[y] = fd[y]
      BY <1>0, <2>5 DEF StartLeaks, TypeOK, f
    <3>3. pc'[App] \in Busy \ {"choose"} => pc[App] \in Busy \ {"choose"}
      BY <1>0, <2>5 DEF StartLeaks, Go, ThreadsInv, Busy
    <3>4. pc'[App] \in Busy \ {"choose"} => fd'[cur'[App]] \in {NoFd} \cup lost'
      BY <1>1, <3>2, <3>3 DEF PolledInv
    <3>5. ev \in HasTransfer => fd'[at] \notin todo
      BY <1>1, <2>2, <3>2 DEF PolledInv
    <3>6. \A g \in pollfds \ {1} : fd'[poll_fd[g]] = g
      BY <1>1, <3>2 DEF PolledInv
    <3> QED  BY <1>0, <2>2, <3>1, <3>2, <3>4, <3>5, <3>6 DEF PolledInv
  <2> QED  BY <1>6, <2>3, <2>4, <2>5
<1>7. CASE Refused(th)
  <2>1. Running' = Running
    BY <1>0, <1>7, SubmissionGoesOn DEF Refused
  <2>2. /\ UNCHANGED <<poll_fd, fd, lost, pollfds>>
        /\ pc'[App] \in Busy => pc'[App] = pc[App] /\ cur'[App] = cur[App]
    BY <1>7 DEF Refused, Go, ThreadsInv, TypeOK, Busy
  <2> QED  BY <1>0, <2>1, <2>2 DEF PolledInv
<1> QED  BY <1>3, <1>4, <1>5, <1>6, <1>7 DEF SubmitStep

LEMMA PolledKept ==
  ASSUME ThreadsInv, TypeOK, TableInv, PolledInv, Next
  PROVE  PolledInv'
<1> USE DEF At, Go, pollv, claimv, transv, subv, ctxv, evv, boundv
<1> /\ App \in Threads /\ Handler \in Threads /\ App # Handler /\ Threads = {App, Handler}
  BY WinUsbAssumption DEF Threads
<1>1. ASSUME UNCHANGED <<poll_fd, fd, lost, pollfds, evv>>, Running' = Running,
             pc'[App] \in Busy \ {"choose"} => pc'[App] = pc[App] /\ cur'[App] = cur[App]
      PROVE  PolledInv'
  BY <1>1 DEF PolledInv
<1>2. ASSUME NEW x \in Transfers, NEW th \in Threads, Submit(th, x)  PROVE PolledInv'
  <2>1. UNCHANGED <<poll_fd, fd, lost, pollfds, evv>> /\ Running' = Running
    BY <1>2, SubmissionBegins DEF Submit
  <2>2. CASE th = Handler
    BY <1>1, <1>2, <2>1, <2>2 DEF Submit, ThreadsInv, TypeOK
  <2>3. CASE th = App
    <3>1. pc'[App] = "choose"
      BY <1>2, <2>3 DEF Submit, ThreadsInv
    <3> QED  BY <1>1, <2>1, <3>1
  <2> QED  BY <2>2, <2>3
<1>3. ASSUME NEW th \in Threads, SubmitStep(th)  PROVE PolledInv'
  BY <1>3, PolledSubmission
<1>4. CASE Notify \/ NotifyLock \/ NotifyRead \/ NotifySelf
  <2>1. /\ UNCHANGED <<poll_fd, fd, lost, pollfds, evv, flying>>
        /\ \A th \in Threads : /\ pc[th] \in Busy <=> pc'[th] \in Busy
                               /\ pc[th] \in Busy => pc'[th] = pc[th] /\ cur'[th] = cur[th]
    BY <1>4 DEF Notify, NotifyLock, NotifyRead, NotifySelf, ThreadsInv, TypeOK, Busy
  <2> QED  BY <1>1, <2>1, RunningSame
<1>5. ASSUME UNCHANGED <<subv, flying>>,
             UNCHANGED <<ev, at>> \/ {ev, ev'} \cap {"release", "complete"} = {}
      PROVE  Running' = Running
  BY <1>5, RunningSame
<1>6. ASSUME NEW x \in Transfers, Cancel(x) \/ DeviceAnswers(x)  PROVE PolledInv'
  BY <1>1, <1>5, <1>6 DEF Cancel, DeviceAnswers
<1>7. ASSUME NEW i \in Ifaces, ClaimInterface(i) \/ ReleaseInterface(i)  PROVE PolledInv'
  BY <1>1, <1>5, <1>7 DEF ClaimInterface, ReleaseInterface
<1>8. CASE Gate \/ Scan \/ Wait \/ WaitTimesOut \/ Expire \/ HandleAstray
  <2>1. /\ UNCHANGED <<poll_fd, fd, lost, pollfds, pc, cur>> /\ Running' = Running
        /\ ev' \notin HasTransfer
    BY <1>5, <1>8 DEF Gate, Scan, Wait, WaitTimesOut, Expire, HandleAstray, Leave, HasTransfer
  <2>2. ev' \in {"scan", "wait"} => polled' \subseteq pollfds
    BY <1>8 DEF Gate, Scan, Wait, WaitTimesOut, Expire, HandleAstray, Leave, PolledInv
  <2>3. todo' \subseteq pollfds \ {1} /\ (ev' \in {"gate", "scan", "wait", "expire"} => todo' = {})
    BY <1>8, PipeEntry
       DEF Gate, Scan, Wait, WaitTimesOut, Expire, HandleAstray, Leave, PolledInv, Triggered
  <2> QED  BY <2>1, <2>2, <2>3 DEF PolledInv, HasTransfer
<1>9. CASE Handle
  <2>1. UNCHANGED <<poll_fd, fd, lost, pc, cur>> /\ Running' = Running
    BY <1>5, <1>9 DEF Handle, Leave
  <2>2. CASE todo = {} /\ Leave /\ UNCHANGED <<pollfds, at>>
    BY <2>1, <2>2 DEF PolledInv, Leave, HasTransfer
  <2>3. ASSUME NEW f \in todo, at' = poll_fd[f], pollfds' = Unpolled(f), todo' = todo \ {f},
               ev' = "clear"
        PROVE  PolledInv'
    <3>1. f # 1 /\ fd[at'] = f
      BY <2>3, ReportedHasTransfer
    <3> QED  BY <2>1, <2>3, <3>1 DEF PolledInv, Unpolled, HasTransfer
  <2> QED  BY <1>9, <2>2, <2>3 DEF Handle
<1>10. CASE Clear
  <2>1. at \in Running
    BY <1>10 DEF Clear, ThreadsInv, Running
  <2>2. fd[at] \in Fds \ lost /\ poll_fd[fd[at]] = at /\ at \in Transfers
    BY <2>1 DEF TableInv, TypeOK, Running
  <2>3. /\ \A g \in Fds \ {fd[at]} : poll_fd'[g] = poll_fd[g]
        /\ UNCHANGED <<fd, lost, pollfds, subv, flying, at, polled, todo>> /\ ev' = "release"
    BY <1>10, <2>2 DEF Clear, Freed, TypeOK, PollTypeOK, Fds, NoFd
  <2>4. Running' = Running \ {at}
    BY <1>10, <2>3 DEF Clear, Running, InSubmission
  <2>5. \A g \in pollfds \ {1} : g \in Fds /\ poll_fd[g] # at /\ poll_fd'[g] = poll_fd[g]
    BY <1>10, <2>2, <2>3 DEF Clear, PolledInv, TypeOK
  <2>6. fd[at] \notin todo
    BY <1>10 DEF Clear, PolledInv, HasTransfer
  <2> QED  BY <2>3, <2>4, <2>5, <2>6 DEF PolledInv, HasTransfer
<1>11. CASE AutoRelease
  <2>1. Running' = Running
    BY <1>11 DEF AutoRelease, Running, InSubmission
  <2> QED  BY <1>11, <2>1 DEF AutoRelease, PolledInv, HasTransfer
<1>12. CASE Callback
  <2>1. Running' = Running
    BY <1>12 DEF Callback, Running, InSubmission, ThreadsInv
  <2> QED  BY <1>12, <2>1 DEF Callback, PolledInv, HasTransfer
<1>13. CASE Return
  <2>1. Running' = Running
    BY <1>13 DEF Return, Running, InSubmission
  <2> QED  BY <1>13, <2>1 DEF Return, PolledInv, HasTransfer
<1> QED  BY <1>2, <1>3, <1>4, <1>6, <1>7, <1>8, <1>9, <1>10, <1>11, <1>12, <1>13
            DEF Next, AppStep, AppCall, HandlerStep

\* The claims, counted
LEMMA UsersFinite ==
  ASSUME IsFiniteSet(flying), NEW i
  PROVE  IsFiniteSet(Users(i)) /\ Cardinality(Users(i)) \in Nat
<1>1. Users(i) \subseteq flying
  BY DEF Users
<1> QED  BY <1>1, FS_Subset, FS_CardinalityType

LEMMA MoreUsers ==
  ASSUME IsFiniteSet(flying), IsFiniteSet(flying'), NEW i, Users(i) \subseteq Users(i)'
  PROVE  Cardinality(Users(i)) <= Cardinality(Users(i)') /\ Cardinality(Users(i)') \in Nat
<1>1. Users(i)' \subseteq flying'
  BY DEF Users
<1> QED  BY <1>1, FS_Subset, FS_CardinalityType

\* What every step does to the users of an interface, but the three below
LEMMA UsersKept ==
  ASSUME ClaimInv, TypeOK, ThreadsInv, IsFiniteSet(flying'), kept \subseteq kept',
         \A i \in Ifaces \ kept' : /\ autoclaim_count'[i] = autoclaim_count[i]
                                  /\ Users(i) \subseteq Users(i)'
  PROVE  ClaimInv'
<1>1. ASSUME NEW i \in Ifaces \ kept'
      PROVE  autoclaim_count'[i] <= Cardinality(Users(i)')
  <2>1. i \in Ifaces \ kept /\ autoclaim_count[i] \in Nat /\ IsFiniteSet(flying)
    BY DEF TypeOK, ClaimInv
  <2>2. autoclaim_count[i] <= Cardinality(Users(i)) /\ Cardinality(Users(i)) \in Nat
    BY <2>1, UsersFinite DEF ClaimInv
  <2>3. Cardinality(Users(i)) <= Cardinality(Users(i)') /\ Cardinality(Users(i)') \in Nat
    BY <2>1, MoreUsers
  <2> QED  BY <2>1, <2>2, <2>3
<1>2. (\A i \in Ifaces \ kept : autoclaim_count[i] <= Cardinality(Users(i)))'
  BY <1>1
<1> QED  BY <1>2 DEF ClaimInv

\* The users, in each step of a submission
LEMMA ClaimSubmission ==
  ASSUME ThreadsInv, TypeOK, ClaimInv, NEW th \in Threads, SubmitStep(th)
  PROVE  ClaimInv'
<1> DEFINE x == cur[th]
<1> USE DEF At, pollv, claimv, transv, subv, ctxv, evv, boundv
<1>0. /\ pc[th] \in Busy /\ x \in flying /\ x \in Transfers /\ UNCHANGED <<ev, at, control>>
      /\ IsFiniteSet(flying) /\ InSubmission(x)
      /\ \A t \in Threads \ {th} : ~(pc[t] \in Busy /\ cur[t] = x)
      /\ use[th] \in Ifaces \cup {None}
  BY SubmissionStep DEF ThreadsInv, TypeOK, ClaimInv, InSubmission, Threads
<1>1. ASSUME NEW y \in Transfers \ {x},
             NEW l, Go(th, l), UNCHANGED cur \/ cur' = [cur EXCEPT ![th] = None]
      PROVE  /\ InSubmission(y)' <=> InSubmission(y)
             /\ \A t \in Threads : (pc[t] \in Busy /\ cur[t] = y) => /\ t # th /\ pc'[t] = pc[t]
                                                                    /\ cur'[t] = cur[t]
  <2>1. y # None
    BY WinUsbAssumption
  <2> QED  BY <1>1, <2>1 DEF InSubmission, Go, ThreadsInv, TypeOK
\* The other transfers stay where they are.
<1>2. ASSUME UNCHANGED <<control, ev, at>>, flying \ {x} \subseteq flying',
             NEW l, Go(th, l), UNCHANGED cur \/ cur' = [cur EXCEPT ![th] = None],
             \A t \in Threads \ {th} : use'[t] = use[t],
             \A y \in Transfers \ {x} : iface'[y] = iface[y],
             NEW i \in Ifaces
      PROVE  Users(i) \ {x} \subseteq Users(i)'
  <2>1. ASSUME NEW y \in Users(i), y # x  PROVE y \in Users(i)'
    <3>1. y \in Transfers \ {x} /\ y \in control' \cap flying'
      BY <1>2, <2>1 DEF Users, TypeOK
    <3>2. CASE \E t \in Threads : pc[t] \in Busy /\ cur[t] = y /\ use[t] = i
      BY <1>1, <1>2, <3>1, <3>2 DEF Users
    <3>3. CASE ~InSubmission(y) /\ iface[y] = i /\ ~(at = y /\ ev = "complete")
      BY <1>1, <1>2, <3>1, <3>3 DEF Users
    <3> QED  BY <2>1, <3>2, <3>3 DEF Users
  <2> QED  BY <2>1
<1>3. ASSUME NEW i \in Ifaces, x \in Users(i)  PROVE use[th] = i /\ x \in control
  BY <1>0, <1>3 DEF Users
<1>4. ASSUME UNCHANGED <<control, ev, at, flying, cur, kept, autoclaim_count>>,
             NEW l, Go(th, l),
             \A t \in Threads \ {th} : use'[t] = use[t],
             \A y \in Transfers \ {x} : iface'[y] = iface[y],
             x \in control /\ use[th] # None =>
                IF l \in Busy THEN use'[th] = use[th] ELSE iface'[x] = use[th]
      PROVE  ClaimInv'
  <2>1. ASSUME NEW i \in Ifaces, x \in Users(i)  PROVE x \in Users(i)'
    <3>1. use[th] = i /\ i # None /\ x \in control
      BY <1>3, <2>1, InterfaceIsNumber
    <3>2. pc'[th] = l /\ cur'[th] = x /\ \A t \in Threads \ {th} : pc'[t] = pc[t] /\ cur'[t] = cur[t]
      BY <1>4 DEF Go, ThreadsInv, TypeOK
    <3>3. CASE l \in Busy
      BY <1>0, <1>4, <3>1, <3>2, <3>3 DEF Users
    <3>4. CASE l \notin Busy
      <4>1. ~InSubmission(x)' /\ ~(at = x /\ ev = "complete")
        BY <1>0, <3>2, <3>4 DEF InSubmission, ThreadsInv
      <4> QED  BY <1>0, <1>4, <3>1, <3>4, <4>1 DEF Users
    <3> QED  BY <3>3, <3>4
  <2>2. \A i \in Ifaces : Users(i) \subseteq Users(i)'
    BY <1>2, <1>4, <2>1
  <2> QED  BY <1>0, <1>4, <2>2, UsersKept
<1>5. CASE ChooseControl(th) \/ ChooseEndpoint(th)
  <2>1. use[th] = None
    BY <1>5 DEF ChooseControl, ChooseEndpoint, ThreadsInv
  <2> QED  BY <1>4, <1>5, <2>1 DEF ChooseControl, ChooseEndpoint, TypeOK
<1>6. CASE CreateFd(th)
  BY <1>4, <1>6 DEF CreateFd, Busy
<1>7. CASE Start(th)
  <2>1. Go(th, "notify") /\ "notify" \notin Busy
    BY <1>7 DEF Start, Busy
  <2> QED  BY <1>0, <1>4, <1>7, <2>1 DEF Start, TypeOK
<1>8. CASE StartFails(th)
  BY <1>4, <1>8 DEF StartFails, Busy
<1>9. CASE StartLeaks(th)
  <2>1. x \notin control /\ \A y \in Transfers \ {x} : iface'[y] = iface[y]
    BY <1>9 DEF StartLeaks, TypeOK
  <2> QED  BY <1>4, <1>9, <2>1 DEF StartLeaks
<1>10. CASE Refused(th)
  <2>1. /\ UNCHANGED <<control, ev, at, iface, autoclaim_count>> /\ flying' = flying \ {x}
        /\ cur' = [cur EXCEPT ![th] = None] /\ kept \subseteq kept'
        /\ \A t \in Threads \ {th} : use'[t] = use[t]
        /\ x \in control /\ use[th] # None => use[th] \in kept'
    BY <1>10 DEF Refused, TypeOK
  <2>2. Go(th, "ready") /\ IsFiniteSet(flying')
    BY <1>0, <1>10, <2>1, FS_RemoveElement DEF Refused
  <2>3. \A i \in Ifaces \ kept' : Users(i) \subseteq Users(i)'
    BY <1>2, <1>3, <2>1, <2>2, InterfaceIsNumber
  <2> QED  BY <2>1, <2>2, <2>3, UsersKept
<1>11. CASE AutoClaim(th)
  <2>1. /\ UNCHANGED <<control, ev, at, flying, cur, iface, kept>> /\ x \in control
        /\ \A i \in Ifaces : x \notin Users(i)
    BY <1>3, <1>11, InterfaceIsNumber DEF AutoClaim, ThreadsInv
  <2>2. CASE UNCHANGED <<autoclaim_count, use>> /\ Go(th, "refused")
    BY <1>4, <2>1, <2>2 DEF Busy
  <2>3. ASSUME NEW j \in Ifaces, autoclaim_count' = Counted(j), use' = [use EXCEPT ![th] = j],
               Go(th, "create")
        PROVE  ClaimInv'
    <3>1. \A i \in Ifaces : Users(i) \subseteq Users(i)'
      BY <1>2, <2>1, <2>3
    <3>2. x \in Users(j)'
      <4>1. pc'[th] \in Busy /\ cur'[th] = x /\ use'[th] = j
        BY <2>1, <2>3 DEF Go, ThreadsInv, TypeOK, Busy
      <4> QED  BY <1>0, <2>1, <4>1 DEF Users
    <3>3. ASSUME NEW i \in Ifaces \ kept'
          PROVE  autoclaim_count'[i] <= Cardinality(Users(i)')
      <4>1. /\ autoclaim_count[i] \in Nat /\ autoclaim_count[i] <= Cardinality(Users(i))
            /\ IsFiniteSet(Users(i)) /\ Cardinality(Users(i)) \in Nat
        BY <1>0, <2>1, <3>3, UsersFinite DEF TypeOK, ClaimInv
      <4>2. IsFiniteSet(flying')
        BY <1>0, <2>1
      <4>3. Cardinality(Users(i)) <= Cardinality(Users(i)') /\ Cardinality(Users(i)') \in Nat
        BY <1>0, <3>1, <4>2, MoreUsers
      <4>4. CASE i = j
        <5>1. IsFiniteSet(Users(i)')
          <6>1. Users(i)' \subseteq flying'
            BY DEF Users
          <6> QED  BY <4>2, <6>1, FS_Subset
        <5>2. Cardinality(Users(i) \cup {x}) = Cardinality(Users(i)) + 1
          BY <2>1, <4>1, FS_AddElement
        <5>3. Cardinality(Users(i) \cup {x}) <= Cardinality(Users(i)')
          BY <3>1, <3>2, <4>4, <5>1, FS_Subset
        <5>4. autoclaim_count'[i] = autoclaim_count[i] + 1
          BY <2>3, <4>4 DEF Counted, TypeOK
        <5> QED  BY <4>1, <4>3, <5>2, <5>3, <5>4
      <4>5. CASE i # j
        <5>1. autoclaim_count'[i] = autoclaim_count[i]
          BY <2>3, <4>5 DEF Counted, TypeOK
        <5> QED  BY <4>1, <4>3, <5>1
      <4> QED  BY <4>4, <4>5
    <3>4. (\A i \in Ifaces \ kept : autoclaim_count[i] <= Cardinality(Users(i)))'
      BY <3>3
    <3> QED  BY <1>0, <2>1, <3>4 DEF ClaimInv
  <2> QED  BY <1>11, <2>2, <2>3, ValidIsInterface DEF AutoClaim
<1> QED  BY <1>5, <1>6, <1>7, <1>8, <1>9, <1>10, <1>11, SubmissionStep DEF SubmitStep

LEMMA ClaimKept ==
  ASSUME ThreadsInv, TypeOK, ClaimInv, Next
  PROVE  ClaimInv'
<1> USE DEF At, Go, pollv, claimv, transv, subv, ctxv, evv, boundv
<1> /\ App \in Threads /\ Handler \in Threads /\ App # Handler /\ Threads = {App, Handler}
    /\ IsFiniteSet(flying)
  BY WinUsbAssumption DEF Threads, ClaimInv
\* Not a submission, nor the end of a transfer
<1>1. ASSUME UNCHANGED <<control, flying, iface, autoclaim_count, kept>>,
             \A th \in Threads : /\ pc[th] \in Busy <=> pc'[th] \in Busy
                                 /\ pc[th] \in Busy => cur'[th] = cur[th] /\ use'[th] = use[th],
             ev' = "complete" => ev = "complete" /\ at' = at
      PROVE  ClaimInv'
  <2>1. \A x \in flying : InSubmission(x)' <=> InSubmission(x)
    BY <1>1 DEF InSubmission
  <2>2. \A i \in Ifaces : Users(i) \subseteq Users(i)'
    BY <1>1, <2>1 DEF Users
  <2> QED  BY <1>1, <2>2, UsersKept
<1>2. ASSUME NEW x \in Transfers, NEW th \in Threads, Submit(th, x)  PROVE ClaimInv'
  <2>1. /\ UNCHANGED <<control, iface, autoclaim_count, kept, use, ev, at>>
        /\ flying' = flying \cup {x} /\ x \notin flying
        /\ pc[th] = "ready" /\ \A t \in Threads \ {th} : pc'[t] = pc[t] /\ cur'[t] = cur[t]
        /\ cur'[th] = x
    BY <1>2 DEF Submit, ThreadsInv, TypeOK
  <2>2. \A y \in flying : InSubmission(y)' <=> InSubmission(y)
    BY <2>1 DEF InSubmission, Busy
  <2>3. \A i \in Ifaces : Users(i) \subseteq Users(i)'
    BY <2>1, <2>2 DEF Users, Busy
  <2>4. IsFiniteSet(flying')
    BY <2>1, FS_AddElement
  <2> QED  BY <2>1, <2>3, <2>4, UsersKept
<1>3. ASSUME NEW th \in Threads, SubmitStep(th)  PROVE ClaimInv'
  BY <1>3, ClaimSubmission
<1>4. CASE Notify \/ NotifyLock \/ NotifyRead \/ NotifySelf
  <2>1. /\ UNCHANGED <<control, flying, iface, autoclaim_count, kept, use, ev, at>>
        /\ \A th \in Threads : /\ pc[th] \in Busy <=> pc'[th] \in Busy
                               /\ pc[th] \in Busy => cur'[th] = cur[th]
    BY <1>4 DEF Notify, NotifyLock, NotifyRead, NotifySelf, ThreadsInv, TypeOK, Busy
  <2> QED  BY <1>1, <2>1
<1>5. ASSUME NEW x \in Transfers, Cancel(x) \/ DeviceAnswers(x)  PROVE ClaimInv'
  BY <1>1, <1>5 DEF Cancel, DeviceAnswers
<1>6. ASSUME NEW i \in Ifaces, ClaimInterface(i) \/ ReleaseInterface(i)  PROVE ClaimInv'
  BY <1>1, <1>6 DEF ClaimInterface, ReleaseInterface
<1>7. CASE Gate \/ Scan \/ Wait \/ WaitTimesOut \/ Expire \/ HandleAstray
  BY <1>1, <1>7 DEF Gate, Scan, Wait, WaitTimesOut, Expire, HandleAstray, Leave
<1>8. CASE Handle
  BY <1>1, <1>8 DEF Handle, Leave
<1>9. CASE Clear \/ Return
  BY <1>1, <1>9 DEF Clear, Return
<1>10. CASE AutoRelease
  <2> DEFINE j == iface[at]
  <2>1. /\ UNCHANGED <<control, flying, iface, kept, subv, at>> /\ ev = "release" /\ ev' = "complete"
        /\ at \in flying /\ at \in Transfers /\ ~InSubmission(at) /\ j \in Ifaces
        /\ autoclaim_count' = Discounted(j)
    BY <1>10 DEF AutoRelease, ThreadsInv, TypeOK
  <2>2. \A x \in flying : InSubmission(x)' <=> InSubmission(x)
    BY <2>1 DEF InSubmission
  <2>3. ASSUME NEW i \in Ifaces \ kept'
        PROVE  autoclaim_count'[i] <= Cardinality(Users(i)')
    <3>1. /\ autoclaim_count[i] \in Nat /\ autoclaim_count[i] <= Cardinality(Users(i))
          /\ IsFiniteSet(Users(i)) /\ Cardinality(Users(i)) \in Nat
      BY <2>1, <2>3, UsersFinite DEF TypeOK, ClaimInv
    <3>2. CASE i = j /\ at \in Users(i)
      <4>1. Users(i)' = Users(i) \ {at}
        BY <2>1, <2>2 DEF Users, InSubmission
      <4>2. Cardinality(Users(i)') = Cardinality(Users(i)) - 1
        BY <3>1, <3>2, <4>1, FS_RemoveElement
      <4>3. autoclaim_count'[i] = IF autoclaim_count[i] > 0 THEN autoclaim_count[i] - 1 ELSE 0
        BY <2>1, <3>2 DEF Discounted, TypeOK
      <4>4. Cardinality(Users(i)') \in Nat
        BY <3>1, <3>2, <4>1, FS_RemoveElement, FS_CardinalityType
      <4> QED  BY <3>1, <4>2, <4>3, <4>4
    <3>3. CASE i # j \/ at \notin Users(i)
      <4>1. at \notin Users(i)
        BY <2>1, <3>3 DEF Users, InSubmission
      <4>2. Users(i)' = Users(i)
        BY <2>1, <2>2, <4>1 DEF Users
      <4>3. autoclaim_count'[i] <= autoclaim_count[i] /\ autoclaim_count'[i] \in Nat
        BY <2>1, <3>1 DEF Discounted, TypeOK
      <4> QED  BY <3>1, <4>2, <4>3
    <3> QED  BY <3>2, <3>3
  <2>4. (\A i \in Ifaces \ kept : autoclaim_count[i] <= Cardinality(Users(i)))'
    BY <2>3
  <2> QED  BY <2>1, <2>4 DEF ClaimInv
<1>11. CASE Callback
  <2>1. /\ UNCHANGED <<control, iface, autoclaim_count, kept, subv, at>>
        /\ ev = "complete" /\ ev' = "callback" /\ flying' = flying \ {at} /\ ~InSubmission(at)
    BY <1>11 DEF Callback, ThreadsInv
  <2>2. \A x \in flying : InSubmission(x)' <=> InSubmission(x)
    BY <2>1 DEF InSubmission
  <2>3. \A i \in Ifaces : Users(i) \subseteq Users(i)'
    BY <2>1, <2>2 DEF Users, InSubmission
  <2>4. IsFiniteSet(flying')
    BY <2>1, FS_RemoveElement, FS_Subset
  <2> QED  BY <2>1, <2>3, <2>4, UsersKept
<1> QED  BY <1>2, <1>3, <1>4, <1>5, <1>6, <1>7, <1>8, <1>9, <1>10, <1>11
            DEF Next, AppStep, AppCall, HandlerStep

-----------------------------------------------------------------------------
WinUsbInv == TypeOK /\ ToldInv /\ ThreadsInv /\ TableInv /\ PolledInv /\ ClaimInv

LEMMA WinUsbInvInit == Init => WinUsbInv
<1> SUFFICES ASSUME Init  PROVE WinUsbInv
  OBVIOUS
<1>1. /\ App \in Threads /\ Handler \in Threads /\ App # Handler
      /\ 1 \in Fds /\ Pipe # Free /\ Pipe \notin Transfers /\ Free \notin Transfers
      /\ NoFd \notin Fds /\ 0 \in Ifaces
  BY WinUsbAssumption, PollAssumption DEF Threads, Fds, NoFd
<1>2. /\ poll_fd = [f \in Fds |-> IF f = 1 THEN Pipe ELSE Free]
      /\ pipe = [high |-> 0, event |-> FALSE] /\ PipeFd = 1
  BY <1>1 DEF Init, PollInit, PipeFd
<1>3. /\ flying = {} /\ lost = {} /\ todo = {} /\ ev = "gate" /\ pollfds = {1}
      /\ pc = [th \in Threads |-> "ready"] /\ begun = {} /\ modify = 0
  BY <1>2 DEF Init
<1>4. TypeOK
  BY <1>1, <1>2 DEF Init, TypeOK, PollTypeOK
<1>5. ToldInv
  BY <1>1, <1>2, <1>3 DEF ToldInv
<1>6. ThreadsInv
  BY <1>1, <1>3 DEF Init, ThreadsInv, Busy, Telling, HasTransfer, InSubmission
<1>7. Running = {} /\ Starting = {}
  BY <1>3 DEF Running, Starting
<1>8. TableInv
  BY <1>1, <1>2, <1>3, <1>7 DEF TableInv
<1>9. PolledInv
  BY <1>1, <1>3 DEF PolledInv, HasTransfer, Busy
<1>10. ClaimInv
  <2>1. \A i \in Ifaces : Users(i) = {}
    BY <1>3 DEF Users
  <2>2. \A i \in Ifaces : autoclaim_count[i] = 0
    BY DEF Init
  <2>3. Cardinality({}) = 0 /\ IsFiniteSet({})
    BY FS_EmptySet
  <2> QED  BY <1>3, <2>1, <2>2, <2>3 DEF ClaimInv
<1> QED  BY <1>4, <1>5, <1>6, <1>8, <1>9, <1>10 DEF WinUsbInv

LEMMA WinUsbInvStep == WinUsbInv /\ [Next]_vars => WinUsbInv'
<1> SUFFICES ASSUME WinUsbInv, [Next]_vars  PROVE WinUsbInv'
  OBVIOUS
<1>1. CASE Next
  <2>1. TypeOK' /\ ThreadsInv' /\ TableInv' /\ PolledInv' /\ ClaimInv'
    BY <1>1, TypeKept, ThreadsKept, TableKept, PolledKept, ClaimKept DEF WinUsbInv
  <2>2. ToldInv'
    BY <1>1, ToldKept DEF WinUsbInv, TypeOK, PollTypeOK, ThreadsInv
  <2> QED  BY <2>1, <2>2 DEF WinUsbInv
<1>2. CASE UNCHANGED vars
  <2> USE <1>2 DEF vars, pollv, claimv, transv, subv, ctxv, evv, boundv, WinUsbInv
  <2>1. TypeOK' /\ ToldInv'
    BY DEF TypeOK, PollTypeOK, ToldInv
  <2>2. ThreadsInv'
    BY DEF ThreadsInv, InSubmission
  <2>3. Running' = Running /\ Starting' = Starting
    BY DEF Running, Starting, InSubmission
  <2>4. TableInv' /\ PolledInv'
    BY <2>3 DEF TableInv, PolledInv
  <2>5. ClaimInv'
    BY DEF ClaimInv, Users, InSubmission
  <2> QED  BY <2>1, <2>2, <2>4, <2>5
<1> QED  BY <1>1, <1>2

LEMMA WinUsbInvAlways == Spec => []WinUsbInv
BY WinUsbInvInit, WinUsbInvStep, PTL DEF Spec

(* A poll finds no entry that has been freed meanwhile, and what it        *)
(* reports belongs to a transfer on the list, whatever submissions,        *)
(* completions and callbacks have done to the table since the list was     *)
(* copied.  It can be mistaken only for that of a transfer submitted again *)
(* whose submission has not begun to prepare it.                           *)
THEOREM ReportedIsKnownCorrect == Spec => []ReportedIsKnown
<1>1. ASSUME WinUsbInv  PROVE ReportedIsKnown
  <2> USE <1>1 DEF WinUsbInv
  <2>1. ASSUME ev \in {"scan", "wait"}, NEW f \in polled  PROVE poll_fd[f] # Free
    <3>1. f \in pollfds /\ Pipe # Free /\ Free \notin Transfers
      BY <2>1, PollAssumption DEF PolledInv
    <3>2. CASE f = 1
      BY <3>1, <3>2 DEF TableInv, TypeOK
    <3>3. CASE f # 1
      <4>1. poll_fd[f] \in Transfers
        BY <3>1, <3>3 DEF PolledInv, Running, TypeOK
      <4> QED  BY <3>1, <4>1
    <3> QED  BY <3>2, <3>3
  <2>2. \A f \in todo : poll_fd[f] \in Found(f) /\ Found(f) \subseteq {poll_fd[f]} \cup Renewed
    BY ReportedHasTransfer
  <2> QED  BY <2>1, <2>2 DEF ReportedIsKnown, Invalid
<1> QED  BY <1>1, WinUsbInvAlways, PTL

(* No entry of the table and no claim is left behind, but by the failures  *)
(* of a HID transfer that StartLeaks names, and the claims that kept names.*)
THEOREM NothingLeftCorrect == Spec => []NothingLeft
<1>1. ASSUME WinUsbInv  PROVE NothingLeft
  <2> USE <1>1 DEF WinUsbInv
  <2>1. NoEntryLeft
    <3>1. ASSUME NEW f \in Fds \ ({PipeFd} \cup lost), poll_fd[f] # Free  PROVE poll_fd[f] \in flying
      <4>1. poll_fd[f] \in Transfers
        BY <3>1, PipeEntry DEF TableInv, TypeOK, PollTypeOK
      <4> QED  BY <3>1, <4>1 DEF TableInv, Running, Starting
    <3> QED  BY <3>1 DEF NoEntryLeft
  <2>2. ClaimIsUsed
    <3>1. ASSUME NEW i \in Ifaces \ kept, autoclaim_count[i] > 0
          PROVE  (\E x \in control \cap flying : iface[x] = i) \/ \E th \in Threads : use[th] = i
      <4>1. Users(i) # {}
        <5>1. Cardinality({}) = 0 /\ autoclaim_count[i] <= Cardinality(Users(i)) /\ autoclaim_count[i] \in Nat
          BY <3>1, FS_EmptySet DEF ClaimInv, TypeOK
        <5> QED  BY <3>1, <5>1
      <4> QED  BY <4>1 DEF Users
    <3> QED  BY <3>1 DEF ClaimIsUsed
  <2> QED  BY <2>1, <2>2 DEF NothingLeft
<1> QED  BY <1>1, WinUsbInvAlways, PTL

(* The application never waits for an event of the pipe while it holds the *)
(* critical section of the pipe: the handler has not taken its byte.       *)
THEOREM ReadFindsEventCorrect == Spec => []ReadFindsEvent
<1>1. WinUsbInv => ReadFindsEvent
  BY DEF WinUsbInv, ToldInv, ReadFindsEvent, At
<1> QED  BY <1>1, WinUsbInvAlways, PTL
=============================================================================
