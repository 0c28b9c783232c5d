------------------------ MODULE HrastLinkscanProofs ------------------------
(* Theorems about HrastLinkscan, for every set of clients and table size. *)
EXTENDS HrastLinkscan, FiniteSetTheorems, TLAPS

\* The slots of a table are a finite, nonempty set that starts with 0.
LEMMA SlotsFinite == IsFiniteSet(Slots) /\ 0 \in Slots
<1>1. IsFiniteSet(Slots) BY LinkscanAssumption, FS_Interval DEF Slots
<1>2. 0 \in Slots BY LinkscanAssumption DEF Slots
<1>3. QED BY <1>1, <1>2

-----------------------------------------------------------------------------
(* Type correctness.                                                       *)

\* A step of the main thread keeps the types.
LEMMA MainTypeOK ==
  ASSUME TypeOK, MainStep, overlap' \in BOOLEAN, strayed' \in BOOLEAN
  PROVE  TypeOK'
<1>1. 0 \in Slots BY SlotsFinite
<1>2. TypeOK /\ UNCHANGED <<keep_alive, keeper>> BY DEF MainStep
<1>3. ASSUME NEW op \in Ops, NEW p \in Pids, NEW idx \in Indices, Dispatch(op, p, idx)
      PROVE  TypeOK'
  BY <1>1, <1>2, <1>3 DEF Dispatch, Goto, Confirm, TypeOK, table, keeper, Owner, Ops,
       MainPc, Results, Scanning, Indices
<1>4. CASE HandlerStep
  <2> USE <1>1, <1>2 DEF TypeOK, table, keeper, Owner, Goto, Confirm, MainPc, Results,
        Scanning, Indices
  <2>1. CASE BcmInit BY <2>1 DEF BcmInit
  <2>2. CASE ClearSlot BY <2>2 DEF ClearSlot
  <2>3. CASE SetZero BY <2>3 DEF SetZero
  <2>4. CASE BcmDetach BY <2>4 DEF BcmDetach
  <2>5. CASE SetDown BY <2>5 DEF SetDown
  <2>6. CASE DupScan BY <2>6 DEF DupScan
  <2>7. CASE FreeScan BY <2>7 DEF FreeScan
  <2>8. CASE RegTest BY <2>8 DEF RegTest
  <2>9. CASE BcmRegister BY <2>9 DEF BcmRegister
  <2>10. CASE Save BY <2>10 DEF Save
  <2>11. CASE IncLoad BY <2>11 DEF IncLoad
  <2>12. CASE IncStore BY <2>12 DEF IncStore
  <2>13. CASE Match BY <2>13 DEF Match
  <2>14. CASE UnregTest BY <2>14 DEF UnregTest
  <2>15. CASE BcmUnregister BY <2>15 DEF BcmUnregister
  <2>16. CASE DecLoad BY <2>16 DEF DecLoad
  <2>17. CASE DecStore BY <2>17 DEF DecStore
  <2>18. CASE Release BY <2>18 DEF Release
  <2>19. QED
    BY <1>4, <2>1, <2>2, <2>3, <2>4, <2>5, <2>6, <2>7, <2>8, <2>9, <2>10, <2>11,
       <2>12, <2>13, <2>14, <2>15, <2>16, <2>17, <2>18 DEF HandlerStep
<1>5. QED BY <1>3, <1>4 DEF MainStep

\* A step of the keep-alive thread keeps the types.
LEMMA KeepTypeOK ==
  ASSUME TypeOK, KeepStep, overlap' \in BOOLEAN, strayed' \in BOOLEAN
  PROVE  TypeOK'
<1>1. 0 \in Slots BY SlotsFinite
<1>2. UNCHANGED <<keep_alive, main>> BY DEF KeepStep
<1> USE <1>1, <1>2 DEF TypeOK, table, main, Owner, KeepGoto, NextSlot, KeepPc
<1>3. CASE Wake BY <1>3 DEF Wake
<1>4. CASE Scan BY <1>4 DEF Scan
<1>5. CASE Copy BY <1>5 DEF Copy
<1>6. CASE Check BY <1>6 DEF Check
<1>7. CASE KeepDecLoad BY <1>7 DEF KeepDecLoad
<1>8. CASE KeepDecStore BY <1>8 DEF KeepDecStore
<1>9. CASE KeepRelease BY <1>9 DEF KeepRelease
<1>10. CASE KeepTest BY <1>10 DEF KeepTest
<1>11. CASE KeepBcmUnregister BY <1>11 DEF KeepBcmUnregister
<1>12. QED
  BY <1>3, <1>4, <1>5, <1>6, <1>7, <1>8, <1>9, <1>10, <1>11 DEF KeepStep

\* The two threads never leave a variable with a value of another type.
THEOREM TypeCorrect == Spec => []TypeOK
<1>1. Init => TypeOK
  <2> SUFFICES ASSUME Init PROVE TypeOK
    OBVIOUS
  <2>1. reg_callbacks \in Int
    <3>1. CASE keep_alive BY <3>1 DEF Init
    <3>2. CASE ~keep_alive BY <3>2 DEF Init
    <3>3. QED BY <3>1, <3>2
  <2>2. keep_alive \in BOOLEAN BY DEF Init
  <2>3. bcm_handler \in BOOLEAN /\ overlap \in BOOLEAN /\ strayed \in BOOLEAN BY DEF Init
  <2>4. /\ Callback \in [Slots -> Owner]
        /\ m_pc \in MainPc /\ m_op \in Ops /\ m_pid \in Owner
        /\ m_idx \in Indices /\ (m_pc \in Scanning => m_idx \in Slots) /\ m_cnt \in Int /\ reply \in Results
        /\ k_pc \in KeepPc /\ k_i \in Slots /\ k_pid \in Owner /\ k_cnt \in Int
    BY SlotsFinite, SMT DEF Init, Owner, Ops, MainPc, KeepPc, Results, Indices, Scanning
  <2>5. QED BY <2>1, <2>2, <2>3, <2>4 DEF TypeOK
<1>2. TypeOK /\ [Next]_vars => TypeOK'
  <2> SUFFICES ASSUME TypeOK, [Next]_vars PROVE TypeOK'
    OBVIOUS
  <2>1. CASE Next
    <3>1. overlap' \in BOOLEAN /\ strayed' \in BOOLEAN
      BY <2>1, Zenon DEF Next, Overlapping, Straying, Emptied, TypeOK
    <3>2. QED BY <2>1, <3>1, MainTypeOK, KeepTypeOK DEF Next
  <2>2. CASE UNCHANGED vars
    BY <2>2 DEF vars, table, main, keeper, TypeOK
  <2>3. QED BY <2>1, <2>2
<1>3. QED BY <1>1, <1>2, PTL DEF Spec

-----------------------------------------------------------------------------
(* Counting entries.                                                       *)

\* Storing a client in a free entry adds one to the number of entries.
LEMMA TakeSlot ==
  ASSUME NEW t \in [Slots -> Owner], NEW s \in Slots, NEW p \in Pids, t[s] = NoPid
  PROVE  Cardinality(Occupied([t EXCEPT ![s] = p])) = Cardinality(Occupied(t)) + 1
<1> DEFINE u == [t EXCEPT ![s] = p]
<1>1. Occupied(u) = Occupied(t) \cup {s} BY LinkscanAssumption DEF Occupied, Owner
<1>2. s \notin Occupied(t) BY DEF Occupied
<1>3. IsFiniteSet(Occupied(t)) BY SlotsFinite, FS_Subset DEF Occupied
<1>4. QED BY <1>1, <1>2, <1>3, FS_AddElement

\* Clearing a used entry takes one from the number of entries.
LEMMA FreeSlot ==
  ASSUME NEW t \in [Slots -> Owner], NEW s \in Slots, t[s] # NoPid
  PROVE  Cardinality(Occupied([t EXCEPT ![s] = NoPid])) = Cardinality(Occupied(t)) - 1
<1> DEFINE u == [t EXCEPT ![s] = NoPid]
<1>1. Occupied(u) = Occupied(t) \ {s} BY DEF Occupied, Owner
<1>2. s \in Occupied(t) BY DEF Occupied
<1>3. IsFiniteSet(Occupied(t)) BY SlotsFinite, FS_Subset DEF Occupied
<1>4. QED BY <1>1, <1>2, <1>3, FS_RemoveElement

\* The number of entries is a natural number.
LEMMA CountNat == ASSUME NEW t PROVE Cardinality(Occupied(t)) \in Nat
<1>1. IsFiniteSet(Occupied(t)) BY SlotsFinite, FS_Subset DEF Occupied
<1>2. QED BY <1>1, FS_CardinalityType

\* A table without entries counts none.
LEMMA CountEmpty ==
  ASSUME NEW t, \A s \in Slots : t[s] = NoPid
  PROVE  Cardinality(Occupied(t)) = 0
<1>1. Occupied(t) = {} BY DEF Occupied
<1>2. QED BY <1>1, FS_EmptySet

-----------------------------------------------------------------------------
(* One entry per client.                                                   *)

\* A step of the keep-alive thread only clears entries.
LEMMA KeepOnlyClears ==
  ASSUME TypeOK, KeepStep
  PROVE  /\ UNCHANGED main
         /\ \A s \in Slots : Callback'[s] \in {Callback[s], NoPid}
<1> USE DEF table, TypeOK
<1>1. UNCHANGED main BY DEF KeepStep
<1>2. CASE KeepRelease BY <1>1, <1>2 DEF KeepRelease
<1>3. CASE Wake \/ Scan \/ Copy \/ Check \/ KeepDecLoad \/ KeepDecStore
           \/ KeepTest \/ KeepBcmUnregister
  <2>1. UNCHANGED Callback
    BY <1>3 DEF Wake, Scan, Copy, Check, KeepDecLoad, KeepDecStore, KeepTest,
         KeepBcmUnregister
  <2>2. QED BY <1>1, <2>1
<1>4. QED BY <1>2, <1>3 DEF KeepStep

\* The scans of the register handler, step by step.
LEMMA MainKeepsRegisterInv == ASSUME TypeOK, RegisterInv, MainStep PROVE RegisterInv'
<1>1. 0 \in Slots /\ Slots \subseteq Int BY SlotsFinite DEF Slots
<1> USE <1>1, LinkscanAssumption DEF RegisterInv, OnePerClient, TypeOK, table, Owner,
      Goto, Confirm, Scanning
<1>2. ASSUME NEW op \in Ops, NEW p \in Pids, NEW idx \in Indices, Dispatch(op, p, idx)
      PROVE  RegisterInv'
  <2>1. op \in {"init", "detach", "register", "unregister"} BY DEF Ops
  <2>2. \A s \in Slots : ~(s < 0) BY LinkscanAssumption DEF Slots
  <2>3. QED BY <1>2, <2>1, <2>2 DEF Dispatch
<1>3. CASE BcmInit BY <1>3 DEF BcmInit
<1>4. CASE ClearSlot BY <1>4 DEF ClearSlot
<1>5. CASE SetZero BY <1>5 DEF SetZero
<1>6. CASE BcmDetach BY <1>6 DEF BcmDetach
<1>7. CASE SetDown BY <1>7 DEF SetDown
<1>8. CASE DupScan
  <2>1. CASE Callback[m_idx] = m_pid BY <1>8, <2>1 DEF DupScan
  <2>2. CASE Callback[m_idx] # m_pid /\ m_idx + 1 \in Slots
    <3>1. m_idx \in Slots /\ \A s \in Slots : s < m_idx + 1 => s < m_idx \/ s = m_idx
      BY <1>8 DEF DupScan, Slots
    <3>2. QED BY <1>8, <2>2, <3>1 DEF DupScan
  <2>3. CASE Callback[m_idx] # m_pid /\ m_idx + 1 \notin Slots
    <3>1. \A s \in Slots : s < m_idx \/ s = m_idx
      BY <1>8, <2>3, LinkscanAssumption DEF DupScan, Slots
    <3>2. QED BY <1>8, <2>3, <3>1 DEF DupScan
  <2>4. QED BY <2>1, <2>2, <2>3
<1>9. CASE FreeScan BY <1>9 DEF FreeScan
<1>10. CASE RegTest BY <1>10 DEF RegTest
<1>11. CASE BcmRegister BY <1>11 DEF BcmRegister
<1>12. CASE Save BY <1>12 DEF Save
<1>13. CASE IncLoad BY <1>13 DEF IncLoad
<1>14. CASE IncStore BY <1>14 DEF IncStore
<1>15. CASE Match BY <1>15 DEF Match
<1>16. CASE UnregTest BY <1>16 DEF UnregTest
<1>17. CASE BcmUnregister BY <1>17 DEF BcmUnregister
<1>18. CASE DecLoad BY <1>18 DEF DecLoad
<1>19. CASE DecStore BY <1>19 DEF DecStore
<1>20. CASE Release BY <1>20 DEF Release
<1>21. QED
  BY <1>2, <1>3, <1>4, <1>5, <1>6, <1>7, <1>8, <1>9, <1>10, <1>11, <1>12, <1>13,
     <1>14, <1>15, <1>16, <1>17, <1>18, <1>19, <1>20 DEF MainStep, HandlerStep

\* RegisterInv is inductive.
LEMMA RegisterInvCorrect == Spec => []RegisterInv
<1>1. Init => RegisterInv
  BY DEF Init, RegisterInv, OnePerClient
<1>2. TypeOK /\ RegisterInv /\ [Next]_vars => RegisterInv'
  <2> SUFFICES ASSUME TypeOK, RegisterInv, [Next]_vars PROVE RegisterInv'
    OBVIOUS
  <2>1. CASE MainStep BY <2>1, MainKeepsRegisterInv
  <2>2. CASE KeepStep
    BY <2>2, KeepOnlyClears, LinkscanAssumption DEF RegisterInv, OnePerClient, main, TypeOK, Scanning
  <2>3. CASE UNCHANGED vars
    BY <2>3 DEF vars, table, main, RegisterInv, OnePerClient
  <2>4. QED BY <2>1, <2>2, <2>3 DEF Next
<1>3. QED BY <1>1, <1>2, TypeCorrect, PTL DEF Spec

\* No client ever holds two entries, and the scans stay within the table, under
\* every interleaving with the sweep.
THEOREM TableSoundCorrect == Spec => []TableSound
<1>1. TypeOK /\ RegisterInv => TableSound BY DEF TableSound, RegisterInv
<1>2. QED BY <1>1, TypeCorrect, RegisterInvCorrect, PTL

\* A client's entry is never handed to another client, under every interleaving.
THEOREM EntryNotStolenCorrect == Spec => EntryNotStolen
<1> DEFINE Kept == \A s \in Slots : Callback[s] # NoPid => Callback'[s] \in {Callback[s], NoPid}
<1>1. TypeOK /\ RegisterInv /\ [Next]_vars => [Kept]_Callback
  <2> SUFFICES ASSUME TypeOK, RegisterInv, Next PROVE Kept \/ UNCHANGED Callback
    BY DEF vars, table
  <2>1. CASE KeepStep BY <2>1, KeepOnlyClears
  <2>2. CASE MainStep
    <3> USE DEF TypeOK, table
    <3>1. CASE Save BY <2>2, <3>1 DEF Save, RegisterInv
    <3>2. CASE ClearSlot \/ Release BY <2>2, <3>2 DEF ClearSlot, Release
    <3>3. CASE BcmInit \/ SetZero \/ BcmDetach \/ SetDown \/ DupScan \/ FreeScan \/ RegTest
             \/ BcmRegister \/ IncLoad \/ IncStore \/ Match \/ UnregTest \/ BcmUnregister
             \/ DecLoad \/ DecStore
      BY <3>3 DEF BcmInit, SetZero, BcmDetach, SetDown, DupScan, FreeScan, RegTest,
           BcmRegister, IncLoad, IncStore, Match, UnregTest, BcmUnregister, DecLoad, DecStore
    <3>4. CASE \E op \in Ops, p \in Pids, idx \in Indices : Dispatch(op, p, idx)
      BY <3>4 DEF Dispatch
    <3>5. QED BY <2>2, <3>1, <3>2, <3>3, <3>4 DEF MainStep, HandlerStep
  <2>3. QED BY <2>1, <2>2 DEF Next
<1>2. QED BY <1>1, TypeCorrect, RegisterInvCorrect, PTL DEF Spec, EntryNotStolen

-----------------------------------------------------------------------------
(* The counter and the BCM handler while handlers and sweeps take turns.   *)

\* A handler that runs with the sweep asleep keeps the counter in step.
LEMMA MainKeepsCounter ==
  ASSUME TypeOK, RegisterInv, CounterInHandler, MainStep,
         strayed' = (Straying' \/ (strayed /\ ~Emptied))
  PROVE  CounterInHandler'
<1> DEFINE n == Cardinality(Occupied(Callback))
<1>1. /\ 0 \in Slots /\ Slots \subseteq Int
      /\ \A s \in Slots : ~(s < 0)
      /\ n \in Nat
  BY SlotsFinite, CountNat, LinkscanAssumption DEF Slots
<1>2. UNCHANGED Callback => n' = n OBVIOUS
<1> HIDE DEF n
<1>3. /\ Cardinality(Registered) = n /\ Cardinality(Registered)' = n'
  BY DEF n, Registered
<1> USE <1>1, <1>2, <1>3, LinkscanAssumption DEF CounterInHandler, TypeOK, table, Owner,
      Goto, Confirm, Scanning, Straying, Emptied
<1>4. ASSUME NEW op \in Ops, NEW p \in Pids, NEW idx \in Indices, Dispatch(op, p, idx)
      PROVE  CounterInHandler'
  <2>1. UNCHANGED <<Callback, reg_callbacks, m_cnt>> /\ m_pc = "idle"
    BY <1>4 DEF Dispatch
  <2>2. CASE op = "init"
    <3>1. m_pc' = "bcm_init" /\ m_idx' = 0 BY <1>4, <2>2 DEF Dispatch
    <3>2. QED BY <2>1, <3>1
  <2>3. CASE op = "detach" BY <1>4, <2>1, <2>3 DEF Dispatch
  <2>4. CASE op \in {"register", "unregister"}
    <3>1. m_pc' = "idle" \/ (m_pc' \in {"dup_scan", "match"} /\ ~(reg_callbacks < 0))
      BY <1>4, <2>4 DEF Dispatch
    <3>2. QED BY <2>1, <3>1
  <2>5. QED BY <2>2, <2>3, <2>4 DEF Ops
<1>5. CASE BcmInit BY <1>5 DEF BcmInit
<1>6. CASE ClearSlot
  <2>1. CASE m_idx + 1 \in Slots
    <3>1. m_idx \in Slots /\ \A s \in Slots : s < m_idx + 1 => s < m_idx \/ s = m_idx
      BY <1>6 DEF ClearSlot, Slots
    <3>2. QED BY <1>6, <2>1, <3>1 DEF ClearSlot
  <2>2. CASE m_idx + 1 \notin Slots
    <3>1. \A s \in Slots : s < m_idx \/ s = m_idx
      BY <1>6, <2>2 DEF ClearSlot, Slots
    <3>2. \A s \in Slots : Callback'[s] = NoPid BY <1>6, <3>1 DEF ClearSlot
    <3>3. n' = 0 BY <3>2, CountEmpty DEF n
    <3>4. QED BY <1>6, <2>2, <3>3 DEF ClearSlot
  <2>3. QED BY <2>1, <2>2
<1>7. CASE SetZero BY <1>7 DEF SetZero
<1>8. CASE BcmDetach BY <1>8 DEF BcmDetach
<1>9. CASE SetDown BY <1>9 DEF SetDown
<1>10. CASE DupScan BY <1>10 DEF DupScan
<1>11. CASE FreeScan BY <1>11 DEF FreeScan
<1>12. CASE RegTest BY <1>12 DEF RegTest
<1>13. CASE BcmRegister BY <1>13 DEF BcmRegister
<1>14. CASE Save
  <2>1. m_pid \in Pids /\ Callback[m_idx] = NoPid BY <1>14 DEF Save, RegisterInv
  <2>2. n' = n + 1 BY <1>14, <2>1, TakeSlot DEF Save, n
  <2>3. QED BY <1>14, <2>2 DEF Save
<1>15. CASE IncLoad BY <1>15 DEF IncLoad
<1>16. CASE IncStore BY <1>16 DEF IncStore
<1>17. CASE Match BY <1>17 DEF Match
<1>18. CASE UnregTest BY <1>18 DEF UnregTest
<1>19. CASE BcmUnregister BY <1>19 DEF BcmUnregister
<1>20. CASE DecLoad BY <1>20 DEF DecLoad
<1>21. CASE DecStore BY <1>21 DEF DecStore
<1>22. CASE Release
  <2>1. m_pc = "release" /\ m_pc' = "idle" BY <1>22 DEF Release
  <2>2. CASE strayed' BY <2>1, <2>2
  <2>3. CASE ~strayed'
    <3>1. ~strayed BY <2>1, <2>3 DEF Emptied
    <3>2. m_idx \in Slots /\ Callback[m_idx] # NoPid BY <2>1, <3>1 DEF RegisterInv
    <3>3. Callback' = [Callback EXCEPT ![m_idx] = NoPid] BY <1>22, <3>2 DEF Release
    <3>4. n' = n - 1 BY <3>2, <3>3, FreeSlot DEF n
    <3>5. QED BY <1>22, <3>1, <3>4 DEF Release
  <2>4. QED BY <2>2, <2>3
<1>23. QED
  BY <1>4, <1>5, <1>6, <1>7, <1>8, <1>9, <1>10, <1>11, <1>12, <1>13, <1>14, <1>15,
     <1>16, <1>17, <1>18, <1>19, <1>20, <1>21, <1>22 DEF MainStep, HandlerStep

\* A handler that runs with the sweep asleep leaves the BCM handler registered
\* when clients remain.
LEMMA MainKeepsHandler ==
  ASSUME TypeOK, CounterInHandler, HandlerInHandler, MainStep
  PROVE  HandlerInHandler'
<1> DEFINE n == Cardinality(Registered)
<1>1. n \in Nat BY CountNat DEF Registered
<1> HIDE DEF n
<1> USE <1>1 DEF HandlerInHandler, TypeOK, table, Goto, Confirm
<1>2. ASSUME NEW op \in Ops, NEW p \in Pids, NEW idx \in Indices, Dispatch(op, p, idx)
      PROVE  HandlerInHandler'
  <2>1. op \in {"init", "detach", "register", "unregister"} BY DEF Ops
  <2>2. QED BY <1>2, <2>1 DEF Dispatch
<1>3. CASE BcmInit BY <1>3 DEF BcmInit
<1>4. CASE ClearSlot BY <1>4 DEF ClearSlot
<1>5. CASE SetZero BY <1>5 DEF SetZero
<1>6. CASE BcmDetach BY <1>6 DEF BcmDetach
<1>7. CASE SetDown BY <1>7 DEF SetDown
<1>8. CASE DupScan BY <1>8 DEF DupScan
<1>9. CASE FreeScan BY <1>9 DEF FreeScan
<1>10. CASE RegTest BY <1>10 DEF RegTest
<1>11. CASE BcmRegister BY <1>11 DEF BcmRegister
<1>12. CASE Save BY <1>12 DEF Save
<1>13. CASE IncLoad BY <1>13 DEF IncLoad
<1>14. CASE IncStore BY <1>14 DEF IncStore
<1>15. CASE Match BY <1>15 DEF Match
<1>16. CASE UnregTest BY <1>16 DEF UnregTest
<1>17. CASE BcmUnregister BY <1>17 DEF BcmUnregister
<1>18. CASE DecLoad BY <1>18 DEF DecLoad
<1>19. CASE DecStore BY <1>19 DEF DecStore, CounterInHandler
<1>20. CASE Release BY <1>20 DEF Release
<1>21. QED
  BY <1>2, <1>3, <1>4, <1>5, <1>6, <1>7, <1>8, <1>9, <1>10, <1>11, <1>12, <1>13,
     <1>14, <1>15, <1>16, <1>17, <1>18, <1>19, <1>20 DEF MainStep, HandlerStep

\* A sweep that runs between handlers keeps the counter and the BCM handler
\* in step with the table.
LEMMA KeepKeepsCounter ==
  ASSUME TypeOK, RegisterInv, m_pc = "idle", KeepStep, UNCHANGED strayed, HandlerInHandler,
         k_pc = "sleep" => CounterInHandler,
         k_pc # "sleep" => CounterInSweep
  PROVE  /\ k_pc' = "sleep" => CounterInHandler'
         /\ k_pc' # "sleep" => CounterInSweep'
         /\ HandlerInHandler'
<1> DEFINE n == Cardinality(Occupied(Callback))
<1>1. n \in Nat BY CountNat
<1>2. UNCHANGED Callback => n' = n OBVIOUS
<1> HIDE DEF n
<1>3. /\ Cardinality(Registered) = n /\ Cardinality(Registered)' = n'
  BY DEF n, Registered
<1>4. UNCHANGED main BY DEF KeepStep
<1> USE <1>1, <1>2, <1>3, <1>4 DEF CounterInHandler, CounterInSweep, HandlerInHandler,
      TypeOK, table, main, KeepGoto, NextSlot
<1>5. CASE Wake BY <1>5 DEF Wake
<1>6. CASE Scan BY <1>6 DEF Scan
<1>7. CASE Copy BY <1>7 DEF Copy
<1>8. CASE Check BY <1>8 DEF Check
<1>9. CASE KeepDecLoad BY <1>9 DEF KeepDecLoad
<1>10. CASE KeepDecStore BY <1>10 DEF KeepDecStore
<1>11. CASE KeepRelease
  <2>1. n' = n - 1 BY <1>11, FreeSlot DEF KeepRelease, n
  <2>2. QED BY <1>11, <2>1 DEF KeepRelease
<1>12. CASE KeepTest BY <1>12 DEF KeepTest
<1>13. CASE KeepBcmUnregister
  <2>1. UNCHANGED <<Callback, reg_callbacks>> /\ reg_callbacks = 0 /\ m_pc' = "idle"
    BY <1>13 DEF KeepBcmUnregister
  <2>2. HandlerInHandler' BY <2>1
  <2>3. k_pc' = "sleep" \/ k_pc' = "scan" BY <1>13 DEF KeepBcmUnregister
  <2>4. ~strayed' => reg_callbacks' = n' BY <1>13, <2>1 DEF KeepBcmUnregister
  <2>5. CounterInHandler' BY <2>1, <2>4
  <2>6. k_pc' = "scan" => CounterInSweep' BY <2>4
  <2>7. QED BY <2>2, <2>3, <2>5, <2>6
<1>14. QED
  BY <1>5, <1>6, <1>7, <1>8, <1>9, <1>10, <1>11, <1>12, <1>13 DEF KeepStep

\* A handler that answers during a sweep without touching the table.
LEMMA IdleDispatch ==
  ASSUME m_pc = "idle", m_pc' = "idle", MainStep
  PROVE  UNCHANGED <<table, keeper>>
<1>1. ~HandlerStep
  BY DEF HandlerStep, BcmInit, ClearSlot, SetZero, BcmDetach, SetDown, DupScan, FreeScan,
       RegTest, BcmRegister, Save, IncLoad, IncStore, Match, UnregTest, BcmUnregister,
       DecLoad, DecStore, Release
<1>2. QED BY <1>1 DEF MainStep, Dispatch

\* Between two requests nothing strays.
LEMMA StrayedIdle ==
  ASSUME TypeOK, TypeOK', Next, m_pc = "idle", m_pc' = "idle"
  PROVE  UNCHANGED strayed
<1>1. strayed \in BOOLEAN /\ strayed' \in BOOLEAN BY DEF TypeOK
<1>2. strayed' <=> strayed BY DEF Next, Straying, Emptied
<1>3. QED BY <1>1, <1>2

\* SerialInv is inductive.
LEMMA SerialInvCorrect == Spec => []SerialInv
<1>1. Init => SerialInv
  <2> SUFFICES ASSUME Init PROVE SerialInv
    OBVIOUS
  <2>1. RegisterInv BY DEF Init, RegisterInv, OnePerClient
  <2>2. Cardinality(Registered) = 0 BY CountEmpty DEF Init, Registered
  <2>3. reg_callbacks \in {-1, 0}
    <3>1. CASE keep_alive BY <3>1 DEF Init
    <3>2. CASE ~keep_alive BY <3>2 DEF Init
    <3>3. QED BY <3>1, <3>2
  <2>4. m_pc = "idle" /\ k_pc = "sleep" BY DEF Init
  <2>5. QED
    BY <2>1, <2>2, <2>3, <2>4 DEF SerialInv, CounterInHandler, HandlerInHandler
<1>2. TypeOK /\ TypeOK' /\ RegisterInv' /\ SerialInv /\ [Next]_vars => SerialInv'
  <2> SUFFICES ASSUME TypeOK, TypeOK', RegisterInv', SerialInv, [Next]_vars PROVE SerialInv'
    OBVIOUS
  <2>1. CASE UNCHANGED vars
    BY <2>1 DEF vars, table, main, keeper, SerialInv, CounterInHandler, CounterInSweep,
         HandlerInHandler, Registered, Occupied
  <2>2. CASE Next /\ overlap' BY <2>2 DEF SerialInv
  <2>3. CASE Next /\ ~overlap'
    <3>1. ~overlap /\ (m_pc' = "idle" \/ k_pc' = "sleep")
      BY <2>3 DEF Next, Overlapping
    <3>2. /\ RegisterInv /\ (m_pc = "idle" \/ k_pc = "sleep") /\ HandlerInHandler
          /\ k_pc = "sleep" => CounterInHandler
          /\ k_pc # "sleep" => CounterInSweep
      BY <3>1 DEF SerialInv
    <3>3. CASE MainStep /\ k_pc = "sleep"
      <4>1. CounterInHandler' BY <2>3, <3>2, <3>3, MainKeepsCounter DEF Next
      <4>2. HandlerInHandler' BY <3>2, <3>3, MainKeepsHandler
      <4>3. k_pc' = "sleep" BY <3>3 DEF MainStep, keeper
      <4>4. QED BY <3>1, <4>1, <4>2, <4>3 DEF SerialInv
    <3>4. CASE MainStep /\ k_pc # "sleep"
      <4>1. m_pc = "idle" /\ m_pc' = "idle" BY <3>1, <3>2, <3>4 DEF MainStep, keeper
      <4>2. UNCHANGED <<table, keeper>> BY <3>4, <4>1, IdleDispatch
      <4>3. UNCHANGED strayed BY <2>3, <4>1, StrayedIdle
      <4>4. CounterInSweep' /\ HandlerInHandler' /\ k_pc' # "sleep"
        BY <3>2, <3>4, <4>1, <4>2, <4>3 DEF CounterInSweep, HandlerInHandler, table, keeper,
             Registered, Occupied
      <4>5. QED BY <3>1, <4>4 DEF SerialInv
    <3>5. CASE KeepStep
      <4>1. m_pc' = m_pc BY <3>5 DEF KeepStep, main
      <4>2. m_pc = "idle"
        <5>1. SUFFICES ASSUME m_pc # "idle", k_pc = "sleep" PROVE FALSE
          BY <3>2
        <5>2. k_pc' = "scan"
          BY <3>5, <5>1 DEF KeepStep, Wake, Scan, Copy, Check, KeepDecLoad, KeepDecStore,
               KeepRelease, KeepTest, KeepBcmUnregister, KeepGoto
        <5>3. QED BY <3>1, <4>1, <5>1, <5>2
      <4>3. /\ k_pc' = "sleep" => CounterInHandler'
            /\ k_pc' # "sleep" => CounterInSweep'
            /\ HandlerInHandler'
        <5>1. UNCHANGED strayed BY <2>3, <4>1, <4>2, StrayedIdle
        <5>2. QED BY <3>2, <3>5, <4>2, <5>1, KeepKeepsCounter
      <4>4. QED BY <3>1, <4>3 DEF SerialInv
    <3>6. QED BY <2>3, <3>3, <3>4, <3>5 DEF Next
  <2>4. QED BY <2>1, <2>2, <2>3
<1>3. QED BY <1>1, <1>2, TypeCorrect, RegisterInvCorrect, PTL DEF Spec

\* While handlers and sweeps take turns, the counter at rest is the number
\* of registered clients.
THEOREM CountExact == Spec => []CountExactIfSerial
<1>1. SerialInv => CountExactIfSerial
  BY DEF SerialInv, CounterInHandler, CountExactIfSerial, AtRest
<1>2. QED BY <1>1, SerialInvCorrect, PTL

\* While handlers and sweeps take turns, registered clients are served: the
\* handler is registered at the BCM API.
THEOREM HandlerRegistered == Spec => []HandlerIfSerial
<1>1. SerialInv => HandlerIfSerial
  BY DEF SerialInv, HandlerInHandler, HandlerIfSerial, AtRest
<1>2. QED BY <1>1, SerialInvCorrect, PTL

-----------------------------------------------------------------------------
(* Without the keep-alive thread, the registry of LinkscanRegistry.        *)

LEMMA MainKeepsRegistryInv ==
  ASSUME TypeOK, RegistryInv, RegisterInv, ~keep_alive, MainStep, overlap' = (overlap \/ Overlapping')
  PROVE  RegistryInv'
<1>1. UNCHANGED <<keep_alive, keeper>> BY DEF MainStep
<1>2. k_pc' = "sleep" /\ ~overlap' BY <1>1 DEF RegistryInv, keeper, Overlapping
<1>3. 0 \in Slots /\ \A s \in Slots : ~(s < 0) BY SlotsFinite, LinkscanAssumption DEF Slots
<1>4. \A s, i \in Slots : s < i + 1 => s < i \/ s = i BY DEF Slots
<1> USE <1>1, <1>2, <1>3 DEF RegistryInv, TypeOK, table, Goto, Confirm, Scanning
<1>5. ASSUME NEW op \in Ops, NEW p \in Pids, NEW idx \in Indices, Dispatch(op, p, idx)
      PROVE  RegistryInv'
  <2>1. CASE op = "init" BY <1>5, <2>1 DEF Dispatch
  <2>2. CASE op = "detach" BY <1>5, <2>2 DEF Dispatch
  <2>3. CASE op \in {"register", "unregister"}
    <3>1. /\ m_op' = op /\ UNCHANGED table
          /\ \/ m_pc' = "idle"
             \/ op = "register" /\ m_pc' = "dup_scan" /\ reply' = "none"
             \/ op = "unregister" /\ m_pc' = "match" /\ reply' = "none"
      BY <1>5, <2>3 DEF Dispatch
    <3>2. QED BY <3>1
  <2>4. QED BY <2>1, <2>2, <2>3 DEF Ops
<1>6. CASE BcmInit BY <1>6 DEF BcmInit
<1>7. CASE ClearSlot BY <1>7 DEF ClearSlot
<1>8. CASE SetZero BY <1>8 DEF SetZero
<1>9. CASE BcmDetach BY <1>9 DEF BcmDetach
<1>10. CASE SetDown BY <1>10 DEF SetDown
<1>11. CASE DupScan BY <1>11 DEF DupScan
<1>12. CASE FreeScan BY ZenonT(30), <1>4, <1>12 DEF FreeScan
<1>13. CASE RegTest BY <1>13 DEF RegTest
<1>14. CASE BcmRegister BY <1>14 DEF BcmRegister
<1>15. CASE Save BY <1>15 DEF Save, Owner
<1>16. CASE IncLoad BY <1>16 DEF IncLoad
<1>17. CASE IncStore BY <1>17 DEF IncStore
<1>18. CASE Match BY <1>18 DEF Match
<1>19. CASE UnregTest BY <1>19 DEF UnregTest
<1>20. CASE BcmUnregister BY <1>20 DEF BcmUnregister
<1>21. CASE DecLoad BY <1>21 DEF DecLoad
<1>22. CASE DecStore BY <1>22 DEF DecStore
<1>23. CASE Release BY <1>23 DEF Release
<1>24. QED
  BY <1>5, <1>6, <1>7, <1>8, <1>9, <1>10, <1>11, <1>12, <1>13, <1>14, <1>15, <1>16, <1>17,
     <1>18, <1>19, <1>20, <1>21, <1>22, <1>23 DEF MainStep, HandlerStep

\* Without it there is no step of the keep-alive thread.
LEMMA NoKeepStep == ASSUME RegistryInv, ~keep_alive, KeepStep PROVE FALSE
BY DEF RegistryInv, KeepStep, Wake, Scan, Copy, Check, KeepDecLoad, KeepDecStore, KeepRelease, KeepTest,
  KeepBcmUnregister

LEMMA RegistryInvCorrect == Spec => []RegistryInv
<1>1. Init => RegistryInv BY DEF Init, RegistryInv
<1>2. TypeOK /\ RegisterInv /\ RegistryInv /\ [Next]_vars => RegistryInv'
  <2> SUFFICES ASSUME TypeOK, RegisterInv, RegistryInv, [Next]_vars PROVE RegistryInv'
    OBVIOUS
  <2>1. UNCHANGED keep_alive BY DEF Next, MainStep, KeepStep, vars
  <2>2. CASE keep_alive BY <2>1, <2>2 DEF RegistryInv
  <2>3. CASE ~keep_alive /\ UNCHANGED vars
    BY <2>3 DEF vars, table, main, keeper, RegistryInv
  <2>4. CASE ~keep_alive /\ Next BY <2>4, MainKeepsRegistryInv, NoKeepStep DEF Next
  <2>5. QED BY <2>2, <2>3, <2>4
<1>3. QED BY <1>1, <1>2, TypeCorrect, RegisterInvCorrect, PTL DEF Spec

\* What the clients see of the table.
LEMMA Seats ==
  ASSUME NEW s \in Slots
  PROVE  /\ Seated(s) => SeatMap[s] = Callback[s]
         /\ ~Seated(s) => SeatMap[s] = NoPid
BY DEF SeatMap

\* The entries count, one by one, while the handler does not write them.
LEMMA AllSeated ==
  ASSUME TypeOK, reg_callbacks >= 0, m_pc \notin {"clear", "set_zero", "inc_load", "inc_store"}
  PROVE  SeatMap = Callback /\ InService /\ Registry!Taken = Registered
<1>1. InService /\ ~Restarting BY DEF InService, Restarting
<1>2. \A s \in Slots : Seated(s) BY <1>1 DEF Seated
<1>3. SeatMap = Callback BY <1>2 DEF SeatMap, TypeOK
<1>4. QED BY <1>1, <1>3 DEF Registry!Taken, Registered, Occupied

\* While linkscan is down or being started, all seats are free.
LEMMA NoneSeated ==
  ASSUME ~InService \/ Restarting
  PROVE  SeatMap = Registry!AllFree
<1>1. \A s \in Slots : ~Seated(s) BY DEF Seated
<1>2. QED BY <1>1 DEF SeatMap, Registry!AllFree

\* A step that the clients do not see.
LEMMA Unseen ==
  ASSUME SeatMap' = SeatMap, InService' <=> InService, IdxMap' = IdxMap,
         m_pc # "idle", m_pc' # "idle", UNCHANGED <<m_op, m_pid, reply>>
  PROVE  UNCHANGED Registry!vars
<1>1. UNCHANGED InService BY DEF InService
<1>2. UNCHANGED (m_pc # "idle") OBVIOUS
<1>3. QED BY <1>1, <1>2 DEF Registry!vars

\* A handler that has not written anything yet.
LEMMA UnseenSame ==
  ASSUME TypeOK, UNCHANGED <<Callback, reg_callbacks>>, reg_callbacks >= 0,
         m_pc \notin {"idle", "clear", "set_zero", "inc_load", "inc_store"},
         m_pc' \notin {"idle", "clear", "set_zero", "inc_load", "inc_store"},
         reply = "none", UNCHANGED <<m_op, m_pid, reply>>, m_op = "unregister" => UNCHANGED m_idx
  PROVE  UNCHANGED Registry!vars
<1>1. InService /\ InService' BY DEF InService
<1>2. SeatMap' = SeatMap BY DEF SeatMap, Seated, InService, Restarting
<1>3. IdxMap' = IdxMap BY DEF IdxMap
<1>4. QED BY <1>1, <1>2, <1>3, Unseen

-----------------------------------------------------------------------------
LEMMA DispatchImplements ==
  ASSUME TypeOK, NEW op \in Ops, NEW p \in Pids, NEW idx \in Indices, Dispatch(op, p, idx)
  PROVE  Registry!Ask(op, p, idx) \/ Registry!Refuse(op, p, idx)
<1>1. m_pc = "idle" /\ m_op' = op /\ m_pid' = p /\ UNCHANGED table BY DEF Dispatch
<1>2. /\ m_pc' \in {"idle", "bcm_init", "bcm_detach", "dup_scan", "match"}
      /\ m_pc' # "idle" => reply' = "none"
      /\ m_pc' = "idle" => reply' = "BCM_E_INIT" /\ reg_callbacks < 0 /\ op \in {"register", "unregister"}
      /\ op \in {"register", "unregister"} => reg_callbacks < 0 \/ m_pc' # "idle"
      /\ reg_callbacks < 0 /\ op \in {"register", "unregister"} => m_pc' = "idle"
      /\ m_idx' = IF op = "unregister" THEN idx ELSE 0
  BY DEF Dispatch, Goto, Confirm, Ops
<1>3. ~Restarting /\ ~Restarting' BY <1>1, <1>2 DEF Restarting
<1>4. (InService <=> reg_callbacks >= 0) /\ (InService' <=> InService)
  BY <1>1, <1>3 DEF InService, table
<1>5. UNCHANGED InService BY <1>4 DEF InService
<1>6. SeatMap' = SeatMap
  BY <1>1, <1>2, <1>3, <1>4 DEF SeatMap, Seated, table
<1>7. IdxMap' = IF op = "unregister" THEN idx ELSE 0 BY <1>1, <1>2 DEF IdxMap
<1>8. CASE m_pc' = "idle"
  <2>1. ~InService BY <1>2, <1>4, <1>8 DEF TypeOK
  <2>2. UNCHANGED (m_pc # "idle") BY <1>1, <1>8
  <2>3. Registry!Refuse(op, p, idx) BY <1>1, <1>2, <1>5, <1>6, <1>7, <1>8, <2>1, <2>2 DEF Registry!Refuse
  <2>4. QED BY <2>3
<1>9. CASE m_pc' # "idle"
  <2>1. op \in {"register", "unregister"} => InService BY <1>2, <1>4, <1>9 DEF TypeOK
  <2>2. (m_pc' # "idle") = TRUE BY <1>9
  <2>3. Registry!Ask(op, p, idx) BY <1>1, <1>2, <1>5, <1>6, <1>7, <1>9, <2>1, <2>2 DEF Registry!Ask
  <2>4. QED BY <2>3
<1>10. QED BY <1>8, <1>9

\* An answer frees the registry for the next request.
LEMMA Answered ==
  ASSUME m_pc # "idle", m_pc' = "idle", UNCHANGED <<m_op, m_pid>>
  PROVE  Registry!Answer(m_op, reply')
<1>1. (m_pc' # "idle") = FALSE OBVIOUS
<1>2. QED BY <1>1 DEF Registry!Answer

LEMMA InitImplements ==
  ASSUME TypeOK, RegistryInv, ~keep_alive, CounterInHandler,
         BcmInit \/ ClearSlot \/ SetZero \/ BcmDetach \/ SetDown
  PROVE  Registry!Next \/ UNCHANGED Registry!vars
<1> USE DEF RegistryInv, table, Goto, Confirm
<1>0. m_pc # "idle" /\ reply = "none" /\ m_op \in {"init", "detach"}
  BY DEF BcmInit, ClearSlot, SetZero, BcmDetach, SetDown
<1>1. CASE BcmInit \/ BcmDetach
  <2>1. CASE m_pc' = "idle"
    <3>1. reply' = "bcm_error" /\ UNCHANGED <<Callback, reg_callbacks, m_op, m_pid, m_idx>>
      BY <1>1, <2>1 DEF BcmInit, BcmDetach
    <3>2. ~Restarting /\ ~Restarting' BY <1>1, <2>1 DEF BcmInit, BcmDetach, Restarting
    <3>3. UNCHANGED InService /\ SeatMap' = SeatMap
      BY <1>1, <2>1, <3>1, <3>2 DEF InService, SeatMap, Seated, BcmInit, BcmDetach
    <3>4. IdxMap' = IdxMap BY <1>0, <3>1 DEF IdxMap
    <3>5. Registry!Answer(m_op, "bcm_error") BY <1>0, <2>1, <3>1, Answered
    <3>6. Registry!Fail(m_op) BY <1>0, <3>3, <3>4, <3>5 DEF Registry!Fail
    <3>7. QED BY <1>0, <3>6 DEF Registry!Next
  <2>2. CASE m_pc' = "clear"
    <3>1. BcmInit /\ UNCHANGED <<m_op, m_pid, m_idx, reply>> BY <1>1, <2>2 DEF BcmInit, BcmDetach
    <3>2. m_op = "init" /\ Restarting' BY <2>2, <3>1 DEF BcmInit, Restarting
    <3>3. InService' /\ SeatMap' = Registry!AllFree BY <3>2, NoneSeated DEF InService, Registry!AllFree, SeatMap, Seated
    <3>4. InService' = TRUE BY <3>3
    <3>5. UNCHANGED (m_pc # "idle") /\ IdxMap' = IdxMap BY <1>0, <2>2, <3>1 DEF IdxMap
    <3>6. Registry!Start BY <1>0, <3>1, <3>2, <3>3, <3>4, <3>5 DEF Registry!Start
    <3>7. QED BY <3>6 DEF Registry!Next
  <2>3. CASE m_pc' = "set_down"
    <3>1. BcmDetach /\ UNCHANGED <<Callback, reg_callbacks, m_op, m_pid, m_idx, reply>>
      BY <1>1, <2>3 DEF BcmInit, BcmDetach
    <3>2. SeatMap' = SeatMap /\ (InService' <=> InService)
      BY <2>3, <3>1 DEF BcmDetach, InService, SeatMap, Seated, Restarting
    <3>3. IdxMap' = IdxMap BY <3>1 DEF IdxMap
    <3>4. QED BY <1>0, <2>3, <3>1, <3>2, <3>3, Unseen
  <2>4. QED BY <1>1, <2>1, <2>2, <2>3 DEF BcmInit, BcmDetach
<1>2. CASE ClearSlot
  <2>1. /\ Restarting /\ Restarting' /\ m_pc' # "idle" /\ m_op = "init"
        /\ UNCHANGED <<m_op, m_pid, reply>>
    BY <1>2 DEF ClearSlot, Restarting
  <2>2. SeatMap' = SeatMap /\ (InService' <=> InService)
    BY <2>1 DEF SeatMap, Seated, InService
  <2>3. IdxMap' = IdxMap BY <1>0, <2>1 DEF IdxMap
  <2>4. QED BY <1>0, <2>1, <2>2, <2>3, Unseen
<1>3. CASE SetZero
  <2>1. /\ Restarting /\ m_op = "init" /\ m_idx = 0 /\ reply' = "BCM_E_NONE" /\ m_pc' = "idle"
        /\ reg_callbacks' = 0 /\ UNCHANGED <<Callback, m_op, m_pid, m_idx>>
    BY <1>3 DEF SetZero, Restarting
  <2>2. \A s \in Slots : Callback[s] = NoPid
    <3>1. Cardinality(Registered) = 0 BY <1>3 DEF SetZero, CounterInHandler
    <3>2. IsFiniteSet(Registered) BY SlotsFinite, FS_Subset DEF Registered, Occupied
    <3>3. Registered = {} BY <3>1, <3>2, FS_EmptySet
    <3>4. QED BY <3>3 DEF Registered, Occupied
  <2>3. InService /\ InService' BY <2>1 DEF InService
  <2>4. SeatMap = Registry!AllFree BY <2>1, NoneSeated
  <2>5. SeatMap' = SeatMap BY <2>1, <2>2, <2>4 DEF SeatMap, Registry!AllFree
  <2>6. IdxMap' = IdxMap BY <1>0, <2>1 DEF IdxMap
  <2>7. Registry!Answer("init", "BCM_E_NONE") BY <1>0, <2>1, Answered
  <2>8. UNCHANGED InService BY <2>3
  <2>9. Registry!Started BY <2>3, <2>4, <2>5, <2>6, <2>7, <2>8 DEF Registry!Started
  <2>10. QED BY <2>9 DEF Registry!Next
<1>4. CASE SetDown
  <2>1. /\ m_op = "detach" /\ m_idx = 0 /\ reply' = "BCM_E_NONE" /\ m_pc' = "idle"
        /\ reg_callbacks' = -1 /\ UNCHANGED <<m_op, m_pid, m_idx>>
    BY <1>4 DEF SetDown
  <2>2. ~InService' BY <2>1 DEF InService, Restarting
  <2>3. SeatMap' = Registry!AllFree BY <2>2 DEF SeatMap, Seated, Registry!AllFree
  <2>4. IdxMap' = IdxMap BY <1>0, <2>1 DEF IdxMap
  <2>5. Registry!Answer("detach", "BCM_E_NONE") BY <1>0, <2>1, Answered
  <2>6. InService' = FALSE BY <2>2
  <2>7. Registry!Stop BY <2>3, <2>4, <2>5, <2>6 DEF Registry!Stop
  <2>8. QED BY <2>7 DEF Registry!Next
<1>5. QED BY <1>1, <1>2, <1>3, <1>4

\* What is known in the register and unregister handlers.
LEMMA InHandler ==
  ASSUME TypeOK, CounterInHandler, ~strayed,
         m_pc \in {"dup_scan", "free_scan", "reg_test", "bcm_register", "save", "match",
                   "unreg_test", "bcm_unregister", "dec_load", "dec_store"}
  PROVE  /\ reg_callbacks = Cardinality(Registered) /\ reg_callbacks >= 0
         /\ SeatMap = Callback /\ InService /\ Registry!Taken = Registered
<1>1. reg_callbacks = Cardinality(Registered) BY DEF CounterInHandler
<1>2. reg_callbacks >= 0 BY <1>1, CountNat DEF Registered
<1>3. m_pc \notin {"clear", "set_zero", "inc_load", "inc_store"} OBVIOUS
<1>4. QED BY <1>1, <1>2, <1>3, AllSeated

\* An answer that changes nothing but the answer.
LEMMA OnlyAnswers ==
  ASSUME TypeOK, RegistryInv, ~keep_alive, CounterInHandler, ~strayed,
         m_pc \in {"dup_scan", "free_scan", "bcm_register", "match", "bcm_unregister"},
         m_pc' = "idle", reply' # "BCM_E_NONE",
         UNCHANGED <<Callback, reg_callbacks, m_op, m_pid, m_idx>>
  PROVE  /\ Registry!Answer(m_op, reply')
         /\ UNCHANGED <<InService, SeatMap, IdxMap>>
<1>1. reply = "none" /\ m_pc # "idle" BY DEF RegistryInv
<1>2. InService /\ reg_callbacks >= 0 BY InHandler
<1>3. InService' /\ ~Restarting /\ ~Restarting' BY <1>2 DEF InService, Restarting
<1>4. UNCHANGED InService BY <1>2, <1>3
<1>5. UNCHANGED SeatMap BY <1>2, <1>3 DEF SeatMap, Seated
<1>6. UNCHANGED IdxMap BY <1>1 DEF IdxMap
<1>7. QED BY <1>1, <1>4, <1>5, <1>6, Answered

LEMMA RegisterImplements ==
  ASSUME TypeOK, RegistryInv, RegisterInv, ~keep_alive, CounterInHandler, ~strayed,
         DupScan \/ FreeScan \/ RegTest \/ BcmRegister \/ Save \/ IncLoad \/ IncStore
  PROVE  Registry!Next \/ UNCHANGED Registry!vars
<1> USE DEF table, Goto, Confirm
<1>0. m_pc # "idle" /\ reply = "none" /\ m_op = "register" /\ m_pid \in Pids /\ m_pid # NoPid
  BY LinkscanAssumption DEF DupScan, FreeScan, RegTest, BcmRegister, Save, IncLoad, IncStore, RegistryInv, RegisterInv
<1>1. CASE DupScan
  <2>1. m_pc = "dup_scan" /\ UNCHANGED <<Callback, reg_callbacks, m_op, m_pid>> BY <1>1 DEF DupScan
  <2>2. CASE Callback[m_idx] = m_pid
    <3>1. m_pc' = "idle" /\ reply' = "CMD_ERROR" /\ UNCHANGED m_idx BY <1>1, <2>2 DEF DupScan
    <3>2. Registry!Answer("register", "CMD_ERROR") /\ UNCHANGED <<InService, SeatMap, IdxMap>>
      BY <1>0, <2>1, <3>1, OnlyAnswers
    <3>3. SeatMap[m_idx] = m_pid /\ m_idx \in Slots BY <2>1, <2>2, InHandler DEF TypeOK, Scanning
    <3>4. m_pid \in Registry!Holders BY <1>0, <3>3 DEF Registry!Holders, Registry!Taken
    <3>5. Registry!Twice BY <3>2, <3>4 DEF Registry!Twice
    <3>6. QED BY <3>5 DEF Registry!Next
  <2>3. CASE Callback[m_idx] # m_pid
    <3>1. m_pc' \in {"dup_scan", "free_scan"} /\ UNCHANGED reply BY <1>1, <2>3 DEF DupScan
    <3>2. QED BY <1>0, <2>1, <3>1, UnseenSame, InHandler
  <2>4. QED BY <2>2, <2>3
<1>2. CASE FreeScan
  <2>1. m_pc = "free_scan" /\ UNCHANGED <<Callback, reg_callbacks, m_op, m_pid>> BY <1>2 DEF FreeScan
  <2>2. CASE m_pc' = "idle"
    <3>1. Callback[m_idx] # NoPid /\ m_idx + 1 \notin Slots /\ reply' = "BCM_E_MEMORY" /\ UNCHANGED m_idx
      BY <1>2, <2>2 DEF FreeScan
    <3>2. Registry!Answer("register", "BCM_E_MEMORY") /\ UNCHANGED <<InService, SeatMap, IdxMap>>
      BY <1>0, <2>1, <2>2, <3>1, OnlyAnswers
    <3>3. \A s \in Slots : s < m_idx \/ s = m_idx
      BY <2>1, <3>1, LinkscanAssumption DEF Slots, TypeOK, Scanning
    <3>4. \A s \in Slots : Callback[s] # NoPid BY <2>1, <3>1, <3>3 DEF RegistryInv
    <3>5. \A s \in Slots : Callback[s] # m_pid BY <2>1 DEF RegisterInv
    <3>6. SeatMap = Callback BY <2>1, InHandler
    <3>7. Registry!Taken = Slots /\ m_pid \notin Registry!Holders
      BY <3>4, <3>5, <3>6 DEF Registry!Taken, Registry!Holders
    <3>8. Registry!Full BY <3>2, <3>7 DEF Registry!Full
    <3>9. QED BY <3>8 DEF Registry!Next
  <2>3. CASE m_pc' # "idle"
    <3>1. m_pc' \in {"free_scan", "reg_test"} /\ UNCHANGED reply BY <1>2, <2>1, <2>3 DEF FreeScan
    <3>2. QED BY <1>0, <2>1, <3>1, UnseenSame, InHandler
  <2>4. QED BY <2>2, <2>3
<1>3. CASE RegTest
  <2>1. /\ m_pc = "reg_test" /\ m_pc' \in {"save", "bcm_register"}
        /\ UNCHANGED <<Callback, reg_callbacks, m_op, m_pid, m_idx, reply>>
    BY <1>3 DEF RegTest
  <2>2. QED BY <1>0, <2>1, UnseenSame, InHandler
<1>4. CASE BcmRegister
  <2>1. m_pc = "bcm_register" /\ UNCHANGED <<Callback, reg_callbacks, m_op, m_pid, m_idx>> BY <1>4 DEF BcmRegister
  <2>2. CASE m_pc' = "idle"
    <3>1. reply' = "bcm_error" BY <1>4, <2>2 DEF BcmRegister
    <3>2. Registry!Answer("register", "bcm_error") /\ UNCHANGED <<InService, SeatMap, IdxMap>>
      BY <1>0, <2>1, <2>2, <3>1, OnlyAnswers
    <3>3. \A s \in Slots : Callback[s] # m_pid BY <2>1 DEF RegisterInv
    <3>4. SeatMap = Callback /\ Registry!Taken = Registered /\ reg_callbacks = Cardinality(Registered)
      BY <2>1, InHandler
    <3>5. m_pid \notin Registry!Holders BY <3>3, <3>4 DEF Registry!Holders, Registry!Taken
    <3>6. \A s, r \in Registry!Taken : s = r
      <4>1. reg_callbacks <= 1 BY <2>1 DEF RegistryInv
      <4>2. IsFiniteSet(Registered) BY SlotsFinite, FS_Subset DEF Registered, Occupied
      <4>3. Cardinality(Registered) \in Nat BY <4>2, FS_CardinalityType
      <4>4. Cardinality(Registered) = 0 \/ Cardinality(Registered) = 1 BY <3>4, <4>1, <4>3
      <4>5. Registered = {} \/ \E x : Registered = {x} BY <4>2, <4>4, FS_EmptySet, FS_Singleton
      <4>6. QED BY <3>4, <4>5
    <3>7. Registry!Fail("register") BY <3>2, <3>5, <3>6 DEF Registry!Fail
    <3>8. QED BY <3>7 DEF Registry!Next
  <2>3. CASE m_pc' # "idle"
    <3>1. m_pc' = "save" /\ UNCHANGED reply BY <1>4, <2>3 DEF BcmRegister
    <3>2. QED BY <1>0, <2>1, <3>1, UnseenSame, InHandler
  <2>4. QED BY <2>2, <2>3
<1>5. CASE Save
  <2>1. /\ m_pc = "save" /\ m_pc' = "inc_load" /\ Callback' = [Callback EXCEPT ![m_idx] = m_pid]
        /\ UNCHANGED <<reg_callbacks, m_op, m_pid, m_idx, reply>> /\ m_idx \in Slots
    BY <1>5 DEF Save, TypeOK, Scanning
  <2>2. Callback[m_idx] = NoPid BY <2>1 DEF RegisterInv
  <2>3. reg_callbacks >= 0 /\ SeatMap = Callback BY <2>1, InHandler
  <2>4. InService /\ InService' /\ ~Restarting' BY <2>1, <2>3 DEF InService, Restarting
  <2>5. \A s \in Slots : Seated(s)' <=> s # m_idx BY <2>1, <2>4 DEF Seated
  <2>6. SeatMap' = Callback BY <2>1, <2>2, <2>5 DEF SeatMap, TypeOK
  <2>7. IdxMap' = IdxMap BY <2>1 DEF IdxMap
  <2>8. QED BY <2>1, <2>3, <2>4, <2>6, <2>7, Unseen
<1>6. CASE IncLoad
  <2>1. /\ m_pc = "inc_load" /\ m_pc' = "inc_store"
        /\ UNCHANGED <<Callback, reg_callbacks, m_op, m_pid, m_idx, reply>>
    BY <1>6 DEF IncLoad
  <2>2. SeatMap' = SeatMap /\ (InService' <=> InService)
    BY <2>1 DEF InService, SeatMap, Seated, Restarting
  <2>3. IdxMap' = IdxMap BY <2>1 DEF IdxMap
  <2>4. QED BY <2>1, <2>2, <2>3, Unseen
<1>7. CASE IncStore
  <2>1. /\ m_pc = "inc_store" /\ m_pc' = "idle" /\ reply' = "BCM_E_NONE" /\ reg_callbacks' = m_cnt + 1
        /\ UNCHANGED <<Callback, m_op, m_pid, m_idx>> /\ m_idx \in Slots
    BY <1>7 DEF IncStore, TypeOK, Scanning
  <2>2. Callback[m_idx] = m_pid BY <2>1 DEF RegistryInv
  <2>3. reg_callbacks = Cardinality(Registered) - 1 /\ m_cnt = reg_callbacks BY <2>1 DEF CounterInHandler
  <2>4. Cardinality(Registered) >= 1
    <3>1. Registered # {} BY <1>0, <2>1, <2>2 DEF Registered, Occupied
    <3>2. IsFiniteSet(Registered) BY SlotsFinite, FS_Subset DEF Registered, Occupied
    <3>3. Cardinality(Registered) \in Nat /\ Cardinality(Registered) # 0
      BY <3>1, <3>2, FS_EmptySet, FS_CardinalityType
    <3>4. QED BY <3>3
  <2>5. Cardinality(Registered) \in Nat BY CountNat DEF Registered
  <2>6. reg_callbacks >= 0 /\ reg_callbacks' >= 0 BY <2>1, <2>3, <2>4, <2>5
  <2>7. InService /\ InService' /\ ~Restarting /\ ~Restarting' BY <2>1, <2>6 DEF InService, Restarting
  <2>8. \A s \in Slots : (Seated(s) <=> s # m_idx) /\ Seated(s)' BY <2>1, <2>7 DEF Seated
  <2>9. SeatMap' = [SeatMap EXCEPT ![m_idx] = m_pid]
    BY <2>1, <2>2, <2>8 DEF SeatMap
  <2>10. SeatMap[m_idx] = NoPid /\ \A s \in Slots : SeatMap[s] # m_pid
    BY <1>0, <2>1, <2>2, <2>8 DEF SeatMap, RegisterInv, OnePerClient
  <2>11. m_idx \notin Registry!Taken /\ m_pid \notin Registry!Holders
    BY <2>10 DEF Registry!Taken, Registry!Holders
  <2>12. IdxMap' = m_idx BY <2>1 DEF IdxMap
  <2>13. Registry!Answer("register", "BCM_E_NONE") BY <1>0, <2>1, Answered
  <2>14. UNCHANGED InService BY <2>7
  <2>15. Registry!Join(m_idx) BY <2>7, <2>9, <2>11, <2>12, <2>13, <2>14 DEF Registry!Join
  <2>16. QED BY <2>1, <2>15 DEF Registry!Next
<1>8. QED BY <1>1, <1>2, <1>3, <1>4, <1>5, <1>6, <1>7

LEMMA UnregisterImplements ==
  ASSUME TypeOK, RegistryInv, RegisterInv, ~keep_alive, CounterInHandler, ~strayed, ~Straying', HandlerInHandler,
         Match \/ UnregTest \/ BcmUnregister \/ DecLoad \/ DecStore \/ Release
  PROVE  Registry!Next \/ UNCHANGED Registry!vars
<1> USE DEF table, Goto, Confirm
<1>0. /\ m_pc # "idle" /\ reply = "none" /\ m_op = "unregister" /\ m_pid \in Pids /\ m_pid # NoPid
      /\ IdxMap = m_idx /\ (m_pc # "match" => m_idx \in Slots)
  BY LinkscanAssumption
  DEF Match, UnregTest, BcmUnregister, DecLoad, DecStore, Release, RegistryInv, RegisterInv, CounterInHandler, IdxMap
<1>1. CASE Match
  <2>1. m_pc = "match" /\ UNCHANGED <<Callback, reg_callbacks, m_op, m_pid, m_idx>> BY <1>1 DEF Match
  <2>2. CASE m_pc' = "idle"
    <3>1. reply' = "CMD_ERROR" /\ (m_idx \in Slots => Callback[m_idx] # m_pid) BY <1>1, <2>2 DEF Match
    <3>2. Registry!Answer("unregister", "CMD_ERROR") /\ UNCHANGED <<InService, SeatMap, IdxMap>>
      BY <1>0, <2>1, <2>2, <3>1, OnlyAnswers
    <3>3. IdxMap \in Slots => SeatMap[IdxMap] # m_pid BY <1>0, <2>1, <3>1, InHandler
    <3>4. Registry!NotYours BY <3>2, <3>3 DEF Registry!NotYours
    <3>5. QED BY <3>4 DEF Registry!Next
  <2>3. CASE m_pc' # "idle"
    <3>1. m_pc' = "unreg_test" /\ UNCHANGED reply BY <1>1, <2>3 DEF Match
    <3>2. QED BY <1>0, <2>1, <3>1, UnseenSame, InHandler
  <2>4. QED BY <2>2, <2>3
<1>2. CASE UnregTest \/ DecLoad
  <2>1. /\ m_pc \in {"unreg_test", "dec_load"} /\ m_pc' \in {"dec_load", "bcm_unregister", "dec_store"}
        /\ UNCHANGED <<Callback, reg_callbacks, m_op, m_pid, m_idx, reply>>
    BY <1>2 DEF UnregTest, DecLoad
  <2>2. QED BY <1>0, <2>1, UnseenSame, InHandler
<1>3. CASE BcmUnregister
  <2>1. m_pc = "bcm_unregister" /\ UNCHANGED <<Callback, reg_callbacks, m_op, m_pid, m_idx>> BY <1>3 DEF BcmUnregister
  <2>2. CASE m_pc' = "idle"
    <3>1. reply' = "bcm_error" BY <1>3, <2>2 DEF BcmUnregister
    <3>2. Registry!Answer("unregister", "bcm_error") /\ UNCHANGED <<InService, SeatMap, IdxMap>>
      BY <1>0, <2>1, <2>2, <3>1, OnlyAnswers
    <3>3. Callback[m_idx] = m_pid BY <2>1 DEF CounterInHandler
    <3>4. SeatMap = Callback /\ Registry!Taken = Registered /\ reg_callbacks = Cardinality(Registered)
      BY <2>1, InHandler
    <3>5. Registered = {m_idx}
      <4>1. m_idx \in Registered BY <1>0, <2>1, <3>3 DEF Registered, Occupied
      <4>2. IsFiniteSet(Registered) BY SlotsFinite, FS_Subset DEF Registered, Occupied
      <4>3. Cardinality(Registered) \in Nat /\ Cardinality(Registered) # 0
        BY <4>1, <4>2, FS_EmptySet, FS_CardinalityType
      <4>4. reg_callbacks <= 1 BY <2>1 DEF HandlerInHandler
      <4>5. Cardinality(Registered) = 1 BY <3>4, <4>3, <4>4
      <4>6. \E x : Registered = {x} BY <4>2, <4>5, FS_Singleton
      <4>7. QED BY <4>1, <4>6
    <3>6. Registry!Fail("unregister") BY <1>0, <3>2, <3>3, <3>4, <3>5 DEF Registry!Fail
    <3>7. QED BY <3>6 DEF Registry!Next
  <2>3. CASE m_pc' # "idle"
    <3>1. m_pc' = "dec_load" /\ UNCHANGED reply BY <1>3, <2>3 DEF BcmUnregister
    <3>2. QED BY <1>0, <2>1, <3>1, UnseenSame, InHandler
  <2>4. QED BY <2>2, <2>3
<1>4. CASE DecStore
  <2>1. /\ m_pc = "dec_store" /\ m_pc' = "release" /\ reg_callbacks' = m_cnt - 1
        /\ UNCHANGED <<Callback, m_op, m_pid, m_idx, reply>>
    BY <1>4 DEF DecStore
  <2>2. m_cnt = reg_callbacks /\ reg_callbacks = Cardinality(Registered) /\ Callback[m_idx] = m_pid
    BY <2>1 DEF CounterInHandler
  <2>3. Cardinality(Registered) >= 1 /\ Cardinality(Registered) \in Nat
    <3>1. Registered # {} BY <1>0, <2>1, <2>2 DEF Registered, Occupied
    <3>2. IsFiniteSet(Registered) BY SlotsFinite, FS_Subset DEF Registered, Occupied
    <3>3. Cardinality(Registered) \in Nat /\ Cardinality(Registered) # 0
      BY <3>1, <3>2, FS_EmptySet, FS_CardinalityType
    <3>4. QED BY <3>3
  <2>4. reg_callbacks >= 0 /\ reg_callbacks' >= 0 BY <2>1, <2>2, <2>3
  <2>5. InService /\ InService' /\ ~Restarting /\ ~Restarting' BY <2>1, <2>4 DEF InService, Restarting
  <2>6. SeatMap' = SeatMap BY <2>1, <2>5 DEF SeatMap, Seated
  <2>7. IdxMap' = IdxMap BY <2>1 DEF IdxMap
  <2>8. QED BY <2>1, <2>5, <2>6, <2>7, Unseen
<1>5. CASE Release
  <2>1. /\ m_pc = "release" /\ m_pc' = "idle" /\ reply' = "BCM_E_NONE"
        /\ Callback' = [Callback EXCEPT ![m_idx] = NoPid]
        /\ UNCHANGED <<reg_callbacks, m_op, m_pid, m_idx>> /\ m_idx \in Slots
    BY <1>0, <1>5 DEF Release, TypeOK
  <2>2. Callback[m_idx] = m_pid /\ reg_callbacks = Cardinality(Registered) - 1 BY <2>1 DEF CounterInHandler
  <2>3. reg_callbacks >= 0
    <3>1. Registered # {} BY <1>0, <2>1, <2>2 DEF Registered, Occupied
    <3>2. IsFiniteSet(Registered) BY SlotsFinite, FS_Subset DEF Registered, Occupied
    <3>3. Cardinality(Registered) \in Nat /\ Cardinality(Registered) # 0
      BY <3>1, <3>2, FS_EmptySet, FS_CardinalityType
    <3>4. QED BY <2>2, <3>3
  <2>4. InService /\ InService' /\ ~Restarting /\ ~Restarting' BY <2>1, <2>3 DEF InService, Restarting
  <2>5. \A s \in Slots : Seated(s) /\ Seated(s)' BY <2>1, <2>4 DEF Seated
  <2>6. SeatMap = Callback /\ SeatMap' = [SeatMap EXCEPT ![m_idx] = NoPid]
    BY <2>1, <2>5 DEF SeatMap, TypeOK
  <2>7. SeatMap[IdxMap] = m_pid /\ IdxMap' = IdxMap BY <1>0, <2>1, <2>2, <2>6 DEF IdxMap
  <2>8. Registry!Answer("unregister", "BCM_E_NONE") BY <1>0, <2>1, Answered
  <2>9. UNCHANGED InService BY <2>4
  <2>10. Registry!Leave BY <1>0, <2>1, <2>4, <2>6, <2>7, <2>8, <2>9 DEF Registry!Leave
  <2>11. QED BY <2>10 DEF Registry!Next
<1>6. QED BY <1>1, <1>2, <1>3, <1>4, <1>5

\* Without the keep-alive thread, for every number of clients and entries,
\* the server is the registry it promises to be.
THEOREM RegistryImplemented == Spec => ImplementsRegistry
<1>1. Init => (~keep_alive => Registry!Init)
  <2> SUFFICES ASSUME Init, ~keep_alive PROVE Registry!Init
    OBVIOUS
  <2>1. reg_callbacks = -1 /\ m_pc = "idle" /\ m_idx = 0 /\ m_op = "init" /\ m_pid = NoPid /\ reply = "none"
    BY DEF Init
  <2>2. ~InService BY <2>1 DEF InService, Restarting
  <2>3. SeatMap = Registry!AllFree BY <2>2, NoneSeated
  <2>4. IdxMap = 0 BY <2>1 DEF IdxMap
  <2>5. InService \in BOOLEAN BY Zenon DEF InService
  <2>6. QED BY <2>1, <2>3, <2>4, <2>5 DEF Registry!Init
<1>2. TypeOK /\ RegisterInv /\ RegistryInv /\ SerialInv /\ [Next]_vars =>
        [~keep_alive /\ ~strayed' => Registry!Next]_(Registry!vars)
  <2> SUFFICES ASSUME TypeOK, RegisterInv, RegistryInv, SerialInv, [Next]_vars, ~keep_alive, ~strayed'
      PROVE  Registry!Next \/ UNCHANGED Registry!vars
    OBVIOUS
  <2>1. CounterInHandler /\ HandlerInHandler BY DEF RegistryInv, SerialInv
  <2>2. CASE UNCHANGED vars
    <3>1. UNCHANGED <<Callback, reg_callbacks, m_pc, m_op, m_pid, m_idx, reply>> BY <2>2 DEF vars, table, main
    <3>2. SeatMap' = SeatMap /\ (InService' <=> InService)
      BY <3>1 DEF SeatMap, Seated, InService, Restarting
    <3>3. UNCHANGED InService BY <3>2 DEF InService
    <3>4. UNCHANGED (m_pc # "idle") /\ IdxMap' = IdxMap BY <3>1 DEF IdxMap
    <3>5. QED BY <3>1, <3>2, <3>3, <3>4 DEF Registry!vars
  <2>3. CASE KeepStep BY <2>3, NoKeepStep
  <2>4. ASSUME NEW op \in Ops, NEW p \in Pids, NEW idx \in Indices, Dispatch(op, p, idx)
        PROVE  Registry!Next
    <3>1. Registry!Ask(op, p, idx) \/ Registry!Refuse(op, p, idx) BY <2>4, DispatchImplements
    <3>2. QED BY <3>1 DEF Registry!Next, Ops
  <2>5. CASE Next /\ HandlerStep
    <3>1. ~Straying' /\ (strayed => Emptied) BY <2>5 DEF Next
    <3>2. CASE strayed
      <4>1. m_pc = "set_zero" BY <3>1, <3>2 DEF Emptied
      <4>2. SetZero
        BY <2>5, <4>1 DEF HandlerStep, BcmInit, ClearSlot, BcmDetach, SetDown, DupScan, FreeScan,
             RegTest, BcmRegister, Save, IncLoad, IncStore, Match, UnregTest, BcmUnregister,
             DecLoad, DecStore, Release
      <4>3. QED BY <2>1, <4>2, InitImplements
    <3>3. CASE ~strayed
      BY <2>1, <2>5, <3>1, <3>3, InitImplements, RegisterImplements, UnregisterImplements
      DEF HandlerStep
    <3>4. QED BY <3>2, <3>3
  <2>6. QED BY <2>2, <2>3, <2>4, <2>5 DEF Next, MainStep
<1>3. QED
  BY <1>1, <1>2, TypeCorrect, RegisterInvCorrect, RegistryInvCorrect, SerialInvCorrect, PTL
  DEF Spec, ImplementsRegistry
=============================================================================
