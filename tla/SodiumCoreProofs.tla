-------------------------- MODULE SodiumCoreProofs --------------------------
(***************************************************************************)
(* Theorems about SodiumCore, for every set of threads, every set of       *)
(* handlers and every number of calls.                                     *)
(***************************************************************************)
EXTENDS SodiumCore, TLAPS

USE DEF Set, At, Goto, shared, local, ghost

-----------------------------------------------------------------------------
(* Types.                                                                  *)

(* crit_leave() returns to one of four places, with a result.              *)
LEMMA LeaveTypes ==
    ASSUME TypeOK, NEW t \in Thread, NEW ok \in BOOLEAN, Leave(t, ok), Told(t, ok)
    PROVE  /\ pc' \in [Thread -> Labels] /\ after' \in [Thread -> {"return", "lock", "handle"}]
           /\ ret' \in [Thread -> {-1, 0, 1}]
           /\ \A u \in Thread : u # t => pc'[u] = pc[u]
           /\ pc'[t] \in {"lock", "handler", "abort", "idle"}
           /\ winner' = winner /\ zero' \subseteq Thread /\ one' \subseteq Thread
           /\ \A u \in Thread : ret'[u] = -1 => ret[u] = -1 \/ ~ ok
<1> USE DEF TypeOK, Labels
<1>1. CASE after[t] = "lock"
  BY <1>1 DEF Leave, Told
<1>2. CASE after[t] = "handle"
  BY <1>2 DEF Leave, Told
<1>3. CASE after[t] = "return"
  BY <1>3 DEF Leave, Told
<1> QED BY <1>1, <1>2, <1>3

(* Every step keeps the type of every variable.                            *)
LEMMA TypeStep == TypeOK /\ [Next]_vars => TypeOK'
<1> SUFFICES ASSUME TypeOK, [Next]_vars PROVE TypeOK'
  OBVIOUS
<1> USE HandlersAssumption, NobodyAssumption, MaxCallsAssumption DEF TypeOK, Labels, Parts
<1>1. ASSUME NEW t \in Thread, CallInit(t) PROVE TypeOK'
  BY <1>1 DEF CallInit, MayCall
<1>2. ASSUME NEW t \in Thread, NEW h \in Handlers, CallSetHandler(t, h) PROVE TypeOK'
  BY <1>2 DEF CallSetHandler, MayCall
<1>3. ASSUME NEW t \in Thread, CallMisuse(t) PROVE TypeOK'
  BY <1>3 DEF CallMisuse, MayCall
<1>4. ASSUME NEW t \in Thread, Lock(t) PROVE TypeOK'
  BY <1>4 DEF Lock
<1>5. ASSUME NEW t \in Thread, SetLocked(t) PROVE TypeOK'
  BY <1>5 DEF SetLocked, Body
<1>22. ASSUME NEW t \in Thread, AssertHolds(t) PROVE TypeOK'
  BY <1>22 DEF AssertHolds
<1>6. ASSUME NEW t \in Thread, AssertFails(t) PROVE TypeOK'
  BY <1>6 DEF AssertFails
<1>7. ASSUME NEW t \in Thread, LeaveUnlocked(t) PROVE TypeOK'
  <2>1. Leave(t, FALSE) /\ Told(t, FALSE) /\ TypeOK
    BY <1>7 DEF LeaveUnlocked
  <2>2. /\ pc' \in [Thread -> Labels] /\ after' \in [Thread -> {"return", "lock", "handle"}]
        /\ ret' \in [Thread -> {-1, 0, 1}] /\ pc'[t] \in {"lock", "handler", "abort", "idle"}
        /\ \A u \in Thread : u # t => pc'[u] = pc[u]
        /\ winner' = winner /\ zero' \subseteq Thread /\ one' \subseteq Thread
    BY ONLY <2>1, t \in Thread, LeaveTypes
  <2> QED BY <1>7, <2>2 DEF LeaveUnlocked, shared
<1>8. ASSUME NEW t \in Thread, LeaveLocked(t) PROVE TypeOK'
  BY <1>8 DEF LeaveLocked
<1>9. ASSUME NEW t \in Thread, ClearLocked(t) PROVE TypeOK'
  BY <1>9 DEF ClearLocked
<1>10. ASSUME NEW t \in Thread, Unlock(t) PROVE TypeOK'
  <2>1. Leave(t, TRUE) /\ Told(t, TRUE) /\ TypeOK
    BY <1>10 DEF Unlock
  <2>2. /\ pc' \in [Thread -> Labels] /\ after' \in [Thread -> {"return", "lock", "handle"}]
        /\ ret' \in [Thread -> {-1, 0, 1}] /\ pc'[t] \in {"lock", "handler", "abort", "idle"}
        /\ \A u \in Thread : u # t => pc'[u] = pc[u]
        /\ winner' = winner /\ zero' \subseteq Thread /\ one' \subseteq Thread
    BY ONLY <2>1, t \in Thread, LeaveTypes
  <2> QED BY <1>10, <2>2 DEF Unlock, shared
<1>11. ASSUME NEW t \in Thread, UnlockAnothers(t) PROVE TypeOK'
  <2> PICK how \in ForeignUnlock : /\ mutex' = IF how = "release" THEN Nobody ELSE mutex
                                   /\ Leave(t, how = "release") /\ Told(t, how = "release")
    BY <1>11 DEF UnlockAnothers
  <2> QED BY <1>11, LeaveTypes DEF UnlockAnothers
<1>12. ASSUME NEW t \in Thread, TestInitialized(t) PROVE TypeOK'
  BY <1>12 DEF TestInitialized
<1>13. ASSUME NEW t \in Thread, Work(t) PROVE TypeOK'
  <2>1. step[t] + 1 \in 1 .. 5
    BY <1>13 DEF Work
  <2>2. ready' \subseteq Parts
    BY <1>13 DEF Work
  <2>3. step' = [step EXCEPT ![t] = step[t] + 1]
    BY <1>13 DEF Work
  <2>4. step' \in [Thread -> 1 .. 5]
    <3> DEFINE S == 1 .. 5
    <3>1. step \in [Thread -> S] /\ step[t] + 1 \in S
      BY <2>1
    <3> HIDE DEF S
    <3>2. step' \in [Thread -> S]
      BY <3>1, <2>3
    <3> QED BY <3>2 DEF S
  <2> QED BY <1>13, <2>2, <2>4 DEF Work
<1>14. ASSUME NEW t \in Thread, WorkFails(t) PROVE TypeOK'
  BY <1>14 DEF WorkFails
<1>15. ASSUME NEW t \in Thread, SetInitialized(t) PROVE TypeOK'
  BY <1>15 DEF SetInitialized
<1>16. ASSUME NEW t \in Thread, StoreHandler(t) PROVE TypeOK'
  BY <1>16 DEF StoreHandler
<1>17. ASSUME NEW t \in Thread, LoadHandler(t) PROVE TypeOK'
  BY <1>17 DEF LoadHandler
<1>18. ASSUME NEW t \in Thread, HandlerCalls(t) PROVE TypeOK'
  BY <1>18 DEF HandlerCalls
<1>19. ASSUME NEW t \in Thread, HandlerReturns(t) PROVE TypeOK'
  BY <1>19 DEF HandlerReturns
<1>20. ASSUME NEW t \in Thread, Abort(t) PROVE TypeOK'
  BY <1>20 DEF Abort
<1>21. CASE UNCHANGED vars
  BY <1>21 DEF vars
<1> QED
  BY <1>1, <1>2, <1>3, <1>4, <1>5, <1>6, <1>7, <1>8, <1>9, <1>10, <1>11, <1>12, <1>13, <1>14,
     <1>15, <1>16, <1>17, <1>18, <1>19, <1>20, <1>21, <1>22 DEF Next, Call, Run

(* The variables of core.c and the program counters keep their types       *)
(* whatever the threads do.                                                *)
THEOREM TypeInvariant == Spec => []TypeOK
<1>1. Init => TypeOK
  BY HandlersAssumption, MaxCallsAssumption DEF Init, TypeOK, Labels, Parts
<1> QED BY <1>1, TypeStep, PTL DEF Spec

-----------------------------------------------------------------------------
(* The critical section.                                                   *)

(* A thread that has the mutex is in the section.                          *)
OwnerIsInside == \A t \in Thread : mutex = t => pc[t] \in Holding

SectionInv == SectionIsExclusive /\ OwnerIsInside

LEMMA SectionStep ==
    ASSUME Outsiders = {}, TypeOK, SectionInv, [Next]_vars
    PROVE  SectionInv'
<1> USE NobodyAssumption DEF SectionInv, SectionIsExclusive, OwnerIsInside, Holding, TypeOK
<1>1. ASSUME NEW t \in Thread, CallInit(t) PROVE SectionInv'
  BY <1>1 DEF CallInit, MayCall
<1>2. ASSUME NEW t \in Thread, NEW h \in Handlers, CallSetHandler(t, h) PROVE SectionInv'
  BY <1>2 DEF CallSetHandler, MayCall
<1>3. ASSUME NEW t \in Thread, CallMisuse(t) PROVE SectionInv'
  BY <1>3 DEF CallMisuse
<1>4. ASSUME NEW t \in Thread, Lock(t) PROVE SectionInv'
  BY <1>4 DEF Lock
<1>5. ASSUME NEW t \in Thread, SetLocked(t) PROVE SectionInv'
  <2>1. Body(t) \in {"test", "store", "load"}
    BY <1>5 DEF SetLocked, Body
  <2>2. pc' = [pc EXCEPT ![t] = Body(t)] /\ mutex = t /\ mutex' = t
    BY <1>5 DEF SetLocked
  <2> QED BY <1>5, <2>1, <2>2 DEF SetLocked
<1>22. ASSUME NEW t \in Thread, AssertHolds(t) PROVE SectionInv'
  BY <1>22 DEF AssertHolds
<1>6. ASSUME NEW t \in Thread, AssertFails(t) PROVE SectionInv'
  BY <1>6 DEF AssertFails
<1>7. ASSUME NEW t \in Thread, LeaveUnlocked(t) PROVE SectionInv'
  BY <1>7 DEF LeaveUnlocked
<1>8. ASSUME NEW t \in Thread, LeaveLocked(t) PROVE SectionInv'
  BY <1>8 DEF LeaveLocked
<1>9. ASSUME NEW t \in Thread, ClearLocked(t) PROVE SectionInv'
  BY <1>9 DEF ClearLocked
<1>10. ASSUME NEW t \in Thread, Unlock(t) PROVE SectionInv'
  <2>1. /\ \A u \in Thread : u # t => pc'[u] = pc[u] /\ pc[u] \notin Holding
        /\ pc'[t] \notin Holding
        /\ \A u \in Thread : ret'[u] # -1
    BY <1>10, LeaveTypes DEF Unlock
  <2>2. locked = 0 /\ mutex' = Nobody /\ locked' = locked /\ end' = end
    BY <1>10 DEF Unlock
  <2> QED BY <2>1, <2>2
<1>11. ASSUME NEW t \in Thread, UnlockAnothers(t) PROVE SectionInv'
  BY <1>11 DEF UnlockAnothers
<1>12. ASSUME NEW t \in Thread, TestInitialized(t) PROVE SectionInv'
  BY <1>12 DEF TestInitialized
<1>13. ASSUME NEW t \in Thread, Work(t) PROVE SectionInv'
  BY <1>13 DEF Work
<1>14. ASSUME NEW t \in Thread, WorkFails(t) PROVE SectionInv'
  BY <1>14 DEF WorkFails
<1>15. ASSUME NEW t \in Thread, SetInitialized(t) PROVE SectionInv'
  BY <1>15 DEF SetInitialized
<1>16. ASSUME NEW t \in Thread, StoreHandler(t) PROVE SectionInv'
  BY <1>16 DEF StoreHandler
<1>17. ASSUME NEW t \in Thread, LoadHandler(t) PROVE SectionInv'
  BY <1>17 DEF LoadHandler
<1>18. ASSUME NEW t \in Thread, HandlerCalls(t) PROVE SectionInv'
  BY <1>18 DEF HandlerCalls
<1>19. ASSUME NEW t \in Thread, HandlerReturns(t) PROVE SectionInv'
  BY <1>19 DEF HandlerReturns
<1>20. ASSUME NEW t \in Thread, Abort(t) PROVE SectionInv'
  BY <1>20 DEF Abort
<1>21. CASE UNCHANGED vars
  BY <1>21 DEF vars
<1> QED
  BY <1>1, <1>2, <1>3, <1>4, <1>5, <1>6, <1>7, <1>8, <1>9, <1>10, <1>11, <1>12, <1>13, <1>14,
     <1>15, <1>16, <1>17, <1>18, <1>19, <1>20, <1>21, <1>22 DEF Next, Call, Run

LEMMA SectionInvariant ==
    ASSUME Outsiders = {} PROVE Spec => [](TypeOK /\ SectionInv)
<1>1. Init => TypeOK
  BY HandlersAssumption, MaxCallsAssumption DEF Init, TypeOK, Labels, Parts
<1>2. Init => SectionInv
  BY NobodyAssumption
  DEF Init, SectionInv, SectionIsExclusive, OwnerIsInside, Holding
<1>3. TypeOK /\ SectionInv /\ [Next]_vars => TypeOK' /\ SectionInv'
  BY TypeStep, SectionStep
<1> QED BY <1>1, <1>2, <1>3, PTL DEF Spec

(* When only sodium_init() misuses the library, the critical section of    *)
(* core.c excludes, its assertion and every crit_leave() succeed, for any  *)
(* number of threads.                                                      *)
THEOREM Exclusion == ASSUME Outsiders = {} PROVE Spec => []SectionIsExclusive
<1>1. SectionInv => SectionIsExclusive
  BY DEF SectionInv
<1> QED BY <1>1, SectionInvariant, PTL

(* ... and the misuse handler always runs without the lock.                *)
THEOREM UnlockedHandler == ASSUME Outsiders = {} PROVE Spec => []HandlerRunsUnlocked
<1>1. SectionInv => HandlerRunsUnlocked
  BY DEF SectionInv, OwnerIsInside, Holding, HandlerRunsUnlocked
<1> QED BY <1>1, SectionInvariant, PTL

-----------------------------------------------------------------------------
(* What sodium_init() tells its callers.                                   *)

(* A thread that sets up the library has set up every part before the      *)
(* next one; the function a thread is in goes with where it is; and a      *)
(* sodium_init() on its way out has seen `initialized' set.                *)
ThreadTold(t) ==
    /\ pc[t] = "work" => \A p \in Parts : p < step[t] => p \in ready
    /\ pc[t] \in {"test", "work"} => op[t] = "init"
    /\ pc[t] = "store" => op[t] = "set_handler"
    /\ pc[t] = "load" => op[t] = "misuse"
    /\ op[t] = "init" /\ pc[t] \in {"lock", "entered", "locking", "test"} => step[t] = 1
    /\ op[t] = "init" /\ pc[t] \in {"leave", "clear", "unlock"} => initialized = 1
    /\ op[t] = "init" \/ pc[t] = "idle" => after[t] = "return"

ToldInv ==
    /\ \A t \in Thread : ThreadTold(t)
    /\ initialized = 1 => ready = Parts
    /\ zero \cup one # {} => initialized = 1

(* crit_leave() called by sodium_init() returns to the application or, in  *)
(* a handler, to sodium_misuse(), and sodium_init() tells what it found.   *)
LEMMA LeaveTells ==
    ASSUME TypeOK, ToldInv, NEW t \in Thread, NEW ok \in BOOLEAN, Leave(t, ok), Told(t, ok),
           pc[t] \in {"leave", "clear", "unlock"}
    PROVE  /\ op[t] = "init" => pc'[t] \in {"abort", "idle"} /\ initialized = 1
           /\ pc'[t] = "idle" => after'[t] = "return"
           /\ \A u \in Thread : u # t => after'[u] = after[u]
           /\ op[t] = "init" => after'[t] = "return"
           /\ zero' \cup one' # {} => zero \cup one # {} \/ op[t] = "init"
<1> USE DEF TypeOK, Labels, ToldInv, ThreadTold, Leave, Told
<1>1. CASE after[t] = "lock"
  BY <1>1
<1>2. CASE after[t] = "handle"
  BY <1>2
<1>3. CASE after[t] = "return"
  BY <1>3
<1> QED BY <1>1, <1>2, <1>3

LEMMA ToldStep == TypeOK /\ ToldInv /\ [Next]_vars => ToldInv'
<1> SUFFICES ASSUME TypeOK, ToldInv, [Next]_vars PROVE ToldInv'
  OBVIOUS
<1> USE DEF ToldInv, ThreadTold, TypeOK, Parts
<1>1. ASSUME NEW t \in Thread, CallInit(t) PROVE ToldInv'
  BY <1>1 DEF CallInit, MayCall
<1>2. ASSUME NEW t \in Thread, NEW h \in Handlers, CallSetHandler(t, h) PROVE ToldInv'
  BY <1>2 DEF CallSetHandler, MayCall
<1>3. ASSUME NEW t \in Thread, CallMisuse(t) PROVE ToldInv'
  BY <1>3 DEF CallMisuse, MayCall
<1>4. ASSUME NEW t \in Thread, Lock(t) PROVE ToldInv'
  BY <1>4 DEF Lock
<1>5. ASSUME NEW t \in Thread, SetLocked(t) PROVE ToldInv'
  <2>1. ThreadTold(t)'
    BY <1>5 DEF SetLocked, Body
  <2>2. ASSUME NEW u \in Thread, u # t PROVE ThreadTold(u)'
    BY <1>5, <2>2 DEF SetLocked
  <2> QED BY <1>5, <2>1, <2>2 DEF SetLocked
<1>22. ASSUME NEW t \in Thread, AssertHolds(t) PROVE ToldInv'
  BY <1>22 DEF AssertHolds
<1>6. ASSUME NEW t \in Thread, AssertFails(t) PROVE ToldInv'
  BY <1>6 DEF AssertFails
<1>7. ASSUME NEW t \in Thread, LeaveUnlocked(t) PROVE ToldInv'
  <2>1. pc[t] \in {"leave", "clear", "unlock"}
    BY <1>7 DEF LeaveUnlocked
  <2>a. Leave(t, FALSE) /\ Told(t, FALSE)
    BY <1>7 DEF LeaveUnlocked
  <2>b. \A u \in Thread : u # t => pc'[u] = pc[u]
    BY ONLY <2>a, TypeOK, t \in Thread, LeaveTypes
  <2>c. \A u \in Thread : u # t => after'[u] = after[u]
    BY ONLY <2>1, <2>a, TypeOK, ToldInv, t \in Thread, LeaveTells
  <2>2. ThreadTold(t)'
    BY <1>7, <2>1, LeaveTypes, LeaveTells DEF LeaveUnlocked
  <2>3. ASSUME NEW u \in Thread, u # t PROVE ThreadTold(u)'
    <3>1. pc'[u] = pc[u] /\ after'[u] = after[u]
      BY <2>b, <2>c, <2>3
    <3>2. UNCHANGED <<initialized, ready, op, step>>
      BY <1>7 DEF LeaveUnlocked, shared
    <3> QED BY <3>1, <3>2
  <2>4. zero' \cup one' # {} => initialized = 1
    BY <1>7, <2>1, LeaveTells DEF LeaveUnlocked
  <2> QED BY <1>7, <2>2, <2>3, <2>4 DEF LeaveUnlocked
<1>8. ASSUME NEW t \in Thread, LeaveLocked(t) PROVE ToldInv'
  BY <1>8 DEF LeaveLocked
<1>9. ASSUME NEW t \in Thread, ClearLocked(t) PROVE ToldInv'
  BY <1>9 DEF ClearLocked
<1>10. ASSUME NEW t \in Thread, Unlock(t) PROVE ToldInv'
  <2>1. pc[t] \in {"leave", "clear", "unlock"}
    BY <1>10 DEF Unlock
  <2>a. Leave(t, TRUE) /\ Told(t, TRUE)
    BY <1>10 DEF Unlock
  <2>b. \A u \in Thread : u # t => pc'[u] = pc[u]
    BY ONLY <2>a, TypeOK, t \in Thread, LeaveTypes
  <2>c. \A u \in Thread : u # t => after'[u] = after[u]
    BY ONLY <2>1, <2>a, TypeOK, ToldInv, t \in Thread, LeaveTells
  <2>2. ThreadTold(t)'
    BY <1>10, <2>1, LeaveTypes, LeaveTells DEF Unlock
  <2>3. ASSUME NEW u \in Thread, u # t PROVE ThreadTold(u)'
    <3>1. pc'[u] = pc[u] /\ after'[u] = after[u]
      BY <2>b, <2>c, <2>3
    <3>2. UNCHANGED <<initialized, ready, op, step>>
      BY <1>10 DEF Unlock, shared
    <3> QED BY <3>1, <3>2
  <2>4. zero' \cup one' # {} => initialized = 1
    BY <1>10, <2>1, LeaveTells DEF Unlock
  <2> QED BY <1>10, <2>2, <2>3, <2>4 DEF Unlock
<1>11. ASSUME NEW t \in Thread, UnlockAnothers(t) PROVE ToldInv'
  <2> PICK how \in ForeignUnlock : Leave(t, how = "release") /\ Told(t, how = "release")
    BY <1>11 DEF UnlockAnothers
  <2>1. pc[t] = "unlock"
    BY <1>11 DEF UnlockAnothers
  <2> DEFINE ok == how = "release"
  <2>a. ok \in BOOLEAN /\ Leave(t, ok) /\ Told(t, ok)
    OBVIOUS
  <2>b. \A u \in Thread : u # t => after'[u] = after[u]
    BY <2>a, <2>1, LeaveTells
  <2>c. \A u \in Thread : u # t => pc'[u] = pc[u]
    BY <2>a, LeaveTypes
  <2>2. ThreadTold(t)'
    BY <1>11, <2>1, LeaveTypes, LeaveTells DEF UnlockAnothers
  <2>3. ASSUME NEW u \in Thread, u # t PROVE ThreadTold(u)'
    <3>1. pc'[u] = pc[u]
      BY <2>c, <2>3
    <3>2. after'[u] = after[u]
      BY <2>b, <2>3
    <3>3. UNCHANGED <<initialized, ready, op, step>>
      BY <1>11 DEF UnlockAnothers
    <3> QED BY <3>1, <3>2, <3>3
  <2>4. zero' \cup one' # {} => initialized = 1
    BY <1>11, <2>1, LeaveTells DEF UnlockAnothers
  <2> QED BY <1>11, <2>2, <2>3, <2>4 DEF UnlockAnothers
<1>12. ASSUME NEW t \in Thread, TestInitialized(t) PROVE ToldInv'
  BY <1>12 DEF TestInitialized
<1>13. ASSUME NEW t \in Thread, Work(t) PROVE ToldInv'
  <2>1. ThreadTold(t)'
    BY <1>13 DEF Work
  <2>2. ASSUME NEW u \in Thread, u # t PROVE ThreadTold(u)'
    BY <1>13, <2>2 DEF Work
  <2> QED BY <1>13, <2>1, <2>2 DEF Work
<1>14. ASSUME NEW t \in Thread, WorkFails(t) PROVE ToldInv'
  BY <1>14 DEF WorkFails
<1>15. ASSUME NEW t \in Thread, SetInitialized(t) PROVE ToldInv'
  <2>1. step[t] = 5
    BY <1>15 DEF SetInitialized
  <2>2. ready = Parts
    <3>1. ThreadTold(t) /\ pc[t] = "work"
      BY <1>15 DEF SetInitialized
    <3>2. \A p \in 1 .. 4 : p \in ready
      BY <2>1, <3>1
    <3> QED BY <3>2
  <2>3. ThreadTold(t)'
    BY <1>15 DEF SetInitialized
  <2>4. ASSUME NEW u \in Thread, u # t PROVE ThreadTold(u)'
    BY <1>15, <2>4 DEF SetInitialized
  <2> QED BY <1>15, <2>2, <2>3, <2>4 DEF SetInitialized
<1>16. ASSUME NEW t \in Thread, StoreHandler(t) PROVE ToldInv'
  BY <1>16 DEF StoreHandler
<1>17. ASSUME NEW t \in Thread, LoadHandler(t) PROVE ToldInv'
  BY <1>17 DEF LoadHandler
<1>18. ASSUME NEW t \in Thread, HandlerCalls(t) PROVE ToldInv'
  BY <1>18 DEF HandlerCalls
<1>19. ASSUME NEW t \in Thread, HandlerReturns(t) PROVE ToldInv'
  BY <1>19 DEF HandlerReturns
<1>20. ASSUME NEW t \in Thread, Abort(t) PROVE ToldInv'
  BY <1>20 DEF Abort
<1>21. CASE UNCHANGED vars
  BY <1>21 DEF vars
<1> QED
  BY <1>1, <1>2, <1>3, <1>4, <1>5, <1>6, <1>7, <1>8, <1>9, <1>10, <1>11, <1>12, <1>13, <1>14,
     <1>15, <1>16, <1>17, <1>18, <1>19, <1>20, <1>21, <1>22 DEF Next, Call, Run

(* A caller that got 0 or 1 from sodium_init() finds the library set up.   *)
(* Nothing is assumed of the other threads: this holds even if they break  *)
(* the critical section open.                                              *)
THEOREM Truthful == Spec => []ToldMeansReady
<1>1. Init => TypeOK
  BY HandlersAssumption, MaxCallsAssumption DEF Init, TypeOK, Labels, Parts
<1>2. Init => ToldInv
  BY DEF Init, ToldInv, ThreadTold
<1>3. ToldInv => ToldMeansReady
  BY DEF ToldInv, ToldMeansReady
<1>4. TypeOK /\ ToldInv /\ [Next]_vars => TypeOK' /\ ToldInv'
  BY TypeStep, ToldStep
<1> QED BY <1>1, <1>2, <1>3, <1>4, PTL DEF Spec

-----------------------------------------------------------------------------
(* sodium_init() implements InitOnce.                                      *)

(* Nobody sets up a library that is set up, and the winner is the only one *)
(* to return 0.                                                            *)
ThreadOnce(t) ==
    /\ pc[t] = "work" => initialized = 0
    /\ op[t] = "init" /\ pc[t] \in {"leave", "clear", "unlock"} /\ res[t] = 0 => winner = t

OnceInv == \A t \in Thread : ThreadOnce(t)

LEMMA OnceStep ==
    ASSUME Outsiders = {}, TypeOK, SectionInv, ToldInv, OnceInv, [Next]_vars
    PROVE  OnceInv'
<1> USE DEF OnceInv, ThreadOnce, TypeOK
<1>1. ASSUME NEW t \in Thread, CallInit(t) PROVE OnceInv'
  BY <1>1 DEF CallInit, MayCall
<1>2. ASSUME NEW t \in Thread, NEW h \in Handlers, CallSetHandler(t, h) PROVE OnceInv'
  BY <1>2 DEF CallSetHandler, MayCall
<1>3. ASSUME NEW t \in Thread, CallMisuse(t) PROVE OnceInv'
  BY <1>3 DEF CallMisuse
<1>4. ASSUME NEW t \in Thread, Lock(t) PROVE OnceInv'
  BY <1>4 DEF Lock
<1>5. ASSUME NEW t \in Thread, SetLocked(t) PROVE OnceInv'
  BY <1>5 DEF SetLocked, Body
<1>22. ASSUME NEW t \in Thread, AssertHolds(t) PROVE OnceInv'
  BY <1>22 DEF AssertHolds
<1>6. ASSUME NEW t \in Thread, AssertFails(t) PROVE OnceInv'
  BY <1>6 DEF AssertFails
<1>7. ASSUME NEW t \in Thread, LeaveUnlocked(t) PROVE OnceInv'
  <2>1. \A u \in Thread : u # t => pc'[u] = pc[u]
    BY <1>7, LeaveTypes DEF LeaveUnlocked
  <2>2. pc'[t] \in {"lock", "handler", "abort", "idle"} /\ winner' = winner
    BY <1>7, LeaveTypes DEF LeaveUnlocked
  <2> QED BY <1>7, <2>1, <2>2 DEF LeaveUnlocked
<1>8. ASSUME NEW t \in Thread, LeaveLocked(t) PROVE OnceInv'
  BY <1>8 DEF LeaveLocked
<1>9. ASSUME NEW t \in Thread, ClearLocked(t) PROVE OnceInv'
  BY <1>9 DEF ClearLocked
<1>10. ASSUME NEW t \in Thread, Unlock(t) PROVE OnceInv'
  <2>1. \A u \in Thread : u # t => pc'[u] = pc[u]
    BY <1>10, LeaveTypes DEF Unlock
  <2>2. pc'[t] \in {"lock", "handler", "abort", "idle"} /\ winner' = winner
    BY <1>10, LeaveTypes DEF Unlock
  <2> QED BY <1>10, <2>1, <2>2 DEF Unlock
<1>11. ASSUME NEW t \in Thread, UnlockAnothers(t) PROVE OnceInv'
  BY <1>11 DEF UnlockAnothers, SectionInv, SectionIsExclusive, Holding
<1>12. ASSUME NEW t \in Thread, TestInitialized(t) PROVE OnceInv'
  BY <1>12 DEF TestInitialized
<1>13. ASSUME NEW t \in Thread, Work(t) PROVE OnceInv'
  BY <1>13 DEF Work
<1>14. ASSUME NEW t \in Thread, WorkFails(t) PROVE OnceInv'
  BY <1>14 DEF WorkFails
<1>15. ASSUME NEW t \in Thread, SetInitialized(t) PROVE OnceInv'
  <2>1. \A u \in Thread : u # t => pc[u] \notin Holding
    BY <1>15 DEF SetInitialized, SectionInv, SectionIsExclusive, Holding
  <2>2. ThreadOnce(t)'
    BY <1>15 DEF SetInitialized
  <2>3. ASSUME NEW u \in Thread, u # t PROVE ThreadOnce(u)'
    BY <1>15, <2>1, <2>3 DEF SetInitialized, Holding
  <2> QED BY <2>2, <2>3
<1>16. ASSUME NEW t \in Thread, StoreHandler(t) PROVE OnceInv'
  BY <1>16 DEF StoreHandler, ToldInv, ThreadTold
<1>17. ASSUME NEW t \in Thread, LoadHandler(t) PROVE OnceInv'
  BY <1>17 DEF LoadHandler, ToldInv, ThreadTold
<1>18. ASSUME NEW t \in Thread, HandlerCalls(t) PROVE OnceInv'
  BY <1>18 DEF HandlerCalls
<1>19. ASSUME NEW t \in Thread, HandlerReturns(t) PROVE OnceInv'
  BY <1>19 DEF HandlerReturns
<1>20. ASSUME NEW t \in Thread, Abort(t) PROVE OnceInv'
  BY <1>20 DEF Abort
<1>21. CASE UNCHANGED vars
  BY <1>21 DEF vars
<1> QED
  BY <1>1, <1>2, <1>3, <1>4, <1>5, <1>6, <1>7, <1>8, <1>9, <1>10, <1>11, <1>12, <1>13, <1>14,
     <1>15, <1>16, <1>17, <1>18, <1>19, <1>20, <1>21, <1>22 DEF Next, Call, Run

(* Every step of the code is a step of InitOnce, or changes nothing that   *)
(* InitOnce sees.                                                          *)
LEMMA OnceSimulation ==
    ASSUME Outsiders = {}, TypeOK, SectionInv, ToldInv, OnceInv, [Next]_vars
    PROVE  [Once!Next]_Once!vars
<1>1. ASSUME NEW t \in Thread, CallInit(t) PROVE [Once!Next]_Once!vars
  BY <1>1 DEF CallInit, Once!vars
<1>2. ASSUME NEW t \in Thread, NEW h \in Handlers, CallSetHandler(t, h) PROVE [Once!Next]_Once!vars
  BY <1>2 DEF CallSetHandler, Once!vars
<1>3. ASSUME NEW t \in Thread, CallMisuse(t) PROVE [Once!Next]_Once!vars
  BY <1>3 DEF CallMisuse, Once!vars
<1>4. ASSUME NEW t \in Thread, Lock(t) PROVE [Once!Next]_Once!vars
  BY <1>4 DEF Lock, Once!vars
<1>5. ASSUME NEW t \in Thread, SetLocked(t) PROVE [Once!Next]_Once!vars
  BY <1>5 DEF SetLocked, Once!vars
<1>22. ASSUME NEW t \in Thread, AssertHolds(t) PROVE [Once!Next]_Once!vars
  BY <1>22 DEF AssertHolds, Once!vars
<1>6. ASSUME NEW t \in Thread, AssertFails(t) PROVE [Once!Next]_Once!vars
  BY <1>6 DEF AssertFails, Once!vars
<1>7. ASSUME NEW t \in Thread, LeaveUnlocked(t) PROVE [Once!Next]_Once!vars
  BY <1>7 DEF LeaveUnlocked, SectionInv, SectionIsExclusive, Holding, TypeOK
<1>8. ASSUME NEW t \in Thread, LeaveLocked(t) PROVE [Once!Next]_Once!vars
  BY <1>8 DEF LeaveLocked, Once!vars
<1>9. ASSUME NEW t \in Thread, ClearLocked(t) PROVE [Once!Next]_Once!vars
  BY <1>9 DEF ClearLocked, Once!vars
<1>10. ASSUME NEW t \in Thread, Unlock(t) PROVE [Once!Next]_Once!vars
  <2>1. Told(t, TRUE) /\ UNCHANGED <<initialized, ready>>
    BY <1>10 DEF Unlock
  <2>2. CASE after[t] = "return" /\ op[t] = "init"
    <3>1. initialized = 1 /\ ready = Parts /\ (res[t] = 0 => winner = t)
      BY <1>10, <2>2 DEF Unlock, ToldInv, ThreadTold, OnceInv, ThreadOnce
    <3>2. CASE res[t] = 0
      <4>1. zero' = zero \cup {t} /\ UNCHANGED <<winner, one>>
        BY <2>1, <2>2, <3>2 DEF Told
      <4>2. Once!TellZero(t)
        BY <2>1, <3>1, <3>2, <4>1 DEF Once!TellZero
      <4> QED BY <4>2 DEF Once!Next
    <3>3. CASE res[t] = 1
      <4>1. one' = one \cup {t} /\ UNCHANGED <<winner, zero>>
        BY <2>1, <2>2, <3>3 DEF Told
      <4>2. Once!TellOne(t)
        BY <2>1, <3>1, <4>1 DEF Once!TellOne
      <4> QED BY <4>2 DEF Once!Next
    <3> QED BY <3>2, <3>3 DEF TypeOK
  <2>3. CASE ~ (after[t] = "return" /\ op[t] = "init")
    BY <2>1, <2>3 DEF Told, Once!vars
  <2> QED BY <2>2, <2>3
<1>11. ASSUME NEW t \in Thread, UnlockAnothers(t) PROVE [Once!Next]_Once!vars
  BY <1>11 DEF UnlockAnothers, SectionInv, SectionIsExclusive, Holding
<1>12. ASSUME NEW t \in Thread, TestInitialized(t) PROVE [Once!Next]_Once!vars
  BY <1>12 DEF TestInitialized, Once!vars
<1>13. ASSUME NEW t \in Thread, Work(t) PROVE [Once!Next]_Once!vars
  <2>1. initialized = 0
    BY <1>13 DEF Work, OnceInv, ThreadOnce
  <2>2. initialized' = 0
    BY <1>13, <2>1 DEF Work
  <2> QED BY <1>13, <2>1, <2>2 DEF Work, Once!vars
<1>14. ASSUME NEW t \in Thread, WorkFails(t) PROVE [Once!Next]_Once!vars
  BY <1>14 DEF WorkFails, Once!vars
<1>15. ASSUME NEW t \in Thread, SetInitialized(t) PROVE [Once!Next]_Once!vars
  <2>1. initialized = 0 /\ pc[t] = "work"
    BY <1>15 DEF SetInitialized, OnceInv, ThreadOnce
  <2>2. step[t] = 5
    BY <1>15 DEF SetInitialized, Parts, TypeOK
  <2>3. ready = Parts
    <3>1. \A p \in 1 .. 4 : p \in ready
      BY <2>1, <2>2 DEF ToldInv, ThreadTold, Parts
    <3> QED BY <3>1 DEF Parts, TypeOK
  <2>4. Once!MakeReady(t)
    BY <1>15, <2>1, <2>3 DEF SetInitialized, Once!MakeReady
  <2> QED BY <2>4 DEF Once!Next
<1>16. ASSUME NEW t \in Thread, StoreHandler(t) PROVE [Once!Next]_Once!vars
  BY <1>16 DEF StoreHandler, Once!vars
<1>17. ASSUME NEW t \in Thread, LoadHandler(t) PROVE [Once!Next]_Once!vars
  BY <1>17 DEF LoadHandler, Once!vars
<1>18. ASSUME NEW t \in Thread, HandlerCalls(t) PROVE [Once!Next]_Once!vars
  BY <1>18 DEF HandlerCalls, Once!vars
<1>19. ASSUME NEW t \in Thread, HandlerReturns(t) PROVE [Once!Next]_Once!vars
  BY <1>19 DEF HandlerReturns, Once!vars
<1>20. ASSUME NEW t \in Thread, Abort(t) PROVE [Once!Next]_Once!vars
  BY <1>20 DEF Abort, Once!vars
<1>21. CASE UNCHANGED vars
  BY <1>21 DEF vars, Once!vars
<1> QED
  BY <1>1, <1>2, <1>3, <1>4, <1>5, <1>6, <1>7, <1>8, <1>9, <1>10, <1>11, <1>12, <1>13, <1>14,
     <1>15, <1>16, <1>17, <1>18, <1>19, <1>20, <1>21, <1>22 DEF Next, Call, Run

(* When only sodium_init() misuses the library, concurrent calls           *)
(* initialise it once; one caller, that did it, gets 0, the others 1, and  *)
(* only when it is ready.                                                  *)
THEOREM Implementation == ASSUME Outsiders = {} PROVE Spec => ImplementsInitOnce
<1>1. Init => TypeOK
  BY HandlersAssumption, MaxCallsAssumption DEF Init, TypeOK, Labels, Parts
<1>2. Init => SectionInv
  BY NobodyAssumption
  DEF Init, SectionInv, SectionIsExclusive, OwnerIsInside, Holding
<1>3. Init => ToldInv /\ OnceInv
  BY DEF Init, ToldInv, ThreadTold, OnceInv, ThreadOnce
<1>4. Init => Once!Init
  BY DEF Init, Once!Init
<1>5. TypeOK /\ SectionInv /\ ToldInv /\ OnceInv /\ [Next]_vars
        => TypeOK' /\ SectionInv' /\ ToldInv' /\ OnceInv'
  BY TypeStep, SectionStep, ToldStep, OnceStep
<1>6. TypeOK /\ SectionInv /\ ToldInv /\ OnceInv /\ [Next]_vars => [Once!Next]_Once!vars
  BY OnceSimulation
<1> QED BY <1>1, <1>2, <1>3, <1>4, <1>5, <1>6, PTL DEF Spec, ImplementsInitOnce, Once!Spec
=============================================================================
