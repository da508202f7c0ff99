----------------------------- MODULE SodiumCore -----------------------------
(***************************************************************************)
(* sodium/core.c, the variant with pthreads: sodium_init(),                *)
(* sodium_set_misuse_handler() and sodium_misuse() called by concurrent    *)
(* threads, and the critical section they share, one memory access or one  *)
(* call to pthread a step.                                                 *)
(*                                                                         *)
(* The critical section has two parts, the mutex and the flag `locked'     *)
(* that crit_leave() consults.  sodium_misuse() leaves the section before  *)
(* it enters it, because it may be called in the middle of sodium_init();  *)
(* any other caller of sodium_misuse() is not in the section at all.       *)
(***************************************************************************)
EXTENDS Naturals, Integers, FiniteSets

CONSTANTS
    Thread,
    Nobody,           \* not a thread: the mutex is free
    Handlers,         \* the handlers an application may install; 0 is NULL
    Outsiders,        \* threads that misuse the API outside of sodium_init()
    ForeignUnlock,    \* what unlocking another thread's mutex, undefined by
                      \* POSIX, does: {"release"}, {"eperm"} or both
    FailingParts,     \* the parts of sodium_init() that may call sodium_misuse()
    MaxCalls          \* bound: calls per thread

ASSUME NobodyAssumption == Nobody \notin Thread
ASSUME HandlersAssumption == 0 \in Handlers
ASSUME OutsidersAssumption == Outsiders \subseteq Thread
ASSUME ForeignUnlockAssumption == ForeignUnlock \subseteq {"release", "eperm"}
ASSUME FailingPartsAssumption == FailingParts \subseteq {2, 3}
ASSUME MaxCallsAssumption == MaxCalls \in Nat

VARIABLES
    mutex,          \* who holds _sodium_lock
    locked,
    initialized,
    misuseHandler,
    ready,          \* which parts of the library sodium_init() has set up
    pc, op,         \* where a thread is, and in which function
    step,           \* the part of the library it sets up next
    after,          \* what it does once out of the critical section
    res,            \* the value it is about to return
    ret,            \* the value it returned last
    seen,           \* the handler it read
    inHandler,      \* it is running the handler
    calls,          \* calls it has made
    winner,         \* who set `initialized'
    zero, one,      \* who got 0, and who got 1, from sodium_init()
    refused,        \* the threads pthread refused to unlock another's mutex for
    end             \* how the process ended: "abort", "assert" or not yet

shared == <<mutex, locked, initialized, misuseHandler, ready>>
local  == <<pc, op, step, after, res, ret, seen, inHandler, calls>>
ghost  == <<winner, zero, one, refused>>
vars   == <<shared, local, ghost, end>>

(* The work of sodium_init(), in order: CPU features, randombytes_stir(),  *)
(* the allocator, the implementations of the primitives.                   *)
Parts == 1 .. 4

Init ==
    /\ mutex = Nobody /\ locked = 0 /\ initialized = 0 /\ misuseHandler = 0
    /\ ready = {}
    /\ pc = [t \in Thread |-> "idle"]     /\ op = [t \in Thread |-> "none"]
    /\ step = [t \in Thread |-> 1]        /\ after = [t \in Thread |-> "return"]
    /\ res = [t \in Thread |-> 0]         /\ ret = [t \in Thread |-> 0]
    /\ seen = [t \in Thread |-> 0]        /\ inHandler = [t \in Thread |-> FALSE]
    /\ calls = [t \in Thread |-> 0]
    /\ winner = Nobody /\ zero = {} /\ one = {} /\ refused = {}
    /\ end = "running"

At(t, label)   == end = "running" /\ pc[t] = label
Goto(t, label) == pc' = [pc EXCEPT ![t] = label]
Set(f, t, v)   == [f EXCEPT ![t] = v]

-----------------------------------------------------------------------------
(* Calls from the application's own code.                                  *)

MayCall(t) ==
    /\ At(t, "idle")
    /\ calls[t] < MaxCalls
    /\ calls' = Set(calls, t, calls[t] + 1)

CallInit(t) ==
    /\ MayCall(t)
    /\ Goto(t, "lock") /\ op' = Set(op, t, "init")
    /\ step' = Set(step, t, 1)
    /\ UNCHANGED <<shared, after, res, ret, seen, inHandler, ghost, end>>

(* Mutant: the handler is stored without the critical section.             *)
CallSetHandlerUnlocked(t, h) ==
    /\ MayCall(t)
    /\ Goto(t, "store") /\ op' = Set(op, t, "set_handler")
    /\ seen' = Set(seen, t, h)
    /\ UNCHANGED <<shared, step, after, res, ret, inHandler, ghost, end>>

CallSetHandler(t, h) ==
    /\ MayCall(t)
    /\ Goto(t, "lock") /\ op' = Set(op, t, "set_handler")
    /\ seen' = Set(seen, t, h)
    /\ UNCHANGED <<shared, step, after, res, ret, inHandler, ghost, end>>

(* sodium_misuse() begins by leaving the critical section, whatever the    *)
(* result.                                                                 *)
CallMisuse(t) ==
    /\ t \in Outsiders /\ MayCall(t)
    /\ Goto(t, "leave") /\ op' = Set(op, t, "misuse") /\ after' = Set(after, t, "lock")
    /\ UNCHANGED <<shared, step, res, ret, seen, inHandler, ghost, end>>

-----------------------------------------------------------------------------
(* sodium_crit_enter(): pthread_mutex_lock(), then the assertion reads     *)
(* `locked', then it is set.                                               *)

Body(t) == CASE op[t] = "init" -> "test"
             [] op[t] = "set_handler" -> "store"
             [] op[t] = "misuse" -> "load"

Lock(t) ==
    /\ At(t, "lock") /\ mutex = Nobody
    /\ mutex' = t
    /\ Goto(t, "entered")
    /\ UNCHANGED <<locked, initialized, misuseHandler, ready, op, step, after, res, ret, seen,
                   inHandler, calls, ghost, end>>

AssertHolds(t) ==
    /\ At(t, "entered") /\ locked = 0
    /\ Goto(t, "locking")
    /\ UNCHANGED <<shared, op, step, after, res, ret, seen, inHandler, calls, ghost, end>>

AssertFails(t) ==
    /\ At(t, "entered") /\ locked # 0
    /\ end' = "assert"
    /\ UNCHANGED <<shared, local, ghost>>

SetLocked(t) ==
    /\ At(t, "locking")
    /\ locked' = 1
    /\ Goto(t, Body(t))
    /\ UNCHANGED <<mutex, initialized, misuseHandler, ready, op, step, after, res, ret, seen,
                   inHandler, calls, ghost, end>>

-----------------------------------------------------------------------------
(* sodium_crit_leave(): look at `locked', clear it, unlock the mutex.      *)

(* How a thread goes on once crit_leave() has returned.                    *)
Leave(t, ok) ==
    CASE after[t] = "lock" ->
           Goto(t, "lock") /\ after' = Set(after, t, "handle") /\ UNCHANGED ret
      [] after[t] = "handle" ->
           Goto(t, IF ok /\ seen[t] # 0 THEN "handler" ELSE "abort") /\ UNCHANGED <<after, ret>>
      [] after[t] = "return" ->
           /\ Goto(t, IF inHandler[t] THEN "abort" ELSE "idle")
           /\ ret' = Set(ret, t, IF ok THEN res[t] ELSE -1)
           /\ UNCHANGED after

Told(t, ok) ==
    LET told(v) == after[t] = "return" /\ op[t] = "init" /\ ok /\ res[t] = v
    IN  /\ zero' = IF told(0) THEN zero \cup {t} ELSE zero
        /\ one' = IF told(1) THEN one \cup {t} ELSE one
        /\ UNCHANGED winner

LeaveUnlocked(t) ==
    /\ At(t, "leave") /\ locked = 0
    /\ Leave(t, FALSE) /\ Told(t, FALSE)
    /\ UNCHANGED <<shared, op, step, res, seen, inHandler, calls, refused, end>>

LeaveLocked(t) ==
    /\ At(t, "leave") /\ locked # 0
    /\ Goto(t, "clear")
    /\ UNCHANGED <<shared, op, step, after, res, ret, seen, inHandler, calls, ghost, end>>

ClearLocked(t) ==
    /\ At(t, "clear")
    /\ locked' = 0
    /\ Goto(t, "unlock")
    /\ UNCHANGED <<mutex, initialized, misuseHandler, ready, op, step, after, res, ret, seen,
                   inHandler, calls, ghost, end>>

Unlock(t) ==
    /\ At(t, "unlock") /\ mutex = t
    /\ mutex' = Nobody
    /\ Leave(t, TRUE) /\ Told(t, TRUE)
    /\ UNCHANGED <<locked, initialized, misuseHandler, ready, op, step, res, seen, inHandler,
                   calls, refused, end>>

UnlockAnothers(t) ==
    /\ At(t, "unlock") /\ mutex # t
    /\ \E how \in ForeignUnlock :
          /\ mutex' = IF how = "release" THEN Nobody ELSE mutex
          /\ refused' = IF how = "eperm" THEN refused \cup {t} ELSE refused
          /\ Leave(t, how = "release") /\ Told(t, how = "release")
    /\ UNCHANGED <<locked, initialized, misuseHandler, ready, op, step, res, seen, inHandler,
                   calls, end>>

-----------------------------------------------------------------------------
(* sodium_init(), inside the critical section.                             *)

(* Mutants: `initialized' is set before the work is done; a second call    *)
(* does the work again; the early return forgets crit_leave().             *)
TestAndSet(t) ==
    /\ At(t, "test")
    /\ IF initialized # 0
       THEN Goto(t, "leave") /\ res' = Set(res, t, 1)
       ELSE Goto(t, "work") /\ UNCHANGED res
    /\ initialized' = 1
    /\ UNCHANGED <<mutex, locked, misuseHandler, ready, op, step, after, ret, seen, inHandler,
                   calls, ghost, end>>

TestNothing(t) ==
    /\ At(t, "test")
    /\ Goto(t, "work")
    /\ UNCHANGED <<shared, op, step, after, res, ret, seen, inHandler, calls, ghost, end>>

TestAndReturn(t) ==
    /\ At(t, "test")
    /\ IF initialized # 0
       THEN Goto(t, "idle") /\ ret' = Set(ret, t, 1)
       ELSE Goto(t, "work") /\ UNCHANGED ret
    /\ UNCHANGED <<shared, op, step, after, res, seen, inHandler, calls, ghost, end>>

TestInitialized(t) ==
    /\ At(t, "test")
    /\ IF initialized # 0
       THEN Goto(t, "leave") /\ res' = Set(res, t, 1)
       ELSE Goto(t, "work") /\ UNCHANGED res
    /\ UNCHANGED <<shared, op, step, after, ret, seen, inHandler, calls, ghost, end>>

(* Mutant: the work goes on past its last part.                            *)
WorkPastTheEnd(t) ==
    /\ At(t, "work") /\ step[t] \in Parts \cup {5}
    /\ ready' = ready \cup ({step[t]} \cap Parts)
    /\ step' = Set(step, t, step[t] + 1)
    /\ UNCHANGED <<mutex, locked, initialized, misuseHandler, pc, op, after, res, ret, seen,
                   inHandler, calls, ghost, end>>

Work(t) ==
    /\ At(t, "work") /\ step[t] \in Parts
    /\ ready' = ready \cup {step[t]}
    /\ step' = Set(step, t, step[t] + 1)
    /\ UNCHANGED <<mutex, locked, initialized, misuseHandler, pc, op, after, res, ret, seen,
                   inHandler, calls, ghost, end>>

(* Mutant: sodium_misuse() enters the critical section without leaving it. *)
WorkFailsInside(t) ==
    /\ At(t, "work") /\ step[t] \in FailingParts
    /\ Goto(t, "lock") /\ op' = Set(op, t, "misuse") /\ after' = Set(after, t, "handle")
    /\ UNCHANGED <<shared, step, res, ret, seen, inHandler, calls, ghost, end>>

(* randombytes_stir() finds no entropy, or _sodium_alloc_init() is told of *)
(* too small a page: they call sodium_misuse(), in the section.            *)
WorkFails(t) ==
    /\ At(t, "work") /\ step[t] \in FailingParts
    /\ Goto(t, "leave") /\ op' = Set(op, t, "misuse") /\ after' = Set(after, t, "lock")
    /\ UNCHANGED <<shared, step, res, ret, seen, inHandler, calls, ghost, end>>

SetInitialized(t) ==
    /\ At(t, "work") /\ step[t] \notin Parts
    /\ initialized' = 1 /\ winner' = t
    /\ Goto(t, "leave") /\ res' = Set(res, t, 0)
    /\ UNCHANGED <<mutex, locked, misuseHandler, ready, op, step, after, ret, seen, inHandler,
                   calls, zero, one, refused, end>>

(* sodium_set_misuse_handler(), inside the critical section.               *)
StoreHandler(t) ==
    /\ At(t, "store")
    /\ misuseHandler' = seen[t]
    /\ Goto(t, "leave") /\ res' = Set(res, t, 0)
    /\ UNCHANGED <<mutex, locked, initialized, ready, op, step, after, ret, seen, inHandler,
                   calls, ghost, end>>

(* Mutant: the handler runs inside the critical section, as it did in      *)
(* version 1.0.22.                                                         *)
LoadAndRunHandler(t) ==
    /\ At(t, "load")
    /\ seen' = Set(seen, t, misuseHandler)
    /\ Goto(t, IF misuseHandler # 0 THEN "handler" ELSE "leave")
    /\ UNCHANGED <<shared, op, step, after, res, ret, inHandler, calls, ghost, end>>

(* sodium_misuse(): read the handler in the critical section, run it       *)
(* outside, abort.  The handler may itself call the library.               *)
LoadHandler(t) ==
    /\ At(t, "load")
    /\ seen' = Set(seen, t, misuseHandler)
    /\ Goto(t, "leave")
    /\ UNCHANGED <<shared, op, step, after, res, ret, inHandler, calls, ghost, end>>

HandlerCalls(t) ==
    /\ At(t, "handler") /\ ~ inHandler[t]
    /\ inHandler' = Set(inHandler, t, TRUE) /\ after' = Set(after, t, "return")
    /\ Goto(t, "lock")
    /\ \/ op' = Set(op, t, "init") /\ step' = Set(step, t, 1) /\ UNCHANGED seen
       \/ /\ op' = Set(op, t, "set_handler") /\ UNCHANGED step
          /\ \E h \in Handlers : seen' = Set(seen, t, h)
    /\ UNCHANGED <<shared, res, ret, calls, ghost, end>>

HandlerReturns(t) ==
    /\ At(t, "handler")
    /\ Goto(t, "abort")
    /\ UNCHANGED <<shared, op, step, after, res, ret, seen, inHandler, calls, ghost, end>>

Abort(t) ==
    /\ At(t, "abort")
    /\ end' = "abort"
    /\ UNCHANGED <<shared, local, ghost>>

-----------------------------------------------------------------------------
(* What a thread does once it is in the library.                           *)
Run(t) ==
    \/ Lock(t) \/ AssertHolds(t) \/ AssertFails(t) \/ SetLocked(t)
    \/ LeaveUnlocked(t) \/ LeaveLocked(t) \/ ClearLocked(t) \/ Unlock(t) \/ UnlockAnothers(t)
    \/ TestInitialized(t) \/ Work(t) \/ WorkFails(t) \/ SetInitialized(t) \/ StoreHandler(t)
    \/ LoadHandler(t) \/ HandlerCalls(t) \/ HandlerReturns(t) \/ Abort(t)

Call(t) ==
    \/ CallInit(t)
    \/ \E h \in Handlers : CallSetHandler(t, h)
    \/ CallMisuse(t)

Next == \E t \in Thread : Call(t) \/ Run(t)

(* The scheduler runs every thread, and the mutex goes to a waiter when    *)
(* there is one: a call that can go on goes on.  Nobody has to call.       *)
Fairness == \A t \in Thread : WF_vars(Run(t))

Spec == Init /\ [][Next]_vars /\ Fairness

-----------------------------------------------------------------------------
(* Properties.                                                             *)

Labels == {"idle", "lock", "entered", "locking", "test", "work", "store", "load", "leave",
           "clear", "unlock", "handler", "abort"}

(* Types.                                                                  *)
TypeOK ==
    /\ mutex \in Thread \cup {Nobody} /\ locked \in {0, 1} /\ initialized \in {0, 1}
    /\ misuseHandler \in Handlers /\ ready \subseteq Parts
    /\ pc \in [Thread -> Labels]
    /\ op \in [Thread -> {"none", "init", "set_handler", "misuse"}]
    /\ \A t \in Thread : op[t] = "none" => pc[t] = "idle"
    /\ step \in [Thread -> 1 .. 5] /\ after \in [Thread -> {"return", "lock", "handle"}]
    /\ res \in [Thread -> {0, 1}] /\ ret \in [Thread -> {-1, 0, 1}]
    /\ seen \in [Thread -> Handlers] /\ inHandler \in [Thread -> BOOLEAN]
    /\ calls \in [Thread -> 0 .. MaxCalls]
    /\ winner \in Thread \cup {Nobody} /\ zero \subseteq Thread /\ one \subseteq Thread
    /\ refused \subseteq Thread
    /\ end \in {"running", "abort", "assert"}

Holding == {"entered", "locking", "test", "work", "store", "load", "leave", "clear", "unlock"}

(* As long as nobody calls sodium_misuse() from outside, a thread between  *)
(* crit_enter() and crit_leave() holds the mutex and finds `locked' set,   *)
(* so no two threads are there, the assertion of crit_enter() and every    *)
(* crit_leave() succeed, even when sodium_init() itself gives up and lets  *)
(* the others in.                                                          *)
SectionIsExclusive ==
    /\ \A t \in Thread : pc[t] \in Holding => mutex = t
    /\ \A t \in Thread : pc[t] \in Holding \ {"entered", "locking", "unlock"} => locked = 1
    /\ locked = 1 => mutex # Nobody /\ pc[mutex] \notin {"entered", "locking", "unlock"}
    /\ end # "assert" /\ \A t \in Thread : ret[t] # -1

(* A misuse handler runs with the library's lock free: it may call the     *)
(* library (ChangeLog:2).                                                  *)
HandlerRunsUnlocked == \A t \in Thread : pc[t] = "handler" => mutex # t

(* A caller of sodium_init() that got 0 or 1 can use the library: every    *)
(* part is set up.  This holds even if a thread has misused the API and    *)
(* broken the critical section open.                                       *)
ToldMeansReady == zero \cup one # {} => ready = Parts /\ initialized = 1

(* The assertion of crit_enter(), core.c:122.                              *)
LockedIsClearOnEntry == end # "assert"

(* A thread has left the section and still has the mutex.                  *)
MutexLeftBehind == \E t \in Thread : mutex = t /\ pc[t] \notin Holding

(* Once sodium_misuse() is called the process ends, whatever its handler   *)
(* calls and whoever holds the lock, with one exception: sodium_misuse()   *)
(* clears the `locked' of a thread in the section, pthread refuses to      *)
(* unlock that thread's mutex, and its crit_leave() finds `locked' clear   *)
(* and leaves the mutex behind, locked for good.                           *)
MisuseEndsTheProcess ==
    \A t \in Thread : op[t] = "misuse" ~> (end # "running" \/ [](refused # {} /\ MutexLeftBehind))

(* sodium_init() and sodium_set_misuse_handler() return, or the process    *)
(* has ended.                                                              *)
CallsReturn == \A t \in Thread : pc[t] = "lock" ~> (pc[t] = "idle" \/ end # "running")

(* sodium_init() initialises once and tells its callers the truth.         *)
Once == INSTANCE InitOnce WITH Caller <- Thread, ready <- (initialized = 1 /\ ready = Parts)
ImplementsInitOnce == Once!Spec
=============================================================================
