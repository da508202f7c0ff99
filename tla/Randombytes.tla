----------------------------- MODULE Randombytes -----------------------------
(***************************************************************************)
(* randombytes/randombytes.c, which sends each call to an implementation   *)
(* that the application may replace, and the default one,                  *)
(* randombytes/sysrandom.  Neither takes a lock: sodium_init() stirs       *)
(* before the threads of the application start, and that is all that       *)
(* protects `implementation' and the record `stream'.                      *)
(*                                                                         *)
(* Assignments to `stream' that no lock orders may be seen in any order.   *)
(* The application owns the other descriptors of the process.              *)
(***************************************************************************)
EXTENDS Integers, Sequences

CONSTANTS
    Thread,
    MainThread,
    Kernels,      \* among "getrandom", "device" and "none": what gives entropy
    Carefuls,     \* whether the main thread stirs before anything else
    FDs,          \* the descriptors the process may have
    Pieces,       \* the most read()s a request is served in
    MaxOps,       \* bound: calls begun by each thread
    MaxFiles      \* bound: files the application opens

ASSUME ThreadAssumption == MainThread \in Thread
ASSUME KernelsAssumption == Kernels \subseteq {"getrandom", "device", "none"}
ASSUME CarefulsAssumption == Carefuls \subseteq BOOLEAN
ASSUME NumbersAssumption == FDs \subseteq Nat /\ Pieces \in Nat \ {0} /\ MaxFiles \in Nat
ASSUME MaxOpsAssumption == MaxOps \in [Thread -> Nat]

VARIABLES
    kernel, careful,
    implementation,  \* "none", "sys" or "custom"
    stream,          \* the SysRandom record
    fds,             \* what each descriptor is: free, random or foreign
    th,              \* the threads: where each is, its calls, what it holds
    ops, files,
    ready,           \* the main thread has stirred
    changed,         \* close() or set_implementation() was called
    races,           \* the kinds of calls that have overlapped another one
    harm,            \* what happened to the files of the application
    ended            \* how the process ended, if it did; "denied": in
                     \* sodium_misuse(), as the kernel refused what was asked

vars == <<kernel, careful, implementation, stream, fds, th, ops, files, ready, changed,
          races, harm, ended>>

NoFd == -1
Idle == [at |-> "idle", stack |-> <<>>, fd |-> NoFd, left |-> 0, stores |-> {}]

Init ==
    /\ kernel \in Kernels /\ careful \in Carefuls
    /\ implementation = "none"
    /\ stream = [fd |-> NoFd, initialized |-> 0, available |-> 0]
    /\ fds = [f \in FDs |-> "free"]
    /\ th = [t \in Thread |-> Idle]
    /\ ops = [t \in Thread |-> 0] /\ files = 0
    /\ ready = FALSE /\ changed = FALSE /\ races = {} /\ harm = {} /\ ended = "no"

At(t, label)   == ended = "no" /\ th[t].at = label
Goto(t, label) == th' = [th EXCEPT ![t].at = label]
Top(t)         == th[t].stack[Len(th[t].stack)]
Push(t, op)    == th' = [th EXCEPT ![t].at = "test", ![t].stack = Append(@, op)]

(* A call returns to init_if_needed() of the call below it, or into the    *)
(* loop of randombytes_uniform().                                          *)
Return(t) ==
    LET rest == SubSeq(th[t].stack, 1, Len(th[t].stack) - 1)
    IN  th' = [th EXCEPT ![t] =
                  IF rest = <<>> THEN Idle
                  ELSE [Idle EXCEPT !.stack = rest,
                                    !.at = IF Top(t) = "random" THEN "sampled" ELSE "call"]]

Ends(how) == ended' = how /\ UNCHANGED <<implementation, stream, fds, th, harm>>

-----------------------------------------------------------------------------
(* randombytes.c                                                           *)

Ops == {"stir", "random", "buf", "empty", "uniform", "name", "close"}

MayBegin(t, op) ==
    /\ At(t, "idle") /\ ops[t] < MaxOps[t]
    /\ careful /\ ~ ready => t = MainThread /\ op = "stir"
    /\ ops' = [ops EXCEPT ![t] = @ + 1]

Begin(t, op) ==
    /\ MayBegin(t, op)
    /\ th' = [th EXCEPT ![t] = [Idle EXCEPT !.stack = <<op>>,
                                            !.at = IF op = "close" THEN "close" ELSE "test"]]
    /\ changed' = (changed \/ op = "close")
    /\ UNCHANGED <<kernel, careful, implementation, stream, fds, files, ready, harm, ended>>

SetImplementation(t, impl) ==
    /\ MayBegin(t, "set")
    /\ implementation' = impl /\ changed' = TRUE
    /\ UNCHANGED <<kernel, careful, stream, fds, th, files, ready, harm, ended>>

OpenFile(f) ==
    /\ ended = "no" /\ files < MaxFiles
    /\ fds[f] = "free" /\ \A g \in FDs : fds[g] = "free" => f <= g
    /\ fds' = [fds EXCEPT ![f] = "foreign"] /\ files' = files + 1
    /\ UNCHANGED <<kernel, careful, implementation, stream, th, ops, ready, changed, harm, ended>>

(* randombytes_init_if_needed(): a test, an assignment and a call.         *)
Test(t) ==
    /\ At(t, "test")
    /\ Goto(t, IF implementation = "none" THEN "assign" ELSE "call")
    /\ UNCHANGED <<implementation, stream, fds, harm, ended>>

Assign(t) ==
    /\ At(t, "assign")
    /\ implementation' = "sys" /\ Push(t, "stir")
    /\ UNCHANGED <<stream, fds, harm, ended>>

(* implementation->...: the pointer is read again.  What a custom one does *)
(* is the application's affair; sysrandom has no uniform().                *)
CallNull(t) ==
    /\ At(t, "call") /\ implementation = "none" /\ Top(t) # "empty"
    /\ Ends("crash")

CallReturns(t) ==
    /\ At(t, "call")
    /\ Top(t) = "empty" \/ implementation = "custom" \/ (implementation = "sys" /\ Top(t) = "name")
    /\ Return(t)
    /\ UNCHANGED <<implementation, stream, fds, harm, ended>>

CallSys(t) ==
    /\ At(t, "call") /\ implementation = "sys"
    /\ CASE Top(t) = "stir"              -> Goto(t, "stir")
         [] Top(t) \in {"random", "buf"} -> Goto(t, "stir_if_needed")
         [] Top(t) = "uniform"           -> Push(t, "random") \/ Return(t)
         [] OTHER                        -> FALSE
    /\ UNCHANGED <<implementation, stream, fds, harm, ended>>

Sampled(t) ==
    /\ At(t, "sampled")
    /\ Push(t, "random") \/ Return(t)
    /\ UNCHANGED <<implementation, stream, fds, harm, ended>>

-----------------------------------------------------------------------------
(* sysrandom                                                               *)

StirIfNeeded(t) ==
    /\ At(t, "stir_if_needed")
    /\ Goto(t, IF stream.initialized = 0 THEN "stir" ELSE "source")
    /\ UNCHANGED <<implementation, stream, fds, harm, ended>>

AfterStir(t) == IF Top(t) = "stir" THEN Return(t) ELSE Goto(t, "source")

(* Mutant: stir() initialises whatever has been done already.              *)
StirAlways(t) ==
    /\ At(t, "stir")
    /\ Goto(t, "init")
    /\ UNCHANGED <<implementation, stream, fds, harm, ended>>

Stir(t) ==
    /\ At(t, "stir")
    /\ IF stream.initialized = 0 THEN Goto(t, "init") ELSE AfterStir(t)
    /\ UNCHANGED <<implementation, stream, fds, harm, ended>>

Publish(t, fd, stores) ==
    th' = [th EXCEPT ![t].at = "publish", ![t].fd = fd, ![t].stores = stores]

InitProbes(t) ==
    /\ At(t, "init") /\ kernel = "getrandom"
    /\ Publish(t, NoFd, {"available", "initialized"})
    /\ UNCHANGED <<implementation, stream, fds, harm, ended>>

InitOpens(t, f) ==
    /\ At(t, "init") /\ kernel = "device"
    /\ fds[f] = "free" /\ \A g \in FDs : fds[g] = "free" => f <= g
    /\ fds' = [fds EXCEPT ![f] = "random"]
    /\ Publish(t, f, {"unavailable", "fd", "initialized"})
    /\ UNCHANGED <<implementation, stream, harm, ended>>

InitFails(t) ==   \* no device, no descriptor, or not allowed to
    /\ At(t, "init") /\ kernel # "getrandom"
    /\ Ends("denied")

(* The assignments of init() and stir(), or of close(), one at a time.     *)
Store(st, what, fd) ==
    CASE what = "available"     -> [st EXCEPT !.available = 1]
      [] what = "unavailable"   -> [st EXCEPT !.available = 0]
      [] what = "fd"            -> [st EXCEPT !.fd = fd]
      [] what = "initialized"   -> [st EXCEPT !.initialized = 1]
      [] what = "uninitialized" -> [st EXCEPT !.initialized = 0]

StoreOne(t) ==
    /\ At(t, "publish")
    /\ \E what \in th[t].stores :
          /\ stream' = Store(stream, what, IF Top(t) = "close" THEN NoFd ELSE th[t].fd)
          /\ IF th[t].stores # {what} THEN th' = [th EXCEPT ![t].stores = @ \ {what}]
             ELSE IF Top(t) \in {"stir", "close"} THEN Return(t)
             ELSE th' = [th EXCEPT ![t].at = "source", ![t].stores = {}]
    /\ UNCHANGED <<implementation, fds, harm, ended>>

(* buf(): getrandom() if init() found it, or the device it opened.         *)
FromGetrandom(t) ==
    /\ At(t, "source") /\ stream.available # 0
    /\ Return(t)
    /\ UNCHANGED <<implementation, stream, fds, harm, ended>>

GetrandomFails(t) ==
    /\ At(t, "source") /\ stream.available # 0
    /\ Ends("denied")

FromDevice(t) ==
    /\ At(t, "source") /\ stream.available = 0 /\ stream.fd # NoFd
    /\ th' = [th EXCEPT ![t].at = "read", ![t].fd = stream.fd,
                        ![t].left = IF Top(t) = "buf" THEN Pieces ELSE 1]
    /\ UNCHANGED <<implementation, stream, fds, harm, ended>>

NoSource(t) ==
    /\ At(t, "source") /\ stream.available = 0 /\ stream.fd = NoFd
    /\ Ends("misuse")

(* safe_read() goes on until the request is served.                        *)
Read(t) ==
    /\ At(t, "read") /\ fds[th[t].fd] # "free"
    /\ harm' = IF fds[th[t].fd] = "foreign" THEN harm \cup {"read"} ELSE harm
    /\ IF th[t].left = 1 THEN Return(t) ELSE th' = [th EXCEPT ![t].left = @ - 1]
    /\ UNCHANGED <<implementation, stream, fds, ended>>

ReadFails(t) ==   \* or is at an end: the device, somebody's file, or nothing
    /\ At(t, "read")
    /\ Ends(IF fds[th[t].fd] = "random" THEN "denied" ELSE "misuse")

(* randombytes_close() and the close() of sysrandom, which forgets the     *)
(* descriptor once it is closed.                                           *)
Close(t) ==
    /\ At(t, "close")
    /\ IF implementation = "none" THEN Return(t) ELSE Goto(t, "close_call")
    /\ UNCHANGED <<implementation, stream, fds, harm, ended>>

CloseNull(t) ==
    /\ At(t, "close_call") /\ implementation = "none"
    /\ Ends("crash")

CloseCalls(t) ==
    /\ At(t, "close_call") /\ implementation # "none"
    /\ IF implementation = "sys" /\ stream.fd # NoFd
       THEN th' = [th EXCEPT ![t].at = "close_fd", ![t].fd = stream.fd]
       ELSE Return(t)
    /\ UNCHANGED <<implementation, stream, fds, harm, ended>>

(* Mutants: the descriptor is kept; the record stays marked.               *)
CloseFdKeepsIt(t) ==
    /\ At(t, "close_fd")
    /\ LET kind == fds[th[t].fd]
       IN  /\ fds' = [fds EXCEPT ![th[t].fd] = "free"]
           /\ harm' = IF kind = "foreign" THEN harm \cup {"closed"} ELSE harm
           /\ IF kind = "free" THEN Return(t) ELSE Publish(t, th[t].fd, {"uninitialized"})
    /\ UNCHANGED <<implementation, stream, ended>>
CloseFdKeepsMark(t) ==
    /\ At(t, "close_fd")
    /\ LET kind == fds[th[t].fd]
       IN  /\ fds' = [fds EXCEPT ![th[t].fd] = "free"]
           /\ harm' = IF kind = "foreign" THEN harm \cup {"closed"} ELSE harm
           /\ IF kind = "free" THEN Return(t) ELSE Publish(t, th[t].fd, {"fd"})
    /\ UNCHANGED <<implementation, stream, ended>>

CloseFd(t) ==
    /\ At(t, "close_fd")
    /\ LET kind == fds[th[t].fd]
       IN  /\ fds' = [fds EXCEPT ![th[t].fd] = "free"]
           /\ harm' = IF kind = "foreign" THEN harm \cup {"closed"} ELSE harm
           /\ IF kind = "free" THEN Return(t)
              ELSE Publish(t, th[t].fd, {"fd", "uninitialized"})
    /\ UNCHANGED <<implementation, stream, ended>>

-----------------------------------------------------------------------------
Step(t) ==
    \/ Test(t) \/ Assign(t) \/ CallNull(t) \/ CallReturns(t) \/ CallSys(t) \/ Sampled(t)
    \/ StirIfNeeded(t) \/ Stir(t) \/ InitProbes(t) \/ (\E f \in FDs : InitOpens(t, f))
    \/ InitFails(t) \/ StoreOne(t) \/ FromGetrandom(t) \/ GetrandomFails(t) \/ FromDevice(t)
    \/ NoSource(t) \/ Read(t) \/ ReadFails(t) \/ Close(t) \/ CloseNull(t) \/ CloseCalls(t) \/ CloseFd(t)

Library(t) ==
    /\ Step(t)
    /\ ready' = (ready \/ (t = MainThread /\ th[t].stack = <<"stir">> /\ th'[t] = Idle))
    /\ UNCHANGED <<kernel, careful, ops, files, changed>>

(* What a call of u overlaps, in the threads x: a close(), or an           *)
(* initialisation, of another thread.                                      *)
Overlaps(x) ==
    LET others(t) == \E u \in Thread \ {t} : x[u].at # "idle"
    IN  {"close" : t \in {t \in Thread : others(t) /\ x[t].stack = <<"close">>}}
        \cup {"init" : t \in {t \in Thread : /\ others(t) /\ x[t].at \in {"init", "publish"}
                                             /\ x[t].stack # <<"close">>}}

Next ==
    \/ \E t \in Thread :
          /\ (\E op \in Ops : Begin(t, op)) \/ Library(t)
          /\ races' = races \cup Overlaps(th')
    \/ \E t \in Thread, impl \in {"none", "sys", "custom"} :
          /\ SetImplementation(t, impl)
          /\ races' = IF \E u \in Thread : th[u].at # "idle" THEN races \cup {"set"} ELSE races
    \/ \E f \in FDs : OpenFile(f) /\ UNCHANGED races

Spec == Init /\ [][Next]_vars

-----------------------------------------------------------------------------
(* Properties.                                                             *)

(* What the library returns was read from the kernel, and what it closes   *)
(* is its own: another file is read as random, or closed, only when a      *)
(* close() overlaps another call.                                          *)
FilesAreLeftAlone == harm # {} => "close" \in races

(* A process is stopped when the kernel refuses it entropy, a device or a  *)
(* descriptor.  For any other reason, calls that must not overlap have:    *)
(* sodium_misuse() because a source was closed, or not there yet, and a    *)
(* call through a null pointer because the implementation was replaced.    *)
EndsForACause ==
    /\ ended = "misuse" => races \cap {"close", "init"} # {}
    /\ ended = "crash" => "set" \in races

(* Unless calls overlapped that must not, the record and the descriptors   *)
(* agree: no device is left open and forgotten, and what the record names  *)
(* is open, but for what a thread is about to store.                       *)
DescriptorsAgree ==
    races = {} =>
        LET storing == {t \in Thread : th[t].at = "publish" /\ "fd" \in th[t].stores}
            held    == {th[t].fd : t \in storing}
        IN  /\ {f \in FDs : fds[f] = "random"} \subseteq {stream.fd} \cup held
            /\ stream.fd = NoFd \/ stream.fd \in held \/ fds[stream.fd] = "random"

(* sodium_init() first is enough: as long as nobody closes or replaces the *)
(* implementation, no two calls interfere, since none initialises again.   *)
InitFirstIsEnough == careful /\ ~ changed => races = {}
=============================================================================
