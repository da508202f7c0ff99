------------------------- MODULE RandombytesProofs -------------------------
(***************************************************************************)
(* Randombytes, for any number of threads, calls, descriptors and files:   *)
(* what a race between calls of randombytes.c and of sysrandom can do, and *)
(* that nothing happens without one.                                       *)
(***************************************************************************)
EXTENDS Randombytes, TLAPS

Labels == {"idle", "test", "assign", "call", "sampled", "stir_if_needed", "stir", "init",
           "publish", "source", "read", "close", "close_call", "close_fd"}
Stores == {"available", "unavailable", "fd", "initialized", "uninitialized"}

ThreadType == [at : Labels, stack : Seq(Ops), fd : FDs \cup {NoFd}, left : Int,
               stores : SUBSET Stores]
StreamType == [fd : FDs \cup {NoFd}, initialized : {0, 1}, available : {0, 1}]

Typed ==
    /\ kernel \in {"getrandom", "device", "none"} /\ careful \in BOOLEAN
    /\ implementation \in {"none", "sys", "custom"}
    /\ stream \in StreamType
    /\ fds \in [FDs -> {"free", "random", "foreign"}]
    /\ th \in [Thread -> ThreadType]
    /\ ready \in BOOLEAN /\ changed \in BOOLEAN
    /\ ended \in {"no", "misuse", "denied", "crash"}

NoClose(s)  == \A i \in 1 .. Len(s) : s[i] # "close"
Closing(t)  == th[t].stack = <<"close">>
Storing(t)  == th[t].at = "publish" /\ "fd" \in th[t].stores
Starting(t) == th[t].at \in {"init", "publish"} /\ ~ Closing(t)

(* close() calls nothing and is not called; stir() stores what the kernel  *)
(* gave it.                                                                *)
Shaped(t) ==
    /\ th[t].at = "idle" <=> th[t].stack = <<>>
    /\ Closing(t) \/ NoClose(th[t].stack)
    /\ Closing(t) => th[t].at \in {"close", "close_call", "close_fd", "publish"}
    /\ th[t].at \in {"close", "close_call", "close_fd"} => Closing(t)
    /\ th[t].at \in {"read", "close_fd"} => th[t].fd \in FDs
    /\ th[t].at = "publish" =>
          /\ th[t].stores # {} /\ "fd" \in th[t].stores => th[t].fd \in FDs
          /\ Closing(t) => th[t].stores \subseteq {"fd", "uninitialized"}
          /\ ~ Closing(t) =>
                \/ kernel = "getrandom" /\ th[t].stores \subseteq {"available", "initialized"}
                \/ kernel = "device" /\ th[t].stores \subseteq {"unavailable", "fd", "initialized"}

Forms == Typed /\ \A t \in Thread : Shaped(t)

Idling(u)  == th[u].at = "idle"
AlonePlace(t) == \A u \in Thread : u # t => Idling(u)

(* Unless calls overlapped that must not, they did not.                    *)
Apart ==
    \A t \in Thread :
        /\ "close" \notin races /\ Closing(t) => AlonePlace(t)
        /\ "init" \notin races /\ Starting(t) => AlonePlace(t)

(* Unless a close() overlapped, every descriptor that is about to be used  *)
(* is the library's, and so is the one of the record, but for a thread     *)
(* that is about to forget it.                                             *)
HeldIsOpen(t) ==
    /\ th[t].at = "read" \/ (Storing(t) /\ ~ Closing(t)) \/ th[t].at = "close_fd"
          => fds[th[t].fd] = "random"
    /\ th[t].at = "close_fd" \/ (Storing(t) /\ Closing(t)) => th[t].fd = stream.fd

RecordIsOpen ==
    stream.fd # NoFd => \/ fds[stream.fd] = "random"
                        \/ \E t \in Thread : Closing(t) /\ Storing(t)

OwnFiles ==
    "close" \notin races =>
        harm = {} /\ RecordIsOpen /\ \A t \in Thread : HeldIsOpen(t)

(* Unless the implementation was replaced under a call, it is there for    *)
(* each call that has tested it.                                           *)
Implemented ==
    "set" \notin races =>
        \A t \in Thread :
            th[t].at \notin {"idle", "test", "assign", "close"} \/ Len(th[t].stack) > 1
               => implementation # "none"

(* Unless a close() or an initialisation overlapped: where the record      *)
(* comes from and what is left of it.                                      *)
HasSource == stream.available # 0 \/ stream.fd # NoFd

Published(t) ==
    /\ th[t].at = "source" => HasSource
    /\ th[t].at = "init" => stream.initialized = 0 /\ stream.fd = NoFd
    /\ th[t].at = "publish" /\ ~ Closing(t) =>
          /\ kernel = "getrandom" /\ "available" \notin th[t].stores => stream.available = 1
          /\ kernel = "getrandom" => stream.fd = NoFd
          /\ kernel = "device" => ("fd" \in th[t].stores <=> stream.fd = NoFd)
          /\ "initialized" \notin th[t].stores => stream.initialized = 1
    /\ th[t].at = "publish" /\ Closing(t) =>
          /\ "fd" \notin th[t].stores => stream.fd = NoFd
          /\ "fd" \in th[t].stores => fds[th[t].fd] # "random"
          /\ "uninitialized" \notin th[t].stores => stream.initialized = 0

Settled ==
    (\A t \in Thread : th[t].at # "publish") =>
        /\ stream.initialized = 1 => HasSource
        /\ stream.initialized = 0 => stream.fd = NoFd

NotForgotten ==
    \A f \in FDs : fds[f] = "random" =>
        f = stream.fd \/ \E t \in Thread : Storing(t) /\ th[t].fd = f

Sourced ==
    "close" \notin races /\ "init" \notin races =>
        Settled /\ NotForgotten /\ \A t \in Thread : Published(t)

(* sodium_init() first.                                                    *)
Alone(t) ==
    /\ th[t].at \in {"idle", "test", "assign", "call", "stir", "init", "publish"}
    /\ \A i \in 1 .. Len(th[t].stack) : th[t].stack[i] = "stir"
    /\ th[t].at \in {"call", "stir", "init", "publish"} \/ Len(th[t].stack) > 1
          => implementation = "sys"
    /\ th[t].at = "publish" /\ "initialized" \notin th[t].stores => stream.initialized = 1

Served(t) ==
    th[t].at \in {"idle", "test", "call", "sampled", "stir_if_needed", "stir", "source", "read"}

Calm ==
    /\ implementation \in {"none", "sys"}
    /\ ~ ready => Alone(MainThread) /\ AlonePlace(MainThread)
    /\ ready => /\ implementation = "sys" /\ stream.initialized = 1
                /\ \A t \in Thread : Served(t)

CarefulInv == careful /\ ~ changed => races = {} /\ Calm

RaceInv == Forms /\ Apart /\ OwnFiles /\ Implemented /\ Sourced /\ CarefulInv /\ EndsForACause

-----------------------------------------------------------------------------
(* What each way of updating a thread does to it, and to no other.         *)

Others(t) == th' \in [Thread -> ThreadType] /\ \A u \in Thread : u # t => th'[u] = th[u]

Moved(t, label) ==
    /\ Others(t)
    /\ th'[t].at = label /\ th'[t].stack = th[t].stack
    /\ th'[t].fd = th[t].fd /\ th'[t].stores = th[t].stores

Pushed(t, op) ==
    /\ Others(t)
    /\ th'[t].at = "test" /\ th'[t].stack = Append(th[t].stack, op)
    /\ th'[t].fd = th[t].fd /\ th'[t].stores = th[t].stores

Returned(t) ==
    /\ Others(t)
    /\ th'[t].fd = NoFd /\ th'[t].stores = {}
    /\ Len(th[t].stack) = 1 => th'[t].at = "idle" /\ th'[t].stack = <<>>
    /\ Len(th[t].stack) # 1 => /\ th'[t].at = IF Top(t) = "random" THEN "sampled" ELSE "call"
                               /\ Len(th'[t].stack) = Len(th[t].stack) - 1
                               /\ th'[t].stack # <<>>
                               /\ \A i \in 1 .. Len(th'[t].stack) : th'[t].stack[i] = th[t].stack[i]

Held(t, label, fd, stores) ==
    /\ Others(t)
    /\ th'[t].at = label /\ th'[t].stack = th[t].stack
    /\ th'[t].fd = fd /\ th'[t].stores = stores

(* A sequence without its last member.                                     *)
LEMMA Dropping ==
    ASSUME NEW S, NEW s \in Seq(S), s # <<>>
    PROVE  /\ SubSeq(s, 1, Len(s) - 1) \in Seq(S)
           /\ Len(SubSeq(s, 1, Len(s) - 1)) = Len(s) - 1
           /\ \A i \in 1 .. (Len(s) - 1) : SubSeq(s, 1, Len(s) - 1)[i] = s[i]
           /\ SubSeq(s, 1, Len(s) - 1) = <<>> <=> Len(s) = 1
<1>1. Len(s) \in Nat /\ Len(s) >= 1 /\ \A i \in 1 .. Len(s) : s[i] \in S
  OBVIOUS
<1>2. \A i \in 1 .. (Len(s) - 1) : s[i] \in S
  BY <1>1
<1>3. PICK n \in Nat : n = Len(s) - 1
  BY <1>1
<1>4. SubSeq(s, 1, n) = [i \in 1 .. n |-> s[i]]
  BY <1>1, <1>3
<1>5. SubSeq(s, 1, n) \in Seq(S) /\ Len(SubSeq(s, 1, n)) = n
  BY <1>2, <1>3, <1>4
<1>6. \A i \in 1 .. n : SubSeq(s, 1, n)[i] = s[i]
  BY <1>4
<1>7. SubSeq(s, 1, n) = <<>> <=> n = 0
  BY <1>5
<1> QED  BY <1>1, <1>3, <1>5, <1>6, <1>7

LEMMA IdleType == Idle \in ThreadType
BY DEF Idle, ThreadType, Labels, NoFd

(* A changed thread is a thread.                                           *)
LEMMA Changes ==
    ASSUME NEW t \in Thread, NEW r \in ThreadType, th \in [Thread -> ThreadType],
           th' = [th EXCEPT ![t] = r]
    PROVE  Others(t) /\ th'[t] = r
BY DEF Others

LEMMA Moving ==
    ASSUME NEW t \in Thread, NEW label \in Labels, th \in [Thread -> ThreadType], Goto(t, label)
    PROVE  Moved(t, label)
<1> DEFINE r == [th[t] EXCEPT !.at = label]
<1>1. r \in ThreadType
  BY DEF ThreadType
<1>2. th' = [th EXCEPT ![t] = r]
  BY DEF Goto
<1>3. Others(t) /\ th'[t] = r
  <2> HIDE DEF r
  <2> QED  BY <1>1, <1>2, Changes
<1>4. /\ r.at = label /\ r.stack = th[t].stack /\ r.fd = th[t].fd /\ r.stores = th[t].stores
  BY DEF ThreadType
<1> QED  BY <1>3, <1>4 DEF Moved

LEMMA Pushing ==
    ASSUME NEW t \in Thread, NEW op \in Ops, th \in [Thread -> ThreadType], Push(t, op)
    PROVE  Pushed(t, op)
<1> DEFINE r == [th[t] EXCEPT !.at = "test", !.stack = Append(@, op)]
<1>0. th[t] \in ThreadType /\ Append(th[t].stack, op) \in Seq(Ops)
  BY DEF ThreadType
<1>1. r \in ThreadType
  BY <1>0 DEF ThreadType, Labels
<1>2. th' = [th EXCEPT ![t] = r]
  BY DEF Push
<1>3. Others(t) /\ th'[t] = r
  <2> HIDE DEF r
  <2> QED  BY <1>1, <1>2, Changes
<1>4. /\ r.at = "test" /\ r.stack = Append(th[t].stack, op)
      /\ r.fd = th[t].fd /\ r.stores = th[t].stores
  BY <1>0 DEF ThreadType
<1> QED  BY <1>3, <1>4 DEF Pushed

LEMMA Returning ==
    ASSUME NEW t \in Thread, th \in [Thread -> ThreadType], th[t].stack # <<>>, Return(t)
    PROVE  Returned(t)
<1> DEFINE s    == th[t].stack
           rest == SubSeq(s, 1, Len(s) - 1)
           place == IF Top(t) = "random" THEN "sampled" ELSE "call"
           back == [Idle EXCEPT !.stack = rest,
                                !.at = place]
           r    == IF rest = <<>> THEN Idle ELSE back
<1>1. s \in Seq(Ops) /\ s # <<>> /\ Len(s) \in Nat /\ Len(s) >= 1
  BY DEF ThreadType
<1>2. /\ rest \in Seq(Ops) /\ Len(rest) = Len(s) - 1
      /\ \A i \in 1 .. Len(rest) : rest[i] = s[i]
      /\ rest = <<>> <=> Len(s) = 1
  BY <1>1, Dropping
<1>3. rest = <<>> <=> Len(s) = 1
  BY <1>2
<1>4. /\ back \in ThreadType /\ back.stack = rest /\ back.fd = NoFd /\ back.stores = {}
      /\ back.at = place
  <2>1. place \in Labels
    BY DEF Labels
  <2> HIDE DEF rest, place
  <2> QED  BY <2>1, <1>2, IdleType DEF Idle, ThreadType
<1>5. th' = [th EXCEPT ![t] = r]
  BY DEF Return
<1> HIDE DEF rest, back
<1>6. r \in ThreadType
  BY <1>4, IdleType
<1>7. Others(t) /\ th'[t] = r
  <2> HIDE DEF r
  <2> QED  BY <1>5, <1>6, Changes
<1>8. CASE Len(s) = 1
  <2>1. th'[t] = Idle
    BY <1>3, <1>7, <1>8
  <2> QED  BY <2>1, <1>7, <1>8 DEF Returned, Idle
<1>9. CASE Len(s) # 1
  <2>1. th'[t] = back
    BY <1>3, <1>7, <1>9
  <2> QED  BY <2>1, <1>2, <1>3, <1>4, <1>7, <1>9 DEF Returned
<1> QED  BY <1>8, <1>9

LEMMA Publishing ==
    ASSUME NEW t \in Thread, th \in [Thread -> ThreadType], NEW fd \in FDs \cup {NoFd},
           NEW stores \in SUBSET Stores, Publish(t, fd, stores)
    PROVE  Held(t, "publish", fd, stores)
<1> DEFINE r == [th[t] EXCEPT !.at = "publish", !.fd = fd, !.stores = stores]
<1>0. th[t] \in ThreadType
  OBVIOUS
<1>1. r \in ThreadType
  BY <1>0 DEF ThreadType, Labels
<1>2. th' = [th EXCEPT ![t] = r]
  BY DEF Publish
<1>3. Others(t) /\ th'[t] = r
  <2> HIDE DEF r
  <2> QED  BY <1>1, <1>2, Changes
<1>4. /\ r.at = "publish" /\ r.stack = th[t].stack
      /\ r.fd = fd /\ r.stores = stores
  BY <1>0 DEF ThreadType
<1> QED  BY <1>3, <1>4 DEF Held

-----------------------------------------------------------------------------
(* Types and shapes.                                                       *)

LEMMA Places ==
    ASSUME Forms, NEW t \in Thread, th[t].at # "idle"
    PROVE  /\ th[t] \in ThreadType /\ th[t].stack \in Seq(Ops) /\ th[t].stack # <<>>
           /\ Len(th[t].stack) \in Nat /\ Len(th[t].stack) >= 1 /\ Top(t) \in Ops
           /\ Closing(t) => Top(t) = "close" /\ Len(th[t].stack) = 1
           /\ ~ Closing(t) => NoClose(th[t].stack) /\ Top(t) # "close"
<1>1. th[t] \in ThreadType /\ th[t].stack \in Seq(Ops) /\ th[t].stack # <<>>
  BY DEF Forms, Typed, Shaped, ThreadType
<1>2. Len(th[t].stack) \in Nat /\ Len(th[t].stack) >= 1
  BY <1>1
<1>3. Top(t) \in Ops
  BY <1>1, <1>2 DEF Top
<1>4. Closing(t) => Top(t) = "close" /\ Len(th[t].stack) = 1
  BY DEF Closing, Top
<1>5. ~ Closing(t) => NoClose(th[t].stack)
  BY DEF Forms, Shaped
<1>6. NoClose(th[t].stack) => Top(t) # "close"
  BY <1>2 DEF NoClose, Top
<1> QED  BY <1>1, <1>2, <1>3, <1>4, <1>5, <1>6

LEMMA OthersShaped ==
    ASSUME Forms, NEW t \in Thread, Others(t), kernel' = kernel, Shaped(t)'
    PROVE  \A u \in Thread : Shaped(u)'
<1> SUFFICES ASSUME NEW u \in Thread, u # t PROVE Shaped(u)'
  OBVIOUS
<1>1. th'[u] = th[u] /\ Shaped(u)
  BY DEF Forms, Others
<1> QED  BY <1>1 DEF Shaped, Closing

LEMMA ShapedMove ==
    ASSUME Forms, NEW t \in Thread, th[t].at # "idle",
           NEW label \in Labels \ {"idle", "publish", "read", "close", "close_fd"},
           Moved(t, label), label = "close_call" <=> Closing(t), kernel' = kernel
    PROVE  \A u \in Thread : Shaped(u)'
<1>1. Shaped(t) /\ th[t].stack # <<>>
  BY Places DEF Forms
<1>2. Shaped(t)'
  BY <1>1 DEF Shaped, Closing, Moved
<1> QED  BY <1>2, OthersShaped DEF Moved

LEMMA ShapedPush ==
    ASSUME Forms, NEW t \in Thread, th[t].at # "idle", ~ Closing(t),
           NEW op \in Ops, op # "close", Pushed(t, op), kernel' = kernel
    PROVE  /\ \A u \in Thread : Shaped(u)'
           /\ Len(th'[t].stack) > 1
           /\ \A i \in 1 .. Len(th'[t].stack) :
                 IF i = Len(th'[t].stack) THEN th'[t].stack[i] = op
                 ELSE i \in 1 .. Len(th[t].stack) /\ th'[t].stack[i] = th[t].stack[i]
<1>1. /\ th[t].stack \in Seq(Ops) /\ th[t].stack # <<>> /\ NoClose(th[t].stack)
      /\ Len(th[t].stack) \in Nat /\ Len(th[t].stack) >= 1
  BY Places
<1>2. th'[t].stack = Append(th[t].stack, op) /\ th'[t].at = "test"
  BY DEF Pushed
<1>3. /\ Len(th'[t].stack) = Len(th[t].stack) + 1
      /\ \A i \in 1 .. Len(th'[t].stack) :
            IF i = Len(th'[t].stack) THEN th'[t].stack[i] = op
            ELSE i \in 1 .. Len(th[t].stack) /\ th'[t].stack[i] = th[t].stack[i]
  BY <1>1, <1>2
<1>4. NoClose(th'[t].stack)
  BY <1>1, <1>3 DEF NoClose
<1>5. th'[t].stack # <<>> /\ ~ Closing(t)'
  <2>1. th'[t].stack # <<>>
    BY <1>1, <1>3
  <2>2. ASSUME th'[t].stack = <<"close">> PROVE FALSE
    <3>1. 1 \in 1 .. Len(th'[t].stack) /\ th'[t].stack[1] = "close"
      BY <2>2
    <3> QED  BY <3>1, <1>4 DEF NoClose
  <2> QED  BY <2>1, <2>2 DEF Closing
<1>6. Shaped(t)'
  BY <1>2, <1>4, <1>5 DEF Shaped
<1> QED  BY <1>1, <1>3, <1>6, OthersShaped DEF Pushed

LEMMA ShapedReturn ==
    ASSUME Forms, NEW t \in Thread, th[t].at # "idle", Returned(t), kernel' = kernel
    PROVE  /\ \A u \in Thread : Shaped(u)'
           /\ ~ Closing(t)'
           /\ Closing(t) => th'[t].at = "idle"
           /\ Len(th'[t].stack) > 1 => Len(th[t].stack) > 1
<1>1. /\ th[t].stack \in Seq(Ops) /\ th[t].stack # <<>>
      /\ Len(th[t].stack) \in Nat /\ Len(th[t].stack) >= 1
  BY Places
<1>2. CASE Len(th[t].stack) = 1
  <2>1. th'[t].at = "idle" /\ th'[t].stack = <<>>
    BY <1>2 DEF Returned
  <2>2. ~ Closing(t)' /\ NoClose(<<>>) /\ Len(th'[t].stack) = 0
    BY <2>1 DEF Closing, NoClose
  <2>3. Shaped(t)'
    BY <2>1, <2>2 DEF Shaped
  <2> QED  BY <2>1, <2>2, <2>3, OthersShaped DEF Returned
<1>3. CASE Len(th[t].stack) # 1
  <2>1. /\ th'[t].at \in {"sampled", "call"}
        /\ Len(th'[t].stack) = Len(th[t].stack) - 1 /\ th'[t].stack # <<>>
        /\ \A i \in 1 .. Len(th'[t].stack) : th'[t].stack[i] = th[t].stack[i]
    BY <1>3 DEF Returned
  <2>2. NoClose(th[t].stack) /\ ~ Closing(t)
    BY <1>3, Places
  <2>3. NoClose(th'[t].stack)
    <3> SUFFICES ASSUME NEW i \in 1 .. Len(th'[t].stack) PROVE th'[t].stack[i] # "close"
      BY DEF NoClose
    <3>1. i \in 1 .. Len(th[t].stack)
      BY <1>1, <2>1
    <3> QED BY <2>1, <2>2, <3>1 DEF NoClose
  <2>4. ~ Closing(t)'
    <3> SUFFICES ASSUME th'[t].stack = <<"close">> PROVE FALSE
      BY DEF Closing
    <3> QED  BY <2>3 DEF NoClose
  <2>5. Shaped(t)'
    BY <2>1, <2>3, <2>4 DEF Shaped
  <2>6. Len(th'[t].stack) > 1 => Len(th[t].stack) > 1
    BY <1>1, <2>1
  <2> QED  BY <2>2, <2>4, <2>5, <2>6, OthersShaped DEF Returned
<1> QED  BY <1>2, <1>3

(* A descriptor is held to read from it, to store it or to close it.       *)
LEMMA ShapedHold ==
    ASSUME Forms, NEW t \in Thread, th[t].at # "idle",
           NEW label \in {"read", "publish", "close_fd"}, NEW fd, NEW stores,
           Held(t, label, fd, stores), kernel' = kernel,
           label = "read" => fd \in FDs /\ ~ Closing(t),
           label = "close_fd" => fd \in FDs /\ Closing(t),
           label = "publish" =>
              /\ stores # {} /\ "fd" \in stores => fd \in FDs
              /\ Closing(t) => stores \subseteq {"fd", "uninitialized"}
              /\ ~ Closing(t) =>
                    \/ kernel = "getrandom" /\ stores \subseteq {"available", "initialized"}
                    \/ kernel = "device" /\ stores \subseteq {"unavailable", "fd", "initialized"}
    PROVE  \A u \in Thread : Shaped(u)'
<1>1. Shaped(t) /\ th[t].stack # <<>>
  BY Places DEF Forms
<1>2. Shaped(t)'
  BY <1>1 DEF Shaped, Closing, Held
<1> QED  BY <1>2, OthersShaped DEF Held

(* What the steps of the library leave typed.                              *)
LEMMA TypedStep ==
    ASSUME Typed, th' \in [Thread -> ThreadType], UNCHANGED <<kernel, careful>>,
           implementation' \in {"none", "sys", "custom"}, stream' \in StreamType,
           fds' \in [FDs -> {"free", "random", "foreign"}],
           ready' \in BOOLEAN, changed' \in BOOLEAN, ended' \in {"no", "misuse", "denied", "crash"}
    PROVE  Typed'
BY DEF Typed

LEMMA StoreType ==
    ASSUME NEW st \in StreamType, NEW what \in Stores, NEW fd \in FDs \cup {NoFd}
    PROVE  /\ Store(st, what, fd) \in StreamType
           /\ Store(st, what, fd).fd = IF what = "fd" THEN fd ELSE st.fd
           /\ Store(st, what, fd).initialized = IF what = "initialized" THEN 1
                                                ELSE IF what = "uninitialized" THEN 0
                                                ELSE st.initialized
           /\ Store(st, what, fd).available = IF what = "available" THEN 1
                                              ELSE IF what = "unavailable" THEN 0
                                              ELSE st.available
<1>1. CASE what = "available"
  BY <1>1 DEF Store, StreamType
<1>2. CASE what = "unavailable"
  BY <1>2 DEF Store, StreamType
<1>3. CASE what = "fd"
  BY <1>3 DEF Store, StreamType
<1>4. CASE what = "initialized"
  BY <1>4 DEF Store, StreamType
<1>5. CASE what = "uninitialized"
  BY <1>5 DEF Store, StreamType
<1> QED  BY <1>1, <1>2, <1>3, <1>4, <1>5 DEF Stores

-----------------------------------------------------------------------------
(* The steps of a call by what they change: nothing that is shared, how    *)
(* the process ends, or what the actions of their own change.              *)

Calls(t) ==
    \/ th[t].at = "test" /\ implementation = "none" /\ Moved(t, "assign")
    \/ th[t].at = "test" /\ implementation # "none" /\ Moved(t, "call")
    \/ th[t].at = "call" /\ (implementation = "sys" => Top(t) # "stir") /\ Returned(t)
    \/ th[t].at = "call" /\ implementation = "sys" /\ Top(t) = "stir" /\ Moved(t, "stir")
    \/ th[t].at = "call" /\ Top(t) \in {"random", "buf"} /\ Moved(t, "stir_if_needed")
    \/ th[t].at = "call" /\ Top(t) = "uniform" /\ Pushed(t, "random")
    \/ th[t].at = "sampled" /\ (Pushed(t, "random") \/ Returned(t))
    \/ th[t].at = "close" /\ implementation = "none" /\ Returned(t)
    \/ th[t].at = "close" /\ implementation # "none" /\ Moved(t, "close_call")

Records(t) ==
    \/ th[t].at = "stir_if_needed" /\ stream.initialized # 0 /\ Moved(t, "source")
    \/ th[t].at = "stir_if_needed" /\ stream.initialized = 0 /\ Moved(t, "stir")
    \/ th[t].at = "stir" /\ stream.initialized = 0 /\ Moved(t, "init")
    \/ th[t].at = "stir" /\ stream.initialized # 0 /\ Top(t) = "stir" /\ Returned(t)
    \/ th[t].at = "stir" /\ stream.initialized # 0 /\ Top(t) # "stir" /\ Moved(t, "source")
    \/ th[t].at = "init" /\ kernel = "getrandom"
          /\ Held(t, "publish", NoFd, {"available", "initialized"})
    \/ th[t].at = "source" /\ stream.available # 0 /\ Returned(t)
    \/ th[t].at = "source" /\ stream.fd # NoFd /\ Held(t, "read", stream.fd, th[t].stores)
    \/ th[t].at = "close_call" /\ implementation # "none" /\ Returned(t)
    \/ th[t].at = "close_call" /\ implementation # "none" /\ stream.fd # NoFd
          /\ Held(t, "close_fd", stream.fd, th[t].stores)

Quiet(t) == UNCHANGED <<implementation, stream, fds, harm, ended>> /\ (Calls(t) \/ Records(t))

Stops(t) ==
    /\ UNCHANGED <<implementation, stream, fds, th, harm>>
    /\ \/ ended' = "crash" /\ th[t].at \in {"call", "close_call"} /\ implementation = "none"
       \/ ended' = "denied" /\ th[t].at \in {"init", "source", "read"}
       \/ ended' = "misuse" /\ th[t].at = "source" /\ ~ HasSource
       \/ ended' = "misuse" /\ th[t].at = "read" /\ fds[th[t].fd] # "random"

LEMMA CallsQuietly ==
    ASSUME Forms, NEW t \in Thread,
           Test(t) \/ CallReturns(t) \/ CallSys(t) \/ Sampled(t) \/ Close(t)
    PROVE  th[t].at # "idle" /\ Quiet(t)
<1>0. th \in [Thread -> ThreadType]
  BY DEF Forms, Typed
<1>1. CASE Test(t)
  <2>1. th[t].at = "test" /\ UNCHANGED <<implementation, stream, fds, harm, ended>>
    BY <1>1 DEF Test, At
  <2>2. CASE implementation = "none"
    <3>1. Goto(t, "assign")
      BY <1>1, <2>2 DEF Test
    <3> QED  BY <1>0, <2>1, <2>2, <3>1, Moving DEF Quiet, Calls, Labels
  <2>3. CASE implementation # "none"
    <3>1. Goto(t, "call")
      BY <1>1, <2>3 DEF Test
    <3> QED  BY <1>0, <2>1, <2>3, <3>1, Moving DEF Quiet, Calls, Labels
  <2> QED  BY <2>2, <2>3
<1>2. CASE CallReturns(t)
  <2>1. /\ th[t].at = "call" /\ UNCHANGED <<implementation, stream, fds, harm, ended>>
        /\ implementation = "sys" => Top(t) # "stir"
        /\ Return(t)
    BY <1>2 DEF CallReturns, At
  <2> QED  BY <1>0, <2>1, Places, Returning DEF Quiet, Calls
<1>3. CASE CallSys(t)
  <2>1. /\ th[t].at = "call" /\ UNCHANGED <<implementation, stream, fds, harm, ended>>
        /\ implementation = "sys"
    BY <1>3 DEF CallSys, At
  <2>2. \/ Top(t) = "stir" /\ Goto(t, "stir")
        \/ Top(t) \in {"random", "buf"} /\ Goto(t, "stir_if_needed")
        \/ Top(t) = "uniform" /\ Push(t, "random")
        \/ Top(t) = "uniform" /\ Return(t)
    BY <1>3 DEF CallSys
  <2>3. CASE Top(t) = "stir" /\ Goto(t, "stir")
    BY <1>0, <2>1, <2>3, Moving DEF Quiet, Calls, Labels
  <2>4. CASE Top(t) \in {"random", "buf"} /\ Goto(t, "stir_if_needed")
    BY <1>0, <2>1, <2>4, Moving DEF Quiet, Calls, Labels
  <2>5. CASE Top(t) = "uniform" /\ Push(t, "random")
    BY <1>0, <2>1, <2>5, Pushing DEF Quiet, Calls, Ops
  <2>6. CASE Top(t) = "uniform" /\ Return(t)
    BY <1>0, <2>1, <2>6, Places, Returning DEF Quiet, Calls
  <2> QED  BY <2>2, <2>3, <2>4, <2>5, <2>6
<1>4. CASE Sampled(t)
  <2>1. th[t].at = "sampled" /\ UNCHANGED <<implementation, stream, fds, harm, ended>>
    BY <1>4 DEF Sampled, At
  <2>2. CASE Push(t, "random")
    BY <1>0, <2>1, <2>2, Pushing DEF Quiet, Calls, Ops
  <2>3. CASE Return(t)
    BY <1>0, <2>1, <2>3, Places, Returning DEF Quiet, Calls
  <2> QED  BY <1>4, <2>2, <2>3 DEF Sampled
<1>5. CASE Close(t)
  <2>1. th[t].at = "close" /\ UNCHANGED <<implementation, stream, fds, harm, ended>>
    BY <1>5 DEF Close, At
  <2>2. CASE implementation = "none"
    <3>1. Return(t)
      BY <1>5, <2>2 DEF Close
    <3> QED  BY <1>0, <2>1, <2>2, <3>1, Places, Returning DEF Quiet, Calls
  <2>3. CASE implementation # "none"
    <3>1. Goto(t, "close_call")
      BY <1>5, <2>3 DEF Close
    <3> QED  BY <1>0, <2>1, <2>3, <3>1, Moving DEF Quiet, Calls, Labels
  <2> QED  BY <2>2, <2>3
<1> QED  BY <1>1, <1>2, <1>3, <1>4, <1>5

LEMMA RecordsQuietly ==
    ASSUME Forms, NEW t \in Thread,
           \/ StirIfNeeded(t) \/ Stir(t) \/ InitProbes(t)
           \/ FromGetrandom(t) \/ FromDevice(t) \/ CloseCalls(t)
    PROVE  th[t].at # "idle" /\ Quiet(t)
<1>0. th \in [Thread -> ThreadType] /\ stream.fd \in FDs \cup {NoFd} /\ th[t] \in ThreadType
  BY DEF Forms, Typed, StreamType
<1>1. CASE StirIfNeeded(t)
  <2>1. th[t].at = "stir_if_needed" /\ UNCHANGED <<implementation, stream, fds, harm, ended>>
    BY <1>1 DEF StirIfNeeded, At
  <2>2. CASE stream.initialized = 0
    <3>1. Goto(t, "stir")
      BY <1>1, <2>2 DEF StirIfNeeded
    <3> QED  BY <1>0, <2>1, <2>2, <3>1, Moving DEF Quiet, Records, Labels
  <2>3. CASE stream.initialized # 0
    <3>1. Goto(t, "source")
      BY <1>1, <2>3 DEF StirIfNeeded
    <3> QED  BY <1>0, <2>1, <2>3, <3>1, Moving DEF Quiet, Records, Labels
  <2> QED  BY <2>2, <2>3
<1>2. CASE Stir(t)
  <2>1. th[t].at = "stir" /\ UNCHANGED <<implementation, stream, fds, harm, ended>>
    BY <1>2 DEF Stir, At
  <2>2. CASE stream.initialized = 0
    <3>1. Goto(t, "init")
      BY <1>2, <2>2 DEF Stir
    <3> QED  BY <1>0, <2>1, <2>2, <3>1, Moving DEF Quiet, Records, Labels
  <2>3. CASE stream.initialized # 0 /\ Top(t) = "stir"
    <3>1. Return(t)
      BY <1>2, <2>3 DEF Stir, AfterStir
    <3> QED  BY <1>0, <2>1, <2>3, <3>1, Places, Returning DEF Quiet, Records
  <2>4. CASE stream.initialized # 0 /\ Top(t) # "stir"
    <3>1. Goto(t, "source")
      BY <1>2, <2>4 DEF Stir, AfterStir
    <3> QED  BY <1>0, <2>1, <2>4, <3>1, Moving DEF Quiet, Records, Labels
  <2> QED  BY <2>2, <2>3, <2>4
<1>3. CASE InitProbes(t)
  <2>1. /\ th[t].at = "init" /\ UNCHANGED <<implementation, stream, fds, harm, ended>>
        /\ kernel = "getrandom" /\ Publish(t, NoFd, {"available", "initialized"})
    BY <1>3 DEF InitProbes, At
  <2>2. {"available", "initialized"} \in SUBSET Stores
    BY DEF Stores
  <2> QED  BY <1>0, <2>1, <2>2, Publishing DEF Quiet, Records
<1>4. CASE FromGetrandom(t)
  <2>1. /\ th[t].at = "source" /\ UNCHANGED <<implementation, stream, fds, harm, ended>>
        /\ stream.available # 0 /\ Return(t)
    BY <1>4 DEF FromGetrandom, At
  <2> QED  BY <1>0, <2>1, Places, Returning DEF Quiet, Records
<1>5. CASE FromDevice(t)
  <2>1. /\ th[t].at = "source" /\ UNCHANGED <<implementation, stream, fds, harm, ended>>
        /\ stream.fd # NoFd
    BY <1>5 DEF FromDevice, At
  <2>2. PICK n \in Int : n = IF Top(t) = "buf" THEN Pieces ELSE 1
    BY NumbersAssumption
  <2> DEFINE r == [th[t] EXCEPT !.at = "read", !.fd = stream.fd, !.left = n]
  <2>3. th' = [th EXCEPT ![t] = r]
    BY <1>5, <2>2 DEF FromDevice
  <2>4. /\ r \in ThreadType /\ r.at = "read" /\ r.stack = th[t].stack
        /\ r.fd = stream.fd /\ r.stores = th[t].stores
    BY <1>0, <2>2 DEF ThreadType, Labels
  <2>5. Others(t) /\ th'[t] = r
    <3> HIDE DEF r
    <3> QED  BY <1>0, <2>3, <2>4, Changes
  <2>6. Held(t, "read", stream.fd, th[t].stores)
    <3> HIDE DEF r
    <3> QED  BY <2>4, <2>5 DEF Held
  <2> QED  BY <2>1, <2>6 DEF Quiet, Records
<1>6. CASE CloseCalls(t)
  <2>1. /\ th[t].at = "close_call" /\ UNCHANGED <<implementation, stream, fds, harm, ended>>
        /\ implementation # "none"
    BY <1>6 DEF CloseCalls, At
  <2>2. CASE Return(t)
    BY <1>0, <2>1, <2>2, Places, Returning DEF Quiet, Records
  <2>3. CASE stream.fd # NoFd /\ th' = [th EXCEPT ![t].at = "close_fd", ![t].fd = stream.fd]
    <3> DEFINE r == [th[t] EXCEPT !.at = "close_fd", !.fd = stream.fd]
    <3>3. th' = [th EXCEPT ![t] = r]
      BY <2>3
    <3>4. /\ r \in ThreadType /\ r.at = "close_fd" /\ r.stack = th[t].stack
          /\ r.fd = stream.fd /\ r.stores = th[t].stores
      BY <1>0 DEF ThreadType, Labels
    <3>5. Others(t) /\ th'[t] = r
      <4> HIDE DEF r
      <4> QED  BY <1>0, <3>3, <3>4, Changes
    <3>6. Held(t, "close_fd", stream.fd, th[t].stores)
      <4> HIDE DEF r
      <4> QED  BY <3>4, <3>5 DEF Held
    <3> QED  BY <2>1, <2>3, <3>6 DEF Quiet, Records
  <2> QED  BY <1>6, <2>2, <2>3 DEF CloseCalls
<1> QED  BY <1>1, <1>2, <1>3, <1>4, <1>5, <1>6

LEMMA Stopping ==
    ASSUME NEW t \in Thread,
           CallNull(t) \/ InitFails(t) \/ GetrandomFails(t) \/ NoSource(t) \/ ReadFails(t)
             \/ CloseNull(t)
    PROVE  th[t].at # "idle" /\ Stops(t)
<1>1. CASE CallNull(t)
  BY <1>1 DEF CallNull, At, Ends, Stops
<1>2. CASE InitFails(t)
  BY <1>2 DEF InitFails, At, Ends, Stops
<1>3. CASE NoSource(t)
  BY <1>3 DEF NoSource, At, Ends, Stops, HasSource
<1>4. CASE ReadFails(t)
  BY <1>4 DEF ReadFails, At, Ends, Stops
<1>5. CASE CloseNull(t)
  BY <1>5 DEF CloseNull, At, Ends, Stops
<1>6. CASE GetrandomFails(t)
  BY <1>6 DEF GetrandomFails, At, Ends, Stops
<1> QED  BY <1>1, <1>2, <1>3, <1>4, <1>5, <1>6

Assigns(t) ==
    /\ UNCHANGED <<stream, fds, harm, ended>>
    /\ th[t].at = "assign" /\ implementation' = "sys" /\ Pushed(t, "stir")

Opens(t) ==
    /\ UNCHANGED <<implementation, stream, harm, ended>>
    /\ th[t].at = "init" /\ kernel = "device"
    /\ \E f \in FDs : /\ fds[f] = "free" /\ fds' = [fds EXCEPT ![f] = "random"]
                      /\ Held(t, "publish", f, {"unavailable", "fd", "initialized"})

Keeps(t) ==
    /\ UNCHANGED <<implementation, fds, harm, ended>>
    /\ th[t].at = "publish"
    /\ \E what \in th[t].stores :
          /\ stream' \in StreamType
          /\ stream' = Store(stream, what, IF Top(t) = "close" THEN NoFd ELSE th[t].fd)
          /\ \/ th[t].stores # {what} /\ Held(t, "publish", th[t].fd, th[t].stores \ {what})
             \/ th[t].stores = {what} /\ Top(t) \in {"stir", "close"} /\ Returned(t)
             \/ th[t].stores = {what} /\ Top(t) \notin {"stir", "close"}
                   /\ Held(t, "source", th[t].fd, {})

Reads(t) ==
    /\ UNCHANGED <<implementation, stream, fds, ended>>
    /\ th[t].at = "read" /\ fds[th[t].fd] # "free"
    /\ harm' = IF fds[th[t].fd] = "foreign" THEN harm \cup {"read"} ELSE harm
    /\ Returned(t) \/ Held(t, "read", th[t].fd, th[t].stores)

Closes(t) ==
    /\ UNCHANGED <<implementation, stream, ended>>
    /\ th[t].at = "close_fd" /\ fds' = [fds EXCEPT ![th[t].fd] = "free"]
    /\ harm' = IF fds[th[t].fd] = "foreign" THEN harm \cup {"closed"} ELSE harm
    /\ \/ fds[th[t].fd] = "free" /\ Returned(t)
       \/ fds[th[t].fd] # "free" /\ Held(t, "publish", th[t].fd, {"fd", "uninitialized"})

LEMMA Assigning ==
    ASSUME Forms, NEW t \in Thread, Assign(t)
    PROVE  th[t].at # "idle" /\ Assigns(t)
<1>0. th \in [Thread -> ThreadType]
  BY DEF Forms, Typed
<1> QED  BY <1>0, Pushing DEF Assign, At, Assigns, Ops

LEMMA Opening ==
    ASSUME Forms, NEW t \in Thread, NEW f \in FDs, InitOpens(t, f)
    PROVE  th[t].at # "idle" /\ Opens(t)
<1>0. th \in [Thread -> ThreadType]
  BY DEF Forms, Typed
<1>1. {"unavailable", "fd", "initialized"} \in SUBSET Stores
  BY DEF Stores
<1>2. Held(t, "publish", f, {"unavailable", "fd", "initialized"})
  BY <1>0, <1>1, Publishing DEF InitOpens
<1> QED  BY <1>2 DEF InitOpens, At, Opens

LEMMA Keeping ==
    ASSUME Forms, NEW t \in Thread, StoreOne(t)
    PROVE  th[t].at # "idle" /\ Keeps(t)
<1>0. /\ th \in [Thread -> ThreadType] /\ th[t] \in ThreadType /\ stream \in StreamType
      /\ th[t].stores \in SUBSET Stores /\ th[t].fd \in FDs \cup {NoFd}
  BY DEF Forms, Typed, ThreadType
<1>1. th[t].at = "publish" /\ UNCHANGED <<implementation, fds, harm, ended>>
  BY DEF StoreOne, At
<1>2. PICK what \in th[t].stores :
         /\ stream' = Store(stream, what, IF Top(t) = "close" THEN NoFd ELSE th[t].fd)
         /\ IF th[t].stores # {what} THEN th' = [th EXCEPT ![t].stores = @ \ {what}]
            ELSE IF Top(t) \in {"stir", "close"} THEN Return(t)
            ELSE th' = [th EXCEPT ![t].at = "source", ![t].stores = {}]
  BY DEF StoreOne
<1>3. PICK n \in FDs \cup {NoFd} : n = IF Top(t) = "close" THEN NoFd ELSE th[t].fd
  BY <1>0
<1>4. stream' \in StreamType
  BY <1>0, <1>2, <1>3, StoreType
<1>5. CASE th[t].stores # {what}
  <2> DEFINE r == [th[t] EXCEPT !.stores = @ \ {what}]
  <2>1. th' = [th EXCEPT ![t] = r]
    BY <1>2, <1>5
  <2>2. /\ r \in ThreadType /\ r.at = "publish" /\ r.stack = th[t].stack
        /\ r.fd = th[t].fd /\ r.stores = th[t].stores \ {what}
    BY <1>0, <1>1 DEF ThreadType
  <2>3. Others(t) /\ th'[t] = r
    <3> HIDE DEF r
    <3> QED  BY <1>0, <2>1, <2>2, Changes
  <2>4. Held(t, "publish", th[t].fd, th[t].stores \ {what})
    <3> HIDE DEF r
    <3> QED  BY <2>2, <2>3 DEF Held
  <2> QED  BY <1>1, <1>2, <1>4, <1>5, <2>4 DEF Keeps
<1>6. CASE th[t].stores = {what} /\ Top(t) \in {"stir", "close"}
  <2>1. Returned(t)
    BY <1>0, <1>1, <1>2, <1>6, Places, Returning
  <2> QED  BY <1>1, <1>2, <1>4, <1>6, <2>1 DEF Keeps
<1>7. CASE th[t].stores = {what} /\ Top(t) \notin {"stir", "close"}
  <2> DEFINE r == [th[t] EXCEPT !.at = "source", !.stores = {}]
  <2>1. th' = [th EXCEPT ![t] = r]
    BY <1>2, <1>7
  <2>2. /\ r \in ThreadType /\ r.at = "source" /\ r.stack = th[t].stack
        /\ r.fd = th[t].fd /\ r.stores = {}
    BY <1>0, <1>1 DEF ThreadType, Labels
  <2>3. Others(t) /\ th'[t] = r
    <3> HIDE DEF r
    <3> QED  BY <1>0, <2>1, <2>2, Changes
  <2>4. Held(t, "source", th[t].fd, {})
    <3> HIDE DEF r
    <3> QED  BY <2>2, <2>3 DEF Held
  <2> QED  BY <1>1, <1>2, <1>4, <1>7, <2>4 DEF Keeps
<1> QED  BY <1>5, <1>6, <1>7

LEMMA Reading ==
    ASSUME Forms, NEW t \in Thread, Read(t)
    PROVE  th[t].at # "idle" /\ Reads(t)
<1>0. th \in [Thread -> ThreadType] /\ th[t] \in ThreadType
  BY DEF Forms, Typed
<1>1. /\ th[t].at = "read" /\ UNCHANGED <<implementation, stream, fds, ended>>
      /\ fds[th[t].fd] # "free"
      /\ harm' = IF fds[th[t].fd] = "foreign" THEN harm \cup {"read"} ELSE harm
  BY DEF Read, At
<1>2. CASE Return(t)
  <2>1. Returned(t)
    BY <1>0, <1>1, <1>2, Places, Returning
  <2> QED  BY <1>1, <2>1 DEF Reads
<1>3. CASE th' = [th EXCEPT ![t].left = @ - 1]
  <2> DEFINE r == [th[t] EXCEPT !.left = @ - 1]
  <2>1. th' = [th EXCEPT ![t] = r]
    BY <1>3
  <2>2. /\ r \in ThreadType /\ r.at = "read" /\ r.stack = th[t].stack
        /\ r.fd = th[t].fd /\ r.stores = th[t].stores
    BY <1>0, <1>1 DEF ThreadType
  <2>3. Others(t) /\ th'[t] = r
    <3> HIDE DEF r
    <3> QED  BY <1>0, <2>1, <2>2, Changes
  <2>4. Held(t, "read", th[t].fd, th[t].stores)
    <3> HIDE DEF r
    <3> QED  BY <2>2, <2>3 DEF Held
  <2> QED  BY <1>1, <2>4 DEF Reads
<1> QED  BY <1>2, <1>3 DEF Read

LEMMA ClosingIt ==
    ASSUME Forms, NEW t \in Thread, CloseFd(t)
    PROVE  th[t].at # "idle" /\ Closes(t)
<1>0. /\ th \in [Thread -> ThreadType] /\ th[t].fd \in FDs \cup {NoFd}
      /\ {"fd", "uninitialized"} \in SUBSET Stores
  BY DEF Forms, Typed, ThreadType, Stores
<1>1. /\ th[t].at = "close_fd" /\ UNCHANGED <<implementation, stream, ended>>
      /\ fds' = [fds EXCEPT ![th[t].fd] = "free"]
      /\ harm' = IF fds[th[t].fd] = "foreign" THEN harm \cup {"closed"} ELSE harm
  BY DEF CloseFd, At
<1>2. CASE fds[th[t].fd] = "free"
  <2>1. Return(t)
    BY <1>2 DEF CloseFd
  <2>2. Returned(t)
    BY <1>0, <1>1, <2>1, Places, Returning
  <2> QED  BY <1>1, <1>2, <2>2 DEF Closes
<1>3. CASE fds[th[t].fd] # "free"
  <2>1. Publish(t, th[t].fd, {"fd", "uninitialized"})
    BY <1>3 DEF CloseFd
  <2>2. Held(t, "publish", th[t].fd, {"fd", "uninitialized"})
    BY <1>0, <2>1, Publishing
  <2> QED  BY <1>1, <1>3, <2>2 DEF Closes
<1> QED  BY <1>2, <1>3

(* Every step of a call is one of these.                                   *)
Does(t) ==
    \/ Quiet(t) \/ Stops(t) \/ Assigns(t) \/ Opens(t) \/ Keeps(t) \/ Reads(t) \/ Closes(t)

LEMMA StepDoes ==
    ASSUME Forms, NEW t \in Thread, Step(t)
    PROVE  ended = "no" /\ th[t].at # "idle" /\ Does(t)
<1>1. ended = "no"
  BY DEF Step, At, Test, Assign, CallNull, CallReturns, CallSys, Sampled, StirIfNeeded, Stir,
         InitProbes, InitOpens, InitFails, StoreOne, FromGetrandom, GetrandomFails,
         FromDevice, NoSource, Read, ReadFails, Close, CloseNull, CloseCalls, CloseFd
<1>2. CASE Test(t) \/ CallReturns(t) \/ CallSys(t) \/ Sampled(t) \/ Close(t)
  BY <1>1, <1>2, CallsQuietly DEF Does
<1>3. CASE \/ StirIfNeeded(t) \/ Stir(t) \/ InitProbes(t)
           \/ FromGetrandom(t) \/ FromDevice(t) \/ CloseCalls(t)
  BY <1>1, <1>3, RecordsQuietly DEF Does
<1>4. CASE \/ CallNull(t) \/ InitFails(t) \/ GetrandomFails(t)
           \/ NoSource(t) \/ ReadFails(t) \/ CloseNull(t)
  BY <1>1, <1>4, Stopping DEF Does
<1>5. CASE Assign(t)
  BY <1>1, <1>5, Assigning DEF Does
<1>6. CASE \E f \in FDs : InitOpens(t, f)
  BY <1>1, <1>6, Opening DEF Does
<1>7. CASE StoreOne(t)
  BY <1>1, <1>7, Keeping DEF Does
<1>8. CASE Read(t)
  BY <1>1, <1>8, Reading DEF Does
<1>9. CASE CloseFd(t)
  BY <1>1, <1>9, ClosingIt DEF Does
<1> QED  BY <1>2, <1>3, <1>4, <1>5, <1>6, <1>7, <1>8, <1>9 DEF Step

LEMMA CallsShaped ==
    ASSUME Forms, NEW t \in Thread, th[t].at # "idle", Calls(t), kernel' = kernel
    PROVE  \A u \in Thread : Shaped(u)'
<1>1. /\ Closing(t) => th[t].at \in {"close", "close_call", "close_fd", "publish"}
      /\ th[t].at \in {"close", "close_call", "close_fd"} => Closing(t)
      /\ Closing(t) => Top(t) = "close"
  BY Places DEF Forms, Shaped
<1>2. CASE \E label \in {"assign", "call", "stir", "stir_if_needed"} :
              th[t].at \in {"test", "call"} /\ Moved(t, label)
  BY <1>1, <1>2, ShapedMove DEF Labels
<1>3. CASE Returned(t)
  BY <1>3, ShapedReturn
<1>4. CASE th[t].at \in {"call", "sampled"} /\ Pushed(t, "random")
  BY <1>1, <1>4, ShapedPush DEF Ops
<1>5. CASE th[t].at = "close" /\ Moved(t, "close_call")
  BY <1>1, <1>5, ShapedMove DEF Labels
<1> QED  BY <1>2, <1>3, <1>4, <1>5 DEF Calls

LEMMA RecordsShaped ==
    ASSUME Forms, NEW t \in Thread, th[t].at # "idle", Records(t), kernel' = kernel
    PROVE  \A u \in Thread : Shaped(u)'
<1>1. /\ Closing(t) => th[t].at \in {"close", "close_call", "close_fd", "publish"}
      /\ th[t].at \in {"close", "close_call", "close_fd"} => Closing(t)
      /\ stream.fd \in FDs \cup {NoFd}
  BY DEF Forms, Shaped, Typed, StreamType
<1>2. CASE \E label \in {"source", "stir", "init"} :
              th[t].at \in {"stir", "stir_if_needed"} /\ Moved(t, label)
  BY <1>1, <1>2, ShapedMove DEF Labels
<1>3. CASE Returned(t)
  BY <1>3, ShapedReturn
<1>4. CASE /\ th[t].at = "init" /\ kernel = "getrandom"
           /\ Held(t, "publish", NoFd, {"available", "initialized"})
  BY <1>1, <1>4, ShapedHold
<1>5. CASE th[t].at = "source" /\ stream.fd # NoFd /\ Held(t, "read", stream.fd, th[t].stores)
  BY <1>1, <1>5, ShapedHold
<1>6. CASE th[t].at = "close_call" /\ stream.fd # NoFd
              /\ Held(t, "close_fd", stream.fd, th[t].stores)
  BY <1>1, <1>6, ShapedHold
<1> QED  BY <1>2, <1>3, <1>4, <1>5, <1>6 DEF Records

LEMMA KeepsShaped ==
    ASSUME Forms, NEW t \in Thread, th[t].at # "idle", Keeps(t), kernel' = kernel
    PROVE  \A u \in Thread : Shaped(u)'
<1>1. /\ Shaped(t) /\ th[t].at = "publish"
  BY DEF Forms, Keeps
<1>2. CASE Returned(t)
  BY <1>2, ShapedReturn
<1>3. CASE \E what \in th[t].stores : /\ th[t].stores # {what}
                                      /\ Held(t, "publish", th[t].fd, th[t].stores \ {what})
  <2>1. PICK what \in th[t].stores : /\ th[t].stores # {what}
                                     /\ Held(t, "publish", th[t].fd, th[t].stores \ {what})
    BY <1>3
  <2>2. th[t].stores \ {what} # {} /\ th[t].stores \ {what} \subseteq th[t].stores
    BY <2>1
  <2> QED  BY <1>1, <2>1, <2>2, ShapedHold DEF Shaped
<1>4. CASE Top(t) \notin {"stir", "close"} /\ Held(t, "source", th[t].fd, {})
  <2>1. ~ Closing(t) /\ th[t].stack # <<>>
    BY <1>4, Places
  <2>2. Shaped(t)'
    BY <1>1, <1>4, <2>1 DEF Shaped, Held, Closing
  <2> QED  BY <1>4, <2>2, OthersShaped DEF Held
<1> QED  BY <1>2, <1>3, <1>4 DEF Keeps

LEMMA DoesShaped ==
    ASSUME Forms, NEW t \in Thread, th[t].at # "idle", Does(t), kernel' = kernel
    PROVE  \A u \in Thread : Shaped(u)'
<1>0. Shaped(t)
  BY DEF Forms
<1>1. CASE Quiet(t)
  BY <1>1, CallsShaped, RecordsShaped DEF Quiet
<1>2. CASE Stops(t)
  BY <1>2 DEF Stops, Forms, Shaped, Closing
<1>3. CASE Assigns(t)
  <2>1. ~ Closing(t) /\ "stir" \in Ops /\ Pushed(t, "stir")
    BY <1>0, <1>3 DEF Assigns, Shaped, Ops
  <2> QED  BY <2>1, ShapedPush
<1>4. CASE Opens(t)
  <2>1. PICK f \in FDs : Held(t, "publish", f, {"unavailable", "fd", "initialized"})
    BY <1>4 DEF Opens
  <2>2. th[t].at = "init" /\ kernel = "device" /\ ~ Closing(t)
    BY <1>0, <1>4 DEF Opens, Shaped
  <2> QED  BY <2>1, <2>2, ShapedHold
<1>5. CASE Keeps(t)
  BY <1>5, KeepsShaped
<1>6. CASE Reads(t)
  <2>1. CASE Returned(t)
    BY <2>1, ShapedReturn
  <2>2. CASE Held(t, "read", th[t].fd, th[t].stores)
    BY <1>0, <1>6, <2>2, ShapedHold DEF Reads, Shaped
  <2> QED  BY <1>6, <2>1, <2>2 DEF Reads
<1>7. CASE Closes(t)
  <2>1. CASE Returned(t)
    BY <2>1, ShapedReturn
  <2>2. CASE Held(t, "publish", th[t].fd, {"fd", "uninitialized"})
    BY <1>0, <1>7, <2>2, ShapedHold DEF Closes, Shaped
  <2> QED  BY <1>7, <2>1, <2>2 DEF Closes
<1> QED  BY <1>1, <1>2, <1>3, <1>4, <1>5, <1>6, <1>7 DEF Does

(* A call begins.                                                          *)
Began(t, op) ==
    /\ Others(t) /\ th[t].at = "idle" /\ op \in Ops
    /\ th'[t].at = IF op = "close" THEN "close" ELSE "test"
    /\ th'[t].stack = <<op>>

LEMMA Beginning ==
    ASSUME Forms, NEW t \in Thread, NEW op \in Ops, Begin(t, op)
    PROVE  Began(t, op) /\ ended = "no" /\ (\A u \in Thread : Shaped(u)')
<1> DEFINE s     == <<op>>
           place == IF op = "close" THEN "close" ELSE "test"
           r     == [Idle EXCEPT !.stack = s, !.at = place]
<1>1. th' = [th EXCEPT ![t] = r] /\ th \in [Thread -> ThreadType]
  BY DEF Begin, Forms, Typed
<1>2. s \in Seq(Ops) /\ place \in Labels
  BY DEF Labels
<1>3. r \in ThreadType /\ r.stack = s /\ r.at = place
  <2> HIDE DEF s, place
  <2> QED  BY <1>2, IdleType DEF ThreadType, Idle
<1>4. Others(t) /\ th'[t] = r
  <2> HIDE DEF r
  <2> QED  BY <1>1, <1>3, Changes
<1>5. th[t].at = "idle" /\ ended = "no" /\ kernel' = kernel
  BY DEF Begin, MayBegin, At
<1>6. Began(t, op)
  <2> HIDE DEF r
  <2> QED  BY <1>3, <1>4, <1>5 DEF Began
<1>7. Shaped(t)'
  <2>1. th'[t].stack # <<>> /\ th'[t].stack[1] = op /\ Len(th'[t].stack) = 1
    BY <1>6 DEF Began
  <2>2. Closing(t)' <=> op = "close"
    BY <1>6, <2>1 DEF Began, Closing
  <2>3. op # "close" => NoClose(th'[t].stack)
    BY <2>1 DEF NoClose
  <2> QED  BY <1>6, <2>1, <2>2, <2>3 DEF Began, Shaped
<1> QED  BY <1>4, <1>5, <1>6, <1>7, OthersShaped

(* The steps of the whole.                                                 *)
Stepping(t) ==
    /\ ended = "no" /\ th[t].at # "idle" /\ Does(t)
    /\ UNCHANGED <<kernel, careful, changed>> /\ races' = races \cup Overlaps(th')
    /\ ready' = (ready \/ (t = MainThread /\ th[t].stack = <<"stir">> /\ th'[t] = Idle))

Entering(t, op) ==
    /\ ended = "no" /\ Began(t, op)
    /\ careful /\ ~ ready => t = MainThread /\ op = "stir"
    /\ changed' = (changed \/ op = "close") /\ races' = races \cup Overlaps(th')
    /\ UNCHANGED <<kernel, careful, implementation, stream, fds, ready, harm, ended>>

Replacing ==
    /\ ended = "no" /\ changed' = TRUE /\ implementation' \in {"none", "sys", "custom"}
    /\ races' = IF \E u \in Thread : th[u].at # "idle" THEN races \cup {"set"} ELSE races
    /\ UNCHANGED <<kernel, careful, stream, fds, th, ready, harm, ended>>

Foreign ==
    /\ ended = "no"
    /\ \E f \in FDs : fds[f] = "free" /\ fds' = [fds EXCEPT ![f] = "foreign"]
    /\ UNCHANGED <<kernel, careful, implementation, stream, th, ready, changed, races, harm,
                   ended>>

LEMMA NextIs ==
    ASSUME Forms, Next
    PROVE  \/ \E t \in Thread : Stepping(t)
           \/ \E t \in Thread, op \in Ops : Entering(t, op) /\ \A u \in Thread : Shaped(u)'
           \/ Replacing
           \/ Foreign
<1>1. ASSUME NEW t \in Thread, Library(t), races' = races \cup Overlaps(th')
      PROVE  Stepping(t)
  BY <1>1, StepDoes DEF Library, Stepping
<1>2. ASSUME NEW t \in Thread, NEW op \in Ops, Begin(t, op), races' = races \cup Overlaps(th')
      PROVE  Entering(t, op) /\ \A u \in Thread : Shaped(u)'
  BY <1>2, Beginning DEF Begin, MayBegin, Entering
<1>3. ASSUME NEW t \in Thread, NEW impl \in {"none", "sys", "custom"}, SetImplementation(t, impl),
             races' = IF \E u \in Thread : th[u].at # "idle" THEN races \cup {"set"} ELSE races
      PROVE  Replacing
  BY <1>3 DEF SetImplementation, MayBegin, At, Replacing
<1>4. ASSUME NEW f \in FDs, OpenFile(f), UNCHANGED races
      PROVE  Foreign
  BY <1>4 DEF OpenFile, Foreign
<1> QED  BY <1>1, <1>2, <1>3, <1>4 DEF Next

LEMMA DoesTyped ==
    ASSUME Forms, NEW t \in Thread, Does(t)
    PROVE  /\ th' \in [Thread -> ThreadType] /\ implementation' \in {"none", "sys", "custom"}
           /\ stream' \in StreamType /\ fds' \in [FDs -> {"free", "random", "foreign"}]
           /\ ended' \in {"no", "misuse", "denied", "crash"}
<1>0. Typed
  BY DEF Forms
<1>1. CASE Quiet(t)
  <2>1. Others(t)
    BY <1>1 DEF Quiet, Calls, Records, Moved, Pushed, Returned, Held
  <2> QED  BY <1>0, <1>1, <2>1 DEF Quiet, Typed, Others
<1>2. CASE Stops(t)
  BY <1>0, <1>2 DEF Stops, Typed
<1>3. CASE Assigns(t)
  BY <1>0, <1>3 DEF Assigns, Typed, Pushed, Others
<1>4. CASE Opens(t)
  BY <1>0, <1>4 DEF Opens, Typed, Held, Others
<1>5. CASE Keeps(t)
  <2>1. Others(t)
    BY <1>5 DEF Keeps, Held, Returned
  <2> QED  BY <1>0, <1>5, <2>1 DEF Keeps, Typed, Others
<1>6. CASE Reads(t)
  BY <1>0, <1>6 DEF Reads, Typed, Held, Returned, Others
<1>7. CASE Closes(t)
  BY <1>0, <1>7 DEF Closes, Typed, Held, Returned, Others
<1> QED  BY <1>1, <1>2, <1>3, <1>4, <1>5, <1>6, <1>7 DEF Does

LEMMA FormsStep ==
    ASSUME Forms, [Next]_vars
    PROVE  Forms'
<1>0. Typed
  BY DEF Forms
<1>1. ASSUME NEW t \in Thread, Stepping(t) PROVE Forms'
  <2>1. \A u \in Thread : Shaped(u)'
    BY <1>1, DoesShaped DEF Stepping
  <2>2. ready' \in BOOLEAN /\ changed' \in BOOLEAN
    BY <1>0, <1>1 DEF Stepping, Typed
  <2>3. Typed'
    BY <1>0, <1>1, <2>2, DoesTyped, TypedStep DEF Stepping
  <2> QED  BY <2>1, <2>3 DEF Forms
<1>2. ASSUME NEW t \in Thread, NEW op \in Ops, Entering(t, op),
             \A u \in Thread : Shaped(u)'
      PROVE  Forms'
  <2>1. Typed'
    BY <1>0, <1>2 DEF Entering, Typed, Began, Others
  <2> QED  BY <1>2, <2>1 DEF Forms
<1>3. CASE Replacing
  <2>1. \A u \in Thread : Shaped(u)'
    BY <1>3 DEF Forms, Replacing, Shaped, Closing
  <2>2. Typed'
    BY <1>0, <1>3 DEF Replacing, Typed
  <2> QED  BY <2>1, <2>2 DEF Forms
<1>4. CASE Foreign
  <2>1. \A u \in Thread : Shaped(u)'
    BY <1>4 DEF Forms, Foreign, Shaped, Closing
  <2>2. Typed'
    BY <1>0, <1>4 DEF Foreign, Typed
  <2> QED  BY <2>1, <2>2 DEF Forms
<1>5. CASE UNCHANGED vars
  <2>1. \A u \in Thread : Shaped(u)'
    BY <1>5 DEF Forms, vars, Shaped, Closing
  <2>2. Typed'
    BY <1>0, <1>5 DEF vars, Typed
  <2> QED  BY <2>1, <2>2 DEF Forms
<1> QED  BY <1>1, <1>2, <1>3, <1>4, <1>5, NextIs

-----------------------------------------------------------------------------
(* A call that overlaps what it must not is in `races' from then on.       *)

LEMMA OverlapIs ==
    ASSUME NEW x, NEW t \in Thread, NEW u \in Thread, u # t, x[u].at # "idle"
    PROVE  /\ x[t].stack = <<"close">> => "close" \in Overlaps(x)
           /\ x[t].at \in {"init", "publish"} /\ x[t].stack # <<"close">> => "init" \in Overlaps(x)
BY DEF Overlaps

LEMMA NoOverlap ==
    ASSUME NEW x,
           \A t \in Thread : (x[t].stack = <<"close">> \/ x[t].at \in {"init", "publish"})
                                => \A u \in Thread : u # t => x[u].at = "idle"
    PROVE  Overlaps(x) = {}
BY DEF Overlaps

LEMMA ApartAgain ==
    ASSUME races' = races \cup Overlaps(th')
    PROVE  Apart'
<1> SUFFICES ASSUME NEW t \in Thread, NEW u \in Thread, u # t, th'[u].at # "idle"
             PROVE  /\ th'[t].stack = <<"close">> => "close" \in races'
                    /\ th'[t].at \in {"init", "publish"} /\ th'[t].stack # <<"close">>
                          => "init" \in races'
  BY DEF Apart, AlonePlace, Idling, Closing, Starting
<1>1. /\ th'[t].stack = <<"close">> => "close" \in Overlaps(th')
      /\ th'[t].at \in {"init", "publish"} /\ th'[t].stack # <<"close">> => "init" \in Overlaps(th')
  BY OverlapIs
<1> QED  BY <1>1

LEMMA ApartStep ==
    ASSUME Forms, Apart, [Next]_vars
    PROVE  Apart'
<1>1. CASE th' = th /\ races \subseteq races'
  BY <1>1 DEF Apart, AlonePlace, Idling, Closing, Starting
<1>2. CASE races' = races \cup Overlaps(th')
  BY <1>2, ApartAgain
<1>3. CASE Replacing \/ Foreign
  BY <1>1, <1>3 DEF Replacing, Foreign
<1>4. CASE UNCHANGED vars
  BY <1>1, <1>4 DEF vars
<1> QED  BY <1>2, <1>3, <1>4, NextIs DEF Stepping, Entering

LEMMA RacesGrow ==
    ASSUME Forms, [Next]_vars
    PROVE  races \subseteq races'
BY NextIs DEF Stepping, Entering, Replacing, Foreign, vars

-----------------------------------------------------------------------------
(* The implementation is there.                                            *)

LEMMA OneOrMore ==
    ASSUME NEW n \in Nat, n >= 1
    PROVE  n = 1 \/ n > 1
OBVIOUS

LEMMA ImplementedStep ==
    ASSUME Forms, Implemented, [Next]_vars
    PROVE  Implemented'
<1> SUFFICES ASSUME "set" \notin races'
             PROVE  \A u \in Thread :
                        th'[u].at \notin {"idle", "test", "assign", "close"} \/ Len(th'[u].stack) > 1
                           => implementation' # "none"
  BY DEF Implemented
<1> DEFINE In(u) == th[u].at \notin {"idle", "test", "assign", "close"} \/ Len(th[u].stack) > 1
<1>1. "set" \notin races /\ \A u \in Thread : In(u) => implementation # "none"
  BY RacesGrow DEF Implemented
<1>2. ASSUME NEW t \in Thread, Stepping(t)
      PROVE  \A u \in Thread : In(u)' => implementation' # "none"
  <2>0. th[t].at # "idle" /\ Does(t)
    BY <1>2 DEF Stepping
  <2>1. CASE implementation' # "none"
    BY <2>1
  <2>2. CASE implementation' = "none" /\ implementation' = implementation
    <3>1. ~ In(t) /\ \A u \in Thread : ~ In(u)
      BY <1>1, <2>2
    <3>2. Len(th[t].stack) = 1 /\ th[t].at \in {"test", "assign", "close"}
      <4>1. Len(th[t].stack) \in Nat /\ Len(th[t].stack) >= 1
        BY <2>0, Places
      <4>2. ~ (Len(th[t].stack) > 1) /\ th[t].at \in {"test", "assign", "close"}
        BY <2>0, <3>1
      <4> QED  BY <4>1, <4>2, OneOrMore
    <3>3. \/ th[t].at = "test" /\ Moved(t, "assign")
          \/ th[t].at = "close" /\ Returned(t)
      BY <2>0, <2>2, <3>2 DEF Does, Quiet, Calls, Records, Stops, Assigns, Opens, Keeps, Reads,
                              Closes
    <3>4. ~ In(t)' /\ \A u \in Thread : u # t => th'[u] = th[u]
      <4>1. CASE th[t].at = "test" /\ Moved(t, "assign")
        <5>1. th'[t].at = "assign" /\ th'[t].stack = th[t].stack
          BY <4>1 DEF Moved
        <5>2. ~ (Len(th'[t].stack) > 1)
          BY <3>1, <5>1
        <5> QED  BY <4>1, <5>1, <5>2 DEF Moved, Others
      <4>2. CASE th[t].at = "close" /\ Returned(t)
        <5>1. th'[t].at = "idle" /\ th'[t].stack = <<>>
          BY <3>2, <4>2 DEF Returned
        <5>2. Len(th'[t].stack) = 0
          BY <5>1
        <5> QED  BY <4>2, <5>1, <5>2 DEF Returned, Others
      <4> QED  BY <3>3, <4>1, <4>2
    <3> QED  BY <3>1, <3>4
  <2>3. implementation' = implementation \/ implementation' = "sys"
    BY <2>0 DEF Does, Quiet, Stops, Assigns, Opens, Keeps, Reads, Closes
  <2> QED  BY <2>1, <2>2, <2>3
<1>3. ASSUME NEW t \in Thread, NEW op \in Ops, Entering(t, op)
      PROVE  \A u \in Thread : In(u)' => implementation' # "none"
  <2>1. ~ In(t)' /\ \A u \in Thread : u # t => th'[u] = th[u]
    BY <1>3 DEF Entering, Began, Others
  <2> QED  BY <1>1, <1>3, <2>1 DEF Entering
<1>4. CASE Replacing
  <2>1. th' = th /\ \A u \in Thread : th[u].at = "idle"
    BY <1>4 DEF Replacing
  <2>2. ASSUME NEW u \in Thread PROVE ~ In(u)'
    <3>1. th[u].at = "idle" /\ th[u].stack = <<>>
      BY <2>1 DEF Forms, Shaped
    <3> QED  BY <2>1, <3>1
  <2> QED  BY <2>2
<1>5. CASE Foreign \/ UNCHANGED vars
  BY <1>1, <1>5 DEF Foreign, vars
<1> QED  BY <1>2, <1>3, <1>4, <1>5, NextIs

-----------------------------------------------------------------------------
(* The library's descriptors.                                              *)

LEMMA QuietPlaces ==
    ASSUME NEW t \in Thread, Quiet(t)
    PROVE  /\ Others(t) /\ th[t].at # "publish"
           /\ \/ th'[t].at \notin {"read", "publish", "close_fd"}
              \/ th[t].at = "source" /\ stream.fd # NoFd /\ Held(t, "read", stream.fd, th[t].stores)
              \/ th[t].at = "init" /\ kernel = "getrandom"
                    /\ Held(t, "publish", NoFd, {"available", "initialized"})
              \/ th[t].at = "close_call" /\ stream.fd # NoFd
                    /\ Held(t, "close_fd", stream.fd, th[t].stores)
BY DEF Quiet, Calls, Records, Moved, Pushed, Returned, Held

LEMMA OthersHold ==
    ASSUME NEW t \in Thread, Others(t), NEW u \in Thread, u # t, HeldIsOpen(u),
           fds' = fds, stream'.fd = stream.fd
    PROVE  HeldIsOpen(u)'
BY DEF Others, HeldIsOpen, Storing, Closing

(* A thread that is about to close, or to forget, is the only one that is  *)
(* anywhere, and so is one that initialises.                               *)
LEMMA OnlyOne ==
    ASSUME Forms, Apart, NEW t \in Thread, NEW u \in Thread, u # t, th[u].at # "idle"
    PROVE  /\ "close" \notin races => ~ Closing(t) /\ th[t].at # "close_fd"
           /\ "close" \notin races /\ "init" \notin races => th[t].at \notin {"init", "publish"}
BY DEF Apart, AlonePlace, Idling, Starting, Forms, Shaped

LEMMA QuietOwn ==
    ASSUME Forms, Apart, OwnFiles, "close" \notin races, NEW t \in Thread, th[t].at # "idle",
           Quiet(t)
    PROVE  harm' = {} /\ RecordIsOpen' /\ \A u \in Thread : HeldIsOpen(u)'
<1>1. harm = {} /\ RecordIsOpen /\ \A u \in Thread : HeldIsOpen(u)
  BY DEF OwnFiles
<1>2. Others(t) /\ fds' = fds /\ stream' = stream /\ harm' = harm
  BY QuietPlaces DEF Quiet
<1>3. RecordIsOpen'
  <2> SUFFICES ASSUME stream.fd # NoFd, fds[stream.fd] # "random"
               PROVE  \E v \in Thread : (Closing(v) /\ Storing(v))'
    BY <1>2 DEF RecordIsOpen
  <2>1. PICK v \in Thread : Closing(v) /\ Storing(v)
    BY <1>1 DEF RecordIsOpen
  <2>2. v # t
    BY <2>1, QuietPlaces DEF Storing
  <2> QED  BY <1>2, <2>1, <2>2 DEF Others, Closing, Storing
<1>4. stream.fd # NoFd /\ th[t].at \in {"source", "close_call"} => fds[stream.fd] = "random"
  <2> SUFFICES ASSUME stream.fd # NoFd, th[t].at \in {"source", "close_call"},
                      fds[stream.fd] # "random"
               PROVE  FALSE
    OBVIOUS
  <2>1. PICK v \in Thread : Closing(v) /\ Storing(v)
    BY <1>1 DEF RecordIsOpen
  <2>2. v # t
    BY <2>1 DEF Storing
  <2> QED  BY <2>1, <2>2, OnlyOne
<1>5. HeldIsOpen(t)'
  <2>1. CASE th'[t].at \notin {"read", "publish", "close_fd"}
    BY <2>1 DEF HeldIsOpen, Storing
  <2>2. CASE /\ th[t].at = "source" /\ stream.fd # NoFd
             /\ Held(t, "read", stream.fd, th[t].stores)
    BY <1>2, <1>4, <2>2 DEF Held, HeldIsOpen, Storing
  <2>3. CASE Held(t, "publish", NoFd, {"available", "initialized"})
    BY <2>3 DEF Held, HeldIsOpen, Storing
  <2>4. CASE /\ th[t].at = "close_call" /\ stream.fd # NoFd
             /\ Held(t, "close_fd", stream.fd, th[t].stores)
    BY <1>2, <1>4, <2>4 DEF Held, HeldIsOpen, Storing
  <2> QED  BY <2>1, <2>2, <2>3, <2>4, QuietPlaces
<1>6. ASSUME NEW u \in Thread, u # t PROVE HeldIsOpen(u)'
  BY <1>1, <1>2, <1>6, OthersHold
<1> QED  BY <1>1, <1>2, <1>3, <1>5, <1>6

LEMMA OpensOwn ==
    ASSUME Forms, OwnFiles, "close" \notin races, NEW t \in Thread, Opens(t)
    PROVE  harm' = {} /\ RecordIsOpen' /\ \A u \in Thread : HeldIsOpen(u)'
<1>1. /\ harm = {} /\ RecordIsOpen /\ (\A u \in Thread : HeldIsOpen(u))
      /\ fds \in [FDs -> {"free", "random", "foreign"}] /\ stream.fd \in FDs \cup {NoFd}
      /\ NoFd \notin FDs
  BY NumbersAssumption DEF OwnFiles, Forms, Typed, StreamType, NoFd
<1>2. PICK f \in FDs : /\ fds[f] = "free" /\ fds' = [fds EXCEPT ![f] = "random"]
                       /\ Held(t, "publish", f, {"unavailable", "fd", "initialized"})
  BY DEF Opens
<1>3. Others(t) /\ stream' = stream /\ harm' = harm /\ th[t].at = "init" /\ ~ Closing(t)
  BY <1>2 DEF Opens, Held, Forms, Shaped
<1>4. fds'[f] = "random" /\ \A g \in FDs : fds[g] = "random" => fds'[g] = "random"
  BY <1>1, <1>2
<1>5. RecordIsOpen'
  <2> SUFFICES ASSUME stream.fd # NoFd, fds[stream.fd] # "random"
               PROVE  \E v \in Thread : (Closing(v) /\ Storing(v))'
    BY <1>1, <1>3, <1>4 DEF RecordIsOpen
  <2>1. PICK v \in Thread : Closing(v) /\ Storing(v)
    BY <1>1 DEF RecordIsOpen
  <2> QED  BY <1>3, <2>1 DEF Others, Closing, Storing
<1>6. HeldIsOpen(t)'
  BY <1>2, <1>3, <1>4 DEF Held, HeldIsOpen, Storing, Closing
<1>7. ASSUME NEW u \in Thread, u # t PROVE HeldIsOpen(u)'
  <2>1. th'[u] = th[u] /\ HeldIsOpen(u) /\ Shaped(u)
    BY <1>1, <1>3, <1>7 DEF Others, Forms
  <2> QED  BY <1>3, <1>4, <2>1 DEF HeldIsOpen, Storing, Closing, Shaped
<1> QED  BY <1>1, <1>3, <1>5, <1>6, <1>7

(* What a store leaves of the record, by what it stores.                   *)
LEMMA Kept ==
    ASSUME Forms, NEW t \in Thread, Keeps(t)
    PROVE  \E what \in th[t].stores :
              /\ what \in Stores
              /\ stream'.fd = IF what # "fd" THEN stream.fd
                              ELSE IF Closing(t) THEN NoFd ELSE th[t].fd
              /\ stream'.initialized = IF what = "initialized" THEN 1
                                       ELSE IF what = "uninitialized" THEN 0
                                       ELSE stream.initialized
              /\ stream'.available = IF what = "available" THEN 1
                                     ELSE IF what = "unavailable" THEN 0
                                     ELSE stream.available
              /\ \/ th[t].stores # {what} /\ Held(t, "publish", th[t].fd, th[t].stores \ {what})
                 \/ th[t].stores = {what} /\ (Closing(t) => th'[t].at = "idle")
                       /\ th'[t].at \in {"idle", "sampled", "call"} /\ Returned(t)
                 \/ th[t].stores = {what} /\ ~ Closing(t) /\ Top(t) # "stir"
                       /\ Held(t, "source", th[t].fd, {})
<1>1. PICK what \in th[t].stores :
         /\ stream' = Store(stream, what, IF Top(t) = "close" THEN NoFd ELSE th[t].fd)
         /\ \/ th[t].stores # {what} /\ Held(t, "publish", th[t].fd, th[t].stores \ {what})
            \/ th[t].stores = {what} /\ Top(t) \in {"stir", "close"} /\ Returned(t)
            \/ th[t].stores = {what} /\ Top(t) \notin {"stir", "close"}
                  /\ Held(t, "source", th[t].fd, {})
  BY DEF Keeps
<1>2. /\ th[t].at = "publish" /\ stream \in StreamType /\ th[t].fd \in FDs \cup {NoFd}
      /\ what \in Stores
  BY DEF Keeps, Forms, Typed, ThreadType
<1>3. Top(t) = "close" <=> Closing(t)
  BY <1>2, Places
<1>4. PICK n \in FDs \cup {NoFd} : n = IF Top(t) = "close" THEN NoFd ELSE th[t].fd
  BY <1>2
<1>5. /\ Store(stream, what, n).fd = IF what = "fd" THEN n ELSE stream.fd
      /\ Store(stream, what, n).initialized = IF what = "initialized" THEN 1
                                              ELSE IF what = "uninitialized" THEN 0
                                              ELSE stream.initialized
      /\ Store(stream, what, n).available = IF what = "available" THEN 1
                                            ELSE IF what = "unavailable" THEN 0
                                            ELSE stream.available
  BY <1>2, StoreType
<1>6. Returned(t) => /\ Closing(t) => th'[t].at = "idle"
                     /\ th'[t].at \in {"idle", "sampled", "call"}
  BY <1>2, Places DEF Returned
<1>7. stream' = Store(stream, what, n)
  BY <1>1, <1>4
<1>8. \/ th[t].stores # {what} /\ Held(t, "publish", th[t].fd, th[t].stores \ {what})
      \/ th[t].stores = {what} /\ (Closing(t) => th'[t].at = "idle")
            /\ th'[t].at \in {"idle", "sampled", "call"} /\ Returned(t)
      \/ th[t].stores = {what} /\ ~ Closing(t) /\ Top(t) # "stir"
            /\ Held(t, "source", th[t].fd, {})
  BY <1>1, <1>3, <1>6
<1> QED  BY <1>2, <1>3, <1>4, <1>5, <1>7, <1>8

LEMMA KeepsOwn ==
    ASSUME Forms, Apart, OwnFiles, "close" \notin races, NEW t \in Thread, Keeps(t)
    PROVE  harm' = {} /\ RecordIsOpen' /\ \A u \in Thread : HeldIsOpen(u)'
<1>1. harm = {} /\ RecordIsOpen /\ \A u \in Thread : HeldIsOpen(u)
  BY DEF OwnFiles
<1>2. PICK what \in th[t].stores :
         /\ stream'.fd = IF what # "fd" THEN stream.fd
                         ELSE IF Closing(t) THEN NoFd ELSE th[t].fd
         /\ \/ th[t].stores # {what} /\ Held(t, "publish", th[t].fd, th[t].stores \ {what})
            \/ th[t].stores = {what} /\ Returned(t) /\ th'[t].at \in {"idle", "sampled", "call"}
            \/ th[t].stores = {what} /\ Held(t, "source", th[t].fd, {})
  BY Kept
<1>3. Others(t) /\ fds' = fds /\ harm' = harm /\ th[t].at = "publish"
  BY DEF Keeps, Held, Returned
<1>4. RecordIsOpen'
  <2>1. CASE what = "fd" /\ Closing(t)
    BY <1>2, <2>1 DEF RecordIsOpen
  <2>2. CASE what = "fd" /\ ~ Closing(t)
    <3>1. fds[th[t].fd] = "random"
      BY <1>1, <1>3, <2>2 DEF HeldIsOpen, Storing
    <3> QED  BY <1>2, <1>3, <2>2, <3>1 DEF RecordIsOpen
  <2>3. CASE what # "fd"
    <3> SUFFICES ASSUME stream.fd # NoFd, fds[stream.fd] # "random"
                 PROVE  \E v \in Thread : (Closing(v) /\ Storing(v))'
      BY <1>2, <1>3, <2>3 DEF RecordIsOpen
    <3>1. PICK v \in Thread : Closing(v) /\ Storing(v)
      BY <1>1 DEF RecordIsOpen
    <3>2. CASE v = t
      BY <1>2, <2>3, <3>1, <3>2 DEF Held, Closing, Storing
    <3>3. CASE v # t
      BY <1>3, <3>1, <3>3 DEF Others, Closing, Storing
    <3> QED  BY <3>2, <3>3
  <2> QED  BY <2>1, <2>2, <2>3
<1>5. HeldIsOpen(t)'
  BY <1>1, <1>2, <1>3 DEF Held, HeldIsOpen, Storing, Closing
<1>6. ASSUME NEW u \in Thread, u # t PROVE HeldIsOpen(u)'
  <2>1. ~ Closing(u) /\ th[u].at # "close_fd"
    BY <1>3, <1>6, OnlyOne
  <2>2. th'[u] = th[u] /\ HeldIsOpen(u)
    BY <1>1, <1>3, <1>6 DEF Others
  <2> QED  BY <1>3, <2>1, <2>2 DEF HeldIsOpen, Storing, Closing
<1> QED  BY <1>1, <1>3, <1>4, <1>5, <1>6

LEMMA ReadsOwn ==
    ASSUME Forms, OwnFiles, "close" \notin races, NEW t \in Thread, Reads(t)
    PROVE  harm' = {} /\ RecordIsOpen' /\ \A u \in Thread : HeldIsOpen(u)'
<1>1. harm = {} /\ RecordIsOpen /\ \A u \in Thread : HeldIsOpen(u)
  BY DEF OwnFiles
<1>2. Others(t) /\ fds' = fds /\ stream' = stream /\ th[t].at = "read"
  BY DEF Reads, Held, Returned
<1>3. fds[th[t].fd] = "random"
  BY <1>1, <1>2 DEF HeldIsOpen
<1>4. harm' = {}
  BY <1>1, <1>3 DEF Reads
<1>5. RecordIsOpen'
  <2> SUFFICES ASSUME stream.fd # NoFd, fds[stream.fd] # "random"
               PROVE  \E v \in Thread : (Closing(v) /\ Storing(v))'
    BY <1>2 DEF RecordIsOpen
  <2>1. PICK v \in Thread : Closing(v) /\ Storing(v)
    BY <1>1 DEF RecordIsOpen
  <2> QED  BY <1>2, <2>1 DEF Others, Closing, Storing
<1>6. HeldIsOpen(t)'
  <2>1. CASE Held(t, "read", th[t].fd, th[t].stores)
    BY <1>2, <1>3, <2>1 DEF Held, HeldIsOpen, Storing
  <2>2. CASE Returned(t)
    BY <2>2 DEF Returned, HeldIsOpen, Storing
  <2> QED  BY <2>1, <2>2 DEF Reads
<1>7. ASSUME NEW u \in Thread, u # t PROVE HeldIsOpen(u)'
  BY <1>1, <1>2, <1>7, OthersHold
<1> QED  BY <1>4, <1>5, <1>6, <1>7

LEMMA ClosesOwn ==
    ASSUME Forms, Apart, OwnFiles, "close" \notin races, NEW t \in Thread, Closes(t)
    PROVE  harm' = {} /\ RecordIsOpen' /\ \A u \in Thread : HeldIsOpen(u)'
<1>1. harm = {} /\ RecordIsOpen /\ \A u \in Thread : HeldIsOpen(u)
  BY DEF OwnFiles
<1>2. stream' = stream /\ th[t].at = "close_fd" /\ Closing(t)
  BY DEF Closes, Forms, Shaped
<1>3. fds[th[t].fd] = "random" /\ th[t].fd = stream.fd
  BY <1>1, <1>2 DEF HeldIsOpen
<1>4. harm' = {} /\ Held(t, "publish", th[t].fd, {"fd", "uninitialized"})
  BY <1>1, <1>3 DEF Closes
<1>5. (Closing(t) /\ Storing(t))' /\ th'[t].fd = stream'.fd /\ Others(t)
  BY <1>2, <1>3, <1>4 DEF Held, Closing, Storing
<1>6. RecordIsOpen'
  BY <1>5 DEF RecordIsOpen
<1>7. HeldIsOpen(t)'
  BY <1>4, <1>5 DEF HeldIsOpen, Held
<1>8. ASSUME NEW u \in Thread, u # t PROVE HeldIsOpen(u)'
  <2>1. th[u].at = "idle"
    BY <1>2, <1>8 DEF Apart, AlonePlace, Idling
  <2> QED  BY <1>5, <1>8, <2>1 DEF Others, HeldIsOpen, Storing
<1> QED  BY <1>4, <1>6, <1>7, <1>8

LEMMA OwnFilesStep ==
    ASSUME Forms, Apart, OwnFiles, [Next]_vars
    PROVE  OwnFiles'
<1> SUFFICES ASSUME "close" \notin races'
             PROVE  harm' = {} /\ RecordIsOpen' /\ \A u \in Thread : HeldIsOpen(u)'
  BY DEF OwnFiles
<1>0. "close" \notin races
  BY RacesGrow
<1>1. harm = {} /\ RecordIsOpen /\ \A u \in Thread : HeldIsOpen(u)
  BY <1>0 DEF OwnFiles
<1>2. CASE UNCHANGED <<stream, fds, th, harm>>
  <2>1. RecordIsOpen'
    BY <1>1, <1>2 DEF RecordIsOpen, Closing, Storing
  <2>2. \A u \in Thread : HeldIsOpen(u)'
    BY <1>1, <1>2 DEF HeldIsOpen, Closing, Storing
  <2> QED  BY <1>1, <1>2, <2>1, <2>2
<1>3. ASSUME NEW t \in Thread, Others(t), UNCHANGED <<stream, fds, harm>>,
             th[t].at \in {"idle", "assign"}, th'[t].at \in {"test", "close"}
      PROVE  harm' = {} /\ RecordIsOpen' /\ \A u \in Thread : HeldIsOpen(u)'
  <2>1. RecordIsOpen'
    <3> SUFFICES ASSUME stream.fd # NoFd, fds[stream.fd] # "random"
                 PROVE  \E v \in Thread : (Closing(v) /\ Storing(v))'
      BY <1>3 DEF RecordIsOpen
    <3>1. PICK v \in Thread : Closing(v) /\ Storing(v)
      BY <1>1 DEF RecordIsOpen
    <3>2. v # t
      BY <1>3, <3>1 DEF Storing
    <3> QED  BY <1>3, <3>1, <3>2 DEF Others, Closing, Storing
  <2>2. HeldIsOpen(t)'
    BY <1>3 DEF HeldIsOpen, Storing
  <2>3. ASSUME NEW u \in Thread, u # t PROVE HeldIsOpen(u)'
    BY <1>1, <1>3, <2>3, OthersHold
  <2> QED  BY <1>1, <1>3, <2>1, <2>2, <2>3
<1>4. ASSUME NEW t \in Thread, Stepping(t)
      PROVE  harm' = {} /\ RecordIsOpen' /\ \A u \in Thread : HeldIsOpen(u)'
  <2>0. th[t].at # "idle" /\ Does(t)
    BY <1>4 DEF Stepping
  <2>1. CASE Assigns(t)
    BY <1>3, <2>1 DEF Assigns, Pushed
  <2>2. CASE Stops(t)
    BY <1>2, <2>2 DEF Stops
  <2>3. CASE Quiet(t) \/ Opens(t) \/ Keeps(t) \/ Reads(t) \/ Closes(t)
    BY <1>0, <2>0, <2>3, QuietOwn, OpensOwn, KeepsOwn, ReadsOwn, ClosesOwn
  <2> QED  BY <2>0, <2>1, <2>2, <2>3 DEF Does
<1>5. ASSUME NEW t \in Thread, NEW op \in Ops, Entering(t, op)
      PROVE  harm' = {} /\ RecordIsOpen' /\ \A u \in Thread : HeldIsOpen(u)'
  BY <1>3, <1>5 DEF Entering, Began
<1>6. CASE Foreign
  <2>1. /\ fds \in [FDs -> {"free", "random", "foreign"}]
        /\ UNCHANGED <<stream, th, harm>>
    BY <1>6 DEF Foreign, Forms, Typed
  <2>2. PICK f \in FDs : fds[f] = "free" /\ fds' = [fds EXCEPT ![f] = "foreign"]
    BY <1>6 DEF Foreign
  <2>3. \A g : fds[g] = "random" => fds'[g] = "random" \/ g \notin FDs
    BY <2>1, <2>2
  <2>4. stream.fd # NoFd => stream.fd \in FDs
    BY DEF Forms, Typed, StreamType
  <2>5. RecordIsOpen'
    BY <1>1, <2>1, <2>3, <2>4 DEF RecordIsOpen, Closing, Storing
  <2>6. ASSUME NEW u \in Thread PROVE HeldIsOpen(u)'
    <3>1. HeldIsOpen(u) /\ Shaped(u)
      BY <1>1 DEF Forms
    <3>2. th[u].at = "read" \/ Storing(u) \/ th[u].at = "close_fd" => th[u].fd \in FDs
      BY <3>1 DEF Shaped, Storing
    <3> QED  BY <2>1, <2>3, <3>1, <3>2 DEF HeldIsOpen, Closing, Storing
  <2> QED  BY <1>1, <2>1, <2>5, <2>6
<1>7. CASE Replacing \/ UNCHANGED vars
  BY <1>2, <1>7 DEF Replacing, vars
<1> QED  BY <1>4, <1>5, <1>6, <1>7, NextIs

-----------------------------------------------------------------------------
(* Where the record comes from.                                            *)

LEMMA QuietSource ==
    ASSUME NEW t \in Thread, Quiet(t)
    PROVE  \/ th'[t].at \notin {"source", "init", "publish"}
           \/ th[t].at \in {"stir", "stir_if_needed"} /\ stream.initialized # 0
                 /\ th'[t].at = "source"
           \/ th[t].at = "stir" /\ stream.initialized = 0 /\ th'[t].at = "init"
           \/ th[t].at = "init" /\ kernel = "getrandom"
                 /\ Held(t, "publish", NoFd, {"available", "initialized"})
BY DEF Quiet, Calls, Records, Moved, Pushed, Returned, Held

LEMMA QuietSourced ==
    ASSUME Forms, Apart, Sourced, "close" \notin races, "init" \notin races,
           NEW t \in Thread, th[t].at # "idle", Quiet(t), kernel' = kernel
    PROVE  Settled' /\ NotForgotten' /\ \A u \in Thread : Published(u)'
<1>1. Settled /\ NotForgotten /\ \A u \in Thread : Published(u)
  BY DEF Sourced
<1>2. Others(t) /\ fds' = fds /\ stream' = stream /\ th[t].at # "publish"
  BY QuietPlaces DEF Quiet
<1>3. NotForgotten'
  <2> SUFFICES ASSUME NEW f \in FDs, fds[f] = "random", f # stream.fd
               PROVE  \E v \in Thread : (Storing(v) /\ th[v].fd = f)'
    BY <1>2 DEF NotForgotten
  <2>1. PICK v \in Thread : Storing(v) /\ th[v].fd = f
    BY <1>1 DEF NotForgotten
  <2>2. v # t
    BY <1>2, <2>1 DEF Storing
  <2> QED  BY <1>2, <2>1, <2>2 DEF Others, Storing
<1>4. Settled'
  <2> SUFFICES ASSUME \A v \in Thread : th'[v].at # "publish"
               PROVE  /\ stream.initialized = 1 => HasSource
                      /\ stream.initialized = 0 => stream.fd = NoFd
    BY <1>2 DEF Settled, HasSource
  <2>1. \A v \in Thread : th[v].at # "publish"
    BY <1>2 DEF Others
  <2> QED  BY <1>1, <2>1 DEF Settled
<1>5. th[t].at \in {"stir", "stir_if_needed"} =>
         /\ stream.initialized = 1 => HasSource
         /\ stream.initialized = 0 => stream.fd = NoFd
  <2> SUFFICES ASSUME th[t].at \in {"stir", "stir_if_needed"}
               PROVE  \A v \in Thread : th[v].at # "publish"
    BY <1>1 DEF Settled
  <2>1. \A v \in Thread : v # t => th[v].at # "publish"
    BY OnlyOne
  <2> QED  BY <1>2, <2>1
<1>6. stream.initialized \in {0, 1}
  BY DEF Forms, Typed, StreamType
<1>7. Published(t)'
  <2>1. CASE th'[t].at \notin {"source", "init", "publish"}
    BY <2>1 DEF Published
  <2>2. CASE th[t].at \in {"stir", "stir_if_needed"} /\ stream.initialized # 0
                /\ th'[t].at = "source"
    BY <1>2, <1>5, <1>6, <2>2 DEF Published, HasSource
  <2>3. CASE th[t].at = "stir" /\ stream.initialized = 0 /\ th'[t].at = "init"
    BY <1>2, <1>5, <2>3 DEF Published
  <2>4. CASE th[t].at = "init" /\ kernel = "getrandom"
                /\ Held(t, "publish", NoFd, {"available", "initialized"})
    <3>1. ~ Closing(t)' /\ stream.fd = NoFd
      BY <1>1, <2>4 DEF Held, Forms, Shaped, Closing, Published
    <3> QED  BY <1>2, <2>4, <3>1 DEF Published, Held
  <2> QED  BY <2>1, <2>2, <2>3, <2>4, QuietSource
<1>8. ASSUME NEW u \in Thread, u # t PROVE Published(u)'
  <2>1. th'[u] = th[u] /\ Published(u)
    BY <1>1, <1>2, <1>8 DEF Others
  <2> QED  BY <1>2, <2>1 DEF Published, Closing, HasSource
<1> QED  BY <1>3, <1>4, <1>7, <1>8

(* A thread that is alone answers for the record.                          *)
LEMMA AloneSourced ==
    ASSUME NEW t \in Thread, Others(t), \A u \in Thread : u # t => th[u].at = "idle",
           Published(t)',
           th'[t].at # "publish" => /\ stream'.initialized = 1 => HasSource'
                                    /\ stream'.initialized = 0 => stream'.fd = NoFd,
           \A f \in FDs : fds'[f] = "random" => f = stream'.fd \/ (Storing(t)' /\ th'[t].fd = f)
    PROVE  Settled' /\ NotForgotten' /\ \A u \in Thread : Published(u)'
<1>1. NotForgotten'
  BY DEF NotForgotten
<1>2. Settled'
  BY DEF Settled
<1>3. ASSUME NEW u \in Thread, u # t PROVE Published(u)'
  <2>1. th'[u].at = "idle"
    BY <1>3 DEF Others
  <2> QED  BY <2>1 DEF Published
<1> QED  BY <1>1, <1>2, <1>3

LEMMA OpensSourced ==
    ASSUME Forms, Apart, Sourced, "close" \notin races, "init" \notin races,
           NEW t \in Thread, Opens(t), kernel' = kernel
    PROVE  Settled' /\ NotForgotten' /\ \A u \in Thread : Published(u)'
<1>1. NotForgotten /\ Published(t) /\ fds \in [FDs -> {"free", "random", "foreign"}]
  BY DEF Sourced, Forms, Typed
<1>2. PICK g \in FDs : /\ fds[g] = "free" /\ fds' = [fds EXCEPT ![g] = "random"]
                       /\ Held(t, "publish", g, {"unavailable", "fd", "initialized"})
  BY DEF Opens
<1>3. /\ Others(t) /\ stream' = stream /\ th[t].at = "init" /\ kernel = "device"
      /\ stream.fd = NoFd /\ ~ Closing(t)
  BY <1>1, <1>2 DEF Opens, Held, Published, Forms, Shaped
<1>4. \A u \in Thread : u # t => th[u].at = "idle"
  BY <1>3, OnlyOne
<1>5. Published(t)'
  BY <1>2, <1>3 DEF Published, Held, Closing
<1>6. ASSUME NEW f \in FDs, fds'[f] = "random", f # stream'.fd
      PROVE  Storing(t)' /\ th'[t].fd = f
  <2>1. CASE f = g
    BY <1>2, <2>1 DEF Held, Storing
  <2>2. CASE f # g
    <3>1. fds[f] = "random"
      BY <1>1, <1>2, <1>6, <2>2
    <3>2. PICK v \in Thread : Storing(v) /\ th[v].fd = f
      BY <1>1, <1>3, <1>6, <3>1 DEF NotForgotten
    <3> QED  BY <1>3, <1>4, <3>2 DEF Storing
  <2> QED  BY <2>1, <2>2
<1> QED  BY <1>2, <1>3, <1>4, <1>5, <1>6, AloneSourced DEF Held

LEMMA ClosesSourced ==
    ASSUME Forms, Apart, OwnFiles, Sourced, "close" \notin races, "init" \notin races,
           NEW t \in Thread, Closes(t), kernel' = kernel
    PROVE  Settled' /\ NotForgotten' /\ \A u \in Thread : Published(u)'
<1>1. NotForgotten /\ HeldIsOpen(t) /\ fds \in [FDs -> {"free", "random", "foreign"}]
  BY DEF Sourced, OwnFiles, Forms, Typed
<1>2. /\ stream' = stream /\ th[t].at = "close_fd" /\ Closing(t) /\ th[t].fd \in FDs
      /\ fds' = [fds EXCEPT ![th[t].fd] = "free"]
  BY DEF Closes, Forms, Shaped
<1>3. fds[th[t].fd] = "random" /\ th[t].fd = stream.fd
  BY <1>1, <1>2 DEF HeldIsOpen
<1>4. Held(t, "publish", th[t].fd, {"fd", "uninitialized"}) /\ Others(t)
  BY <1>3 DEF Closes, Held
<1>5. \A u \in Thread : u # t => th[u].at = "idle"
  BY <1>2, OnlyOne
<1>6. fds'[th[t].fd] = "free" /\ \A f \in FDs : f # th[t].fd => fds'[f] = fds[f]
  BY <1>1, <1>2
<1>7. Published(t)'
  BY <1>2, <1>4, <1>6 DEF Published, Held, Closing
<1>8. ASSUME NEW f \in FDs, fds'[f] = "random" PROVE FALSE
  <2>1. f # th[t].fd /\ fds[f] = "random" /\ f # stream.fd
    BY <1>3, <1>6, <1>8
  <2>2. PICK v \in Thread : Storing(v) /\ th[v].fd = f
    BY <1>1, <2>1 DEF NotForgotten
  <2> QED  BY <1>2, <1>5, <2>2 DEF Storing
<1> QED  BY <1>4, <1>5, <1>7, <1>8, AloneSourced DEF Held

LEMMA ForgetsSourced ==
    ASSUME Forms, Apart, OwnFiles, Sourced, "close" \notin races, "init" \notin races,
           NEW t \in Thread, Keeps(t), Closing(t), kernel' = kernel
    PROVE  Settled' /\ NotForgotten' /\ \A u \in Thread : Published(u)'
<1>1. /\ NotForgotten /\ Published(t) /\ HeldIsOpen(t) /\ Shaped(t)
      /\ th[t].at = "publish" /\ fds' = fds /\ NoFd \notin FDs
  BY NumbersAssumption DEF Sourced, OwnFiles, Forms, Keeps, NoFd
<1>2. /\ th[t].stores \subseteq {"fd", "uninitialized"}
      /\ "fd" \in th[t].stores => fds[th[t].fd] # "random" /\ th[t].fd = stream.fd
      /\ "fd" \notin th[t].stores => stream.fd = NoFd
      /\ "uninitialized" \notin th[t].stores => stream.initialized = 0
  BY <1>1 DEF Shaped, Published, HeldIsOpen, Storing
<1>3. PICK what \in th[t].stores :
         /\ stream'.fd = IF what = "fd" THEN NoFd ELSE stream.fd
         /\ stream'.initialized = IF what = "uninitialized" THEN 0 ELSE stream.initialized
         /\ \/ th[t].stores # {what} /\ Held(t, "publish", th[t].fd, th[t].stores \ {what})
            \/ th[t].stores = {what} /\ th'[t].at = "idle" /\ Returned(t)
  BY <1>2, Kept
<1>4. Others(t)
  BY <1>3 DEF Held, Returned
<1>5. \A u \in Thread : u # t => th[u].at = "idle"
  BY <1>1, OnlyOne
<1>6. Published(t)'
  BY <1>1, <1>2, <1>3 DEF Published, Held, Closing
<1>7. th'[t].at # "publish" => stream'.initialized = 0 /\ stream'.fd = NoFd
  BY <1>2, <1>3 DEF Held
<1>8. ASSUME NEW f \in FDs, fds[f] = "random" PROVE FALSE
  <2>1. "fd" \in th[t].stores => f # stream.fd
    BY <1>2, <1>8
  <2>2. f # stream.fd
    BY <1>1, <1>2, <2>1
  <2>3. PICK v \in Thread : Storing(v) /\ th[v].fd = f
    BY <1>1, <1>8, <2>2 DEF NotForgotten
  <2>4. v = t
    BY <1>5, <2>3 DEF Storing
  <2> QED  BY <1>2, <1>8, <2>3, <2>4 DEF Storing
<1> QED  BY <1>1, <1>4, <1>5, <1>6, <1>7, <1>8, AloneSourced

LEMMA KeepsSourced ==
    ASSUME Forms, Apart, OwnFiles, Sourced, "close" \notin races, "init" \notin races,
           NEW t \in Thread, Keeps(t), ~ Closing(t), kernel' = kernel
    PROVE  Settled' /\ NotForgotten' /\ \A u \in Thread : Published(u)'
<1>1. /\ NotForgotten /\ Published(t) /\ Shaped(t)
      /\ th[t].at = "publish" /\ fds' = fds /\ NoFd \notin FDs
  BY NumbersAssumption DEF Sourced, Forms, Keeps, NoFd
<1>2. /\ "fd" \in th[t].stores => th[t].fd \in FDs
      /\ \/ kernel = "getrandom" /\ th[t].stores \subseteq {"available", "initialized"}
         \/ kernel = "device" /\ th[t].stores \subseteq {"unavailable", "fd", "initialized"}
      /\ kernel = "getrandom" /\ "available" \notin th[t].stores => stream.available = 1
      /\ kernel = "getrandom" => stream.fd = NoFd
      /\ kernel = "device" => ("fd" \in th[t].stores <=> stream.fd = NoFd)
      /\ "initialized" \notin th[t].stores => stream.initialized = 1
  BY <1>1 DEF Shaped, Published
<1>3. PICK what \in th[t].stores :
         /\ stream'.fd = IF what = "fd" THEN th[t].fd ELSE stream.fd
         /\ stream'.initialized = IF what = "initialized" THEN 1 ELSE stream.initialized
         /\ stream'.available = IF what = "available" THEN 1
                                ELSE IF what = "unavailable" THEN 0
                                ELSE stream.available
         /\ \/ th[t].stores # {what} /\ Held(t, "publish", th[t].fd, th[t].stores \ {what})
            \/ th[t].stores = {what} /\ th'[t].at \in {"idle", "sampled", "call"} /\ Returned(t)
            \/ th[t].stores = {what} /\ Held(t, "source", th[t].fd, {})
  BY <1>2, Kept
<1>4. Others(t)
  BY <1>3 DEF Held, Returned
<1>5. \A u \in Thread : u # t => th[u].at = "idle"
  BY <1>1, OnlyOne
<1>6. th'[t].at # "publish" =>
         th[t].stores = {what} /\ th'[t].at \in {"idle", "sampled", "call", "source"}
  BY <1>3 DEF Held
<1>7. th[t].stores = {what} => stream'.initialized = 1 /\ HasSource'
  <2> SUFFICES ASSUME th[t].stores = {what}
               PROVE  stream'.initialized = 1 /\ HasSource'
    OBVIOUS
  <2>1. stream'.initialized = 1
    BY <1>2, <1>3
  <2>2. CASE kernel = "getrandom"
    BY <1>2, <1>3, <2>2 DEF HasSource
  <2>3. CASE kernel = "device"
    BY <1>1, <1>2, <1>3, <2>3 DEF HasSource
  <2> QED  BY <1>2, <2>1, <2>2, <2>3
<1>8. Published(t)'
  <2>1. CASE th'[t].at # "publish"
    BY <1>6, <1>7, <2>1 DEF Published
  <2>2. CASE th'[t].at = "publish"
    <3>1. Held(t, "publish", th[t].fd, th[t].stores \ {what}) /\ ~ Closing(t)'
      BY <1>3, <2>2 DEF Held, Closing
    <3>2. th'[t].stores = th[t].stores \ {what} /\ th'[t].at = "publish"
      BY <3>1 DEF Held
    <3>3. stream'.initialized = 1 \/ "initialized" \in th'[t].stores
      BY <1>2, <1>3, <3>2
    <3>4. kernel = "getrandom" =>
             stream'.fd = NoFd /\ ("available" \in th'[t].stores \/ stream'.available = 1)
      BY <1>2, <1>3, <3>2
    <3>5. kernel = "device" => ("fd" \in th'[t].stores <=> stream'.fd = NoFd)
      BY <1>1, <1>2, <1>3, <3>2
    <3> QED  BY <3>1, <3>2, <3>3, <3>4, <3>5 DEF Published
  <2> QED  BY <2>1, <2>2
<1>9. ASSUME NEW f \in FDs, fds[f] = "random", f # stream'.fd
      PROVE  Storing(t)' /\ th'[t].fd = f
  <2>1. f # stream.fd
    BY <1>1, <1>2, <1>3, <1>9
  <2>2. PICK v \in Thread : Storing(v) /\ th[v].fd = f
    BY <1>1, <1>9, <2>1 DEF NotForgotten
  <2>3. v = t
    BY <1>5, <2>2 DEF Storing
  <2>4. what # "fd" /\ "fd" \in th[t].stores
    BY <1>3, <1>9, <2>2, <2>3 DEF Storing
  <2> QED  BY <1>3, <2>2, <2>3, <2>4 DEF Storing, Held
<1> QED  BY <1>1, <1>4, <1>5, <1>6, <1>7, <1>8, <1>9, AloneSourced

(* What touches neither the record nor the devices.                        *)
LEMMA ElsewhereSourced ==
    ASSUME Settled, NotForgotten, \A u \in Thread : Published(u),
           UNCHANGED <<kernel, stream>>,
           \A f \in FDs : fds'[f] = "random" <=> fds[f] = "random",
           \A u \in Thread : "fd" \in th[u].stores /\ th[u].at = "publish" => th[u].fd \in FDs,
           \A u \in Thread : \/ th'[u] = th[u]
                             \/ /\ th[u].at # "publish"
                                /\ th'[u].at \notin {"source", "init", "publish"}
    PROVE  Settled' /\ NotForgotten' /\ \A u \in Thread : Published(u)'
<1>1. Settled'
  BY DEF Settled, HasSource
<1>2. NotForgotten'
  <2> SUFFICES ASSUME NEW f \in FDs, fds[f] = "random", f # stream.fd
               PROVE  \E v \in Thread : (Storing(v) /\ th[v].fd = f)'
    BY DEF NotForgotten
  <2>1. PICK v \in Thread : Storing(v) /\ th[v].fd = f
    BY DEF NotForgotten
  <2> QED  BY <2>1 DEF Storing
<1>3. ASSUME NEW u \in Thread PROVE Published(u)'
  <2>1. CASE th'[u].at \notin {"source", "init", "publish"}
    BY <2>1 DEF Published
  <2>2. CASE th'[u] = th[u]
    <3>1. Published(u)
      OBVIOUS
    <3>2. "fd" \in th[u].stores /\ th[u].at = "publish" =>
             (fds'[th[u].fd] = "random" <=> fds[th[u].fd] = "random")
      OBVIOUS
    <3> QED  BY <2>2, <3>1, <3>2 DEF Published, Closing, HasSource
  <2> QED  BY <2>1, <2>2
<1> QED  BY <1>1, <1>2, <1>3

LEMMA SourcedStep ==
    ASSUME Forms, Apart, OwnFiles, Sourced, [Next]_vars
    PROVE  Sourced'
<1> SUFFICES ASSUME "close" \notin races', "init" \notin races'
             PROVE  Settled' /\ NotForgotten' /\ \A u \in Thread : Published(u)'
  BY DEF Sourced
<1>0. "close" \notin races /\ "init" \notin races
  BY RacesGrow
<1>1. /\ Settled /\ NotForgotten /\ (\A u \in Thread : Published(u))
      /\ \A u \in Thread : "fd" \in th[u].stores /\ th[u].at = "publish" => th[u].fd \in FDs
  BY <1>0 DEF Sourced, Forms, Shaped
<1>2. ASSUME NEW t \in Thread, Stepping(t)
      PROVE  Settled' /\ NotForgotten' /\ \A u \in Thread : Published(u)'
  <2>0. th[t].at # "idle" /\ Does(t) /\ kernel' = kernel
    BY <1>2 DEF Stepping
  <2>1. CASE Assigns(t)
    BY <1>1, <2>0, <2>1, ElsewhereSourced DEF Assigns, Pushed, Others
  <2>2. CASE Stops(t)
    BY <1>1, <2>0, <2>2, ElsewhereSourced DEF Stops
  <2>3. CASE Reads(t)
    BY <1>1, <2>0, <2>3, ElsewhereSourced DEF Reads, Returned, Held, Others
  <2>4. CASE Quiet(t) \/ Opens(t) \/ Keeps(t) \/ Closes(t)
    BY <1>0, <2>0, <2>4, QuietSourced, OpensSourced, KeepsSourced, ForgetsSourced, ClosesSourced
  <2> QED  BY <2>0, <2>1, <2>2, <2>3, <2>4 DEF Does
<1>3. ASSUME NEW t \in Thread, NEW op \in Ops, Entering(t, op)
      PROVE  Settled' /\ NotForgotten' /\ \A u \in Thread : Published(u)'
  BY <1>1, <1>3, ElsewhereSourced DEF Entering, Began, Others
<1>4. CASE Foreign
  <2>1. fds \in [FDs -> {"free", "random", "foreign"}] /\ UNCHANGED <<kernel, stream, th>>
    BY <1>4 DEF Foreign, Forms, Typed
  <2>2. \A f \in FDs : fds'[f] = "random" <=> fds[f] = "random"
    BY <1>4, <2>1 DEF Foreign
  <2> QED  BY <1>1, <2>1, <2>2, ElsewhereSourced
<1>5. CASE Replacing \/ UNCHANGED vars
  BY <1>1, <1>5, ElsewhereSourced DEF Replacing, vars
<1> QED  BY <1>2, <1>3, <1>4, <1>5, NextIs

-----------------------------------------------------------------------------
(* The end of the process.                                                 *)

LEMMA EndsStep ==
    ASSUME Forms, OwnFiles, Implemented, Sourced, EndsForACause, [Next]_vars
    PROVE  EndsForACause'
<1>0. races \subseteq races'
  BY RacesGrow
<1>1. CASE UNCHANGED vars
  BY <1>1 DEF vars, EndsForACause
<1>2. CASE ended' = "no"
  BY <1>2 DEF EndsForACause
<1>3. ASSUME NEW t \in Thread, Stepping(t), ended' # "no"
      PROVE  EndsForACause'
  <2>1. Stops(t) /\ kernel' = kernel
    BY <1>3 DEF Stepping, Does, Quiet, Assigns, Opens, Keeps, Reads, Closes
  <2>2. CASE ended' = "crash" /\ th[t].at \in {"call", "close_call"} /\ implementation = "none"
    <3>1. "set" \in races
      BY <2>2 DEF Implemented
    <3> QED  BY <1>0, <2>2, <3>1 DEF EndsForACause
  <2>3. CASE ended' = "denied" /\ th[t].at \in {"init", "source", "read"}
    BY <2>3 DEF EndsForACause
  <2>4. CASE ended' = "misuse" /\ th[t].at = "source" /\ ~ HasSource
    <3>1. "close" \in races \/ "init" \in races
      BY <2>4 DEF Sourced, Published
    <3> QED  BY <1>0, <2>4, <3>1 DEF EndsForACause
  <2>5. CASE ended' = "misuse" /\ th[t].at = "read" /\ fds[th[t].fd] # "random"
    <3>1. "close" \in races
      BY <2>5 DEF OwnFiles, HeldIsOpen
    <3> QED  BY <1>0, <2>5, <3>1 DEF EndsForACause
  <2> QED  BY <2>1, <2>2, <2>3, <2>4, <2>5 DEF Stops
<1> QED  BY <1>1, <1>2, <1>3, NextIs DEF Entering, Replacing, Foreign

-----------------------------------------------------------------------------
(* sodium_init() first.                                                    *)

LEMMA CarefulRaces ==
    ASSUME Forms', ~ ready' => Alone(MainThread)' /\ AlonePlace(MainThread)',
           ready' => \A u \in Thread : Served(u)'
    PROVE  Overlaps(th') = {}
<1> SUFFICES ASSUME NEW t \in Thread,
                    th'[t].stack = <<"close">> \/ th'[t].at \in {"init", "publish"}
             PROVE  \A u \in Thread : u # t => th'[u].at = "idle"
  BY NoOverlap
<1>1. th'[t].at \in {"close", "close_call", "close_fd", "publish", "init"}
  BY DEF Forms, Shaped, Closing
<1>2. ~ ready'
  BY <1>1 DEF Served
<1>3. t = MainThread
  BY <1>1, <1>2 DEF AlonePlace, Idling
<1> QED  BY <1>2, <1>3 DEF AlonePlace, Idling

(* While the main thread stirs.                                            *)
LEMMA StirringStep ==
    ASSUME Forms, Alone(MainThread), AlonePlace(MainThread), ~ ready,
           implementation \in {"none", "sys"}, NEW t \in Thread, Stepping(t)
    PROVE  /\ implementation' \in {"none", "sys"}
           /\ Alone(MainThread)' /\ AlonePlace(MainThread)'
           /\ ready' => /\ implementation' = "sys" /\ stream'.initialized = 1
                        /\ \A u \in Thread : Served(u)'
<1>1. /\ t = MainThread /\ th[t].at # "idle" /\ Does(t)
      /\ ready' => th'[t].at = "idle"
  <2>1. th[t].at # "idle" /\ Does(t)
    BY DEF Stepping
  <2>2. t = MainThread
    BY <2>1 DEF AlonePlace, Idling
  <2>3. ready' => th'[t] = Idle
    BY Zenon DEF Stepping
  <2> QED  BY <2>1, <2>2, <2>3 DEF Idle
<1>2. /\ th[t].at \in {"test", "assign", "call", "stir", "init", "publish"}
      /\ \A i \in 1 .. Len(th[t].stack) : th[t].stack[i] = "stir"
      /\ th[t].at \in {"call", "stir", "init", "publish"} \/ Len(th[t].stack) > 1
            => implementation = "sys"
      /\ th[t].at = "publish" /\ "initialized" \notin th[t].stores => stream.initialized = 1
  BY <1>1 DEF Alone
<1>3. /\ Top(t) = "stir" /\ ~ Closing(t) /\ stream.initialized \in {0, 1}
      /\ Len(th[t].stack) \in Nat /\ Len(th[t].stack) >= 1
  <2>1. Len(th[t].stack) \in Nat /\ Len(th[t].stack) >= 1
    BY <1>1, Places
  <2>2. Len(th[t].stack) \in 1 .. Len(th[t].stack)
    BY <2>1
  <2> QED  BY <1>1, <1>2, <2>1, <2>2, Places DEF Top, Forms, Typed, StreamType
<1>4. ASSUME Others(t) PROVE AlonePlace(MainThread)'
  BY <1>1, <1>4 DEF Others, AlonePlace, Idling
<1>5. ASSUME AlonePlace(MainThread)', ready' PROVE \A u \in Thread : Served(u)'
  BY <1>1, <1>5 DEF AlonePlace, Idling, Served
<1>6. ASSUME Others(t), th'[t].at \in {"assign", "call", "stir", "init", "publish"},
             th'[t].stack = th[t].stack, implementation' = implementation,
             implementation = "sys" \/ (th[t].at = "test" /\ th'[t].at = "assign"),
             th'[t].at = "publish" /\ "initialized" \notin th'[t].stores
                => stream'.initialized = 1
      PROVE  /\ implementation' \in {"none", "sys"} /\ ~ ready'
             /\ Alone(MainThread)' /\ AlonePlace(MainThread)'
  <2>1. Alone(MainThread)'
    BY <1>1, <1>2, <1>6 DEF Alone
  <2> QED  BY <1>1, <1>4, <1>6, <2>1
<1>7. ASSUME Returned(t), implementation' = "sys", stream'.initialized = 1
      PROVE  Alone(MainThread)' /\ AlonePlace(MainThread)'
  <2>1. CASE Len(th[t].stack) = 1
    <3>1. th'[t].at = "idle" /\ th'[t].stack = <<>>
      BY <1>7, <2>1 DEF Returned
    <3>2. \A i \in 1 .. Len(th'[t].stack) : th'[t].stack[i] = "stir"
      BY <3>1
    <3> QED  BY <1>1, <1>4, <1>7, <3>1, <3>2 DEF Alone, Returned
  <2>2. CASE Len(th[t].stack) # 1
    <3>1. /\ th'[t].at = "call" /\ Len(th'[t].stack) = Len(th[t].stack) - 1
          /\ \A i \in 1 .. Len(th'[t].stack) : th'[t].stack[i] = th[t].stack[i]
      BY <1>3, <1>7, <2>2 DEF Returned
    <3>2. \A i \in 1 .. Len(th'[t].stack) : th'[t].stack[i] = "stir"
      BY <1>2, <1>3, <3>1
    <3> QED  BY <1>1, <1>4, <1>7, <3>1, <3>2 DEF Alone, Returned
  <2> QED  BY <2>1, <2>2
<1>8. CASE Quiet(t)
  <2>1. implementation' = implementation /\ stream' = stream
    BY <1>8 DEF Quiet
  <2>2. \/ th[t].at = "test" /\ Moved(t, "assign")
        \/ th[t].at = "test" /\ implementation = "sys" /\ Moved(t, "call")
        \/ th[t].at = "call" /\ implementation = "sys" /\ Moved(t, "stir")
        \/ th[t].at = "stir" /\ implementation = "sys" /\ Moved(t, "init")
        \/ th[t].at = "stir" /\ implementation = "sys" /\ stream.initialized = 1 /\ Returned(t)
        \/ th[t].at = "init" /\ implementation = "sys"
              /\ Held(t, "publish", NoFd, {"available", "initialized"})
    BY <1>2, <1>3, <1>8 DEF Quiet, Calls, Records
  <2>3. CASE Returned(t) /\ implementation = "sys" /\ stream.initialized = 1
    BY <1>5, <1>7, <2>1, <2>3
  <2>4. CASE ~ Returned(t)
    BY <1>6, <2>1, <2>2, <2>4 DEF Moved, Held
  <2> QED  BY <2>2, <2>3, <2>4 DEF Moved, Held, Returned
<1>9. CASE Stops(t)
  <2>1. ~ ready' /\ UNCHANGED <<implementation, stream, th>>
    BY <1>1, <1>9 DEF Stops
  <2> QED  BY <2>1 DEF Alone, AlonePlace, Idling
<1>10. CASE Assigns(t)
  <2>1. implementation' = "sys" /\ th'[t].at = "test" /\ Others(t) /\ Pushed(t, "stir")
    BY <1>10 DEF Assigns, Pushed
  <2>2. \A i \in 1 .. Len(th'[t].stack) : th'[t].stack[i] = "stir"
    BY <1>1, <1>2, <1>3, <2>1, ShapedPush DEF Ops, Stepping
  <2> QED  BY <1>1, <1>4, <2>1, <2>2 DEF Alone
<1>11. CASE Opens(t)
  <2>1. PICK f \in FDs : Held(t, "publish", f, {"unavailable", "fd", "initialized"})
    BY <1>11 DEF Opens
  <2> QED  BY <1>2, <1>6, <1>11, <2>1 DEF Opens, Held
<1>12. CASE Keeps(t)
  <2>1. th[t].at = "publish" /\ implementation = "sys" /\ implementation' = "sys" /\ Shaped(t)
    BY <1>2, <1>12 DEF Keeps, Forms
  <2>2. "uninitialized" \notin th[t].stores
    BY <1>3, <2>1 DEF Shaped
  <2>3. PICK what \in th[t].stores :
           /\ stream'.initialized = IF what = "initialized" THEN 1
                                    ELSE IF what = "uninitialized" THEN 0
                                    ELSE stream.initialized
           /\ \/ th[t].stores # {what} /\ Held(t, "publish", th[t].fd, th[t].stores \ {what})
              \/ th[t].stores = {what} /\ Returned(t)
    BY <1>3, <1>12, Kept
  <2>4. "initialized" \in th[t].stores \ {what} \/ stream'.initialized = 1
    BY <1>2, <2>1, <2>2, <2>3
  <2>5. CASE Held(t, "publish", th[t].fd, th[t].stores \ {what})
    BY <1>6, <2>1, <2>4, <2>5 DEF Held
  <2>6. CASE th[t].stores = {what} /\ Returned(t)
    BY <1>5, <1>7, <2>1, <2>4, <2>6
  <2> QED  BY <2>3, <2>5, <2>6
<1>13. CASE Reads(t) \/ Closes(t)
  BY <1>2, <1>13 DEF Reads, Closes
<1> QED  BY <1>1, <1>8, <1>9, <1>10, <1>11, <1>12, <1>13 DEF Does

(* Once it has.                                                            *)
LEMMA StirredStep ==
    ASSUME Forms, ready, implementation = "sys", stream.initialized = 1,
           \A u \in Thread : Served(u), NEW t \in Thread, Stepping(t)
    PROVE  /\ ready' /\ implementation' = "sys" /\ stream'.initialized = 1
           /\ \A u \in Thread : Served(u)'
<1>1. th[t].at # "idle" /\ Does(t) /\ Served(t)
  BY DEF Stepping
<1>2. ready'
  BY Zenon DEF Stepping
<1>3. ASSUME Others(t), Served(t)' PROVE \A u \in Thread : Served(u)'
  BY <1>3 DEF Others, Served
<1>4. CASE Quiet(t)
  <2>1. implementation' = implementation /\ stream' = stream /\ Others(t)
    BY <1>4, QuietPlaces DEF Quiet
  <2>2. th'[t].at \in {"idle", "test", "call", "sampled", "stir_if_needed", "stir", "source",
                      "read"}
    <3>1. th[t].at \in {"test", "call", "sampled", "stir_if_needed", "stir", "source", "read"}
      BY <1>1 DEF Served
    <3>2. Returned(t) => th'[t].at \in {"idle", "sampled", "call"}
      BY DEF Returned
    <3>3. CASE Calls(t)
      <4>1. \/ Returned(t) \/ Moved(t, "call") \/ Moved(t, "stir") \/ Moved(t, "stir_if_needed")
            \/ Pushed(t, "random")
        BY <3>1, <3>3 DEF Calls
      <4> QED BY <3>2, <4>1 DEF Moved, Pushed
    <3>4. CASE Records(t)
      <4>1. \/ Returned(t) \/ Moved(t, "source") \/ Moved(t, "stir")
            \/ Held(t, "read", stream.fd, th[t].stores)
        BY <3>1, <3>4 DEF Records
      <4> QED BY <3>2, <4>1 DEF Moved, Held
    <3> QED BY <1>4, <3>3, <3>4 DEF Quiet
  <2> QED  BY <1>2, <1>3, <2>1, <2>2 DEF Served
<1>5. CASE Reads(t)
  <2>1. implementation' = implementation /\ stream' = stream /\ Others(t)
    BY <1>5 DEF Reads, Returned, Held
  <2>2. th'[t].at \in {"idle", "call", "sampled", "read"}
    BY <1>5 DEF Reads, Returned, Held
  <2> QED  BY <1>2, <1>3, <2>1, <2>2 DEF Served
<1>6. CASE Stops(t)
  BY <1>2, <1>6 DEF Stops, Served
<1>7. CASE Assigns(t) \/ Opens(t) \/ Keeps(t) \/ Closes(t)
  BY <1>1, <1>7 DEF Served, Assigns, Opens, Keeps, Closes
<1> QED  BY <1>1, <1>4, <1>5, <1>6, <1>7 DEF Does

LEMMA CarefulStep ==
    ASSUME Forms, Forms', CarefulInv, [Next]_vars
    PROVE  CarefulInv'
<1> SUFFICES ASSUME careful', ~ changed' PROVE races' = {} /\ Calm'
  BY DEF CarefulInv
<1>1. careful' = careful /\ ~ changed
  <2>1. ASSUME NEW t \in Thread, Stepping(t) PROVE careful' = careful /\ ~ changed
    BY <2>1 DEF Stepping
  <2>2. ASSUME NEW t \in Thread, NEW op \in Ops, Entering(t, op)
        PROVE  careful' = careful /\ ~ changed
    BY <2>2, Zenon DEF Entering
  <2>3. ~ Replacing
    BY Zenon DEF Replacing
  <2>4. CASE Foreign \/ UNCHANGED vars
    <3>1. careful' = careful /\ changed' = changed
      BY <2>4 DEF Foreign, vars
    <3> QED  BY <3>1, Zenon
  <2> QED  BY <2>1, <2>2, <2>3, <2>4, NextIs
<1>2. races = {} /\ Calm /\ MainThread \in Thread
  BY <1>1, ThreadAssumption DEF CarefulInv
<1>3. ASSUME races' = races \cup Overlaps(th'), Calm'
      PROVE  races' = {} /\ Calm'
  BY <1>2, <1>3, CarefulRaces DEF Calm
<1>4. ASSUME NEW t \in Thread, Stepping(t) PROVE races' = {} /\ Calm'
  <2>1. CASE ~ ready
    BY <1>2, <1>3, <1>4, <2>1, StirringStep DEF Stepping, Calm
  <2>2. CASE ready
    BY <1>2, <1>3, <1>4, <2>2, StirredStep DEF Stepping, Calm
  <2> QED  BY <2>1, <2>2
<1>5. ASSUME NEW t \in Thread, NEW op \in Ops, Entering(t, op) PROVE races' = {} /\ Calm'
  <2>1. /\ op # "close" /\ Others(t) /\ th[t].at = "idle"
        /\ th'[t].at = "test" /\ th'[t].stack = <<op>>
        /\ UNCHANGED <<implementation, stream, ready>>
        /\ races' = races \cup Overlaps(th')
    <3>1. op # "close"
      BY <1>5, Zenon DEF Entering
    <3> QED  BY <1>5, <3>1 DEF Entering, Began
  <2>2. CASE ~ ready
    <3>1. t = MainThread /\ op = "stir"
      BY <1>1, <1>5, <2>2 DEF Entering
    <3>2. Len(th'[t].stack) = 1 /\ th'[t].stack[1] = "stir"
      BY <2>1, <3>1
    <3>3. Alone(MainThread)'
      BY <2>1, <3>1, <3>2 DEF Alone
    <3>4. AlonePlace(MainThread)'
      BY <1>2, <2>1, <2>2, <3>1 DEF AlonePlace, Idling, Others, Calm
    <3> QED  BY <1>2, <1>3, <2>1, <2>2, <3>3, <3>4 DEF Calm
  <2>3. CASE ready
    <3>1. \A u \in Thread : Served(u)'
      BY <1>2, <2>1, <2>3 DEF Others, Served, Calm
    <3> QED  BY <1>2, <1>3, <2>1, <2>3, <3>1 DEF Calm
  <2> QED  BY <2>2, <2>3
<1>6. ~ Replacing
  BY Zenon DEF Replacing
<1>7. CASE Foreign \/ UNCHANGED vars
  <2>1. UNCHANGED <<races, implementation, stream, th, ready>>
    BY <1>7 DEF Foreign, vars
  <2> QED  BY <1>2, <2>1 DEF Alone, AlonePlace, Idling, Served, Calm
<1> QED  BY <1>4, <1>5, <1>6, <1>7, NextIs

-----------------------------------------------------------------------------
LEMMA RaceInit == Init => RaceInv
<1> SUFFICES ASSUME Init PROVE RaceInv
  OBVIOUS
<1>0. /\ kernel \in {"getrandom", "device", "none"} /\ careful \in BOOLEAN
      /\ implementation = "none" /\ stream = [fd |-> NoFd, initialized |-> 0, available |-> 0]
      /\ fds = [f \in FDs |-> "free"] /\ th = [t \in Thread |-> Idle]
      /\ ready = FALSE /\ changed = FALSE /\ races = {} /\ harm = {} /\ ended = "no"
  BY KernelsAssumption, CarefulsAssumption DEF Init
<1>1. /\ \A t \in Thread : th[t] = Idle
      /\ stream.fd = NoFd /\ stream.initialized = 0 /\ stream.available = 0
      /\ \A f \in FDs : fds[f] = "free"
  BY <1>0
<1>2. /\ \A t \in Thread : th[t].at = "idle" /\ th[t].stack = <<>>
      /\ th \in [Thread -> ThreadType]
  BY <1>0, <1>1, IdleType DEF Idle
<1>3. Forms
  <2>1. Typed
    BY <1>0, <1>2 DEF Typed, StreamType
  <2>2. ASSUME NEW t \in Thread PROVE Shaped(t)
    <3>1. NoClose(th[t].stack) /\ ~ Closing(t)
      BY <1>2 DEF NoClose, Closing
    <3> QED  BY <1>2, <3>1 DEF Shaped
  <2> QED  BY <2>1, <2>2 DEF Forms
<1>4. Apart
  BY <1>2 DEF Apart, AlonePlace, Idling
<1>5. OwnFiles
  BY <1>0, <1>1, <1>2 DEF OwnFiles, RecordIsOpen, HeldIsOpen, Storing
<1>6. Implemented
  <2>1. Len(<<>>) = 0
    OBVIOUS
  <2> QED  BY <1>2, <2>1 DEF Implemented
<1>7. Sourced
  BY <1>1, <1>2 DEF Sourced, Settled, NotForgotten, Published
<1>8. CarefulInv
  <2>1. Alone(MainThread)
    BY <1>2, ThreadAssumption DEF Alone
  <2> QED  BY <1>0, <1>2, <2>1 DEF CarefulInv, Calm, AlonePlace, Idling
<1>9. EndsForACause
  BY <1>0 DEF EndsForACause
<1> QED  BY <1>3, <1>4, <1>5, <1>6, <1>7, <1>8, <1>9 DEF RaceInv

LEMMA RaceStep == RaceInv /\ [Next]_vars => RaceInv'
<1> SUFFICES ASSUME RaceInv, [Next]_vars PROVE RaceInv'
  OBVIOUS
<1>1. Forms'
  BY FormsStep DEF RaceInv
<1>2. Apart' /\ OwnFiles' /\ Implemented'
  BY ApartStep, OwnFilesStep, ImplementedStep DEF RaceInv
<1>3. Sourced' /\ EndsForACause'
  BY SourcedStep, EndsStep DEF RaceInv
<1>4. CarefulInv'
  BY <1>1, CarefulStep DEF RaceInv
<1> QED  BY <1>1, <1>2, <1>3, <1>4 DEF RaceInv

(* The implementation, the record, the descriptors and the threads stay as *)
(* RaceInv says, whatever the application does.                            *)
THEOREM Races == Spec => []RaceInv
<1> QED  BY RaceInit, RaceStep, PTL DEF Spec

(* What the library reads as random it read from the kernel, and what it   *)
(* closes it opened: another file is touched only when a close() overlaps  *)
(* another call.                                                           *)
THEOREM Files == Spec => []FilesAreLeftAlone
<1>1. RaceInv => FilesAreLeftAlone
  BY DEF RaceInv, OwnFiles, FilesAreLeftAlone
<1> QED  BY <1>1, Races, PTL

(* sodium_misuse() for anything but a want of entropy or of a descriptor,  *)
(* or a call through a null pointer, means that calls overlapped that must *)
(* not.                                                                    *)
THEOREM Causes == Spec => []EndsForACause
<1>1. RaceInv => EndsForACause
  BY DEF RaceInv
<1> QED  BY <1>1, Races, PTL

(* Without such an overlap the record and the descriptors agree: no device *)
(* stays open and forgotten, and the one that the record names is open.    *)
THEOREM Descriptors == Spec => []DescriptorsAgree
<1>1. RaceInv => DescriptorsAgree
  <2> SUFFICES ASSUME RaceInv, races = {} PROVE DescriptorsAgree
    BY DEF DescriptorsAgree
  <2>1. NotForgotten /\ RecordIsOpen /\ \A t \in Thread : HeldIsOpen(t)
    BY DEF RaceInv, Sourced, OwnFiles
  <2> DEFINE storing == {t \in Thread : th[t].at = "publish" /\ "fd" \in th[t].stores}
             held    == {th[t].fd : t \in storing}
  <2>2. \A t \in Thread : Storing(t) => th[t].fd \in held
    BY DEF Storing
  <2>3. {f \in FDs : fds[f] = "random"} \subseteq {stream.fd} \cup held
    BY <2>1, <2>2 DEF NotForgotten
  <2>4. stream.fd = NoFd \/ stream.fd \in held \/ fds[stream.fd] = "random"
    <3> SUFFICES ASSUME stream.fd # NoFd, fds[stream.fd] # "random"
                 PROVE  stream.fd \in held
      OBVIOUS
    <3>1. PICK t \in Thread : Closing(t) /\ Storing(t)
      BY <2>1 DEF RecordIsOpen
    <3>2. th[t].fd = stream.fd
      BY <2>1, <3>1 DEF HeldIsOpen
    <3> QED  BY <2>2, <3>1, <3>2
  <2> QED  BY <2>3, <2>4 DEF DescriptorsAgree
<1> QED  BY <1>1, Races, PTL

(* sodium_init() before the threads start is all the synchronisation that  *)
(* the library needs, for as long as nobody closes or replaces the         *)
(* implementation.                                                         *)
THEOREM InitFirst == Spec => []InitFirstIsEnough
<1>1. RaceInv => InitFirstIsEnough
  BY DEF RaceInv, CarefulInv, InitFirstIsEnough
<1> QED  BY <1>1, Races, PTL
=============================================================================
