-------------------------- MODULE EpochThreadsProofs --------------------------
(***************************************************************************)
(* Epochs keep their minimum distance for every number of threads and all  *)
(* durations.  TypeOK alone is not inductive: a step needs to know that a  *)
(* registering frame has a record to link, that a sleeping monitor has     *)
(* nothing left to do, and that a frame about to take a timestamp runs     *)
(* with a record that is old enough.                                       *)
(*                                                                         *)
(* That a raised flag is answered is a matter of each thread alone: FInv   *)
(* says for a thread which of its records the monitor still reaches, and   *)
(* who sends, takes or has taken the interrupt of the one it runs with.    *)
(***************************************************************************)
EXTENDS EpochThreads, TLAPS

Pointer == Records \cup {NoRecord}

Shape ==
    /\ reg \in [Threads -> [base : Pointer, handler : Pointer]]
    /\ tls \in [Threads -> Pointer]
    /\ monitor \in [at : {"sleep", "scan", "flag", "kill"},
                    todo : SUBSET Records, rec : Pointer]

\* A frame that registers has a record, and a sleeping monitor no work.
Registering ==
    \A t \in Threads :
        /\ base[t] \in Registration => reg[t].base # NoRecord
        /\ handler[t] \in Registration => reg[t].handler # NoRecord

Idle == monitor.at = "sleep" => monitor.todo = {}

\* Whoever takes a timestamp does so with a record that is old enough.
StampIsDue ==
    \A t \in Threads : At(t) = "stamp" => tls[t] \in Records /\ age[tls[t]] >= MinEpoch

IInv == TypeOK /\ Shape /\ Registering /\ Idle /\ StampIsDue

-----------------------------------------------------------------------------

LEMMA InitIInv == Init => IInv
<1> SUFFICES ASSUME Init PROVE IInv
  OBVIOUS
<1> USE DEF Init, Records, Pointer, Asleep
<1>1. TypeOK
  BY EpochAssumption DEF TypeOK, Base, Handler, Registration, Epoch, Running, InHandler,
     RecordsOf
<1>2. Shape
  BY DEF Shape
<1>3. Registering /\ Idle /\ StampIsDue
  BY DEF Registering, Registration, Idle, StampIsDue, At, InHandler
<1> QED
  BY <1>1, <1>2, <1>3 DEF IInv

(* Records of different threads are different.                             *)
LEMMA OwnRecords ==
    ASSUME NEW t \in Threads, NEW u \in Threads,
           NEW r \in RecordsOf(t), NEW q \in RecordsOf(u), t # u
    PROVE  r # q /\ r \in Records /\ NoRecord # r
BY EpochAssumption DEF RecordsOf, Records

(* A frame that moves and leaves all data alone keeps the invariant.       *)
LEMMA FrameMoves ==
    ASSUME IInv, NEW t \in Threads, NEW loc, GoTo(t, loc),
           IF InHandler(t) THEN loc \in Handler \ (Registration \cup {"none"})
                           ELSE loc \in Base \ (Registration \cup {"new"}),
           At(t) # "new",
           loc = "dead" => t \notin pending,
           loc = "stamp" => tls[t] # NoRecord /\ ReachedMin(t),
           UNCHANGED <<tls, pending, thread_list, age, signaled, monitor>>
    PROVE  IInv'
<1> USE DEF IInv
<1>1. /\ base' \in [Threads -> Base] /\ handler' \in [Threads -> Handler]
      /\ \A u \in Threads \ {t} : base'[u] = base[u] /\ handler'[u] = handler[u]
      /\ IF InHandler(t) THEN handler'[t] = loc /\ base'[t] = base[t]
                         ELSE base'[t] = loc /\ handler'[t] = handler[t]
      /\ reg' = reg /\ traced' = traced
  BY DEF GoTo, TypeOK
<1>2. TypeOK'
  <2>1. pending' \subseteq {u \in Threads : Running(u)'}
    BY <1>1 DEF TypeOK, Running, At, Handler, Registration, Epoch, InHandler
  <2>2. \A u \in Threads : InHandler(u)' => base'[u] \notin Epoch
    BY <1>1 DEF TypeOK, InHandler, Handler, Registration, Epoch
  <2> QED
    BY <1>1, <2>1, <2>2 DEF TypeOK
<1>3. Shape' /\ Idle'
  BY <1>1 DEF Shape, Idle
<1>4. Registering'
  BY <1>1 DEF Registering
<1>5. StampIsDue'
  <2>1. ASSUME NEW u \in Threads, At(u)' = "stamp"
        PROVE  tls[u] \in Records /\ age[tls[u]] >= MinEpoch
    <3>1. CASE u = t
      BY <1>1, <2>1, <3>1 DEF StampIsDue, At, InHandler, ReachedMin, Shape, Pointer,
         TypeOK, Handler, Registration, Epoch
    <3>2. CASE u # t
      BY <1>1, <2>1, <3>2 DEF StampIsDue, At, InHandler
    <3> QED
      BY <3>1, <3>2
  <2> QED
    BY <2>1 DEF StampIsDue
<1> QED
  BY <1>2, <1>3, <1>4, <1>5

(* The actions that are nothing but such a move.                           *)
LEMMA MoveStep ==
    ASSUME IInv, NEW t \in Threads,
           MutexOp(t) \/ Check(t) \/ BlockNewEpoch(t) \/ BeginEpoch(t)
             \/ LoseThread(t) \/ Finish(t) \/ Free(t) \/ Exit(t) \/ Vanish(t)
    PROVE  IInv'
<1> USE DEF At, InHandler, Handler, Base, Registration, Epoch
<1>1. /\ UNCHANGED <<tls, pending, thread_list, age, signaled, monitor>>
      /\ handler \in [Threads -> Handler] /\ base \in [Threads -> Base]
  BY DEF MutexOp, Check, BlockNewEpoch, BeginEpoch, LoseThread, Finish, Free, Exit,
     Vanish, IInv, TypeOK
<1>2. CASE MutexOp(t)
  BY <1>1, <1>2, FrameMoves DEF MutexOp
<1>3. CASE Check(t)
  <2>1. GoTo(t, "enter") \/ GoTo(t, "app")
    BY <1>3 DEF Check
  <2> QED
    BY <1>1, <1>3, <2>1, FrameMoves DEF Check
<1>4. CASE BlockNewEpoch(t)
  BY <1>1, <1>4, FrameMoves DEF BlockNewEpoch
<1>5. CASE BeginEpoch(t)
  BY <1>1, <1>5, FrameMoves DEF BeginEpoch
<1>6. CASE LoseThread(t)
  BY <1>1, <1>6, FrameMoves DEF LoseThread
<1>7. CASE Finish(t)
  BY <1>1, <1>7, FrameMoves DEF Finish
<1>8. CASE Free(t)
  BY <1>1, <1>8, FrameMoves DEF Free
<1>9. CASE Exit(t)
  BY <1>1, <1>9, FrameMoves DEF Exit
<1>10. CASE Vanish(t)
  BY <1>1, <1>10, FrameMoves DEF Vanish
<1> QED
  BY <1>2, <1>3, <1>4, <1>5, <1>6, <1>7, <1>8, <1>9, <1>10

-----------------------------------------------------------------------------

(* A signal is delivered, an epoch returns, a thread is created.           *)
LEMMA SignalStep ==
    ASSUME IInv, NEW t \in Threads,
           Deliver(t) \/ RefuseEpoch(t) \/ EndEpoch(t) \/ Create(t)
    PROVE  IInv'
<1> USE DEF IInv
<1>1. /\ base' \in [Threads -> Base] /\ handler' \in [Threads -> Handler]
      /\ \A u \in Threads \ {t} : base'[u] = base[u] /\ handler'[u] = handler[u]
      /\ base'[t] \in {base[t], "app", "start"}
      /\ handler'[t] \in {handler[t], "none", "recheck"}
      /\ reg' = reg /\ tls' = tls /\ age' = age
      /\ thread_list' = thread_list /\ monitor' = monitor
      /\ signaled' \subseteq signaled /\ pending' \subseteq pending
      /\ traced' \subseteq Threads
  <2> USE DEF TypeOK, Base, Handler, Registration, Epoch
  <2>1. CASE Deliver(t)
    BY <2>1 DEF Deliver, MayInterrupt, Running
  <2>2. CASE RefuseEpoch(t)
    BY <2>2 DEF RefuseEpoch, UnblockAndReturn, InHandler, At
  <2>3. CASE EndEpoch(t)
    BY <2>3 DEF EndEpoch, UnblockAndReturn, InHandler, At
  <2>4. CASE Create(t)
    BY <2>4 DEF Create
  <2> QED
    BY <2>1, <2>2, <2>3, <2>4
<1>2. /\ handler'[t] # "none" => base'[t] \notin Epoch
      /\ At(t)' = "stamp" => At(t) = "stamp"
  <2> USE DEF TypeOK, Base, Handler, Registration, Epoch, InHandler, At
  <2>1. CASE Deliver(t)
    BY <2>1 DEF Deliver, MayInterrupt, Running
  <2>2. CASE RefuseEpoch(t)
    BY <2>2 DEF RefuseEpoch, UnblockAndReturn
  <2>3. CASE EndEpoch(t)
    BY <2>3 DEF EndEpoch, UnblockAndReturn
  <2>4. CASE Create(t)
    BY <2>4 DEF Create
  <2> QED
    BY <2>1, <2>2, <2>3, <2>4
<1>3. TypeOK'
  <2>1. pending' \subseteq {u \in Threads : Running(u)'}
    BY <1>1, <1>2 DEF TypeOK, Running
  <2>2. \A u \in Threads : InHandler(u)' => base'[u] \notin Epoch
    BY <1>1, <1>2 DEF TypeOK, InHandler
  <2> QED
    BY <1>1, <2>1, <2>2 DEF TypeOK
<1>4. Shape' /\ Idle'
  BY <1>1 DEF Shape, Idle
<1>5. Registering'
  BY <1>1 DEF Registering, Registration
<1>6. StampIsDue'
  BY <1>1, <1>2 DEF StampIsDue, At, InHandler
<1> QED
  BY <1>3, <1>4, <1>5, <1>6

(* A frame takes an unused record of its own thread to register it.        *)
LEMMA RegisterStep ==
    ASSUME IInv, NEW t \in Threads, Register(t)
    PROVE  IInv'
<1> USE DEF IInv
<1>1. PICK s \in Slots :
        /\ reg' = [reg EXCEPT ![t][Frame(t)] = <<t, s>>]
        /\ age' = [age EXCEPT ![<<t, s>>] = IF StatsEnabled THEN 0 ELSE MaxEpoch]
        /\ signaled' = signaled \ {<<t, s>>}
  BY DEF Register
<1>2. /\ <<t, s>> \in RecordsOf(t) /\ <<t, s>> \in Records /\ <<t, s>> # NoRecord
  BY EpochAssumption DEF RecordsOf, Records
<1>3. /\ IF InHandler(t) THEN handler' = [handler EXCEPT ![t] = "link"] /\ base' = base
                         ELSE base' = [base EXCEPT ![t] = "link"] /\ handler' = handler
      /\ At(t) \in {"start", "check", "recheck"}
      /\ UNCHANGED <<traced, tls, pending, thread_list, monitor>>
  BY DEF Register
<1>4. /\ base' \in [Threads -> Base] /\ handler' \in [Threads -> Handler]
      /\ \A u \in Threads \ {t} : base'[u] = base[u] /\ handler'[u] = handler[u]
      /\ IF InHandler(t) THEN handler'[t] = "link" /\ base'[t] = base[t]
                         ELSE base'[t] = "link" /\ handler'[t] = handler[t]
  BY <1>3 DEF TypeOK, Base, Handler, Registration
<1>5. /\ reg' \in [Threads -> [base : Pointer, handler : Pointer]]
      /\ \A u \in Threads \ {t} : reg'[u] = reg[u]
      /\ IF InHandler(t) THEN reg'[t].handler = <<t, s>> /\ reg'[t].base = reg[t].base
                         ELSE reg'[t].base = <<t, s>> /\ reg'[t].handler = reg[t].handler
  <2>1. CASE InHandler(t)
    BY <1>1, <1>2, <2>1 DEF Shape, Frame, Pointer
  <2>2. CASE ~InHandler(t)
    BY <1>1, <1>2, <2>2 DEF Shape, Frame, Pointer
  <2> QED
    BY <2>1, <2>2
<1>6. /\ age' \in [Records -> 0 .. MaxEpoch]
      /\ \A r \in Records \ {<<t, s>>} : age'[r] = age[r]
  BY <1>1, <1>2, EpochAssumption DEF TypeOK
<1>7. TypeOK'
  <2>1. pending' \subseteq {u \in Threads : Running(u)'}
    BY <1>3, <1>4 DEF TypeOK, Running
  <2>2. \A u \in Threads :
          /\ tls'[u] \in RecordsOf(u) \cup {NoRecord}
          /\ reg'[u].base \in RecordsOf(u) \cup {NoRecord}
          /\ reg'[u].handler \in RecordsOf(u) \cup {NoRecord}
    BY <1>2, <1>3, <1>5 DEF TypeOK
  <2>3. \A u \in Threads : InHandler(u)' => base'[u] \notin Epoch
    BY <1>4 DEF TypeOK, InHandler, Epoch
  <2> QED
    BY <1>1, <1>2, <1>3, <1>4, <1>6, <2>1, <2>2, <2>3 DEF TypeOK
<1>8. Shape' /\ Idle'
  BY <1>3, <1>5 DEF Shape, Idle
<1>9. Registering'
  BY <1>2, <1>4, <1>5 DEF Registering
<1>10. StampIsDue'
  <2>1. ASSUME NEW u \in Threads, At(u)' = "stamp"
        PROVE  tls'[u] \in Records /\ age'[tls'[u]] >= MinEpoch
    <3>1. u # t /\ At(u) = "stamp"
      BY <1>4, <2>1 DEF At, InHandler
    <3>2. tls[u] \in RecordsOf(u) /\ tls[u] # <<t, s>>
      BY <1>2, <3>1, EpochAssumption DEF TypeOK, StampIsDue, RecordsOf, Records
    <3> QED
      BY <1>3, <1>6, <3>1, <3>2 DEF StampIsDue
  <2> QED
    BY <2>1 DEF StampIsDue
<1> QED
  BY <1>7, <1>8, <1>9, <1>10

-----------------------------------------------------------------------------

(* A frame that moves while the data changes too: what holds of the frames *)
(* afterwards, as long as the thread neither starts, ends, registers nor   *)
(* takes a timestamp by the move.                                          *)
LEMMA FramesMoved ==
    ASSUME IInv, NEW t \in Threads, NEW loc, GoTo(t, loc), At(t) # "new",
           loc \in {"publish", "clear", "unlinked", "exit"},
           loc \in {"unlinked", "exit"} => ~InHandler(t)
    PROVE  /\ base' \in [Threads -> Base] /\ handler' \in [Threads -> Handler]
           /\ \A u \in Threads \ {t} : base'[u] = base[u] /\ handler'[u] = handler[u]
           /\ IF InHandler(t) THEN handler'[t] = loc /\ base'[t] = base[t]
                              ELSE base'[t] = loc /\ handler'[t] = handler[t]
           /\ reg' = reg /\ traced' = traced
           /\ pending \subseteq {u \in Threads : Running(u)'}
           /\ \A u \in Threads : InHandler(u)' => base'[u] \notin Epoch
           /\ \A u \in Threads : At(u)' = "stamp" => u # t /\ At(u) = "stamp"
<1>1. /\ base' \in [Threads -> Base] /\ handler' \in [Threads -> Handler]
      /\ \A u \in Threads \ {t} : base'[u] = base[u] /\ handler'[u] = handler[u]
      /\ IF InHandler(t) THEN handler'[t] = loc /\ base'[t] = base[t]
                         ELSE base'[t] = loc /\ handler'[t] = handler[t]
      /\ reg' = reg /\ traced' = traced
  BY DEF IInv, TypeOK, GoTo, Base, Handler, Registration, Epoch
<1>2. pending \subseteq {u \in Threads : Running(u)'}
  BY <1>1 DEF IInv, TypeOK, Running
<1>3. \A u \in Threads : InHandler(u)' => base'[u] \notin Epoch
  BY <1>1 DEF IInv, TypeOK, InHandler
<1>4. \A u \in Threads : At(u)' = "stamp" => u # t /\ At(u) = "stamp"
  BY <1>1 DEF At, InHandler
<1> QED
  BY <1>1, <1>2, <1>3, <1>4

(* The record being registered joins the list.                             *)
LEMMA LinkStep ==
    ASSUME IInv, NEW t \in Threads, Link(t)
    PROVE  IInv'
<1> USE DEF IInv
<1>1. /\ GoTo(t, "publish") /\ At(t) = "link"
      /\ thread_list' = thread_list \cup {reg[t][Frame(t)]}
      /\ UNCHANGED <<tls, pending, age, signaled, monitor>>
  BY DEF Link
<1>2. /\ base' \in [Threads -> Base] /\ handler' \in [Threads -> Handler]
      /\ \A u \in Threads \ {t} : base'[u] = base[u] /\ handler'[u] = handler[u]
      /\ IF InHandler(t) THEN handler'[t] = "publish" /\ base'[t] = base[t]
                         ELSE base'[t] = "publish" /\ handler'[t] = handler[t]
      /\ reg' = reg /\ traced' = traced
      /\ pending \subseteq {u \in Threads : Running(u)'}
      /\ \A u \in Threads : InHandler(u)' => base'[u] \notin Epoch
      /\ \A u \in Threads : At(u)' = "stamp" => u # t /\ At(u) = "stamp"
  BY <1>1, FramesMoved
<1>3. reg[t][Frame(t)] \in Records
  <2>1. reg[t][Frame(t)] \in Pointer \ {NoRecord}
    BY <1>1 DEF Registering, Registration, Shape, Frame, At, InHandler
  <2> QED
    BY <2>1 DEF Pointer
<1>4. TypeOK'
  BY <1>1, <1>2, <1>3 DEF TypeOK
<1>5. Shape' /\ Idle'
  BY <1>1, <1>2 DEF Shape, Idle
<1>6. Registering'
  BY <1>1, <1>2 DEF Registering, Registration, At, InHandler
<1>7. StampIsDue'
  BY <1>1, <1>2 DEF StampIsDue
<1> QED
  BY <1>4, <1>5, <1>6, <1>7

(* The timestamp is taken: no other frame was about to use this record.    *)
LEMMA StampStep ==
    ASSUME IInv, NEW t \in Threads, Stamp(t)
    PROVE  IInv'
<1> USE DEF IInv
<1>1. /\ GoTo(t, "clear") /\ At(t) = "stamp"
      /\ age' = [age EXCEPT ![tls[t]] = 0]
      /\ UNCHANGED <<tls, pending, thread_list, signaled, monitor>>
  BY DEF Stamp
<1>2. /\ base' \in [Threads -> Base] /\ handler' \in [Threads -> Handler]
      /\ \A u \in Threads \ {t} : base'[u] = base[u] /\ handler'[u] = handler[u]
      /\ IF InHandler(t) THEN handler'[t] = "clear" /\ base'[t] = base[t]
                         ELSE base'[t] = "clear" /\ handler'[t] = handler[t]
      /\ reg' = reg /\ traced' = traced
      /\ pending \subseteq {u \in Threads : Running(u)'}
      /\ \A u \in Threads : InHandler(u)' => base'[u] \notin Epoch
      /\ \A u \in Threads : At(u)' = "stamp" => u # t /\ At(u) = "stamp"
  BY <1>1, FramesMoved
<1>3. tls[t] \in Records /\ tls[t] \in RecordsOf(t)
  BY <1>1, EpochAssumption DEF StampIsDue, TypeOK
<1>4. /\ age' \in [Records -> 0 .. MaxEpoch]
      /\ \A r \in Records \ {tls[t]} : age'[r] = age[r]
  BY <1>1, <1>3, EpochAssumption DEF TypeOK
<1>5. TypeOK'
  BY <1>1, <1>2, <1>4 DEF TypeOK
<1>6. Shape' /\ Idle'
  BY <1>1, <1>2 DEF Shape, Idle
<1>7. Registering'
  BY <1>2 DEF Registering, Registration
<1>8. StampIsDue'
  <2>1. ASSUME NEW u \in Threads, At(u)' = "stamp"
        PROVE  tls'[u] \in Records /\ age'[tls'[u]] >= MinEpoch
    <3>1. u # t /\ tls[u] \in Records /\ age[tls[u]] >= MinEpoch
      BY <1>2, <2>1 DEF StampIsDue
    <3>2. tls[u] \in RecordsOf(u)
      BY <3>1, EpochAssumption DEF TypeOK
    <3>3. tls[u] # tls[t]
      BY <1>3, <3>1, <3>2, OwnRecords
    <3> QED
      BY <1>1, <1>4, <3>1, <3>3
  <2> QED
    BY <2>1 DEF StampIsDue
<1> QED
  BY <1>5, <1>6, <1>7, <1>8

(* A thread that ends leaves the list while the monitor sleeps, then       *)
(* forgets its record.                                                     *)
LEMMA UnregisterStep ==
    ASSUME IInv, NEW t \in Threads, Unlink(t) \/ Forget(t)
    PROVE  IInv'
<1> USE DEF IInv
<1>1. PICK loc \in {"unlinked", "exit"} :
        /\ GoTo(t, loc)
        /\ At(t) \in {"unlink", "freed"}
  BY DEF Unlink, Forget
<1>2. ~InHandler(t)
  BY <1>1 DEF At, TypeOK, Handler, Registration, Epoch
<1>3. /\ base' \in [Threads -> Base] /\ handler' \in [Threads -> Handler]
      /\ \A u \in Threads \ {t} : base'[u] = base[u] /\ handler'[u] = handler[u]
      /\ base'[t] = loc /\ handler'[t] = handler[t]
      /\ reg' = reg /\ traced' = traced
      /\ pending \subseteq {u \in Threads : Running(u)'}
      /\ \A u \in Threads : InHandler(u)' => base'[u] \notin Epoch
      /\ \A u \in Threads : At(u)' = "stamp" => u # t /\ At(u) = "stamp"
  BY <1>1, <1>2, FramesMoved
<1>4. /\ tls' \in [Threads -> Pointer]
      /\ \A u \in Threads \ {t} : tls'[u] = tls[u]
      /\ tls'[t] \in {tls[t], NoRecord}
      /\ thread_list' \subseteq thread_list
      /\ thread_list' = thread_list \/ monitor.at = "sleep"
      /\ UNCHANGED <<pending, age, signaled, monitor>>
  BY DEF Unlink, Forget, Shape, Pointer
<1>5. TypeOK'
  BY <1>3, <1>4 DEF TypeOK, Idle
<1>6. Shape' /\ Idle'
  BY <1>3, <1>4 DEF Shape, Idle
<1>7. Registering'
  BY <1>1, <1>3 DEF Registering, Registration
<1>8. StampIsDue'
  BY <1>3, <1>4 DEF StampIsDue
<1> QED
  BY <1>5, <1>6, <1>7, <1>8

(* The registered record becomes the thread's.                             *)
LEMMA PublishStep ==
    ASSUME IInv, NEW t \in Threads, Publish(t)
    PROVE  IInv'
<1> USE DEF IInv
<1>1. /\ At(t) = "publish"
      /\ tls' = [tls EXCEPT ![t] = reg[t][Frame(t)]]
      /\ reg' = [reg EXCEPT ![t][Frame(t)] = NoRecord]
      /\ IF InHandler(t)
         THEN handler' = [handler EXCEPT ![t] = "rejudge"] /\ base' = base
         ELSE /\ base' = [base EXCEPT ![t] = IF t \in traced THEN "app" ELSE "check"]
              /\ handler' = handler
      /\ UNCHANGED <<traced, pending, thread_list, age, signaled, monitor>>
  BY DEF Publish
<1>2. /\ base' \in [Threads -> Base] /\ handler' \in [Threads -> Handler]
      /\ \A u \in Threads \ {t} : base'[u] = base[u] /\ handler'[u] = handler[u]
      /\ IF InHandler(t) THEN handler'[t] = "rejudge" /\ base'[t] = base[t]
                         ELSE base'[t] \in {"app", "check"} /\ handler'[t] = handler[t]
  BY <1>1 DEF TypeOK, Base, Handler
<1>3. /\ reg' \in [Threads -> [base : Pointer, handler : Pointer]]
      /\ \A u \in Threads \ {t} : reg'[u] = reg[u] /\ tls'[u] = tls[u]
      /\ IF InHandler(t) THEN /\ reg'[t].handler = NoRecord /\ reg'[t].base = reg[t].base
                              /\ tls'[t] = reg[t].handler
                         ELSE /\ reg'[t].base = NoRecord /\ reg'[t].handler = reg[t].handler
                              /\ tls'[t] = reg[t].base
  <2>1. CASE InHandler(t)
    BY <1>1, <2>1 DEF Shape, Frame, Pointer
  <2>2. CASE ~InHandler(t)
    BY <1>1, <2>2 DEF Shape, Frame, Pointer
  <2> QED
    BY <2>1, <2>2
<1>4. TypeOK'
  <2>1. pending' \subseteq {u \in Threads : Running(u)'}
    BY <1>1, <1>2 DEF TypeOK, Running
  <2>2. \A u \in Threads :
          /\ tls'[u] \in RecordsOf(u) \cup {NoRecord}
          /\ reg'[u].base \in RecordsOf(u) \cup {NoRecord}
          /\ reg'[u].handler \in RecordsOf(u) \cup {NoRecord}
    BY <1>3 DEF TypeOK
  <2>3. \A u \in Threads : InHandler(u)' => base'[u] \notin Epoch
    BY <1>2 DEF TypeOK, InHandler, Epoch
  <2> QED
    BY <1>1, <1>2, <2>1, <2>2, <2>3 DEF TypeOK
<1>5. Shape' /\ Idle'
  <2>1. tls' \in [Threads -> Pointer]
    BY <1>1 DEF Shape, Frame
  <2> QED
    BY <1>1, <1>3, <2>1 DEF Shape, Idle
<1>6. Registering'
  BY <1>2, <1>3 DEF Registering, Registration, InHandler
<1>7. StampIsDue'
  BY <1>1, <1>2, <1>3 DEF StampIsDue, At, InHandler
<1> QED
  BY <1>4, <1>5, <1>6, <1>7

(* The monitor changes flags, signals and its own place in the list.       *)
LEMMA MonitorStep ==
    ASSUME IInv, Monitor
    PROVE  IInv'
<1> USE DEF IInv
<1>1. UNCHANGED <<base, handler, traced, reg, tls, thread_list, age>>
  BY DEF Monitor, MonitorWakes, MonitorChecks, MonitorInterrupts, MonitorSleeps, frames
<1>2. /\ monitor' \in [at : {"sleep", "scan", "flag", "kill"},
                       todo : SUBSET Records, rec : Pointer]
      /\ monitor'.todo \subseteq thread_list
      /\ monitor'.at \in {"flag", "kill"} => monitor'.rec \in thread_list
      /\ monitor'.at = "sleep" => monitor'.todo = {}
  <2> USE DEF TypeOK, Shape
  <2>1. CASE MonitorWakes
    BY <2>1 DEF MonitorWakes, Pointer
  <2>2. CASE MonitorChecks
    <3>1. PICK r \in monitor.todo :
            monitor' \in {[at |-> "flag", todo |-> monitor.todo \ {r}, rec |-> r],
                          [monitor EXCEPT !.todo = @ \ {r}]}
      BY <2>2 DEF MonitorChecks
    <3>2. monitor.at = "scan" /\ r \in thread_list /\ r \in Records
      BY <2>2 DEF MonitorChecks
    <3>3. CASE monitor' = [at |-> "flag", todo |-> monitor.todo \ {r}, rec |-> r]
      BY <3>2, <3>3 DEF Pointer
    <3>4. CASE monitor' = [monitor EXCEPT !.todo = @ \ {r}]
      BY <3>2, <3>4
    <3> QED
      BY <3>1, <3>3, <3>4
  <2>3. CASE MonitorInterrupts
    BY <2>3 DEF MonitorInterrupts, Pointer
  <2>4. CASE MonitorSleeps
    BY <2>4 DEF MonitorSleeps, Asleep, Pointer
  <2> QED
    BY <2>1, <2>2, <2>3, <2>4 DEF Monitor
<1>3. signaled' \subseteq Records /\ pending' \subseteq {t \in Threads : Running(t)}
  <2>1. monitor.at \in {"flag", "kill"} => monitor.rec \in Records
    BY DEF TypeOK
  <2>2. monitor.at \in {"flag", "kill"} => monitor.rec[1] \in Threads
    BY <2>1 DEF Records
  <2> QED
    BY <2>1, <2>2 DEF Monitor, MonitorWakes, MonitorChecks, MonitorInterrupts,
       MonitorSleeps, Send, TypeOK
<1>4. TypeOK'
  BY <1>1, <1>2, <1>3 DEF TypeOK, Running, InHandler
<1>5. Shape' /\ Idle'
  BY <1>1, <1>2 DEF Shape, Idle
<1>6. Registering' /\ StampIsDue'
  BY <1>1 DEF Registering, StampIsDue, At, InHandler
<1> QED
  BY <1>4, <1>5, <1>6

(* Time only makes records older.                                          *)
LEMMA TickStep ==
    ASSUME IInv, Tick
    PROVE  IInv'
<1> USE DEF IInv
<1>1. UNCHANGED <<base, handler, traced, reg, tls, pending, thread_list, signaled, monitor>>
  BY DEF Tick, frames
<1>2. /\ age' \in [Records -> 0 .. MaxEpoch]
      /\ \A r \in Records : age'[r] >= age[r]
  BY EpochAssumption DEF Tick, TypeOK
<1>3. TypeOK' /\ Shape' /\ Idle' /\ Registering'
  BY <1>1, <1>2 DEF TypeOK, Running, InHandler, Shape, Idle, Registering
<1>4. StampIsDue'
  <2>1. ASSUME NEW u \in Threads, At(u)' = "stamp"
        PROVE  tls'[u] \in Records /\ age'[tls'[u]] >= MinEpoch
    <3>1. tls[u] \in Records /\ age[tls[u]] >= MinEpoch
      BY <1>1, <2>1 DEF StampIsDue, At, InHandler
    <3> QED
      BY <1>1, <1>2, <3>1, EpochAssumption DEF TypeOK
  <2> QED
    BY <2>1 DEF StampIsDue
<1> QED
  BY <1>3, <1>4

-----------------------------------------------------------------------------

LEMMA Inductive ==
    ASSUME IInv, [Next]_vars
    PROVE  IInv'
<1>1. ASSUME NEW t \in Threads, Deliver(t) \/ Proceed(t) \/ Application(t)
      PROVE  IInv'
  BY <1>1, MoveStep, SignalStep, RegisterStep, LinkStep, PublishStep, StampStep,
     UnregisterStep DEF Proceed, Application
<1>2. CASE UNCHANGED vars
  BY <1>2 DEF vars, IInv, TypeOK, Shape, Registering, Idle, StampIsDue, Running,
     InHandler, At
<1> QED
  BY <1>1, <1>2, MonitorStep, TickStep DEF Next

(* Every thread registers and works with records of its own only, the      *)
(* monitor only works on linked records and no epoch is interrupted, for   *)
(* every number of threads and records and all durations.                  *)
THEOREM TypeCorrect == Spec => []TypeOK
<1>1. Spec => []IInv
  BY InitIInv, Inductive, PTL DEF Spec
<1>2. IInv => TypeOK
  BY DEF IInv
<1> QED
  BY <1>1, <1>2, PTL

(* The steps that take a timestamp take it when it is due; the other steps *)
(* that reset an age do so to a record that is not in the list.            *)
LEMMA MinApartStep ==
    ASSUME IInv, [Next]_vars
    PROVE  \A r \in thread_list \cap thread_list' : age'[r] < age[r] => age[r] >= MinEpoch
<1> SUFFICES ASSUME NEW r \in thread_list, age'[r] < age[r]
             PROVE  age[r] >= MinEpoch
  OBVIOUS
<1>1. r \in Records /\ age[r] \in 0 .. MaxEpoch
  BY DEF IInv, TypeOK
<1>2. age' # age
  BY <1>1, EpochAssumption
<1>3. ~Tick
  BY <1>1, EpochAssumption DEF Tick
<1>4. PICK t \in Threads : Register(t) \/ Stamp(t)
  BY <1>2, <1>3 DEF Next, vars, Monitor, MonitorWakes, MonitorChecks, MonitorInterrupts,
     MonitorSleeps, Proceed, Application, Deliver, Link, Publish, Check, BlockNewEpoch,
     BeginEpoch, RefuseEpoch, LoseThread, EndEpoch, Unlink, Free, Forget, Exit, Create,
     MutexOp, Finish, Vanish
<1>5. CASE Register(t)
  <2>1. PICK s \in Slots :
          /\ <<t, s>> \notin thread_list
          /\ age' = [age EXCEPT ![<<t, s>>] = IF StatsEnabled THEN 0 ELSE MaxEpoch]
    BY <1>5 DEF Register, InUse
  <2> QED
    BY <1>1, <2>1, EpochAssumption DEF IInv, TypeOK
<1>6. CASE Stamp(t)
  <2>1. /\ tls[t] \in Records /\ age[tls[t]] >= MinEpoch
        /\ age' = [age EXCEPT ![tls[t]] = 0]
    BY <1>6 DEF Stamp, IInv, StampIsDue
  <2>2. r = tls[t]
    BY <1>1, <2>1, EpochAssumption DEF IInv, TypeOK
  <2> QED
    BY <2>1, <2>2
<1> QED
  BY <1>4, <1>5, <1>6

(* Epochs of one record are at least min_epoch_duration_us apart, whoever  *)
(* asks for them and whatever interrupts whom.                             *)
THEOREM MinApart == Spec => EpochsMinApart
<1>1. Spec => []IInv
  BY InitIInv, Inductive, PTL DEF Spec
<1>2. IInv /\ [Next]_vars
        => [\A r \in thread_list \cap thread_list' :
              age'[r] < age[r] => age[r] >= MinEpoch]_vars
  BY MinApartStep
<1> QED
  BY <1>1, <1>2, PTL DEF Spec, EpochsMinApart

-----------------------------------------------------------------------------
(***************************************************************************)
(* Raised flags are answered.  What a thread needs for that:               *)
(* the records it registers are not the one it runs with, its record is    *)
(* linked until it unregisters, and a record that was flagged before it    *)
(* became the thread's is answered by then or leaves another one in reach. *)
(***************************************************************************)
Separate(t) ==
    /\ reg[t].base # NoRecord => reg[t].base \notin {reg[t].handler, tls[t]}
    /\ reg[t].handler # NoRecord => reg[t].handler # tls[t]
    /\ base[t] = "new" => tls[t] = NoRecord /\ ~InHandler(t)
    /\ At(t) = "clear" => tls[t] # NoRecord

Linked(t) ==
    /\ base[t] \notin {"unlinked", "freed"} /\ tls[t] # NoRecord => tls[t] \in thread_list
    /\ base[t] = "link" => reg[t].base \notin thread_list \cup signaled
    /\ base[t] = "publish" => reg[t].base \in thread_list
    /\ handler[t] = "publish" => reg[t].handler \in thread_list

\* The monitor can still interrupt the thread through r, or is about to.
Reachable(r) == r \in thread_list /\ (r \notin signaled \/ monitor.rec = r)

FlagSeen(t) ==
    base[t] = "publish" /\ reg[t].base \in signaled =>
        \/ t \in pending \/ InHandler(t)
        \/ monitor.at = "kill" /\ monitor.rec = reg[t].base
        \/ Reachable(tls[t])

Raised(t) ==
    Running(t) /\ tls[t] \in signaled \cap thread_list =>
        \/ Answering(t)
        \/ \E r \in RecordsOf(t) \ {tls[t]} : Reachable(r)

FlagInv(t) == Separate(t) /\ Linked(t) /\ FlagSeen(t) /\ Raised(t)

\* The monitor points at a record only while it interrupts its thread.
AtWork == monitor.at \in {"sleep", "scan"} => monitor.rec = NoRecord

FInv == AtWork /\ \A t \in Threads : FlagInv(t)

LEMMA InitFInv == Init => FInv
BY EpochAssumption DEF Init, FInv, AtWork, FlagInv, Separate, Linked, FlagSeen, Raised, Asleep,
   At, InHandler, Running

(* A step that changes nothing of a thread.                                *)
LEMMA Untouched ==
    ASSUME IInv, IInv', NEW t \in Threads, FlagInv(t), monitor' = monitor,
           base'[t] = base[t], handler'[t] = handler[t], reg'[t] = reg[t],
           tls'[t] = tls[t], (t \in pending') <=> (t \in pending),
           \A r \in RecordsOf(t) : /\ (r \in thread_list') <=> (r \in thread_list)
                                   /\ (r \in signaled') <=> (r \in signaled)
    PROVE  FlagInv(t)'
<1>1. NoRecord \notin thread_list \cup signaled \cup thread_list' \cup signaled'
  BY EpochAssumption DEF IInv, TypeOK
<1>2. /\ tls[t] \in RecordsOf(t) \cup {NoRecord}
      /\ reg[t].base \in RecordsOf(t) \cup {NoRecord}
      /\ reg[t].handler \in RecordsOf(t) \cup {NoRecord}
  BY DEF IInv, TypeOK
<1>3. Separate(t)' /\ Linked(t)'
  BY <1>1, <1>2 DEF FlagInv, Separate, Linked, At, InHandler
<1>4. \A r \in RecordsOf(t) \cup {NoRecord} : Reachable(r) <=> Reachable(r)'
  BY <1>1 DEF Reachable
<1>5. FlagSeen(t)'
  BY <1>1, <1>2, <1>4 DEF FlagInv, FlagSeen, InHandler
<1>6. Raised(t)'
  BY <1>1, <1>2, <1>4 DEF FlagInv, Raised, Running, Answering, InHandler
<1> QED
  BY <1>3, <1>5, <1>6 DEF FlagInv

(* A thread only ever changes its own frames, records and signals.         *)
Only(u) ==
    /\ monitor' = monitor
    /\ \A t \in Threads \ {u} :
         /\ base'[t] = base[t] /\ handler'[t] = handler[t]
         /\ reg'[t] = reg[t] /\ tls'[t] = tls[t]
         /\ (t \in pending') <=> (t \in pending)
    /\ \A r \in Records \ RecordsOf(u) :
         /\ (r \in thread_list') <=> (r \in thread_list)
         /\ (r \in signaled') <=> (r \in signaled)

LEMMA OnlyOwn ==
    ASSUME IInv, NEW u \in Threads, Deliver(u) \/ Proceed(u) \/ Application(u)
    PROVE  Only(u)
<1>1. /\ base \in [Threads -> Base] /\ handler \in [Threads -> Handler]
      /\ tls[u] \in RecordsOf(u) \cup {NoRecord} /\ NoRecord \notin Records
      /\ reg[u].base \in RecordsOf(u) \cup {NoRecord}
      /\ reg[u].handler \in RecordsOf(u) \cup {NoRecord}
      /\ tls \in [Threads -> Pointer]
      /\ reg \in [Threads -> [base : Pointer, handler : Pointer]]
      /\ \A s \in Slots : <<u, s>> \in RecordsOf(u)
  BY EpochAssumption DEF IInv, TypeOK, Shape, RecordsOf
<1> USE <1>1 DEF Only, GoTo
<1>2. CASE Deliver(u)
  BY <1>2 DEF Deliver
<1>3. CASE Register(u)
  BY <1>3 DEF Register, Frame
<1>4. CASE Link(u)
  BY <1>4 DEF Link, Frame
<1>5. CASE Publish(u)
  BY <1>5 DEF Publish, Frame
<1>6. CASE Check(u) \/ BlockNewEpoch(u) \/ BeginEpoch(u) \/ LoseThread(u) \/ Stamp(u)
  BY <1>6 DEF Check, BlockNewEpoch, BeginEpoch, LoseThread, Stamp
<1>7. CASE RefuseEpoch(u) \/ EndEpoch(u)
  BY <1>7 DEF RefuseEpoch, EndEpoch, UnblockAndReturn
<1>8. CASE Unlink(u)
  BY <1>8 DEF Unlink
<1>9. CASE Free(u) \/ Forget(u) \/ Exit(u)
  BY <1>9 DEF Free, Forget, Exit
<1>10. CASE Application(u)
  BY <1>10 DEF Application, Create, MutexOp, Finish, Vanish
<1> QED
  BY <1>2, <1>3, <1>4, <1>5, <1>6, <1>7, <1>8, <1>9, <1>10 DEF Proceed

LEMMA OthersKeep ==
    ASSUME IInv, IInv', FInv, NEW u \in Threads, Only(u), FlagInv(u)'
    PROVE  FInv'
<1>1. ASSUME NEW t \in Threads \ {u} PROVE FlagInv(t)'
  <2>1. RecordsOf(t) \subseteq Records \ RecordsOf(u)
    BY DEF RecordsOf, Records
  <2> QED
    BY <2>1, Untouched DEF Only, FInv
<1>2. AtWork'
  BY DEF FInv, AtWork, Only
<1> QED
  BY <1>1, <1>2 DEF FInv

-----------------------------------------------------------------------------
(* The frame moves, an epoch it runs goes on, and no data but ages change. *)
LEMMA OwnFrame ==
    ASSUME IInv, NEW t \in Threads, FlagInv(t),
           MutexOp(t) \/ Check(t) \/ BlockNewEpoch(t) \/ BeginEpoch(t) \/ Stamp(t)
             \/ LoseThread(t) \/ Finish(t) \/ Free(t) \/ Exit(t) \/ Vanish(t)
    PROVE  FlagInv(t)'
<1>1. /\ base \in [Threads -> Base] /\ handler \in [Threads -> Handler]
      /\ UNCHANGED <<reg, tls, pending, thread_list, signaled, monitor>>
  BY DEF IInv, TypeOK, MutexOp, Check, BlockNewEpoch, BeginEpoch, Stamp, LoseThread,
     Finish, Free, Exit, Vanish, GoTo
<1>2. PICK loc : GoTo(t, loc) /\ <<At(t), loc>> \in
        {<<"app", "check">>, <<"check", "enter">>, <<"check", "app">>,
         <<"enter", "recheck">>, <<"recheck", "stamp">>, <<"stamp", "clear">>,
         <<"rejudge", "null">>, <<"app", "unlink">>, <<"unlinked", "freed">>,
         <<"exit", "dead">>, <<"app", "dead">>}
  BY DEF MutexOp, Check, BlockNewEpoch, BeginEpoch, Stamp, LoseThread, Finish, Free, Exit, Vanish
<1>3. /\ IF InHandler(t) THEN handler'[t] = loc /\ base'[t] = base[t]
                         ELSE base'[t] = loc /\ handler'[t] = "none"
  BY <1>1, <1>2 DEF GoTo, InHandler
<1>4. At(t) = "stamp" => tls[t] # NoRecord
  BY EpochAssumption DEF IInv, StampIsDue
<1>5. /\ InHandler(t)' <=> InHandler(t)
      /\ base[t] \in Epoch => base'[t] \in Epoch
      /\ base'[t] \in {"new", "link", "publish"} => base'[t] = base[t]
      /\ handler'[t] = "publish" => handler[t] = "publish"
      /\ base[t] \in {"unlinked", "freed"} => base'[t] \in {"unlinked", "freed"}
      /\ At(t)' = "clear" => tls[t] # NoRecord
      /\ Running(t)' => Running(t)
  BY <1>1, <1>2, <1>3, <1>4 DEF InHandler, At, Base, Handler, Registration, Epoch, Running
<1>6. Separate(t)' /\ Linked(t)'
  BY <1>1, <1>5 DEF FlagInv, Separate, Linked
<1>7. FlagSeen(t)'
  BY <1>1, <1>5 DEF FlagInv, FlagSeen, Reachable
<1>8. Raised(t)'
  BY <1>1, <1>5 DEF FlagInv, Raised, Reachable, Answering
<1> QED
  BY <1>6, <1>7, <1>8 DEF FlagInv

(* A signal is delivered, or a thread is created.                          *)
LEMMA OwnStart ==
    ASSUME IInv, NEW t \in Threads, FlagInv(t), Deliver(t) \/ Create(t)
    PROVE  FlagInv(t)'
<1>1. /\ base \in [Threads -> Base] /\ handler \in [Threads -> Handler]
      /\ NoRecord \notin thread_list
  BY EpochAssumption DEF IInv, TypeOK
<1>2. CASE Deliver(t)
  <2>1. /\ handler'[t] = "recheck" /\ handler[t] = "none"
        /\ UNCHANGED <<base, reg, tls, thread_list, signaled, monitor>>
    BY <1>1, <1>2 DEF Deliver, MayInterrupt, InHandler
  <2>2. base[t] # "new"
    BY <1>2 DEF Deliver, MayInterrupt, Running
  <2> QED
    BY <2>1, <2>2 DEF FlagInv, Separate, Linked, FlagSeen, Raised, Answering, InHandler, At
<1>3. CASE Create(t)
  <2>1. /\ base[t] = "new" /\ base'[t] \in {"start", "app"}
        /\ UNCHANGED <<handler, reg, tls, thread_list, signaled, monitor, pending>>
    BY <1>1, <1>3 DEF Create
  <2>2. tls[t] = NoRecord
    BY <2>1 DEF FlagInv, Separate
  <2> QED
    BY <1>1, <2>1, <2>2 DEF FlagInv, Separate, Linked, FlagSeen, Raised, InHandler, At
<1> QED
  BY <1>2, <1>3

(* An epoch ends and clears the flag of the thread's record; a record that *)
(* the interrupted frame still has to publish leaves this one in reach.    *)
LEMMA OwnEpochEnds ==
    ASSUME IInv, NEW t \in Threads, FlagInv(t), RefuseEpoch(t) \/ EndEpoch(t)
    PROVE  FlagInv(t)'
<1>1. /\ base \in [Threads -> Base] /\ handler \in [Threads -> Handler]
      /\ NoRecord \notin thread_list
  BY EpochAssumption DEF IInv, TypeOK
<1>2. /\ At(t) \in {"recheck", "rejudge", "clear"} /\ tls[t] # NoRecord
      /\ UnblockAndReturn(t)
      /\ signaled' = signaled \ {tls[t]}
      /\ UNCHANGED <<reg, tls, thread_list, monitor>>
  BY DEF RefuseEpoch, EndEpoch, UnblockAndReturn, FlagInv, Separate
<1>3. /\ IF InHandler(t) THEN base'[t] = base[t] ELSE base'[t] = "app"
      /\ handler'[t] \in {"recheck", "none"}
  BY <1>1, <1>2 DEF UnblockAndReturn
<1>4. ~InHandler(t) => base[t] \in {"recheck", "rejudge", "clear"}
  BY <1>2 DEF At
<1>5. Separate(t)' /\ Linked(t)'
  BY <1>2, <1>3, <1>4 DEF FlagInv, Separate, Linked, At, InHandler
<1>6. FlagSeen(t)'
  <2>1. ASSUME base'[t] = "publish" PROVE Reachable(tls[t])'
    BY <1>2, <1>3, <2>1 DEF FlagInv, Linked, Reachable
  <2> QED
    BY <2>1 DEF FlagSeen
<1>7. Raised(t)'
  BY <1>2 DEF Raised
<1> QED
  BY <1>5, <1>6, <1>7 DEF FlagInv

(* A record that is taken to be registered is nobody's and not flagged.    *)
LEMMA OwnRegisters ==
    ASSUME IInv, NEW t \in Threads, FlagInv(t), Register(t)
    PROVE  FlagInv(t)'
<1>1. PICK s \in Slots :
        /\ ~InUse(<<t, s>>)
        /\ reg' = [reg EXCEPT ![t][Frame(t)] = <<t, s>>]
        /\ signaled' = signaled \ {<<t, s>>}
  BY DEF Register
<1> DEFINE q == <<t, s>>
<1>2. /\ base \in [Threads -> Base] /\ handler \in [Threads -> Handler]
      /\ NoRecord \notin thread_list
      /\ q # NoRecord /\ q \notin thread_list
      /\ q \notin {tls[t], reg[t].base, reg[t].handler}
  BY <1>1, EpochAssumption DEF IInv, TypeOK, InUse, Records
<1> HIDE DEF q
<1>3. /\ At(t) = "start" \/ (At(t) \in {"check", "recheck"} /\ tls[t] = NoRecord)
      /\ UNCHANGED <<tls, pending, thread_list, monitor>>
      /\ IF InHandler(t) THEN handler'[t] = "link" /\ base'[t] = base[t]
                         ELSE base'[t] = "link" /\ handler'[t] = handler[t]
  BY <1>2 DEF Register
<1>4. IF InHandler(t) THEN reg'[t].handler = q /\ reg'[t].base = reg[t].base
                      ELSE reg'[t].base = q /\ reg'[t].handler = reg[t].handler
  <2>1. CASE InHandler(t)
    BY <1>1, <2>1 DEF IInv, Shape, Frame, q
  <2>2. CASE ~InHandler(t)
    BY <1>1, <2>2 DEF IInv, Shape, Frame, q
  <2> QED
    BY <2>1, <2>2
<1>5. signaled' = signaled \ {q}
  BY <1>1 DEF q
<1>6. Separate(t)'
  BY <1>2, <1>3, <1>4 DEF FlagInv, Separate, At, InHandler
<1>7. Linked(t)'
  BY <1>2, <1>3, <1>4, <1>5 DEF FlagInv, Linked, At, InHandler
<1>8. FlagSeen(t)'
  BY <1>3 DEF FlagSeen, InHandler
<1>9. Raised(t)'
  <2>1. CASE InHandler(t)
    BY <1>3, <2>1 DEF Raised, Answering, InHandler
  <2>2. CASE ~InHandler(t) /\ tls[t] # NoRecord
    <3>1. base[t] = "start"
      BY <1>3, <2>2 DEF At
    <3> QED
      BY <1>2, <1>3, <1>5, <2>2, <3>1
         DEF FlagInv, Raised, Reachable, Answering, InHandler, Epoch, Running
  <2>3. CASE tls[t] = NoRecord
    BY <1>2, <1>3, <2>3 DEF Raised
  <2> QED
    BY <2>1, <2>2, <2>3
<1> QED
  BY <1>6, <1>7, <1>8, <1>9 DEF FlagInv

(* A record joins the list before it is flagged for the first time.        *)
LEMMA OwnLinks ==
    ASSUME IInv, NEW t \in Threads, FlagInv(t), Link(t)
    PROVE  FlagInv(t)'
<1>1. /\ base \in [Threads -> Base] /\ handler \in [Threads -> Handler]
      /\ At(t) = "link" /\ GoTo(t, "publish")
      /\ thread_list' = thread_list \cup {reg[t][Frame(t)]}
      /\ UNCHANGED <<reg, tls, pending, signaled, monitor>>
  BY DEF IInv, TypeOK, Link, GoTo
<1>2. IF InHandler(t) THEN handler'[t] = "publish" /\ base'[t] = base[t]
                      ELSE base'[t] = "publish" /\ handler'[t] = handler[t]
  BY <1>1 DEF GoTo
<1>3. IF InHandler(t) THEN Frame(t) = "handler" /\ handler[t] = "link"
                      ELSE Frame(t) = "base" /\ base[t] = "link"
  BY <1>1 DEF At, Frame
<1>4. base[t] \in Registration => reg[t].base # NoRecord
  BY DEF IInv, Registering
<1>5. Separate(t)'
  BY <1>1, <1>2 DEF FlagInv, Separate, At, InHandler
<1>6. Linked(t)'
  BY <1>1, <1>2, <1>3, <1>4 DEF FlagInv, Linked, Separate, Registration
<1>7. FlagSeen(t)'
  BY <1>1, <1>2, <1>3 DEF FlagInv, FlagSeen, Linked, InHandler
<1>8. Raised(t)'
  <2>1. CASE InHandler(t)
    BY <1>2, <2>1 DEF Raised, Answering, InHandler
  <2>2. CASE ~InHandler(t)
    <3>1. reg[t].base # tls[t]
      BY <1>3, <1>4, <2>2 DEF FlagInv, Separate, Registration
    <3>2. tls[t] \in thread_list' => tls[t] \in thread_list
      BY <1>1, <1>3, <2>2, <3>1
    <3> QED
      BY <1>1, <1>2, <1>3, <2>2, <3>2
         DEF FlagInv, Raised, Reachable, Answering, InHandler, Epoch, Running
  <2> QED
    BY <2>1, <2>2
<1> QED
  BY <1>5, <1>6, <1>7, <1>8 DEF FlagInv

(* The record that becomes the thread's may already be flagged: then the   *)
(* interrupt is on its way, or the record it replaces is still in reach.   *)
LEMMA OwnPublishes ==
    ASSUME IInv, NEW t \in Threads, FlagInv(t), Publish(t)
    PROVE  FlagInv(t)'
<1>1. /\ base \in [Threads -> Base] /\ handler \in [Threads -> Handler]
      /\ NoRecord \notin thread_list
      /\ At(t) = "publish"
      /\ IF InHandler(t) THEN handler'[t] = "rejudge" /\ base'[t] = base[t]
                         ELSE base'[t] \in {"app", "check"} /\ handler'[t] = handler[t]
      /\ UNCHANGED <<pending, thread_list, signaled, monitor>>
  BY EpochAssumption DEF IInv, TypeOK, Publish
<1>2. IF InHandler(t) THEN handler[t] = "publish" ELSE base[t] = "publish"
  BY <1>1 DEF At
<1>3. IF InHandler(t) THEN /\ reg'[t].handler = NoRecord /\ reg'[t].base = reg[t].base
                           /\ tls'[t] = reg[t].handler
                      ELSE /\ reg'[t].base = NoRecord /\ reg'[t].handler = reg[t].handler
                           /\ tls'[t] = reg[t].base
  <2>1. CASE InHandler(t)
    BY <2>1 DEF IInv, Shape, Publish, Frame
  <2>2. CASE ~InHandler(t)
    BY <2>2 DEF IInv, Shape, Publish, Frame
  <2> QED
    BY <2>1, <2>2
<1>4. /\ base[t] \in Registration => reg[t].base # NoRecord
      /\ handler[t] \in Registration => reg[t].handler # NoRecord
      /\ tls[t] \in RecordsOf(t) \cup {NoRecord}
  BY DEF IInv, Registering, TypeOK
<1>5. Separate(t)'
  BY <1>1, <1>2, <1>3, <1>4 DEF FlagInv, Separate, At, InHandler, Registration
<1>6. Linked(t)'
  BY <1>1, <1>2, <1>3 DEF FlagInv, Linked, InHandler
<1>7. CASE InHandler(t)
  <2>1. FlagSeen(t)' /\ Raised(t)'
    BY <1>1, <1>7 DEF FlagSeen, Raised, Answering, InHandler
  <2> QED
    BY <1>5, <1>6, <2>1 DEF FlagInv
<1>8. CASE ~InHandler(t)
  <2>1. FlagSeen(t)'
    BY <1>1, <1>8 DEF FlagSeen
  <2>2. Raised(t)'
    <3>1. SUFFICES ASSUME tls'[t] \in signaled' \cap thread_list'
                   PROVE  \/ Answering(t)'
                          \/ \E r \in RecordsOf(t) \ {tls'[t]} : Reachable(r)'
      BY DEF Raised
    <3>2. \/ t \in pending
          \/ monitor.at = "kill" /\ monitor.rec = reg[t].base
          \/ Reachable(tls[t])
      BY <1>1, <1>2, <1>3, <1>8, <3>1 DEF FlagInv, FlagSeen
    <3>3. CASE t \in pending
      BY <1>1, <3>3 DEF Answering
    <3>4. CASE monitor.at = "kill" /\ monitor.rec = reg[t].base
      BY <1>1, <1>3, <1>8, <3>4 DEF Answering
    <3>5. CASE Reachable(tls[t])
      <4>1. tls[t] \in RecordsOf(t) \ {tls'[t]}
        BY <1>1, <1>2, <1>3, <1>4, <1>8, <3>5
           DEF Reachable, FlagInv, Separate, Registration
      <4>2. Reachable(tls[t]) => \E r \in RecordsOf(t) \ {tls'[t]} : Reachable(r)'
        BY <1>1, <4>1 DEF Reachable
      <4> QED
        BY <3>5, <4>2
    <3> QED
      BY <3>2, <3>3, <3>4, <3>5
  <2> QED
    BY <1>5, <1>6, <2>1, <2>2 DEF FlagInv
<1> QED
  BY <1>7, <1>8

(* A thread that ends gives up its record, linked or not.                  *)
LEMMA OwnUnregisters ==
    ASSUME IInv, NEW t \in Threads, FlagInv(t), Unlink(t) \/ Forget(t)
    PROVE  FlagInv(t)'
<1>1. /\ base \in [Threads -> Base] /\ handler \in [Threads -> Handler]
      /\ tls \in [Threads -> Pointer] /\ NoRecord \notin thread_list
      /\ UNCHANGED <<reg, pending, signaled, monitor>>
  BY EpochAssumption DEF IInv, TypeOK, Shape, Unlink, Forget, GoTo
<1>2. ~InHandler(t)
  BY <1>1 DEF Unlink, Forget, At, Handler, Registration, Epoch
<1>3. CASE Unlink(t)
  <2>1. /\ base'[t] = "unlinked" /\ handler'[t] = handler[t] /\ tls' = tls
        /\ thread_list' = thread_list \ {tls[t]}
    BY <1>1, <1>2, <1>3 DEF Unlink, GoTo
  <2>2. handler'[t] = "none"
    BY <1>2, <2>1 DEF InHandler
  <2>3. tls[t] \notin thread_list'
    BY <2>1
  <2> QED
    BY <1>1, <2>1, <2>2, <2>3
       DEF FlagInv, Separate, Linked, FlagSeen, Raised, At, InHandler
<1>4. CASE Forget(t)
  <2>1. /\ base'[t] = "exit" /\ handler'[t] = handler[t] /\ tls'[t] = NoRecord
        /\ thread_list' = thread_list
    BY <1>1, <1>2, <1>4 DEF Forget, GoTo
  <2>2. handler'[t] = "none"
    BY <1>2, <2>1 DEF InHandler
  <2> QED
    BY <1>1, <2>1, <2>2
       DEF FlagInv, Separate, Linked, FlagSeen, Raised, At, InHandler
<1> QED
  BY <1>3, <1>4

LEMMA OwnStep ==
    ASSUME IInv, NEW t \in Threads, FlagInv(t), Deliver(t) \/ Proceed(t) \/ Application(t)
    PROVE  FlagInv(t)'
BY OwnFrame, OwnStart, OwnEpochEnds, OwnRegisters, OwnLinks, OwnPublishes, OwnUnregisters
   DEF Proceed, Application

(* The monitor flags a record and points at it until the signal is sent.   *)
LEMMA MonitorFlags ==
    ASSUME IInv, FInv, Monitor
    PROVE  FInv'
<1>1. UNCHANGED <<base, handler, reg, tls, thread_list>>
  BY DEF Monitor, MonitorWakes, MonitorChecks, MonitorInterrupts, MonitorSleeps, frames
<1>2. ASSUME NEW t \in Threads PROVE Separate(t)' /\ FlagInv(t)
  BY <1>1 DEF FInv, FlagInv, Separate, At, InHandler
<1>3. NoRecord \notin thread_list
  BY EpochAssumption DEF IInv, TypeOK
<1>4. CASE MonitorWakes \/ MonitorChecks \/ MonitorSleeps
  <2>1. monitor.rec = NoRecord /\ monitor.at \in {"sleep", "scan"}
    BY <1>4 DEF MonitorWakes, MonitorChecks, MonitorSleeps, FInv, AtWork
  <2>2. UNCHANGED <<pending, signaled>>
    BY <1>4 DEF MonitorWakes, MonitorChecks, MonitorSleeps
  <2>3. AtWork'
    BY <1>4, <2>1 DEF MonitorWakes, MonitorChecks, MonitorSleeps, Asleep, AtWork, IInv, Shape
  <2>4. ASSUME NEW t \in Threads PROVE Linked(t)' /\ FlagSeen(t)' /\ Raised(t)'
    BY <1>1, <1>2, <1>3, <2>1, <2>2
       DEF FlagInv, Linked, FlagSeen, Raised, Reachable, Answering, InHandler, Running
  <2> QED
    BY <1>2, <2>3, <2>4 DEF FInv, FlagInv
<1>5. CASE MonitorInterrupts /\ monitor.at = "flag"
  <2>1. /\ signaled' = signaled \cup {monitor.rec} /\ pending' = pending
        /\ monitor'.at = "kill" /\ monitor'.rec = monitor.rec
        /\ monitor.rec \in thread_list
    BY <1>5 DEF MonitorInterrupts, IInv, Shape, TypeOK
  <2>2. AtWork'
    BY <2>1 DEF AtWork
  <2>3. ASSUME NEW t \in Threads PROVE Linked(t)' /\ FlagSeen(t)' /\ Raised(t)'
    <3>1. Linked(t)'
      BY <1>1, <1>2, <2>1 DEF FlagInv, Linked
    <3>2. \A r : Reachable(r) => Reachable(r)'
      BY <1>1, <2>1 DEF Reachable
    <3>3. FlagSeen(t)'
      BY <1>1, <1>2, <1>5, <2>1, <3>2 DEF FlagInv, FlagSeen, InHandler
    <3>4. Raised(t)'
      BY <1>1, <1>2, <1>5, <2>1, <3>2 DEF FlagInv, Raised, Answering, InHandler, Running
    <3> QED
      BY <3>1, <3>3, <3>4
  <2> QED
    BY <1>2, <2>2, <2>3 DEF FInv, FlagInv
<1>6. CASE MonitorInterrupts /\ monitor.at = "kill"
  <2>1. /\ signaled' = signaled /\ Send(monitor.rec[1])
        /\ monitor'.at = "scan" /\ monitor'.rec = NoRecord
    BY <1>6 DEF MonitorInterrupts, IInv, Shape
  <2>2. AtWork'
    BY <2>1 DEF AtWork
  <2>3. ASSUME NEW t \in Threads PROVE Linked(t)' /\ FlagSeen(t)' /\ Raised(t)'
    <3>1. Linked(t)'
      BY <1>1, <1>2, <2>1 DEF FlagInv, Linked
    <3>2. t \in pending => t \in pending'
      BY <2>1 DEF Send
    <3>3. monitor.rec \in RecordsOf(t) /\ Running(t) => t \in pending'
      BY <2>1 DEF Send, RecordsOf
    <3>4. /\ tls[t] \in RecordsOf(t) \cup {NoRecord}
          /\ reg[t].base \in RecordsOf(t) \cup {NoRecord}
          /\ base[t] = "publish" => reg[t].base # NoRecord /\ Running(t)
      BY DEF IInv, TypeOK, Registering, Registration, Running
    <3>5. \A r \in RecordsOf(t) \cup {NoRecord} :
            Reachable(r) => Reachable(r)' \/ (monitor.rec = r /\ r \in RecordsOf(t))
      BY <1>1, <1>3, <2>1 DEF Reachable
    <3>6. FlagSeen(t)'
      BY <1>1, <1>2, <2>1, <3>2, <3>3, <3>4, <3>5 DEF FlagInv, FlagSeen, InHandler
    <3>7. Raised(t)'
      BY <1>1, <1>2, <1>3, <2>1, <3>2, <3>3, <3>4, <3>5
         DEF FlagInv, Raised, Answering, InHandler, Running
    <3> QED
      BY <3>1, <3>6, <3>7
  <2> QED
    BY <1>2, <2>2, <2>3 DEF FInv, FlagInv
<1> QED
  BY <1>4, <1>5, <1>6 DEF Monitor, MonitorInterrupts

LEMMA FInvInductive ==
    ASSUME IInv, FInv, [Next]_vars
    PROVE  FInv'
<1>1. IInv'
  BY Inductive
<1>2. ASSUME NEW t \in Threads, Deliver(t) \/ Proceed(t) \/ Application(t)
      PROVE  FInv'
  <2>1. Only(t)
    BY <1>2, OnlyOwn
  <2>2. FlagInv(t)
    BY DEF FInv
  <2>3. FlagInv(t)'
    BY <1>2, <2>2, OwnStep
  <2> QED
    BY <1>1, <2>1, <2>3, OthersKeep
<1>3. CASE Tick \/ UNCHANGED vars
  <2>1. UNCHANGED <<base, handler, reg, tls, pending, thread_list, signaled, monitor>>
    BY <1>3 DEF Tick, vars, frames
  <2>2. ASSUME NEW t \in Threads PROVE FlagInv(t)'
    BY <1>1, <2>1, Untouched DEF FInv
  <2> QED
    BY <2>1, <2>2 DEF FInv, AtWork
<1> QED
  BY <1>2, <1>3, MonitorFlags DEF Next

(* A raised flag never stays up without an interrupt on its way, for every *)
(* number of threads and records (model_lat.c:292).                        *)
THEOREM FlagsAnswered == Spec => []RaisedFlagIsAnswered
<1>1. IInv /\ FInv /\ [Next]_vars => FInv' /\ IInv'
  BY Inductive, FInvInductive
<1>2. FInv => RaisedFlagIsAnswered
  BY DEF FInv, FlagInv, Raised, Reachable, RaisedFlagIsAnswered
<1> QED
  BY InitIInv, InitFInv, <1>1, <1>2, PTL DEF Spec
=============================================================================
