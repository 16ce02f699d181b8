----------------------------- MODULE EpochThreads -----------------------------
(***************************************************************************)
(* quartz/src/lib: the threads of an emulated process and the monitor.     *)
(* Each thread registers a record with the thread manager; the monitor     *)
(* sends SIGUSR1 to the threads whose last latency epoch is too old; the   *)
(* handler, and every interposed mutex operation, creates an epoch unless  *)
(* the last one is too recent (thread.c, model_lat.c, interpose.c).        *)
(*                                                                         *)
(* A thread is a stack of at most two frames, the application's and the    *)
(* signal handler's.  Time is the age of each record's last epoch, which   *)
(* stops at MaxEpoch: the code only compares ages with the two durations.  *)
(***************************************************************************)
EXTENDS Naturals

CONSTANTS
    Threads,
    Slots,          \* a thread's records are <<t, s>>, s \in Slots
    MinEpoch,       \* latency.min_epoch_duration_us
    MaxEpoch,       \* latency.max_epoch_duration_us
    StatsEnabled,   \* statistics.enable
    NoRecord        \* the NULL of a thread_t pointer

Records == Threads \X Slots

ASSUME EpochAssumption ==
    /\ MinEpoch \in Nat \ {0} /\ MaxEpoch \in Nat /\ MinEpoch <= MaxEpoch
    /\ StatsEnabled \in BOOLEAN
    /\ NoRecord \notin Records

VARIABLES
    base,           \* where the application's frame of each thread is
    handler,        \* where the handler's frame is, "none" without one
    traced,         \* threads created by the interposed pthread_create
    reg,            \* the record each frame is registering
    tls,            \* tls_thread
    pending,        \* threads with SIGUSR1 sent and not delivered
    thread_list,    \* thread_manager->thread_list
    age,            \* now - last_epoch_timestamp, at most MaxEpoch
    signaled,       \* records whose signaled flag is 1
    monitor         \* what monitor_thread is doing; it holds the mutex unless asleep

frames == <<base, handler, traced, reg>>
vars == <<base, handler, traced, reg, tls, pending, thread_list, age,
          signaled, monitor>>

\* Between block_new_epoch and unblock_new_epoch.
Epoch == {"recheck", "stamp", "clear"}
Registration == {"link", "publish"}
Base == {"new", "start", "app", "check", "enter", "unlink", "unlinked",
         "freed", "exit", "dead"} \cup Registration \cup Epoch
Handler == {"none", "rejudge", "null"} \cup Registration \cup Epoch

Asleep == [at |-> "sleep", todo |-> {}, rec |-> NoRecord]

Init ==
    /\ base = [t \in Threads |-> "new"]
    /\ handler = [t \in Threads |-> "none"]
    /\ traced = {}
    /\ reg = [t \in Threads |-> [base |-> NoRecord, handler |-> NoRecord]]
    /\ tls = [t \in Threads |-> NoRecord]
    /\ pending = {}
    /\ thread_list = {}
    /\ age = [r \in Records |-> 0]
    /\ signaled = {}
    /\ monitor = Asleep

-----------------------------------------------------------------------------
(* Frames *)

Running(t) == base[t] \notin {"new", "dead"}
InHandler(t) == handler[t] # "none"
At(t) == IF InHandler(t) THEN handler[t] ELSE base[t]

GoTo(t, loc) ==
    /\ IF InHandler(t)
       THEN handler' = [handler EXCEPT ![t] = loc] /\ UNCHANGED base
       ELSE base' = [base EXCEPT ![t] = loc] /\ UNCHANGED handler
    /\ UNCHANGED <<traced, reg>>

\* Mutant: an epoch does not block SIGUSR1.
MayInterrupt_InEpoch(t) == Running(t) /\ ~InHandler(t)

\* The handler runs with SIGUSR1 blocked, and so does an epoch.
MayInterrupt(t) == Running(t) /\ ~InHandler(t) /\ base[t] \notin Epoch

Deliver(t) ==
    /\ t \in pending
    /\ MayInterrupt(t)
    /\ pending' = pending \ {t}
    /\ handler' = [handler EXCEPT ![t] = "recheck"]
    /\ UNCHANGED <<base, traced, reg, tls, thread_list, age, signaled, monitor>>

\* unblock_new_epoch, then the return of create_latency_epoch: a signal that
\* waited is delivered before pthread_sigmask returns, in the handler too.
UnblockAndReturn(t) ==
    /\ base' = [base EXCEPT ![t] = IF InHandler(t) THEN @ ELSE "app"]
    /\ handler' = [handler EXCEPT ![t] = IF t \in pending THEN "recheck" ELSE "none"]
    /\ pending' = pending \ {t}
    /\ UNCHANGED <<traced, reg>>

-----------------------------------------------------------------------------
(* Registration *)

\* pthread_create interposed, or a thread the emulator does not see (a JVM's).
Create(t) ==
    /\ base[t] = "new"
    /\ \/ traced' = traced \cup {t} /\ base' = [base EXCEPT ![t] = "start"]
       \/ base' = [base EXCEPT ![t] = "app"] /\ UNCHANGED traced
    /\ UNCHANGED <<handler, reg, tls, pending, thread_list, age, signaled, monitor>>

Frame(t) == IF InHandler(t) THEN "handler" ELSE "base"

InUse(r) == \/ r \in thread_list
            \/ \E t \in Threads : r \in {tls[t], reg[t].base, reg[t].handler}

\* register_self finds no record: register_thread up to the mutex.  Without
\* statistics the timestamp of the last epoch stays 0, the distant past.
Register(t) ==
    /\ \/ At(t) = "start"
       \/ At(t) \in {"check", "recheck"} /\ tls[t] = NoRecord
    /\ \E s \in Slots :
         /\ ~InUse(<<t, s>>)
         /\ reg' = [reg EXCEPT ![t][Frame(t)] = <<t, s>>]
         /\ age' = [age EXCEPT ![<<t, s>>] = IF StatsEnabled THEN 0 ELSE MaxEpoch]
         /\ signaled' = signaled \ {<<t, s>>}
    /\ IF InHandler(t)
       THEN handler' = [handler EXCEPT ![t] = "link"] /\ UNCHANGED base
       ELSE base' = [base EXCEPT ![t] = "link"] /\ UNCHANGED handler
    /\ UNCHANGED <<traced, tls, pending, thread_list, monitor>>

\* The critical section of register_thread.
Link(t) ==
    /\ At(t) = "link"
    /\ monitor.at = "sleep"
    /\ thread_list' = thread_list \cup {reg[t][Frame(t)]}
    /\ GoTo(t, "publish")
    /\ UNCHANGED <<tls, pending, age, signaled, monitor>>

\* tls_thread = thread, then back in whoever called register_self.
Publish(t) ==
    /\ At(t) = "publish"
    /\ tls' = [tls EXCEPT ![t] = reg[t][Frame(t)]]
    /\ reg' = [reg EXCEPT ![t][Frame(t)] = NoRecord]
    /\ IF InHandler(t)
       THEN handler' = [handler EXCEPT ![t] = "rejudge"] /\ UNCHANGED base
       ELSE /\ base' = [base EXCEPT ![t] = IF t \in traced THEN "app" ELSE "check"]
            /\ UNCHANGED handler
    /\ UNCHANGED <<traced, pending, thread_list, age, signaled, monitor>>

-----------------------------------------------------------------------------
(* Epochs *)

\* pthread_mutex_lock, trylock or unlock begins with reached_min_epoch_duration.
MutexOp(t) ==
    /\ At(t) = "app"
    /\ GoTo(t, "check")
    /\ UNCHANGED <<tls, pending, thread_list, age, signaled, monitor>>

ReachedMin(t) == age[tls[t]] >= MinEpoch

\* The test that is made before SIGUSR1 is blocked.
Check(t) ==
    /\ At(t) = "check" /\ tls[t] # NoRecord
    /\ GoTo(t, IF ReachedMin(t) THEN "enter" ELSE "app")
    /\ UNCHANGED <<tls, pending, thread_list, age, signaled, monitor>>

\* create_latency_epoch, called by a mutex operation, blocks SIGUSR1.
BlockNewEpoch(t) ==
    /\ At(t) = "enter"
    /\ GoTo(t, "recheck")
    /\ UNCHANGED <<tls, pending, thread_list, age, signaled, monitor>>

\* Mutant: the test before the block is trusted.
BeginEpoch_Trusting(t) ==
    /\ At(t) = "recheck" /\ tls[t] # NoRecord
    /\ GoTo(t, "stamp")
    /\ UNCHANGED <<tls, pending, thread_list, age, signaled, monitor>>

BeginEpoch(t) ==
    /\ At(t) = "recheck" /\ tls[t] # NoRecord
    /\ ReachedMin(t)
    /\ GoTo(t, "stamp")
    /\ UNCHANGED <<tls, pending, thread_list, age, signaled, monitor>>

\* Mutant: a refused epoch leaves the flag up.
RefuseEpoch_KeepsFlag(t) ==
    /\ At(t) \in {"recheck", "rejudge"} /\ tls[t] # NoRecord
    /\ ~ReachedMin(t)
    /\ UnblockAndReturn(t)
    /\ UNCHANGED <<tls, thread_list, age, signaled, monitor>>

RefuseEpoch(t) ==
    /\ At(t) \in {"recheck", "rejudge"} /\ tls[t] # NoRecord
    /\ ~ReachedMin(t)
    /\ signaled' = signaled \ {tls[t]}
    /\ UnblockAndReturn(t)
    /\ UNCHANGED <<tls, thread_list, age, monitor>>

\* The handler has just registered the thread, and the new record is old enough
\* for an epoch: reached_min_epoch_duration returns 1, and create_latency_epoch
\* goes on with the pointer it read before, which is NULL.  The process dies
\* here; the model only stops this thread.
LoseThread(t) ==
    /\ At(t) = "rejudge"
    /\ ReachedMin(t)
    /\ GoTo(t, "null")
    /\ UNCHANGED <<tls, pending, thread_list, age, signaled, monitor>>

\* The delay has been injected, the timestamp is taken.
Stamp(t) ==
    /\ At(t) = "stamp"
    /\ age' = [age EXCEPT ![tls[t]] = 0]
    /\ GoTo(t, "clear")
    /\ UNCHANGED <<tls, pending, thread_list, signaled, monitor>>

EndEpoch(t) ==
    /\ At(t) = "clear"
    /\ signaled' = signaled \ {tls[t]}
    /\ UnblockAndReturn(t)
    /\ UNCHANGED <<tls, thread_list, age, monitor>>

-----------------------------------------------------------------------------
(* The end of a thread *)

\* The start routine returns and unregister_self waits for the mutex.
Finish(t) ==
    /\ At(t) = "app" /\ t \in traced
    /\ GoTo(t, "unlink")
    /\ UNCHANGED <<tls, pending, thread_list, age, signaled, monitor>>

\* The critical section of unregister_thread.
Unlink(t) ==
    /\ At(t) = "unlink"
    /\ monitor.at = "sleep"
    /\ thread_list' = thread_list \ {tls[t]}
    /\ GoTo(t, "unlinked")
    /\ UNCHANGED <<tls, pending, age, signaled, monitor>>

\* The record is freed unless the statistics need it: tls_thread dangles.
Free(t) ==
    /\ At(t) = "unlinked"
    /\ GoTo(t, "freed")
    /\ UNCHANGED <<tls, pending, thread_list, age, signaled, monitor>>

Forget(t) ==
    /\ At(t) = "freed"
    /\ tls' = [tls EXCEPT ![t] = NoRecord]
    /\ GoTo(t, "exit")
    /\ UNCHANGED <<pending, thread_list, age, signaled, monitor>>

\* A thread that leaves through the kernel first runs its pending handler.
Exit(t) ==
    /\ At(t) = "exit" /\ t \notin pending
    /\ GoTo(t, "dead")
    /\ UNCHANGED <<tls, pending, thread_list, age, signaled, monitor>>

\* pthread_exit, cancellation, or the end of a thread the emulator did not
\* create: nothing unregisters it.
Vanish(t) ==
    /\ At(t) = "app" /\ t \notin pending
    /\ GoTo(t, "dead")
    /\ UNCHANGED <<tls, pending, thread_list, age, signaled, monitor>>

-----------------------------------------------------------------------------
(* The monitor: interrupt_threads, under the mutex *)

MonitorWakes ==
    /\ monitor.at = "sleep"
    /\ monitor' = [at |-> "scan", todo |-> thread_list, rec |-> NoRecord]
    /\ UNCHANGED <<frames, tls, pending, thread_list, age, signaled>>

MonitorChecks ==
    /\ monitor.at = "scan"
    /\ \E r \in monitor.todo :
         monitor' = IF r \notin signaled /\ age[r] >= MaxEpoch
                    THEN [at |-> "flag", todo |-> monitor.todo \ {r}, rec |-> r]
                    ELSE [monitor EXCEPT !.todo = @ \ {r}]
    /\ UNCHANGED <<frames, tls, pending, thread_list, age, signaled>>

Send(t) == pending' = IF Running(t) THEN pending \cup {t} ELSE pending

\* Mutant: the signal is sent before the flag is set.
MonitorInterrupts_FlagLate ==
    /\ \/ /\ monitor.at = "flag"
          /\ Send(monitor.rec[1])
          /\ monitor' = [monitor EXCEPT !.at = "kill"]
          /\ UNCHANGED signaled
       \/ /\ monitor.at = "kill"
          /\ signaled' = signaled \cup {monitor.rec}
          /\ monitor' = [monitor EXCEPT !.at = "scan", !.rec = NoRecord]
          /\ UNCHANGED pending
    /\ UNCHANGED <<frames, tls, thread_list, age>>

\* The flag, then pthread_kill.
MonitorInterrupts ==
    /\ \/ /\ monitor.at = "flag"
          /\ signaled' = signaled \cup {monitor.rec}
          /\ monitor' = [monitor EXCEPT !.at = "kill"]
          /\ UNCHANGED pending
       \/ /\ monitor.at = "kill"
          /\ Send(monitor.rec[1])
          /\ monitor' = [monitor EXCEPT !.at = "scan", !.rec = NoRecord]
          /\ UNCHANGED signaled
    /\ UNCHANGED <<frames, tls, thread_list, age>>

MonitorSleeps ==
    /\ monitor.at = "scan" /\ monitor.todo = {}
    /\ monitor' = Asleep
    /\ UNCHANGED <<frames, tls, pending, thread_list, age, signaled>>

Monitor == MonitorWakes \/ MonitorChecks \/ MonitorInterrupts \/ MonitorSleeps

Tick ==
    /\ \E r \in Records : age[r] < MaxEpoch
    /\ age' = [r \in Records |-> IF age[r] < MaxEpoch THEN age[r] + 1 ELSE MaxEpoch]
    /\ UNCHANGED <<frames, tls, pending, thread_list, signaled, monitor>>

-----------------------------------------------------------------------------

\* What a thread that is scheduled goes on doing by itself.
Proceed(t) ==
    \/ Register(t) \/ Link(t) \/ Publish(t)
    \/ Check(t) \/ BlockNewEpoch(t) \/ BeginEpoch(t) \/ RefuseEpoch(t)
    \/ LoseThread(t) \/ Stamp(t) \/ EndEpoch(t)
    \/ Unlink(t) \/ Free(t) \/ Forget(t) \/ Exit(t)

\* What the application chooses to do.
Application(t) == Create(t) \/ MutexOp(t) \/ Finish(t) \/ Vanish(t)

Next ==
    \/ \E t \in Threads : Deliver(t) \/ Proceed(t) \/ Application(t)
    \/ Monitor
    \/ Tick

\* The scheduler runs every thread, signals are delivered and time passes;
\* nothing makes an application call anything.
Spec ==
    /\ Init /\ [][Next]_vars
    /\ \A t \in Threads : WF_vars(Proceed(t)) /\ WF_vars(Deliver(t))
    /\ WF_vars(Monitor)
    /\ WF_vars(Tick)

-----------------------------------------------------------------------------
(* Properties *)

RecordsOf(t) == {t} \X Slots

\* A thread only ever holds and registers records of its own, the monitor only
\* works on linked ones, and nobody is interrupted inside an epoch.
TypeOK ==
    /\ base \in [Threads -> Base] /\ handler \in [Threads -> Handler]
    /\ traced \subseteq Threads /\ pending \subseteq {t \in Threads : Running(t)}
    /\ \A t \in Threads :
         /\ tls[t] \in RecordsOf(t) \cup {NoRecord}
         /\ reg[t].base \in RecordsOf(t) \cup {NoRecord}
         /\ reg[t].handler \in RecordsOf(t) \cup {NoRecord}
         /\ InHandler(t) => base[t] \notin Epoch
    /\ thread_list \subseteq Records /\ signaled \subseteq Records
    /\ age \in [Records -> 0..MaxEpoch]
    /\ monitor.at \in {"sleep", "scan", "flag", "kill"}
    /\ monitor.todo \subseteq thread_list
    /\ monitor.at \in {"flag", "kill"} => monitor.rec \in thread_list

\* The two tests of create_latency_epoch's callers and the blocking of SIGUSR1
\* together keep epochs at least min_epoch_duration_us apart, whoever asks for
\* them: a mutex operation, the monitor, or one interrupting the other.
EpochsMinApart ==
    [][\A r \in thread_list \cap thread_list' :
         age'[r] < age[r] => age[r] >= MinEpoch]_vars

\* Somebody is still going to clear the flag of the thread's record.
Answering(t) ==
    \/ t \in pending \/ InHandler(t) \/ base[t] \in Epoch
    \/ monitor.at = "kill" /\ monitor.rec = tls[t]

\* "we must make sure race conditions are prevented" (model_lat.c:292): the flag
\* of a thread's record never stays up without an interrupt on its way, which
\* would end its epochs.  The exception is a thread that was interrupted while
\* it was registering: it has a second record, through which the monitor still
\* reaches it.
RaisedFlagIsAnswered ==
    \A t \in Threads :
        Running(t) /\ tls[t] \in signaled \cap thread_list =>
            \/ Answering(t)
            \/ \E r \in RecordsOf(t) \ {tls[t]} :
                 r \in thread_list /\ (r \notin signaled \/ monitor.rec = r)

\* "must always be thread_self" (model_lat.c:195): an epoch is created with the
\* record of the thread it runs on.
EpochHasThread == \A t \in Threads : handler[t] # "null"

\* max_epoch_duration_us: unless the process has died of a NULL thread, a
\* registered thread gets epochs for as long as it runs, even when it never
\* calls a mutex operation and even when it was interrupted while it was
\* registering.
EpochsKeepComing ==
    \A t \in Threads :
        <>[](EpochHasThread /\ Running(t) /\ tls[t] \in thread_list)
            => []<>(tls[t] \in Records /\ age[tls[t]] < MaxEpoch)
=============================================================================
