------------------------------ MODULE Threads ------------------------------
(***************************************************************************)
(* Kernel threads, the round-robin scheduler and the synchronization       *)
(* primitives built on it: threads/thread.c and threads/synch.c.           *)
(*                                                                         *)
(* One CPU.  A region that runs with interrupts off is one step; between   *)
(* two steps an interrupt may be taken.  Every thread executes the list of *)
(* operations code[t], one operation per step; a thread whose list is      *)
(* empty is in its own function and calls whatever it likes, within the    *)
(* preconditions the callee asserts.  A failed ASSERT panics the kernel,   *)
(* so an asserted condition is a guard here.                               *)
(***************************************************************************)
EXTENDS Naturals, Sequences, FiniteSets, SequencesExt

CONSTANTS
    Worker,     \* threads that thread_create() makes; a struct thread is one life
    Main,       \* initial_thread, which runs main()
    Idle,       \* the thread that runs idle()
    Semas,      \* semaphores used directly, also from interrupt handlers
    Locks,      \* locks, each standing for its own semaphore as well
    TidLock,    \* the lock of allocate_tid()
    Conds,      \* condition variables
    CondLock,   \* the one lock each condition variable is used with
    TIME_SLICE, \* timer ticks a thread may run before it is preempted
    MaxValue,   \* bound on the value of the members of Semas
    NULL

Thread == Worker \cup {Main, Idle}

(* Semaphores inside other objects: info->exec_sema and info->wait_sema of *)
(* a thread, the semaphore of the semaphore_elem a thread puts on its      *)
(* stack in cond_wait(), and idle_started of thread_start().               *)
Inner == {"exec_sema", "wait_sema", "waiter", "idle_started"} \X Thread
Sema == Semas \cup Locks \cup Inner

ASSUME ThreadsAssumption ==
    /\ Main # Idle /\ Main \notin Worker /\ Idle \notin Worker
    /\ NULL \notin Thread
    /\ Semas \cap Locks = {} /\ (Semas \cup Locks) \cap Inner = {}
    /\ TidLock \in Locks
    /\ CondLock \in [Conds -> Locks]
    /\ TIME_SLICE \in Nat \ {0}
    /\ MaxValue \in Nat
    /\ IsFiniteSet(Worker)

VARIABLES
    cpu,          \* the running thread
    status,       \* t->status; NONE before thread_create, FREED after palloc_free
    ready_list,
    idle_thread,
    thread_ticks, \* ticks since the last switch
    value,        \* sema->value
    waiters,      \* sema->waiters
    holder,       \* lock->holder
    cond_waiters, \* cond->waiters, each waiter named by its thread
    code,         \* what is left of the kernel calls the thread is in
    tid,          \* t->tid, 0 until allocate_tid() has read next_tid
    next_tid

sched == <<cpu, status, ready_list, thread_ticks>>
sync == <<value, waiters, holder, cond_waiters>>
tids == <<tid, next_tid>>
vars == <<sched, idle_thread, sync, code, tids>>

-----------------------------------------------------------------------------
(* The operations of a kernel call.                                        *)

Down(s) == <<"down", s>>           \* sema_down(), interrupts still on
Wait(s) == <<"wait", s>>           \* in its loop, just after thread_block()
Up(s) == <<"up", s>>               \* sema_up()
Hold(l) == <<"hold", l>>           \* lock->holder = thread_current ()
Drop(l) == <<"drop", l>>           \* lock->holder = NULL
Push(c) == <<"push", c>>           \* cond_wait() enters cond->waiters
Signal(c) == <<"signal", c>>       \* cond_signal()
Broadcast(c) == <<"broadcast", c>> \* the loop of cond_broadcast()
ReadTid(t) == <<"read_tid", t>>    \* tid = next_tid ...
WriteTid(t) == <<"write_tid", t>>  \* ... ++
Unblock(t) == <<"unblock", t>>     \* thread_unblock() of a new thread
Start == <<"start", Idle>>         \* thread_start() creates the idle thread
SetIdle == <<"set_idle", Idle>>    \* idle_thread = thread_current ()
Block == <<"block", Idle>>         \* idle(): intr_disable (); thread_block ()
Hlt == <<"hlt", Idle>>             \* idle(): sti; hlt
Fault == <<"fault", Main>>         \* in page_fault(), entered from kernel code
Panic == <<"panic", Main>>         \* the endless loop of debug_panic()

lock_acquire(l) == <<Down(l), Hold(l)>>
lock_release_UpFirst(l) == <<Up(l), Drop(l)>>
lock_release(l) == <<Drop(l), Up(l)>>
cond_wait_ReleaseFirst(c, t) ==
    lock_release(CondLock[c]) \o <<Push(c), Down(<<"waiter", t>>)>>
      \o lock_acquire(CondLock[c])
cond_wait(c, t) ==
    <<Push(c)>> \o lock_release(CondLock[c]) \o <<Down(<<"waiter", t>>)>>
      \o lock_acquire(CondLock[c])
allocate_tid_Unlocked(t) == <<ReadTid(t), WriteTid(t)>>
allocate_tid(t) ==
    lock_acquire(TidLock) \o <<ReadTid(t), WriteTid(t)>> \o lock_release(TidLock)
thread_create(t) == allocate_tid(t) \o <<Unblock(t)>>
thread_start == <<Start, Down(<<"idle_started", Idle>>)>>
idle == <<SetIdle, Up(<<"idle_started", Idle>>), Block, Hlt>>
thread_exit_main == <<Fault, Panic>>

At(t, op) == code[t] # <<>> /\ code[t][1] = op
Doing(name) == code[cpu] # <<>> /\ code[cpu][1][1] = name
Obj == code[cpu][1][2]
Advance == code' = [code EXCEPT ![cpu] = Tail(@)]
Call(ops) == code[cpu] = <<>> /\ code' = [code EXCEPT ![cpu] = ops]

-----------------------------------------------------------------------------
(* The scheduler.                                                          *)

next_thread_to_run(ready) == IF ready = <<>> THEN idle_thread ELSE Head(ready)

(* schedule() and schedule_tail(): the running thread has got the status   *)
(* st[cpu], the ready list is ready.  A dying thread other than            *)
(* initial_thread is freed once the switch is done.                        *)
schedule(st, ready) ==
    LET next == next_thread_to_run(ready)
        left == IF st[cpu] = "DYING" /\ cpu # Main THEN "FREED" ELSE st[cpu]
    IN  /\ cpu' = next
        /\ ready_list' = IF ready = <<>> THEN <<>> ELSE Tail(ready)
        /\ status' = [st EXCEPT ![cpu] = left, ![next] = "RUNNING"]
        /\ thread_ticks' = 0

thread_block == schedule([status EXCEPT ![cpu] = "BLOCKED"], ready_list)

thread_yield ==
    schedule([status EXCEPT ![cpu] = "READY"],
             IF cpu # idle_thread THEN Append(ready_list, cpu) ELSE ready_list)

(* What sema_up() takes off the waiters of s and hands to thread_unblock(). *)
First_Lost(s) == <<>>
First(s) == IF waiters[s] = <<>> THEN <<>> ELSE <<Head(waiters[s])>>
Rest_Kept(s) == waiters[s]
Rest(s) == IF waiters[s] = <<>> THEN <<>> ELSE Tail(waiters[s])
Woken(st, s) == IF waiters[s] = <<>> THEN st ELSE [st EXCEPT ![Head(waiters[s])] = "READY"]

sema_up_WakeFromZero(s) ==
    /\ value' = [value EXCEPT ![s] = @ + 1]
    /\ waiters' = [waiters EXCEPT ![s] = IF value[s] = 0 THEN Rest(s) ELSE @]
    /\ ready_list' = IF value[s] = 0 THEN ready_list \o First(s) ELSE ready_list
    /\ status' = IF value[s] = 0 THEN Woken(status, s) ELSE status
    /\ UNCHANGED <<cpu, thread_ticks, holder, cond_waiters>>

sema_up_Front(s) ==
    /\ value' = [value EXCEPT ![s] = @ + 1]
    /\ waiters' = [waiters EXCEPT ![s] = Rest(s)]
    /\ ready_list' = First(s) \o ready_list
    /\ status' = Woken(status, s)
    /\ UNCHANGED <<cpu, thread_ticks, holder, cond_waiters>>

sema_up(s) ==
    /\ value' = [value EXCEPT ![s] = @ + 1]
    /\ waiters' = [waiters EXCEPT ![s] = Rest(s)]
    /\ ready_list' = ready_list \o First(s)
    /\ status' = Woken(status, s)
    /\ UNCHANGED <<cpu, thread_ticks, holder, cond_waiters>>

-----------------------------------------------------------------------------
(* The steps of the thread on the CPU.                                     *)

(* sema_down(): with interrupts off, either take the semaphore or join its *)
(* waiters and block; a woken thread comes back here and tests again.      *)
SemaDown ==
    /\ Doing("down") \/ Doing("wait")
    /\ IF value[Obj] = 0
       THEN /\ waiters' = [waiters EXCEPT ![Obj] = Append(@, cpu)]
            /\ code' = [code EXCEPT ![cpu] = <<Wait(Obj)>> \o Tail(@)]
            /\ thread_block
            /\ UNCHANGED value
       ELSE /\ value' = [value EXCEPT ![Obj] = @ - 1]
            /\ Advance
            /\ UNCHANGED <<sched, waiters>>
    /\ UNCHANGED <<holder, cond_waiters, idle_thread, tids>>

SemaUp ==
    /\ Doing("up")
    /\ sema_up(Obj)
    /\ Advance
    /\ UNCHANGED <<idle_thread, tids>>

LockHold ==
    /\ Doing("hold")
    /\ holder' = [holder EXCEPT ![Obj] = cpu]
    /\ Advance
    /\ UNCHANGED <<sched, value, waiters, cond_waiters, idle_thread, tids>>

LockDrop ==
    /\ Doing("drop") /\ holder[Obj] = cpu
    /\ holder' = [holder EXCEPT ![Obj] = NULL]
    /\ Advance
    /\ UNCHANGED <<sched, value, waiters, cond_waiters, idle_thread, tids>>

CondPush ==
    /\ Doing("push")
    /\ value' = [value EXCEPT ![<<"waiter", cpu>>] = 0]
    /\ cond_waiters' = [cond_waiters EXCEPT ![Obj] = Append(@, cpu)]
    /\ Advance
    /\ UNCHANGED <<sched, waiters, holder, idle_thread, tids>>

(* cond_signal(): pop the first waiter, whose semaphore is then upped.     *)
CondSignal ==
    /\ Doing("signal") /\ holder[CondLock[Obj]] = cpu
    /\ IF cond_waiters[Obj] = <<>>
       THEN Advance /\ UNCHANGED cond_waiters
       ELSE /\ code' = [code EXCEPT ![cpu] =
                          <<Up(<<"waiter", Head(cond_waiters[Obj])>>)>> \o Tail(@)]
            /\ cond_waiters' = [cond_waiters EXCEPT ![Obj] = Tail(@)]
    /\ UNCHANGED <<sched, value, waiters, holder, idle_thread, tids>>

CondBroadcast ==
    /\ Doing("broadcast")
    /\ IF cond_waiters[Obj] = <<>> THEN Advance
       ELSE code' = [code EXCEPT ![cpu] = <<Signal(Obj)>> \o @]
    /\ UNCHANGED <<sched, sync, idle_thread, tids>>

TidRead ==
    /\ Doing("read_tid")
    /\ tid' = [tid EXCEPT ![Obj] = next_tid]
    /\ Advance
    /\ UNCHANGED <<sched, sync, idle_thread, next_tid>>

TidWrite ==
    /\ Doing("write_tid")
    /\ next_tid' = tid[Obj] + 1
    /\ Advance
    /\ UNCHANGED <<sched, sync, idle_thread, tid>>

ThreadUnblock ==
    /\ Doing("unblock") /\ status[Obj] = "BLOCKED"
    /\ ready_list' = Append(ready_list, Obj)
    /\ status' = [status EXCEPT ![Obj] = "READY"]
    /\ Advance
    /\ UNCHANGED <<cpu, thread_ticks, sync, idle_thread, tids>>

(* thread_start(): thread_create() of the idle thread, then intr_enable(). *)
ThreadStart ==
    /\ Doing("start")
    /\ ready_list' = Append(ready_list, Idle)
    /\ status' = [status EXCEPT ![Idle] = "READY"]
    /\ tid' = [tid EXCEPT ![Idle] = next_tid]
    /\ next_tid' = next_tid + 1
    /\ Advance
    /\ UNCHANGED <<cpu, thread_ticks, sync, idle_thread>>

IdleSet ==
    /\ Doing("set_idle")
    /\ idle_thread' = cpu
    /\ Advance
    /\ UNCHANGED <<sched, sync, tids>>

IdleBlock ==
    /\ Doing("block")
    /\ thread_block
    /\ Advance
    /\ UNCHANGED <<sync, idle_thread, tids>>

(* page_fault() has enabled interrupts.  It looks the null address up in a *)
(* table that initial_thread does not have, and faults again until a check *)
(* fails and panics the kernel.                                            *)
KernelFault ==
    /\ Doing("fault")
    /\ Advance
    /\ UNCHANGED <<sched, sync, idle_thread, tids>>

-----------------------------------------------------------------------------
(* Calls made by a thread's own function.                                  *)

CallSync ==
    /\ \/ \E s \in Semas : Call(<<Down(s)>>)
       \/ \E t \in Worker \ {cpu}, sema \in {"exec_sema", "wait_sema"} :
             tid[t] # 0 /\ Call(<<Down(<<sema, t>>)>>)
       \/ \E s \in Semas : value[s] < MaxValue /\ Call(<<Up(s)>>)
       \/ \E l \in Locks \ {TidLock} :
             \/ holder[l] # cpu /\ Call(lock_acquire(l))
             \/ holder[l] = cpu /\ Call(lock_release(l))
       \/ \E c \in Conds :
             \/ holder[CondLock[c]] = cpu /\ Call(cond_wait(c, cpu))
             \/ holder[CondLock[c]] = cpu /\ Call(<<Signal(c)>>)
             \/ holder[CondLock[c]] = cpu /\ Call(<<Broadcast(c)>>)
    /\ UNCHANGED <<sched, sync, idle_thread, tids>>

(* sema_try_down() and lock_try_acquire(), when they succeed; when they    *)
(* fail they change nothing.                                               *)
TryDown(s, ops) ==
    /\ value[s] > 0
    /\ value' = [value EXCEPT ![s] = @ - 1]
    /\ Call(ops)
    /\ UNCHANGED <<sched, waiters, holder, cond_waiters, idle_thread, tids>>

CallTry ==
    \/ \E s \in Semas : TryDown(s, <<>>)
    \/ \E l \in Locks \ {TidLock} : holder[l] # cpu /\ TryDown(l, <<Hold(l)>>)

(* thread_create(): palloc_get_page() and init_thread(), then the rest.    *)
CallCreate ==
    \E t \in Worker :
      /\ status[t] = "NONE"
      /\ status' = [status EXCEPT ![t] = "BLOCKED"]
      /\ Call(thread_create(t))
      /\ UNCHANGED <<cpu, ready_list, thread_ticks, sync, idle_thread, tids>>

CallYield ==
    /\ code[cpu] = <<>>
    /\ thread_yield
    /\ UNCHANGED <<sync, idle_thread, code, tids>>

(* thread_exit() after process_exit(), with interrupts off: up exec_sema   *)
(* and wait_sema, become DYING, schedule.  Only thread_create() sets info. *)
CallExit ==
    LET e == <<"exec_sema", cpu>>
        w == <<"wait_sema", cpu>>
    IN  /\ code[cpu] = <<>> /\ cpu # Main
        /\ value' = [value EXCEPT ![e] = @ + 1, ![w] = @ + 1]
        /\ waiters' = [waiters EXCEPT ![e] = Rest(e), ![w] = Rest(w)]
        /\ schedule([Woken(Woken(status, e), w) EXCEPT ![cpu] = "DYING"],
                    ready_list \o First(e) \o First(w))
        /\ UNCHANGED <<holder, cond_waiters, idle_thread, code, tids>>

(* main() without the option -q ends in thread_exit() too.  initial_thread *)
(* has no info, so the first of the two sema_up() calls faults.            *)
CallExitMain ==
    /\ cpu = Main
    /\ Call(thread_exit_main)
    /\ UNCHANGED <<sched, sync, idle_thread, tids>>

-----------------------------------------------------------------------------
(* External interrupts, taken only while interrupts are on: they are off   *)
(* in main() before thread_start(), in the loop of sema_down() and after a *)
(* panic.  An interrupt ends the hlt of the idle thread, which then loops. *)

IntrOn == ~Doing("wait") /\ ~Doing("start") /\ ~Doing("panic")

EndHlt_Never == code' = code
EndHlt == code' = IF Doing("hlt") THEN [code EXCEPT ![cpu] = <<Block, Hlt>>] ELSE code

TimerInterrupt_LateByOne ==
    /\ IntrOn
    /\ IF thread_ticks + 1 > TIME_SLICE THEN thread_yield
       ELSE thread_ticks' = thread_ticks + 1 /\ UNCHANGED <<cpu, status, ready_list>>
    /\ EndHlt
    /\ UNCHANGED <<sync, idle_thread, tids>>

TimerInterrupt_NoYield ==
    /\ IntrOn
    /\ thread_ticks' = (thread_ticks + 1) % TIME_SLICE
    /\ UNCHANGED <<cpu, status, ready_list>>
    /\ EndHlt
    /\ UNCHANGED <<sync, idle_thread, tids>>

(* timer_interrupt() and thread_tick(); the yield is on interrupt return.  *)
TimerInterrupt ==
    /\ IntrOn
    /\ IF thread_ticks + 1 >= TIME_SLICE THEN thread_yield
       ELSE thread_ticks' = thread_ticks + 1 /\ UNCHANGED <<cpu, status, ready_list>>
    /\ EndHlt
    /\ UNCHANGED <<sync, idle_thread, tids>>

(* A device's handler ups a semaphore, as the disk driver's does.          *)
DeviceInterrupt ==
    /\ IntrOn
    /\ \E s \in Semas : value[s] < MaxValue /\ sema_up(s)
    /\ EndHlt
    /\ UNCHANGED <<idle_thread, tids>>

(* debug_panic() spins with interrupts off: nothing changes any more.      *)
Panicked == Doing("panic")
Spin == Panicked /\ UNCHANGED vars

-----------------------------------------------------------------------------
(* thread_init() has made the running code initial_thread, with tid 1.     *)
Init ==
    /\ cpu = Main
    /\ status = [t \in Thread |-> IF t = Main THEN "RUNNING" ELSE "NONE"]
    /\ ready_list = <<>>
    /\ idle_thread = NULL
    /\ thread_ticks = 0
    /\ value = [s \in Sema |-> IF s \in Locks THEN 1 ELSE 0]
    /\ waiters = [s \in Sema |-> <<>>]
    /\ holder = [l \in Locks |-> NULL]
    /\ cond_waiters = [c \in Conds |-> <<>>]
    /\ code = [t \in Thread |-> IF t = Main THEN thread_start
                                ELSE IF t = Idle THEN idle ELSE <<>>]
    /\ tid = [t \in Thread |-> IF t = Main THEN 1 ELSE 0]
    /\ next_tid = 2

ThreadStep ==
    \/ SemaDown \/ SemaUp \/ LockHold \/ LockDrop
    \/ CondPush \/ CondSignal \/ CondBroadcast
    \/ TidRead \/ TidWrite \/ ThreadUnblock
    \/ ThreadStart \/ IdleSet \/ IdleBlock \/ KernelFault

ThreadCall ==
    \/ CallSync \/ CallTry \/ CallCreate \/ CallYield \/ CallExit \/ CallExitMain

Next == ThreadStep \/ ThreadCall \/ TimerInterrupt \/ DeviceInterrupt \/ Spin

Spec == Init /\ [][Next]_vars

(* The CPU goes on executing the thread it runs, and the timer ticks.      *)
(* Nothing obliges a thread's own function to call the kernel, or a device *)
(* to interrupt.                                                           *)
FairSpec == Spec /\ WF_vars(ThreadStep) /\ WF_vars(TimerInterrupt)

-----------------------------------------------------------------------------
(* Properties.                                                             *)

Status == {"NONE", "RUNNING", "READY", "BLOCKED", "DYING", "FREED"}
Op == {Start, SetIdle, Block, Hlt, Fault, Panic}
      \cup ({"down", "wait", "up"} \X Sema) \cup ({"hold", "drop"} \X Locks)
      \cup ({"push", "signal", "broadcast"} \X Conds)
      \cup ({"read_tid", "write_tid", "unblock"} \X Worker)

(* Type invariant.  That cpu is a thread says that next_thread_to_run()    *)
(* never returns a null idle_thread, which schedule() asserts, and that    *)
(* thread_ticks stays below TIME_SLICE that no thread outruns its slice.   *)
TypeOK ==
    /\ cpu \in Thread
    /\ status \in [Thread -> Status]
    /\ ready_list \in Seq(Thread)
    /\ idle_thread \in {Idle, NULL}
    /\ thread_ticks \in 0 .. TIME_SLICE - 1
    /\ value \in [Sema -> Nat]
    /\ waiters \in [Sema -> Seq(Thread)]
    /\ holder \in [Locks -> Thread \cup {NULL}]
    /\ cond_waiters \in [Conds -> Seq(Thread)]
    /\ code \in [Thread -> Seq(Op)]
    /\ tid \in [Thread -> Nat]
    /\ next_tid \in Nat

(* struct thread has one list element for the ready list and for the       *)
(* waiters of a semaphore: a thread is on at most one of those lists, once, *)
(* in the state that goes with it, so thread_unblock() never finds a       *)
(* thread that is not blocked; exactly the thread on the CPU is RUNNING.   *)
ElemInv ==
    /\ IsInjective(ready_list)
    /\ \A t \in ToSet(ready_list) : status[t] = "READY"
    /\ \A s \in Sema :
          /\ IsInjective(waiters[s])
          /\ \A t \in ToSet(waiters[s]) : status[t] = "BLOCKED" /\ At(t, Wait(s))
    /\ \A t \in Thread : status[t] = "RUNNING" <=> t = cpu

(* No thread is forgotten: a READY thread is on the ready list unless it   *)
(* is the idle thread, and a BLOCKED one waits on a semaphore, is the idle *)
(* thread, or is being created.                                            *)
NobodyForgotten ==
    \A t \in Thread :
      /\ status[t] = "READY" => t \in ToSet(ready_list) \/ t = idle_thread
      /\ status[t] = "BLOCKED" =>
            \/ \E s \in Sema : t \in ToSet(waiters[s])
            \/ t = idle_thread
            \/ \E u \in Thread : Unblock(t) \in ToSet(code[u])

(* Threads that sema_up(s) has unblocked and that have not tested s again. *)
InFlight(s) == {t \in Thread : At(t, Wait(s)) /\ status[t] \in {"READY", "RUNNING"}}

(* No lost wake-up: while threads still wait on a semaphore, every unit of *)
(* its value is matched by a thread on its way to take it.  sema_up() wakes *)
(* before it increments and a running thread may take the unit first.      *)
NoLostWakeup ==
    \A s \in Sema : waiters[s] # <<>> => value[s] <= Cardinality(InFlight(s))

(* The threads between the sema_down() of lock_acquire(l) and the end of   *)
(* lock_release(l), which holder alone does not show.                      *)
Owners(l) == {t \in Thread : holder[l] = t \/ At(t, Hold(l)) \/ At(t, Up(l))}

(* A lock is owned by at most one thread, and is free exactly when its     *)
(* semaphore is 1: preemption between sema_down() and the assignment of    *)
(* holder, or between holder = NULL and sema_up(), lets nobody else in.    *)
MutualExclusion ==
    \A l \in Locks :
      /\ \A t, u \in Owners(l) : t = u
      /\ value[l] = IF Owners(l) = {} THEN 1 ELSE 0

(* Where the waiter of a thread in cond_wait() is: on the condition's list, *)
(* popped by a thread about to up it, or upped.                            *)
Queued(t) == \E c \in Conds : t \in ToSet(cond_waiters[c])
Signalled(t) == \E u \in Thread : At(u, Up(<<"waiter", t>>))
Places(t) == {p \in {"queued", "signalled", "upped"} :
                \/ p = "queued" /\ Queued(t)
                \/ p = "signalled" /\ Signalled(t)
                \/ p = "upped" /\ value[<<"waiter", t>>] = 1}
Waiting(t) ==
    /\ \E i \in DOMAIN code[t] : code[t][i] \in {Down(<<"waiter", t>>), Wait(<<"waiter", t>>)}
    /\ \A c \in Conds : ~At(t, Push(c))

(* A thread that has pushed its waiter in cond_wait() and has not got past *)
(* it is in exactly one place, so a signal sent between its lock_release() *)
(* and its sema_down() is not lost; any other thread is in none, so nobody *)
(* ups a semaphore on a stack frame that cond_wait() has left.             *)
CondNoLostSignal ==
    \A t \in Thread :
      /\ value[<<"waiter", t>>] <= 1
      /\ Cardinality(Places(t)) = IF Waiting(t) THEN 1 ELSE 0

(* No two threads get the same tid, although allocate_tid() reads and      *)
(* writes next_tid in two steps.                                           *)
UniqueTids == \A t, u \in Thread : tid[t] = tid[u] /\ tid[t] # 0 => t = u

(* The CPU halts only when there is nothing to run, and once it has        *)
(* introduced itself the idle thread is never on the ready list.           *)
IdleOnlyWhenNothingToRun ==
    /\ Doing("hlt") => ready_list = <<>>
    /\ idle_thread \in Thread => idle_thread \notin ToSet(ready_list)

(* Round robin: threads leave the ready list only at its head, only to be  *)
(* run, and join it only at its tail, so nobody is overtaken.              *)
RoundRobin ==
    [][LET n == Len(ready_list)
           gone == IF cpu' # cpu /\ n > 0 THEN 1 ELSE 0
       IN  /\ IsPrefix(SubSeq(ready_list, gone + 1, n), ready_list')
           /\ gone = 1 => cpu' = Head(ready_list)]_sched

(* A thread on the ready list gets the CPU, whatever the others do: the    *)
(* timer preempts the running thread every TIME_SLICE ticks.  Only a panic *)
(* of the kernel keeps it waiting.                                         *)
ReadyRuns ==
    \A t \in Thread \ {Idle} :
      status[t] = "READY" ~> status[t] = "RUNNING" \/ Panicked

(* What the comment on thread_exit() says, "Deschedules the current thread *)
(* and destroys it": a thread that has not finished its thread_exit() when *)
(* an interrupt may come goes on to die.                                   *)
ExitDestroys == \A t \in Thread : At(t, Fault) ~> status[t] = "DYING"
=============================================================================
