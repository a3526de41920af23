# A TLA+ model of the Pintos kernel

This directory models the kernel under `src/src/`: a Pintos instructional kernel
with user programs (project 2) and virtual memory (project 3). It holds TLA+
modules translated from the C code, TLC configurations that check them on small
instances, and theorems about them whose proofs TLAPS checks.

## The system

One 80x86 CPU, external interrupts, no kernel preemption other than by interrupt.

| Part | Source | State | Operations that change it |
|---|---|---|---|
| scheduler | `threads/thread.c`, `interrupt.c` | ready list, status of each thread, `idle_thread`, `thread_ticks`, tids | create, block, unblock, yield, exit, timer tick, idle loop, boot |
| synchronization | `threads/synch.c` | semaphore values and waiters, lock holders, condition waiters | sema down / try / up, lock acquire / try / release, cond wait / signal / broadcast |
| process life cycle | `userprog/process.c`, `syscall.c`, `exception.c` | `thread_info` of each child, `child_info_list` of each parent | exec, load, wait, exit, kill |
| file system calls | `userprog/syscall.c` | file lists, fds, the global `lock` | create, remove, open, close, read, write, seek, tell, filesize |
| virtual memory | `vm/frame.c`, `swap.c`, `page.c`, `userprog/exception.c`, `pagedir.c` | frame table, swap table, supplemental page tables, page directories | page fault, stack growth, eviction, swap in / out, mmap, munmap, exit |
| allocators | `threads/palloc.c`, `malloc.c` | page bitmaps, arenas, free lists | get / free pages, malloc, calloc, realloc, free |
| file system | `filesys/*.c` | inodes in memory, open files, directory, free map | create, open, reopen, close, remove, read, write, deny / allow write |
| character devices | `devices/intq.c`, `input.c`, `serial.c`, `kbd.c`, `lib/kernel/console.c` | circular queues, interrupt enable register, shift state, console lock | put, get, interrupts, flush |
| disk driver | `devices/disk.c` | channel lock, completion semaphore | read, write, reset, interrupt |
| timer | `devices/timer.c` | `ticks` | tick, sleep, calibrate |
| libraries | `lib/kernel/{list,hash,bitmap}.c`, `lib/*.c` | none of their own | pure algorithms |

Everything above the scheduler synchronizes through `synch.c`, and nothing there
is correct unless the scheduler is. So the first module is `Threads`; the others
take semaphores and locks as atomic, which `Threads` justifies. `Process` is the
protocol by which a parent and a child in two threads agree on loading, waiting
and dying.

`PROJECT.json` lists every part with its status, the lines each definition
models, and the hazards: places where a schedule nobody tested, a full resource
or a failed step could break the code.

## Modules

| Module | Models |
|---|---|
| `Threads` | scheduler and synchronization primitives |
| `MCThreads` | small instances of `Threads` |
| `Process` | user processes and their `thread_info` |
| `MCProcess` | small instances of `Process` |
| `ListLemmas` | facts about sequences used in the proofs |
| `ThreadsCode` | lemmas about the operation lists of `Threads` |
| `ThreadsTypes` | type correctness of `Threads` |
| `ThreadsLocks` | mutual exclusion of locks |

### Threads

The variables are those of the code: `cpu` is the running thread, `status`,
`ready_list`, `idle_thread`, `thread_ticks`, a semaphore's `value` and `waiters`,
a lock's `holder`, a condition's `cond_waiters`, `tid` and `next_tid`. The lock
and its semaphore share a name. The semaphores inside other objects
(`exec_sema`, `wait_sema`, the stack-allocated waiter of `cond_wait()`,
`idle_started`) are pairs of a name and a thread.

What runs with interrupts off is one step. A kernel function that is not atomic
is a list of operations: `lock_acquire(l)` is `<<Down(l), Hold(l)>>`,
`lock_release(l)` is `<<Drop(l), Up(l)>>`, `cond_wait` and `allocate_tid` are
made of these. `code[t]` is what is left of the calls thread `t` is in, and
each action of `ThreadStep` executes the first operation of the running thread.
Between two operations `TimerInterrupt` or `DeviceInterrupt` may be taken,
unless interrupts are off (`IntrOn`): in the loop of `sema_down()` after a
wake-up, and in `main()` before `thread_start()`.

A thread whose list is empty is in its own function and makes any call
(`ThreadCall`) that respects the callee's assertions on its arguments: acquire
only a lock it does not hold, release, wait and signal only with the lock held.
The assertions that the kernel itself must establish (a thread to switch to, a
blocked thread to unblock) are properties.

`schedule` is `schedule()` with `schedule_tail()`: a dying thread's page is freed
there. Boot is included: `main()` starts with interrupts off and creates the idle
thread, which introduces itself before anybody may find the ready list empty.

The end of `main()` is included too. With `-q` it powers the machine off, which
is the end of a behaviour. Without it, it calls `thread_exit()`
(`CallExitMain`), which dereferences `thread_current()->info`; initial_thread has
none, because only `thread_create()` sets it. `KernelFault` is the page fault in
the kernel that follows: initial_thread has no supplemental page table to look
the address up in either, so the fault repeats until an assertion panics the
kernel. `Spin` is the loop at the end of `debug_panic()`, with interrupts off for
good.

### Process

A process goes through `none`, `loading`, `running`, `exec` or `wait`, `exiting`,
`dead`. `exiting` is the stretch of `process_exit()`, with interrupts on; the end
of `thread_exit()`, which ups both semaphores with interrupts off, is one step.
`info[c]` is the child's `thread_info`, `NULL` before `malloc()` and after the
`free()` in `process_wait()`. The main thread runs `run_task()` for one task
after another. `exit_status` of a fresh `thread_info` is any value in `Garbage`,
since `thread_create()` does not set it. A process exits with a status of its
own, -1 included (`Exit`), or because it closes a descriptor it does not have:
`handle_close()` then sets `exit_status` to -1 and leaves `is_killed` alone
(`CloseUnknown`). `fate` and `ret` are history variables:
how a process died, and which exec or wait has just returned what.

Not in the model: a `malloc()` that fails in `thread_create()`, whose result the
code does not test.

## What the runs check

| Run | Instance | Checks |
|---|---|---|
| `threads` | main, idle, two workers, one lock, one condition, one semaphore, the tid lock; slice 1 | the type invariant; `ElemInv`: a thread is on at most one list, in the state that goes with it; `NobodyForgotten`: a ready or blocked thread can be found; `MutualExclusion`; `CondNoLostSignal`; `IdleOnlyWhenNothingToRun`; no deadlock |
| `threads_live` | the same threads, a semaphore up to 2, slice 2, fairness | `NoLostWakeup`: while a thread sleeps on a semaphore, every unit of it has a woken thread on its way; `RoundRobin`; `ReadyRuns`, unless the kernel panics |
| `threads_create` | main, idle, three workers, only the tid lock | `UniqueTids`: two threads inside `allocate_tid()` never get the same tid |
| `process` | main and three processes | the type invariant; `InfoLifetime`: no `thread_info` is used after it is freed; `WaitResult`; `ExecResult`: exec returns -1 exactly for a child that did not load; `NoOrphans`: a parent does not die before its children; `WaiterReleased` under fairness; no deadlock |
| `process_exception` | main and two processes | violated: the comment on `process_wait()` promises -1 for a child killed by an exception |
| `process_death` | main and two processes | violated: the same comment says that `process_wait()` waits for the child to die |
| `process_parallel` | main and two processes, fairness | violated: the tests run a parent and its children, or several children, at the same time |
| `threads_exit` | main, idle, one worker, fairness | violated: the comment on `thread_exit()` says that it deschedules and destroys the current thread |

The four violations are disagreements between the code and a comment or a test:

- `kill()` ends the process without setting `exit_status`, so wait returns
  whatever the fresh block held. Page faults, bad pointers and the closing of an
  unknown descriptor set -1.
- `process_wait()` answers -1 at once when `is_killed` is set, which happens
  before `process_exit()`. The child may still be closing files and freeing
  pages when its parent goes on.
- `exec_sema` is upped only in `thread_exit()`, so exec returns after the child's
  death and user programs never run side by side. `tests/vm/page-parallel.c`
  ("Runs 4 child-linear processes at once"), `tests/vm/parallel-merge.c` ("the
  subprocesses run in parallel") and `tests/filesys/extended/syn-rw.c` ("Grows a
  file in chunks while subprocesses read the growing file") expect the opposite.
  The first two still finish, one child after another. The children of `syn-rw`
  busy-wait for data that their parent writes after exec, so that test hangs.
  `ExecReturnsOnceLoaded` states what they need: once the child is loaded and
  runs its program, exec returns, even if the child never makes another call.
- `main()` without `-q` ends in a `thread_exit()` that faults (`ExitDestroys`):
  the kernel panics instead of leaving the remaining threads to run. `ReadyRuns`
  therefore excepts a panic.

`NoOrphans` is the other side of the third: because exec outlasts the child, a
child always finds its parent alive. It would fail if exec returned after loading.

Not a property, because the code does not promise it: a woken waiter may find
that a running thread took the semaphore first, and may starve that way.
`ReadyRuns` is about the CPU only.

### Bounds

Two workers with main are three threads that contend, enough for an owner, a
waiter and a thread that barges in between. Two concurrent `thread_create()`
calls need a third worker: main makes one, and then both make another. `TIME_SLICE` 1 lets a timer
interrupt preempt after every step, the most hostile schedule; 2 exercises the
count. `MaxValue` bounds only semaphores used directly; 2 allows two ups before
a woken thread has run. A thread structure is used for one life; reuse of the
page by a later `thread_create()` is a fresh member of `Worker`. Three processes
give a parent, a child and a grandchild, or siblings. Symmetry is used only in
runs without liveness properties.

### Fairness

`Threads`: the CPU executes the running thread (`WF` of `ThreadStep`) and the
timer ticks (`WF` of `TimerInterrupt`, the programmable timer set up in
`timer_init()`). Nothing is assumed of devices or of the threads' own functions.
`Process`: a thread in the kernel makes progress, which is `ReadyRuns` together
with the assumption that `load()` and `process_exit()` do not block for ever: they
take the locks of the file system and of the allocators, and wait for the disk,
none of which `Process` models. A user program need never make another system
call.

## What is proved

For every set of workers, locks, semaphores and condition variables, and every
positive `TIME_SLICE`, from `ThreadsAssumption` (the names are distinct, each
condition has one lock, as the comment on `cond_wait()` requires):

- `TypeCorrect`: `Spec => []TypeOK`. The inductive invariant is
  `Typed == TypeOK /\ Boot`. `TypeOK` alone is not inductive: that `cpu` stays a
  thread needs a thread for `next_thread_to_run()` whenever the ready list is
  empty. `Boot` says that until the idle thread has introduced itself it is about
  to be created, or on the ready list, or running, and still at its first
  operation. It also carries `ShapeOf`: in every `code[t]` the sema_down of a
  lock is followed by the assignment of the holder, the clearing of the holder by
  the sema_up, and nothing else comes in between.
- `LocksExclude`: `Spec => []MutualExclusion`. The inductive invariant is
  `Typed` with `LockInv`, which adds to mutual exclusion that a thread about to
  up a lock's semaphore is no longer its holder. Each action either leaves the
  owners and the value of a lock alone (`LockSame`, `LockSameCode`), or is one of
  three hand-overs: `LockTaken` (1 to 0, a first owner), `LockHeld` (the owner
  sets or clears holder) and `LockUpped` (0 to 1, the owner leaves).

The lemmas about lists of operations are index-wise: which operation stands
where, and what `Tail`, replacing the head or prepending does to `ShapeOf`.

Only model-checked: the other invariants, the action property `RoundRobin`, the
liveness properties, and everything about `Process`. Liveness under fairness
and induction over recursive definitions are outside what TLAPS can do here.

## Plan

1. Character devices: `intq.c` as a bounded FIFO with its hand-made monitor,
   composed with `serial.c`, `input.c` and the console lock; the refinement of the
   FIFO model-checked, then proved.
2. System calls and files: the global lock, file descriptors, what a killed
   process leaves behind; inodes, open counts, deny-write, directory and free map
   with their failure paths.
3. Virtual memory: frame table, swap, supplemental page table, page faults, mmap
   and exit, with two processes and fewer frames than pages.
4. Allocators and disk: `palloc.c`, `malloc.c`, `disk.c`.
5. Algorithms checked against reference definitions: bitmap scans, list sort and
   merge, hash resizing, string functions, heap sort and binary search, 64-bit
   division, `push_argument()`, `validate_segment()`.
6. Proofs: `ElemInv`, `NoLostWakeup` and `RoundRobin` for `Threads`;
   `InfoLifetime` and `NoOrphans` for `Process`; the FIFO refinement.

Left out for good: the boot loader and assembly stubs (what `switch_threads()`
does is part of `schedule`), descriptor tables, the VGA display, printf
formatting, the utilities and user programs.
