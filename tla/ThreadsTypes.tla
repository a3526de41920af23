---------------------------- MODULE ThreadsTypes ----------------------------
(* Type correctness of Threads, for every set of threads, locks,           *)
(* semaphores and condition variables and for every TIME_SLICE.            *)
EXTENDS ThreadsCode

(* The boot invariant: until the idle thread has introduced itself, either *)
(* thread_start() is about to create it, or it is on the ready list, or it *)
(* runs.  So next_thread_to_run() finds a thread whenever it is called.    *)
Boot ==
    /\ \A t \in Thread : ShapeOf(t, code[t])
    /\ \A t \in Thread : At(t, Start) => t = cpu
    /\ idle_thread = NULL =>
         /\ At(Idle, SetIdle)
         /\ Doing("start") \/ cpu = Idle \/ Idle \in ToSet(ready_list)

Typed == TypeOK /\ Boot

LEMMA ScheduleTyped ==
    ASSUME TypeOK, NEW st \in [Thread -> Status], NEW ready \in Seq(Thread),
           ready # <<>> \/ idle_thread \in Thread, schedule(st, ready)
    PROVE  /\ cpu' \in Thread
           /\ status' \in [Thread -> Status]
           /\ ready_list' \in Seq(Thread)
           /\ thread_ticks' \in 0 .. TIME_SLICE - 1
           /\ \A t \in ToSet(ready) : t = cpu' \/ t \in ToSet(ready_list')
  <1> DEFINE next == next_thread_to_run(ready)
             left == IF st[cpu] = "DYING" /\ cpu # Main THEN "FREED" ELSE st[cpu]
  <1>1. /\ next \in Thread
        /\ (IF ready = <<>> THEN <<>> ELSE Tail(ready)) \in Seq(Thread)
        /\ \A t \in ToSet(ready) :
             t = next \/ t \in ToSet(IF ready = <<>> THEN <<>> ELSE Tail(ready))
    <2>1. CASE ready = <<>>
      <3>1. ToSet(ready) = {}
        BY <2>1 DEF ToSet
      <3> QED BY <2>1, <3>1 DEF next_thread_to_run
    <2>2. CASE ready # <<>>
      BY <2>2, TailElements DEF next_thread_to_run
    <2> QED BY <2>1, <2>2
  <1>2. cpu \in Thread /\ left \in Status
    BY DEF TypeOK, Status
  <1> HIDE DEF next, left
  <1>3. [st EXCEPT ![cpu] = left, ![next] = "RUNNING"] \in [Thread -> Status]
    BY <1>1, <1>2, Zenon DEF Status
  <1>4. /\ cpu' = next
        /\ ready_list' = IF ready = <<>> THEN <<>> ELSE Tail(ready)
        /\ status' = [st EXCEPT ![cpu] = left, ![next] = "RUNNING"]
        /\ thread_ticks' = 0
    BY DEF schedule, next, left
  <1>5. 0 \in 0 .. TIME_SLICE - 1
    BY ThreadsAssumption
  <1> QED BY <1>1, <1>3, <1>4, <1>5

LEMMA WakeTyped ==
    ASSUME TypeOK, NEW s \in Sema, NEW st \in [Thread -> Status]
    PROVE  /\ First(s) \in Seq(Thread) /\ Rest(s) \in Seq(Thread)
           /\ Woken(st, s) \in [Thread -> Status]
  BY TailElements DEF TypeOK, First, Rest, Woken, Status

LEMMA DoingObj ==
    ASSUME TypeOK, Boot
    PROVE  /\ cpu \in Thread /\ code[cpu] \in Seq(Op)
           /\ code[cpu] # <<>> => code[cpu][1] \in Op
           /\ Doing("down") \/ Doing("wait") \/ Doing("up") => Obj \in Sema
           /\ Doing("hold") \/ Doing("drop") => Obj \in Locks
           /\ Doing("push") \/ Doing("signal") \/ Doing("broadcast") => Obj \in Conds
           /\ Doing("read_tid") \/ Doing("write_tid") \/ Doing("unblock") => Obj \in Worker
           /\ Doing("set_idle") \/ Doing("block") \/ Doing("hlt") => cpu = Idle
  <1>1. cpu \in Thread /\ code[cpu] \in Seq(Op)
    BY DEF TypeOK
  <1>2. code[cpu] # <<>> => code[cpu][1] \in Op /\ 1 \in DOMAIN code[cpu]
    BY <1>1
  <1>3. ShapeOf(cpu, code[cpu])
    BY <1>1 DEF Boot
  <1> QED BY <1>1, <1>2, <1>3, OpKinds DEF Doing, Obj, ShapeOf

(* One thread's list replaced. *)
LEMMA CodeSet ==
    ASSUME TypeOK, Boot, NEW s \in Seq(Op), ShapeOf(cpu, s), code' = [code EXCEPT ![cpu] = s]
    PROVE  /\ code' \in [Thread -> Seq(Op)]
           /\ \A t \in Thread : ShapeOf(t, code'[t])
           /\ code'[cpu] = s
           /\ \A t \in Thread \ {cpu} : code'[t] = code[t]
  <1>1. cpu \in Thread /\ code \in [Thread -> Seq(Op)]
    BY DEF TypeOK
  <1>2. code' \in [Thread -> Seq(Op)] /\ code'[cpu] = s /\ \A t \in Thread \ {cpu} : code'[t] = code[t]
    BY <1>1
  <1> QED BY <1>2 DEF Boot

LEMMA AdvanceCode ==
    ASSUME TypeOK, Boot, code[cpu] # <<>>, Advance
    PROVE  /\ code' \in [Thread -> Seq(Op)]
           /\ \A t \in Thread : ShapeOf(t, code'[t])
           /\ code'[cpu] = Tail(code[cpu])
           /\ \A t \in Thread \ {cpu} : code'[t] = code[t]
           /\ code'[cpu] # <<>> => code'[cpu][1][1] \notin {"start", "wait"}
           /\ \A l \in Locks :
                /\ code'[cpu] # <<>> /\ code'[cpu][1] = Hold(l) =>
                     code[cpu][1] \in {Down(l), Wait(l)}
                /\ code'[cpu] # <<>> /\ code'[cpu][1] = Up(l) => code[cpu][1] = Drop(l)
                /\ code[cpu][1] \in {Down(l), Wait(l)} =>
                     code'[cpu] # <<>> /\ code'[cpu][1] = Hold(l)
                /\ code[cpu][1] = Drop(l) => code'[cpu] # <<>> /\ code'[cpu][1] = Up(l)
  <1> DEFINE s == code[cpu]
  <1>1. cpu \in Thread /\ s \in Seq(Op) /\ s # <<>> /\ ShapeOf(cpu, s) /\ code' = [code EXCEPT ![cpu] = Tail(s)]
    BY DEF TypeOK, Boot, Advance
  <1> HIDE DEF s
  <1>2. Tail(s) \in Seq(Op) /\ ShapeOf(cpu, Tail(s))
    BY <1>1, ShapeTail
  <1>3. /\ code' \in [Thread -> Seq(Op)]
        /\ \A t \in Thread : ShapeOf(t, code'[t])
        /\ code'[cpu] = Tail(s)
        /\ \A t \in Thread \ {cpu} : code'[t] = code[t]
    BY <1>1, <1>2, CodeSet, Zenon
  <1>4. /\ 1 \in DOMAIN s
        /\ Tail(s) # <<>> <=> 2 \in DOMAIN s
        /\ Tail(s) # <<>> => Tail(s)[1] = s[2]
    <2>1. /\ DOMAIN s = 1 .. Len(s) /\ Len(s) \in Nat \ {0}
          /\ Tail(s) \in Seq(Op) /\ Len(Tail(s)) = Len(s) - 1
          /\ \A i \in 1 .. Len(s) - 1 : Tail(s)[i] = s[i + 1]
      BY <1>1
    <2>2. Tail(s) # <<>> <=> Len(Tail(s)) # 0
      BY <2>1, EmptyLen, Zenon
    <2>3. Tail(s) # <<>> => 1 \in 1 .. Len(s) - 1
      BY <2>1, <2>2
    <2> QED BY <2>1, <2>2, <2>3
  <1>5. 2 \in DOMAIN s => s[2][1] \notin {"start", "wait"}
    BY <1>1 DEF ShapeOf
  <1>6. ASSUME NEW l \in Locks
        PROVE  /\ 2 \in DOMAIN s /\ s[2] = Hold(l) => s[1] \in {Down(l), Wait(l)}
               /\ 2 \in DOMAIN s /\ s[2] = Up(l) => s[1] = Drop(l)
               /\ s[1] \in {Down(l), Wait(l)} => 2 \in DOMAIN s /\ s[2] = Hold(l)
               /\ s[1] = Drop(l) => 2 \in DOMAIN s /\ s[2] = Up(l)
    <2>1. 1 + 1 = 2 /\ 2 - 1 = 1 /\ 2 # 1
      OBVIOUS
    <2> QED BY <1>1, <1>4, <2>1 DEF ShapeOf
  <1> QED BY <1>3, <1>4, <1>5, <1>6 DEF s

LEMMA CallCode ==
    ASSUME TypeOK, Boot, NEW s \in Seq(Op), ShapeOf(cpu, s), Call(s)
    PROVE  /\ code[cpu] = <<>>
           /\ code' \in [Thread -> Seq(Op)]
           /\ \A t \in Thread : ShapeOf(t, code'[t])
           /\ code'[cpu] = s
           /\ \A t \in Thread \ {cpu} : code'[t] = code[t]
  BY CodeSet, Zenon DEF Call

(* A step of the thread on the CPU, or an interrupt, keeps Boot if it does *)
(* not lose the idle thread and leaves that thread at its first operation. *)
LEMMA BootKept ==
    ASSUME TypeOK, Boot, TypeOK',
           \A t \in Thread : ShapeOf(t, code'[t]),
           \A t \in Thread \ {cpu} : code'[t] = code[t],
           code'[cpu] # <<>> => code'[cpu][1][1] # "start",
           idle_thread' = NULL /\ Doing("set_idle") => code'[cpu] = code[cpu],
           idle_thread' = NULL => idle_thread = NULL,
           idle_thread' = NULL /\ (Doing("start") \/ cpu = Idle \/ Idle \in ToSet(ready_list))
              => cpu' = Idle \/ Idle \in ToSet(ready_list')
    PROVE  Boot'
  <1>1. ASSUME NEW t \in Thread PROVE ~At(t, Start)'
    <2>1. At(t, Start) => t = cpu
      BY DEF Boot
    <2> QED BY <2>1, OpNames DEF At, Start
  <1>2. ASSUME idle_thread' = NULL PROVE At(Idle, SetIdle)'
    <2>1. At(Idle, SetIdle) /\ Idle \in Thread
      BY <1>2 DEF Boot, Thread
    <2>2. cpu = Idle => Doing("set_idle")
      BY <2>1, OpNames DEF At, Doing
    <2>3. code'[Idle] = code[Idle]
      BY <1>2, <2>1, <2>2
    <2> QED BY <2>1, <2>3 DEF At, SetIdle
  <1>3. ASSUME idle_thread' = NULL
        PROVE  cpu' = Idle \/ Idle \in ToSet(ready_list')
    BY <1>3 DEF Boot
  <1>4. ASSUME NEW t \in Thread PROVE ShapeOf(t, code[t])'
    BY DEF ShapeOf, Down, Wait, Drop, Hold, Up
  <1> QED BY <1>1, <1>2, <1>3, <1>4 DEF Boot

(* The steps that touch neither the scheduler nor idle_thread.             *)
LEMMA SyncSteps ==
    ASSUME Typed, LockHold \/ LockDrop \/ CondPush \/ TidRead \/ TidWrite \/ KernelFault
    PROVE  Typed'
  <1> USE DEF Typed
  <1>1. Advance /\ code[cpu] # <<>> /\ ~Doing("start") /\ ~Doing("set_idle")
    BY DEF LockHold, LockDrop, CondPush, TidRead, TidWrite, KernelFault, Doing
  <1>2. /\ code' \in [Thread -> Seq(Op)]
        /\ \A t \in Thread : ShapeOf(t, code'[t])
        /\ \A t \in Thread \ {cpu} : code'[t] = code[t]
        /\ code'[cpu] # <<>> => code'[cpu][1][1] # "start"
    BY <1>1, AdvanceCode
  <1>3. UNCHANGED <<sched, idle_thread, waiters>>
    BY DEF LockHold, LockDrop, CondPush, TidRead, TidWrite, KernelFault, sync, tids
  <1>4. TypeOK'
    <2>1. CASE LockHold
      BY <2>1, <1>2, DoingObj, SMTT(30) DEF LockHold, TypeOK, sched, tids
    <2>2. CASE LockDrop
      BY <2>2, <1>2, DoingObj, SMTT(30) DEF LockDrop, TypeOK, sched, tids
    <2>3. CASE CondPush
      <3>1. cpu \in Thread /\ Obj \in Conds /\ <<"waiter", cpu>> \in Sema
        BY <2>3, DoingObj, SemaKinds, ZenonT(30) DEF CondPush
      <3>2. value' \in [Sema -> Nat] /\ cond_waiters' \in [Conds -> Seq(Thread)]
        BY <2>3, <3>1, AppendElements DEF CondPush, TypeOK
      <3> QED BY <2>3, <3>2, <1>2 DEF CondPush, TypeOK, sched, tids
    <2>4. CASE TidRead
      BY <2>4, <1>2, DoingObj, SMTT(30) DEF TidRead, TypeOK, sched, sync, Thread
    <2>5. CASE TidWrite
      BY <2>5, <1>2, DoingObj, SMTT(30) DEF TidWrite, TypeOK, sched, sync, Thread
    <2>6. CASE KernelFault
      BY <2>6, <1>2, SMTT(30) DEF KernelFault, TypeOK, sched, sync, tids
    <2> QED BY <2>1, <2>2, <2>3, <2>4, <2>5, <2>6, SMTT(30)
  <1>5. Boot'
    BY <1>1, <1>2, <1>3, <1>4, BootKept DEF sched
  <1> QED BY <1>4, <1>5, SMTT(30)

LEMMA SemaDownTyped ==
    ASSUME Typed, SemaDown
    PROVE  Typed'
  <1> USE DEF Typed
  <1>1. /\ cpu \in Thread /\ Obj \in Sema /\ code[cpu] # <<>> /\ code[cpu] \in Seq(Op)
        /\ ~Doing("start") /\ ~Doing("set_idle")
        /\ code[cpu][1] \in {Down(Obj), Wait(Obj)}
    <2>1. code[cpu] # <<>> /\ code[cpu][1] \in Op /\ code[cpu][1][1] \in {"down", "wait"}
      BY DoingObj DEF SemaDown, Doing
    <2> QED BY <2>1, DoingObj, OpKinds, SMTT(30) DEF SemaDown, Doing, Obj, Down, Wait
  <1>2. CASE value[Obj] = 0
    <2> DEFINE s == <<Wait(Obj)>> \o Tail(code[cpu])
    <2>1. s \in Seq(Op) /\ s # <<>> /\ s[1] = Wait(Obj) /\ ShapeOf(cpu, s)
      <3>1. Wait(Obj) \in Op /\ ShapeOf(cpu, code[cpu])
        BY <1>1, OpsInOp DEF Boot
      <3>2. \A l \in Locks :
              /\ Wait(Obj) \in {Down(l), Wait(l)} <=> code[cpu][1] \in {Down(l), Wait(l)}
              /\ Wait(Obj) = Drop(l) <=> code[cpu][1] = Drop(l)
        <4> TAKE l \in Locks
        <4>1. (Wait(Obj) \in {Down(l), Wait(l)} <=> Obj = l) /\ Wait(Obj) # Drop(l)
          BY DownOf
        <4>2. (code[cpu][1] \in {Down(l), Wait(l)} <=> Obj = l) /\ code[cpu][1] # Drop(l)
          BY <1>1, DownOf
        <4> QED BY <4>1, <4>2
      <3> QED BY <3>1, <3>2, <1>1, OpNames, ShapeReplace
    <2>2. code' = [code EXCEPT ![cpu] = s]
      BY <1>2 DEF SemaDown
    <2> HIDE DEF s
    <2>3. /\ code' \in [Thread -> Seq(Op)]
          /\ \A t \in Thread : ShapeOf(t, code'[t])
          /\ code'[cpu] = s
          /\ \A t \in Thread \ {cpu} : code'[t] = code[t]
      BY <2>1, <2>2, CodeSet, Zenon
    <2>4. ready_list # <<>> \/ idle_thread \in Thread
      <3>1. CASE idle_thread = NULL
        <4>1. cpu # Idle
          BY <1>1, <3>1, OpNames DEF Boot, At, SetIdle
        <4>2. Idle \in ToSet(ready_list)
          BY <1>1, <3>1, <4>1 DEF Boot
        <4> QED BY <4>2 DEF ToSet
      <3>2. CASE idle_thread = Idle
        BY <3>2 DEF Thread
      <3> QED BY <3>1, <3>2 DEF TypeOK
    <2> DEFINE st == [status EXCEPT ![cpu] = "BLOCKED"]
    <2>5. st \in [Thread -> Status] /\ ready_list \in Seq(Thread) /\ schedule(st, ready_list)
      BY <1>2 DEF TypeOK, Status, SemaDown, thread_block
    <2> HIDE DEF st
    <2>6. /\ cpu' \in Thread /\ status' \in [Thread -> Status] /\ ready_list' \in Seq(Thread)
          /\ thread_ticks' \in 0 .. TIME_SLICE - 1
          /\ \A t \in ToSet(ready_list) : t = cpu' \/ t \in ToSet(ready_list')
      BY <2>4, <2>5, ScheduleTyped
    <2>7. waiters' \in [Sema -> Seq(Thread)]
      <3>1. waiters' = [waiters EXCEPT ![Obj] = Append(waiters[Obj], cpu)]
        BY <1>2 DEF SemaDown
      <3>2. waiters \in [Sema -> Seq(Thread)] /\ Append(waiters[Obj], cpu) \in Seq(Thread)
        BY <1>1, AppendElements DEF TypeOK
      <3> QED BY <3>1, <3>2, Zenon
    <2>8. TypeOK'
      BY <1>2, <2>3, <2>6, <2>7, ZenonT(30) DEF TypeOK, SemaDown, tids
    <2>9. idle_thread' = idle_thread
      BY DEF SemaDown
    <2>10. idle_thread = NULL => cpu # Idle
      BY <1>1, OpNames DEF Boot, At, SetIdle
    <2>11. code'[cpu][1][1] # "start"
      BY <2>1, <2>3, OpNames, SMTT(30)
    <2> QED BY <1>1, <2>3, <2>6, <2>8, <2>9, <2>10, <2>11, BootKept
  <1>3. CASE value[Obj] # 0
    <2>1. Advance /\ UNCHANGED <<sched, waiters, idle_thread>>
      BY <1>3 DEF SemaDown
    <2>2. /\ code' \in [Thread -> Seq(Op)]
          /\ \A t \in Thread : ShapeOf(t, code'[t])
          /\ \A t \in Thread \ {cpu} : code'[t] = code[t]
          /\ code'[cpu] # <<>> => code'[cpu][1][1] # "start"
      BY <1>1, <2>1, AdvanceCode
    <2>3. value' \in [Sema -> Nat]
      <3>1. value' = [value EXCEPT ![Obj] = value[Obj] - 1]
        BY <1>3 DEF SemaDown
      <3>2. value \in [Sema -> Nat] /\ value[Obj] \in Nat
        BY <1>1 DEF TypeOK
      <3>3. value[Obj] - 1 \in Nat
        BY <1>3, <3>2, SMTT(30)
      <3> QED BY <3>1, <3>2, <3>3, Zenon
    <2>4. TypeOK'
      BY <2>1, <2>2, <2>3, SMTT(30) DEF SemaDown, TypeOK, sched, tids
    <2> QED BY <1>1, <2>1, <2>2, <2>4, BootKept DEF sched
  <1> QED BY <1>2, <1>3, SMTT(30)

(* What sema_up() of any semaphore keeps.                                  *)
LEMMA UpTyped ==
    ASSUME TypeOK, NEW s \in Sema, sema_up(s)
    PROVE  /\ UNCHANGED <<cpu, thread_ticks, holder, cond_waiters>>
           /\ status' \in [Thread -> Status] /\ ready_list' \in Seq(Thread)
           /\ value' \in [Sema -> Nat] /\ waiters' \in [Sema -> Seq(Thread)]
           /\ ToSet(ready_list) \subseteq ToSet(ready_list')
  <1>1. First(s) \in Seq(Thread) /\ Rest(s) \in Seq(Thread) /\ Woken(status, s) \in [Thread -> Status]
    BY WakeTyped DEF TypeOK
  <1>2. /\ status' \in [Thread -> Status] /\ value' \in [Sema -> Nat]
        /\ waiters' \in [Sema -> Seq(Thread)]
    BY <1>1 DEF sema_up, TypeOK
  <1>3. ready_list' = ready_list \o First(s) /\ ready_list \in Seq(Thread)
    BY DEF sema_up, TypeOK
  <1>4. ready_list' \in Seq(Thread) /\ ToSet(ready_list) \subseteq ToSet(ready_list')
    <2>1. CASE waiters[s] = <<>>
      <3>1. First(s) = <<>>
        BY <2>1 DEF First
      <3> QED BY <1>3, <3>1, ConcatElements, SMTT(30)
    <2>2. CASE waiters[s] # <<>>
      <3>1. First(s) = <<Head(waiters[s])>> /\ Head(waiters[s]) \in Thread
        BY <2>2, TailElements DEF First, TypeOK
      <3>2. ready_list' = Append(ready_list, Head(waiters[s]))
        BY <3>1, <1>3, ConcatOne
      <3> QED BY <3>1, <3>2, <1>3, AppendElements
    <2> QED BY <2>1, <2>2
  <1> QED BY <1>2, <1>4 DEF sema_up

LEMMA WakeSteps ==
    ASSUME Typed, SemaUp \/ ThreadUnblock \/ ThreadStart \/ IdleSet
    PROVE  Typed'
  <1> USE DEF Typed
  <1>1. Advance /\ code[cpu] # <<>>
    BY DEF SemaUp, ThreadUnblock, ThreadStart, IdleSet, Doing
  <1>2. /\ code' \in [Thread -> Seq(Op)]
        /\ \A t \in Thread : ShapeOf(t, code'[t])
        /\ \A t \in Thread \ {cpu} : code'[t] = code[t]
        /\ code'[cpu] # <<>> => code'[cpu][1][1] # "start"
    BY <1>1, AdvanceCode
  <1>3. CASE SemaUp
    <2>1. Obj \in Sema /\ sema_up(Obj) /\ ~Doing("start") /\ ~Doing("set_idle")
      BY <1>3, DoingObj DEF SemaUp, Doing
    <2>2. /\ UNCHANGED <<cpu, thread_ticks, holder, cond_waiters>>
          /\ status' \in [Thread -> Status] /\ ready_list' \in Seq(Thread)
          /\ value' \in [Sema -> Nat] /\ waiters' \in [Sema -> Seq(Thread)]
          /\ ToSet(ready_list) \subseteq ToSet(ready_list')
      BY <2>1, UpTyped
    <2>3. TypeOK'
      BY <1>2, <1>3, <2>2, ZenonT(30) DEF SemaUp, TypeOK, tids
    <2> QED BY <1>2, <1>3, <2>1, <2>2, <2>3, BootKept DEF SemaUp
  <1>4. CASE ThreadUnblock
    <2>1. Obj \in Thread /\ ~Doing("start") /\ ~Doing("set_idle")
      BY <1>4, DoingObj DEF ThreadUnblock, Doing, Thread
    <2>2. ready_list' \in Seq(Thread) /\ ToSet(ready_list) \subseteq ToSet(ready_list')
      BY <1>4, <2>1, AppendElements, SMTT(30) DEF ThreadUnblock, TypeOK
    <2>3. TypeOK'
      BY <1>2, <1>4, <2>1, <2>2, SMTT(30) DEF ThreadUnblock, TypeOK, Status, sync, tids
    <2> QED BY <1>2, <1>4, <2>1, <2>2, <2>3, BootKept DEF ThreadUnblock
  <1>5. CASE ThreadStart
    <2>1. Idle \in Thread /\ ~Doing("set_idle")
      BY <1>5 DEF ThreadStart, Doing, Thread
    <2>2. ready_list' \in Seq(Thread) /\ Idle \in ToSet(ready_list')
      BY <1>5, <2>1, AppendElements, SMTT(30) DEF ThreadStart, TypeOK
    <2>3. TypeOK'
      BY <1>2, <1>5, <2>1, <2>2 DEF ThreadStart, TypeOK, Status, sync
    <2> QED BY <1>2, <1>5, <2>1, <2>2, <2>3, BootKept DEF ThreadStart
  <1>6. CASE IdleSet
    <2>1. cpu = Idle /\ idle_thread' = Idle /\ Idle # NULL
      BY <1>6, DoingObj, ThreadsAssumption DEF IdleSet, Thread
    <2>2. TypeOK'
      BY <1>2, <1>6, <2>1 DEF IdleSet, TypeOK, sched, sync, tids
    <2> QED BY <1>2, <2>1, <2>2, BootKept
  <1> QED BY <1>3, <1>4, <1>5, <1>6

LEMMA CondSteps ==
    ASSUME Typed, CondSignal \/ CondBroadcast
    PROVE  Typed'
  <1> USE DEF Typed
  <1>1. /\ cpu \in Thread /\ code[cpu] \in Seq(Op) /\ code[cpu] # <<>> /\ ShapeOf(cpu, code[cpu])
        /\ Obj \in Conds /\ ~Doing("start") /\ ~Doing("set_idle")
        /\ code[cpu][1][1] \in {"signal", "broadcast"}
    BY DoingObj, SMTT(30) DEF CondSignal, CondBroadcast, Doing, Boot
  <1>2. UNCHANGED <<sched, idle_thread, value, waiters, holder, tids>>
    BY DEF CondSignal, CondBroadcast, sync
  <1>3. cond_waiters' \in [Conds -> Seq(Thread)]
    <2>1. CASE UNCHANGED cond_waiters
      BY <2>1 DEF TypeOK
    <2>2. CASE cond_waiters[Obj] # <<>> /\ cond_waiters' = [cond_waiters EXCEPT ![Obj] = Tail(@)]
      BY <2>2, <1>1, SMTT(30) DEF TypeOK
    <2> QED BY <2>1, <2>2 DEF CondSignal, CondBroadcast, sync
  <1>4. /\ code' \in [Thread -> Seq(Op)]
        /\ \A t \in Thread : ShapeOf(t, code'[t])
        /\ \A t \in Thread \ {cpu} : code'[t] = code[t]
        /\ code'[cpu] # <<>> => code'[cpu][1][1] # "start"
    <2>1. CASE Advance
      BY <1>1, <2>1, AdvanceCode
    <2>2. CASE CondSignal /\ cond_waiters[Obj] # <<>>
      <3> DEFINE x == Up(<<"waiter", Head(cond_waiters[Obj])>>)
                 s == <<x>> \o Tail(code[cpu])
      <3>1. Head(cond_waiters[Obj]) \in Thread
        BY <1>1, <2>2 DEF TypeOK
      <3>2. x \in Op /\ x[1] = "up"
        BY <3>1, SemaKinds, OpsInOp, OpNames, ZenonT(30)
      <3> HIDE DEF x
      <3>3. \A l \in Locks : /\ x \in {Down(l), Wait(l)} <=> code[cpu][1] \in {Down(l), Wait(l)}
                             /\ x = Drop(l) <=> code[cpu][1] = Drop(l)
        <4> TAKE l \in Locks
        <4>1. x \notin {Down(l), Wait(l)} /\ x # Drop(l)
          BY <3>2, NotLockOp, SMTT(30)
        <4>2. code[cpu][1] \notin {Down(l), Wait(l)} /\ code[cpu][1] # Drop(l)
          BY <1>1, NotLockOp, SMTT(30)
        <4> QED BY <4>1, <4>2
      <3>4. s \in Seq(Op) /\ s # <<>> /\ s[1] = x /\ ShapeOf(cpu, s)
        BY <1>1, <3>2, <3>3, ShapeReplace
      <3>5. code' = [code EXCEPT ![cpu] = s]
        BY <2>2 DEF CondSignal, x
      <3> HIDE DEF s
      <3> QED BY <3>2, <3>4, <3>5, CodeSet, ZenonT(30)
    <2>3. CASE CondBroadcast /\ cond_waiters[Obj] # <<>>
      <3> DEFINE x == Signal(Obj)
                 s == <<x>> \o code[cpu]
      <3>1. x \in Op /\ x[1] = "signal" /\ code[cpu][1][1] = "broadcast"
        BY <1>1, <2>3, OpsInOp, OpNames, SMTT(30) DEF CondBroadcast, Doing
      <3> HIDE DEF x
      <3>2. s \in Seq(Op) /\ s # <<>> /\ s[1] = x /\ ShapeOf(cpu, s)
        BY <1>1, <3>1, ShapePrepend, SMTT(30)
      <3>3. code' = [code EXCEPT ![cpu] = s]
        BY <2>3, SMTT(30) DEF CondBroadcast, x
      <3> HIDE DEF s
      <3> QED BY <3>1, <3>2, <3>3, CodeSet, ZenonT(30)
    <2> QED BY <2>1, <2>2, <2>3, ZenonT(30) DEF CondSignal, CondBroadcast
  <1>5. TypeOK'
    BY <1>2, <1>3, <1>4 DEF TypeOK, sched, tids
  <1> QED BY <1>1, <1>2, <1>4, <1>5, BootKept DEF sched

LEMMA CallSteps ==
    ASSUME Typed, CallSync \/ CallTry \/ CallCreate \/ CallExitMain
    PROVE  Typed'
  <1> USE DEF Typed
  <1>1. cpu \in Thread
    BY DEF TypeOK
  <1>2. PICK s \in Seq(Op) : /\ Call(s) /\ ShapeOf(cpu, s)
                             /\ s # <<>> => s[1][1] # "start"
    <2>1. CASE CallSync
      <3>1. CASE \E x \in Semas : Call(<<Down(x)>>) \/ Call(<<Up(x)>>)
        <4>1. PICK x \in Sema \ Locks : Call(<<Down(x)>>) \/ Call(<<Up(x)>>)
          BY <3>1, SemaKinds
        <4>2. <<Down(x)>>[1] = Down(x) /\ <<Up(x)>>[1] = Up(x)
          OBVIOUS
        <4> QED BY <1>1, <4>1, <4>2, ShapeCalls, OpNames, ZenonT(30)
      <3>2. CASE \E t \in Worker \ {cpu}, sema \in {"exec_sema", "wait_sema"} :
                    tid[t] # 0 /\ Call(<<Down(<<sema, t>>)>>)
        <4>1. PICK x \in Sema \ Locks : Call(<<Down(x)>>)
          BY <3>2, SemaKinds, Zenon DEF Thread
        <4>2. <<Down(x)>>[1] = Down(x)
          OBVIOUS
        <4> QED BY <1>1, <4>1, <4>2, ShapeCalls, OpNames, Zenon
      <3>3. CASE \E l \in Locks : Call(lock_acquire(l)) \/ Call(lock_release(l))
        <4>1. PICK l \in Locks : Call(lock_acquire(l)) \/ Call(lock_release(l))
          BY <3>3
        <4>2. lock_acquire(l)[1] = Down(l) /\ lock_release(l)[1] = Drop(l)
          BY DEF lock_acquire, lock_release
        <4> QED BY <1>1, <4>1, <4>2, ShapeCalls, OpNames, ZenonT(30)
      <3>4. CASE \E c \in Conds : \/ Call(cond_wait(c, cpu))
                                  \/ Call(<<Signal(c)>>) \/ Call(<<Broadcast(c)>>)
        <4>1. PICK c \in Conds : \/ Call(cond_wait(c, cpu))
                                 \/ Call(<<Signal(c)>>) \/ Call(<<Broadcast(c)>>)
          BY <3>4
        <4>2. <<Signal(c)>>[1] = Signal(c) /\ <<Broadcast(c)>>[1] = Broadcast(c)
          BY SMTT(30)
        <4>3. cond_wait(c, cpu)[1] = Push(c)
          BY <1>1, CallsWritten, ZenonT(30)
        <4> QED BY <1>1, <4>1, <4>2, <4>3, ShapeCalls, OpNames, ZenonT(30)
      <3> QED BY <2>1, <3>1, <3>2, <3>3, <3>4, ZenonT(30) DEF CallSync
    <2>2. CASE CallTry
      <3>1. CASE Call(<<>>)
        <4> DEFINE e == <<>>
        <4>1. e \in Seq(Op) /\ e = <<>> /\ Call(e) /\ ShapeOf(cpu, e)
          BY <3>1, ShapeEmpty
        <4> HIDE DEF e
        <4> QED BY <4>1, Zenon
      <3>2. CASE \E l \in Locks : Call(<<Hold(l)>>)
        <4>1. PICK l \in Locks : Call(<<Hold(l)>>)
          BY <3>2
        <4>2. <<Hold(l)>>[1] = Hold(l)
          OBVIOUS
        <4> QED BY <1>1, <4>1, <4>2, ShapeCalls, OpNames, Zenon
      <3> QED BY <2>2, <3>1, <3>2 DEF CallTry, TryDown
    <2>3. CASE CallCreate
      <3>1. PICK u \in Worker : Call(thread_create(u))
        BY <2>3 DEF CallCreate
      <3>2. thread_create(u)[1] = Down(TidLock)
        BY CallsWritten
      <3> QED BY <1>1, <3>1, <3>2, ShapeCalls, OpNames
    <2>4. CASE CallExitMain
      <3>1. thread_exit_main[1] = Fault
        BY DEF thread_exit_main
      <3> QED BY <2>4, <3>1, ShapeCalls, OpNames, Zenon DEF CallExitMain
    <2> QED BY <2>1, <2>2, <2>3, <2>4
  <1>3. /\ code[cpu] = <<>>
        /\ code' \in [Thread -> Seq(Op)]
        /\ \A t \in Thread : ShapeOf(t, code'[t])
        /\ \A t \in Thread \ {cpu} : code'[t] = code[t]
        /\ code'[cpu] # <<>> => code'[cpu][1][1] # "start"
    BY <1>2, CallCode, SMTT(30)
  <1>4. UNCHANGED <<cpu, ready_list, thread_ticks, idle_thread, waiters, holder, cond_waiters, tids>>
    BY Zenon DEF CallSync, CallTry, TryDown, CallCreate, CallExitMain, sched, sync
  <1>5. status' \in [Thread -> Status] /\ value' \in [Sema -> Nat]
    <2>1. CASE CallSync
      BY <2>1 DEF CallSync, sched, sync, TypeOK
    <2>2. CASE CallTry
      <3>1. PICK x \in Sema : value[x] > 0 /\ value' = [value EXCEPT ![x] = @ - 1]
        BY <2>2, SemaKinds, ZenonT(30) DEF CallTry, TryDown
      <3>2. value[x] \in Nat /\ value[x] - 1 \in Nat
        BY <3>1 DEF TypeOK
      <3>3. value' \in [Sema -> Nat]
        BY <3>1, <3>2, SMTT(30) DEF TypeOK
      <3>4. UNCHANGED status
        BY <2>2, Zenon DEF CallTry, TryDown, sched
      <3> QED BY <3>3, <3>4, SMTT(30) DEF TypeOK
    <2>3. CASE CallCreate
      BY <2>3, ZenonT(30) DEF CallCreate, sync, TypeOK, Status
    <2>4. CASE CallExitMain
      BY <2>4, SMTT(30) DEF CallExitMain, sched, sync, TypeOK
    <2> QED BY <2>1, <2>2, <2>3, <2>4
  <1>6. TypeOK'
    BY <1>3, <1>4, <1>5 DEF TypeOK, tids
  <1>7. ~Doing("start") /\ ~Doing("set_idle")
    BY <1>3 DEF Doing
  <1> QED BY <1>3, <1>4, <1>6, <1>7, BootKept

(* Wherever schedule() is called, there is a thread to run.                *)
LEMMA SomethingToRun ==
    ASSUME Typed, NEW ready \in Seq(Thread), ToSet(ready_list) \subseteq ToSet(ready),
           ~Doing("start"), cpu # Idle \/ cpu \in ToSet(ready) \/ idle_thread # NULL
    PROVE  ready # <<>> \/ idle_thread \in Thread
  <1>1. ToSet(ready) # {} => ready # <<>>
    BY DEF ToSet
  <1>2. idle_thread # NULL => idle_thread \in Thread
    BY DEF Typed, TypeOK, Thread
  <1>3. idle_thread = NULL => cpu = Idle \/ Idle \in ToSet(ready_list)
    BY DEF Typed, Boot
  <1> QED BY <1>1, <1>2, <1>3, SMTT(30)

LEMMA YieldTyped ==
    ASSUME Typed, thread_yield, ~Doing("start")
    PROVE  /\ cpu' \in Thread /\ status' \in [Thread -> Status] /\ ready_list' \in Seq(Thread)
           /\ thread_ticks' \in 0 .. TIME_SLICE - 1
           /\ idle_thread = NULL /\ (cpu = Idle \/ Idle \in ToSet(ready_list))
                => cpu' = Idle \/ Idle \in ToSet(ready_list')
  <1> DEFINE ready == IF cpu # idle_thread THEN Append(ready_list, cpu) ELSE ready_list
             st == [status EXCEPT ![cpu] = "READY"]
  <1>1. st \in [Thread -> Status] /\ cpu \in Thread /\ schedule(st, ready)
    BY DEF Typed, TypeOK, Status, thread_yield
  <1>2. /\ ready \in Seq(Thread) /\ ToSet(ready_list) \subseteq ToSet(ready)
        /\ cpu # idle_thread => cpu \in ToSet(ready)
    <2>1. ready_list \in Seq(Thread)
      BY DEF Typed, TypeOK
    <2> QED BY <1>1, <2>1, AppendElements
  <1> HIDE DEF ready, st
  <1>3. cpu # NULL
    BY <1>1, ThreadsAssumption
  <1>4. ready # <<>> \/ idle_thread \in Thread
    BY <1>2, <1>3, SomethingToRun
  <1>5. /\ cpu' \in Thread /\ status' \in [Thread -> Status] /\ ready_list' \in Seq(Thread)
        /\ thread_ticks' \in 0 .. TIME_SLICE - 1
        /\ \A t \in ToSet(ready) : t = cpu' \/ t \in ToSet(ready_list')
    BY <1>1, <1>2, <1>4, ScheduleTyped DEF Typed
  <1> QED BY <1>2, <1>3, <1>5

LEMMA EndHltCode ==
    ASSUME Typed, EndHlt
    PROVE  /\ code' \in [Thread -> Seq(Op)]
           /\ \A t \in Thread : ShapeOf(t, code'[t])
           /\ \A t \in Thread \ {cpu} : code'[t] = code[t]
           /\ ~Doing("hlt") => code' = code
           /\ Doing("hlt") => code'[cpu] = <<Block, Hlt>>
           /\ ~Doing("start") /\ code'[cpu] # <<>> => code'[cpu][1][1] # "start"
  <1> USE DEF Typed
  <1>1. CASE Doing("hlt")
    <2>1. cpu = Idle
      BY <1>1, DoingObj, SMTT(30)
    <2> DEFINE s == <<Block, Hlt>>
    <2>2. s \in Seq(Op) /\ ShapeOf(cpu, s) /\ s[1][1] = "block"
      BY <2>1, ShapeCalls, OpNames
    <2>3. code' = [code EXCEPT ![cpu] = s]
      BY <1>1 DEF EndHlt
    <2> HIDE DEF s
    <2>4. /\ code' \in [Thread -> Seq(Op)]
          /\ \A t \in Thread : ShapeOf(t, code'[t])
          /\ code'[cpu] = s
          /\ \A t \in Thread \ {cpu} : code'[t] = code[t]
      BY <2>2, <2>3, CodeSet, Zenon
    <2> QED BY <1>1, <2>2, <2>4 DEF s
  <1>2. CASE ~Doing("hlt")
    BY <1>2, ZenonT(30) DEF EndHlt, TypeOK, Boot, Doing
  <1> QED BY <1>1, <1>2, SMTT(30)

LEMMA InterruptSteps ==
    ASSUME Typed, TimerInterrupt \/ DeviceInterrupt
    PROVE  Typed'
  <1> USE DEF Typed
  <1>1. ~Doing("start") /\ EndHlt /\ UNCHANGED <<idle_thread, tids>>
    BY DEF TimerInterrupt, DeviceInterrupt, IntrOn
  <1>2. /\ code' \in [Thread -> Seq(Op)]
        /\ \A t \in Thread : ShapeOf(t, code'[t])
        /\ \A t \in Thread \ {cpu} : code'[t] = code[t]
        /\ Doing("set_idle") => code'[cpu] = code[cpu]
        /\ code'[cpu] # <<>> => code'[cpu][1][1] # "start"
    BY <1>1, EndHltCode, SMTT(30) DEF Doing
  <1>3. CASE TimerInterrupt /\ thread_yield
    <2>1. TypeOK'
      BY <1>1, <1>2, <1>3, YieldTyped, ZenonT(30) DEF TypeOK, TimerInterrupt, sync, tids
    <2> QED BY <1>1, <1>2, <1>3, <2>1, YieldTyped, BootKept
  <1>4. CASE /\ TimerInterrupt
             /\ thread_ticks + 1 < TIME_SLICE /\ thread_ticks' = thread_ticks + 1
             /\ UNCHANGED <<cpu, status, ready_list>>
    <2>1. thread_ticks' \in 0 .. TIME_SLICE - 1
      BY <1>4, ThreadsAssumption, SMTT(30) DEF TypeOK
    <2>2. TypeOK'
      BY <1>1, <1>2, <1>4, <2>1, ZenonT(30) DEF TypeOK, TimerInterrupt, sync, tids
    <2> QED BY <1>1, <1>2, <1>4, <2>2, BootKept, ZenonT(30)
  <1>5. CASE DeviceInterrupt
    <2>1. PICK s \in Sema : sema_up(s)
      BY <1>5, SemaKinds DEF DeviceInterrupt
    <2>2. /\ UNCHANGED <<cpu, thread_ticks, holder, cond_waiters>>
          /\ status' \in [Thread -> Status] /\ ready_list' \in Seq(Thread)
          /\ value' \in [Sema -> Nat] /\ waiters' \in [Sema -> Seq(Thread)]
          /\ ToSet(ready_list) \subseteq ToSet(ready_list')
      BY <2>1, UpTyped, SMTT(30)
    <2>3. TypeOK'
      BY <1>1, <1>2, <2>2 DEF TypeOK, tids
    <2> QED BY <1>1, <1>2, <2>2, <2>3, BootKept, ZenonT(30)
  <1>6. TimerInterrupt => thread_yield \/ (/\ thread_ticks + 1 < TIME_SLICE
                                           /\ thread_ticks' = thread_ticks + 1
                                           /\ UNCHANGED <<cpu, status, ready_list>>)
    BY ThreadsAssumption DEF TimerInterrupt, TypeOK
  <1> QED BY <1>3, <1>4, <1>5, <1>6

LEMMA SwitchSteps ==
    ASSUME Typed, IdleBlock \/ CallYield \/ CallExit
    PROVE  Typed'
  <1> USE DEF Typed
  <1>1. CASE IdleBlock
    <2>1. code[cpu] # <<>> /\ cpu = Idle /\ ~Doing("start") /\ ~Doing("set_idle") /\ Advance
      BY <1>1, DoingObj, SMTT(30) DEF IdleBlock, Doing
    <2>2. idle_thread # NULL
      BY <2>1, OpNames, ZenonT(30) DEF Boot, At, Doing
    <2>3. /\ code' \in [Thread -> Seq(Op)]
          /\ \A t \in Thread : ShapeOf(t, code'[t])
          /\ \A t \in Thread \ {cpu} : code'[t] = code[t]
          /\ code'[cpu] # <<>> => code'[cpu][1][1] # "start"
      BY <2>1, AdvanceCode
    <2> DEFINE st == [status EXCEPT ![cpu] = "BLOCKED"]
    <2>4. st \in [Thread -> Status] /\ ready_list \in Seq(Thread) /\ schedule(st, ready_list)
      BY <1>1, SMTT(30) DEF TypeOK, Status, IdleBlock, thread_block
    <2> HIDE DEF st
    <2>5. ready_list # <<>> \/ idle_thread \in Thread
      BY <2>1, <2>2, <2>4, SomethingToRun
    <2>6. /\ cpu' \in Thread /\ status' \in [Thread -> Status] /\ ready_list' \in Seq(Thread)
          /\ thread_ticks' \in 0 .. TIME_SLICE - 1
      BY <2>4, <2>5, ScheduleTyped, SMTT(30)
    <2>7. TypeOK' /\ idle_thread' = idle_thread
      BY <1>1, <2>3, <2>6 DEF TypeOK, IdleBlock, sync, tids
    <2> QED BY <2>1, <2>2, <2>3, <2>7, BootKept
  <1>2. CASE CallYield
    <2>1. ~Doing("start") /\ code[cpu] = <<>> /\ code' = code /\ idle_thread' = idle_thread
      BY <1>2, SMTT(30) DEF CallYield, Doing
    <2>2. TypeOK'
      BY <1>2, <2>1, YieldTyped DEF CallYield, TypeOK, sync, tids
    <2>3. \A t \in Thread : ShapeOf(t, code'[t])
      BY <2>1, SMTT(30) DEF Boot
    <2> QED BY <1>2, <2>1, <2>2, <2>3, YieldTyped, BootKept, ZenonT(30) DEF CallYield
  <1>3. CASE CallExit
    <2> DEFINE e == <<"exec_sema", cpu>>
               w == <<"wait_sema", cpu>>
               ready == ready_list \o First(e) \o First(w)
               st == [Woken(Woken(status, e), w) EXCEPT ![cpu] = "DYING"]
    <2>1. cpu \in Thread /\ e \in Sema /\ w \in Sema
      BY SemaKinds, Zenon DEF TypeOK
    <2>2. /\ code[cpu] = <<>> /\ code' = code /\ idle_thread' = idle_thread
          /\ value' = [value EXCEPT ![e] = @ + 1, ![w] = @ + 1]
          /\ waiters' = [waiters EXCEPT ![e] = Rest(e), ![w] = Rest(w)]
          /\ schedule(st, ready)
          /\ UNCHANGED <<holder, cond_waiters, tids>>
      BY <1>3 DEF CallExit
    <2> HIDE DEF e, w
    <2>3. value' \in [Sema -> Nat]
      <3>1. value \in [Sema -> Nat] /\ \A s \in Sema : value[s] \in Nat
        BY DEF TypeOK
      <3>2. e # w
        BY DEF e, w
      <3>3. value' = [s \in Sema |-> IF s = e \/ s = w THEN value[s] + 1 ELSE value[s]]
        BY <2>1, <2>2, <3>1, <3>2, Zenon
      <3>4. \A s \in Sema : (IF s = e \/ s = w THEN value[s] + 1 ELSE value[s]) \in Nat
        BY <3>1
      <3> QED BY <3>3, <3>4, SMTT(30)
    <2>4. Rest(e) \in Seq(Thread) /\ Rest(w) \in Seq(Thread)
      BY <2>1, WakeTyped, Zenon DEF TypeOK
    <2>5. waiters' \in [Sema -> Seq(Thread)]
      BY <2>1, <2>2, <2>4, Zenon DEF TypeOK
    <2>6. st \in [Thread -> Status]
      <3>1. Woken(status, e) \in [Thread -> Status]
        BY <2>1, WakeTyped, SMTT(30) DEF TypeOK
      <3>2. Woken(Woken(status, e), w) \in [Thread -> Status]
        BY <3>1, <2>1, WakeTyped
      <3> QED BY <3>2, Zenon DEF Status
    <2>7. ready \in Seq(Thread) /\ ToSet(ready_list) \subseteq ToSet(ready)
      <3>1. ready_list \in Seq(Thread) /\ First(e) \in Seq(Thread) /\ First(w) \in Seq(Thread)
        BY <2>1, WakeTyped, ZenonT(30) DEF TypeOK
      <3>2. /\ ready_list \o First(e) \in Seq(Thread)
            /\ ToSet(ready_list) \subseteq ToSet(ready_list \o First(e))
        BY <3>1, ConcatKeeps, SMTT(30)
      <3> QED BY <3>1, <3>2, ConcatKeeps, Zenon
    <2>8. ~Doing("start") /\ (idle_thread = NULL => cpu # Idle)
      BY <2>2, ZenonT(30) DEF Doing, Boot, At
    <2> HIDE DEF ready, st
    <2>9. ready # <<>> \/ idle_thread \in Thread
      BY <2>7, <2>8, SomethingToRun
    <2>10. /\ cpu' \in Thread /\ status' \in [Thread -> Status] /\ ready_list' \in Seq(Thread)
           /\ thread_ticks' \in 0 .. TIME_SLICE - 1
           /\ \A t \in ToSet(ready) : t = cpu' \/ t \in ToSet(ready_list')
      BY <2>2, <2>6, <2>7, <2>9, ScheduleTyped, SMTT(30)
    <2>11. TypeOK'
      BY <2>2, <2>3, <2>5, <2>10, Zenon DEF TypeOK, tids
    <2>12. \A t \in Thread : ShapeOf(t, code'[t])
      BY <2>2 DEF Boot
    <2> QED BY <2>2, <2>7, <2>8, <2>10, <2>11, <2>12, BootKept, ZenonT(30)
  <1> QED BY <1>1, <1>2, <1>3, SMTT(30)

LEMMA TypedInit == Init => Typed
  <1> SUFFICES ASSUME Init PROVE Typed
    OBVIOUS
  <1>1. Main \in Thread /\ Idle \in Thread /\ Main # Idle /\ cpu = Main
    BY ThreadsAssumption, SMTT(30) DEF Thread, Init
  <1>2. /\ code \in [Thread -> Seq(Op)]
        /\ code[Main] = thread_start /\ code[Idle] = idle
        /\ \A t \in Thread \ {Main, Idle} : code[t] = <<>>
    BY <1>1, ShapeCalls, SMTT(30) DEF Init
  <1>3. TypeOK
    BY <1>1, <1>2, ThreadsAssumption, SMTT(30) DEF Init, TypeOK, Status
  <1>4. thread_start # <<>> /\ thread_start[1] = Start /\ idle # <<>> /\ idle[1] = SetIdle
    BY DEF thread_start, idle
  <1>5. \A t \in Thread : ShapeOf(t, code[t])
    BY <1>2, ShapeCalls, ShapeEmpty, SMTT(30)
  <1>6. Doing("start") /\ At(Idle, SetIdle)
    BY <1>1, <1>2, <1>4, OpNames DEF Doing, At
  <1>7. ASSUME NEW t \in Thread, At(t, Start) PROVE t = cpu
    BY <1>1, <1>2, <1>4, <1>7, OpNames DEF At
  <1> QED BY <1>3, <1>5, <1>6, <1>7 DEF Typed, Boot

LEMMA TypedStep == Typed /\ [Next]_vars => Typed'
  <1> SUFFICES ASSUME Typed, [Next]_vars PROVE Typed'
    OBVIOUS
  <1>1. CASE ThreadStep
    BY <1>1, SyncSteps, SemaDownTyped, WakeSteps, CondSteps, SwitchSteps DEF ThreadStep
  <1>2. CASE ThreadCall
    BY <1>2, CallSteps, SwitchSteps DEF ThreadCall
  <1>3. CASE TimerInterrupt \/ DeviceInterrupt
    BY <1>3, InterruptSteps, SMTT(30)
  <1>4. CASE UNCHANGED vars \/ Spin
    <2>1. UNCHANGED <<cpu, status, ready_list, thread_ticks, idle_thread, value, waiters,
                      holder, cond_waiters, code, tid, next_tid>>
      BY <1>4, SMTT(30) DEF Spin, vars, sched, sync, tids
    <2>2. TypeOK'
      BY <2>1, SMTT(30) DEF Typed, TypeOK
    <2>3. Doing("start")' = Doing("start") /\ At(Idle, SetIdle)' = At(Idle, SetIdle)
      BY <2>1 DEF Doing, At
    <2>4. \A t \in Thread : At(t, Start)' = At(t, Start)
      BY <2>1, SMTT(30) DEF At
    <2>5. \A t \in Thread : ShapeOf(t, code[t])'
      <3> TAKE t \in Thread
      <3>1. ShapeOf(t, code[t])
        BY DEF Typed, Boot
      <3> QED BY <2>1, <3>1, ZenonT(30) DEF ShapeOf
    <2>6. Boot'
      BY <2>1, <2>3, <2>4, <2>5 DEF Typed, Boot
    <2> QED BY <2>2, <2>6, SMTT(30) DEF Typed
  <1> QED BY <1>1, <1>2, <1>3, <1>4 DEF Next

(* Every variable keeps its type in every run of the kernel.  In           *)
(* particular schedule() always finds a thread to switch to, although      *)
(* idle_thread is null until the idle thread has run for the first time,   *)
(* and no thread outruns its time slice.                                   *)
THEOREM TypeCorrect == Spec => []TypeOK
  <1>1. Spec => []Typed
    BY TypedInit, TypedStep, PTL DEF Spec
  <1> QED BY <1>1, PTL DEF Typed
=============================================================================
