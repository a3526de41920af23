---------------------------- MODULE ThreadsLocks ----------------------------
(* Mutual exclusion of the locks of Threads.                               *)
EXTENDS ThreadsTypes

-----------------------------------------------------------------------------
(* Mutual exclusion.                                                       *)

(* The strengthening: lock_release() has cleared holder before it ups the  *)
(* semaphore, so the owner of a lock owns it for one reason at a time.     *)
LockInv ==
    /\ MutualExclusion
    /\ \A l \in Locks, t \in Thread : At(t, Up(l)) => holder[l] # t

(* The steps that no lock notices.                                         *)
LEMMA LockSame ==
    ASSUME Typed, LockInv, holder' = holder,
           \A l \in Locks : value'[l] = value[l],
           \A l \in Locks, t \in Thread :
              (At(t, Hold(l))' <=> At(t, Hold(l))) /\ (At(t, Up(l))' <=> At(t, Up(l)))
    PROVE  LockInv'
  <1>1. ASSUME NEW l \in Locks PROVE Owners(l)' = Owners(l)
    BY DEF Owners
  <1> QED BY <1>1 DEF LockInv, MutualExclusion

(* They leave the CPU's thread at no assignment of holder and at no sema_up() *)
(* of a lock, before and after.                                            *)
LEMMA LockSameCode ==
    ASSUME Typed, LockInv, holder' = holder,
           \A l \in Locks : value'[l] = value[l],
           \A t \in Thread \ {cpu} : code'[t] = code[t],
           code[cpu] # <<>> => code[cpu][1][1] \notin {"hold"} /\
                               \A l \in Locks : code[cpu][1] # Up(l),
           code'[cpu] # <<>> => \A l \in Locks : code'[cpu][1] \notin {Hold(l), Up(l)}
    PROVE  LockInv'
  <1>1. ASSUME NEW l \in Locks, NEW t \in Thread
        PROVE  (At(t, Hold(l))' <=> At(t, Hold(l))) /\ (At(t, Up(l))' <=> At(t, Up(l)))
    <2>1. CASE t = cpu
      <3>1. ~At(t, Hold(l)) /\ ~At(t, Up(l))
        BY <2>1, OpNames DEF At
      <3>2. ~(code'[t] # <<>> /\ code'[t][1] = Hold(l)) /\ ~(code'[t] # <<>> /\ code'[t][1] = Up(l))
        BY <2>1
      <3>3. ~At(t, Hold(l))' /\ ~At(t, Up(l))'
        BY <3>2 DEF At, Hold, Up
      <3> QED BY <3>1, <3>3
    <2>2. CASE t # cpu
      BY <2>2 DEF At, Hold, Up
    <2> QED BY <2>1, <2>2
  <1> QED BY <1>1, LockSame

(* A lock's semaphore is taken, by sema_down() or sema_try_down().         *)
LEMMA LockTaken ==
    ASSUME Typed, LockInv, NEW l \in Locks, value[l] # 0,
           holder' = holder, value' = [value EXCEPT ![l] = @ - 1],
           \A t \in Thread \ {cpu} : code'[t] = code[t],
           code[cpu] # <<>> => code[cpu][1] \in {Down(l), Wait(l)},
           code'[cpu] # <<>>, code'[cpu][1] = Hold(l)
    PROVE  LockInv'
  <1>0. cpu \in Thread /\ value \in [Sema -> Nat] /\ Locks \subseteq Sema
    BY SemaKinds DEF Typed, TypeOK
  <1>1. Owners(l) = {} /\ value[l] = 1
    BY DEF LockInv, MutualExclusion
  <1>2. value'[l] = 0 /\ \A m \in Locks \ {l} : value'[m] = value[m]
    BY <1>0, <1>1, SMTT(30)
  <1>3. ASSUME NEW m \in Locks
        PROVE  /\ ~At(cpu, Hold(m)) /\ ~At(cpu, Up(m))
               /\ code'[cpu][1] = Hold(m) <=> m = l
               /\ code'[cpu][1] # Up(m)
    BY OpNames DEF At
  <1>4. Owners(l)' = {cpu}
    <2>1. cpu \in Owners(l)'
      BY <1>0 DEF Owners, At
    <2>2. ASSUME NEW t \in Thread, t # cpu PROVE t \notin Owners(l)'
      <3>1. code'[t] = code[t] /\ t \notin Owners(l)
        BY <1>1, <2>2
      <3> QED BY <3>1 DEF Owners, At, Hold, Up
    <2> QED BY <2>1, <2>2, SMTT(30) DEF Owners
  <1>5. ASSUME NEW m \in Locks, m # l PROVE Owners(m)' = Owners(m)
    <2>1. ASSUME NEW t \in Thread PROVE t \in Owners(m)' <=> t \in Owners(m)
      <3>1. CASE t = cpu
        BY <3>1, <1>3, <1>5 DEF Owners, At
      <3>2. CASE t # cpu
        BY <3>2 DEF Owners, At, Hold, Up
      <3> QED BY <3>1, <3>2
    <2> QED BY <2>1 DEF Owners
  <1>6. MutualExclusion'
    <2>1. ASSUME NEW m \in Locks
          PROVE  /\ \A t, u \in Owners(m)' : t = u
                 /\ value'[m] = IF Owners(m)' = {} THEN 1 ELSE 0
      <3>1. CASE m = l
        BY <3>1, <1>2, <1>4, SMTT(30)
      <3>2. CASE m # l
        BY <3>2, <1>2, <1>5 DEF LockInv, MutualExclusion
      <3> QED BY <3>1, <3>2
    <2> QED BY <2>1 DEF MutualExclusion
  <1>7. ASSUME NEW m \in Locks, NEW t \in Thread, At(t, Up(m))' PROVE holder'[m] # t
    <2>1. t # cpu
      BY <1>3, <1>7 DEF At
    <2>2. At(t, Up(m))
      BY <2>1, <1>7 DEF At, Up
    <2> QED BY <2>2 DEF LockInv
  <1> QED BY <1>6, <1>7 DEF LockInv

(* holder is assigned, by the thread that owns the lock before and after.  *)
LEMMA LockHeld ==
    ASSUME Typed, LockInv, LockHold \/ LockDrop
    PROVE  LockInv'
  <1> DEFINE l == Obj
  <1>1. /\ cpu \in Thread /\ l \in Locks /\ code[cpu] # <<>> /\ Advance
        /\ holder \in [Locks -> Thread \cup {NULL}] /\ cpu # NULL
        /\ value' = value
    BY DoingObj, ThreadsAssumption, SMTT(30) DEF Typed, TypeOK, LockHold, LockDrop, Doing
  <1>2. /\ LockHold => code[cpu][1] = Hold(l)
        /\ LockDrop => code[cpu][1] = Drop(l) /\ holder[l] = cpu
    <2>1. code[cpu][1] \in Op
      BY <1>1, DoingObj DEF Typed
    <2> QED BY <2>1, OpKinds, SMTT(30) DEF LockHold, LockDrop, Doing, Obj, Hold, Drop
  <1>3. /\ LockHold => holder' = [holder EXCEPT ![l] = cpu]
        /\ LockDrop => holder' = [holder EXCEPT ![l] = NULL]
    BY DEF LockHold, LockDrop
  <1> HIDE DEF l
  <1>4. /\ \A t \in Thread \ {cpu} : code'[t] = code[t]
        /\ \A m \in Locks :
             /\ ~(code'[cpu] # <<>> /\ code'[cpu][1] = Hold(m))
             /\ (code'[cpu] # <<>> /\ code'[cpu][1] = Up(m)) <=> LockDrop /\ m = l
    <2>1. \A t \in Thread \ {cpu} : code'[t] = code[t]
      BY <1>1, AdvanceCode, SMTT(30) DEF Typed
    <2>2. ASSUME NEW m \in Locks
          PROVE  /\ code'[cpu] # <<>> /\ code'[cpu][1] = Hold(m) => code[cpu][1] \in {Down(m), Wait(m)}
                 /\ code'[cpu] # <<>> /\ code'[cpu][1] = Up(m) => code[cpu][1] = Drop(m)
                 /\ code[cpu][1] = Drop(m) => code'[cpu] # <<>> /\ code'[cpu][1] = Up(m)
      BY <1>1, AdvanceCode, SMTT(30) DEF Typed
    <2>3. ASSUME NEW m \in Locks
          PROVE  /\ code[cpu][1] \notin {Down(m), Wait(m)}
                 /\ code[cpu][1] = Drop(m) <=> LockDrop /\ m = l
      BY <1>2, OpNames
    <2> QED BY <2>1, <2>2, <2>3
  <1>5. ASSUME NEW m \in Locks PROVE Owners(m)' = Owners(m)
    <2>1. ASSUME NEW t \in Thread, t # cpu PROVE t \in Owners(m)' <=> t \in Owners(m)
      <3>1. (At(t, Hold(m))' <=> At(t, Hold(m))) /\ (At(t, Up(m))' <=> At(t, Up(m)))
        BY <1>4, <2>1, SMTT(30) DEF At, Hold, Up
      <3>2. CASE m # l
        <4>1. holder'[m] = holder[m]
          BY <1>1, <1>3, <3>2
        <4> QED BY <3>1, <4>1 DEF Owners
      <3>3. CASE m = l
        <4>1. cpu \in Owners(l)
          BY <1>1, <1>2, SMTT(30) DEF Owners, At
        <4>2. t \notin Owners(l)
          BY <1>1, <2>1, <4>1 DEF LockInv, MutualExclusion
        <4>3. holder'[l] # t
          BY <1>1, <1>3, <2>1, ThreadsAssumption
        <4> QED BY <3>1, <3>3, <4>2, <4>3 DEF Owners
      <3> QED BY <3>2, <3>3, SMTT(30)
    <2>2. cpu \in Owners(m)' <=> cpu \in Owners(m)
      <3>1. CASE m # l
        <4>1. holder'[m] = holder[m]
          BY <1>1, <1>3, <3>1, SMTT(30)
        <4>2. ~At(cpu, Hold(m)) /\ ~At(cpu, Up(m))
          BY <1>2, <3>1, OpNames DEF At
        <4> QED BY <1>4, <3>1, <4>1, <4>2 DEF Owners, At
      <3>2. CASE m = l
        <4>1. cpu \in Owners(l)
          BY <1>1, <1>2, SMTT(30) DEF Owners, At
        <4>2. CASE LockHold
          <5>1. holder'[l] = cpu
            BY <1>1, <1>3, <4>2
          <5> QED BY <1>1, <3>2, <4>1, <5>1 DEF Owners
        <4>3. CASE LockDrop
          <5>1. code'[cpu] # <<>> /\ code'[cpu][1] = Up(l)
            BY <1>1, <1>4, <4>3
          <5> QED BY <1>1, <3>2, <4>1, <5>1 DEF Owners, At
        <4> QED BY <4>2, <4>3
      <3> QED BY <3>1, <3>2, SMTT(30)
    <2> QED BY <2>1, <2>2 DEF Owners
  <1>6. MutualExclusion'
    BY <1>1, <1>5, SMTT(30) DEF LockInv, MutualExclusion
  <1>7. ASSUME NEW m \in Locks, NEW t \in Thread, At(t, Up(m))' PROVE holder'[m] # t
    <2>1. CASE t = cpu
      <3>1. LockDrop /\ m = l
        BY <1>4, <1>7, <2>1 DEF At
      <3> QED BY <1>1, <1>3, <2>1, <3>1
    <2>2. CASE t # cpu
      <3>1. At(t, Up(m)) /\ holder[m] # t
        BY <1>4, <1>7, <2>2 DEF At, Up, LockInv
      <3> QED BY <1>1, <1>3, <2>2, <3>1, ThreadsAssumption
    <2> QED BY <2>1, <2>2
  <1> QED BY <1>6, <1>7, SMTT(30) DEF LockInv

(* The sema_up() that ends lock_release().                                 *)
LEMMA LockUpped ==
    ASSUME Typed, LockInv, NEW l \in Locks, code[cpu] # <<>>, code[cpu][1] = Up(l),
           holder' = holder, value' = [value EXCEPT ![l] = @ + 1],
           \A t \in Thread \ {cpu} : code'[t] = code[t],
           code'[cpu] # <<>> => \A m \in Locks : code'[cpu][1] \notin {Hold(m), Up(m)}
    PROVE  LockInv'
  <1>0. cpu \in Thread /\ value \in [Sema -> Nat] /\ Locks \subseteq Sema
    BY SemaKinds DEF Typed, TypeOK
  <1>1. At(cpu, Up(l)) /\ cpu \in Owners(l) /\ holder[l] # cpu
    BY <1>0 DEF At, Owners, LockInv
  <1>2. value[l] = 0 /\ \A t \in Owners(l) : t = cpu
    BY <1>1 DEF LockInv, MutualExclusion
  <1>3. value'[l] = 1 /\ \A m \in Locks \ {l} : value'[m] = value[m]
    BY <1>0, <1>2
  <1>4. ASSUME NEW m \in Locks, NEW t \in Thread
        PROVE  /\ t = cpu => ~At(t, Hold(m))' /\ ~At(t, Up(m))'
               /\ t # cpu => (At(t, Hold(m))' <=> At(t, Hold(m))) /\ (At(t, Up(m))' <=> At(t, Up(m)))
    BY ZenonT(30) DEF At, Hold, Up
  <1>5. Owners(l)' = {}
    <2>1. ASSUME NEW t \in Thread PROVE t \notin Owners(l)'
      <3>1. CASE t = cpu
        BY <3>1, <1>1, <1>4 DEF Owners
      <3>2. CASE t # cpu
        <4>1. t \notin Owners(l)
          BY <3>2, <1>2, SMTT(30)
        <4> QED BY <3>2, <4>1, <1>4 DEF Owners
      <3> QED BY <3>1, <3>2
    <2> QED BY <2>1 DEF Owners
  <1>6. ASSUME NEW m \in Locks, m # l PROVE Owners(m)' = Owners(m)
    <2>1. ~At(cpu, Hold(m)) /\ ~At(cpu, Up(m))
      BY <1>6, OpNames DEF At
    <2>2. ASSUME NEW t \in Thread PROVE t \in Owners(m)' <=> t \in Owners(m)
      <3>1. CASE t = cpu
        BY <3>1, <2>1, <1>4 DEF Owners
      <3>2. CASE t # cpu
        BY <3>2, <1>4 DEF Owners
      <3> QED BY <3>1, <3>2, SMTT(30)
    <2> QED BY <2>2 DEF Owners
  <1>7. ASSUME NEW m \in Locks
        PROVE  /\ \A t, u \in Owners(m)' : t = u
               /\ value'[m] = IF Owners(m)' = {} THEN 1 ELSE 0
    <2>1. CASE m = l
      BY <2>1, <1>3, <1>5
    <2>2. CASE m # l
      BY <2>2, <1>3, <1>6 DEF LockInv, MutualExclusion
    <2> QED BY <2>1, <2>2
  <1>8. ASSUME NEW m \in Locks, NEW t \in Thread, At(t, Up(m))' PROVE holder'[m] # t
    BY <1>4, <1>8 DEF LockInv
  <1> QED BY <1>7, <1>8, SMTT(30) DEF LockInv, MutualExclusion

LEMMA LockInit == Init => LockInv
  <1> SUFFICES ASSUME Init PROVE LockInv
    OBVIOUS
  <1>1. /\ code[Main] = thread_start /\ code[Idle] = idle
        /\ \A t \in Thread \ {Main, Idle} : code[t] = <<>>
        /\ Main \in Thread /\ Idle \in Thread /\ Locks \subseteq Sema
    BY ThreadsAssumption, SemaKinds DEF Init, Thread
  <1>2. thread_start # <<>> /\ thread_start[1] = Start /\ idle # <<>> /\ idle[1] = SetIdle
    BY DEF thread_start, idle
  <1>3. ASSUME NEW l \in Locks, NEW t \in Thread
        PROVE  ~At(t, Hold(l)) /\ ~At(t, Up(l)) /\ holder[l] # t
    BY <1>1, <1>2, OpNames, ThreadsAssumption DEF At, Init
  <1>4. ASSUME NEW l \in Locks PROVE Owners(l) = {} /\ value[l] = 1
    BY <1>1, <1>3 DEF Owners, Init
  <1> QED BY <1>3, <1>4 DEF LockInv, MutualExclusion

LEMMA LockThreadStep ==
    ASSUME Typed, LockInv, ThreadStep
    PROVE  LockInv'
  <1> USE DEF Typed
  <1>0. /\ cpu \in Thread /\ value \in [Sema -> Nat] /\ Locks \subseteq Sema
        /\ \A t \in Thread : <<"waiter", t>> \in Sema /\ <<"waiter", t>> \notin Locks
    BY SemaKinds, Zenon DEF TypeOK
  <1>1. /\ code[cpu] # <<>> => code[cpu][1] \in Op
        /\ code[cpu] # <<>> /\ Advance =>
             /\ \A t \in Thread \ {cpu} : code'[t] = code[t]
             /\ \A m \in Locks :
                  /\ code'[cpu] # <<>> /\ code'[cpu][1] = Hold(m) => code[cpu][1] \in {Down(m), Wait(m)}
                  /\ code'[cpu] # <<>> /\ code'[cpu][1] = Up(m) => code[cpu][1] = Drop(m)
                  /\ code[cpu][1] \in {Down(m), Wait(m)} => code'[cpu] # <<>> /\ code'[cpu][1] = Hold(m)
    BY DoingObj, AdvanceCode
  <1>2. CASE SemaDown
    <2>1. code[cpu] # <<>> /\ Obj \in Sema /\ code[cpu][1] \in {Down(Obj), Wait(Obj)} /\ holder' = holder
      BY <1>1, <1>2, DoingObj, OpKinds, ZenonT(30) DEF SemaDown, Doing, Obj, Down, Wait
    <2>2. CASE value[Obj] = 0
      <3>1. /\ code' = [code EXCEPT ![cpu] = <<Wait(Obj)>> \o Tail(@)] /\ value' = value
        BY <1>2, <2>2 DEF SemaDown
      <3>2. code'[cpu] = <<Wait(Obj)>> \o Tail(code[cpu]) /\ \A t \in Thread \ {cpu} : code'[t] = code[t]
        BY <1>0, <3>1, SMTT(30) DEF TypeOK
      <3>3. Tail(code[cpu]) \in Seq(Op) /\ Wait(Obj) \in Op
        BY <1>0, <2>1, OpsInOp DEF TypeOK
      <3>4. code'[cpu][1] = Wait(Obj)
        BY <3>2, <3>3
      <3> QED BY <2>1, <3>1, <3>2, <3>4, OpNames, LockSameCode
    <2>3. CASE value[Obj] # 0
      <3>1. Advance /\ value' = [value EXCEPT ![Obj] = @ - 1]
        BY <1>2, <2>3, SMTT(30) DEF SemaDown
      <3>2. CASE Obj \in Locks
        BY <1>1, <2>1, <2>3, <3>1, <3>2, LockTaken, ZenonT(30)
      <3>3. CASE Obj \notin Locks
        <4>1. \A m \in Locks : value'[m] = value[m] /\ code[cpu][1] \notin {Down(m), Wait(m), Drop(m), Up(m)}
          <5>1. \A m \in Locks : m # Obj
            BY <3>3
          <5>2. \A m \in Locks : value'[m] = value[m]
            BY <1>0, <2>1, <3>1, <5>1
          <5>3. \A m \in Locks : code[cpu][1] \notin {Down(m), Wait(m), Drop(m), Up(m)}
            BY <2>1, <5>1 DEF Down, Wait, Drop, Up
          <5> QED BY <5>2, <5>3
        <4> QED BY <1>1, <2>1, <3>1, <4>1, OpNames, LockSameCode
      <3> QED BY <3>2, <3>3
    <2> QED BY <2>2, <2>3, SMTT(30)
  <1>3. CASE SemaUp
    <2>1. /\ code[cpu] # <<>> /\ Obj \in Sema /\ code[cpu][1] = Up(Obj) /\ Advance
          /\ holder' = holder /\ value' = [value EXCEPT ![Obj] = @ + 1]
      BY <1>1, <1>3, DoingObj, OpKinds DEF SemaUp, sema_up, Doing, Obj, Up
    <2>2. \A m \in Locks : code[cpu][1] \notin {Down(m), Wait(m), Drop(m)}
      BY <2>1, OpNames, SMTT(30)
    <2>3. code'[cpu] # <<>> => \A m \in Locks : code'[cpu][1] \notin {Hold(m), Up(m)}
      BY <1>1, <2>1, <2>2
    <2>4. CASE Obj \in Locks
      BY <1>1, <2>1, <2>3, <2>4, LockUpped, ZenonT(30)
    <2>5. CASE Obj \notin Locks
      <3>1. \A m \in Locks : value'[m] = value[m] /\ code[cpu][1] # Up(m)
        <4>1. \A m \in Locks : m # Obj
          BY <2>5
        <4>2. \A m \in Locks : value'[m] = value[m]
          BY <1>0, <2>1, <4>1
        <4>3. \A m \in Locks : Up(Obj) # Up(m)
          BY <4>1 DEF Up
        <4> QED BY <2>1, <4>2, <4>3
      <3> QED BY <1>1, <2>1, <2>3, <3>1, OpNames, LockSameCode
    <2> QED BY <2>4, <2>5
  <1>4. CASE LockHold \/ LockDrop
    BY <1>4, LockHeld, SMTT(30)
  <1>5. CASE CondPush \/ TidRead \/ TidWrite \/ ThreadUnblock \/ ThreadStart \/ IdleSet \/ IdleBlock
             \/ KernelFault
    <2>1. /\ code[cpu] # <<>> /\ Advance /\ holder' = holder
          /\ code[cpu][1][1] \notin {"down", "wait", "up", "hold", "drop"}
      BY <1>5 DEF CondPush, TidRead, TidWrite, ThreadUnblock, ThreadStart, IdleSet, IdleBlock,
                  KernelFault, Doing, sync
    <2>2. \A m \in Locks : value'[m] = value[m]
      <3>1. CASE CondPush
        BY <3>1, <1>0, SMTT(30) DEF CondPush
      <3>2. CASE ~CondPush
        BY <3>2, <1>5, SMTT(30) DEF TidRead, TidWrite, ThreadUnblock, ThreadStart, IdleSet, IdleBlock,
                                     KernelFault, sync
      <3> QED BY <3>1, <3>2
    <2>3. \A m \in Locks : code[cpu][1] \notin {Down(m), Wait(m), Drop(m), Up(m)}
      BY <2>1, OpNames, SMTT(30)
    <2> QED BY <1>1, <2>1, <2>2, <2>3, LockSameCode
  <1>6. CASE CondSignal \/ CondBroadcast
    <2>1. /\ code[cpu] # <<>> /\ holder' = holder /\ value' = value /\ Obj \in Conds
          /\ code[cpu][1][1] \in {"signal", "broadcast"} /\ code[cpu] \in Seq(Op)
      BY <1>6, DoingObj, SMTT(30) DEF CondSignal, CondBroadcast, Doing, sync
    <2>2. \A m \in Locks : code[cpu][1] \notin {Down(m), Wait(m), Drop(m), Up(m)}
      BY <2>1, OpNames, SMTT(30)
    <2>3. CASE Advance
      BY <1>1, <2>1, <2>2, <2>3, LockSameCode
    <2>4. CASE CondSignal /\ cond_waiters[Obj] # <<>>
      <3> DEFINE x == Up(<<"waiter", Head(cond_waiters[Obj])>>)
      <3>1. Head(cond_waiters[Obj]) \in Thread
        BY <2>1, <2>4, SMTT(30) DEF TypeOK
      <3>2. x \in Op /\ \A m \in Locks : x \notin {Hold(m), Up(m)}
        BY <1>0, <3>1, OpsInOp, OpNames
      <3>3. code' = [code EXCEPT ![cpu] = <<x>> \o Tail(@)]
        BY <2>4 DEF CondSignal
      <3> HIDE DEF x
      <3>4. code'[cpu] = <<x>> \o Tail(code[cpu]) /\ \A t \in Thread \ {cpu} : code'[t] = code[t]
        BY <1>0, <3>3, SMTT(30) DEF TypeOK
      <3>5. code'[cpu][1] = x
        BY <2>1, <3>2, <3>4
      <3> QED BY <2>1, <2>2, <3>2, <3>4, <3>5, LockSameCode
    <2>5. CASE CondBroadcast /\ cond_waiters[Obj] # <<>>
      <3> DEFINE x == Signal(Obj)
      <3>1. x \in Op /\ \A m \in Locks : x \notin {Hold(m), Up(m)}
        BY <2>1, OpsInOp, OpNames, SMTT(30)
      <3>2. code' = [code EXCEPT ![cpu] = <<x>> \o @]
        BY <2>5 DEF CondBroadcast
      <3> HIDE DEF x
      <3>3. code'[cpu] = <<x>> \o code[cpu] /\ \A t \in Thread \ {cpu} : code'[t] = code[t]
        BY <1>0, <3>2, SMTT(30) DEF TypeOK
      <3>4. code'[cpu][1] = x
        BY <2>1, <3>1, <3>3
      <3> QED BY <2>1, <2>2, <3>1, <3>3, <3>4, LockSameCode
    <2> QED BY <1>6, <2>3, <2>4, <2>5, SMTT(30) DEF CondSignal, CondBroadcast
  <1> QED BY <1>2, <1>3, <1>4, <1>5, <1>6 DEF ThreadStep

LEMMA LockCalls ==
    ASSUME Typed, LockInv, ThreadCall
    PROVE  LockInv'
  <1> USE DEF Typed
  <1>0. /\ cpu \in Thread /\ value \in [Sema -> Nat] /\ Locks \subseteq Sema /\ Semas \subseteq Sema
        /\ Semas \cap Locks = {}
        /\ code[cpu] = <<>> /\ code \in [Thread -> Seq(Op)]
        /\ holder' = holder
    BY SemaKinds, ZenonT(30) DEF TypeOK, ThreadCall, CallSync, CallTry, TryDown, CallCreate, CallYield, CallExit,
                     CallExitMain,
                     Call, sync
  <1>1. CASE CallSync \/ CallCreate \/ CallExitMain
    <2>1. PICK s : /\ code' = [code EXCEPT ![cpu] = s]
                   /\ s # <<>> => s[1][1] \in {"down", "drop", "push", "signal", "broadcast", "fault"}
                                  \/ \E x \in Semas : s[1] = Up(x)
      <3>1. CASE CallSync
        <4>1. CASE \E x : Call(<<Down(x)>>)
          <5>1. PICK x : Call(<<Down(x)>>)
            BY <4>1
          <5>2. <<Down(x)>>[1][1] = "down"
            BY OpNames
          <5> QED BY <5>1, <5>2, Zenon DEF Call
        <4>2. CASE \E x \in Semas : Call(<<Up(x)>>)
          BY <4>2, Zenon DEF Call
        <4>3. CASE \E l \in Locks : Call(lock_acquire(l)) \/ Call(lock_release(l))
          <5>1. PICK l \in Locks : Call(lock_acquire(l)) \/ Call(lock_release(l))
            BY <4>3
          <5>2. lock_acquire(l)[1] = Down(l) /\ lock_release(l)[1] = Drop(l)
            BY DEF lock_acquire, lock_release
          <5> QED BY <5>1, <5>2, OpNames, SMTT(30) DEF Call
        <4>4. CASE \E c \in Conds : \/ Call(cond_wait(c, cpu))
                                    \/ Call(<<Signal(c)>>) \/ Call(<<Broadcast(c)>>)
          <5>1. PICK c \in Conds : \/ Call(cond_wait(c, cpu))
                                   \/ Call(<<Signal(c)>>) \/ Call(<<Broadcast(c)>>)
            BY <4>4
          <5>2. cond_wait(c, cpu)[1] = Push(c)
            BY <1>0, CallsWritten, Zenon
          <5> QED BY <5>1, <5>2, OpNames DEF Call
        <4> QED BY <3>1, <4>1, <4>2, <4>3, <4>4, Zenon DEF CallSync
      <3>2. CASE CallCreate
        <4>1. PICK u \in Worker : Call(thread_create(u))
          BY <3>2, SMTT(30) DEF CallCreate
        <4>2. thread_create(u)[1] = Down(TidLock)
          BY CallsWritten, SMTT(30)
        <4>3. thread_create(u)[1][1] = "down"
          BY <4>2, OpNames
        <4> QED BY <4>1, <4>3, ZenonT(30) DEF Call
      <3>3. CASE CallExitMain
        <4>1. thread_exit_main[1] = Fault
          BY DEF thread_exit_main
        <4> QED BY <3>3, <4>1, OpNames, Zenon DEF CallExitMain, Call
      <3> QED BY <1>1, <3>1, <3>2, <3>3
    <2>2. code'[cpu] = s /\ \A t \in Thread \ {cpu} : code'[t] = code[t]
      BY <1>0, <2>1
    <2>3. code'[cpu] # <<>> => \A l \in Locks : code'[cpu][1] \notin {Hold(l), Up(l)}
      <3>1. ASSUME code'[cpu] # <<>>, NEW l \in Locks PROVE code'[cpu][1] \notin {Hold(l), Up(l)}
        <4>1. CASE s[1][1] \in {"down", "drop", "push", "signal", "broadcast", "fault"}
          BY <2>2, <4>1, NotOwnerOp
        <4>2. CASE \E x \in Semas : s[1] = Up(x)
          <5>1. PICK x \in Semas : s[1] = Up(x)
            BY <4>2
          <5>2. x # l
            BY SemaKinds, SMTT(30)
          <5>3. Up(x)[1] = "up" /\ Up(x)[2] = x /\ Up(l)[2] = l /\ Hold(l)[1] = "hold"
            BY OpNames, SMTT(30)
          <5> QED BY <2>2, <5>1, <5>2, <5>3
        <4> QED BY <2>1, <2>2, <3>1, <4>1, <4>2
      <3> QED BY <3>1
    <2>4. value' = value
      BY <1>1, SMTT(30) DEF CallSync, CallCreate, CallExitMain, sync
    <2> QED BY <1>0, <2>2, <2>3, <2>4, LockSameCode
  <1>2. CASE \E s \in Semas : TryDown(s, <<>>)
    <2>1. PICK s \in Semas : TryDown(s, <<>>)
      BY <1>2
    <2>2. code'[cpu] = <<>> /\ \A t \in Thread \ {cpu} : code'[t] = code[t]
      BY <1>0, <2>1, SMTT(30) DEF TryDown, Call
    <2>3. \A l \in Locks : value'[l] = value[l]
      BY <1>0, <2>1, SMTT(30) DEF TryDown
    <2> QED BY <1>0, <2>2, <2>3, LockSameCode, SMTT(30)
  <1>3. CASE \E l \in Locks : TryDown(l, <<Hold(l)>>)
    <2>1. PICK l \in Locks : TryDown(l, <<Hold(l)>>)
      BY <1>3, SMTT(30)
    <2>2. /\ code'[cpu] = <<Hold(l)>> /\ \A t \in Thread \ {cpu} : code'[t] = code[t]
          /\ value[l] # 0 /\ value' = [value EXCEPT ![l] = @ - 1]
      BY <1>0, <2>1, SMTT(30) DEF TryDown, Call
    <2>3. code'[cpu] # <<>> /\ code'[cpu][1] = Hold(l)
      BY <2>2
    <2> QED BY <1>0, <2>2, <2>3, LockTaken, ZenonT(30)
  <1>4. CASE CallYield
    <2>1. code' = code /\ value' = value
      BY <1>4 DEF CallYield, sync
    <2> QED BY <1>0, <2>1, LockSameCode
  <1>5. CASE CallExit
    <2>1. code' = code /\ \A l \in Locks : value'[l] = value[l]
      <3>1. <<"exec_sema", cpu>> \notin Locks /\ <<"wait_sema", cpu>> \notin Locks
        BY <1>0, SemaKinds, ZenonT(30)
      <3> QED BY <1>0, <1>5, <3>1, ZenonT(30) DEF CallExit
    <2> QED BY <1>0, <2>1, LockSameCode
  <1> QED BY <1>1, <1>2, <1>3, <1>4, <1>5 DEF ThreadCall, CallTry

LEMMA LockInterrupts ==
    ASSUME Typed, LockInv, TimerInterrupt \/ DeviceInterrupt
    PROVE  LockInv'
  <1>1. holder' = holder /\ EndHlt
    BY DEF TimerInterrupt, DeviceInterrupt, sema_up, sync
  <1>2. \A l \in Locks : value'[l] = value[l]
    <2>1. CASE TimerInterrupt
      BY <2>1 DEF TimerInterrupt, sync
    <2>2. CASE DeviceInterrupt
      BY <2>2, SemaKinds, SMTT(30) DEF DeviceInterrupt, sema_up, Typed, TypeOK
    <2> QED BY <2>1, <2>2
  <1>3. CASE Doing("hlt")
    <2>1. code'[cpu] = <<Block, Hlt>> /\ \A t \in Thread \ {cpu} : code'[t] = code[t]
      BY <1>1, <1>3, EndHltCode, SMTT(30)
    <2>2. code'[cpu][1] = Block
      BY <2>1, SMTT(30)
    <2>3. \A l \in Locks : code'[cpu][1] \notin {Hold(l), Up(l)} /\ code[cpu][1] # Up(l)
      BY <1>3, <2>2, OpNames, SMTT(30) DEF Doing
    <2> QED BY <1>1, <1>2, <1>3, <2>1, <2>3, LockSameCode DEF Doing
  <1>4. CASE ~Doing("hlt")
    <2>1. code' = code
      BY <1>1, <1>4, EndHltCode
    <2>2. \A l \in Locks, t \in Thread :
            (At(t, Hold(l))' <=> At(t, Hold(l))) /\ (At(t, Up(l))' <=> At(t, Up(l)))
      BY <2>1 DEF At, Hold, Up
    <2> QED BY <1>1, <1>2, <2>2, LockSame, SMTT(30)
  <1> QED BY <1>3, <1>4

LEMMA LockStutter ==
    ASSUME Typed, LockInv, UNCHANGED vars
    PROVE  LockInv'
  <1>1. \A l \in Locks, t \in Thread :
          (At(t, Hold(l))' <=> At(t, Hold(l))) /\ (At(t, Up(l))' <=> At(t, Up(l)))
    BY DEF vars, At, Hold, Up
  <1> QED BY <1>1, LockSame DEF vars, sync

(* Locks exclude: in every run, at most one thread is between the          *)
(* sema_down() of lock_acquire() and the end of lock_release(), and the    *)
(* lock's semaphore is 1 exactly when nobody is, however the scheduler     *)
(* and the interrupts cut those two functions into pieces.                 *)
THEOREM LocksExclude == Spec => []MutualExclusion
  <1>1. Init => Typed /\ LockInv
    BY TypedInit, LockInit
  <1>2. Typed /\ LockInv /\ [Next]_vars => (Typed /\ LockInv)'
    <2> SUFFICES ASSUME Typed, LockInv, [Next]_vars PROVE Typed' /\ LockInv'
      OBVIOUS
    <2>1. LockInv'
      BY LockThreadStep, LockCalls, LockInterrupts, LockStutter DEF Next, Spin
    <2> QED BY <2>1, TypedStep
  <1>3. Spec => [](Typed /\ LockInv)
    BY <1>1, <1>2, PTL DEF Spec
  <1> QED BY <1>3, PTL DEF LockInv
=============================================================================
