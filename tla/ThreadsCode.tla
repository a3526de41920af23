---------------------------- MODULE ThreadsCode ----------------------------
(* Lemmas about the lists of operations that kernel calls are made of in   *)
(* Threads: which operations there are, and in what order they can come.   *)
EXTENDS Threads, ListLemmas, TLAPS

-----------------------------------------------------------------------------
(* The operations of kernel calls.                                         *)

LEMMA OpKinds ==
    ASSUME NEW op \in Op
    PROVE  /\ op[1] \in {"down", "wait", "up"} => op[2] \in Sema /\ op = <<op[1], op[2]>>
           /\ op[1] \in {"hold", "drop"} => op[2] \in Locks /\ op = <<op[1], op[2]>>
           /\ op[1] \in {"push", "signal", "broadcast"} =>
                op[2] \in Conds /\ op = <<op[1], op[2]>>
           /\ op[1] \in {"read_tid", "write_tid", "unblock"} =>
                op[2] \in Worker /\ op = <<op[1], op[2]>>
           /\ op[1] = "start" => op = Start
           /\ op[1] = "set_idle" => op = SetIdle
           /\ op[1] = "block" => op = Block
           /\ op[1] = "hlt" => op = Hlt
  BY DEF Op, Start, SetIdle, Block, Hlt, Fault, Panic

LEMMA OpsInOp ==
    /\ \A s \in Sema : Down(s) \in Op /\ Wait(s) \in Op /\ Up(s) \in Op
    /\ \A l \in Locks : Hold(l) \in Op /\ Drop(l) \in Op
    /\ \A c \in Conds : Push(c) \in Op /\ Signal(c) \in Op /\ Broadcast(c) \in Op
    /\ \A t \in Worker : ReadTid(t) \in Op /\ WriteTid(t) \in Op /\ Unblock(t) \in Op
    /\ Start \in Op /\ SetIdle \in Op /\ Block \in Op /\ Hlt \in Op
    /\ Fault \in Op /\ Panic \in Op
  BY DEF Op, Down, Wait, Up, Hold, Drop, Push, Signal, Broadcast, ReadTid, WriteTid, Unblock

LEMMA SemaKinds ==
    /\ Semas \subseteq Sema /\ Locks \subseteq Sema /\ Inner \subseteq Sema
    /\ \A t \in Thread, n \in {"exec_sema", "wait_sema", "waiter", "idle_started"} :
          <<n, t>> \in Inner /\ <<n, t>> \in Sema /\ <<n, t>> \notin Locks
    /\ Semas \cap Locks = {}
  BY ThreadsAssumption DEF Sema, Inner

LEMMA SixOps ==
    ASSUME NEW S, NEW a \in S, NEW b \in S, NEW c \in S, NEW d \in S, NEW e \in S, NEW f \in S
    PROVE  LET s == <<a>> \o <<b, c>> \o <<d>> \o <<e, f>>
           IN  /\ s \in Seq(S) /\ DOMAIN s = 1 .. 6
               /\ s[1] = a /\ s[2] = b /\ s[3] = c /\ s[4] = d /\ s[5] = e /\ s[6] = f
  OBVIOUS

LEMMA SevenOps ==
    ASSUME NEW S, NEW a \in S, NEW b \in S, NEW c \in S, NEW d \in S, NEW e \in S, NEW f \in S,
           NEW g \in S
    PROVE  LET s == <<a, b>> \o <<c, d>> \o <<e, f>> \o <<g>>
           IN  /\ s \in Seq(S) /\ DOMAIN s = 1 .. 7
               /\ s[1] = a /\ s[2] = b /\ s[3] = c /\ s[4] = d /\ s[5] = e /\ s[6] = f /\ s[7] = g
  OBVIOUS

(* cond_wait() and thread_create() spelt out. *)
LEMMA CallsWritten ==
    /\ \A c \in Conds, t \in Thread :
         LET s == cond_wait(c, t)
         IN  /\ s \in Seq(Op) /\ DOMAIN s = 1 .. 6
             /\ s[1] = Push(c) /\ s[2] = Drop(CondLock[c]) /\ s[3] = Up(CondLock[c])
             /\ s[4] = Down(<<"waiter", t>>)
             /\ s[5] = Down(CondLock[c]) /\ s[6] = Hold(CondLock[c])
    /\ \A t \in Worker :
         LET s == thread_create(t)
         IN  /\ s \in Seq(Op) /\ DOMAIN s = 1 .. 7
             /\ s[1] = Down(TidLock) /\ s[2] = Hold(TidLock)
             /\ s[3] = ReadTid(t) /\ s[4] = WriteTid(t)
             /\ s[5] = Drop(TidLock) /\ s[6] = Up(TidLock) /\ s[7] = Unblock(t)
  <1>1. ASSUME NEW c \in Conds, NEW t \in Thread
        PROVE  LET s == cond_wait(c, t)
               IN  /\ s \in Seq(Op) /\ DOMAIN s = 1 .. 6
                   /\ s[1] = Push(c) /\ s[2] = Drop(CondLock[c]) /\ s[3] = Up(CondLock[c])
                   /\ s[4] = Down(<<"waiter", t>>)
                   /\ s[5] = Down(CondLock[c]) /\ s[6] = Hold(CondLock[c])
    <2>1. CondLock[c] \in Locks /\ CondLock[c] \in Sema /\ <<"waiter", t>> \in Sema
      BY ThreadsAssumption, SemaKinds, ZenonT(30)
    <2> QED BY <2>1, OpsInOp, SixOps DEF cond_wait, lock_release, lock_acquire
  <1>2. ASSUME NEW t \in Worker
        PROVE  LET s == thread_create(t)
               IN  /\ s \in Seq(Op) /\ DOMAIN s = 1 .. 7
                   /\ s[1] = Down(TidLock) /\ s[2] = Hold(TidLock)
                   /\ s[3] = ReadTid(t) /\ s[4] = WriteTid(t)
                   /\ s[5] = Drop(TidLock) /\ s[6] = Up(TidLock) /\ s[7] = Unblock(t)
    <2>1. TidLock \in Locks /\ TidLock \in Sema
      BY ThreadsAssumption, SemaKinds
    <2> QED BY <2>1, OpsInOp, SevenOps DEF thread_create, allocate_tid, lock_release, lock_acquire
  <1> QED BY <1>1, <1>2

-----------------------------------------------------------------------------
(* What a list of operations looks like, whatever calls it is left of: a   *)
(* wait and a start are at its head; the sema_down() of a lock is followed *)
(* by the assignment of holder and nothing else is; the clearing of holder *)
(* is followed by the sema_up() of the lock and nothing else is; only the  *)
(* idle thread introduces itself, blocks without a semaphore and halts.    *)
ShapeOf(t, s) ==
    \A i \in DOMAIN s :
      /\ s[i][1] \in {"set_idle", "block", "hlt"} => t = Idle
      /\ s[i][1] \in {"wait", "start"} => i = 1
      /\ \A l \in Locks :
           /\ s[i] \in {Down(l), Wait(l)} => i + 1 \in DOMAIN s /\ s[i + 1] = Hold(l)
           /\ s[i] = Drop(l) => i + 1 \in DOMAIN s /\ s[i + 1] = Up(l)
           /\ s[i] = Hold(l) /\ i # 1 => s[i - 1] \in {Down(l), Wait(l)}
           /\ s[i] = Up(l) /\ i # 1 => s[i - 1] = Drop(l)

LEMMA ShapeEmpty == \A t : ShapeOf(t, <<>>)
  BY DEF ShapeOf

LEMMA ShapeTail ==
    ASSUME NEW t, NEW s \in Seq(Op), s # <<>>, ShapeOf(t, s)
    PROVE  ShapeOf(t, Tail(s))
  <1>1. /\ Len(s) \in Nat \ {0} /\ DOMAIN s = 1 .. Len(s)
        /\ DOMAIN Tail(s) = 1 .. Len(s) - 1
        /\ \A i \in 1 .. Len(s) - 1 : Tail(s)[i] = s[i + 1]
    OBVIOUS
  <1> DEFINE r == Tail(s)
  <1> HIDE DEF r
  <1>2. DOMAIN r = 1 .. Len(s) - 1 /\ \A i \in DOMAIN r : r[i] = s[i + 1]
    BY <1>1 DEF r
  <1>3. SUFFICES ASSUME NEW i \in DOMAIN r
                 PROVE  /\ r[i][1] \in {"set_idle", "block", "hlt"} => t = Idle
                        /\ r[i][1] \in {"wait", "start"} => i = 1
                        /\ \A l \in Locks :
                             /\ r[i] \in {Down(l), Wait(l)} => i + 1 \in DOMAIN r /\ r[i + 1] = Hold(l)
                             /\ r[i] = Drop(l) => i + 1 \in DOMAIN r /\ r[i + 1] = Up(l)
                             /\ r[i] = Hold(l) /\ i # 1 => r[i - 1] \in {Down(l), Wait(l)}
                             /\ r[i] = Up(l) /\ i # 1 => r[i - 1] = Drop(l)
    BY DEF ShapeOf, r
  <1>4. i \in Nat /\ i + 1 \in DOMAIN s /\ r[i] = s[i + 1] /\ i + 1 # 1
    BY <1>1, <1>2
  <1>5. /\ r[i][1] \in {"set_idle", "block", "hlt"} => t = Idle
        /\ r[i][1] \in {"wait", "start"} => i = 1
    BY <1>4 DEF ShapeOf
  <1>6. ASSUME NEW l \in Locks
        PROVE  /\ r[i] \in {Down(l), Wait(l)} => i + 1 \in DOMAIN r /\ r[i + 1] = Hold(l)
               /\ r[i] = Drop(l) => i + 1 \in DOMAIN r /\ r[i + 1] = Up(l)
    <2>1. /\ s[i + 1] \in {Down(l), Wait(l)} => (i + 1) + 1 \in DOMAIN s /\ s[(i + 1) + 1] = Hold(l)
          /\ s[i + 1] = Drop(l) => (i + 1) + 1 \in DOMAIN s /\ s[(i + 1) + 1] = Up(l)
      BY <1>4 DEF ShapeOf
    <2>2. (i + 1) + 1 \in DOMAIN s => i + 1 \in DOMAIN r
      BY <1>1, <1>2, <1>4
    <2> QED BY <2>1, <2>2, <1>2, <1>4
  <1>7. ASSUME NEW l \in Locks
        PROVE  /\ r[i] = Hold(l) /\ i # 1 => r[i - 1] \in {Down(l), Wait(l)}
               /\ r[i] = Up(l) /\ i # 1 => r[i - 1] = Drop(l)
    <2>1. /\ s[i + 1] = Hold(l) => s[(i + 1) - 1] \in {Down(l), Wait(l)}
          /\ s[i + 1] = Up(l) => s[(i + 1) - 1] = Drop(l)
      BY <1>4 DEF ShapeOf
    <2>2. (i + 1) - 1 = i /\ (i # 1 => i - 1 \in DOMAIN r /\ r[i - 1] = s[i])
      <3>1. i # 1 => i - 1 \in DOMAIN r /\ (i - 1) + 1 = i
        BY <1>1, <1>2, <1>4
      <3> QED BY <3>1, <1>2, <1>4
    <2> QED BY <2>1, <2>2, <1>4
  <1> QED BY <1>5, <1>6, <1>7

(* The head of a list replaced by an operation that plays the same part.   *)
LEMMA ShapeReplace ==
    ASSUME NEW t, NEW s \in Seq(Op), s # <<>>, ShapeOf(t, s), NEW x \in Op,
           x[1] \notin {"set_idle", "block", "hlt"},
           \A l \in Locks : /\ x \in {Down(l), Wait(l)} <=> s[1] \in {Down(l), Wait(l)}
                            /\ x = Drop(l) <=> s[1] = Drop(l)
    PROVE  LET r == <<x>> \o Tail(s)
           IN  r \in Seq(Op) /\ r # <<>> /\ r[1] = x /\ ShapeOf(t, r)
  <1>0. Tail(s) \in Seq(Op) /\ <<x>> \in Seq(Op)
    OBVIOUS
  <1>1. /\ <<x>> \o Tail(s) \in Seq(Op)
        /\ DOMAIN (<<x>> \o Tail(s)) = DOMAIN s /\ DOMAIN s = 1 .. Len(s) /\ Len(s) \in Nat \ {0}
        /\ (<<x>> \o Tail(s))[1] = x
        /\ \A i \in DOMAIN s : i # 1 => (<<x>> \o Tail(s))[i] = s[i]
    BY <1>0
  <1> DEFINE r == <<x>> \o Tail(s)
  <1> HIDE DEF r
  <1>2. /\ r \in Seq(Op) /\ DOMAIN r = DOMAIN s /\ DOMAIN s = 1 .. Len(s) /\ Len(s) \in Nat \ {0}
        /\ r[1] = x /\ \A i \in DOMAIN s : i # 1 => r[i] = s[i]
    BY <1>1 DEF r
  <1>3. r # <<>>
    BY <1>2
  <1>4. ASSUME NEW i \in DOMAIN r
        PROVE  /\ r[i][1] \in {"set_idle", "block", "hlt"} => t = Idle
               /\ r[i][1] \in {"wait", "start"} => i = 1
    BY <1>2 DEF ShapeOf
  <1>5. ASSUME NEW i \in DOMAIN r, NEW l \in Locks
        PROVE  /\ r[i] \in {Down(l), Wait(l)} => i + 1 \in DOMAIN r /\ r[i + 1] = Hold(l)
               /\ r[i] = Drop(l) => i + 1 \in DOMAIN r /\ r[i + 1] = Up(l)
    <2>1. i \in Nat /\ i + 1 # 1
      BY <1>2
    <2>2. /\ r[i] \in {Down(l), Wait(l)} => s[i] \in {Down(l), Wait(l)}
          /\ r[i] = Drop(l) => s[i] = Drop(l)
      BY <1>2
    <2> QED BY <2>1, <2>2, <1>2 DEF ShapeOf
  <1>6. ASSUME NEW i \in DOMAIN r, NEW l \in Locks, i # 1
        PROVE  /\ r[i] = Hold(l) => r[i - 1] \in {Down(l), Wait(l)}
               /\ r[i] = Up(l) => r[i - 1] = Drop(l)
    <2>1. r[i] = s[i] /\ i - 1 \in DOMAIN s
      BY <1>2, <1>6
    <2>2. /\ s[i - 1] \in {Down(l), Wait(l)} => r[i - 1] \in {Down(l), Wait(l)}
          /\ s[i - 1] = Drop(l) => r[i - 1] = Drop(l)
      BY <1>2, <2>1
    <2> QED BY <2>1, <2>2, <1>2, <1>6 DEF ShapeOf
  <1>7. ShapeOf(t, r)
    BY <1>4, <1>5, <1>6 DEF ShapeOf
  <1> QED BY <1>2, <1>3, <1>7 DEF r

(* An operation put before a list, as cond_broadcast() does.               *)
LEMMA ShapePrepend ==
    ASSUME NEW t, NEW s \in Seq(Op), s # <<>>, ShapeOf(t, s), NEW x \in Op,
           x[1] = "signal", s[1][1] = "broadcast"
    PROVE  LET r == <<x>> \o s
           IN  r \in Seq(Op) /\ r # <<>> /\ r[1] = x /\ ShapeOf(t, r)
  <1>0. <<x>> \in Seq(Op)
    OBVIOUS
  <1>1. /\ <<x>> \o s \in Seq(Op)
        /\ DOMAIN (<<x>> \o s) = 1 .. Len(s) + 1 /\ DOMAIN s = 1 .. Len(s) /\ Len(s) \in Nat \ {0}
        /\ (<<x>> \o s)[1] = x
        /\ \A i \in DOMAIN s : (<<x>> \o s)[i + 1] = s[i]
    BY <1>0
  <1> DEFINE r == <<x>> \o s
  <1> HIDE DEF r
  <1>2. /\ r \in Seq(Op) /\ DOMAIN r = 1 .. Len(s) + 1 /\ DOMAIN s = 1 .. Len(s)
        /\ Len(s) \in Nat \ {0} /\ r[1] = x /\ \A i \in DOMAIN s : r[i + 1] = s[i]
    BY <1>1 DEF r
  <1>3. r # <<>>
    BY <1>2
  <1>4. ASSUME NEW i \in DOMAIN s
        PROVE  /\ r[i + 1][1] \in {"set_idle", "block", "hlt"} => t = Idle
               /\ r[i + 1][1] \notin {"wait", "start"}
               /\ \A l \in Locks :
                    /\ r[i + 1] \in {Down(l), Wait(l)} =>
                         (i + 1) + 1 \in DOMAIN r /\ r[(i + 1) + 1] = Hold(l)
                    /\ r[i + 1] = Drop(l) => (i + 1) + 1 \in DOMAIN r /\ r[(i + 1) + 1] = Up(l)
    <2>1. i = 1 => r[i + 1][1] = "broadcast"
      BY <1>2
    <2>2. r[i + 1] = s[i] /\ i \in Nat
      BY <1>2
    <2>3. i + 1 \in DOMAIN s => (i + 1) + 1 \in DOMAIN r /\ r[(i + 1) + 1] = s[i + 1]
      BY <1>2
    <2> QED BY <2>1, <2>2, <2>3 DEF ShapeOf
  <1>5. ASSUME NEW i \in DOMAIN s, NEW l \in Locks
        PROVE  /\ r[i + 1] = Hold(l) => r[i] \in {Down(l), Wait(l)}
               /\ r[i + 1] = Up(l) => r[i] = Drop(l)
    <2>1. CASE i = 1
      BY <2>1, <1>2 DEF Hold, Up
    <2>2. CASE i # 1
      <3>1. i - 1 \in DOMAIN s /\ (i - 1) + 1 = i /\ r[i + 1] = s[i]
        BY <2>2, <1>2
      <3>2. r[i] = s[i - 1]
        BY <3>1, <1>2
      <3> QED BY <3>1, <3>2, <2>2 DEF ShapeOf
    <2> QED BY <2>1, <2>2
  <1>6. ASSUME NEW j \in DOMAIN r, j # 1
        PROVE  j - 1 \in DOMAIN s /\ (j - 1) + 1 = j
    BY <1>2, <1>6
  <1>7. r[1][1] = "signal"
    BY <1>2
  <1>8. ShapeOf(t, r)
    <2>1. ASSUME NEW j \in DOMAIN r, j # 1
          PROVE  /\ r[j][1] \in {"set_idle", "block", "hlt"} => t = Idle
                 /\ r[j][1] \notin {"wait", "start"}
                 /\ \A l \in Locks :
                      /\ r[j] \in {Down(l), Wait(l)} => j + 1 \in DOMAIN r /\ r[j + 1] = Hold(l)
                      /\ r[j] = Drop(l) => j + 1 \in DOMAIN r /\ r[j + 1] = Up(l)
                      /\ r[j] = Hold(l) => r[j - 1] \in {Down(l), Wait(l)}
                      /\ r[j] = Up(l) => r[j - 1] = Drop(l)
      <3> DEFINE i == j - 1
      <3>1. i \in DOMAIN s /\ i + 1 = j
        BY <1>6, <2>1
      <3> HIDE DEF i
      <3>2. i = j - 1
        BY DEF i
      <3> QED BY <3>1, <3>2, <1>4, <1>5
    <2> QED BY <2>1, <1>7 DEF ShapeOf, Down, Wait, Drop
  <1> QED BY <1>2, <1>3, <1>8 DEF r

LEMMA OpNames ==
    /\ \A x : /\ Down(x)[1] = "down" /\ Down(x)[2] = x
              /\ Wait(x)[1] = "wait" /\ Wait(x)[2] = x
              /\ Up(x)[1] = "up" /\ Up(x)[2] = x
              /\ Hold(x)[1] = "hold" /\ Hold(x)[2] = x
              /\ Drop(x)[1] = "drop" /\ Drop(x)[2] = x
              /\ Push(x)[1] = "push" /\ Push(x)[2] = x
              /\ Signal(x)[1] = "signal" /\ Signal(x)[2] = x
              /\ Broadcast(x)[1] = "broadcast" /\ Broadcast(x)[2] = x
              /\ ReadTid(x)[1] = "read_tid" /\ ReadTid(x)[2] = x
              /\ WriteTid(x)[1] = "write_tid" /\ WriteTid(x)[2] = x
              /\ Unblock(x)[1] = "unblock" /\ Unblock(x)[2] = x
    /\ Start[1] = "start" /\ SetIdle[1] = "set_idle" /\ Block[1] = "block" /\ Hlt[1] = "hlt"
    /\ Fault[1] = "fault" /\ Panic[1] = "panic"
  BY DEF Down, Wait, Up, Hold, Drop, Push, Signal, Broadcast, ReadTid, WriteTid, Unblock,
         Start, SetIdle, Block, Hlt, Fault, Panic

(* Operations that are not the sema_down() or the release of a lock, and   *)
(* those that do not make a thread its owner.                              *)
LEMMA NotLockOp ==
    ASSUME NEW x, x[1] \notin {"down", "wait", "drop"}, NEW l
    PROVE  x \notin {Down(l), Wait(l)} /\ x # Drop(l)
  <1>1. Down(l)[1] = "down" /\ Wait(l)[1] = "wait" /\ Drop(l)[1] = "drop"
    BY OpNames
  <1> QED BY <1>1

LEMMA NotOwnerOp ==
    ASSUME NEW x, x[1] \notin {"hold", "up"}, NEW l
    PROVE  x \notin {Hold(l), Up(l)}
  <1>1. Hold(l)[1] = "hold" /\ Up(l)[1] = "up"
    BY OpNames
  <1> QED BY <1>1

LEMMA DownOf ==
    ASSUME NEW s, NEW x \in {Down(s), Wait(s)}, NEW l
    PROVE  (x \in {Down(l), Wait(l)} <=> s = l) /\ x # Drop(l)
  <1>1. x[1] \in {"down", "wait"} /\ x[2] = s
    BY OpNames
  <1>2. Down(l)[2] = l /\ Wait(l)[2] = l /\ Drop(l)[1] = "drop"
    BY OpNames
  <1>3. x \in {Down(l), Wait(l)} => s = l
    BY <1>1, <1>2
  <1> QED BY <1>1, <1>2, <1>3

LEMMA ShapeOne ==
    ASSUME NEW t, NEW x \in Op, x[1] \in {"set_idle", "block", "hlt"} => t = Idle,
           x[1] \in {"down", "wait", "drop"} => x[2] \notin Locks
    PROVE  <<x>> \in Seq(Op) /\ <<x>> # <<>> /\ <<x>>[1] = x /\ ShapeOf(t, <<x>>)
  <1> DEFINE s == <<x>>
  <1>1. s \in Seq(Op) /\ s # <<>> /\ DOMAIN s = {1} /\ s[1] = x
    OBVIOUS
  <1> HIDE DEF s
  <1>2. ShapeOf(t, s)
    BY <1>1, OpNames DEF ShapeOf
  <1> QED BY <1>1, <1>2 DEF s

LEMMA ShapeTwo ==
    ASSUME NEW t, NEW x \in Op, NEW y \in Op,
           x[1] \in {"set_idle", "block", "hlt"} => t = Idle,
           y[1] \in {"set_idle", "block", "hlt"} => t = Idle,
           y[1] \notin {"wait", "start"},
           y[1] \in {"down", "drop"} => y[2] \notin Locks,
           \A l \in Locks : /\ x \in {Down(l), Wait(l)} <=> y = Hold(l)
                            /\ x = Drop(l) <=> y = Up(l)
    PROVE  <<x, y>> \in Seq(Op) /\ <<x, y>> # <<>> /\ <<x, y>>[1] = x /\ ShapeOf(t, <<x, y>>)
  <1> DEFINE s == <<x, y>>
  <1>1. s \in Seq(Op) /\ s # <<>> /\ DOMAIN s = {1, 2} /\ s[1] = x /\ s[2] = y
    OBVIOUS
  <1> HIDE DEF s
  <1>2. ASSUME NEW i \in DOMAIN s
        PROVE  /\ s[i][1] \in {"set_idle", "block", "hlt"} => t = Idle
               /\ s[i][1] \in {"wait", "start"} => i = 1
    BY <1>1
  <1>3. ASSUME NEW i \in DOMAIN s, NEW l \in Locks
        PROVE  /\ s[i] \in {Down(l), Wait(l)} => i + 1 \in DOMAIN s /\ s[i + 1] = Hold(l)
               /\ s[i] = Drop(l) => i + 1 \in DOMAIN s /\ s[i + 1] = Up(l)
               /\ s[i] = Hold(l) /\ i # 1 => s[i - 1] \in {Down(l), Wait(l)}
               /\ s[i] = Up(l) /\ i # 1 => s[i - 1] = Drop(l)
    <2>1. CASE i = 1
      BY <2>1, <1>1
    <2>2. CASE i = 2
      BY <2>2, <1>1, OpNames, SMTT(30)
    <2> QED BY <2>1, <2>2, <1>1
  <1>4. ShapeOf(t, s)
    BY <1>2, <1>3 DEF ShapeOf
  <1> QED BY <1>1, <1>4 DEF s

(* The lists a thread's own function starts, and the idle thread's loop.   *)
LEMMA ShapeCalls ==
    /\ \A t \in Thread, s \in Sema \ Locks :
         /\ <<Down(s)>> \in Seq(Op) /\ ShapeOf(t, <<Down(s)>>)
         /\ <<Up(s)>> \in Seq(Op) /\ ShapeOf(t, <<Up(s)>>)
    /\ \A t \in Thread, l \in Locks :
         /\ lock_acquire(l) \in Seq(Op) /\ ShapeOf(t, lock_acquire(l))
         /\ lock_release(l) \in Seq(Op) /\ ShapeOf(t, lock_release(l))
         /\ <<Hold(l)>> \in Seq(Op) /\ ShapeOf(t, <<Hold(l)>>)
    /\ \A t \in Thread, c \in Conds :
         /\ <<Signal(c)>> \in Seq(Op) /\ ShapeOf(t, <<Signal(c)>>)
         /\ <<Broadcast(c)>> \in Seq(Op) /\ ShapeOf(t, <<Broadcast(c)>>)
         /\ cond_wait(c, t) \in Seq(Op) /\ ShapeOf(t, cond_wait(c, t))
    /\ \A t \in Thread, u \in Worker :
         thread_create(u) \in Seq(Op) /\ ShapeOf(t, thread_create(u))
    /\ <<Block, Hlt>> \in Seq(Op) /\ ShapeOf(Idle, <<Block, Hlt>>)
    /\ thread_start \in Seq(Op) /\ ShapeOf(Main, thread_start)
    /\ idle \in Seq(Op) /\ ShapeOf(Idle, idle)
    /\ thread_exit_main \in Seq(Op) /\ ShapeOf(Main, thread_exit_main)
  <1>1. ASSUME NEW t \in Thread, NEW s \in Sema \ Locks
        PROVE  /\ <<Down(s)>> \in Seq(Op) /\ ShapeOf(t, <<Down(s)>>)
               /\ <<Up(s)>> \in Seq(Op) /\ ShapeOf(t, <<Up(s)>>)
    BY OpsInOp, OpNames, ShapeOne
  <1>2. ASSUME NEW t \in Thread, NEW l \in Locks
        PROVE  /\ lock_acquire(l) \in Seq(Op) /\ ShapeOf(t, lock_acquire(l))
               /\ lock_release(l) \in Seq(Op) /\ ShapeOf(t, lock_release(l))
               /\ <<Hold(l)>> \in Seq(Op) /\ ShapeOf(t, <<Hold(l)>>)
    <2>1. <<Hold(l)>> \in Seq(Op) /\ ShapeOf(t, <<Hold(l)>>)
      BY OpsInOp, OpNames, ShapeOne
    <2>2. Down(l) \in Op /\ Up(l) \in Op /\ Hold(l) \in Op /\ Drop(l) \in Op
      BY OpsInOp, SemaKinds
    <2>3. /\ \A m \in Locks : /\ Down(l) \in {Down(m), Wait(m)} <=> Hold(l) = Hold(m)
                              /\ Down(l) = Drop(m) <=> Hold(l) = Up(m)
          /\ \A m \in Locks : /\ Drop(l) \in {Down(m), Wait(m)} <=> Up(l) = Hold(m)
                              /\ Drop(l) = Drop(m) <=> Up(l) = Up(m)
      BY OpNames
    <2>4. lock_acquire(l) \in Seq(Op) /\ ShapeOf(t, lock_acquire(l))
      BY <2>2, <2>3, OpNames, ShapeTwo DEF lock_acquire
    <2>5. lock_release(l) \in Seq(Op) /\ ShapeOf(t, lock_release(l))
      BY <2>2, <2>3, OpNames, ShapeTwo DEF lock_release
    <2> QED BY <2>1, <2>4, <2>5, SMTT(30)
  <1>3. ASSUME NEW t \in Thread, NEW c \in Conds
        PROVE  /\ <<Signal(c)>> \in Seq(Op) /\ ShapeOf(t, <<Signal(c)>>)
               /\ <<Broadcast(c)>> \in Seq(Op) /\ ShapeOf(t, <<Broadcast(c)>>)
    BY OpsInOp, OpNames, ShapeOne, SMTT(30)
  <1>4. ASSUME NEW t \in Thread, NEW c \in Conds
        PROVE  cond_wait(c, t) \in Seq(Op) /\ ShapeOf(t, cond_wait(c, t))
    <2> DEFINE s == cond_wait(c, t)
    <2>1. /\ s \in Seq(Op) /\ DOMAIN s = 1 .. 6
          /\ s[1] = Push(c) /\ s[2] = Drop(CondLock[c]) /\ s[3] = Up(CondLock[c])
          /\ s[4] = Down(<<"waiter", t>>)
          /\ s[5] = Down(CondLock[c]) /\ s[6] = Hold(CondLock[c])
      BY CallsWritten
    <2>2. CondLock[c] \in Locks /\ <<"waiter", t>> \notin Locks
      BY ThreadsAssumption, SemaKinds, ZenonT(30)
    <2> HIDE DEF s
    <2>3. ASSUME NEW i \in DOMAIN s
          PROVE  i = 1 \/ i = 2 \/ i = 3 \/ i = 4 \/ i = 5 \/ i = 6
      BY <2>1
    <2>4. ASSUME NEW i \in DOMAIN s
          PROVE  s[i][1] \notin {"set_idle", "block", "hlt", "wait", "start"}
      BY <2>1, <2>3, OpNames
    <2>5. ASSUME NEW i \in DOMAIN s, NEW l \in Locks
          PROVE  /\ s[i] \in {Down(l), Wait(l)} => i = 5 /\ l = CondLock[c]
                 /\ s[i] = Drop(l) => i = 2 /\ l = CondLock[c]
                 /\ s[i] = Hold(l) => i = 6 /\ l = CondLock[c]
                 /\ s[i] = Up(l) => i = 3 /\ l = CondLock[c]
      BY <2>1, <2>2, <2>3, OpNames
    <2>6. ShapeOf(t, s)
      BY <2>1, <2>4, <2>5, SMTT(30) DEF ShapeOf
    <2> QED BY <2>1, <2>6, SMTT(30) DEF s
  <1>5. ASSUME NEW t \in Thread, NEW u \in Worker
        PROVE  thread_create(u) \in Seq(Op) /\ ShapeOf(t, thread_create(u))
    <2> DEFINE s == thread_create(u)
    <2>1. /\ s \in Seq(Op) /\ DOMAIN s = 1 .. 7
          /\ s[1] = Down(TidLock) /\ s[2] = Hold(TidLock)
          /\ s[3] = ReadTid(u) /\ s[4] = WriteTid(u)
          /\ s[5] = Drop(TidLock) /\ s[6] = Up(TidLock) /\ s[7] = Unblock(u)
      BY CallsWritten
    <2> HIDE DEF s
    <2>3. ASSUME NEW i \in DOMAIN s
          PROVE  i = 1 \/ i = 2 \/ i = 3 \/ i = 4 \/ i = 5 \/ i = 6 \/ i = 7
      BY <2>1
    <2>4. ASSUME NEW i \in DOMAIN s
          PROVE  s[i][1] \notin {"set_idle", "block", "hlt", "wait", "start"}
      BY <2>1, <2>3, OpNames, SMTT(30)
    <2>5. ASSUME NEW i \in DOMAIN s, NEW l \in Locks
          PROVE  /\ s[i] \in {Down(l), Wait(l)} => i = 1 /\ l = TidLock
                 /\ s[i] = Drop(l) => i = 5 /\ l = TidLock
                 /\ s[i] = Hold(l) => i = 2 /\ l = TidLock
                 /\ s[i] = Up(l) => i = 6 /\ l = TidLock
      BY <2>1, <2>3, OpNames, SMTT(30)
    <2>6. ShapeOf(t, s)
      BY <2>1, <2>4, <2>5, SMTT(30) DEF ShapeOf
    <2> QED BY <2>1, <2>6, SMTT(30) DEF s
  <1>6. <<Block, Hlt>> \in Seq(Op) /\ ShapeOf(Idle, <<Block, Hlt>>)
    BY OpsInOp, OpNames, ShapeTwo
  <1>7. <<"idle_started", Idle>> \in Sema /\ <<"idle_started", Idle>> \notin Locks
    BY SemaKinds, ZenonT(30) DEF Thread
  <1>8. thread_start \in Seq(Op) /\ ShapeOf(Main, thread_start)
    <2> DEFINE y == Down(<<"idle_started", Idle>>)
    <2>1. Start \in Op /\ y \in Op /\ y[1] = "down" /\ y[2] \notin Locks
      BY OpsInOp, OpNames, <1>7
    <2> HIDE DEF y
    <2>2. \A l \in Locks : /\ Start \in {Down(l), Wait(l)} <=> y = Hold(l)
                           /\ Start = Drop(l) <=> y = Up(l)
      BY <2>1, OpNames
    <2>3. <<Start, y>> \in Seq(Op) /\ ShapeOf(Main, <<Start, y>>)
      BY <2>1, <2>2, OpNames, ShapeTwo
    <2> QED BY <2>3 DEF y, thread_start
  <1>9. idle \in Seq(Op) /\ ShapeOf(Idle, idle)
    <2> DEFINE s == idle
    <2>1. /\ s \in Seq(Op) /\ DOMAIN s = 1 .. 4
          /\ s[1] = SetIdle /\ s[2] = Up(<<"idle_started", Idle>>) /\ s[3] = Block /\ s[4] = Hlt
      BY OpsInOp, <1>7 DEF idle
    <2> HIDE DEF s
    <2>2. ASSUME NEW i \in DOMAIN s
          PROVE  i = 1 \/ i = 2 \/ i = 3 \/ i = 4
      BY <2>1
    <2>3. ASSUME NEW i \in DOMAIN s, NEW l \in Locks
          PROVE  /\ s[i][1] \notin {"down", "wait", "start", "drop", "hold"}
                 /\ s[i] # Up(l)
      BY <2>1, <2>2, <1>7, OpNames
    <2>4. ShapeOf(Idle, s)
      BY <2>1, <2>2, <2>3, OpNames, ThreadsAssumption DEF ShapeOf
    <2> QED BY <2>1, <2>4 DEF s
  <1>10. thread_exit_main \in Seq(Op) /\ ShapeOf(Main, thread_exit_main)
    <2>1. Fault \in Op /\ Panic \in Op /\ Fault[1] = "fault" /\ Panic[1] = "panic"
      BY OpsInOp, OpNames
    <2>2. \A l \in Locks : /\ Fault \in {Down(l), Wait(l)} <=> Panic = Hold(l)
                           /\ Fault = Drop(l) <=> Panic = Up(l)
      BY <2>1, OpNames
    <2>3. <<Fault, Panic>> \in Seq(Op) /\ ShapeOf(Main, <<Fault, Panic>>)
      BY <2>1, <2>2, ShapeTwo
    <2> QED BY <2>3 DEF thread_exit_main
  <1> QED BY <1>1, <1>2, <1>3, <1>4, <1>5, <1>6, <1>8, <1>9, <1>10
=============================================================================
