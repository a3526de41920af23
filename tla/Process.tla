------------------------------ MODULE Process ------------------------------
(***************************************************************************)
(* The life of user processes: process_execute(), start_process(),         *)
(* process_wait() and the ways to die, with the struct thread_info through *)
(* which a child reports to its parent (userprog/process.c, syscall.c,     *)
(* exception.c, and thread_create() and thread_exit() in thread.c).        *)
(*                                                                         *)
(* A thread_info is allocated by the parent in thread_create(), written by *)
(* the child, and freed by the parent once it has waited.  Semaphores are  *)
(* atomic here; Threads shows that they are.                               *)
(***************************************************************************)
EXTENDS Integers

CONSTANTS
    Proc,    \* user processes; the name of a process is also its tid
    Main,    \* the kernel's main thread, which runs run_task()
    Status,  \* what a process may pass to exit()
    Garbage, \* what exit_status may hold in a block fresh from malloc()
    NULL

Parent == Proc \cup {Main}

ASSUME ProcessAssumption ==
    /\ Main \notin Proc /\ NULL \notin Parent
    /\ Status \subseteq Int /\ Garbage \subseteq Int /\ Garbage # {}

VARIABLES
    state,           \* where each process is in its life
    of,              \* the child that its exec or wait is about
    child_info_list, \* the children whose thread_info it can find
    info,            \* p->info; NULL before malloc() and after free()
    fate,            \* how the process came to die (history)
    ret              \* the exec or wait that has just returned (history)

vars == <<state, of, child_info_list, info, fate, ret>>

NewInfo_SemaOne(garbage) ==
    [load_success |-> TRUE, is_waited |-> FALSE, is_killed |-> FALSE,
     exit_status |-> garbage, exec_sema |-> 1, wait_sema |-> 0]
NewInfo(garbage) ==
    [load_success |-> TRUE, is_waited |-> FALSE, is_killed |-> FALSE,
     exit_status |-> garbage, exec_sema |-> 0, wait_sema |-> 0]

Init ==
    /\ state = [p \in Parent |-> IF p = Main THEN "running" ELSE "none"]
    /\ of = [p \in Parent |-> NULL]
    /\ child_info_list = [p \in Parent |-> {}]
    /\ info = [p \in Proc |-> NULL]
    /\ fate = [p \in Proc |-> [how |-> "none", status |-> -1]]
    /\ ret = NULL

Go(p, s) == state' = [state EXCEPT ![p] = s]
Silent == ret' = NULL
Return(p, call, child, val) ==
    /\ ret' = [call |-> call, of |-> child, val |-> val]
    /\ Go(p, "running")
    /\ of' = [of EXCEPT ![p] = NULL]

-----------------------------------------------------------------------------
(* The parent.                                                             *)

(* process_execute() with thread_create(): the child is made, with its     *)
(* thread_info, and may run at once.  handle_exec() then sleeps on the     *)
(* child's exec_sema; run_task() goes on to process_wait().                *)
Execute(p) ==
    /\ state[p] = "running"
    /\ \E c \in Proc, g \in Garbage :
         /\ state[c] = "none"
         /\ state' = [state EXCEPT ![c] = "loading",
                                   ![p] = IF p = Main THEN "executed" ELSE "exec"]
         /\ of' = [of EXCEPT ![p] = c]
         /\ info' = [info EXCEPT ![c] = NewInfo(g)]
         /\ child_info_list' = [child_info_list EXCEPT ![p] = @ \cup {c}]
    /\ Silent
    /\ UNCHANGED fate

(* No page for the file name or for the thread: TID_ERROR, of which        *)
(* run_task() makes a process_wait() that finds no child.                  *)
ExecuteFails(p) ==
    /\ state[p] = "running"
    /\ Return(p, "exec", NULL, -1)
    /\ UNCHANGED <<child_info_list, info, fate>>

(* handle_exec() comes back from sema_down(&child_info->exec_sema).        *)
ExecReturn(p) ==
    LET c == of[p]
    IN  /\ state[p] = "exec" /\ info[c].exec_sema > 0
        /\ info' = [info EXCEPT ![c].exec_sema = @ - 1]
        /\ Return(p, "exec", c, IF info[c].load_success THEN 0 ELSE -1)
        /\ UNCHANGED <<child_info_list, fate>>

find_child_info_by_tid(p, c) == c \in child_info_list[p]

(* process_wait() up to its sema_down(): a tid that is not in the list, or *)
(* a child that has been killed, is answered at once.                      *)
Wait(p, c) ==
    /\ state[p] = IF p = Main THEN "executed" ELSE "running"
    /\ p = Main => c = of[p]
    /\ child_info_list' = [child_info_list EXCEPT ![p] = @ \ {c}]
    /\ \/ /\ ~find_child_info_by_tid(p, c)
          /\ Return(p, "wait", NULL, -1)
          /\ UNCHANGED info
       \/ /\ find_child_info_by_tid(p, c) /\ (info[c].is_waited \/ info[c].is_killed)
          /\ Return(p, "wait", c, -1)
          /\ UNCHANGED info
       \/ /\ find_child_info_by_tid(p, c) /\ ~info[c].is_waited /\ ~info[c].is_killed
          /\ info' = [info EXCEPT ![c].is_waited = TRUE]
          /\ Go(p, "wait")
          /\ of' = [of EXCEPT ![p] = c]
          /\ Silent
    /\ UNCHANGED fate

(* ... and from there: read the status, free the thread_info.              *)
WaitReturn_Early(p) ==
    LET c == of[p]
    IN  /\ state[p] = "wait"
        /\ Return(p, "wait", c, info[c].exit_status)
        /\ info' = [info EXCEPT ![c] = NULL]
        /\ UNCHANGED <<child_info_list, fate>>

WaitReturn(p) ==
    LET c == of[p]
    IN  /\ state[p] = "wait" /\ info[c].wait_sema > 0
        /\ Return(p, "wait", c, info[c].exit_status)
        /\ info' = [info EXCEPT ![c] = NULL]
        /\ UNCHANGED <<child_info_list, fate>>

-----------------------------------------------------------------------------
(* The child.                                                              *)

ChildStep(p, from, to) ==
    /\ state[p] = from
    /\ Go(p, to)
    /\ Silent
    /\ UNCHANGED <<of, child_info_list>>

(* start_process(): load() succeeds or fails.                              *)
Loaded_UpExec(p) ==
    /\ ChildStep(p, "loading", "running")
    /\ info' = [info EXCEPT ![p].exec_sema = 1]
    /\ UNCHANGED fate

Loaded(p) ==
    /\ ChildStep(p, "loading", "running")
    /\ UNCHANGED <<info, fate>>

LoadFails_Unreported(p) ==
    /\ ChildStep(p, "loading", "exiting")
    /\ fate' = [fate EXCEPT ![p].how = "not_loaded"]
    /\ UNCHANGED info

LoadFails(p) ==
    /\ ChildStep(p, "loading", "exiting")
    /\ info' = [info EXCEPT ![p].load_success = FALSE]
    /\ fate' = [fate EXCEPT ![p].how = "not_loaded"]

ExitWith(p, s) ==
    /\ ChildStep(p, "running", "exiting")
    /\ info' = [info EXCEPT ![p].exit_status = s]
    /\ fate' = [fate EXCEPT ![p] = [how |-> "exit", status |-> s]]

(* handle_exit().                                                          *)
Exit(p) == \E s \in Status : ExitWith(p, s)

(* handle_close() of a descriptor the process does not have: it exits with *)
(* -1 as if by its own will, is_killed stays false.                        *)
CloseUnknown(p) == ExitWith(p, -1)

(* handle_invalid(), and page_fault() on an address that is not the        *)
(* process's.                                                              *)
Killed_NoStatus(p) ==
    /\ ChildStep(p, "running", "exiting")
    /\ fate' = [fate EXCEPT ![p].how = "killed"]
    /\ UNCHANGED info

Killed(p) ==
    /\ ChildStep(p, "running", "exiting")
    /\ info' = [info EXCEPT ![p].is_killed = TRUE, ![p].exit_status = -1]
    /\ fate' = [fate EXCEPT ![p].how = "killed"]

(* kill() on any other exception, and handle_halt(): just thread_exit().   *)
Dies(p) ==
    /\ ChildStep(p, "running", "exiting")
    /\ \E how \in {"exception", "halt"} : fate' = [fate EXCEPT ![p].how = how]
    /\ UNCHANGED info

(* thread_exit(), after process_exit() and with interrupts off: up         *)
(* exec_sema and wait_sema and leave the CPU for good.                     *)
thread_exit_NoWaitUp(p) ==
    /\ ChildStep(p, "exiting", "dead")
    /\ info' = [info EXCEPT ![p].exec_sema = @ + 1]
    /\ UNCHANGED fate

thread_exit(p) ==
    /\ ChildStep(p, "exiting", "dead")
    /\ info' = [info EXCEPT ![p].exec_sema = @ + 1, ![p].wait_sema = @ + 1]
    /\ UNCHANGED fate

(* What a process does in the kernel without its program's doing.          *)
Progress(p) == ExecReturn(p) \/ WaitReturn(p)
ChildProgress(p) == Loaded(p) \/ LoadFails(p) \/ thread_exit(p)

Syscall(p) ==
    \/ Execute(p) \/ ExecuteFails(p) \/ (\E c \in Proc : Wait(p, c))
    \/ Exit(p) \/ CloseUnknown(p) \/ Killed(p) \/ Dies(p)
RunTask == Execute(Main) \/ ExecuteFails(Main) \/ \E c \in Proc : Wait(Main, c)

Next ==
    \/ \E p \in Parent : Progress(p)
    \/ \E p \in Proc : ChildProgress(p) \/ Syscall(p)
    \/ RunTask

Spec == Init /\ [][Next]_vars

(* Every ready thread gets the CPU; a user program need never call exit(). *)
FairSpec ==
    /\ Spec
    /\ \A p \in Parent : WF_vars(Progress(p))
    /\ \A p \in Proc : WF_vars(ChildProgress(p))

-----------------------------------------------------------------------------
(* Properties.                                                             *)

State == {"none", "loading", "running", "executed", "exec", "wait", "exiting", "dead"}
Info == [load_success : BOOLEAN, is_waited : BOOLEAN, is_killed : BOOLEAN,
         exit_status : Int, exec_sema : 0 .. 1, wait_sema : 0 .. 1]

(* Type invariant.  The semaphores of a thread_info are upped once, by the *)
(* exit of its thread.                                                     *)
TypeOK ==
    /\ state \in [Parent -> State]
    /\ of \in [Parent -> Proc \cup {NULL}]
    /\ child_info_list \in [Parent -> SUBSET Proc]
    /\ info \in [Proc -> Info \cup {NULL}]

(* Nobody uses a thread_info after process_wait() has freed it: it exists  *)
(* while its own thread may still report through it, while a list leads to *)
(* it, and while a parent sleeps on one of its semaphores.                 *)
InfoLifetime ==
    /\ \A p \in Proc : state[p] \notin {"none", "dead"} => info[p] # NULL
    /\ \A p \in Parent :
         /\ \A c \in child_info_list[p] : info[c] # NULL
         /\ state[p] \in {"exec", "wait"} => info[of[p]] # NULL

Returned(call) == ret # NULL /\ ret.call = call /\ ret.of # NULL

(* A wait that found the child returns the status the child gave to        *)
(* exit(), or -1 if it closed a descriptor it does not have, and then the  *)
(* child is dead; of a child killed for a bad pointer or a bad access it   *)
(* returns -1, whichever of the two came first.                            *)
WaitResult ==
    Returned("wait") =>
      /\ fate[ret.of].how = "exit" => ret.val = fate[ret.of].status /\ state[ret.of] = "dead"
      /\ fate[ret.of].how = "killed" => ret.val = -1

(* exec returns -1 exactly when the child could not be loaded: the child's *)
(* load_success has been written when handle_exec() reads it.              *)
ExecResult ==
    Returned("exec") => (ret.val = -1 <=> fate[ret.of].how = "not_loaded")

(* No process dies before its children: thread_exit() alone ups exec_sema, *)
(* so a parent sleeps in handle_exec() until the child is dead.            *)
NoOrphans ==
    \A p, c \in Proc : state[p] \in {"exiting", "dead"} /\ c \in child_info_list[p]
                          => state[c] = "dead"

(* Nobody sleeps for ever on a child that has begun to exit: the two       *)
(* sema_up() calls of thread_exit() reach a parent in exec or in wait.     *)
WaiterReleased ==
    \A p \in Parent, c \in Proc :
      (state[p] \in {"exec", "wait"} /\ of[p] = c /\ state[c] \in {"exiting", "dead"})
        ~> (state[p] \notin {"exec", "wait"} \/ of[p] # c)

(* What the comment on process_wait() says of a child "terminated by the   *)
(* kernel (i.e. killed due to an exception)": the wait returns -1.         *)
ExceptionReturnsMinusOne ==
    Returned("wait") /\ fate[ret.of].how \in {"killed", "exception"} => ret.val = -1

(* What the same comment says first, "Waits for thread TID to die": when a *)
(* wait that found the child returns, the child is dead.                   *)
WaitsForDeath == Returned("wait") => state[ret.of] = "dead"

(* What the tests that run programs side by side ask of exec, among them   *)
(* page-parallel, "Runs 4 child-linear processes at once", and syn-rw,     *)
(* whose children loop until their parent has written: once the child is   *)
(* in its program exec returns, whatever that program does.                *)
ExecReturnsOnceLoaded ==
    \A p, c \in Proc :
      (state[p] = "exec" /\ of[p] = c /\ state[c] = "running")
        ~> (state[p] # "exec" \/ of[p] # c)
=============================================================================
