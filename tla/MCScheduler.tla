---------------------------- MODULE MCScheduler ----------------------------
(***************************************************************************)
(* Workloads for TLC.  An entry point the repository does not have stands  *)
(* for a kernel task someone could add; the API is there for it.           *)
(***************************************************************************)
EXTENDS Scheduler, TLC

\* Bodies that use the whole API, beside those of main.c and shell.c.
MCBody == KernelTaskBody @@
    ("worker" :> {"yield", "block", "unblock", "acquire"}) @@ ("client" :> {"yield", "acquire"})

\* Two tasks that never block, and three that do.
StartupRR == <<"Shell_Run", "worker", "task2", "worker", "task1">>

\* Only one that never blocks, no sleep, and one create_kernel_task more than
\* tasks[] has room for.
StartupAPI == <<"worker", "client", "worker", "worker">>

\* main.c as it is: only the shell.
StartupBoot == <<"Shell_Run">>
=============================================================================
