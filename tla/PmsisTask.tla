----------------------------- MODULE PmsisTask -----------------------------
(***************************************************************************)
(* The life of a pi_task_t, the notification object every driver call of   *)
(* drivers/ takes (drivers/pmsis_task.c, drivers/include/os.h).            *)
(*                                                                         *)
(* Only the fields the control flow reads are kept: what is to happen at   *)
(* the end of the operation (id), the completion flag the waiter polls     *)
(* (done), and the two fields that say whether a FreeRTOS semaphore still  *)
(* has to be deleted (destroy, sem).  The semaphore itself is never taken, *)
(* pi_task_wait_on spins on done (the take is commented out), so it is     *)
(* represented by its existence.                                           *)
(***************************************************************************)

\* What the end of an operation does with the task.
TaskId == {"PI_TASK_NONE_ID", "PI_TASK_CALLBACK_ID"}

PiTaskT == [id : TaskId, done : BOOLEAN, destroy : BOOLEAN, sem : BOOLEAN]

\* `pi_task_t task_block = {0}': identifier 0 is PI_TASK_CALLBACK_ID.
PiTaskZero == [id |-> "PI_TASK_CALLBACK_ID", done |-> FALSE,
               destroy |-> FALSE, sem |-> FALSE]

\* pi_task_block.  created is the outcome of xSemaphoreCreateCounting, whose
\* failure pi_task_block does not report: sem_object then stays NULL.
PiTaskBlock(created) == [id |-> "PI_TASK_NONE_ID", done |-> FALSE,
                         destroy |-> TRUE, sem |-> created]

\* pi_task_callback: no semaphore, nothing to destroy.
PiTaskCallback == [id |-> "PI_TASK_CALLBACK_ID", done |-> FALSE,
                   destroy |-> FALSE, sem |-> FALSE]

PiTaskRelease_Unset(task) == task

\* pi_task_release: give the semaphore, if there is one, then set done.
PiTaskRelease(task) == [task EXCEPT !.done = TRUE]

\* pi_task_push: the event kernel it hands the callback to does not exist
\* (pi_task_push_delayed_us is a TODO), so the set of callbacks scheduled for
\* execution stays as it is.
PiTaskPush(scheduled, t) == scheduled

PiTaskDestroy_Kept(task) == [task EXCEPT !.destroy = FALSE]

\* pi_task_destroy: the destroy flag guards against a second deletion.
PiTaskDestroy(task) ==
  IF task.destroy THEN [task EXCEPT !.destroy = FALSE, !.sem = FALSE] ELSE task

=============================================================================
