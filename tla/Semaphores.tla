----------------------------- MODULE Semaphores -----------------------------
(***************************************************************************)
(* The POSIX semaphores every threaded program of the repository goes      *)
(* through, behind the wrappers P and V of csapp.c.  sem_wait blocks while *)
(* the value is zero and then takes one in an atomic step; sem_post adds   *)
(* one.  Which of several waiting threads gets the value is not specified. *)
(* The wrappers' error branch is not taken: the semaphores are initialised *)
(* and no thread installs a signal handler that would interrupt the wait.  *)
(***************************************************************************)
EXTENDS Integers

P(s) == s > 0 /\ s' = s - 1

V(s) == s' = s + 1
=============================================================================
