------------------------------ MODULE JobList -------------------------------
(***************************************************************************)
(* The job list of the shell tsh.c. The functions that will use it are not *)
(* written yet (eval, do_bgfg, the signal handlers): they are modelled as  *)
(* the comment on the states of a job has it.                              *)
(***************************************************************************)
EXTENDS Naturals, FiniteSetsExt

CONSTANTS MAXJOBS, Processes,
          MaxJid        \* bound: the ids given out

VARIABLES jobs, nextjid,
          wrapped       \* nextjid has started again from 1 since the list was empty

vars == <<jobs, nextjid, wrapped>>

NoJob == [pid |-> 0, jid |-> 0, state |-> "UNDEF"]      \* clearjob
Slots == 1 .. MAXJOBS

initjobs == jobs = [i \in Slots |-> NoJob]
Init == initjobs /\ nextjid = 1 /\ wrapped = FALSE

\* A mutant: the number of jobs.
maxjid_count(list) == Cardinality({i \in Slots : list[i].pid # 0})

maxjid(list) == Max({0} \cup {list[i].jid : i \in Slots})

addjob(pid, state) ==
    LET free == {i \in Slots : jobs[i].pid = 0}
    IN  /\ pid >= 1 /\ free # {}
        /\ nextjid <= MaxJid
        /\ jobs' = [jobs EXCEPT ![Min(free)] = [pid |-> pid, jid |-> nextjid, state |-> state]]
        /\ nextjid' = IF nextjid + 1 > MAXJOBS THEN 1 ELSE nextjid + 1
        /\ wrapped' = (wrapped \/ nextjid + 1 > MAXJOBS)

With(pid) == {i \in Slots : jobs[i].pid = pid}

deletejob(pid) ==
    /\ pid >= 1 /\ With(pid) # {}
    /\ jobs' = [jobs EXCEPT ![Min(With(pid))] = NoJob]
    /\ nextjid' = maxjid(jobs') + 1
    /\ wrapped' = (wrapped /\ maxjid(jobs') > 0)

\* The place of a job in the list; 0 for NULL.
First(places) == IF places = {} THEN 0 ELSE Min(places)
getjobpid(pid) == IF pid < 1 THEN 0 ELSE First(With(pid))
getjobjid(jid) == IF jid < 1 THEN 0 ELSE First({i \in Slots : jobs[i].jid = jid})
pid2jid(pid) == IF getjobpid(pid) = 0 THEN 0 ELSE jobs[getjobpid(pid)].jid
fgpid == LET fg == {i \in Slots : jobs[i].state = "FG"}
         IN  IF fg = {} THEN 0 ELSE jobs[Min(fg)].pid

\* The shell to be: a child has a pid of its own, one job is in the foreground, fg and
\* bg name a job by its pid or its id, and a job is deleted when its process is reaped.
Run(p, state) == getjobpid(p) = 0 /\ (state = "FG" => fgpid = 0) /\ addjob(p, state)

Transitions == {<<"FG", "ST">>, <<"ST", "FG">>, <<"ST", "BG">>, <<"BG", "FG">>}
ChangeState(i, state) ==
    /\ i # 0 /\ <<jobs[i].state, state>> \in Transitions
    /\ state = "FG" => fgpid = 0
    /\ jobs' = [jobs EXCEPT ![i].state = state]
    /\ UNCHANGED <<nextjid, wrapped>>

Next ==
    \/ \E p \in Processes, state \in {"FG", "BG"} : Run(p, state)
    \/ \E p \in Processes : deletejob(p)
    \/ \E p \in Processes, state \in {"FG", "BG", "ST"} :
           ChangeState(getjobpid(p), state) \/ ChangeState(getjobjid(pid2jid(p)), state)

\* A job's id finds it and no other, until ids are given out again from 1 while jobs are
\* left; its pid always does, and no more than one job is in the foreground.
JobIds ==
    /\ \A i \in Slots : jobs[i].pid # 0 =>
           /\ getjobpid(jobs[i].pid) = i
           /\ ~wrapped => getjobjid(pid2jid(jobs[i].pid)) = i /\ jobs[i].jid < nextjid
    /\ \A i, j \in Slots : jobs[i].state = "FG" /\ jobs[j].state = "FG" => i = j
    /\ maxjid(jobs) = 0 => jobs = [i \in Slots |-> NoJob] /\ nextjid = 1 /\ ~wrapped
=============================================================================
