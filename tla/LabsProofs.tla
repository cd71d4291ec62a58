----------------------------- MODULE LabsProofs -----------------------------
(***************************************************************************)
(* What programs of the labs keep, for any constants: the ids of the jobs  *)
(* of tsh.c, the play of a trace by sdriver.pl, the marks of driver.py,    *)
(* the cache that csim.c simulates, and the wrappers of csapp.c.  Labs     *)
(* runs one of its programs, so an invariant of each is one of the whole.  *)
(***************************************************************************)
EXTENDS Labs, FiniteSetTheorems, SequenceTheorems, WellFoundedInduction, TLAPS

\* A set of natural numbers that is not empty has a least member, and if it is bounded
\* a greatest one.
LEMMA LeastExists ==
    ASSUME NEW S, S \subseteq Nat, S # {}
    PROVE  \E x \in S : \A y \in S : x <= y
  <1> DEFINE Below == {ss \in Nat \X Nat : ss[1] < ss[2]}
  <1>1. PICK x \in S : \A y \in S : <<y, x>> \notin Below
    <2>1. IsWellFoundedOn(Below, Nat)
      BY NatLessThanWellFounded DEF OpToRel
    <2> HIDE DEF Below
    <2> QED BY <2>1, WFMin
  <1>2. \A y \in S : <<y, x>> \notin Below => x <= y
    <2> TAKE y \in S
    <2>1. <<y, x>> \in Nat \X Nat /\ <<y, x>>[1] = y /\ <<y, x>>[2] = x
      OBVIOUS
    <2> QED BY <2>1
  <1> QED BY <1>1, <1>2

LEMMA GreatestExists ==
    ASSUME NEW S, NEW b \in Nat, S \subseteq 0 .. b, S # {}
    PROVE  \E x \in S : \A y \in S : y <= x
  <1> DEFINE Gaps == {b - y : y \in S}
  <1>1. PICK d \in Gaps : \A e \in Gaps : d <= e
    <2>1. \A y \in S : b - y \in Nat
      OBVIOUS
    <2>2. Gaps \subseteq Nat /\ Gaps # {}
      BY <2>1
    <2> HIDE DEF Gaps
    <2> QED BY <2>2, LeastExists
  <1>2. PICK x \in S : d = b - x
    OBVIOUS
  <1>3. \A y \in S : y <= x
    <2> TAKE y \in S
    <2>1. b - x <= b - y
      BY <1>1, <1>2
    <2> QED BY <2>1
  <1> QED BY <1>3

-----------------------------------------------------------------------------
(* The shell's job list                                                     *)

LEMMA FirstIsMember ==
    ASSUME NEW S \in SUBSET Jobs!Slots
    PROVE  /\ S # {} => Jobs!Min(S) \in S /\ Jobs!First(S) = Jobs!Min(S)
           /\ Jobs!First(S) = 0 <=> S = {}
  <1>1. S \subseteq Nat /\ 0 \notin S
    BY JobsOK DEF Jobs!Slots
  <1>2. ASSUME S # {} PROVE Jobs!Min(S) \in S
    <2>1. \E x \in S : \A y \in S : x <= y
      BY <1>1, <1>2, LeastExists
    <2> QED BY <2>1 DEF Jobs!Min
  <1> QED BY <1>1, <1>2 DEF Jobs!First

Job == [pid : Nat \ {0}, jid : 1 .. MaxJid, state : {"FG", "BG", "ST"}]

JobTypes ==
    /\ jobs \in [Jobs!Slots -> Job \cup {Jobs!NoJob}]
    /\ nextjid \in Nat \ {0} /\ wrapped \in BOOLEAN

\* Two jobs have two pids, one of them at most is in the foreground, and until ids start
\* again they have two ids, below the next one; the first job of an empty list has id 1.
JobInv ==
    /\ JobTypes
    /\ \A a, b \in Jobs!Slots : a # b /\ jobs[a].pid # 0 =>
           /\ jobs[a].pid # jobs[b].pid
           /\ jobs[a].state # "FG" \/ jobs[b].state # "FG"
           /\ ~wrapped => jobs[a].jid # jobs[b].jid
    /\ ~wrapped => \A a \in Jobs!Slots : jobs[a].jid < nextjid
    /\ (\A a \in Jobs!Slots : jobs[a].pid = 0) => nextjid = 1 /\ ~wrapped

LEMMA JobKinds ==
    ASSUME JobTypes, NEW a \in Jobs!Slots
    PROVE  /\ jobs[a] \in Job \/ jobs[a] = Jobs!NoJob
           /\ jobs[a].pid \in Nat /\ jobs[a].jid \in 0 .. MaxJid
           /\ jobs[a].pid # 0 <=> jobs[a] \in Job
           /\ jobs[a].pid # 0 <=> jobs[a].jid # 0
           /\ jobs[a].pid # 0 <=> jobs[a].state # "UNDEF"
           /\ jobs[a].pid = 0 <=> jobs[a] = Jobs!NoJob
  <1>1. jobs[a] \in Job \cup {Jobs!NoJob}
    BY DEF JobTypes
  <1>2. CASE jobs[a] \in Job
    BY <1>2, JobsOK DEF Job, Jobs!NoJob
  <1>3. CASE jobs[a] = Jobs!NoJob
    BY <1>3, JobsOK DEF Job, Jobs!NoJob
  <1> QED BY <1>1, <1>2, <1>3

\* Nobody is in the foreground when fgpid says so.
LEMMA NoForeground ==
    ASSUME JobTypes, Jobs!fgpid = 0
    PROVE  \A a \in Jobs!Slots : jobs[a].state # "FG"
  <1> DEFINE fg == {a \in Jobs!Slots : jobs[a].state = "FG"}
  <1>1. ASSUME fg # {} PROVE FALSE
    <2>1. Jobs!Min(fg) \in fg
      BY <1>1, FirstIsMember
    <2>2. jobs[Jobs!Min(fg)].pid = 0
      BY <1>1 DEF Jobs!fgpid
    <2> QED BY <2>1, <2>2, JobKinds
  <1> QED BY <1>1

LEMMA InitJobInv == Jobs!Init => JobInv
  <1> SUFFICES ASSUME Jobs!Init PROVE JobInv
    OBVIOUS
  <1>1. /\ jobs = [a \in Jobs!Slots |-> Jobs!NoJob] /\ nextjid = 1 /\ wrapped = FALSE
        /\ \A a \in Jobs!Slots : jobs[a].pid = 0 /\ jobs[a].jid = 0
    BY DEF Jobs!Init, Jobs!initjobs, Jobs!NoJob
  <1>2. jobs \in [Jobs!Slots -> Job \cup {Jobs!NoJob}]
    BY <1>1
  <1>3. JobTypes
    <2>1. nextjid \in Nat \ {0}
      BY <1>1
    <2> QED BY <1>1, <1>2, <2>1, Zenon DEF JobTypes
  <1> QED BY <1>1, <1>3 DEF JobInv

LEMMA StepRun ==
    ASSUME JobInv, NEW u \in Processes, NEW state \in {"FG", "BG"}, Jobs!Run(u, state)
    PROVE  JobInv'
  <1> DEFINE free == {a \in Jobs!Slots : jobs[a].pid = 0}
             s == Jobs!Min(free)
             job == [pid |-> u, jid |-> nextjid, state |-> state]
  <1>1. JobTypes /\ u \in Nat \ {0}
    BY JobsOK DEF JobInv
  <1>2. s \in Jobs!Slots /\ jobs[s].pid = 0
    BY FirstIsMember DEF Jobs!Run, Jobs!addjob
  <1>3. /\ jobs' = [jobs EXCEPT ![s] = job] /\ nextjid <= MaxJid
        /\ nextjid' = (IF nextjid + 1 > MAXJOBS THEN 1 ELSE nextjid + 1)
        /\ wrapped' \in BOOLEAN
        /\ ~wrapped' => ~wrapped /\ ~(nextjid + 1 > MAXJOBS)
    BY Zenon DEF Jobs!Run, Jobs!addjob
  <1>4. \A a \in Jobs!Slots : jobs[a].pid # u
    <2>1. Jobs!First(Jobs!With(u)) = 0
      BY <1>1 DEF Jobs!Run, Jobs!getjobpid
    <2>2. Jobs!With(u) \subseteq Jobs!Slots
      BY DEF Jobs!With
    <2> QED BY <2>1, <2>2, FirstIsMember DEF Jobs!With
  <1>5. state = "FG" => \A a \in Jobs!Slots : jobs[a].state # "FG"
    BY <1>1, NoForeground DEF Jobs!Run
  <1>6. job \in Job
    BY <1>1, <1>3 DEF Job, JobTypes
  <1> HIDE DEF s
  <1>7. JobTypes'
    BY <1>1, <1>2, <1>3, <1>6, JobsOK DEF JobTypes
  <1>8. \A a \in Jobs!Slots : jobs'[a] = IF a = s THEN job ELSE jobs[a]
    BY <1>1, <1>3 DEF JobTypes
  <1>9. \A a, b \in Jobs!Slots : a # b /\ jobs'[a].pid # 0 =>
            /\ jobs'[a].pid # jobs'[b].pid
            /\ jobs'[a].state # "FG" \/ jobs'[b].state # "FG"
            /\ ~wrapped' => jobs'[a].jid # jobs'[b].jid
    <2>1. ASSUME NEW a \in Jobs!Slots \ {s}
          PROVE  /\ jobs[a].pid # u
                 /\ jobs[a].state # "FG" \/ state # "FG"
                 /\ ~wrapped' => jobs[a].jid # nextjid
      <3>1. ~wrapped' => jobs[a].jid < nextjid /\ jobs[a].jid \in Nat /\ nextjid \in Nat
        BY <1>1, <1>3, JobKinds DEF JobInv, JobTypes
      <3> QED BY <1>4, <1>5, <3>1
    <2> SUFFICES ASSUME NEW a \in Jobs!Slots, NEW b \in Jobs!Slots, a # b, jobs'[a].pid # 0
                 PROVE  /\ jobs'[a].pid # jobs'[b].pid
                        /\ jobs'[a].state # "FG" \/ jobs'[b].state # "FG"
                        /\ ~wrapped' => jobs'[a].jid # jobs'[b].jid
      OBVIOUS
    <2>2. CASE a = s
      BY <1>8, <2>1, <2>2
    <2>3. CASE b = s
      BY <1>8, <2>1, <2>3
    <2>4. CASE a # s /\ b # s
      <3>1. jobs'[a] = jobs[a] /\ jobs'[b] = jobs[b] /\ (~wrapped' => ~wrapped)
        BY <1>3, <1>8, <2>4
      <3> QED BY <3>1 DEF JobInv
    <2> QED BY <2>2, <2>3, <2>4
  <1>10. ~wrapped' => \A a \in Jobs!Slots : jobs'[a].jid < nextjid'
    <2> SUFFICES ASSUME ~wrapped', NEW a \in Jobs!Slots PROVE jobs'[a].jid < nextjid'
      OBVIOUS
    <2>1. jobs[a].jid \in Nat /\ jobs[a].jid < nextjid /\ nextjid' = nextjid + 1
      BY <1>1, <1>3, JobKinds DEF JobInv
    <2>2. nextjid \in Nat /\ nextjid < nextjid'
      BY <1>1, <2>1 DEF JobTypes
    <2>3. jobs'[a].jid \in {nextjid, jobs[a].jid}
      BY <1>8
    <2> QED BY <2>1, <2>2, <2>3
  <1>11. jobs'[s].pid # 0
    BY <1>1, <1>2, <1>8
  <1> QED BY <1>2, <1>7, <1>9, <1>10, <1>11 DEF JobInv

LEMMA PidIsFound ==
    ASSUME JobInv, NEW a \in Jobs!Slots, jobs[a].pid # 0
    PROVE  Jobs!With(jobs[a].pid) = {a} /\ Jobs!getjobpid(jobs[a].pid) = a
  <1>1. Jobs!With(jobs[a].pid) = {a}
    BY DEF Jobs!With, JobInv
  <1>2. ~(jobs[a].pid < 1)
    BY JobKinds DEF JobInv
  <1>3. Jobs!First({a}) = a
    BY FirstIsMember
  <1> QED BY <1>1, <1>2, <1>3, Zenon DEF Jobs!getjobpid

LEMMA PidsFindJobs ==
    ASSUME JobInv, NEW u \in Processes
    PROVE  Jobs!getjobpid(u) \in Jobs!Slots \cup {0} /\ Jobs!getjobjid(Jobs!pid2jid(u)) \in Jobs!Slots \cup {0}
  <1>1. \A S \in SUBSET Jobs!Slots : Jobs!First(S) \in Jobs!Slots \cup {0}
    BY FirstIsMember
  <1>2. Jobs!With(u) \in SUBSET Jobs!Slots
    BY DEF Jobs!With
  <1> QED BY <1>1, <1>2 DEF Jobs!getjobpid, Jobs!getjobjid

\* The largest id in use.
LEMMA LargestId ==
    ASSUME NEW list, \A a \in Jobs!Slots : list[a].jid \in 0 .. MaxJid
    PROVE  /\ Jobs!maxjid(list) \in 0 .. MaxJid
           /\ \A a \in Jobs!Slots : list[a].jid <= Jobs!maxjid(list)
           /\ Jobs!maxjid(list) = 0 <=> \A a \in Jobs!Slots : list[a].jid = 0
  <1> DEFINE S == {0} \cup {list[a].jid : a \in Jobs!Slots}
  <1>1. S \subseteq 0 .. MaxJid /\ 0 \in S
    BY JobsOK
  <1>2. \A a \in Jobs!Slots : list[a].jid \in S
    OBVIOUS
  <1>3. \A x \in S : x = 0 \/ \E a \in Jobs!Slots : x = list[a].jid
    OBVIOUS
  <1>4. Jobs!maxjid(list) = Jobs!Max(S)
    BY DEF Jobs!maxjid
  <1> HIDE DEF S
  <1>5. \E x \in S : \A y \in S : x >= y
    <2>1. \E x \in S : \A y \in S : y <= x
      BY <1>1, JobsOK, GreatestExists
    <2> QED BY <1>1, <2>1, JobsOK
  <1>6. Jobs!Max(S) \in S /\ \A y \in S : Jobs!Max(S) >= y
    BY <1>5 DEF Jobs!Max
  <1> DEFINE m == Jobs!maxjid(list)
  <1>7. m \in S /\ \A y \in S : m >= y
    BY <1>4, <1>6
  <1> HIDE DEF m
  <1>8. m \in 0 .. MaxJid /\ \A a \in Jobs!Slots : list[a].jid <= m
    BY <1>1, <1>2, <1>7, JobsOK
  <1>9. m = 0 => \A a \in Jobs!Slots : list[a].jid = 0
    BY <1>8, JobsOK
  <1>10. (\A a \in Jobs!Slots : list[a].jid = 0) => m = 0
    BY <1>3, <1>7
  <1> QED BY <1>8, <1>9, <1>10 DEF m

LEMMA StepDelete ==
    ASSUME JobInv, NEW u \in Processes, Jobs!deletejob(u)
    PROVE  JobInv'
  <1> DEFINE s == Jobs!Min(Jobs!With(u))
             most == Jobs!maxjid(jobs')
  <1>1. JobTypes
    BY DEF JobInv
  <1>2. s \in Jobs!Slots /\ jobs[s].pid = u
    <2>1. Jobs!With(u) \in SUBSET Jobs!Slots /\ Jobs!With(u) # {}
      BY DEF Jobs!deletejob, Jobs!With
    <2> QED BY <2>1, FirstIsMember DEF Jobs!With
  <1>3. /\ jobs' = [jobs EXCEPT ![s] = Jobs!NoJob]
        /\ nextjid' = most + 1
        /\ wrapped' \in BOOLEAN
        /\ ~wrapped' <=> ~wrapped \/ ~(most > 0)
    BY Zenon DEF Jobs!deletejob
  <1> HIDE DEF s
  <1>4. \A a \in Jobs!Slots : jobs'[a] = IF a = s THEN Jobs!NoJob ELSE jobs[a]
    BY <1>1, <1>3 DEF JobTypes
  <1>5. jobs' \in [Jobs!Slots -> Job \cup {Jobs!NoJob}]
    BY <1>1, <1>3 DEF JobTypes
  <1>6. \A a \in Jobs!Slots : /\ jobs'[a].jid \in 0 .. MaxJid
                              /\ jobs'[a].pid = 0 <=> jobs'[a].jid = 0
    <2>1. Jobs!NoJob.pid = 0 /\ Jobs!NoJob.jid = 0
      BY DEF Jobs!NoJob
    <2> QED BY <1>1, <1>4, <2>1, JobKinds, JobsOK
  <1>7. /\ most \in 0 .. MaxJid /\ \A a \in Jobs!Slots : jobs'[a].jid <= most
        /\ most = 0 <=> \A a \in Jobs!Slots : jobs'[a].jid = 0
    BY <1>6, LargestId
  <1> HIDE DEF most
  <1>8. nextjid' \in Nat \ {0} /\ \A a \in Jobs!Slots : jobs'[a].jid < nextjid'
    <2>1. nextjid' = most + 1
      BY <1>3, Zenon
    <2> QED BY <1>6, <1>7, <2>1, JobsOK
  <1>9. JobTypes'
    BY <1>3, <1>5, <1>8, Zenon DEF JobTypes
  <1>10. (\A a \in Jobs!Slots : jobs'[a].pid = 0) => nextjid' = 1 /\ ~wrapped'
    <2> SUFFICES ASSUME \A a \in Jobs!Slots : jobs'[a].pid = 0 PROVE nextjid' = 1 /\ ~wrapped'
      OBVIOUS
    <2>1. most = 0
      BY <1>6, <1>7
    <2>2. ~(most > 0) /\ most + 1 = 1
      BY <2>1
    <2> QED BY <1>3, <2>2, Zenon
  <1>11. \A a, b \in Jobs!Slots : a # b /\ jobs'[a].pid # 0 =>
            /\ jobs'[a].pid # jobs'[b].pid
            /\ jobs'[a].state # "FG" \/ jobs'[b].state # "FG"
            /\ ~wrapped' => jobs'[a].jid # jobs'[b].jid
    <2> SUFFICES ASSUME NEW a \in Jobs!Slots, NEW b \in Jobs!Slots, a # b, jobs'[a].pid # 0
                 PROVE  /\ jobs'[a].pid # jobs'[b].pid
                        /\ jobs'[a].state # "FG" \/ jobs'[b].state # "FG"
                        /\ ~wrapped' => jobs'[a].jid # jobs'[b].jid
      OBVIOUS
    <2>1. a # s /\ jobs'[a] = jobs[a] /\ jobs[a].pid # 0 /\ jobs[a].jid # 0
      BY <1>1, <1>4, JobKinds DEF Jobs!NoJob
    <2>2. CASE b = s
      BY <1>4, <2>1, <2>2 DEF Jobs!NoJob
    <2>3. CASE b # s
      <3>1. most # 0
        BY <1>7, <2>1
      <3>2. most > 0
        BY <1>7, <3>1, JobsOK
      <3>3. ~wrapped' => ~wrapped
        BY <1>3, <3>2, Zenon
      <3> QED BY <1>4, <2>1, <2>3, <3>3 DEF JobInv
    <2> QED BY <2>2, <2>3
  <1> QED BY <1>8, <1>9, <1>10, <1>11 DEF JobInv

LEMMA StepChangeState ==
    ASSUME JobInv, NEW a \in Jobs!Slots \cup {0}, NEW state \in {"FG", "BG", "ST"},
           Jobs!ChangeState(a, state)
    PROVE  JobInv'
  <1>1. JobTypes /\ a \in Jobs!Slots /\ UNCHANGED <<nextjid, wrapped>>
    BY DEF JobInv, Jobs!ChangeState
  <1>2. jobs[a] \in Job /\ jobs[a].pid # 0
    BY <1>1, JobKinds DEF Jobs!ChangeState, Jobs!Transitions, Jobs!NoJob
  <1>3. jobs' = [jobs EXCEPT ![a].state = state]
    BY DEF Jobs!ChangeState
  <1>4. \A b \in Jobs!Slots : /\ jobs'[b].pid = jobs[b].pid /\ jobs'[b].jid = jobs[b].jid
                              /\ jobs'[b].state = IF b = a THEN state ELSE jobs[b].state
    BY <1>1, <1>2, <1>3 DEF JobTypes, Job
  <1>5. JobTypes'
    BY <1>1, <1>2, <1>3 DEF JobTypes, Job
  <1>6. state = "FG" => \A b \in Jobs!Slots : jobs[b].state # "FG"
    BY <1>1, NoForeground DEF Jobs!ChangeState
  <1> QED BY <1>1, <1>4, <1>5, <1>6 DEF JobInv

LEMMA StepJobInv == JobInv /\ [Jobs!Next]_(Jobs!vars) => JobInv'
  <1> SUFFICES ASSUME JobInv, [Jobs!Next]_(Jobs!vars) PROVE JobInv'
    OBVIOUS
  <1>1. ASSUME NEW u \in Processes, NEW state \in {"FG", "BG", "ST"},
               \/ Jobs!ChangeState(Jobs!getjobpid(u), state)
               \/ Jobs!ChangeState(Jobs!getjobjid(Jobs!pid2jid(u)), state)
        PROVE  JobInv'
    BY <1>1, PidsFindJobs, StepChangeState
  <1>2. CASE UNCHANGED Jobs!vars
    BY <1>2 DEF Jobs!vars, JobInv, JobTypes
  <1> QED BY <1>1, <1>2, StepRun, StepDelete DEF Jobs!Next

LEMMA JobInvJobIds == JobInv => Jobs!JobIds
  <1> SUFFICES ASSUME JobInv PROVE Jobs!JobIds
    OBVIOUS
  <1>1. JobTypes
    BY DEF JobInv
  <1>2. ASSUME NEW a \in Jobs!Slots, jobs[a].pid # 0, ~wrapped
        PROVE  Jobs!getjobjid(Jobs!pid2jid(jobs[a].pid)) = a /\ jobs[a].jid < nextjid
    <2>1. Jobs!pid2jid(jobs[a].pid) = jobs[a].jid /\ jobs[a].jid >= 1
      BY <1>1, <1>2, PidIsFound, JobKinds, JobsOK DEF Jobs!pid2jid, Jobs!Slots
    <2>2. {b \in Jobs!Slots : jobs[b].jid = jobs[a].jid} = {a}
      BY <1>2 DEF JobInv
    <2>3. Jobs!First({a}) = a
      BY FirstIsMember
    <2>4. ~(Jobs!pid2jid(jobs[a].pid) < 1)
      BY <1>1, <2>1, JobKinds, JobsOK
    <2>5. jobs[a].jid < nextjid
      BY <1>2 DEF JobInv
    <2> QED BY <2>1, <2>2, <2>3, <2>4, <2>5, Zenon DEF Jobs!getjobjid
  <1>3. \A a, b \in Jobs!Slots : jobs[a].state = "FG" /\ jobs[b].state = "FG" => a = b
    BY <1>1, JobKinds DEF JobInv
  <1>4. Jobs!maxjid(jobs) = 0 => jobs = [a \in Jobs!Slots |-> Jobs!NoJob] /\ nextjid = 1 /\ ~wrapped
    <2> SUFFICES ASSUME Jobs!maxjid(jobs) = 0
                 PROVE  jobs = [a \in Jobs!Slots |-> Jobs!NoJob] /\ nextjid = 1 /\ ~wrapped
      OBVIOUS
    <2>1. \A a \in Jobs!Slots : jobs[a].jid = 0
      BY <1>1, JobKinds, LargestId
    <2>2. \A a \in Jobs!Slots : jobs[a].pid = 0 /\ jobs[a] = Jobs!NoJob
      BY <1>1, <2>1, JobKinds
    <2> QED BY <1>1, <2>2 DEF JobInv, JobTypes
  <1> QED BY <1>2, <1>3, <1>4, PidIsFound DEF Jobs!JobIds

-----------------------------------------------------------------------------
(* The shell lab's driver                                                   *)

Told == ShellLab!Before(i + 1)          \* what the trace has said
Started == IF shell = "starting" THEN 0 ELSE 1
SignalCount == Cardinality({j \in 1 .. i : todo[j] \in ShellLab!Signals})
LineCount == Cardinality({j \in 1 .. i : todo[j] = "line" /\ "CLOSE" \notin ShellLab!Before(j)})

TraceTypes ==
    /\ at \in {"trace", "echo", "done", "killed"}
    /\ todo \in Seq(ShellLab!Signals \cup {"CLOSE", "WAIT", "line"}) /\ i \in 0 .. Len(todo)
    /\ prompt \in BOOLEAN /\ writer \in BOOLEAN
    /\ shell \in {"starting", "flush", "read", "exiting", "stopped"} \cup ShellLab!Dead
    /\ buf \in Nat /\ input \in Nat /\ output \in Nat /\ printed \in Nat

\* How far the driver is.
DriverAt ==
    /\ at = "trace" => (writer <=> "CLOSE" \notin Told)
    /\ at \in {"echo", "done"} => ~writer /\ i = Len(todo)
    /\ at = "killed" => ShellLab!Before(i) \cap ShellLab!Signals # {}
    /\ at = "done" => shell = "reaped" /\ output = 0

\* A shell that has had no signal ends only when it has read all, to the end of its input;
\* one that has had a signal reads no more.
ShellAt ==
    /\ shell = "stopped" => "TSTP" \in Told
    /\ shell \in ShellLab!Dead \cup {"starting"} => buf = 0
    /\ Told \cap ShellLab!Signals = {} =>
           shell # "stopped" /\ (shell \in {"exiting"} \cup ShellLab!Dead => ~writer /\ input = 0)
    /\ Told \cap ShellLab!Signals # {} => shell \in {"stopped", "exiting"} \cup ShellLab!Dead

\* What the shell has written, and the lines it has still to answer: no more than a prompt
\* at its start, one for each line and a line for each signal; without signals no less.
LinesAnswered ==
    /\ printed + output + buf + input <= Started + LineCount + SignalCount
    /\ Told \cap ShellLab!Signals = {} =>
           /\ prompt => printed + output + buf + input = Started + LineCount
           /\ ~prompt => printed = 0 /\ output = 0 /\ buf = 0

TraceInv == TraceTypes /\ DriverAt /\ ShellAt /\ LinesAnswered

LEMMA CountsAreNats ==
    ASSUME TraceTypes
    PROVE  /\ SignalCount \in Nat /\ LineCount \in Nat
           /\ IsFiniteSet(ShellLab!Sent) /\ Cardinality(ShellLab!Sent) \in Nat
           /\ LineCount <= Cardinality(ShellLab!Sent)
           /\ i = Len(todo) => LineCount = Cardinality(ShellLab!Sent)
  <1> DEFINE lns == {j \in 1 .. i : todo[j] = "line" /\ "CLOSE" \notin ShellLab!Before(j)}
             sgs == {j \in 1 .. i : todo[j] \in ShellLab!Signals}
  <1>1. i \in Nat /\ Len(todo) \in Nat /\ i <= Len(todo) /\ DOMAIN todo = 1 .. Len(todo)
    BY DEF TraceTypes
  <1>2. /\ IsFiniteSet(1 .. i) /\ IsFiniteSet(1 .. Len(todo))
        /\ sgs \subseteq 1 .. i /\ lns \subseteq ShellLab!Sent /\ ShellLab!Sent \subseteq 1 .. Len(todo)
        /\ i = Len(todo) => lns = ShellLab!Sent
    <2>1. IsFiniteSet(1 .. i) /\ IsFiniteSet(1 .. Len(todo))
      BY <1>1, FS_Interval
    <2>2. sgs \subseteq 1 .. i /\ 1 .. i \subseteq 1 .. Len(todo)
      BY <1>1
    <2>3. lns \subseteq ShellLab!Sent /\ ShellLab!Sent \subseteq 1 .. Len(todo)
      BY <1>1, <2>2, Zenon DEF ShellLab!Sent
    <2>4. i = Len(todo) => lns = ShellLab!Sent
      BY <1>1, Zenon DEF ShellLab!Sent
    <2> QED BY <2>1, <2>2, <2>3, <2>4
  <1>3. SignalCount = Cardinality(sgs) /\ LineCount = Cardinality(lns)
    BY DEF SignalCount, LineCount
  <1> HIDE DEF lns, sgs
  <1>4. IsFiniteSet(sgs) /\ IsFiniteSet(ShellLab!Sent)
    BY <1>2, FS_Subset
  <1>5. IsFiniteSet(lns) /\ Cardinality(lns) <= Cardinality(ShellLab!Sent)
    BY <1>2, <1>4, FS_Subset
  <1> QED BY <1>2, <1>3, <1>4, <1>5, FS_CardinalityType

\* What one more line of the trace adds.
LEMMA CountsMove ==
    ASSUME TraceTypes, todo' = todo, i < Len(todo), i' = i + 1
    PROVE  /\ Told' = Told \cup {todo[i + 1]}
           /\ ShellLab!Before(i)' = Told
           /\ SignalCount' = SignalCount + (IF todo[i + 1] \in ShellLab!Signals THEN 1 ELSE 0)
           /\ LineCount' = LineCount + (IF todo[i + 1] = "line" /\ "CLOSE" \notin Told THEN 1 ELSE 0)
  <1> DEFINE lns(m) == {j \in 1 .. m : todo[j] = "line" /\ "CLOSE" \notin ShellLab!Before(j)}
             sgs(m) == {j \in 1 .. m : todo[j] \in ShellLab!Signals}
  <1>1. i \in Nat /\ 1 .. i + 1 = (1 .. i) \cup {i + 1} /\ i + 1 \notin 1 .. i
    BY DEF TraceTypes
  <1>2. Told' = Told \cup {todo[i + 1]} /\ ShellLab!Before(i)' = Told
    <2>1. (i + 1) - 1 = i /\ (i + 1) + 1 - 1 = i + 1
      BY <1>1
    <2> QED BY <1>1, <2>1 DEF Told, ShellLab!Before
  <1>3. /\ sgs(i + 1) = IF todo[i + 1] \in ShellLab!Signals THEN sgs(i) \cup {i + 1} ELSE sgs(i)
        /\ lns(i + 1) = IF todo[i + 1] = "line" /\ "CLOSE" \notin Told THEN lns(i) \cup {i + 1} ELSE lns(i)
    BY <1>1 DEF Told
  <1>4. /\ IsFiniteSet(sgs(i)) /\ IsFiniteSet(lns(i)) /\ i + 1 \notin sgs(i) /\ i + 1 \notin lns(i)
        /\ Cardinality(sgs(i)) \in Nat /\ Cardinality(lns(i)) \in Nat
    <2>1. IsFiniteSet(1 .. i) /\ sgs(i) \subseteq 1 .. i /\ lns(i) \subseteq 1 .. i
      <3>1. IsFiniteSet(1 .. i)
        BY <1>1, FS_Interval
      <3> QED BY <3>1, Zenon
    <2>2. i + 1 \notin sgs(i) /\ i + 1 \notin lns(i)
      BY <1>1, <2>1
    <2> HIDE DEF sgs, lns
    <2>3. IsFiniteSet(sgs(i)) /\ IsFiniteSet(lns(i))
      BY <2>1, FS_Subset
    <2> QED BY <2>2, <2>3, FS_CardinalityType
  <1>5. /\ SignalCount' = Cardinality(sgs(i + 1)) /\ SignalCount = Cardinality(sgs(i))
        /\ LineCount' = Cardinality(lns(i + 1)) /\ LineCount = Cardinality(lns(i))
    BY DEF SignalCount, LineCount, ShellLab!Before
  <1> HIDE DEF lns, sgs
  <1>6. /\ Cardinality(sgs(i) \cup {i + 1}) = Cardinality(sgs(i)) + 1
        /\ Cardinality(lns(i) \cup {i + 1}) = Cardinality(lns(i)) + 1
    BY <1>4, FS_AddElement
  <1> QED BY <1>2, <1>3, <1>4, <1>5, <1>6

LEMMA InitTraceInv == ShellLab!Init => TraceInv
  <1> SUFFICES ASSUME ShellLab!Init PROVE TraceInv
    OBVIOUS
  <1>1. /\ at = "trace" /\ i = 0 /\ shell = "starting" /\ buf = 0 /\ writer = TRUE
        /\ input = 0 /\ output = 0 /\ printed = 0 /\ prompt \in BOOLEAN
    BY DEF ShellLab!Init
  <1>2. todo \in Seq(ShellLab!Signals \cup {"CLOSE", "WAIT", "line"}) /\ Len(todo) \in Nat
    BY DEF ShellLab!Init, ShellLab!SeqOf
  <1>3. TraceTypes
    <2>1. 0 \in Nat /\ i \in 0 .. Len(todo)
      BY <1>1, <1>2
    <2> QED BY <1>1, <1>2, <2>1, Zenon DEF TraceTypes
  <1>4. Told = {} /\ SignalCount \in Nat /\ LineCount \in Nat /\ 1 .. i = {}
    BY <1>1, <1>3, CountsAreNats DEF Told, ShellLab!Before
  <1>5. LineCount = 0
    BY <1>4, FS_EmptySet DEF LineCount
  <1>6. DriverAt /\ ShellAt
    BY <1>1, <1>4, Zenon DEF DriverAt, ShellAt, ShellLab!Dead
  <1>7. LinesAnswered
    BY <1>1, <1>4, <1>5 DEF LinesAnswered, Started
  <1> QED BY <1>3, <1>6, <1>7 DEF TraceInv

\* The counts stay where the driver stays.
LEMMA CountsStay ==
    ASSUME UNCHANGED <<todo, i>>
    PROVE  /\ Told' = Told /\ ShellLab!Before(i)' = ShellLab!Before(i)
           /\ SignalCount' = SignalCount /\ LineCount' = LineCount
  BY DEF Told, SignalCount, LineCount, ShellLab!Before

LEMMA StepMain ==
    ASSUME TraceInv, ShellLab!Main
    PROVE  TraceInv'
  <1>1. /\ UNCHANGED <<at, i, writer, printed, todo, prompt>>
        /\ TraceTypes /\ DriverAt /\ ShellAt /\ LinesAnswered
    BY DEF ShellLab!Main, ShellLab!trace, TraceInv
  <1>2. /\ Told' = Told /\ ShellLab!Before(i)' = ShellLab!Before(i)
        /\ SignalCount' = SignalCount /\ LineCount' = LineCount
    BY <1>1, CountsStay
  <1>3. SignalCount \in Nat /\ LineCount \in Nat
    BY <1>1, CountsAreNats
  <1>4. /\ shell \in {"starting", "flush", "read", "exiting"}
        /\ shell' \in {"flush", "read", "exiting", "zombie"}
    BY DEF ShellLab!Main, ShellLab!Prompt
  <1>5. TraceTypes'
    BY <1>1, <1>4 DEF TraceTypes, ShellLab!Main, ShellLab!Prompt, ShellLab!Flushed, ShellLab!Dead
  <1>6. DriverAt'
    BY <1>1, <1>2, <1>4, Zenon DEF DriverAt
  <1>7. ShellAt' /\ LinesAnswered'
    <2>1. CASE shell = "starting" /\ ShellLab!Prompt /\ UNCHANGED <<input, output>>
      BY <1>1, <1>2, <1>3, <2>1
         DEF TraceTypes, ShellAt, LinesAnswered, Started, ShellLab!Prompt, ShellLab!Dead
    <2>2. CASE shell = "flush" /\ ShellLab!Flushed /\ shell' = "read" /\ UNCHANGED input
      BY <1>1, <1>2, <1>3, <2>2
         DEF TraceTypes, ShellAt, LinesAnswered, Started, ShellLab!Flushed, ShellLab!Dead
    <2>3. CASE shell = "read" /\ input > 0 /\ input' = input - 1 /\ ShellLab!Prompt /\ UNCHANGED output
      BY <1>1, <1>2, <1>3, <2>3
         DEF TraceTypes, ShellAt, LinesAnswered, Started, ShellLab!Prompt, ShellLab!Dead
    <2>4. CASE shell = "read" /\ input = 0 /\ ~writer /\ shell' = "exiting" /\ UNCHANGED <<input, output, buf>>
      BY <1>1, <1>2, <1>3, <2>4
         DEF TraceTypes, ShellAt, LinesAnswered, Started, ShellLab!Dead
    <2>5. CASE shell = "exiting" /\ ShellLab!Flushed /\ shell' = "zombie" /\ UNCHANGED input
      BY <1>1, <1>2, <1>3, <2>5
         DEF TraceTypes, ShellAt, LinesAnswered, Started, ShellLab!Flushed, ShellLab!Dead
    <2> QED BY <2>1, <2>2, <2>3, <2>4, <2>5 DEF ShellLab!Main
  <1> QED BY <1>5, <1>6, <1>7 DEF TraceInv

LEMMA StepEndOfTrace ==
    ASSUME TraceInv, ShellLab!EndOfTrace
    PROVE  TraceInv'
  <1>1. /\ at = "trace" /\ i = Len(todo) /\ at' = "echo" /\ writer' = FALSE
        /\ UNCHANGED <<i, todo, prompt, shell, buf, input, output, printed>>
        /\ TraceTypes /\ DriverAt /\ ShellAt /\ LinesAnswered
    BY DEF ShellLab!EndOfTrace, ShellLab!trace, TraceInv
  <1>2. /\ Told' = Told /\ SignalCount' = SignalCount /\ LineCount' = LineCount
    BY <1>1, CountsStay
  <1>3. TraceTypes'
    BY <1>1, Zenon DEF TraceTypes
  <1>4. DriverAt' /\ ShellAt'
    BY <1>1, <1>2, Zenon DEF DriverAt, ShellAt
  <1>5. LinesAnswered'
    BY <1>1, <1>2 DEF LinesAnswered, Started
  <1> QED BY <1>3, <1>4, <1>5 DEF TraceInv

LEMMA StepEcho ==
    ASSUME TraceInv, ShellLab!Echo
    PROVE  TraceInv'
  <1>1. /\ at = "echo" /\ UNCHANGED <<todo, prompt, i, buf, writer, input>>
        /\ TraceTypes /\ DriverAt /\ ShellAt /\ LinesAnswered
    BY DEF ShellLab!Echo, ShellLab!trace, TraceInv
  <1>2. /\ Told' = Told /\ SignalCount' = SignalCount /\ LineCount' = LineCount
    BY <1>1, CountsStay
  <1>3. SignalCount \in Nat /\ LineCount \in Nat
    BY <1>1, CountsAreNats
  <1>4. CASE output > 0 /\ printed' = printed + output /\ output' = 0 /\ UNCHANGED <<at, shell>>
    <2>1. TraceTypes'
      BY <1>1, <1>4 DEF TraceTypes
    <2>2. DriverAt' /\ ShellAt'
      BY <1>1, <1>2, <1>4, Zenon DEF DriverAt, ShellAt
    <2>3. LinesAnswered'
      BY <1>1, <1>2, <1>3, <1>4 DEF TraceTypes, LinesAnswered, Started
    <2> QED BY <2>1, <2>2, <2>3 DEF TraceInv
  <1>5. CASE output = 0 /\ ShellLab!Wait /\ at' = "done" /\ UNCHANGED <<output, printed>>
    <2>1. shell \in ShellLab!Dead /\ shell' = "reaped"
      BY <1>5 DEF ShellLab!Wait
    <2>2. TraceTypes'
      BY <1>1, <1>5, <2>1, Zenon DEF TraceTypes, ShellLab!Dead
    <2>3. DriverAt' /\ ShellAt'
      BY <1>1, <1>2, <1>5, <2>1, Zenon DEF DriverAt, ShellAt, ShellLab!Dead
    <2>4. LinesAnswered'
      BY <1>1, <1>2, <1>5, <2>1 DEF LinesAnswered, Started, ShellLab!Dead
    <2> QED BY <2>2, <2>3, <2>4 DEF TraceInv
  <1> QED BY <1>4, <1>5 DEF ShellLab!Echo

\* The sums grow on both sides.
LEMMA SumsGrow ==
    ASSUME NEW w \in Nat, NEW b0 \in Nat, NEW b1 \in Nat, NEW r \in Nat,
           NEW s0 \in Nat, NEW l0 \in Nat, NEW l1 \in Nat, NEW g \in Nat
    PROVE  /\ b1 <= b0 + 1 /\ w + b0 + r <= s0 + l0 + g => w + b1 + r <= s0 + l0 + (g + 1)
           /\ l0 <= l1 /\ w <= s0 + l0 + g => w <= s0 + l1 + g
  OBVIOUS

\* A signal takes the shell out of its loop, with a line more to print at most.
LEMMA SignalHandled ==
    ASSUME TraceInv, NEW sig \in ShellLab!Signals, ShellLab!Handle(sig)
    PROVE  /\ shell' \in {"stopped", "exiting"} \cup ShellLab!Dead
           /\ shell' = "stopped" => shell = "stopped" \/ sig = "TSTP"
           /\ shell' \in ShellLab!Dead => buf' = 0
           /\ buf' \in Nat
           /\ shell = "starting" \/ shell' = "starting" => buf' = 0
           /\ buf' <= buf + 1
  <1>1. TraceTypes /\ ShellAt
    BY DEF TraceInv
  <1>2. CASE sig = "KILL" /\ shell' = "zombie" /\ buf' = 0
    BY <1>1, <1>2 DEF TraceTypes, ShellLab!Dead
  <1>3. CASE /\ sig # "KILL" /\ shell = "starting" /\ UNCHANGED buf
             /\ shell' = IF sig = "TSTP" THEN "stopped" ELSE "zombie"
    BY <1>1, <1>3 DEF TraceTypes, ShellAt, ShellLab!Dead
  <1>4. CASE /\ shell \in {"flush", "read", "exiting"} /\ shell' = "exiting"
             /\ buf' \in IF shell = "exiting" THEN {buf, buf + 1} ELSE {buf + 1}
    BY <1>1, <1>4 DEF TraceTypes, ShellLab!Dead
  <1>5. CASE /\ shell \in ShellLab!Dead \/ (shell = "stopped" /\ sig # "KILL")
             /\ UNCHANGED <<shell, buf>>
    BY <1>1, <1>5 DEF TraceTypes, ShellAt, ShellLab!Dead
  <1> QED BY <1>2, <1>3, <1>4, <1>5 DEF ShellLab!Handle

LEMMA StepCommand ==
    ASSUME TraceInv, ShellLab!Command
    PROVE  TraceInv'
  <1> DEFINE line == todo[i + 1]
  <1>1. /\ at = "trace" /\ i < Len(todo) /\ i' = i + 1
        /\ UNCHANGED <<todo, prompt, output, printed>>
        /\ TraceTypes /\ DriverAt /\ ShellAt /\ LinesAnswered
    BY DEF ShellLab!Command, ShellLab!trace, TraceInv
  <1>2. /\ Told' = Told \cup {line} /\ ShellLab!Before(i)' = Told
        /\ SignalCount' = SignalCount + (IF line \in ShellLab!Signals THEN 1 ELSE 0)
        /\ LineCount' = LineCount + (IF line = "line" /\ "CLOSE" \notin Told THEN 1 ELSE 0)
    BY <1>1, CountsMove
  <1>3. /\ SignalCount \in Nat /\ LineCount \in Nat
        /\ i' \in 0 .. Len(todo) /\ todo' \in Seq(ShellLab!Signals \cup {"CLOSE", "WAIT", "line"})
        /\ Len(todo') = Len(todo)
    BY <1>1, CountsAreNats DEF TraceTypes
  <1> HIDE DEF line
  <1>4. CASE line \in ShellLab!Signals /\ ShellLab!Handle(line) /\ UNCHANGED <<at, writer, input>>
    <2>1. /\ shell' \in {"stopped", "exiting"} \cup ShellLab!Dead
          /\ shell' = "stopped" => shell = "stopped" \/ line = "TSTP"
          /\ shell' \in ShellLab!Dead => buf' = 0
          /\ buf' \in Nat
          /\ shell = "starting" \/ shell' = "starting" => buf' = 0
          /\ buf' <= buf + 1
      BY <1>4, SignalHandled
    <2>2. /\ line # "line" /\ line # "CLOSE" /\ Told' \cap ShellLab!Signals # {}
          /\ SignalCount' = SignalCount + 1 /\ LineCount' = LineCount
          /\ shell' # "starting"
      <3>1. line # "line" /\ line # "CLOSE" /\ shell' # "starting"
        BY <1>4, <2>1 DEF ShellLab!Signals, ShellLab!Dead
      <3>2. Told' \cap ShellLab!Signals # {}
        BY <1>2, <1>4, Zenon
      <3> QED BY <1>2, <1>3, <1>4, <3>1, <3>2
    <2>3. TraceTypes'
      BY <1>1, <1>3, <1>4, <2>1, Zenon DEF TraceTypes
    <2>4. DriverAt'
      BY <1>1, <1>2, <1>4, <2>2, Zenon DEF DriverAt
    <2>5. ShellAt'
      BY <1>1, <1>2, <2>1, <2>2, Zenon DEF ShellAt
    <2>6. LinesAnswered'
      <3>1. /\ printed + output + buf + input <= Started + LineCount + SignalCount
            /\ buf \in Nat /\ input \in Nat /\ output \in Nat /\ printed \in Nat
            /\ shell = "starting" => buf = 0
        BY <1>1, Zenon DEF LinesAnswered, TraceTypes, ShellAt
      <3>2. printed' = printed /\ output' = output /\ input' = input /\ Started' = 1
        BY <1>1, <1>4, <2>2, Zenon DEF Started
      <3>3. ASSUME shell = "starting"
            PROVE  printed' + output' + buf' + input' <= Started' + LineCount' + SignalCount'
        <4>1. Started = 0 /\ buf = 0 /\ buf' = 0
          BY <2>1, <3>1, <3>3, Zenon DEF Started
        <4> QED BY <1>3, <2>2, <3>1, <3>2, <4>1
      <3>4. ASSUME shell # "starting"
            PROVE  printed' + output' + buf' + input' <= Started' + LineCount' + SignalCount'
        <4>1. Started = 1 /\ buf' <= buf + 1 /\ buf' \in Nat
          BY <2>1, <3>4 DEF Started
        <4>2. SignalCount' = SignalCount + 1 /\ LineCount' = LineCount
          BY <2>2
        <4>3. SignalCount \in Nat /\ LineCount \in Nat
          BY <1>3
        <4>4. printed + output + buf' + input <= 1 + LineCount + (SignalCount + 1)
          <5>1. printed + output \in Nat /\ 1 \in Nat /\ buf' \in Nat /\ buf' <= buf + 1
            BY <3>1, <4>1
          <5>2. printed + output + buf + input <= 1 + LineCount + SignalCount
            BY <3>1, <4>1, Zenon
          <5> QED BY <3>1, <4>3, <5>1, <5>2, SumsGrow, Zenon
        <4> QED BY <3>2, <4>2, <4>4, Zenon
      <3>5. printed' + output' + buf' + input' <= Started' + LineCount' + SignalCount'
        BY <3>3, <3>4
      <3> QED BY <2>2, <3>5, Zenon DEF LinesAnswered
    <2> QED BY <2>3, <2>4, <2>5, <2>6 DEF TraceInv
  <1>5. CASE line = "CLOSE" /\ writer' = FALSE /\ UNCHANGED <<at, shell, buf, input>>
    <2>1. /\ Told' \cap ShellLab!Signals = Told \cap ShellLab!Signals
          /\ SignalCount' = SignalCount /\ LineCount' = LineCount
      BY <1>2, <1>3, <1>5 DEF ShellLab!Signals
    <2>2. TraceTypes'
      BY <1>1, <1>3, <1>5, Zenon DEF TraceTypes
    <2>3. DriverAt' /\ ShellAt'
      BY <1>1, <1>2, <1>5, <2>1, Zenon DEF DriverAt, ShellAt
    <2>4. LinesAnswered'
      BY <1>1, <1>5, <2>1 DEF LinesAnswered, Started
    <2> QED BY <2>2, <2>3, <2>4 DEF TraceInv
  <1>6. CASE line = "WAIT" /\ ShellLab!Wait /\ UNCHANGED <<at, buf, writer, input>>
    <2>1. /\ Told' \cap ShellLab!Signals = Told \cap ShellLab!Signals
          /\ SignalCount' = SignalCount /\ LineCount' = LineCount
      BY <1>2, <1>3, <1>6 DEF ShellLab!Signals
    <2>2. shell \in ShellLab!Dead /\ shell' = "reaped"
      BY <1>6 DEF ShellLab!Wait
    <2>3. TraceTypes'
      BY <1>1, <1>3, <1>6, <2>2, Zenon DEF TraceTypes, ShellLab!Dead
    <2>4. DriverAt' /\ ShellAt'
      BY <1>1, <1>2, <1>6, <2>1, <2>2, Zenon DEF DriverAt, ShellAt, ShellLab!Dead
    <2>5. LinesAnswered'
      BY <1>1, <1>6, <2>1, <2>2 DEF LinesAnswered, Started, ShellLab!Dead
    <2> QED BY <2>3, <2>4, <2>5 DEF TraceInv
  <1>7. CASE /\ line = "line" /\ writer /\ shell \notin ShellLab!Dead
             /\ input < PipeSize /\ input' = input + 1 /\ UNCHANGED <<at, shell, buf, writer>>
    <2>1. /\ Told' \cap ShellLab!Signals = Told \cap ShellLab!Signals
          /\ "CLOSE" \notin Told
          /\ SignalCount' = SignalCount /\ LineCount' = LineCount + 1
      <3>1. "CLOSE" \notin Told
        BY <1>1, <1>7, Zenon DEF DriverAt
      <3> QED BY <1>2, <1>3, <1>7, <3>1 DEF ShellLab!Signals
    <2>2. TraceTypes'
      <3>1. input' \in Nat
        BY <1>1, <1>7 DEF TraceTypes
      <3> QED BY <1>1, <1>3, <1>7, <3>1, Zenon DEF TraceTypes
    <2>3. DriverAt' /\ ShellAt'
      BY <1>1, <1>2, <1>7, <2>1, Zenon DEF DriverAt, ShellAt
    <2>4. LinesAnswered'
      BY <1>1, <1>3, <1>7, <2>1 DEF TraceTypes, LinesAnswered, Started
    <2> QED BY <2>2, <2>3, <2>4 DEF TraceInv
  <1>8. CASE /\ line = "line" /\ writer /\ shell \in ShellLab!Dead /\ at' = "killed"
             /\ UNCHANGED <<shell, buf, writer, input>>
    <2>1. /\ Told' \cap ShellLab!Signals = Told \cap ShellLab!Signals
          /\ SignalCount' = SignalCount /\ LineCount' \in {LineCount, LineCount + 1}
      BY <1>2, <1>3, <1>8 DEF ShellLab!Signals
    <2>2. Told \cap ShellLab!Signals # {}
      BY <1>1, <1>8, Zenon DEF ShellAt
    <2>3. TraceTypes'
      BY <1>1, <1>3, <1>8, Zenon DEF TraceTypes
    <2>4. DriverAt' /\ ShellAt'
      BY <1>1, <1>2, <1>8, <2>1, <2>2, Zenon DEF DriverAt, ShellAt
    <2>5. LinesAnswered'
      <3>1. /\ printed + output + buf + input <= Started + LineCount + SignalCount
            /\ buf \in Nat /\ input \in Nat /\ output \in Nat /\ printed \in Nat
        BY <1>1, Zenon DEF LinesAnswered, TraceTypes
      <3>2. /\ UNCHANGED <<printed, output, buf, input, shell>>
            /\ Told' \cap ShellLab!Signals # {}
        BY <1>1, <1>8, <2>1, <2>2, Zenon
      <3>3. Started' = Started /\ Started \in Nat
        BY <3>2 DEF Started
      <3>4. printed' + output' + buf' + input' <= Started' + LineCount' + SignalCount'
        <4>1. LineCount' \in Nat /\ LineCount <= LineCount' /\ SignalCount' = SignalCount
          BY <1>3, <2>1
        <4>2. SignalCount \in Nat /\ LineCount \in Nat
          BY <1>3
        <4>3. UNCHANGED <<printed, output, buf, input>>
          BY <3>2
        <4>4. printed + output + buf + input <= Started + LineCount' + SignalCount
          <5>1. printed + output + buf + input \in Nat
            BY <3>1
          <5> QED BY <3>1, <3>3, <4>1, <4>2, <5>1, SumsGrow, Zenon
        <4> QED BY <3>3, <4>1, <4>3, <4>4, Zenon
      <3> QED BY <3>2, <3>4, Zenon DEF LinesAnswered
    <2> QED BY <2>3, <2>4, <2>5 DEF TraceInv
  <1>9. CASE line = "line" /\ ~writer /\ UNCHANGED <<at, shell, buf, writer, input>>
    <2>1. /\ Told' \cap ShellLab!Signals = Told \cap ShellLab!Signals
          /\ "CLOSE" \in Told
          /\ SignalCount' = SignalCount /\ LineCount' = LineCount
      <3>1. "CLOSE" \in Told
        BY <1>1, <1>9, Zenon DEF DriverAt
      <3> QED BY <1>2, <1>3, <1>9, <3>1 DEF ShellLab!Signals
    <2>2. TraceTypes'
      BY <1>1, <1>3, <1>9, Zenon DEF TraceTypes
    <2>3. DriverAt' /\ ShellAt'
      BY <1>1, <1>2, <1>9, <2>1, Zenon DEF DriverAt, ShellAt
    <2>4. LinesAnswered'
      BY <1>1, <1>9, <2>1 DEF LinesAnswered, Started
    <2> QED BY <2>2, <2>3, <2>4 DEF TraceInv
  <1> QED BY <1>4, <1>5, <1>6, <1>7, <1>8, <1>9 DEF ShellLab!Command, line

LEMMA StepTraceInv == TraceInv /\ [ShellLab!Next]_(ShellLab!vars) => TraceInv'
  <1> SUFFICES ASSUME TraceInv, [ShellLab!Next]_(ShellLab!vars) PROVE TraceInv'
    OBVIOUS
  <1>1. CASE UNCHANGED ShellLab!vars
    <2>1. UNCHANGED <<at, todo, i, prompt, shell, buf, writer, input, output, printed>>
      BY <1>1 DEF ShellLab!vars
    <2>2. TraceTypes /\ DriverAt /\ ShellAt /\ LinesAnswered
      BY DEF TraceInv
    <2>3. TraceTypes'
      BY <2>1, <2>2, Zenon DEF TraceTypes
    <2>4. DriverAt'
      BY <2>1, <2>2, CountsStay, Zenon DEF DriverAt
    <2>5. ShellAt'
      BY <2>1, <2>2, CountsStay, Zenon DEF ShellAt
    <2>6. LinesAnswered'
      BY <2>1, <2>2, CountsStay, Zenon DEF LinesAnswered, Started
    <2> QED BY <2>3, <2>4, <2>5, <2>6 DEF TraceInv
  <1> QED BY <1>1, StepMain, StepCommand, StepEndOfTrace, StepEcho, Zenon DEF ShellLab!Next

LEMMA TraceInvPlayed == TraceInv => ShellLab!TracePlayed
  <1> SUFFICES ASSUME TraceInv PROVE ShellLab!TracePlayed
    OBVIOUS
  <1>1. TraceTypes /\ DriverAt /\ ShellAt /\ LinesAnswered
    BY DEF TraceInv
  <1>2. /\ SignalCount \in Nat /\ LineCount \in Nat /\ Cardinality(ShellLab!Sent) \in Nat
        /\ LineCount <= Cardinality(ShellLab!Sent)
        /\ i = Len(todo) => LineCount = Cardinality(ShellLab!Sent)
    BY <1>1, CountsAreNats
  <1>3. ASSUME ShellLab!Waits
        PROVE  \/ shell = "stopped" /\ "TSTP" \in Told
               \/ \E j \in DOMAIN todo :
                     todo[j] = "WAIT" /\ ShellLab!Before(j) \cap (ShellLab!Signals \cup {"CLOSE"}) = {}
               \/ Cardinality(ShellLab!Sent) + SignalCount >= PipeSize
    <2>1. CASE shell = "stopped"
      BY <1>1, <2>1, Zenon DEF ShellAt
    <2>2. CASE shell = "read" /\ input = 0 /\ writer
      <3>1. at = "trace" /\ i < Len(todo)
        BY <1>1, <1>3, <2>2, Zenon DEF DriverAt, ShellLab!Waits
      <3>2. CASE todo[i + 1] = "WAIT"
        <4>1. i + 1 \in DOMAIN todo
          BY <1>1, <3>1 DEF TraceTypes
        <4>2. "CLOSE" \notin Told
          BY <1>1, <2>2, <3>1, Zenon DEF DriverAt
        <4>3. Told \cap ShellLab!Signals = {}
          BY <1>1, <2>2 DEF ShellAt, ShellLab!Dead
        <4>4. Told \cap (ShellLab!Signals \cup {"CLOSE"}) = {}
          BY <4>2, <4>3
        <4> QED BY <3>2, <4>1, <4>4, Zenon DEF Told
      <3>3. CASE input = PipeSize
        BY <1>2, <2>2, <3>3
      <3> QED BY <1>3, <3>1, <3>2, <3>3, Zenon DEF ShellLab!Waits
    <2>3. CASE shell \in {"flush", "exiting"} /\ output + buf > PipeSize
      BY <1>1, <1>2, <2>3, PipesOK DEF TraceTypes, LinesAnswered, Started
    <2> QED BY <1>3, <2>1, <2>2, <2>3, Zenon DEF ShellLab!Waits
  <1>4. ASSUME at = "done", ShellLab!Before(Len(todo) + 1) \cap ShellLab!Signals = {}
        PROVE  printed = IF prompt THEN Cardinality(ShellLab!Sent) + 1 ELSE 0
    <2>1. i = Len(todo) /\ shell = "reaped" /\ output = 0
      BY <1>1, <1>4, Zenon DEF DriverAt
    <2>2. Told \cap ShellLab!Signals = {}
      BY <1>4, <2>1 DEF Told
    <2>3. input = 0 /\ buf = 0 /\ Started = 1
      BY <1>1, <2>1, <2>2 DEF ShellAt, ShellLab!Dead, Started
    <2>4. prompt => printed + output + buf + input = Started + LineCount
      BY <1>1, <2>2, Zenon DEF LinesAnswered
    <2>5. ~prompt => printed = 0
      BY <1>1, <2>2, Zenon DEF LinesAnswered
    <2>6. (printed + output + buf + input = Started + LineCount) => printed = Cardinality(ShellLab!Sent) + 1
      BY <1>1, <1>2, <2>1, <2>3 DEF TraceTypes
    <2> QED BY <2>4, <2>5, <2>6, Zenon
  <1>5. /\ at = "killed" => ShellLab!Before(i) \cap ShellLab!Signals # {}
        /\ at = "done" => shell = "reaped"
    BY <1>1, Zenon DEF DriverAt
  <1>6. (at = "done" /\ ShellLab!Before(Len(todo) + 1) \cap ShellLab!Signals = {})
            => printed = IF prompt THEN Cardinality(ShellLab!Sent) + 1 ELSE 0
    BY <1>4, Zenon
  <1>7. \A S : ShellLab!Cardinality(S) = Cardinality(S)
    BY DEF ShellLab!Cardinality, Cardinality
  <1> QED BY <1>3, <1>5, <1>6, <1>7, Zenon DEF ShellLab!TracePlayed, Told, SignalCount

-----------------------------------------------------------------------------
(* The cache lab's driver                                                   *)

\* What is given for so many misses.
MissScore(t, miss) ==
    LET b0 == CacheLab!Bounds[CacheLab!Tests[t]]
    IN  CacheLab!computeMissScore(miss, b0.lower, b0.upper, b0.maxscore)
MaxScore(t) == CacheLab!Bounds[CacheLab!Tests[t]].maxscore
LowerBound(t) == CacheLab!Bounds[CacheLab!Tests[t]].lower

LEMMA MissScores ==
    ASSUME NEW t \in 1 .. 3, NEW m1 \in Nat, NEW m2 \in Nat, m1 <= m2
    PROVE  /\ MissScore(t, m1) \in Nat /\ MissScore(t, m2) \in Nat
           /\ MissScore(t, m2) <= MissScore(t, m1) /\ MissScore(t, m1) <= 10 * MaxScore(t)
           /\ m1 <= LowerBound(t) => MissScore(t, m1) = 10 * MaxScore(t)
           /\ MaxScore(t) \in Nat
  <1>1. CASE t = 1
    <2>1. CacheLab!Bounds[CacheLab!Tests[t]] = [lower |-> 300, upper |-> 600, maxscore |-> 8]
      BY <1>1 DEF CacheLab!Bounds, CacheLab!Tests
    <2>2. ASSUME NEW m \in Nat
          PROVE  MissScore(t, m) = IF m <= 300 THEN 80 ELSE IF m >= 600 THEN 0
                                   ELSE (160 * (600 - m) + 300) \div 600
      BY <2>1 DEF MissScore, CacheLab!computeMissScore
    <2> QED BY <2>1, <2>2 DEF MaxScore, LowerBound
  <1>2. CASE t = 2
    <2>1. CacheLab!Bounds[CacheLab!Tests[t]] = [lower |-> 1300, upper |-> 2000, maxscore |-> 8]
      BY <1>2 DEF CacheLab!Bounds, CacheLab!Tests
    <2>2. ASSUME NEW m \in Nat
          PROVE  MissScore(t, m) = IF m <= 1300 THEN 80 ELSE IF m >= 2000 THEN 0
                                   ELSE (160 * (2000 - m) + 700) \div 1400
      BY <2>1 DEF MissScore, CacheLab!computeMissScore
    <2> QED BY <2>1, <2>2 DEF MaxScore, LowerBound
  <1>3. CASE t = 3
    <2>1. CacheLab!Bounds[CacheLab!Tests[t]] = [lower |-> 2000, upper |-> 3000, maxscore |-> 10]
      BY <1>3 DEF CacheLab!Bounds, CacheLab!Tests
    <2>2. ASSUME NEW m \in Nat
          PROVE  MissScore(t, m) = IF m <= 2000 THEN 100 ELSE IF m >= 3000 THEN 0
                                   ELSE (200 * (3000 - m) + 1000) \div 2000
      BY <2>1 DEF MissScore, CacheLab!computeMissScore
    <2> QED BY <2>1, <2>2 DEF MaxScore, LowerBound
  <1> QED BY <1>1, <1>2, <1>3

\* What test-trans may print, and either program.
Marked == ({1} \X Misses) \cup {<<0, CacheLab!INT_MAX>>, <<0, 0>>, <<>>}
Printed == {<<pts>> : pts \in CsimPoints} \cup Marked

\* The total is made in one step, of four results that were all there.
CacheInv ==
    /\ at \in {"run", "crash", "summary"} /\ got \in Seq(Printed)
    /\ \A t \in DOMAIN got : got[t] \in IF t = 1 THEN {<<pts>> : pts \in CsimPoints} \cup {<<>>} ELSE Marked
    /\ at = "run" => total = 0
    /\ at # "run" => Len(got) = 4
    /\ at = "crash" => total = 0 /\ \E t \in 1 .. 4 : got[t] = <<>>
    /\ at = "summary" =>
           /\ \A t \in 1 .. 4 : got[t] # <<>>
           /\ total = 10 * got[1][1] + CacheLab!Score(1) + CacheLab!Score(2) + CacheLab!Score(3)

LEMMA InitCacheInv == CacheLab!Init => CacheInv
  <1> SUFFICES ASSUME CacheLab!Init PROVE CacheInv
    OBVIOUS
  <1>1. at = "run" /\ got = <<>> /\ total = 0
    BY DEF CacheLab!Init
  <1>2. got \in Seq(Printed) /\ DOMAIN got = {}
    BY <1>1
  <1> QED BY <1>1, <1>2 DEF CacheInv

LEMMA StepCacheInv == CacheInv /\ [CacheLab!Next]_(CacheLab!vars) => CacheInv'
  <1> SUFFICES ASSUME CacheInv, [CacheLab!Next]_(CacheLab!vars) PROVE CacheInv'
    OBVIOUS
  <1>1. CASE CacheLab!Run
    <2>1. PICK numbers \in CacheLab!Output : got' = Append(got, numbers)
      BY <1>1 DEF CacheLab!Run
    <2>2. at = "run" /\ at' = at /\ total' = total
      BY <1>1 DEF CacheLab!Run
    <2>3. numbers \in IF got = <<>> THEN {<<pts>> : pts \in CsimPoints} \cup {<<>>} ELSE Marked
      BY DEF CacheLab!Output, Marked
    <2>4. numbers \in Printed /\ got \in Seq(Printed)
      BY <2>3 DEF Printed, Marked, CacheInv
    <2>5. /\ got' \in Seq(Printed) /\ DOMAIN got' = (DOMAIN got) \cup {Len(got) + 1}
          /\ \A t \in DOMAIN got : got'[t] = got[t] /\ t # Len(got) + 1
          /\ got'[Len(got) + 1] = numbers
      BY <2>1, <2>4
    <2>6. Len(got) + 1 = 1 <=> got = <<>>
      BY <2>4
    <2>7. \A t \in DOMAIN got' :
              got'[t] \in IF t = 1 THEN {<<pts>> : pts \in CsimPoints} \cup {<<>>} ELSE Marked
      <3> SUFFICES ASSUME NEW t \in DOMAIN got'
                   PROVE  got'[t] \in IF t = 1 THEN {<<pts>> : pts \in CsimPoints} \cup {<<>>} ELSE Marked
        OBVIOUS
      <3>1. CASE t \in DOMAIN got
        BY <2>5, <3>1, Zenon DEF CacheInv
      <3>2. CASE t = Len(got) + 1
        BY <2>3, <2>5, <2>6, <3>2, Zenon
      <3> QED BY <2>5, <3>1, <3>2, Zenon
    <2> QED BY <2>2, <2>5, <2>7, Zenon DEF CacheInv
  <1>2. CASE CacheLab!Summarize
    <2>1. at = "run" /\ Len(got) = 4 /\ got' = got
      BY <1>2 DEF CacheLab!Summarize
    <2>2. CASE (\E t \in 1 .. 4 : got[t] = <<>>) /\ at' = "crash" /\ UNCHANGED total
      BY <2>1, <2>2, Zenon DEF CacheInv
    <2>3. CASE /\ ~(\E t \in 1 .. 4 : got[t] = <<>>) /\ at' = "summary"
               /\ total' = 10 * got[1][1] + CacheLab!Score(1) + CacheLab!Score(2) + CacheLab!Score(3)
      <3>1. /\ CacheLab!Score(1)' = CacheLab!Score(1) /\ CacheLab!Score(2)' = CacheLab!Score(2)
            /\ CacheLab!Score(3)' = CacheLab!Score(3)
        BY <2>1 DEF CacheLab!Score, CacheLab!Result
      <3> QED BY <2>1, <2>3, <3>1, Zenon DEF CacheInv
    <2> QED BY <1>2, <2>2, <2>3, Zenon DEF CacheLab!Summarize
  <1>3. CASE UNCHANGED CacheLab!vars
    <2>1. UNCHANGED <<at, got, total>>
      BY <1>3 DEF CacheLab!vars
    <2>2. /\ CacheLab!Score(1)' = CacheLab!Score(1) /\ CacheLab!Score(2)' = CacheLab!Score(2)
          /\ CacheLab!Score(3)' = CacheLab!Score(3)
      BY <2>1 DEF CacheLab!Score, CacheLab!Result
    <2> QED BY <2>1, <2>2, Zenon DEF CacheInv
  <1> QED BY <1>1, <1>2, <1>3 DEF CacheLab!Next

\* A function's part of the total.
LEMMA ScoresAre ==
    ASSUME CacheInv, at = "summary", NEW t \in 1 .. 3
    PROVE  /\ CacheLab!Result(t)[2] \in Nat /\ CacheLab!Score(t) \in Nat
           /\ CacheLab!Score(t) <= 10 * MaxScore(t) /\ MaxScore(t) \in Nat
           /\ CacheLab!Result(t)[1] = 0 => CacheLab!Score(t) = 0
           /\ CacheLab!Result(t)[1] = 1 => CacheLab!Score(t) = MissScore(t, CacheLab!Result(t)[2])
  <1>1. t + 1 \in DOMAIN got /\ t + 1 # 1 /\ t + 1 \in 1 .. 4
    BY DEF CacheInv
  <1>2. CacheLab!Result(t) \in ({1} \X Misses) \cup {<<0, CacheLab!INT_MAX>>, <<0, 0>>}
    BY <1>1 DEF CacheInv, Marked, CacheLab!Result
  <1>3. CacheLab!Result(t)[2] \in Nat /\ CacheLab!Result(t)[1] \in {0, 1}
    <2>1. CacheLab!INT_MAX \in Nat
      BY SMT DEF CacheLab!INT_MAX
    <2>2. CASE CacheLab!Result(t) \in {1} \X Misses
      BY <2>2, PointsOK
    <2>3. CASE CacheLab!Result(t) \in {<<0, CacheLab!INT_MAX>>, <<0, 0>>}
      BY <2>1, <2>3
    <2> QED BY <1>2, <2>2, <2>3
  <1>4. CacheLab!Score(t) = MissScore(t, CacheLab!Result(t)[2]) * CacheLab!Result(t)[1]
    BY DEF CacheLab!Score, MissScore
  <1>5. /\ MissScore(t, CacheLab!Result(t)[2]) \in Nat /\ MaxScore(t) \in Nat
        /\ MissScore(t, CacheLab!Result(t)[2]) <= 10 * MaxScore(t)
    <2>1. \A m \in Nat : m <= m
      OBVIOUS
    <2> QED BY <1>3, <2>1, MissScores, Zenon
  <1> DEFINE s == MissScore(t, CacheLab!Result(t)[2])
             r == CacheLab!Result(t)[1]
             m == MaxScore(t)
  <1>6. s \in Nat /\ m \in Nat /\ s <= 10 * m /\ r \in {0, 1}
    BY <1>3, <1>5
  <1> HIDE DEF s, r, m
  <1>7. r = 0 => s * r = 0 /\ s * r <= 10 * m
    BY <1>6
  <1>8. r = 1 => s * r = s
    BY <1>6
  <1> QED BY <1>3, <1>4, <1>6, <1>7, <1>8 DEF s, r, m

LEMMA CacheInvMarks == CacheInv => CacheLab!CacheMarks
  <1> SUFFICES ASSUME CacheInv PROVE CacheLab!CacheMarks
    OBVIOUS
  <1>1. at = "crash" <=> (total = 0 /\ at # "run" /\ \E t \in 1 .. 4 : got[t] = <<>>)
    BY Zenon DEF CacheInv
  <1>2. ASSUME at = "summary"
        PROVE  /\ total <= 10 * (got[1][1] + 8 + 8 + 10)
               /\ (\A t \in 1 .. 3 : CacheLab!Result(t)[1] = 0) => total = 10 * got[1][1]
               /\ \A t \in 1 .. 3 : CacheLab!Result(t)[1] = 1 =>
                      /\ CacheLab!Result(t)[2] <= LowerBound(t) => total >= 10 * (got[1][1] + MaxScore(t))
                      /\ \A m \in Misses : m >= CacheLab!Result(t)[2] => MissScore(t, m) <= CacheLab!Score(t)
    <2>1. got[1][1] \in Nat
      <3>1. 1 \in DOMAIN got /\ 1 \in 1 .. 4
        BY <1>2 DEF CacheInv
      <3>2. got[1] \in {<<pts>> : pts \in CsimPoints}
        BY <1>2, <3>1 DEF CacheInv
      <3>3. PICK pts \in CsimPoints : got[1] = <<pts>>
        BY <3>2
      <3>4. got[1][1] = pts
        BY <3>3
      <3> QED BY <3>4, PointsOK
    <2>2. total = 10 * got[1][1] + CacheLab!Score(1) + CacheLab!Score(2) + CacheLab!Score(3)
      BY <1>2, Zenon DEF CacheInv
    <2>3. MaxScore(1) = 8 /\ MaxScore(2) = 8 /\ MaxScore(3) = 10
      BY DEF MaxScore, CacheLab!Bounds, CacheLab!Tests
    <2>4. \A t \in 1 .. 3 : /\ CacheLab!Score(t) \in Nat /\ CacheLab!Score(t) <= 10 * MaxScore(t)
                            /\ CacheLab!Result(t)[1] = 0 => CacheLab!Score(t) = 0
      BY <1>2, ScoresAre
    <2> DEFINE p0 == got[1][1]
               s1 == CacheLab!Score(1)
               s2 == CacheLab!Score(2)
               s3 == CacheLab!Score(3)
    <2>5. p0 \in Nat /\ s1 \in 0 .. 80 /\ s2 \in 0 .. 80 /\ s3 \in 0 .. 100 /\ total = 10 * p0 + s1 + s2 + s3
      BY <2>1, <2>2, <2>3, <2>4
    <2>6. (\A t \in 1 .. 3 : CacheLab!Result(t)[1] = 0) => s1 = 0 /\ s2 = 0 /\ s3 = 0
      BY <2>4
    <2>7. ASSUME NEW t \in 1 .. 3, CacheLab!Result(t)[1] = 1
          PROVE  /\ CacheLab!Result(t)[2] <= LowerBound(t) => CacheLab!Score(t) = 10 * MaxScore(t)
                 /\ \A m \in Misses : m >= CacheLab!Result(t)[2] => MissScore(t, m) <= CacheLab!Score(t)
      <3>1. CacheLab!Result(t)[2] \in Nat /\ CacheLab!Score(t) = MissScore(t, CacheLab!Result(t)[2])
        BY <1>2, <2>7, ScoresAre
      <3>2. CacheLab!Result(t)[2] <= LowerBound(t) => CacheLab!Score(t) = 10 * MaxScore(t)
        <4>1. \A m \in Nat : m <= m
          OBVIOUS
        <4> QED BY <3>1, <4>1, MissScores, Zenon
      <3>3. ASSUME NEW m \in Misses, m >= CacheLab!Result(t)[2]
            PROVE  MissScore(t, m) <= CacheLab!Score(t)
        <4>1. m \in Nat /\ CacheLab!Result(t)[2] <= m
          BY <3>1, <3>3, PointsOK
        <4> QED BY <3>1, <4>1, MissScores
      <3> QED BY <3>2, <3>3
    <2>8. ASSUME NEW t \in 1 .. 3, CacheLab!Score(t) = 10 * MaxScore(t)
          PROVE  total >= 10 * (p0 + MaxScore(t))
      <3>1. t = 1 \/ t = 2 \/ t = 3
        OBVIOUS
      <3>2. t = 1 => s1 = 80 /\ MaxScore(t) = 8
        BY <2>3, <2>8
      <3>3. t = 2 => s2 = 80 /\ MaxScore(t) = 8
        BY <2>3, <2>8
      <3>4. t = 3 => s3 = 100 /\ MaxScore(t) = 10
        BY <2>3, <2>8
      <3> HIDE DEF p0, s1, s2, s3
      <3> QED BY <2>5, <3>1, <3>2, <3>3, <3>4
    <2>9. total <= 10 * (p0 + 8 + 8 + 10)
      <3> HIDE DEF p0, s1, s2, s3
      <3> QED BY <2>5
    <2>10. s1 = 0 /\ s2 = 0 /\ s3 = 0 => total = 10 * p0
      <3> HIDE DEF p0, s1, s2, s3
      <3> QED BY <2>5
    <2> QED BY <2>6, <2>7, <2>8, <2>9, <2>10, Zenon
  <1> QED BY <1>1, <1>2, Zenon DEF CacheLab!CacheMarks, MissScore, MaxScore, LowerBound, CacheLab!Score

-----------------------------------------------------------------------------
(* A set of lines in the cache of csim.c.  Its history has the tag of each   *)
(* access to it, by the place of the operation in the trace.                 *)

Line(E) == [i : 1 .. E, tag_bit : Int, times : Nat]
Tags(L) == {l.tag_bit : l \in L}
Full(L, E) == \A y \in 1 .. E : \E l \in L : l.i = y

History(h, b) == h = [j \in DOMAIN h |-> h[j]] /\ DOMAIN h \subseteq 1 .. b /\ \A j \in DOMAIN h : h[j] \in Int
LastUse(h, tag, j) == j \in DOMAIN h /\ h[j] = tag /\ \A m \in DOMAIN h : h[m] = tag => m <= j
UsedSince(h, m) == {h[j] : j \in {j \in DOMAIN h : m < j}}
UsedAfter(h, L, m) == \A l \in L : \E j : LastUse(h, l.tag_bit, j) /\ j > m

\* A line is younger than another whose last use is older, and what has no line was used before
\* anything that has one.
Ages(L, h, E) ==
    /\ L \subseteq Line(E)
    /\ \A l1, l2 \in L : l1.i = l2.i \/ l1.tag_bit = l2.tag_bit => l1 = l2
    /\ \A l \in L : \E j : LastUse(h, l.tag_bit, j)
    /\ \A l1, l2 \in L : \A j1, j2 \in DOMAIN h :
           LastUse(h, l1.tag_bit, j1) /\ LastUse(h, l2.tag_bit, j2) /\ j1 > j2 => l1.times < l2.times
    /\ \A j \in DOMAIN h : h[j] \in Tags(L) \/ (Full(L, E) /\ UsedAfter(h, L, j))

LEMMA ImageAtMost ==
    ASSUME NEW S, IsFiniteSet(S), NEW f, NEW T, \A x \in T : \E y \in S : f[y] = x
    PROVE  IsFiniteSet(T) /\ Cardinality(T) <= Cardinality(S)
  <1> DEFINE R == {f[y] : y \in S}
             g == [y \in S |-> f[y]]
  <1>1. g \in Surjection(S, R)
    BY DEF Surjection
  <1>2. IsFiniteSet(R) /\ Cardinality(R) <= Cardinality(S)
    <2> HIDE DEF R, g
    <2> QED BY <1>1, FS_Surjection
  <1>3. T \in SUBSET R
    OBVIOUS
  <1>4. IsFiniteSet(T) /\ Cardinality(T) <= Cardinality(R)
    <2> HIDE DEF R
    <2> QED BY <1>2, <1>3, FS_Subset
  <1>5. Cardinality(T) \in Int /\ Cardinality(R) \in Int /\ Cardinality(S) \in Int
    <2> HIDE DEF R
    <2> QED BY <1>2, <1>4, FS_CardinalityType
  <1> HIDE DEF R
  <1> QED BY <1>2, <1>4, <1>5

LEMMA UsedSinceFinite ==
    ASSUME NEW b \in Nat, NEW h, History(h, b), NEW m
    PROVE  IsFiniteSet(UsedSince(h, m)) /\ Cardinality(UsedSince(h, m)) \in Nat
  <1>1. IsFiniteSet(1 .. b)
    BY FS_Interval
  <1>2. IsFiniteSet(DOMAIN h)
    BY <1>1, FS_Subset DEF History
  <1>3. \A x \in UsedSince(h, m) : \E y \in DOMAIN h : h[y] = x
    BY DEF UsedSince
  <1>4. IsFiniteSet(UsedSince(h, m))
    BY <1>2, <1>3, ImageAtMost
  <1> QED BY <1>4, FS_CardinalityType

\* With a line in every place, all used after m, there are as many tags since m.
LEMMA FullOfTags ==
    ASSUME NEW E \in Nat, NEW b \in Nat, NEW h, History(h, b), NEW L, Ages(L, h, E),
           NEW m, Full(L, E), UsedAfter(h, L, m)
    PROVE  Cardinality(UsedSince(h, m)) >= E
  <1> DEFINE line(y) == CHOOSE l \in L : l.i = y
             f == [y \in 1 .. E |-> line(y).tag_bit]
  <1>1. \A y \in 1 .. E : line(y) \in L /\ line(y).i = y
    BY DEF Full
  <1> HIDE DEF line
  <1>2. \A y \in 1 .. E : line(y).tag_bit \in UsedSince(h, m)
    BY <1>1 DEF UsedAfter, LastUse, UsedSince
  <1>3. \A y, z \in 1 .. E : line(y).tag_bit = line(z).tag_bit => y = z
    <2> TAKE y, z \in 1 .. E
    <2> HAVE line(y).tag_bit = line(z).tag_bit
    <2>1. line(y) = line(z)
      BY <1>1, Zenon DEF Ages
    <2> QED BY <1>1, <2>1
  <1>4. f \in Injection(1 .. E, UsedSince(h, m))
    BY <1>2, <1>3 DEF Injection, IsInjective
  <1>5. IsFiniteSet(1 .. E) /\ Cardinality(1 .. E) = E
    BY FS_Interval
  <1>6. IsFiniteSet(UsedSince(h, m)) /\ Cardinality(UsedSince(h, m)) \in Nat
    BY UsedSinceFinite
  <1>7. Cardinality(1 .. E) <= Cardinality(UsedSince(h, m))
    <2> HIDE DEF f
    <2> QED BY <1>4, <1>5, <1>6, FS_Injection
  <1> QED BY <1>5, <1>6, <1>7

\* With all tags since m in lines of other places than y, there are fewer than E.
LEMMA FewTags ==
    ASSUME NEW E \in Nat, NEW b \in Nat, NEW h, History(h, b), NEW L, Ages(L, h, E),
           NEW m, NEW y \in 1 .. E,
           \A j \in DOMAIN h : m < j => \E l \in L : l.tag_bit = h[j] /\ l.i # y
    PROVE  Cardinality(UsedSince(h, m)) < E
  <1> DEFINE others == (1 .. E) \ {y}
             line(z) == CHOOSE l \in L : l.i = z
             f == [z \in others |-> line(z).tag_bit]
  <1>1. \A l \in L : l.i \in 1 .. E /\ line(l.i) = l
    <2> TAKE l \in L
    <2>1. l.i \in 1 .. E
      BY DEF Ages, Line
    <2>2. line(l.i) \in L /\ line(l.i).i = l.i
      OBVIOUS
    <2> HIDE DEF line
    <2> QED BY <2>1, <2>2, Zenon DEF Ages
  <1> HIDE DEF line
  <1>2. \A x \in UsedSince(h, m) : \E z \in others : f[z] = x
    <2> TAKE x \in UsedSince(h, m)
    <2>1. PICK l \in L : l.tag_bit = x /\ l.i # y
      BY DEF UsedSince
    <2>2. l.i \in others /\ line(l.i) = l
      BY <1>1, <2>1
    <2> QED BY <2>1, <2>2
  <1>3. IsFiniteSet(1 .. E) /\ Cardinality(1 .. E) = E
    BY FS_Interval
  <1>4. IsFiniteSet(others) /\ Cardinality(others) = E - 1
    BY <1>3, FS_RemoveElement
  <1>5. Cardinality(UsedSince(h, m)) <= Cardinality(others)
    <2> HIDE DEF f, others
    <2> QED BY <1>2, <1>4, ImageAtMost
  <1>6. Cardinality(UsedSince(h, m)) \in Nat
    BY UsedSinceFinite
  <1> HIDE DEF others
  <1> QED BY <1>4, <1>5, <1>6

\* The tags that have a line are those used with fewer than E others since.
LEMMA TagsAre ==
    ASSUME NEW E \in Nat, NEW b \in Nat, NEW h, History(h, b), NEW L, Ages(L, h, E), NEW tag
    PROVE  tag \in Tags(L) <=> \E m \in DOMAIN h : h[m] = tag /\ Cardinality(UsedSince(h, m)) < E
  <1>1. ASSUME tag \in Tags(L)
        PROVE  \E m \in DOMAIN h : h[m] = tag /\ Cardinality(UsedSince(h, m)) < E
    <2>1. PICK l \in L : l.tag_bit = tag
      BY <1>1 DEF Tags
    <2>2. PICK m : LastUse(h, tag, m)
      BY <2>1 DEF Ages
    <2>3. DOMAIN h \subseteq Nat /\ m \in DOMAIN h /\ h[m] = tag
      BY <2>2 DEF LastUse, History
    <2>4. ASSUME NEW j \in DOMAIN h, m < j
          PROVE  \E l1 \in L : l1.tag_bit = h[j] /\ l1.i # l.i
      <3>1. h[j] # tag
        BY <2>2, <2>3, <2>4 DEF LastUse
      <3>2. h[j] \in Tags(L)
        <4> SUFFICES ASSUME UsedAfter(h, L, j) PROVE FALSE
          BY DEF Ages
        <4>1. PICK k : LastUse(h, tag, k) /\ k > j
          BY <2>1 DEF UsedAfter
        <4> QED BY <2>2, <2>3, <2>4, <4>1 DEF LastUse
      <3>3. PICK l1 \in L : l1.tag_bit = h[j]
        BY <3>2 DEF Tags
      <3>4. l1.i # l.i
        BY <2>1, <3>1, <3>3, Zenon DEF Ages
      <3> QED BY <3>3, <3>4
    <2>5. l.i \in 1 .. E
      BY <2>1 DEF Ages, Line
    <2>6. Cardinality(UsedSince(h, m)) < E
      BY <2>4, <2>5, FewTags
    <2> QED BY <2>3, <2>6
  <1>2. ASSUME tag \notin Tags(L), NEW m \in DOMAIN h, h[m] = tag
        PROVE  ~(Cardinality(UsedSince(h, m)) < E)
    <2>1. Full(L, E) /\ UsedAfter(h, L, m)
      BY <1>2, Zenon DEF Ages
    <2>2. Cardinality(UsedSince(h, m)) >= E
      BY <2>1, FullOfTags
    <2>3. Cardinality(UsedSince(h, m)) \in Nat
      BY UsedSinceFinite
    <2> QED BY <2>2, <2>3
  <1> QED BY <1>1, <1>2

\* All places have a line when E tags have been used.
LEMMA FullIs ==
    ASSUME NEW E \in Nat, NEW b \in Nat, NEW h, History(h, b), NEW L, Ages(L, h, E)
    PROVE  Full(L, E) <=> Cardinality(UsedSince(h, 0)) >= E
  <1>1. ASSUME Full(L, E) PROVE Cardinality(UsedSince(h, 0)) >= E
    <2>1. UsedAfter(h, L, 0)
      <3> SUFFICES ASSUME NEW l \in L PROVE \E j : LastUse(h, l.tag_bit, j) /\ j > 0
        BY DEF UsedAfter
      <3>1. PICK j : LastUse(h, l.tag_bit, j)
        BY DEF Ages
      <3>2. j > 0
        BY <3>1 DEF LastUse, History
      <3> QED BY <3>1, <3>2
    <2> QED BY <1>1, <2>1, FullOfTags
  <1>2. ASSUME ~Full(L, E) PROVE ~(Cardinality(UsedSince(h, 0)) >= E)
    <2>1. PICK y \in 1 .. E : \A l \in L : l.i # y
      BY <1>2 DEF Full
    <2>2. \A j \in DOMAIN h : \E l \in L : l.tag_bit = h[j] /\ l.i # y
      BY <1>2, <2>1 DEF Ages, Tags
    <2>3. Cardinality(UsedSince(h, 0)) < E
      BY <2>2, FewTags
    <2>4. Cardinality(UsedSince(h, 0)) \in Nat
      BY UsedSinceFinite
    <2> QED BY <2>3, <2>4
  <1> QED BY <1>1, <1>2

\* What an access does to a set: the line in place y has the tag, and is the youngest.
Touch(L, y, tag) ==
    {[l EXCEPT !.times = @ + 1] : l \in {l \in L : l.i # y}} \cup {[i |-> y, tag_bit |-> tag, times |-> 0]}

HitAt(L, y, tag) == \E l \in L : l.i = y /\ l.tag_bit = tag
FreeAt(L, y, tag) == tag \notin Tags(L) /\ \A l \in L : l.i # y
OldestAt(L, E, y, tag) ==
    tag \notin Tags(L) /\ Full(L, E) /\ \E l \in L : l.i = y /\ \A l1 \in L : l1.times <= l.times

\* The history with an access of operation e more.
Extended(h, h1, e, tag) ==
    /\ DOMAIN h1 = DOMAIN h \cup {e} /\ h1[e] = tag
    /\ \A j \in DOMAIN h : h1[j] = h[j] /\ j <= e

LEMMA TouchedLines ==
    ASSUME NEW E \in Nat, NEW L, NEW h, NEW b \in Nat, History(h, b), Ages(L, h, E),
           NEW y \in 1 .. E, NEW tag \in Int
    PROVE  /\ Touch(L, y, tag) \subseteq Line(E)
           /\ \A l1 \in Touch(L, y, tag) :
                  \/ l1 = [i |-> y, tag_bit |-> tag, times |-> 0]
                  \/ \E l \in L : /\ l.i # y /\ l1.i = l.i /\ l1.tag_bit = l.tag_bit
                                  /\ l1.times = l.times + 1 /\ l1 = [l EXCEPT !.times = @ + 1]
           /\ \A l \in L : l.i # y =>
                  \E l1 \in Touch(L, y, tag) :
                      l1.i = l.i /\ l1.tag_bit = l.tag_bit /\ l1.times = l.times + 1
           /\ \E l1 \in Touch(L, y, tag) : l1.i = y /\ l1.tag_bit = tag /\ l1.times = 0
  <1>1. \A l \in L : l.i \in 1 .. E /\ l.tag_bit \in Int /\ l.times \in Nat /\ l \in Line(E)
    BY DEF Ages, Line
  <1>2. \A l \in Line(E) : LET l1 == [l EXCEPT !.times = @ + 1]
                           IN  l1 \in Line(E) /\ l1.i = l.i /\ l1.tag_bit = l.tag_bit /\ l1.times = l.times + 1
    BY DEF Line
  <1>3. [i |-> y, tag_bit |-> tag, times |-> 0] \in Line(E)
    BY DEF Line
  <1> DEFINE aged(l) == [l EXCEPT !.times = @ + 1]
             new == [i |-> y, tag_bit |-> tag, times |-> 0]
             L1 == {aged(l) : l \in {l \in L : l.i # y}} \cup {new}
  <1>4. \A l \in L : /\ aged(l) \in Line(E) /\ aged(l).i = l.i /\ aged(l).tag_bit = l.tag_bit
                     /\ aged(l).times = l.times + 1
    BY <1>1, <1>2
  <1>5. new \in Line(E) /\ new.i = y /\ new.tag_bit = tag /\ new.times = 0 /\ new \in L1
    BY <1>3
  <1>6. /\ \A l1 \in L1 : l1 = new \/ \E l \in L : l.i # y /\ l1 = aged(l)
        /\ \A l \in L : l.i # y => aged(l) \in L1
    BY Zenon
  <1> HIDE DEF aged, new, L1
  <1>7. L1 \subseteq Line(E)
    BY <1>4, <1>5, <1>6
  <1>8. \A l1 \in L1 : l1 = new \/ \E l \in L : /\ l.i # y /\ l1.i = l.i /\ l1.tag_bit = l.tag_bit
                                               /\ l1.times = l.times + 1 /\ l1 = aged(l)
    BY <1>4, <1>6, Zenon
  <1>9. \A l \in L : l.i # y =>
            \E l1 \in L1 : l1.i = l.i /\ l1.tag_bit = l.tag_bit /\ l1.times = l.times + 1
    BY <1>4, <1>6, Zenon
  <1>10. \E l1 \in L1 : l1.i = y /\ l1.tag_bit = tag /\ l1.times = 0
    BY <1>5, Zenon
  <1> QED BY <1>7, <1>8, <1>9, <1>10, Zenon DEF Touch, L1, aged, new

LEMMA TouchedUses ==
    ASSUME NEW b \in Nat, NEW h, History(h, b), NEW h1, NEW e, NEW tag, History(h1, b), Extended(h, h1, e, tag)
    PROVE  /\ LastUse(h1, tag, e)
           /\ \A t : t # tag => \A j : LastUse(h1, t, j) <=> LastUse(h, t, j)
           /\ \A t, j : LastUse(h1, t, j) => j <= e /\ (t # tag => j < e)
           /\ \A t, j, m : LastUse(h1, t, j) /\ LastUse(h1, t, m) => j = m
  <1>1. /\ DOMAIN h \subseteq Nat /\ DOMAIN h1 \subseteq Nat /\ DOMAIN h1 = DOMAIN h \cup {e}
        /\ h1[e] = tag /\ \A j \in DOMAIN h : h1[j] = h[j] /\ j <= e
    BY DEF History, Extended
  <1>2. \A j \in DOMAIN h1 : j <= e
    BY <1>1
  <1> QED BY <1>1, <1>2 DEF LastUse

LEMMA Touched ==
    ASSUME NEW E \in Nat, NEW L, NEW h, NEW b \in Nat, History(h, b), Ages(L, h, E),
           NEW y \in 1 .. E, NEW tag \in Int,
           HitAt(L, y, tag) \/ FreeAt(L, y, tag) \/ OldestAt(L, E, y, tag),
           NEW h1, NEW e, History(h1, b), Extended(h, h1, e, tag)
    PROVE  Ages(Touch(L, y, tag), h1, E)
  <1> DEFINE L1 == Touch(L, y, tag)
             new == [i |-> y, tag_bit |-> tag, times |-> 0]
             Aged(l1, l) == /\ l \in L /\ l.i # y /\ l1.i = l.i /\ l1.tag_bit = l.tag_bit
                            /\ l1.times = l.times + 1
  <1>1. new.i = y /\ new.tag_bit = tag /\ new.times = 0
    OBVIOUS
  <1>2. /\ L1 \subseteq Line(E)
        /\ \A l1 \in L1 : l1 = new \/ \E l : Aged(l1, l) /\ l1 = [l EXCEPT !.times = @ + 1]
        /\ \A l \in L : l.i # y => \E l1 \in L1 : Aged(l1, l)
        /\ \E l1 \in L1 : l1.i = y /\ l1.tag_bit = tag /\ l1.times = 0
    BY TouchedLines
  <1>3. \A l \in L : l.i # y => l.tag_bit # tag
    <2>1. CASE HitAt(L, y, tag)
      BY <2>1, Zenon DEF HitAt, Ages
    <2>2. CASE tag \notin Tags(L)
      BY <2>2 DEF Tags
    <2> QED BY <2>1, <2>2 DEF FreeAt, OldestAt
  <1>4. \A l \in L : l.times \in Nat /\ l.i \in 1 .. E
    BY DEF Ages, Line
  <1>5. DOMAIN h \subseteq Nat /\ DOMAIN h1 \subseteq Nat /\ e \in Nat
    BY DEF History, Extended
  <1>6. \A l1, l2 \in L1 : l1.i = l2.i \/ l1.tag_bit = l2.tag_bit => l1 = l2
    <2> SUFFICES ASSUME NEW l1 \in L1, NEW l2 \in L1, l1.i = l2.i \/ l1.tag_bit = l2.tag_bit
                 PROVE  l1 = l2
      OBVIOUS
    <2> HIDE DEF L1, new
    <2>1. CASE l1 = new /\ l2 = new
      BY <2>1
    <2>2. ASSUME l1 = new \/ l2 = new, NEW l, Aged(l1, l) \/ Aged(l2, l) PROVE FALSE
      BY <1>1, <1>3, <2>2
    <2>3. ASSUME NEW l, NEW m, Aged(l1, l), Aged(l2, m),
                 l1 = [l EXCEPT !.times = @ + 1], l2 = [m EXCEPT !.times = @ + 1]
          PROVE  l1 = l2
      <3>1. l.i = m.i \/ l.tag_bit = m.tag_bit
        BY <2>3
      <3>2. l = m
        BY <2>3, <3>1, Zenon DEF Ages
      <3> QED BY <2>3, <3>2
    <2> HIDE DEF Aged
    <2> QED BY <1>2, <2>1, <2>2, <2>3
  <1>7. \A l1 \in L1 : \E j : LastUse(h1, l1.tag_bit, j)
    <2> SUFFICES ASSUME NEW l1 \in L1 PROVE \E j : LastUse(h1, l1.tag_bit, j)
      OBVIOUS
    <2> HIDE DEF L1, new
    <2>1. CASE l1 = new
      BY <1>1, <2>1, TouchedUses
    <2>2. ASSUME NEW l, Aged(l1, l) PROVE \E j : LastUse(h1, l1.tag_bit, j)
      <3>1. PICK j : LastUse(h, l.tag_bit, j)
        BY <2>2 DEF Ages
      <3>2. l.tag_bit # tag /\ l1.tag_bit = l.tag_bit
        BY <1>3, <2>2
      <3> QED BY <3>1, <3>2, TouchedUses
    <2> QED BY <1>2, <2>1, <2>2
  <1>8. \A l1, l2 \in L1 : \A j1, j2 \in DOMAIN h1 :
            LastUse(h1, l1.tag_bit, j1) /\ LastUse(h1, l2.tag_bit, j2) /\ j1 > j2 => l1.times < l2.times
    <2> SUFFICES ASSUME NEW l1 \in L1, NEW l2 \in L1, NEW j1 \in DOMAIN h1, NEW j2 \in DOMAIN h1,
                        LastUse(h1, l1.tag_bit, j1), LastUse(h1, l2.tag_bit, j2), j1 > j2
                 PROVE  l1.times < l2.times
      OBVIOUS
    <2> HIDE DEF L1, new
    <2>1. l2 # new
      <3> SUFFICES ASSUME l2 = new PROVE FALSE
        OBVIOUS
      <3>1. j2 = e /\ j1 <= e
        BY <1>1, TouchedUses
      <3> QED BY <1>5, <3>1
    <2>2. PICK m : Aged(l2, m)
      BY <1>2, <2>1
    <2>3. CASE l1 = new
      BY <1>1, <1>4, <2>2, <2>3
    <2>4. ASSUME NEW l, Aged(l1, l) PROVE l1.times < l2.times
      <3>1. l.tag_bit # tag /\ m.tag_bit # tag
        BY <1>3, <2>2, <2>4
      <3>2. LastUse(h, l.tag_bit, j1) /\ LastUse(h, m.tag_bit, j2)
        BY <2>2, <2>4, <3>1, TouchedUses
      <3>3. l.times < m.times
        BY <2>2, <2>4, <3>2 DEF Ages, LastUse
      <3> QED BY <1>4, <2>2, <2>4, <3>3
    <2> QED BY <1>2, <2>3, <2>4
  <1>9. \A j \in DOMAIN h1 : h1[j] \in Tags(L1) \/ (Full(L1, E) /\ UsedAfter(h1, L1, j))
    <2> SUFFICES ASSUME NEW j \in DOMAIN h1, h1[j] \notin Tags(L1)
                 PROVE  Full(L1, E) /\ UsedAfter(h1, L1, j)
      OBVIOUS
    <2> HIDE DEF L1, new
    <2>1. h1[j] # tag
      BY <1>2 DEF Tags
    <2>2. j \in DOMAIN h /\ h1[j] = h[j] /\ j < e
      BY <1>5, <2>1 DEF Extended
    <2>3. \A l \in L : l.i # y => l.tag_bit # h[j]
      BY <1>2, <2>2 DEF Tags
    <2>4. ~FreeAt(L, y, tag) /\ Full(L, E)
      <3>1. ASSUME h[j] \notin Tags(L) PROVE Full(L, E)
        BY <2>2, <3>1 DEF Ages
      <3>2. ASSUME FreeAt(L, y, tag) PROVE FALSE
        <4>1. h[j] \notin Tags(L)
          BY <2>3, <3>2 DEF FreeAt, Tags
        <4> QED BY <3>1, <3>2, <4>1 DEF FreeAt, Full
      <3>3. ASSUME h[j] \in Tags(L) PROVE Full(L, E)
        <4>1. ~HitAt(L, y, tag)
          <5> SUFFICES ASSUME HitAt(L, y, tag) PROVE FALSE
            OBVIOUS
          <5>1. PICK l \in L : l.tag_bit = h[j]
            BY <3>3 DEF Tags
          <5>2. PICK m \in L : m.i = y /\ m.tag_bit = tag
            BY DEF HitAt
          <5>3. l.i = y
            BY <2>3, <5>1
          <5>4. l = m
            BY <5>1, <5>2, <5>3, Zenon DEF Ages
          <5> QED BY <2>1, <2>2, <5>1, <5>2, <5>4
        <4> QED BY <3>2, <4>1 DEF OldestAt
      <3> QED BY <3>1, <3>2, <3>3
    <2>5. Full(L1, E)
      <3> SUFFICES ASSUME NEW x \in 1 .. E PROVE \E l1 \in L1 : l1.i = x
        BY DEF Full
      <3>1. PICK l \in L : l.i = x
        BY <2>4 DEF Full
      <3> QED BY <1>2, <3>1
    <2>6. \A l \in L : l.i # y => \E k : LastUse(h, l.tag_bit, k) /\ k > j
      <3> SUFFICES ASSUME NEW l \in L, l.i # y PROVE \E k : LastUse(h, l.tag_bit, k) /\ k > j
        OBVIOUS
      <3>1. CASE UsedAfter(h, L, j)
        BY <3>1 DEF UsedAfter
      <3>2. CASE ~UsedAfter(h, L, j)
        <4>1. h[j] \in Tags(L)
          BY <2>2, <3>2, Zenon DEF Ages
        <4>2. PICK l0 \in L : l0.tag_bit = h[j]
          BY <4>1 DEF Tags
        <4>3. l0.i = y
          BY <2>3, <4>2
        <4>4. ~HitAt(L, y, tag)
          <5> SUFFICES ASSUME NEW m \in L, m.i = y, m.tag_bit = tag PROVE FALSE
            BY DEF HitAt
          <5>1. m = l0
            BY <4>2, <4>3, Zenon DEF Ages
          <5> QED BY <2>1, <2>2, <4>2, <5>1
        <4>5. PICK l2 \in L : l2.i = y /\ \A l1 \in L : l1.times <= l2.times
          BY <2>4, <4>4 DEF OldestAt
        <4>6. l2 = l0
          BY <4>2, <4>3, <4>5, Zenon DEF Ages
        <4>7. PICK j0 : LastUse(h, l0.tag_bit, j0)
          BY <4>2 DEF Ages
        <4>8. PICK k : LastUse(h, l.tag_bit, k)
          BY DEF Ages
        <4>9. j <= j0 /\ j0 \in DOMAIN h /\ k \in DOMAIN h /\ h[j0] = h[j] /\ h[k] = l.tag_bit
          BY <2>2, <4>2, <4>7, <4>8 DEF LastUse
        <4>10. k # j0
          BY <2>3, <4>9
        <4>11. ~(j0 > k)
          <5> SUFFICES ASSUME j0 > k PROVE FALSE
            OBVIOUS
          <5>1. l0.times < l.times
            BY <4>2, <4>7, <4>8, <4>9 DEF Ages
          <5>2. l.times <= l0.times
            BY <4>5, <4>6
          <5> QED BY <1>4, <4>2, <5>1, <5>2
        <4>12. k > j
          BY <1>5, <2>2, <4>9, <4>10, <4>11
        <4> QED BY <4>8, <4>12
      <3> QED BY <3>1, <3>2
    <2>7. UsedAfter(h1, L1, j)
      <3> SUFFICES ASSUME NEW l1 \in L1 PROVE \E k : LastUse(h1, l1.tag_bit, k) /\ k > j
        BY DEF UsedAfter
      <3>1. CASE l1 = new
        <4>1. LastUse(h1, l1.tag_bit, e)
          BY <1>1, <3>1, TouchedUses
        <4> QED BY <1>5, <2>2, <4>1
      <3>2. ASSUME NEW l, Aged(l1, l) PROVE \E k : LastUse(h1, l1.tag_bit, k) /\ k > j
        <4>1. PICK k : LastUse(h, l.tag_bit, k) /\ k > j
          BY <2>6, <3>2
        <4>2. l1.tag_bit = l.tag_bit /\ l.tag_bit # tag
          BY <1>3, <3>2
        <4>3. LastUse(h1, l.tag_bit, k)
          BY <4>1, <4>2, TouchedUses
        <4> QED BY <4>1, <4>2, <4>3
      <3> QED BY <1>2, <3>1, <3>2
    <2> QED BY <2>5, <2>7
  <1> QED BY <1>2, <1>6, <1>7, <1>8, <1>9 DEF Ages

Counted(F) == [lines : F, hits : Nat, misses : Nat, evictions : Nat]
Simulated(g) == Counted([0 .. 2^g.s - 1 -> SUBSET Line(g.E)])

\* One access to set z, of the cache s, that leaves s1.
Access(g, s, s1, z, tag) == \E y \in 1 .. g.E :
    /\ s1 \in Simulated(g) /\ s1.lines = [s.lines EXCEPT ![z] = Touch(s.lines[z], y, tag)]
    /\ \/ /\ HitAt(s.lines[z], y, tag)
          /\ s1.hits = s.hits + 1 /\ s1.misses = s.misses /\ s1.evictions = s.evictions
       \/ /\ FreeAt(s.lines[z], y, tag) /\ ~Full(s.lines[z], g.E)
          /\ s1.hits = s.hits /\ s1.misses = s.misses + 1 /\ s1.evictions = s.evictions
       \/ /\ OldestAt(s.lines[z], g.E, y, tag)
          /\ s1.hits = s.hits /\ s1.misses = s.misses + 1 /\ s1.evictions = s.evictions + 1

\* The line used longest ago has the greatest age.
LEMMA OldestExists ==
    ASSUME NEW E \in Nat, NEW b \in Nat, NEW h, History(h, b), NEW L, Ages(L, h, E), L # {}
    PROVE  \E l \in L : \A l1 \in L : l1.times <= l.times
  <1> DEFINE last == {j \in DOMAIN h : \E l \in L : LastUse(h, l.tag_bit, j)}
  <1>1. last \subseteq Nat
    BY DEF History
  <1>2. last # {}
    BY DEF Ages, LastUse
  <1>3. PICK j \in last : \A k \in last : j <= k
    <2> HIDE DEF last
    <2> QED BY <1>1, <1>2, LeastExists
  <1>4. PICK l \in L : LastUse(h, l.tag_bit, j)
    BY <1>3
  <1>5. ASSUME NEW l1 \in L PROVE l1.times <= l.times
    <2>1. PICK k : LastUse(h, l1.tag_bit, k)
      BY DEF Ages
    <2>2. k \in last /\ j <= k /\ k \in Nat /\ j \in Nat /\ k \in DOMAIN h /\ j \in DOMAIN h
      BY <1>1, <1>3, <2>1 DEF LastUse
    <2>3. l1.times \in Nat /\ l.times \in Nat
      BY DEF Ages, Line
    <2>4. CASE k = j
      <3>1. l1.tag_bit = l.tag_bit
        BY <1>4, <2>1, <2>4 DEF LastUse
      <3>2. l1 = l
        BY <3>1, Zenon DEF Ages
      <3> QED BY <2>3, <3>2
    <2>5. CASE k > j
      <3>1. l1.times < l.times
        BY <1>4, <2>1, <2>2, <2>5, Zenon DEF Ages
      <3> QED BY <2>3, <3>1
    <2> QED BY <2>2, <2>4, <2>5
  <1> QED BY <1>5

LEMMA LeastIs ==
    ASSUME NEW S, S \subseteq Nat, S # {}
    PROVE  Csim!Min(S) \in S
  BY LeastExists DEF Csim!Min

HitTo(s, z, v) == [s EXCEPT !.lines[z] = v, !.hits = @ + 1]
FillTo(s, z, v) == [s EXCEPT !.lines[z] = v, !.misses = @ + 1]
EvictTo(s, z, v) == [s EXCEPT !.lines[z] = v, !.misses = @ + 1, !.evictions = @ + 1]

LEMMA Updated ==
    ASSUME NEW F, NEW s \in Counted(F), NEW z, NEW v, NEW f, f = [s.lines EXCEPT ![z] = v], f \in F
    PROVE  /\ HitTo(s, z, v) \in Counted(F) /\ HitTo(s, z, v).lines = f
           /\ HitTo(s, z, v).hits = s.hits + 1 /\ HitTo(s, z, v).misses = s.misses
           /\ HitTo(s, z, v).evictions = s.evictions
           /\ FillTo(s, z, v) \in Counted(F) /\ FillTo(s, z, v).lines = f
           /\ FillTo(s, z, v).hits = s.hits /\ FillTo(s, z, v).misses = s.misses + 1
           /\ FillTo(s, z, v).evictions = s.evictions
           /\ EvictTo(s, z, v) \in Counted(F) /\ EvictTo(s, z, v).lines = f
           /\ EvictTo(s, z, v).hits = s.hits /\ EvictTo(s, z, v).misses = s.misses + 1
           /\ EvictTo(s, z, v).evictions = s.evictions + 1
  <1>1. /\ s.hits + 1 \in Nat /\ s.misses + 1 \in Nat /\ s.evictions + 1 \in Nat
        /\ s.hits \in Nat /\ s.misses \in Nat /\ s.evictions \in Nat
        /\ s = [lines |-> s.lines, hits |-> s.hits, misses |-> s.misses, evictions |-> s.evictions]
    BY DEF Counted
  <1>2. HitTo(s, z, v) = [lines |-> f, hits |-> s.hits + 1, misses |-> s.misses, evictions |-> s.evictions]
    <2>1. HitTo(s, z, v) = [s EXCEPT !.lines = f, !.hits = @ + 1]
      BY Zenon DEF HitTo
    <2> QED BY <1>1, <2>1 DEF Counted
  <1>3. FillTo(s, z, v) = [lines |-> f, hits |-> s.hits, misses |-> s.misses + 1, evictions |-> s.evictions]
    <2>1. FillTo(s, z, v) = [s EXCEPT !.lines = f, !.misses = @ + 1]
      BY Zenon DEF FillTo
    <2> QED BY <1>1, <2>1 DEF Counted
  <1>4. EvictTo(s, z, v)
            = [lines |-> f, hits |-> s.hits, misses |-> s.misses + 1, evictions |-> s.evictions + 1]
    <2>1. EvictTo(s, z, v) = [s EXCEPT !.lines = f, !.misses = @ + 1, !.evictions = @ + 1]
      BY Zenon DEF EvictTo
    <2> QED BY <1>1, <2>1 DEF Counted
  <1> QED BY <1>1, <1>2, <1>3, <1>4 DEF Counted

LEMMA ProcessIs ==
    ASSUME NEW g, g.E \in Nat \ {0}, NEW s \in Simulated(g), NEW a,
           NEW z, z = Csim!SetIndex(g, a), z \in DOMAIN s.lines, NEW tag \in Int, tag = Csim!Tag(g, a),
           NEW h, NEW b \in Nat, History(h, b), Ages(s.lines[z], h, g.E)
    PROVE  Access(g, s, Csim!process(g, s, a), z, tag)
  <1> DEFINE L == s.lines[z]
             aged(l) == [l EXCEPT !.times = @ + 1]
             set == {aged(l) : l \in L}
             hits == {l \in set : l.tag_bit = tag}
             free == (1 .. g.E) \ {l.i : l \in set}
             oldest == {l \in set : \A m \in set : m.times <= l.times}
             y1 == Csim!Min({l.i : l \in hits})
             y2 == Csim!Min(free)
             y3 == Csim!Min({l.i : l \in oldest})
             s1 == Csim!process(g, s, a)
  <1>1. s1 = IF hits # {} THEN
                 [s EXCEPT !.lines[z] = Csim!Fill(set, y1, tag), !.hits = @ + 1]
             ELSE IF free # {} THEN
                 [s EXCEPT !.lines[z] = Csim!Fill(set, y2, tag), !.misses = @ + 1]
             ELSE
                 [s EXCEPT !.lines[z] = Csim!Fill(set, y3, tag), !.misses = @ + 1, !.evictions = @ + 1]
    BY Zenon DEF Csim!process, Csim!Hit
  <1>2. \A l \in L : /\ aged(l).i = l.i /\ aged(l).tag_bit = l.tag_bit /\ aged(l).times = l.times + 1
                     /\ l.i \in 1 .. g.E /\ l.tag_bit \in Int /\ l.times \in Nat
    <2>1. \A l \in Line(g.E) : /\ aged(l).i = l.i /\ aged(l).tag_bit = l.tag_bit /\ aged(l).times = l.times + 1
                               /\ l.i \in 1 .. g.E /\ l.tag_bit \in Int /\ l.times \in Nat
      BY DEF Line
    <2> QED BY <2>1 DEF Ages
  <1>3. \A y : Csim!Fill(set, y, tag) = Touch(L, y, tag)
    <2> TAKE y
    <2>1. {l \in set : l.i # y} = {aged(l) : l \in {l \in L : l.i # y}}
      <3> HIDE DEF aged, L
      <3> QED BY <1>2
    <2> QED BY <2>1, Zenon DEF Csim!Fill, Touch
  <1>4. (hits # {} <=> tag \in Tags(L)) /\ (hits # {} => y1 \in 1 .. g.E /\ HitAt(L, y1, tag))
    <2> HIDE DEF aged, L
    <2>1. hits # {} <=> tag \in Tags(L)
      BY <1>2 DEF Tags
    <2>2. {l.i : l \in hits} \subseteq 1 .. g.E
      BY <1>2
    <2>3. ASSUME hits # {} PROVE y1 \in {l.i : l \in hits}
      <3> DEFINE S == {l.i : l \in hits}
      <3>1. S \subseteq Nat /\ S # {}
        BY <2>2, <2>3
      <3> HIDE DEF S
      <3>2. Csim!Min(S) \in S
        BY <3>1, LeastIs
      <3> QED BY <3>2 DEF S
    <2>4. \A y \in {l.i : l \in hits} : HitAt(L, y, tag)
      BY <1>2 DEF HitAt
    <2> HIDE DEF hits
    <2> QED BY <2>1, <2>2, <2>3, <2>4
  <1>5. (free # {} <=> ~Full(L, g.E)) /\ (free # {} => y2 \in 1 .. g.E /\ \A l \in L : l.i # y2)
    <2> HIDE DEF aged, L
    <2>1. free = {y \in 1 .. g.E : \A l \in L : l.i # y}
      BY <1>2
    <2> HIDE DEF free
    <2>2. free \subseteq Nat
      BY <2>1
    <2>3. free # {} => y2 \in free
      BY <2>2, LeastIs
    <2> QED BY <2>1, <2>3 DEF Full
  <1>6. Full(L, g.E) => y3 \in 1 .. g.E /\ \E l \in L : l.i = y3 /\ \A l1 \in L : l1.times <= l.times
    <2> SUFFICES ASSUME Full(L, g.E)
                 PROVE  y3 \in 1 .. g.E /\ \E l \in L : l.i = y3 /\ \A l1 \in L : l1.times <= l.times
      OBVIOUS
    <2>1. L # {}
      BY DEF Full
    <2>2. PICK l0 \in L : \A l1 \in L : l1.times <= l0.times
      <3> HIDE DEF L
      <3> QED BY <2>1, OldestExists DEF L
    <2> HIDE DEF aged, L
    <2>3. aged(l0) \in oldest
      BY <1>2, <2>2
    <2>4. \A l \in oldest : \E l1 \in L : l = aged(l1) /\ \A m \in L : m.times <= l1.times
      <3> SUFFICES ASSUME NEW l1 \in L, \A m \in set : m.times <= aged(l1).times
                   PROVE  \A m \in L : m.times <= l1.times
        BY Zenon
      <3> TAKE m \in L
      <3>1. aged(m).times <= aged(l1).times
        OBVIOUS
      <3> QED BY <1>2, <3>1
    <2>5. \A y \in {l.i : l \in oldest} : \E l \in L : l.i = y /\ \A m \in L : m.times <= l.times
      BY <1>2, <2>4
    <2>6. y3 \in {l.i : l \in oldest}
      <3> DEFINE S == {l.i : l \in oldest}
      <3>1. S # {}
        BY <2>3
      <3>2. S \subseteq Nat
        <4> HIDE DEF oldest
        <4> QED BY <1>2, <2>4
      <3> HIDE DEF S
      <3>3. Csim!Min(S) \in S
        BY <3>1, <3>2, LeastIs
      <3> QED BY <3>3 DEF S
    <2> HIDE DEF oldest
    <2> QED BY <1>2, <2>5, <2>6
  <1>7. ASSUME NEW y \in 1 .. g.E PROVE Touch(L, y, tag) \subseteq Line(g.E)
    <2> HIDE DEF L
    <2> QED BY <1>7, TouchedLines DEF L
  <1>8. ASSUME NEW y \in 1 .. g.E, NEW v, v = Touch(L, y, tag), NEW f, f = [s.lines EXCEPT ![z] = v]
        PROVE  /\ HitTo(s, z, v) \in Simulated(g) /\ HitTo(s, z, v).lines = f
               /\ HitTo(s, z, v).hits = s.hits + 1 /\ HitTo(s, z, v).misses = s.misses
               /\ HitTo(s, z, v).evictions = s.evictions
               /\ FillTo(s, z, v) \in Simulated(g) /\ FillTo(s, z, v).lines = f
               /\ FillTo(s, z, v).hits = s.hits /\ FillTo(s, z, v).misses = s.misses + 1
               /\ FillTo(s, z, v).evictions = s.evictions
               /\ EvictTo(s, z, v) \in Simulated(g) /\ EvictTo(s, z, v).lines = f
               /\ EvictTo(s, z, v).hits = s.hits /\ EvictTo(s, z, v).misses = s.misses + 1
               /\ EvictTo(s, z, v).evictions = s.evictions + 1
    <2> DEFINE F == [0 .. 2^g.s - 1 -> SUBSET Line(g.E)]
    <2>1. s \in Counted(F)
      BY Zenon DEF Simulated
    <2>2. f \in F
      <3> HIDE DEF L
      <3>1. v \in SUBSET Line(g.E) /\ s.lines \in F
        BY <1>7, <1>8, <2>1 DEF Counted
      <3> QED BY <1>8, <3>1
    <2>3. Simulated(g) = Counted(F)
      BY Zenon DEF Simulated
    <2> HIDE DEF F
    <2> QED BY <1>8, <2>1, <2>2, <2>3, Updated
  <1>9. s1 = IF hits # {} THEN HitTo(s, z, Touch(L, y1, tag))
             ELSE IF free # {} THEN FillTo(s, z, Touch(L, y2, tag)) ELSE EvictTo(s, z, Touch(L, y3, tag))
    BY <1>1, <1>3, Zenon DEF HitTo, FillTo, EvictTo
  <1> HIDE DEF hits, free, y1, y2, y3, L, s1
  <1>10. CASE hits # {}
    <2>1. y1 \in 1 .. g.E /\ HitAt(L, y1, tag)
      BY <1>4, <1>10
    <2>2. s1 = HitTo(s, z, Touch(L, y1, tag))
      BY <1>9, <1>10
    <2>3. /\ s1 \in Simulated(g) /\ s1.lines = [s.lines EXCEPT ![z] = Touch(L, y1, tag)]
          /\ s1.hits = s.hits + 1 /\ s1.misses = s.misses /\ s1.evictions = s.evictions
      BY <1>8, <2>1, <2>2
    <2> QED BY <2>1, <2>3, Zenon DEF Access, L, s1
  <1>11. CASE hits = {} /\ free # {}
    <2>1. y2 \in 1 .. g.E /\ FreeAt(L, y2, tag) /\ ~Full(L, g.E)
      BY <1>4, <1>5, <1>11 DEF FreeAt
    <2>2. s1 = FillTo(s, z, Touch(L, y2, tag))
      BY <1>9, <1>11
    <2>3. /\ s1 \in Simulated(g) /\ s1.lines = [s.lines EXCEPT ![z] = Touch(L, y2, tag)]
          /\ s1.hits = s.hits /\ s1.misses = s.misses + 1 /\ s1.evictions = s.evictions
      BY <1>8, <2>1, <2>2
    <2> QED BY <2>1, <2>3, Zenon DEF Access, L, s1
  <1>12. CASE hits = {} /\ free = {}
    <2>1. y3 \in 1 .. g.E /\ OldestAt(L, g.E, y3, tag)
      BY <1>4, <1>5, <1>6, <1>12 DEF OldestAt
    <2>2. s1 = EvictTo(s, z, Touch(L, y3, tag))
      BY <1>9, <1>12
    <2>3. /\ s1 \in Simulated(g) /\ s1.lines = [s.lines EXCEPT ![z] = Touch(L, y3, tag)]
          /\ s1.hits = s.hits /\ s1.misses = s.misses + 1 /\ s1.evictions = s.evictions + 1
      BY <1>8, <2>1, <2>2
    <2> QED BY <2>1, <2>3, Zenon DEF Access, L, s1
  <1> QED BY <1>10, <1>11, <1>12

-----------------------------------------------------------------------------
(* Addresses of longs, taken as int's                                       *)

LEMMA Divided ==
    ASSUME NEW x \in Int, NEW d \in Nat \ {0}
    PROVE  /\ x \div d \in Int /\ x % d \in 0 .. d - 1
           /\ x = d * (x \div d) + (x % d)
  OBVIOUS

LEMMA MultiplesApart ==
    ASSUME NEW d \in Nat \ {0}, NEW x \in Int, NEW y \in Int, x < y
    PROVE  d * x \in Int /\ d * y \in Int /\ d * x + d <= d * y
  <1>1. PICK z \in Nat : y = x + 1 + z
    <2>1. y - x - 1 \in Nat /\ y = x + 1 + (y - x - 1)
      OBVIOUS
    <2> QED BY <2>1
  <1>2. d * y = d * x + d + d * z
    BY <1>1
  <1>3. d * z \in Nat /\ d * x \in Int
    BY <1>1
  <1> QED BY <1>2, <1>3

\* A quotient and a remainder are the only ones.
LEMMA QuotientIs ==
    ASSUME NEW x \in Int, NEW d \in Nat \ {0}, NEW u \in Int, NEW r \in 0 .. d - 1, x = d * u + r
    PROVE  x \div d = u /\ x % d = r
  <1> DEFINE y == x \div d
             z == x % d
  <1>1. y \in Int /\ z \in 0 .. d - 1 /\ x = d * y + z
    BY Divided
  <1> HIDE DEF y, z
  <1>2. d * y \in Int /\ d * u \in Int
    BY <1>1
  <1>3. ~(y < u)
    <2> SUFFICES ASSUME y < u PROVE FALSE
      OBVIOUS
    <2>1. d * y + d <= d * u
      BY <1>1, MultiplesApart
    <2> QED BY <1>1, <1>2, <2>1
  <1>4. ~(u < y)
    <2> SUFFICES ASSUME u < y PROVE FALSE
      OBVIOUS
    <2>1. d * u + d <= d * y
      BY <1>1, MultiplesApart
    <2> QED BY <1>1, <1>2, <2>1
  <1>5. y = u
    BY <1>1, <1>3, <1>4
  <1>6. z = r
    BY <1>1, <1>2, <1>5
  <1> QED BY <1>5, <1>6 DEF y, z

\* The block of an int address is that of the long one taken as a signed number of fewer bits,
\* which leaves the index of its set.
Signed(u, w, half) == IF u % w < half THEN u % w ELSE (u % w) - w

LEMMA IntBlock ==
    ASSUME NEW a \in Int, NEW k \in Nat \ {0}, NEW sets \in Nat \ {0}, NEW d \in Nat \ {0},
           SimIntMod = 2 * (k * (sets * d))
    PROVE  /\ Csim!ToInt(a) \div d = Signed(a \div d, 2 * (k * sets), k * sets)
           /\ Csim!ToInt(a) \div d \in Int
           /\ (Csim!ToInt(a) \div d) % sets = (a \div d) % sets
  <1> DEFINE u == a \div d
             r == a % d
             half == k * sets
             w == 2 * half
             t == u \div w
             v == u % w
             m == v \div sets
             x == v % sets
             s == IF v < half THEN v ELSE v - w
  <1>1. u \in Int /\ r \in 0 .. d - 1 /\ a = d * u + r
    BY Divided
  <1>2. half \in Nat \ {0} /\ w \in Nat \ {0} /\ half * d \in Nat \ {0}
    <2>1. half \in Nat \ {0}
      OBVIOUS
    <2> HIDE DEF half
    <2> QED BY <2>1
  <1>3. SimIntMod = w * d /\ SimIntMod = 2 * (half * d) /\ w = sets * (2 * k)
    <2>1. k * (sets * d) = half * d
      OBVIOUS
    <2>2. 2 * (half * d) = w * d
      <3> HIDE DEF half
      <3> QED BY <1>2
    <2>3. 2 * (k * sets) = sets * (2 * k)
      OBVIOUS
    <2> QED BY <2>1, <2>2, <2>3
  <1> HIDE DEF u, r, half, w
  <1>4. t \in Int /\ v \in 0 .. w - 1 /\ u = w * t + v
    BY <1>1, <1>2, Divided
  <1> HIDE DEF t, v
  <1>5. m \in Int /\ x \in 0 .. sets - 1 /\ v = sets * m + x
    BY <1>2, <1>4, Divided
  <1> HIDE DEF m, x
  <1>6. SimIntMod \in Nat \ {0} /\ SimIntMod \div 2 = half * d
    <2> DEFINE y == half * d
    <2>1. y \in Nat \ {0} /\ SimIntMod = 2 * y
      BY <1>2, <1>3
    <2> HIDE DEF y
    <2>2. SimIntMod \div 2 = y
      BY <2>1
    <2> QED BY <2>1, <2>2 DEF y
  <1>7. a % SimIntMod = d * v + r
    <2>1. d * v \in Int /\ d * w \in Int /\ d * v + d <= d * w
      BY <1>2, <1>4, MultiplesApart
    <2>2. d * v >= 0
      BY <1>2, <1>4
    <2>3. d * w = SimIntMod
      BY <1>2, <1>3
    <2>4. d * v + r \in 0 .. SimIntMod - 1
      BY <1>1, <1>6, <2>1, <2>2, <2>3
    <2>5. d * (w * t + v) = (w * d) * t + d * v
      BY <1>2, <1>4
    <2>6. a = SimIntMod * t + (d * v + r)
      <3>1. (w * d) * t \in Int
        BY <1>2, <1>4
      <3> QED BY <1>1, <1>3, <1>4, <2>1, <2>5, <3>1
    <2> QED BY <1>4, <1>6, <2>4, <2>6, QuotientIs
  <1>8. d * v + r < half * d <=> v < half
    <2>1. d * v \in Int /\ d * half \in Int /\ d * half = half * d
      BY <1>2, <1>4
    <2>2. v < half => d * v + d <= d * half
      BY <1>2, <1>4, MultiplesApart
    <2>3. half < v => d * half + d <= d * v
      BY <1>2, <1>4, MultiplesApart
    <2>4. half = v => d * half = d * v
      OBVIOUS
    <2> QED BY <1>1, <1>2, <1>4, <2>1, <2>2, <2>3, <2>4
  <1>9. Csim!ToInt(a) = d * s + r
    <2>1. CASE v < half
      <3>1. Csim!ToInt(a) = a % SimIntMod
        BY <1>6, <1>7, <1>8, <2>1, Zenon DEF Csim!ToInt
      <3> QED BY <1>7, <2>1, <3>1
    <2>2. CASE ~(v < half)
      <3>1. Csim!ToInt(a) = (a % SimIntMod) - SimIntMod
        BY <1>6, <1>7, <1>8, <2>2, Zenon DEF Csim!ToInt
      <3>2. d * (v - w) = d * v - d * w /\ d * w = w * d /\ d * v \in Int /\ d * w \in Int
        BY <1>2, <1>4
      <3>3. s = v - w
        BY <2>2
      <3> QED BY <1>1, <1>3, <1>7, <3>1, <3>2, <3>3
    <2> QED BY <2>1, <2>2
  <1>10. s \in Int
    BY <1>2, <1>4
  <1>11. s = Signed(u, w, half)
    BY Zenon DEF Signed, v
  <1>12. s % sets = x /\ u % sets = x
    <2>1. u = sets * ((2 * k) * t + m) + x
      <3>1. sets * ((2 * k) * t + m) = (sets * (2 * k)) * t + sets * m
        BY <1>4, <1>5
      <3>2. (sets * (2 * k)) * t \in Int /\ sets * m \in Int
        BY <1>4, <1>5
      <3> QED BY <1>3, <1>4, <1>5, <3>1, <3>2
    <2>2. v - w = sets * (m - 2 * k) + x
      <3>1. sets * (m - 2 * k) = sets * m - sets * (2 * k)
        BY <1>5
      <3>2. sets * m \in Int /\ sets * (2 * k) \in Int
        BY <1>5
      <3> QED BY <1>3, <1>5, <3>1, <3>2
    <2>3. (2 * k) * t + m \in Int /\ m - 2 * k \in Int /\ v \in Int /\ v - w \in Int
      BY <1>2, <1>4, <1>5
    <2>4. u % sets = x
      BY <1>1, <1>5, <2>1, <2>3, QuotientIs
    <2>5. v % sets = x
      BY Zenon DEF x
    <2>6. (v - w) % sets = x
      <3> DEFINE v1 == v - w
                 m1 == m - 2 * k
      <3>1. v1 \in Int /\ m1 \in Int /\ v1 = sets * m1 + x
        BY <2>2, <2>3
      <3> HIDE DEF v1, m1
      <3>2. v1 % sets = x
        BY <1>5, <3>1, QuotientIs
      <3> QED BY <3>2 DEF v1
    <2>7. s = v \/ s = v - w
      OBVIOUS
    <2> QED BY <2>4, <2>5, <2>6, <2>7
  <1> HIDE DEF s
  <1>13. Csim!ToInt(a) \div d = s
    <2>1. d * s + r \in Int
      BY <1>1, <1>10
    <2> QED BY <1>1, <1>9, <1>10, <2>1, QuotientIs
  <1> QED BY <1>10, <1>11, <1>12, <1>13, Zenon DEF u, w, half

-----------------------------------------------------------------------------
(* The cache of the full addresses, of a trace tr                           *)

BlockIn(g, o) == o.address \div 2^g.b
SetIn(g, o) == BlockIn(g, o) % 2^g.s
IntIn(g, o) == Csim!ToInt(o.address) \div 2^g.b
TagIn(g, o) == Csim!Tag(g, o.address)
AccessedIn(tr) == {m \in DOMAIN tr : Csim!Accesses(tr[m].op) > 0}
TwiceIn(tr) == {m \in DOMAIN tr : Csim!Accesses(tr[m].op) = 2}
RecentIn(g, tr, z, m, k) ==
    {BlockIn(g, tr[j]) : j \in {j \in AccessedIn(tr) : m < j /\ j < k /\ SetIn(g, tr[j]) = z}}
HeldIn(g, tr, o, k) == \E m \in AccessedIn(tr) :
    m < k /\ BlockIn(g, tr[m]) = BlockIn(g, o) /\ Cardinality(RecentIn(g, tr, SetIn(g, o), m, k)) < g.E
MissedIn(g, tr) == {m \in AccessedIn(tr) : ~HeldIn(g, tr, tr[m], m)}
EvictingIn(g, tr) ==
    {m \in MissedIn(g, tr) : Cardinality(RecentIn(g, tr, SetIn(g, tr[m]), 0, m)) >= g.E}
DistinctIn(g, tr) == \A m, k \in DOMAIN tr :
    IntIn(g, tr[m]) = IntIn(g, tr[k]) => BlockIn(g, tr[m]) = BlockIn(g, tr[k])

\* The history of a set.
HistIn(g, tr, z) == [j \in {j \in AccessedIn(tr) : SetIn(g, tr[j]) = z} |-> TagIn(g, tr[j])]

Sets(g) == 0 .. 2^g.s - 1

\* The set an access goes to, and what its tag tells of its block.
LEMMA PlaceOf ==
    ASSUME NEW g \in Geometries, NEW o \in Operations
    PROVE  /\ SetIn(g, o) \in Sets(g) /\ TagIn(g, o) \in Int /\ IntIn(g, o) \in Int
           /\ Csim!SetIndex(g, o.address) \in Sets(g) => Csim!SetIndex(g, o.address) = SetIn(g, o)
           /\ IntIn(g, o) = 2^g.s * TagIn(g, o) + SetIn(g, o)
  <1> DEFINE sets == 2^g.s
             d == 2^g.b
             a == o.address
  <1>1. a \in Int /\ sets \in Nat \ {0} /\ d \in Nat \ {0}
    BY GeometriesOK
  <1>2. PICK k \in 1 .. SimIntMod : SimIntMod = 2 * (k * (sets * d))
    BY GeometriesOK
  <1>3. k \in Nat \ {0}
    BY <1>2, GeometriesOK
  <1>4. IntIn(g, o) = Csim!ToInt(a) \div d /\ SetIn(g, o) = (a \div d) % sets /\ TagIn(g, o) = IntIn(g, o) \div sets
    BY Zenon DEF IntIn, SetIn, BlockIn, TagIn, Csim!Tag
  <1>5. Csim!SetIndex(g, a) = IF g.s = 0 THEN IntIn(g, o) ELSE IntIn(g, o) % sets
    BY Zenon DEF Csim!SetIndex, IntIn
  <1>6. Sets(g) = 0 .. sets - 1
    BY Zenon DEF Sets
  <1> HIDE DEF sets, d, a
  <1>7. IntIn(g, o) \in Int /\ IntIn(g, o) % sets = (a \div d) % sets
    <2>1. Csim!ToInt(a) \div d \in Int /\ (Csim!ToInt(a) \div d) % sets = (a \div d) % sets
      BY <1>1, <1>2, <1>3, IntBlock, Zenon
    <2> QED BY <1>4, <2>1, Zenon
  <1> DEFINE u == IntIn(g, o)
             v == TagIn(g, o)
             x == SetIn(g, o)
  <1>8. u \in Int /\ v = u \div sets /\ x = u % sets
    BY <1>4, <1>7, Zenon
  <1> HIDE DEF u, v, x
  <1>9. v \in Int /\ x \in 0 .. sets - 1 /\ u = sets * v + x
    BY <1>1, <1>8, Divided
  <1>10. ASSUME u \in 0 .. sets - 1 PROVE u = u % sets
    <2>1. u = sets * 0 + u /\ 0 \in Int
      BY <1>1, <1>8
    <2> QED BY <1>1, <1>8, <1>10, <2>1, QuotientIs
  <1>11. Csim!SetIndex(g, a) = u \/ Csim!SetIndex(g, a) = u % sets
    BY <1>5 DEF u
  <1>12. Csim!SetIndex(g, a) \in 0 .. sets - 1 => Csim!SetIndex(g, a) = x
    BY <1>8, <1>10, <1>11
  <1> QED BY <1>6, <1>8, <1>9, <1>12, Zenon DEF u, v, x, a, sets

LEMMA SamePlace ==
    ASSUME NEW g \in Geometries, NEW o1 \in Operations, NEW o2 \in Operations
    PROVE  /\ BlockIn(g, o1) = BlockIn(g, o2) =>
                  SetIn(g, o1) = SetIn(g, o2) /\ IntIn(g, o1) = IntIn(g, o2) /\ TagIn(g, o1) = TagIn(g, o2)
           /\ SetIn(g, o1) = SetIn(g, o2) /\ TagIn(g, o1) = TagIn(g, o2) => IntIn(g, o1) = IntIn(g, o2)
  <1>1. ASSUME BlockIn(g, o1) = BlockIn(g, o2)
        PROVE  SetIn(g, o1) = SetIn(g, o2) /\ IntIn(g, o1) = IntIn(g, o2) /\ TagIn(g, o1) = TagIn(g, o2)
    <2>1. SetIn(g, o1) = SetIn(g, o2)
      BY <1>1, Zenon DEF SetIn
    <2>2. IntIn(g, o1) = IntIn(g, o2)
      <3> DEFINE sets == 2^g.s
                 d == 2^g.b
      <3>1. /\ sets \in Nat \ {0} /\ d \in Nat \ {0} /\ o1.address \in Int /\ o2.address \in Int
            /\ SimIntMod \in Nat
        BY GeometriesOK
      <3>2. PICK k \in 1 .. SimIntMod : SimIntMod = 2 * (k * (sets * d))
        BY GeometriesOK
      <3>3. k \in Nat \ {0}
        BY <3>1, <3>2
      <3>4. IntIn(g, o1) = Csim!ToInt(o1.address) \div d /\ IntIn(g, o2) = Csim!ToInt(o2.address) \div d
        BY Zenon DEF IntIn
      <3>5. o1.address \div d = o2.address \div d
        BY <1>1, Zenon DEF BlockIn
      <3> HIDE DEF sets, d
      <3>6. ASSUME NEW a \in Int
            PROVE  Csim!ToInt(a) \div d = Signed(a \div d, 2 * (k * sets), k * sets)
        BY <3>1, <3>2, <3>3, IntBlock, Zenon
      <3>7. /\ Csim!ToInt(o1.address) \div d = Signed(o1.address \div d, 2 * (k * sets), k * sets)
            /\ Csim!ToInt(o2.address) \div d = Signed(o2.address \div d, 2 * (k * sets), k * sets)
        BY <3>1, <3>6, Zenon
      <3> QED BY <3>4, <3>5, <3>7, Zenon
    <2>3. TagIn(g, o1) = TagIn(g, o2)
      BY <2>2, Zenon DEF TagIn, Csim!Tag, IntIn
    <2> QED BY <2>1, <2>2, <2>3
  <1>2. ASSUME SetIn(g, o1) = SetIn(g, o2), TagIn(g, o1) = TagIn(g, o2)
        PROVE  IntIn(g, o1) = IntIn(g, o2)
    BY <1>2, PlaceOf, Zenon
  <1> QED BY <1>1, <1>2

LEMMA HistoryIn ==
    ASSUME NEW g \in Geometries, NEW tr \in Seq(Operations), NEW z
    PROVE  History(HistIn(g, tr, z), Len(tr)) /\ Len(tr) \in Nat
  <1> DEFINE h == HistIn(g, tr, z)
             J == {j \in AccessedIn(tr) : SetIn(g, tr[j]) = z}
  <1>1. h = [j \in J |-> TagIn(g, tr[j])]
    BY Zenon DEF HistIn
  <1>2. J \subseteq 1 .. Len(tr) /\ \A j \in J : tr[j] \in Operations
    BY DEF AccessedIn
  <1> HIDE DEF h, J
  <1>3. \A j \in J : TagIn(g, tr[j]) \in Int
    BY <1>2, PlaceOf
  <1>4. DOMAIN h = J /\ h = [j \in DOMAIN h |-> h[j]] /\ \A j \in J : h[j] = TagIn(g, tr[j])
    BY <1>1
  <1> QED BY <1>2, <1>3, <1>4 DEF History, h

\* As many blocks of a set were used as tags.
LEMMA RecentCount ==
    ASSUME NEW g \in Geometries, NEW tr \in Seq(Operations), DistinctIn(g, tr), NEW z, NEW m
    PROVE  Cardinality(RecentIn(g, tr, z, m, Len(tr) + 1)) = Cardinality(UsedSince(HistIn(g, tr, z), m))
  <1> DEFINE J == {j \in AccessedIn(tr) : SetIn(g, tr[j]) = z /\ m < j}
             R == RecentIn(g, tr, z, m, Len(tr) + 1)
             U == UsedSince(HistIn(g, tr, z), m)
             f == [t \in U |-> CHOOSE x \in R : \E j \in J : TagIn(g, tr[j]) = t /\ BlockIn(g, tr[j]) = x]
  <1>1. \A j \in AccessedIn(tr) : j < Len(tr) + 1 /\ j \in DOMAIN tr /\ tr[j] \in Operations
    BY DEF AccessedIn
  <1>2. /\ \A x \in R : \E j \in J : BlockIn(g, tr[j]) = x
        /\ \A j \in J : BlockIn(g, tr[j]) \in R
    BY <1>1 DEF RecentIn
  <1>3. /\ \A t \in U : \E j \in J : TagIn(g, tr[j]) = t
        /\ \A j \in J : TagIn(g, tr[j]) \in U
    BY DEF UsedSince, HistIn
  <1>4. \A j, k \in J : TagIn(g, tr[j]) = TagIn(g, tr[k]) <=> BlockIn(g, tr[j]) = BlockIn(g, tr[k])
    <2> SUFFICES ASSUME NEW j \in J, NEW k \in J
                 PROVE  TagIn(g, tr[j]) = TagIn(g, tr[k]) <=> BlockIn(g, tr[j]) = BlockIn(g, tr[k])
      OBVIOUS
    <2>1. /\ tr[j] \in Operations /\ tr[k] \in Operations /\ j \in DOMAIN tr /\ k \in DOMAIN tr
          /\ SetIn(g, tr[j]) = SetIn(g, tr[k])
      BY <1>1
    <2> HIDE DEF J
    <2> QED BY <2>1, SamePlace, Zenon DEF DistinctIn
  <1> HIDE DEF R, U, J
  <1>5. \A j \in J : f[TagIn(g, tr[j])] = BlockIn(g, tr[j])
    BY <1>2, <1>3, <1>4
  <1> HIDE DEF f
  <1>6. f \in Bijection(U, R)
    <2>1. f \in [U -> R]
      <3>1. f = [t \in U |-> f[t]]
        BY DEF f
      <3>2. \A t \in U : f[t] \in R
        BY <1>2, <1>3, <1>5
      <3> QED BY <3>1, <3>2
    <2>2. \A t1, t2 \in U : f[t1] = f[t2] => t1 = t2
      BY <1>3, <1>4, <1>5
    <2>3. \A x \in R : \E t \in U : f[t] = x
      BY <1>2, <1>3, <1>5
    <2> QED BY <2>1, <2>2, <2>3 DEF Bijection, Injection, Surjection, IsInjective
  <1>7. IsFiniteSet(U)
    BY HistoryIn, UsedSinceFinite DEF U
  <1>8. Cardinality(U) = Cardinality(R)
    <2>1. ExistsBijection(U, R)
      BY <1>6 DEF ExistsBijection
    <2> QED BY <1>7, <2>1, FS_Bijection
  <1> QED BY <1>8 DEF R, U

\* A block is there in the cache of the full addresses when its set has its tag.
LEMMA HeldIs ==
    ASSUME NEW g \in Geometries, NEW tr \in Seq(Operations), DistinctIn(g, tr), NEW o \in Operations,
           \A m \in DOMAIN tr : IntIn(g, tr[m]) = IntIn(g, o) => BlockIn(g, tr[m]) = BlockIn(g, o),
           NEW L, Ages(L, HistIn(g, tr, SetIn(g, o)), g.E)
    PROVE  /\ TagIn(g, o) \in Tags(L) <=> HeldIn(g, tr, o, Len(tr) + 1)
           /\ Full(L, g.E) <=> Cardinality(RecentIn(g, tr, SetIn(g, o), 0, Len(tr) + 1)) >= g.E
  <1> DEFINE z == SetIn(g, o)
             h == HistIn(g, tr, z)
  <1>1. History(h, Len(tr)) /\ Len(tr) \in Nat /\ g.E \in Nat
    BY HistoryIn, GeometriesOK
  <1>2. \A m : Cardinality(RecentIn(g, tr, z, m, Len(tr) + 1)) = Cardinality(UsedSince(h, m))
    BY RecentCount
  <1>3. DOMAIN h = {j \in AccessedIn(tr) : SetIn(g, tr[j]) = z} /\ \A j \in DOMAIN h : h[j] = TagIn(g, tr[j])
    BY DEF HistIn
  <1> HIDE DEF h
  <1>4. Ages(L, h, g.E)
    BY DEF h
  <1>5. TagIn(g, o) \in Tags(L) <=> \E m \in DOMAIN h : h[m] = TagIn(g, o) /\ Cardinality(UsedSince(h, m)) < g.E
    BY <1>1, <1>4, TagsAre
  <1>6. \A m \in AccessedIn(tr) : (m \in DOMAIN h /\ h[m] = TagIn(g, o)) <=> BlockIn(g, tr[m]) = BlockIn(g, o)
    <2> TAKE m \in AccessedIn(tr)
    <2>1. tr[m] \in Operations /\ m \in DOMAIN tr
      BY DEF AccessedIn
    <2>2. BlockIn(g, tr[m]) = BlockIn(g, o) => SetIn(g, tr[m]) = z /\ TagIn(g, tr[m]) = TagIn(g, o)
      BY <2>1, SamePlace
    <2>3. SetIn(g, tr[m]) = z /\ TagIn(g, tr[m]) = TagIn(g, o) => BlockIn(g, tr[m]) = BlockIn(g, o)
      BY <2>1, SamePlace
    <2> QED BY <1>3, <2>2, <2>3
  <1>7. \A m \in AccessedIn(tr) : m < Len(tr) + 1
    BY DEF AccessedIn
  <1>8. TagIn(g, o) \in Tags(L) <=> HeldIn(g, tr, o, Len(tr) + 1)
    <2>1. HeldIn(g, tr, o, Len(tr) + 1) <=> \E m \in AccessedIn(tr) :
              BlockIn(g, tr[m]) = BlockIn(g, o) /\ Cardinality(UsedSince(h, m)) < g.E
      BY <1>2, <1>7, Zenon DEF HeldIn
    <2>2. DOMAIN h \subseteq AccessedIn(tr)
      BY <1>3
    <2> QED BY <1>5, <1>6, <2>1, <2>2
  <1>9. Full(L, g.E) <=> Cardinality(UsedSince(h, 0)) >= g.E
    BY <1>1, <1>4, FullIs
  <1> QED BY <1>2, <1>8, <1>9

\* One operation more.
Grown(tr, o, tr1) ==
    /\ tr1 \in Seq(Operations) /\ Len(tr) \in Nat /\ Len(tr1) = Len(tr) + 1
    /\ DOMAIN tr1 = DOMAIN tr \cup {Len(tr) + 1} /\ tr1[Len(tr) + 1] = o
    /\ \A j \in DOMAIN tr : tr1[j] = tr[j] /\ j \in Nat /\ 0 < j /\ j < Len(tr) + 1

LEMMA Appended ==
    ASSUME NEW tr \in Seq(Operations), NEW o \in Operations
    PROVE  Grown(tr, o, Append(tr, o))
  BY DEF Grown

NewAccess(o) == Csim!Accesses(o.op) > 0
NewMiss(g, tr, o) == NewAccess(o) /\ ~HeldIn(g, tr, o, Len(tr) + 1)
NewEviction(g, tr, o) ==
    NewMiss(g, tr, o) /\ Cardinality(RecentIn(g, tr, SetIn(g, o), 0, Len(tr) + 1)) >= g.E
NewTwice(o) == Csim!Accesses(o.op) = 2
With(S, x) == S \cup {x}

LEMMA AppendedUses ==
    ASSUME NEW g, NEW tr \in Seq(Operations), NEW o \in Operations, NEW tr1, Grown(tr, o, tr1)
    PROVE  /\ AccessedIn(tr1) = IF NewAccess(o) THEN With(AccessedIn(tr), Len(tr) + 1) ELSE AccessedIn(tr)
           /\ MissedIn(g, tr1)
                  = IF NewMiss(g, tr, o) THEN With(MissedIn(g, tr), Len(tr) + 1) ELSE MissedIn(g, tr)
           /\ EvictingIn(g, tr1)
                  = IF NewEviction(g, tr, o) THEN With(EvictingIn(g, tr), Len(tr) + 1) ELSE EvictingIn(g, tr)
           /\ TwiceIn(tr1) = IF NewTwice(o) THEN With(TwiceIn(tr), Len(tr) + 1) ELSE TwiceIn(tr)
  <1>0. PICK e : e = Len(tr) + 1
    OBVIOUS
  <1>1. /\ tr1 \in Seq(Operations) /\ e \in Nat \ {0}
        /\ DOMAIN tr1 = DOMAIN tr \cup {e} /\ tr1[e] = o
        /\ \A j \in DOMAIN tr : tr1[j] = tr[j] /\ j \in Nat /\ 0 < j /\ j < e
    <2>1. /\ tr1 \in Seq(Operations) /\ DOMAIN tr1 = DOMAIN tr \cup {e} /\ tr1[e] = o
          /\ \A j \in DOMAIN tr : tr1[j] = tr[j] /\ j \in Nat /\ 0 < j /\ j < e
      BY <1>0, Zenon DEF Grown
    <2>2. e \in Nat \ {0}
      BY <1>0
    <2> QED BY <2>1, <2>2, Zenon
  <1>2. AccessedIn(tr1) = AccessedIn(tr) \cup {m \in {e} : Csim!Accesses(o.op) > 0}
    BY <1>1 DEF AccessedIn
  <1>3. AccessedIn(tr) \subseteq DOMAIN tr
    BY DEF AccessedIn
  <1>4. \A z, m : \A k \in Nat : k <= e => RecentIn(g, tr1, z, m, k) = RecentIn(g, tr, z, m, k)
    <2> SUFFICES ASSUME NEW z, NEW m, NEW k \in Nat, k <= e
                 PROVE  RecentIn(g, tr1, z, m, k) = RecentIn(g, tr, z, m, k)
      OBVIOUS
    <2> DEFINE J1 == {j \in AccessedIn(tr1) : m < j /\ j < k /\ SetIn(g, tr1[j]) = z}
               J == {j \in AccessedIn(tr) : m < j /\ j < k /\ SetIn(g, tr[j]) = z}
    <2>1. ~(e < k)
      <3> SUFFICES ASSUME e < k PROVE FALSE
        OBVIOUS
      <3> QED BY <1>1
    <2>2. J1 = J
      BY <1>1, <1>2, <1>3, <2>1
    <2>3. \A j \in J : tr1[j] = tr[j]
      BY <1>1, <1>3
    <2> HIDE DEF J, J1
    <2>4. {BlockIn(g, tr1[j]) : j \in J1} = {BlockIn(g, tr[j]) : j \in J}
      BY <2>2, <2>3
    <2> QED BY <2>4, Zenon DEF RecentIn, J, J1
  <1>5. \A x : \A k \in Nat : k <= e => (HeldIn(g, tr1, x, k) <=> HeldIn(g, tr, x, k))
    <2> SUFFICES ASSUME NEW x, NEW k \in Nat, k <= e PROVE HeldIn(g, tr1, x, k) <=> HeldIn(g, tr, x, k)
      OBVIOUS
    <2>1. ~(e < k)
      BY <1>1
    <2>2. \A m \in AccessedIn(tr1) : m < k => m \in AccessedIn(tr) /\ tr1[m] = tr[m]
      BY <1>1, <1>2, <1>3, <2>1
    <2>3. \A m \in AccessedIn(tr) : m \in AccessedIn(tr1) /\ tr1[m] = tr[m]
      BY <1>1, <1>2, <1>3
    <2>4. \A z, m : RecentIn(g, tr1, z, m, k) = RecentIn(g, tr, z, m, k)
      BY <1>4
    <2> QED BY <2>2, <2>3, <2>4, Zenon DEF HeldIn
  <1>6. \A m \in AccessedIn(tr) : m \in Nat /\ m <= e /\ tr1[m] = tr[m] /\ m # e
    BY <1>1, <1>3
  <1>7. e \in Nat /\ e <= e
    BY <1>1
  <1>8. /\ \A m \in AccessedIn(tr) : HeldIn(g, tr1, tr1[m], m) <=> HeldIn(g, tr, tr[m], m)
        /\ HeldIn(g, tr1, tr1[e], e) <=> HeldIn(g, tr, o, e)
    BY <1>1, <1>5, <1>6, <1>7, Zenon
  <1>9. MissedIn(g, tr1) = MissedIn(g, tr)
            \cup {m \in {e} : Csim!Accesses(o.op) > 0 /\ ~HeldIn(g, tr, o, e)}
    BY <1>2, <1>8, Zenon DEF MissedIn
  <1>10. /\ \A m \in MissedIn(g, tr) :
                RecentIn(g, tr1, SetIn(g, tr1[m]), 0, m) = RecentIn(g, tr, SetIn(g, tr[m]), 0, m)
         /\ RecentIn(g, tr1, SetIn(g, tr1[e]), 0, e) = RecentIn(g, tr, SetIn(g, o), 0, e)
    <2>1. MissedIn(g, tr) \subseteq AccessedIn(tr)
      BY DEF MissedIn
    <2>2. ASSUME NEW m \in MissedIn(g, tr)
          PROVE  RecentIn(g, tr1, SetIn(g, tr1[m]), 0, m) = RecentIn(g, tr, SetIn(g, tr[m]), 0, m)
      <3>1. m \in Nat /\ m <= e /\ tr1[m] = tr[m]
        BY <1>6, <2>1
      <3> QED BY <1>4, <3>1, Zenon
    <2>3. RecentIn(g, tr1, SetIn(g, tr1[e]), 0, e) = RecentIn(g, tr, SetIn(g, o), 0, e)
      <3>1. SetIn(g, tr1[e]) = SetIn(g, o)
        BY <1>1
      <3> QED BY <1>4, <1>7, <3>1
    <2> QED BY <2>2, <2>3
  <1>11. EvictingIn(g, tr1) = EvictingIn(g, tr)
            \cup {m \in {e} : /\ Csim!Accesses(o.op) > 0 /\ ~HeldIn(g, tr, o, e)
                              /\ Cardinality(RecentIn(g, tr, SetIn(g, o), 0, e)) >= g.E}
    BY <1>9, <1>10, Zenon DEF EvictingIn
  <1>12. TwiceIn(tr1) = TwiceIn(tr) \cup {m \in {e} : Csim!Accesses(o.op) = 2}
    BY <1>1 DEF TwiceIn
  <1>13. AccessedIn(tr1) = IF NewAccess(o) THEN With(AccessedIn(tr), e) ELSE AccessedIn(tr)
    BY <1>2, Zenon DEF NewAccess, With
  <1>14. MissedIn(g, tr1) = IF NewMiss(g, tr, o) THEN With(MissedIn(g, tr), e) ELSE MissedIn(g, tr)
    BY <1>0, <1>9, Zenon DEF NewMiss, NewAccess, With
  <1>15. EvictingIn(g, tr1) = IF NewEviction(g, tr, o) THEN With(EvictingIn(g, tr), e) ELSE EvictingIn(g, tr)
    BY <1>0, <1>11, Zenon DEF NewEviction, NewMiss, NewAccess, With
  <1>16. TwiceIn(tr1) = IF NewTwice(o) THEN With(TwiceIn(tr), e) ELSE TwiceIn(tr)
    BY <1>12, Zenon DEF NewTwice, With
  <1> QED BY <1>0, <1>13, <1>14, <1>15, <1>16, Zenon

LEMMA CountWith ==
    ASSUME NEW b \in Nat, NEW S, S \subseteq 1 .. b
    PROVE  /\ IsFiniteSet(S) /\ Cardinality(S) \in Nat
           /\ Cardinality(S \cup {b + 1}) = Cardinality(S) + 1
  <1>1. IsFiniteSet(S)
    <2>1. IsFiniteSet(1 .. b)
      BY FS_Interval
    <2> QED BY <2>1, FS_Subset
  <1>2. b + 1 \notin S
    OBVIOUS
  <1>3. Cardinality(S) \in Nat
    BY <1>1, FS_CardinalityType
  <1> QED BY <1>1, <1>2, <1>3, FS_AddElement

\* What the cache s has done of the trace.
Holding(g, tr, s) == \A z \in Sets(g) : Ages(s.lines[z], HistIn(g, tr, z), g.E)
Counts(g, tr, s) ==
    /\ s.misses = Cardinality(MissedIn(g, tr)) /\ s.evictions = Cardinality(EvictingIn(g, tr))
    /\ s.hits + s.misses = Cardinality(AccessedIn(tr)) + Cardinality(TwiceIn(tr))

LEMMA InitSimulates ==
    ASSUME NEW g \in Geometries
    PROVE  /\ Csim!init_cache(g) \in Simulated(g)
           /\ Holding(g, <<>>, Csim!init_cache(g)) /\ Counts(g, <<>>, Csim!init_cache(g))
  <1> DEFINE s == Csim!init_cache(g)
             F == [0 .. 2^g.s - 1 -> SUBSET Line(g.E)]
             f == [set \in 0 .. 2^g.s - 1 |-> {}]
  <1>1. s = [lines |-> f, hits |-> 0, misses |-> 0, evictions |-> 0]
    BY Zenon DEF Csim!init_cache
  <1>2. f \in F /\ \A z \in Sets(g) : f[z] = {}
    BY DEF Sets
  <1> HIDE DEF f, F, s
  <1>3. s \in Counted(F) /\ s.lines = f /\ s.hits = 0 /\ s.misses = 0 /\ s.evictions = 0
    BY <1>1, <1>2 DEF Counted
  <1>4. AccessedIn(<<>>) = {} /\ TwiceIn(<<>>) = {} /\ MissedIn(g, <<>>) = {} /\ EvictingIn(g, <<>>) = {}
    BY DEF AccessedIn, TwiceIn, MissedIn, EvictingIn
  <1>5. ASSUME NEW z \in Sets(g) PROVE Ages(s.lines[z], HistIn(g, <<>>, z), g.E)
    <2>1. s.lines[z] = {} /\ DOMAIN HistIn(g, <<>>, z) = {}
      BY <1>2, <1>3, <1>4, <1>5 DEF HistIn
    <2> QED BY <2>1, Zenon DEF Ages
  <1>6. Cardinality({}) = 0
    BY FS_EmptySet
  <1>7. Holding(g, <<>>, s) /\ Counts(g, <<>>, s)
    BY <1>3, <1>4, <1>5, <1>6 DEF Counts, Holding
  <1> QED BY <1>3, <1>7, Zenon DEF Simulated, F, s

\* An operation that accesses nothing.
LEMMA NoAccess ==
    ASSUME NEW g \in Geometries, NEW tr \in Seq(Operations), NEW o \in Operations,
           NEW tr1, Grown(tr, o, tr1), Csim!Accesses(o.op) = 0, NEW s, Holding(g, tr, s)
    PROVE  Holding(g, tr1, s) /\ (Counts(g, tr, s) => Counts(g, tr1, s))
  <1>1. ~NewAccess(o) /\ ~NewTwice(o) /\ ~NewMiss(g, tr, o) /\ ~NewEviction(g, tr, o)
    <2>1. ~NewAccess(o) /\ ~NewTwice(o)
      BY DEF NewAccess, NewTwice
    <2> QED BY <2>1, Zenon DEF NewMiss, NewEviction
  <1>2. /\ AccessedIn(tr1) = AccessedIn(tr) /\ MissedIn(g, tr1) = MissedIn(g, tr)
        /\ EvictingIn(g, tr1) = EvictingIn(g, tr) /\ TwiceIn(tr1) = TwiceIn(tr)
    BY <1>1, AppendedUses, Zenon
  <1>3. ASSUME NEW z PROVE HistIn(g, tr1, z) = HistIn(g, tr, z)
    <2>1. \A j \in AccessedIn(tr) : tr1[j] = tr[j]
      <3>1. \A j \in DOMAIN tr : tr1[j] = tr[j]
        BY Zenon DEF Grown
      <3> QED BY <3>1 DEF AccessedIn
    <2> QED BY <1>2, <2>1 DEF HistIn
  <1> QED BY <1>2, <1>3, Zenon DEF Counts, Holding

\* The lines after an access.
LEMMA Held ==
    ASSUME NEW g \in Geometries, NEW tr \in Seq(Operations), NEW tr1 \in Seq(Operations), NEW e, NEW o \in Operations,
           NEW s \in Simulated(g), Holding(g, tr, s), NEW z \in Sets(g), NEW tag \in Int, NEW s1,
           Access(g, s, s1, z, tag),
           Extended(HistIn(g, tr, z), HistIn(g, tr1, z), e, tag),
           \A x \in Sets(g) : x # z => HistIn(g, tr1, x) = HistIn(g, tr, x)
    PROVE  Holding(g, tr1, s1)
  <1>1. PICK y \in 1 .. g.E :
            /\ s1.lines = [s.lines EXCEPT ![z] = Touch(s.lines[z], y, tag)]
            /\ HitAt(s.lines[z], y, tag) \/ FreeAt(s.lines[z], y, tag) \/ OldestAt(s.lines[z], g.E, y, tag)
    BY Zenon DEF Access
  <1>2. DOMAIN s.lines = Sets(g) /\ g.E \in Nat
    BY GeometriesOK DEF Simulated, Counted, Sets
  <1> DEFINE L == s.lines[z]
             h == HistIn(g, tr, z)
             h1 == HistIn(g, tr1, z)
  <1>3. PICK b \in Nat : History(h, b) /\ History(h1, b)
    <2>1. History(h, Len(tr)) /\ History(h1, Len(tr1)) /\ Len(tr) \in Nat /\ Len(tr1) \in Nat
      BY HistoryIn
    <2> DEFINE b == Len(tr) + Len(tr1)
    <2>2. b \in Nat /\ 1 .. Len(tr) \subseteq 1 .. b /\ 1 .. Len(tr1) \subseteq 1 .. b
      BY <2>1
    <2> HIDE DEF h, h1, b
    <2>3. History(h, b) /\ History(h1, b)
      BY <2>1, <2>2 DEF History
    <2> QED BY <2>2, <2>3
  <1>4. Ages(L, h, g.E) /\ Extended(h, h1, e, tag)
    BY DEF Holding
  <1>5. Ages(Touch(L, y, tag), h1, g.E)
    <2> HIDE DEF L, h, h1
    <2>1. HitAt(L, y, tag) \/ FreeAt(L, y, tag) \/ OldestAt(L, g.E, y, tag)
      BY <1>1 DEF L
    <2> QED BY <1>2, <1>3, <1>4, <2>1, Touched
  <1>6. ASSUME NEW x \in Sets(g) PROVE Ages(s1.lines[x], HistIn(g, tr1, x), g.E)
    <2>1. CASE x = z
      <3>1. s1.lines[x] = Touch(L, y, tag)
        BY <1>1, <1>2, <2>1
      <3> QED BY <1>5, <2>1, <3>1
    <2>2. CASE x # z
      <3>1. s1.lines[x] = s.lines[x]
        BY <1>1, <1>2, <2>2
      <3> QED BY <1>6, <2>2, <3>1, Zenon DEF Holding
    <2> QED BY <2>1, <2>2
  <1> QED BY <1>6 DEF Holding

LEMMA Subsets ==
    ASSUME NEW g, NEW tr \in Seq(Operations)
    PROVE  /\ Len(tr) \in Nat /\ AccessedIn(tr) \subseteq 1 .. Len(tr) /\ TwiceIn(tr) \subseteq 1 .. Len(tr)
           /\ MissedIn(g, tr) \subseteq 1 .. Len(tr) /\ EvictingIn(g, tr) \subseteq 1 .. Len(tr)
  BY DEF AccessedIn, TwiceIn, MissedIn, EvictingIn

LEMMA HistoryAppended ==
    ASSUME NEW g \in Geometries, NEW tr \in Seq(Operations), NEW o \in Operations, NEW tr1, Grown(tr, o, tr1),
           NewAccess(o)
    PROVE  /\ Extended(HistIn(g, tr, SetIn(g, o)), HistIn(g, tr1, SetIn(g, o)), Len(tr) + 1, TagIn(g, o))
           /\ \A x : x # SetIn(g, o) => HistIn(g, tr1, x) = HistIn(g, tr, x)
  <1>0. PICK e : e = Len(tr) + 1
    OBVIOUS
  <1>1. /\ tr1[e] = o /\ e \in Nat
        /\ \A j \in DOMAIN tr : tr1[j] = tr[j] /\ j <= e
    <2>1. tr1[e] = o /\ \A j \in DOMAIN tr : tr1[j] = tr[j] /\ j \in Nat /\ j < e
      BY <1>0, Zenon DEF Grown
    <2>2. e \in Nat
      BY <1>0
    <2> QED BY <2>1, <2>2
  <1>2. AccessedIn(tr1) = AccessedIn(tr) \cup {e} /\ AccessedIn(tr) \subseteq DOMAIN tr
    <2>1. AccessedIn(tr1) = With(AccessedIn(tr), e)
      BY <1>0, AppendedUses, Zenon
    <2> QED BY <2>1 DEF With, AccessedIn
  <1> DEFINE J(t, x) == {j \in AccessedIn(t) : SetIn(g, t[j]) = x}
             h(t, x) == HistIn(g, t, x)
  <1>3. \A t, x : h(t, x) = [j \in J(t, x) |-> TagIn(g, t[j])]
    BY Zenon DEF HistIn
  <1>4. \A x : x # SetIn(g, o) => J(tr1, x) = J(tr, x)
    BY <1>1, <1>2
  <1>5. J(tr1, SetIn(g, o)) = J(tr, SetIn(g, o)) \cup {e}
    BY <1>1, <1>2
  <1>6. \A x : J(tr, x) \subseteq DOMAIN tr
    BY <1>2
  <1> HIDE DEF J, h
  <1>7. ASSUME NEW x, x # SetIn(g, o) PROVE h(tr1, x) = h(tr, x)
    <2>1. \A j \in J(tr, x) : tr1[j] = tr[j]
      BY <1>1, <1>6
    <2>2. J(tr1, x) = J(tr, x)
      BY <1>4, <1>7
    <2> DEFINE S == J(tr, x)
    <2> HIDE DEF S
    <2>3. [j \in S |-> TagIn(g, tr1[j])] = [j \in S |-> TagIn(g, tr[j])]
      BY <2>1 DEF S
    <2>4. h(tr1, x) = [j \in S |-> TagIn(g, tr1[j])] /\ h(tr, x) = [j \in S |-> TagIn(g, tr[j])]
      BY <1>3, <2>2, Zenon DEF S
    <2> QED BY <2>3, <2>4
  <1>8. Extended(h(tr, SetIn(g, o)), h(tr1, SetIn(g, o)), e, TagIn(g, o))
    <2> DEFINE S == J(tr, SetIn(g, o))
               h0 == h(tr, SetIn(g, o))
               h1 == h(tr1, SetIn(g, o))
    <2>1. h0 = [j \in S |-> TagIn(g, tr[j])] /\ h1 = [j \in S \cup {e} |-> TagIn(g, tr1[j])]
      BY <1>3, <1>5, Zenon
    <2>2. S \subseteq DOMAIN tr
      BY <1>6
    <2> HIDE DEF S, h0, h1
    <2>3. /\ DOMAIN h1 = DOMAIN h0 \cup {e} /\ h1[e] = TagIn(g, o)
          /\ \A j \in DOMAIN h0 : h1[j] = h0[j] /\ j <= e
      BY <1>1, <2>1, <2>2
    <2> QED BY <2>3, Zenon DEF Extended, h0, h1
  <1> QED BY <1>0, <1>7, <1>8 DEF h

LEMMA DistinctAppended ==
    ASSUME NEW g, NEW tr \in Seq(Operations), NEW o \in Operations, NEW tr1, Grown(tr, o, tr1),
           DistinctIn(g, tr1)
    PROVE  /\ DistinctIn(g, tr)
           /\ \A m \in DOMAIN tr : IntIn(g, tr[m]) = IntIn(g, o) => BlockIn(g, tr[m]) = BlockIn(g, o)
  <1>1. PICK e : /\ DOMAIN tr1 = DOMAIN tr \cup {e} /\ tr1[e] = o
                 /\ \A j \in DOMAIN tr : tr1[j] = tr[j]
    BY Zenon DEF Grown
  <1>2. \A m \in DOMAIN tr : m \in DOMAIN tr1 /\ tr1[m] = tr[m]
    BY <1>1
  <1>3. e \in DOMAIN tr1 /\ tr1[e] = o
    BY <1>1
  <1>4. \A m, k \in DOMAIN tr1 : IntIn(g, tr1[m]) = IntIn(g, tr1[k]) => BlockIn(g, tr1[m]) = BlockIn(g, tr1[k])
    BY Zenon DEF DistinctIn
  <1>5. ASSUME NEW m \in DOMAIN tr
        PROVE  /\ \A k \in DOMAIN tr : IntIn(g, tr[m]) = IntIn(g, tr[k]) => BlockIn(g, tr[m]) = BlockIn(g, tr[k])
               /\ IntIn(g, tr[m]) = IntIn(g, o) => BlockIn(g, tr[m]) = BlockIn(g, o)
    BY <1>2, <1>3, <1>4
  <1> QED BY <1>5 DEF DistinctIn

\* The first access of an operation.
LEMMA Accessing ==
    ASSUME NEW g \in Geometries, NEW tr \in Seq(Operations), NEW o \in Operations, NEW tr1, Grown(tr, o, tr1),
           NewAccess(o), NEW s \in Simulated(g), Holding(g, tr, s),
           Csim!SetIndex(g, o.address) \in Sets(g), NEW s1, s1 = Csim!process(g, s, o.address)
    PROVE  /\ s1 \in Simulated(g) /\ Holding(g, tr1, s1)
           /\ DistinctIn(g, tr1) /\ Counts(g, tr, s) =>
                  /\ s1.misses = Cardinality(MissedIn(g, tr1)) /\ s1.evictions = Cardinality(EvictingIn(g, tr1))
                  /\ s1.hits + s1.misses = Cardinality(AccessedIn(tr1)) + Cardinality(TwiceIn(tr))
  <1> DEFINE z == SetIn(g, o)
             tag == TagIn(g, o)
             e == Len(tr) + 1
             L == s.lines[z]
             h == HistIn(g, tr, z)
  <1>1. z \in Sets(g) /\ tag \in Int /\ Csim!SetIndex(g, o.address) = z
    BY PlaceOf
  <1>2. tr1 \in Seq(Operations) /\ Len(tr) \in Nat
    BY Zenon DEF Grown
  <1>3. Ages(L, h, g.E)
    BY <1>1 DEF Holding
  <1>4. History(h, Len(tr))
    BY HistoryIn
  <1>5. Access(g, s, s1, z, tag)
    <2>1. DOMAIN s.lines = Sets(g) /\ g.E \in Nat \ {0}
      BY GeometriesOK DEF Simulated, Counted, Sets
    <2>2. tag = Csim!Tag(g, o.address)
      BY DEF TagIn
    <2>3. Ages(s.lines[z], h, g.E)
      BY <1>3
    <2>4. PICK b \in Nat : History(h, b)
      BY <1>2, <1>4
    <2> HIDE DEF z, tag, h, e, L
    <2>5. z = Csim!SetIndex(g, o.address) /\ z \in DOMAIN s.lines /\ tag \in Int
      BY <1>1, <2>1
    <2>6. Access(g, s, Csim!process(g, s, o.address), z, tag)
      BY <2>1, <2>2, <2>3, <2>4, <2>5, ProcessIs, Zenon
    <2> QED BY <2>6
  <1>6. Extended(h, HistIn(g, tr1, z), e, tag) /\ \A x : x # z => HistIn(g, tr1, x) = HistIn(g, tr, x)
    BY HistoryAppended, Zenon
  <1>7. Holding(g, tr1, s1)
    <2> HIDE DEF z, tag, h, e, L
    <2> QED BY <1>1, <1>2, <1>5, <1>6, Held DEF h
  <1>8. s1 \in Simulated(g)
    BY <1>5, Zenon DEF Access
  <1>9. ASSUME DistinctIn(g, tr1), Counts(g, tr, s)
        PROVE  /\ s1.misses = Cardinality(MissedIn(g, tr1)) /\ s1.evictions = Cardinality(EvictingIn(g, tr1))
               /\ s1.hits + s1.misses = Cardinality(AccessedIn(tr1)) + Cardinality(TwiceIn(tr))
    <2>1. /\ DistinctIn(g, tr)
          /\ \A m \in DOMAIN tr : IntIn(g, tr[m]) = IntIn(g, o) => BlockIn(g, tr[m]) = BlockIn(g, o)
      BY <1>9, DistinctAppended, Zenon
    <2>2. /\ tag \in Tags(L) <=> HeldIn(g, tr, o, e)
          /\ Full(L, g.E) <=> Cardinality(RecentIn(g, tr, z, 0, e)) >= g.E
      BY <1>3, <2>1, HeldIs
    <2>3. /\ NewMiss(g, tr, o) <=> tag \notin Tags(L)
          /\ NewEviction(g, tr, o) <=> tag \notin Tags(L) /\ Full(L, g.E)
      BY <2>2, Zenon DEF NewMiss, NewEviction
    <2> DEFINE a0 == Cardinality(AccessedIn(tr))
               m0 == Cardinality(MissedIn(g, tr))
               e0 == Cardinality(EvictingIn(g, tr))
               t0 == Cardinality(TwiceIn(tr))
               a1 == Cardinality(AccessedIn(tr1))
               m1 == Cardinality(MissedIn(g, tr1))
               e1 == Cardinality(EvictingIn(g, tr1))
    <2>4. /\ a1 = a0 + 1
          /\ m1 = IF NewMiss(g, tr, o) THEN m0 + 1 ELSE m0
          /\ e1 = IF NewEviction(g, tr, o) THEN e0 + 1 ELSE e0
          /\ a0 \in Nat /\ m0 \in Nat /\ e0 \in Nat /\ t0 \in Nat
      <3>1. /\ AccessedIn(tr1) = With(AccessedIn(tr), e)
            /\ MissedIn(g, tr1) = IF NewMiss(g, tr, o) THEN With(MissedIn(g, tr), e) ELSE MissedIn(g, tr)
            /\ EvictingIn(g, tr1)
                   = IF NewEviction(g, tr, o) THEN With(EvictingIn(g, tr), e) ELSE EvictingIn(g, tr)
        BY AppendedUses, Zenon
      <3>2. \A S \in SUBSET (1 .. Len(tr)) : /\ Cardinality(S) \in Nat
                                             /\ Cardinality(With(S, e)) = Cardinality(S) + 1
        BY <1>2, CountWith DEF With
      <3>3. /\ AccessedIn(tr) \in SUBSET (1 .. Len(tr)) /\ TwiceIn(tr) \in SUBSET (1 .. Len(tr))
            /\ MissedIn(g, tr) \in SUBSET (1 .. Len(tr)) /\ EvictingIn(g, tr) \in SUBSET (1 .. Len(tr))
        BY Subsets
      <3> HIDE DEF e
      <3> QED BY <3>1, <3>2, <3>3, Zenon
    <2>5. s.misses = m0 /\ s.evictions = e0 /\ s.hits + s.misses = a0 + t0
      BY <1>9, Zenon DEF Counts
    <2>6. s.hits \in Nat /\ s.misses \in Nat /\ s.evictions \in Nat
      BY DEF Simulated, Counted
    <2> HIDE DEF z, tag, e, L, h
    <2>7. \/ /\ tag \in Tags(L)
             /\ s1.hits = s.hits + 1 /\ s1.misses = s.misses /\ s1.evictions = s.evictions
          \/ /\ tag \notin Tags(L) /\ ~Full(L, g.E)
             /\ s1.hits = s.hits /\ s1.misses = s.misses + 1 /\ s1.evictions = s.evictions
          \/ /\ tag \notin Tags(L) /\ Full(L, g.E)
             /\ s1.hits = s.hits /\ s1.misses = s.misses + 1 /\ s1.evictions = s.evictions + 1
      <3>1. \A y : HitAt(L, y, tag) => tag \in Tags(L)
        BY DEF HitAt, Tags
      <3> QED BY <1>5, <3>1, Zenon DEF Access, FreeAt, OldestAt, L
    <2> HIDE DEF a0, m0, e0, t0, a1, m1, e1
    <2>9. a1 = a0 + 1 /\ a0 \in Nat /\ m0 \in Nat /\ e0 \in Nat /\ t0 \in Nat
      BY <2>4, Zenon
    <2>8. s1.misses = m1 /\ s1.evictions = e1 /\ s1.hits + s1.misses = a1 + t0
      <3>1. CASE tag \in Tags(L)
        <4>1. m1 = m0 /\ e1 = e0
          BY <2>3, <2>4, <3>1, Zenon
        <4>2. s1.hits = s.hits + 1 /\ s1.misses = s.misses /\ s1.evictions = s.evictions
          BY <2>7, <3>1, Zenon
        <4> QED BY <2>5, <2>6, <2>9, <4>1, <4>2
      <3>2. CASE tag \notin Tags(L) /\ ~Full(L, g.E)
        <4>1. m1 = m0 + 1 /\ e1 = e0
          BY <2>3, <2>4, <3>2, Zenon
        <4>2. s1.hits = s.hits /\ s1.misses = s.misses + 1 /\ s1.evictions = s.evictions
          BY <2>7, <3>2, Zenon
        <4> QED BY <2>5, <2>6, <2>9, <4>1, <4>2
      <3>3. CASE tag \notin Tags(L) /\ Full(L, g.E)
        <4>1. m1 = m0 + 1 /\ e1 = e0 + 1
          BY <2>3, <2>4, <3>3, Zenon
        <4>2. s1.hits = s.hits /\ s1.misses = s.misses + 1 /\ s1.evictions = s.evictions + 1
          BY <2>7, <3>3, Zenon
        <4> QED BY <2>5, <2>6, <2>9, <4>1, <4>2
      <3> QED BY <3>1, <3>2, <3>3
    <2> QED BY <2>8, Zenon DEF a1, m1, e1, t0
  <1> QED BY <1>7, <1>8, <1>9

\* The second access of an operation finds its block.
LEMMA Again ==
    ASSUME NEW g \in Geometries, NEW tr \in Seq(Operations), NEW o \in Operations, NEW tr1, Grown(tr, o, tr1),
           NewAccess(o), NEW s \in Simulated(g), Holding(g, tr1, s),
           Csim!SetIndex(g, o.address) \in Sets(g), NEW s1, s1 = Csim!process(g, s, o.address)
    PROVE  /\ s1 \in Simulated(g) /\ Holding(g, tr1, s1)
           /\ s1.hits = s.hits + 1 /\ s1.misses = s.misses /\ s1.evictions = s.evictions
  <1> DEFINE z == SetIn(g, o)
             tag == TagIn(g, o)
             e == Len(tr) + 1
             L == s.lines[z]
             h == HistIn(g, tr1, z)
  <1>1. z \in Sets(g) /\ tag \in Int /\ Csim!SetIndex(g, o.address) = z
    BY PlaceOf
  <1>2. tr1 \in Seq(Operations) /\ Len(tr1) = e /\ e \in Nat
    <2>1. tr1 \in Seq(Operations) /\ Len(tr1) = e
      BY Zenon DEF Grown
    <2> QED BY <2>1
  <1>3. Ages(L, h, g.E) /\ g.E \in Nat \ {0}
    BY <1>1, GeometriesOK DEF Holding
  <1>4. History(h, e)
    <2>1. History(h, Len(tr1))
      BY <1>2, HistoryIn
    <2> QED BY <1>2, <2>1
  <1>5. e \in DOMAIN h /\ h[e] = tag
    <2>1. Extended(HistIn(g, tr, z), h, e, tag)
      BY HistoryAppended
    <2> HIDE DEF e, z, h, tag
    <2> QED BY <2>1 DEF Extended
  <1>6. Extended(h, h, e, tag)
    <2> HIDE DEF h, e, tag
    <2>1. \A j \in DOMAIN h : j \in 1 .. e
      BY <1>4 DEF History
    <2>2. \A j \in DOMAIN h : j <= e
      BY <1>2, <2>1
    <2> QED BY <1>5, <2>2, Zenon DEF Extended
  <1>7. Access(g, s, s1, z, tag)
    <2>1. DOMAIN s.lines = Sets(g)
      BY DEF Simulated, Counted, Sets
    <2>2. tag = Csim!Tag(g, o.address)
      BY DEF TagIn
    <2> HIDE DEF z, tag, h, e
    <2> QED BY <1>1, <1>2, <1>3, <1>4, <2>1, <2>2, ProcessIs DEF L
  <1>8. tag \in Tags(L)
    <2> SUFFICES ASSUME Full(L, g.E), UsedAfter(h, L, e) PROVE FALSE
      BY <1>3, <1>5 DEF Ages
    <2>1. PICK l \in L : l.i = 1
      BY <1>3 DEF Full
    <2>2. PICK j : LastUse(h, l.tag_bit, j) /\ j > e
      BY <2>1 DEF UsedAfter
    <2>3. j \in 1 .. e
      BY <1>4, <2>2 DEF LastUse, History
    <2> QED BY <1>2, <2>2, <2>3
  <1>9. Holding(g, tr1, s1)
    <2> HIDE DEF z, tag, h, e, L
    <2> QED BY <1>1, <1>2, <1>6, <1>7, Held DEF h
  <1>10. /\ s1 \in Simulated(g)
         /\ s1.hits = s.hits + 1 /\ s1.misses = s.misses /\ s1.evictions = s.evictions
    BY <1>7, <1>8, Zenon DEF Access, FreeAt, OldestAt
  <1> QED BY <1>9, <1>10

CsimInv ==
    /\ geom \in Geometries /\ trace \in Seq(Operations) /\ sim \in Simulated(geom)
    /\ at \in {"replay", "done"} =>
           Holding(geom, trace, sim) /\ (DistinctIn(geom, trace) => Counts(geom, trace, sim))

LEMMA InitCsimInv == Csim!Init => CsimInv
  <1> SUFFICES ASSUME Csim!Init PROVE CsimInv
    OBVIOUS
  <1>1. geom \in Geometries /\ trace = <<>> /\ sim = Csim!init_cache(geom)
    BY DEF Csim!Init
  <1> QED BY <1>1, InitSimulates DEF CsimInv

LEMMA StepCsimInv == CsimInv /\ [Csim!Next]_(Csim!vars) => CsimInv'
  <1> SUFFICES ASSUME CsimInv, [Csim!Next]_(Csim!vars) PROVE CsimInv'
    OBVIOUS
  <1>1. ASSUME NEW o \in Operations, Csim!Replay(o) PROVE CsimInv'
    <2>1. /\ at = "replay" /\ geom' = geom /\ trace' = Append(trace, o)
          /\ geom \in Geometries /\ trace \in Seq(Operations) /\ sim \in Simulated(geom)
      BY <1>1 DEF Csim!Replay, CsimInv
    <2>2. trace' \in Seq(Operations) /\ Grown(trace, o, trace')
      BY <2>1, Appended
    <2>3. CASE at' \in {"invalid operation", "undefined"} /\ sim' = sim
      BY <2>1, <2>2, <2>3 DEF CsimInv
    <2>4. CASE /\ ~(Csim!Accesses(o.op) > 0 /\ Csim!SetIndex(geom, o.address) \notin DOMAIN sim.lines)
               /\ sim' = LET once == Csim!process(geom, sim, o.address)
                         IN  CASE Csim!Accesses(o.op) = 0 -> sim
                               [] Csim!Accesses(o.op) = 1 -> once
                               [] Csim!Accesses(o.op) = 2 -> Csim!process(geom, once, o.address)
      <3> DEFINE once == Csim!process(geom, sim, o.address)
      <3>1. Csim!Accesses(o.op) \in {0, 1, 2}
        BY DEF Csim!Accesses
      <3>2. Csim!Accesses(o.op) > 0 => Csim!SetIndex(geom, o.address) \in Sets(geom)
        BY <2>1, <2>4 DEF Simulated, Counted, Sets
      <3>3. /\ Csim!Accesses(o.op) = 0 => sim' = sim
            /\ Csim!Accesses(o.op) = 1 => sim' = once
            /\ Csim!Accesses(o.op) = 2 => sim' = Csim!process(geom, once, o.address)
        BY <2>4
      <3> DEFINE tr1 == trace'
                 s1 == sim'
      <3>4. /\ Holding(geom, trace, sim) /\ (DistinctIn(geom, trace) => Counts(geom, trace, sim))
            /\ DistinctIn(geom, tr1) => DistinctIn(geom, trace)
        BY <2>1, <2>2, DistinctAppended DEF CsimInv
      <3>5. ASSUME Csim!Accesses(o.op) = 0
            PROVE  /\ s1 \in Simulated(geom) /\ Holding(geom, tr1, s1)
                   /\ DistinctIn(geom, tr1) => Counts(geom, tr1, s1)
        BY <2>1, <2>2, <3>3, <3>4, <3>5, NoAccess
      <3>6. ASSUME Csim!Accesses(o.op) > 0
            PROVE  /\ NewAccess(o) /\ once \in Simulated(geom) /\ Holding(geom, tr1, once)
                   /\ DistinctIn(geom, tr1) =>
                          /\ once.misses = Cardinality(MissedIn(geom, tr1))
                          /\ once.evictions = Cardinality(EvictingIn(geom, tr1))
                          /\ once.hits + once.misses = Cardinality(AccessedIn(tr1)) + Cardinality(TwiceIn(trace))
        <4>1. NewAccess(o)
          BY <3>6 DEF NewAccess
        <4>2. Grown(trace, o, tr1) /\ once = Csim!process(geom, sim, o.address)
          BY <2>2
        <4>3. Csim!SetIndex(geom, o.address) \in Sets(geom)
          BY <3>2, <3>6
        <4> HIDE DEF tr1, once
        <4>4. /\ once \in Simulated(geom) /\ Holding(geom, tr1, once)
              /\ DistinctIn(geom, tr1) /\ Counts(geom, trace, sim) =>
                     /\ once.misses = Cardinality(MissedIn(geom, tr1))
                     /\ once.evictions = Cardinality(EvictingIn(geom, tr1))
                     /\ once.hits + once.misses = Cardinality(AccessedIn(tr1)) + Cardinality(TwiceIn(trace))
          <5>1. /\ geom \in Geometries /\ trace \in Seq(Operations) /\ sim \in Simulated(geom)
                /\ Holding(geom, trace, sim)
            BY <2>1, <3>4, Zenon
          <5> QED BY <4>1, <4>2, <4>3, <5>1, Accessing
        <4> QED BY <3>4, <4>1, <4>4, Zenon
      <3>7. TwiceIn(tr1) = IF NewTwice(o) THEN With(TwiceIn(trace), Len(trace) + 1) ELSE TwiceIn(trace)
        BY <2>1, <2>2, AppendedUses, Zenon
      <3>8. ASSUME Csim!Accesses(o.op) = 1
            PROVE  /\ s1 \in Simulated(geom) /\ Holding(geom, tr1, s1)
                   /\ DistinctIn(geom, tr1) => Counts(geom, tr1, s1)
        <4>1. Csim!Accesses(o.op) > 0 /\ ~NewTwice(o)
          BY <3>8 DEF NewTwice
        <4>2. s1 = once /\ TwiceIn(tr1) = TwiceIn(trace)
          BY <3>3, <3>7, <3>8, <4>1
        <4> HIDE DEF tr1, once, s1
        <4> QED BY <3>6, <4>1, <4>2, Zenon DEF Counts
      <3>9. ASSUME Csim!Accesses(o.op) = 2
            PROVE  /\ s1 \in Simulated(geom) /\ Holding(geom, tr1, s1)
                   /\ DistinctIn(geom, tr1) => Counts(geom, tr1, s1)
        <4>1. Csim!Accesses(o.op) > 0 /\ NewTwice(o)
          BY <3>9 DEF NewTwice
        <4>2. s1 = Csim!process(geom, once, o.address)
          BY <3>3, <3>9
        <4>3. Grown(trace, o, tr1) /\ Csim!SetIndex(geom, o.address) \in Sets(geom)
          BY <2>2, <3>2, <4>1
        <4> HIDE DEF tr1, once, s1
        <4>4. /\ s1 \in Simulated(geom) /\ Holding(geom, tr1, s1)
              /\ s1.hits = once.hits + 1 /\ s1.misses = once.misses /\ s1.evictions = once.evictions
          <5>1. /\ geom \in Geometries /\ trace \in Seq(Operations) /\ NewAccess(o)
                /\ once \in Simulated(geom) /\ Holding(geom, tr1, once)
            BY <2>1, <3>6, <4>1, Zenon
          <5> QED BY <4>2, <4>3, <5>1, Again
        <4>5. /\ Cardinality(TwiceIn(tr1)) = Cardinality(TwiceIn(trace)) + 1
              /\ Cardinality(TwiceIn(trace)) \in Nat /\ Cardinality(AccessedIn(tr1)) \in Nat
          <5>1. TwiceIn(tr1) = TwiceIn(trace) \cup {Len(trace) + 1}
            BY <3>7, <4>1, Zenon DEF With
          <5>2. tr1 \in Seq(Operations)
            BY <2>2 DEF tr1
          <5>3. /\ TwiceIn(trace) \subseteq 1 .. Len(trace) /\ Len(trace) \in Nat
                /\ AccessedIn(tr1) \subseteq 1 .. Len(tr1) /\ Len(tr1) \in Nat
            BY <2>1, <5>2, Subsets
          <5> QED BY <5>1, <5>3, CountWith
        <4>6. once.hits \in Nat /\ once.misses \in Nat
          BY <3>6, <4>1 DEF Simulated, Counted
        <4> QED BY <3>6, <4>1, <4>4, <4>5, <4>6 DEF Counts
      <3>10. /\ sim' \in Simulated(geom) /\ Holding(geom, trace', sim')
             /\ DistinctIn(geom, trace') => Counts(geom, trace', sim')
        BY <3>1, <3>5, <3>8, <3>9
      <3> QED BY <2>1, <2>2, <3>10 DEF CsimInv
    <2> QED BY <1>1, <2>3, <2>4 DEF Csim!Replay
  <1>2. CASE Csim!End
    BY <1>2 DEF Csim!End, CsimInv
  <1>3. CASE UNCHANGED Csim!vars
    BY <1>3 DEF Csim!vars, CsimInv
  <1> QED BY <1>1, <1>2, <1>3 DEF Csim!Next

\* The model's words for them.
LEMMA SameCache ==
    /\ Csim!Accessed = AccessedIn(trace) /\ Csim!Twice = TwiceIn(trace)
    /\ Csim!Missed = MissedIn(geom, trace) /\ Csim!Evicting = EvictingIn(geom, trace)
    /\ \A o : Csim!SetOf(o) = SetIn(geom, o)
    /\ \A o, k : Csim!Held(o, k) <=> HeldIn(geom, trace, o, k)
    /\ Csim!Distinct <=> DistinctIn(geom, trace)
    /\ \A S : Csim!Cardinality(S) = Cardinality(S)
  <1>1. \A S : Csim!Cardinality(S) = Cardinality(S)
    BY DEF Csim!Cardinality, Cardinality
  <1>2. \A o : Csim!Block(o) = BlockIn(geom, o) /\ Csim!SetOf(o) = SetIn(geom, o)
    BY Zenon DEF Csim!Block, BlockIn, Csim!SetOf, SetIn
  <1>3. Csim!Accessed = AccessedIn(trace)
    BY Zenon DEF Csim!Accessed, AccessedIn
  <1>4. Csim!Twice = TwiceIn(trace)
    BY <1>3 DEF Csim!Twice, AccessedIn, TwiceIn
  <1>5. \A z, m, k : Csim!Recent(z, m, k) = RecentIn(geom, trace, z, m, k)
    <2> SUFFICES ASSUME NEW z, NEW m, NEW k PROVE Csim!Recent(z, m, k) = RecentIn(geom, trace, z, m, k)
      OBVIOUS
    <2> DEFINE J == {j \in AccessedIn(trace) : m < j /\ j < k /\ SetIn(geom, trace[j]) = z}
    <2>1. Csim!Recent(z, m, k) = {Csim!Block(trace[j]) : j \in J}
      BY <1>2, <1>3 DEF Csim!Recent
    <2>2. RecentIn(geom, trace, z, m, k) = {BlockIn(geom, trace[j]) : j \in J}
      BY Zenon DEF RecentIn
    <2> HIDE DEF J
    <2> QED BY <1>2, <2>1, <2>2
  <1>6. \A o, k : Csim!Held(o, k) <=> HeldIn(geom, trace, o, k)
    <2> TAKE o, k
    <2>1. \A m : Csim!Cardinality(Csim!Recent(Csim!SetOf(o), m, k))
                     = Cardinality(RecentIn(geom, trace, SetIn(geom, o), m, k))
      BY <1>1, <1>2, <1>5
    <2> QED BY <1>2, <1>3, <2>1 DEF Csim!Held, HeldIn
  <1>7. Csim!Missed = MissedIn(geom, trace)
    BY <1>3, <1>6, Zenon DEF Csim!Missed, MissedIn
  <1>8. Csim!Evicting = EvictingIn(geom, trace)
    <2>1. \A m : Csim!Cardinality(Csim!Recent(Csim!SetOf(trace[m]), 0, m))
                     = Cardinality(RecentIn(geom, trace, SetIn(geom, trace[m]), 0, m))
      BY <1>1, <1>2, <1>5
    <2> QED BY <1>7, <2>1 DEF Csim!Evicting, EvictingIn
  <1>9. Csim!Distinct <=> DistinctIn(geom, trace)
    BY <1>2, Zenon DEF Csim!Distinct, DistinctIn, IntIn
  <1> QED BY <1>1, <1>2, <1>3, <1>4, <1>6, <1>7, <1>8, <1>9

LEMMA CsimInvLRU == CsimInv => Csim!CsimIsLRU
  <1> SUFFICES ASSUME CsimInv, at \in {"replay", "done"}, Csim!Distinct
               PROVE  /\ sim.misses = Csim!Cardinality(Csim!Missed)
                      /\ sim.evictions = Csim!Cardinality(Csim!Evicting)
                      /\ sim.hits + sim.misses = Csim!Cardinality(Csim!Accessed) + Csim!Cardinality(Csim!Twice)
                      /\ \A set \in DOMAIN sim.lines :
                             {l.tag_bit : l \in sim.lines[set]}
                                 = {Csim!Tag(geom, trace[m].address) :
                                        m \in {m \in Csim!Accessed : /\ Csim!SetOf(trace[m]) = set
                                                                     /\ Csim!Held(trace[m], Len(trace) + 1)}}
    BY Zenon DEF Csim!CsimIsLRU
  <1>1. /\ geom \in Geometries /\ trace \in Seq(Operations) /\ sim \in Simulated(geom)
        /\ DistinctIn(geom, trace) /\ Holding(geom, trace, sim) /\ Counts(geom, trace, sim)
    BY SameCache, Zenon DEF CsimInv
  <1>2. /\ sim.misses = Csim!Cardinality(Csim!Missed)
        /\ sim.evictions = Csim!Cardinality(Csim!Evicting)
        /\ sim.hits + sim.misses = Csim!Cardinality(Csim!Accessed) + Csim!Cardinality(Csim!Twice)
    BY <1>1, SameCache DEF Counts
  <1>3. ASSUME NEW set \in DOMAIN sim.lines
        PROVE  {l.tag_bit : l \in sim.lines[set]}
                   = {Csim!Tag(geom, trace[m].address) :
                          m \in {m \in Csim!Accessed : /\ Csim!SetOf(trace[m]) = set
                                                       /\ Csim!Held(trace[m], Len(trace) + 1)}}
    <2> DEFINE L == sim.lines[set]
               h == HistIn(geom, trace, set)
               Kept == {m \in AccessedIn(trace) : /\ SetIn(geom, trace[m]) = set
                                                  /\ HeldIn(geom, trace, trace[m], Len(trace) + 1)}
    <2>1. set \in Sets(geom) /\ Ages(L, h, geom.E)
      BY <1>1, <1>3 DEF Holding, Simulated, Counted, Sets
    <2>2. \A m \in AccessedIn(trace) : m \in DOMAIN trace /\ trace[m] \in Operations
      BY <1>1 DEF AccessedIn
    <2>3. \A m \in AccessedIn(trace) : SetIn(geom, trace[m]) = set =>
              (TagIn(geom, trace[m]) \in Tags(L) <=> HeldIn(geom, trace, trace[m], Len(trace) + 1))
      <3> SUFFICES ASSUME NEW m \in AccessedIn(trace), SetIn(geom, trace[m]) = set
                   PROVE  TagIn(geom, trace[m]) \in Tags(L) <=> HeldIn(geom, trace, trace[m], Len(trace) + 1)
        OBVIOUS
      <3>1. trace[m] \in Operations /\ m \in DOMAIN trace
        BY <2>2
      <3>2. \A k \in DOMAIN trace :
                IntIn(geom, trace[k]) = IntIn(geom, trace[m]) => BlockIn(geom, trace[k]) = BlockIn(geom, trace[m])
        BY <1>1, <3>1, Zenon DEF DistinctIn
      <3>3. Ages(L, HistIn(geom, trace, SetIn(geom, trace[m])), geom.E)
        BY <2>1
      <3> HIDE DEF L
      <3> QED BY <1>1, <3>1, <3>2, <3>3, HeldIs
    <2>4. \A t \in Tags(L) : \E m \in AccessedIn(trace) : SetIn(geom, trace[m]) = set /\ TagIn(geom, trace[m]) = t
      <3> HIDE DEF L
      <3>1. \A t \in Tags(L) : \E m \in DOMAIN h : h[m] = t
        <4> HIDE DEF h
        <4> QED BY <2>1 DEF Ages, Tags, LastUse
      <3> QED BY <3>1 DEF HistIn
    <2>5. Tags(L) = {TagIn(geom, trace[m]) : m \in Kept}
      <3> HIDE DEF L
      <3> QED BY <2>3, <2>4
    <2>6. Kept = {m \in Csim!Accessed : /\ Csim!SetOf(trace[m]) = set
                                        /\ Csim!Held(trace[m], Len(trace) + 1)}
      BY SameCache
    <2> HIDE DEF Kept
    <2>7. {TagIn(geom, trace[m]) : m \in Kept} = {Csim!Tag(geom, trace[m].address) : m \in Kept}
      BY Zenon DEF TagIn
    <2>8. Tags(L) = {l.tag_bit : l \in sim.lines[set]}
      BY Zenon DEF Tags
    <2> QED BY <2>5, <2>6, <2>7, <2>8, Zenon
  <1> QED BY <1>2, <1>3, Zenon

-----------------------------------------------------------------------------
(* The theorems                                                             *)

LEMMA EachStartsItsOwn ==
    ASSUME Init
    PROVE  /\ program = "jobs" => Jobs!Init
           /\ program = "driver.py" => CacheLab!Init
           /\ program = "sdriver.pl" => ShellLab!Init
           /\ program = "csim" => Csim!Init
  BY Zenon DEF Init

LEMMA EachRunsItsOwn ==
    ASSUME [Next]_vars
    PROVE  /\ program' = program
           /\ program = "jobs" => [Jobs!Next]_(Jobs!vars)
           /\ program = "driver.py" => [CacheLab!Next]_(CacheLab!vars)
           /\ program = "sdriver.pl" => [ShellLab!Next]_(ShellLab!vars)
           /\ program = "csim" => [Csim!Next]_(Csim!vars)
  <1>1. CASE Next
    BY <1>1 DEF Next
  <1>2. CASE UNCHANGED vars
    BY <1>2 DEF vars, jobVars, cacheVars, traceVars, csimVars,
                Jobs!vars, CacheLab!vars, ShellLab!vars, Csim!vars
  <1> QED BY <1>1, <1>2

ListingJobs == program = "jobs" => JobInv

\* tsh.c: whatever processes come and go, stop and continue, and for a list of any length:
\* a job's pid finds it and no other, so does its id until ids start again from 1 while jobs
\* are left, no two jobs are in the foreground, and ids start from 1 when the list is empty.
THEOREM JobIdsAgree == Spec => []JobIds
  <1>1. Init => ListingJobs
    BY EachStartsItsOwn, InitJobInv DEF ListingJobs
  <1>2. ListingJobs /\ [Next]_vars => ListingJobs'
    BY EachRunsItsOwn, StepJobInv DEF ListingJobs
  <1>3. ListingJobs => JobIds
    BY JobInvJobIds DEF ListingJobs, JobIds
  <1> QED BY <1>1, <1>2, <1>3, PTL DEF Spec

PlayingTrace == program = "sdriver.pl" => TraceInv

\* sdriver.pl: for a pipe of any size and a trace of any length: it and the shell wait for
\* each other only where the property lists it, it is killed only by a line after a signal, and
\* at its end the shell is reaped and all that it wrote in answer to the lines sent is printed.
THEOREM TraceIsPlayed == Spec => []TracePlayed
  <1>1. Init => PlayingTrace
    BY EachStartsItsOwn, InitTraceInv DEF PlayingTrace
  <1>2. PlayingTrace /\ [Next]_vars => PlayingTrace'
    BY EachRunsItsOwn, StepTraceInv DEF PlayingTrace
  <1>3. PlayingTrace => TracePlayed
    BY TraceInvPlayed DEF PlayingTrace, TracePlayed
  <1> QED BY <1>1, <1>2, <1>3, PTL DEF Spec

\* tsh.c and sdriver.pl: both.
THEOREM ShellInvariant == Spec => []ShellInv
  BY JobIdsAgree, TraceIsPlayed, PTL DEF ShellInv

MarkingCache == program = "driver.py" => CacheInv

\* driver.py: whatever the programs it runs print, a function that is wrong or was stopped
\* has no points, a correct one the more the fewer its misses, all within the points there are,
\* and there is no total without all of the results.
THEOREM CacheMarked == Spec => []CacheMarks
  <1>1. Init => MarkingCache
    BY EachStartsItsOwn, InitCacheInv DEF MarkingCache
  <1>2. MarkingCache /\ [Next]_vars => MarkingCache'
    BY EachRunsItsOwn, StepCacheInv DEF MarkingCache
  <1>3. MarkingCache => CacheMarks
    BY CacheInvMarks DEF MarkingCache, CacheMarks
  <1> QED BY <1>1, <1>2, <1>3, PTL DEF Spec

Simulating == program = "csim" => CsimInv

\* csim.c: for any trace, and any cache of fewer bits of index and offset than an int has, it
\* counts the misses, evictions and hits that a cache of the full addresses has which evicts the
\* block used longest ago, and its lines are the blocks that cache holds, as long as no two
\* blocks of the trace are one when their addresses are taken as ints.
THEOREM CsimIsLRUAlways == Spec => []CsimIsLRU
  <1>1. Init => Simulating
    BY EachStartsItsOwn, InitCsimInv DEF Simulating
  <1>2. Simulating /\ [Next]_vars => Simulating'
    BY EachRunsItsOwn, StepCsimInv DEF Simulating
  <1>3. Simulating => CsimIsLRU
    BY CsimInvLRU DEF Simulating, CsimIsLRU
  <1> QED BY <1>1, <1>2, <1>3, PTL DEF Spec
=============================================================================
