---------------------------- MODULE ProxyDriver -----------------------------
(***************************************************************************)
(* driver.sh, which marks the proxy: it starts the web server tiny, the    *)
(* proxy and a server that never answers, each on a port that was free a   *)
(* moment ago, fetches files with curl and compares them.  The proxy that  *)
(* is marked is of any kind; other users of the machine take ports, too.   *)
(***************************************************************************)
EXTENDS Integers, Sequences, FiniteSets, FiniteSetsExt

CONSTANTS PORT_MAX,             \* the ports are 1 .. PORT_MAX
          Starts,               \* those of them that RANDOM may hit on
          MAX_PORT_TRIES,
          BASIC_LIST, CACHE_LIST,       \* sequences of files
          FETCH_FILE,
          MaxTaken              \* bound: ports in use by others

VARIABLES
    at,         \* "script", "timed out" or "exit"; "no file" when one that it needs is not there
    todo,       \* the commands of Script that are left
    proxy,      \* [concurrent, caching]: what the proxy can do
    proc,       \* of each server: "none", "starting", "up", "ending"; dead ones are "none"
    port,       \* of each server: its number, -1 for none; 0 before free_port() and after kill
    tries,      \* of wait_for_port_use()
    others,     \* the ports in use by others
    cached,     \* files the proxy holds
    busy,       \* the proxy is with the server that never answers
    nopFetch,   \* the background fetch: "none", "running", or "over" when its time is up
    dirs,       \* the files of .proxy and .noproxy
    numSucceeded, score,
    disturbed,  \* another took a port between free_port() and bind(), or the wait was too short
    late        \* the background fetch reached the proxy after the one it was to hold up

vars == <<at, todo, proxy, proc, port, tries, others, cached, busy, nopFetch, dirs,
          numSucceeded, score, disturbed, late>>
world == <<proxy, others, disturbed>>

Servers == {"tiny", "proxy", "nop"}
NoFiles == [d \in {"proxy", "noproxy"} |-> {}]

-----------------------------------------------------------------------------
(* The script, a command a step                                             *)

Cmd(do, arg) == [do |-> do, arg |-> arg]
StartServer(s) == <<Cmd("free_port", s), Cmd("launch", s), Cmd("wait", s)>>
KillServer(s) == <<Cmd("kill", s), Cmd("wait for the end", s)>>
Concat(ss) == LET cat[n \in 0 .. Len(ss)] == IF n = 0 THEN <<>> ELSE cat[n - 1] \o ss[n]
              IN  cat[Len(ss)]

Basic ==
    StartServer("tiny") \o StartServer("proxy")
      \o Concat([n \in DOMAIN BASIC_LIST |->
            <<Cmd("clear_dirs", ""), Cmd("download_proxy", BASIC_LIST[n]),
              Cmd("download_noproxy", BASIC_LIST[n]), Cmd("diff basic", BASIC_LIST[n])>>])
      \o KillServer("tiny") \o KillServer("proxy")

\* A mutant: the fetch that is to hold up the proxy comes last.
ConcurrencyLate ==
    StartServer("tiny") \o StartServer("proxy") \o StartServer("nop")
      \o <<Cmd("clear_dirs", ""), Cmd("download_noproxy", FETCH_FILE),
           Cmd("download_proxy", FETCH_FILE), Cmd("download_nop &", ""),
           Cmd("diff concurrency", FETCH_FILE)>>
      \o KillServer("tiny") \o KillServer("proxy") \o KillServer("nop")

Concurrency ==
    StartServer("tiny") \o StartServer("proxy") \o StartServer("nop")
      \o <<Cmd("clear_dirs", ""), Cmd("download_nop &", ""), Cmd("download_noproxy", FETCH_FILE),
           Cmd("download_proxy", FETCH_FILE), Cmd("diff concurrency", FETCH_FILE)>>
      \o KillServer("tiny") \o KillServer("proxy") \o KillServer("nop")

Cache ==
    StartServer("tiny") \o StartServer("proxy") \o <<Cmd("clear_dirs", "")>>
      \o [n \in DOMAIN CACHE_LIST |-> Cmd("download_proxy", CACHE_LIST[n])]
      \o KillServer("tiny")
      \o <<Cmd("download_cached", FETCH_FILE), Cmd("diff cache", FETCH_FILE)>>
      \o KillServer("proxy")

Script == Basic \o Concurrency \o Cache

Init ==
    /\ at \in {"script", "no file"} /\ todo = Script
    /\ proxy \in [concurrent : BOOLEAN, caching : BOOLEAN]
    /\ proc = [s \in Servers |-> "none"] /\ port = [s \in Servers |-> 0] /\ tries = 0
    /\ others = {}
    /\ cached = {} /\ busy = FALSE /\ nopFetch = "none" /\ dirs = NoFiles
    /\ numSucceeded = 0 /\ score = <<>>
    /\ disturbed = FALSE /\ late = FALSE

-----------------------------------------------------------------------------
InUse == others \cup {port[s] : s \in {s \in Servers : proc[s] \in {"up", "ending"}}}

Now(do) == at = "script" /\ todo # <<>> /\ Head(todo).do = do
Arg == Head(todo).arg
Goes == todo' = Tail(todo) /\ UNCHANGED at

\* free_port(): from a random one upwards, the first that is not in use; -1 at the end.
free_port(start) ==
    LET free == (start .. PORT_MAX) \ InUse
    IN  /\ Now("free_port") /\ Goes
        /\ port' = [port EXCEPT ![Arg] = IF free = {} THEN -1 ELSE Min(free)]
        /\ UNCHANGED <<world, proc, tries, cached, busy, nopFetch, dirs, numSucceeded, score, late>>

Launch ==
    /\ Now("launch") /\ Goes
    /\ proc' = [proc EXCEPT ![Arg] = "starting"] /\ tries' = 0
    /\ cached' = IF Arg = "proxy" THEN {} ELSE cached
    /\ busy' = IF Arg = "proxy" THEN FALSE ELSE busy
    /\ UNCHANGED <<world, port, nopFetch, dirs, numSucceeded, score, late>>

\* A server binds its port, or ends because it cannot.
Bind(s) ==
    /\ at = "script" /\ proc[s] = "starting"
    /\ proc' = [proc EXCEPT ![s] = IF port[s] \in (1 .. PORT_MAX) \ InUse THEN "up" ELSE "none"]
    /\ disturbed' = (disturbed \/ proc'[s] = "none")
    /\ UNCHANGED <<at, todo, proxy, port, tries, others, cached, busy, nopFetch, dirs,
                   numSucceeded, score, late>>

\* wait_for_port_use(): any user of the port will do.  After the last try the driver
\* signals itself, says so in its handler, and ends; what it has started stays.
WaitForPort ==
    /\ Now("wait")
    /\ IF port[Arg] \in InUse
       THEN Goes /\ disturbed' = (disturbed \/ proc[Arg] # "up") /\ UNCHANGED tries
       ELSE /\ tries' = tries + 1
            /\ at' = IF tries + 1 = MAX_PORT_TRIES THEN "timed out" ELSE at
            /\ disturbed' = (disturbed \/ tries + 1 = MAX_PORT_TRIES)
            /\ UNCHANGED todo
    /\ UNCHANGED <<proxy, proc, port, others, cached, busy, nopFetch, dirs, numSucceeded, score, late>>

\* Another user's program.
OtherBinds(p) ==
    /\ at = "script" /\ p \notin InUse /\ Cardinality(others) < MaxTaken
    /\ others' = others \cup {p}
    /\ UNCHANGED <<at, todo, proxy, proc, port, tries, cached, busy, nopFetch, dirs,
                   numSucceeded, score, disturbed, late>>

-----------------------------------------------------------------------------
(* Fetches.  curl gives up after a while and leaves no file then.           *)

clear_dirs ==
    /\ Now("clear_dirs") /\ Goes
    /\ dirs' = NoFiles
    /\ UNCHANGED <<world, proc, port, tries, cached, busy, nopFetch, numSucceeded, score, late>>

\* What a fetch through the proxy brings: nothing when it is not there, or is with
\* another client and serves one at a time, or has neither the file nor tiny.
Brings(file) ==
    proc["proxy"] = "up" /\ ~(busy /\ ~proxy.concurrent)
        /\ (file \in cached \/ proc["tiny"] = "up")

Put(dir, file) == [dirs EXCEPT ![dir] = @ \cup {file}]

download_proxy(do, dir) ==
    /\ Now(do) /\ Goes
    /\ dirs' = IF Brings(Arg) THEN Put(dir, Arg) ELSE dirs
    /\ cached' = IF Brings(Arg) /\ proxy.caching THEN cached \cup {Arg} ELSE cached
    /\ late' = (late \/ (nopFetch = "running" /\ proc["nop"] = "up" /\ ~busy))
    /\ UNCHANGED <<world, proc, port, tries, busy, nopFetch, numSucceeded, score>>

download_noproxy ==
    /\ Now("download_noproxy") /\ Goes
    /\ dirs' = IF proc["tiny"] = "up" THEN Put("noproxy", Arg) ELSE dirs
    /\ UNCHANGED <<world, proc, port, tries, cached, busy, nopFetch, numSucceeded, score, late>>

\* The fetch from the server that never answers runs in the background: when it gets to
\* the proxy, and when it gives up, is up to the scheduler.
download_nop ==
    /\ Now("download_nop &") /\ Goes
    /\ nopFetch' = "running"
    /\ UNCHANGED <<world, proc, port, tries, cached, busy, dirs, numSucceeded, score, late>>

NopConnects ==
    /\ at = "script" /\ nopFetch = "running" /\ ~busy /\ proc["proxy"] = "up"
    /\ busy' = (proc["nop"] = "up") /\ nopFetch' = IF busy' THEN "running" ELSE "over"
    /\ UNCHANGED <<world, at, todo, proc, port, tries, cached, dirs, numSucceeded, score, late>>

NopGivesUp ==                   \* the proxy still waits for the answer
    /\ at = "script" /\ nopFetch = "running" /\ (busy \/ proc["proxy"] # "up")
    /\ nopFetch' = "over"
    /\ UNCHANGED <<world, at, todo, proc, port, tries, cached, busy, dirs, numSucceeded, score, late>>

-----------------------------------------------------------------------------
(* Marks: a file that is missing on either side differs                     *)

Same(file, a, b) == file \in dirs[a] /\ file \in dirs[b]

Diff ==
    /\ \/ /\ Now("diff basic")
          /\ numSucceeded' = numSucceeded + (IF Same(Arg, "proxy", "noproxy") THEN 1 ELSE 0)
          /\ score' = score
       \/ /\ Now("diff concurrency")
          /\ score' = <<(40 * numSucceeded) \div Len(BASIC_LIST),
                        IF Same(Arg, "proxy", "noproxy") THEN 15 ELSE 0>>
          /\ UNCHANGED numSucceeded
       \/ /\ Now("diff cache")                  \* with the original
          /\ score' = Append(score, IF Arg \in dirs["noproxy"] THEN 15 ELSE 0)
          /\ UNCHANGED numSucceeded
    /\ Goes
    /\ UNCHANGED <<world, proc, port, tries, cached, busy, nopFetch, dirs, late>>

\* kill: SIGTERM; a server that runs ends of it, some time later.
Kill ==
    /\ Now("kill") /\ Goes
    /\ proc' = [proc EXCEPT ![Arg] = IF @ = "up" THEN "ending" ELSE "none"]
    /\ UNCHANGED <<world, port, tries, cached, busy, nopFetch, dirs, numSucceeded, score, late>>

End(s) ==
    /\ at = "script" /\ proc[s] = "ending"
    /\ proc' = [proc EXCEPT ![s] = "none"]
    /\ UNCHANGED <<world, at, todo, port, tries, cached, busy, nopFetch, dirs, numSucceeded, score, late>>

\* wait: until the server has ended.  Its port is of no more use.
WaitForEnd ==
    /\ Now("wait for the end") /\ Goes
    /\ proc[Arg] = "none"
    /\ port' = [port EXCEPT ![Arg] = 0] /\ tries' = 0
    /\ UNCHANGED <<world, proc, cached, busy, nopFetch, dirs, numSucceeded, score, late>>

Exit ==
    /\ at = "script" /\ todo = <<>>
    /\ at' = "exit"
    /\ UNCHANGED <<todo, world, proc, port, tries, cached, busy, nopFetch, dirs, numSucceeded, score, late>>

\* The next run begins with killall: no server of the last one is left.
RunAgain ==
    /\ at # "script"
    /\ at' \in {"script", "no file"} /\ todo' = Script
    /\ proc' = [s \in Servers |-> "none"] /\ port' = [s \in Servers |-> 0] /\ tries' = 0
    /\ cached' = {} /\ busy' = FALSE /\ nopFetch' = "none" /\ dirs' = NoFiles
    /\ numSucceeded' = 0 /\ score' = <<>> /\ disturbed' = FALSE /\ late' = FALSE
    /\ UNCHANGED <<proxy, others>>

Driver ==
    \/ \E start \in Starts : free_port(start)
    \/ Launch \/ WaitForPort
    \/ clear_dirs \/ download_noproxy \/ download_nop
    \/ download_proxy("download_proxy", "proxy") \/ download_proxy("download_cached", "noproxy")
    \/ Diff \/ Kill \/ WaitForEnd \/ Exit

Next ==
    \/ Driver \/ RunAgain
    \/ \E s \in Servers : Bind(s) \/ End(s)
    \/ \E p \in 1 .. PORT_MAX : OtherBinds(p)
    \/ NopConnects \/ NopGivesUp

Spec == Init /\ [][Next]_vars /\ WF_vars(Driver) /\ \A s \in Servers : WF_vars(End(s))

-----------------------------------------------------------------------------
(* Properties                                                               *)

\* Left alone by the other users, a proxy gets the marks for what it can do and no
\* others; but when the background fetch is late, one that serves its clients one
\* after the other is marked as concurrent.
MarksEarned == ~disturbed =>
    /\ Len(score) >= 2 => score[1] = 40 /\ score[2] = IF proxy.concurrent \/ late THEN 15 ELSE 0
    /\ Len(score) >= 3 => score[3] = IF proxy.caching THEN 15 ELSE 0
    /\ at = "exit" => Len(score) = 3

\* Every server that was started is dead when the marks are printed, and none shares a
\* port with another.
AllKilled ==
    /\ at = "exit" => \A s \in Servers : proc[s] = "none"
    /\ \A s, t \in Servers : s # t /\ proc[s] = "up" /\ proc[t] = "up" => port[s] # port[t]

\* The driver comes to an end, with or without marks, whatever the servers do.
DriverEnds == [](at = "script" => <>(at # "script"))
=============================================================================
