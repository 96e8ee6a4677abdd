----------------------------- MODULE ShellJobs -----------------------------
(***************************************************************************)
(* The job control of myshell.c: the job list, the current job, and the    *)
(* shell's record of each process, against the processes themselves.       *)
(*                                                                         *)
(* A job is known by its pgid, a process structure by its pid (pids are    *)
(* not reused).  The children, the terminal and waitpid are the kernel's;  *)
(* a signal from the keyboard is an Exit or a Stop of the processes it     *)
(* reaches.  What a pipeline does to the processes in it is in the         *)
(* fairness only: see FreeToEnd.                                           *)
(***************************************************************************)
EXTENDS Naturals, Sequences, FiniteSets

CONSTANTS
    MaxPid,     \* bound: number of processes the shell may fork
    Pipelines,  \* numbers of commands in a pipeline
    Builtins    \* the internal commands in use

ASSUME ShellAssumption ==
    /\ MaxPid \in Nat
    /\ Pipelines \subseteq 1 .. MaxPid
    /\ Builtins \subseteq {"jobs", "bg", "fg", "exit"}

VARIABLES
    head,     \* the job list, first job first
    current,  \* the job that fg and bg take by default
    list,     \* the processes of each job, last forked first
    status,   \* the shell's record of each process
    pc,       \* where the shell is
    cmd,      \* the command line it executes
    frame,    \* the locals of wait_job
    proc,     \* the processes
    tty       \* the foreground process group

vars == <<head, current, list, status, pc, cmd, frame, proc, tty>>
jobs == <<head, current, list, status>>

Pids == 1 .. MaxPid
Shell == 0     \* the shell's pid and process group
NULL == 0      \* no job
Other == MaxPid + 1    \* a number that is no child's pid
RUNNING == 0
STOPPED == 1
TERMINATED == 2

\* The numbers that atoi may make of an argument; of a word it makes 0.
Numbers == {0} \cup Pids \cup {Other}

Commands ==
    [op : {"run"}, count : Pipelines, async : BOOLEAN]
    \cup [op : Builtins \ {"bg", "fg"}]
    \cup [op : Builtins \cap {"bg", "fg"}, argc : {1, 3}]
    \cup [op : Builtins \cap {"bg", "fg"}, argc : {2}, arg : Numbers]

\* What waitpid may leave in its status word; before the first success it
\* holds whatever was on the stack.
Words == {"exited", "stopped", "running"}

Unborn == {p \in Pids : proc[p].life = "unborn"}
Children == {p \in Pids : proc[p].life \in {"running", "stopped", "zombie"}}
Members(g) == {p \in Children : proc[p].group = g}
Listed == {head[k] : k \in 1 .. Len(head)}
InJob(j) == {list[j][k] : k \in 1 .. Len(list[j])}
Owner(p) == {j \in Listed : p \in InJob(j)}
Drop(j) == SelectSeq(head, LAMBDA i : i # j)

TypeOK ==
    /\ head \in Seq(Pids) /\ current \in {NULL} \cup Pids
    /\ list \in [Pids -> Seq(Pids)] /\ status \in [Pids -> 0 .. 2]
    /\ pc \in {"prompt", "reap", "fork", "setpgid", "resume", "foreground", "wait",
              "exited", "crashed"}
    /\ cmd \in Commands \cup {<<>>}
    /\ frame \in [jb : {NULL} \cup Pids, ps : Seq(Pids), word : Words \cup {"garbage"},
                  terminated : BOOLEAN, stopped : BOOLEAN]
    /\ proc \in [Pids -> [life : {"unborn", "running", "stopped", "zombie", "reaped"},
                          group : {Shell} \cup Pids, execed : BOOLEAN, news : BOOLEAN]]
    /\ tty \in {Shell} \cup Pids

Unforked == [life |-> "unborn", group |-> Shell, execed |-> FALSE, news |-> FALSE]
Reaped == [Unforked EXCEPT !.life = "reaped"]

NoFrame == [jb |-> NULL, ps |-> <<>>, word |-> "garbage", terminated |-> TRUE, stopped |-> TRUE]

Init ==
    /\ head = <<>> /\ current = NULL
    /\ list = [p \in Pids |-> <<>>] /\ status = [p \in Pids |-> RUNNING]
    /\ pc = "prompt" /\ cmd = <<>> /\ frame = NoFrame
    /\ proc = [p \in Pids |-> Unforked]
    /\ tty = Shell

-----------------------------------------------------------------------------
\* The children.

\* The child has become its command: from here on setpgid refuses it.
Exec(p) ==
    /\ proc[p].life = "running" /\ ~proc[p].execed
    /\ proc' = [proc EXCEPT ![p].execed = TRUE]
    /\ UNCHANGED <<jobs, pc, cmd, frame, tty>>

\* End of a command, by itself, by a signal, or because it was not found.
Exit(p) ==
    /\ proc[p].life = "running"
    /\ proc' = [proc EXCEPT ![p].life = "zombie", ![p].news = FALSE]
    /\ UNCHANGED <<jobs, pc, cmd, frame, tty>>

\* Someone else's SIGKILL.
Kill(p) ==
    /\ proc[p].life = "stopped"
    /\ proc' = [proc EXCEPT ![p].life = "zombie", ![p].news = FALSE]
    /\ UNCHANGED <<jobs, pc, cmd, frame, tty>>

Stop(p) ==
    /\ proc[p].life = "running"
    /\ proc' = [proc EXCEPT ![p].life = "stopped", ![p].news = TRUE]
    /\ UNCHANGED <<jobs, pc, cmd, frame, tty>>

-----------------------------------------------------------------------------
\* The shell.

change_status(p, word) ==
    status' = [status EXCEPT ![p] = CASE word = "exited" -> TERMINATED
                                      [] word = "stopped" -> STOPPED
                                      [] OTHER -> RUNNING]

AllAre(j, s) == \A p \in InJob(j) : status'[p] = s

Place(j) == CHOOSE i \in 1 .. Len(head) : head[i] = j
Before(i, j) == Place(i) < Place(j)
Following(j) == IF Place(j) < Len(head) THEN head[Place(j) + 1] ELSE NULL

\* Mutant: the job goes with the first of its processes.
update_process_status_First(p) ==
    \E cur \in Owner(p) :
       /\ change_status(p, "exited")
       /\ head' = Drop(cur)
       /\ UNCHANGED <<current, list, pc>>

\* Mutant: terminated is not set again for the next job of the list.
update_process_status_NoReset(p) ==
    \/ /\ Owner(p) = {}
       /\ pc' = "crashed"
       /\ UNCHANGED <<head, current, list, status>>
    \/ \E cur \in Owner(p) :
          /\ change_status(p, "exited")
          /\ IF \A j \in Listed : j = cur \/ Before(j, cur) => AllAre(j, TERMINATED)
                THEN /\ current' = IF current = cur THEN Following(cur) ELSE current
                     /\ head' = Drop(cur)
                ELSE UNCHANGED <<head, current>>
          /\ UNCHANGED <<list, pc>>

\* A pid that no listed job owns ends the search with cur = NULL, which is
\* dereferenced after the message.
update_process_status(p) ==
    \/ /\ Owner(p) = {}
       /\ pc' = "crashed"
       /\ UNCHANGED <<head, current, list, status>>
    \/ \E cur \in Owner(p) :
          /\ change_status(p, "exited")
          /\ IF AllAre(cur, TERMINATED)
                THEN /\ current' = IF current = cur THEN Following(cur) ELSE current
                     /\ head' = Drop(cur)
                ELSE UNCHANGED <<head, current>>
          /\ UNCHANGED <<list, pc>>

ReadCommand ==
    /\ pc = "prompt"
    /\ \E c \in Commands :
          /\ c.op = "run" => c.count <= Cardinality(Unborn)
          /\ cmd' = c
    /\ pc' = "reap"
    /\ UNCHANGED <<jobs, frame, proc, tty>>

reap(p) ==
    /\ pc = "reap" /\ proc[p].life = "zombie"
    /\ proc' = [proc EXCEPT ![p] = Reaped]
    /\ update_process_status(p)
    /\ UNCHANGED <<cmd, frame, tty>>

\* The line is forgotten when the next prompt is shown.
EndOfCommand == cmd' = IF pc' = "prompt" THEN <<>> ELSE cmd

\* waitpid finds nothing more; the command itself starts.
Dispatch ==
    /\ pc = "reap" /\ \A p \in Pids : proc[p].life # "zombie"
    /\ pc' = CASE cmd.op = "run" -> "fork"
               [] cmd.op \in {"bg", "fg"} -> "resume"
               [] cmd.op = "exit" -> "exited"
               [] OTHER -> "prompt"
    /\ frame' = NoFrame /\ EndOfCommand
    /\ UNCHANGED <<jobs, proc, tty>>

\* frame.ps holds what exec_job has forked so far; the first pid is the pgid.
Fork ==
    /\ pc = "fork"
    /\ \E p \in Unborn :
          /\ \A q \in Unborn : p <= q
          /\ LET first == frame.ps = <<>>
                 j == IF first THEN p ELSE head[1]
             IN  /\ proc' = [proc EXCEPT ![p].life = "running"]
                 /\ head' = IF first THEN <<p>> \o head ELSE head
                 /\ list' = [list EXCEPT ![j] = <<p>> \o @]
                 /\ status' = [status EXCEPT ![p] = RUNNING]
                 /\ frame' = [frame EXCEPT !.jb = IF first THEN p ELSE @, !.ps = <<p>> \o @]
    /\ pc' = "setpgid"
    /\ UNCHANGED <<current, cmd, tty>>

\* setpgid fails once the child has called exec, and for a group that does
\* not exist; the result is ignored.
SetPgid ==
    /\ pc = "setpgid"
    /\ LET p == Head(frame.ps)
           ok == ~proc[p].execed /\ (p = frame.jb \/ Members(frame.jb) # {})
       IN  proc' = IF ok THEN [proc EXCEPT ![p].group = frame.jb] ELSE proc
    /\ pc' = IF Len(frame.ps) < cmd.count THEN "fork"
             ELSE IF cmd.async THEN "prompt" ELSE "foreground"
    /\ frame' = IF pc' = "prompt" THEN NoFrame ELSE frame
    /\ EndOfCommand
    /\ UNCHANGED <<jobs, tty>>

tcsetpgrp(g) == tty' = IF g = Shell \/ Members(g) # {} THEN g ELSE tty

\* wait_job up to its loop.
Foreground ==
    /\ pc = "foreground" /\ pc' = "wait"
    /\ tcsetpgrp(frame.jb)
    /\ frame' = [NoFrame EXCEPT !.jb = frame.jb, !.ps = list[frame.jb]]
    /\ UNCHANGED <<jobs, cmd, proc>>

\* waitpid(pid, &status, WUNTRACED): for a process already reaped it fails and
\* the status word keeps what it held.
waitpid(p, word) ==
    \/ /\ proc[p].life = "zombie" /\ word = "exited"
       /\ proc' = [proc EXCEPT ![p] = Reaped]
    \/ /\ proc[p].life = "stopped" /\ proc[p].news /\ word = "stopped"
       /\ proc' = [proc EXCEPT ![p].news = FALSE]
    \/ /\ proc[p].life = "reaped" /\ frame.word \in {"garbage", word}
       /\ UNCHANGED proc

\* Mutant: waitpid is called without WUNTRACED, and tells of no stop.
WaitOne_NoUntraced ==
    /\ pc = "wait" /\ frame.ps # <<>>
    /\ \E word \in Words \ {"stopped"} :
          /\ waitpid(Head(frame.ps), word)
          /\ change_status(Head(frame.ps), word)
          /\ frame' = [frame EXCEPT !.ps = Tail(@), !.word = word,
                                    !.terminated = @ /\ word = "exited",
                                    !.stopped = FALSE]
    /\ UNCHANGED <<head, current, list, pc, cmd, tty>>

WaitOne ==
    /\ pc = "wait" /\ frame.ps # <<>>
    /\ \E word \in Words :
          /\ waitpid(Head(frame.ps), word)
          /\ change_status(Head(frame.ps), word)
          /\ frame' = [frame EXCEPT !.ps = Tail(@), !.word = word,
                                    !.terminated = @ /\ word = "exited",
                                    !.stopped = @ /\ word = "stopped"]
    /\ UNCHANGED <<head, current, list, pc, cmd, tty>>

\* The job dropped is the first of the list, whichever job was waited for.
WaitEnd ==
    /\ pc = "wait" /\ frame.ps = <<>>
    /\ IF frame.terminated
          THEN head' = Tail(head) /\ UNCHANGED current
          ELSE UNCHANGED head /\ current' = IF frame.stopped THEN frame.jb ELSE current
    /\ tcsetpgrp(Shell)
    /\ pc' = "prompt" /\ frame' = NoFrame /\ EndOfCommand
    /\ UNCHANGED <<list, status, proc>>

mark_job_running(j) ==
    status' = [p \in Pids |-> IF p \in InJob(j) THEN STOPPED ELSE status[p]]

\* SIGCONT to a group: stopped members run, and an unread report is withdrawn.
kill_SIGCONT(g) ==
    proc' = [p \in Pids |-> IF p \in Members(g) /\ proc[p].life = "stopped"
                              THEN [proc[p] EXCEPT !.life = "running", !.news = FALSE]
                              ELSE proc[p]]

\* What pgid holds; with more than one argument it is never assigned.
Targets ==
    IF cmd.argc = 2 THEN {cmd.arg}
    ELSE IF cmd.argc > 2 THEN Numbers
    ELSE IF current # NULL THEN {current}
    ELSE IF head # <<>> THEN {head[1]}
    ELSE {}

\* The answers of kill(-g, SIGCONT).  Group 0 is the shell's own, and whether
\* there is a group of another number is not the shell's doing.
Reached(g) == IF g = Shell THEN {TRUE} ELSE IF g = Other THEN BOOLEAN ELSE {Members(g) # {}}

\* get_job's result is used whatever it is: NULL is dereferenced.
resume ==
    /\ pc = "resume"
    /\ \/ /\ Targets = {}
          /\ pc' = "prompt" /\ UNCHANGED <<status, frame, proc>>
       \/ \E g \in Targets :
             \/ /\ FALSE \in Reached(g)
                /\ pc' = "prompt" /\ UNCHANGED <<status, frame, proc>>
             \/ /\ TRUE \in Reached(g)
                /\ kill_SIGCONT(g)
                /\ IF g \in Listed
                      THEN /\ mark_job_running(g)
                           /\ pc' = IF cmd.op = "fg" THEN "foreground" ELSE "prompt"
                           /\ frame' = [NoFrame EXCEPT !.jb = IF cmd.op = "fg" THEN g ELSE NULL]
                      ELSE pc' = "crashed" /\ UNCHANGED <<status, frame>>
    /\ EndOfCommand
    /\ UNCHANGED <<head, current, list, tty>>

\* The shell's process is gone.
Gone == pc \in {"exited", "crashed"} /\ UNCHANGED vars

ShellStep ==
    \/ ReadCommand \/ Dispatch \/ Fork \/ SetPgid \/ Foreground \/ WaitOne \/ WaitEnd \/ resume
    \/ \E p \in Pids : reap(p)

Next ==
    \/ ShellStep
    \/ \E p \in Pids : Exec(p) \/ Exit(p) \/ Stop(p) \/ Kill(p)
    \/ Gone

Spec == Init /\ [][Next]_vars

\* The processes of p's pipeline that were forked before it and after it: p
\* reads what the former write and writes what the latter read.
Upstream(p) ==
    {q \in Pids : \E j \in Pids : \E m \in 2 .. Len(list[j]) : \E k \in 1 .. m - 1 :
                      list[j][k] = p /\ list[j][m] = q}
Downstream(p) == {q \in Pids : p \in Upstream(q)}

\* p meets the end of its input, and its output is taken.  The shell never
\* closes the read ends of its pipes, so a process whose reader has gone gets
\* no SIGPIPE and may block for ever.
FreeToEnd(p) ==
    /\ \A q \in Upstream(p) : proc[q].life \in {"zombie", "reaped"}
    /\ \A q \in Downstream(p) : proc[q].life = "running"

\* The shell runs, and a command ends some day if its pipeline lets it.
FairSpec ==
    Spec /\ WF_vars(ShellStep) /\ \A p \in Pids : WF_vars(Exit(p) /\ FreeToEnd(p))

-----------------------------------------------------------------------------
\* Properties.

\* Every child that is still to be reaped belongs to exactly one listed job:
\* update_process_status will find the pid that reap hands it.
ChildrenListed == \A p \in Children : Cardinality(Owner(p)) = 1

\* A job that is over is not listed any more: whenever the shell reads a
\* command, each job of the list has a process that was not reaped, by reap or
\* by wait_job.  The exception is a job that bg resumed when one of its
\* processes had ended: mark_job_running records that one as stopped.
JobsEnd ==
    pc = "prompt" => \A j \in Listed : \E p \in InJob(j) :
                         proc[p].life # "reaped" \/ status[p] = STOPPED

\* A process of the job ended or was stopped before one that feeds it, or
\* one that feeds it is stopped.
Disturbed(j) ==
    \E q \in InJob(j) : \E p \in Upstream(q) :
        \/ proc[p].life = "stopped"
        \/ proc[p].life = "running" /\ proc[q].life # "running"

\* get_job found no job of the number given to bg or fg, and resume used it.
NamedNoJob == pc = "crashed" /\ cmd.op \in {"bg", "fg"} /\ cmd.argc # 1

\* Whatever is started in the foreground, the shell comes back to its prompt.
\* Excepted are a wait for a pipeline of which only a part ended or was stopped
\* (its writers may hang), and a bg whose argument is no job, which brings the
\* shell down.  Another group has the terminal only while wait_job waits for
\* that very job.
PromptReturns ==
    /\ [](tty # Shell => pc = "wait" /\ tty = frame.jb)
    /\ \/ []<>(pc \in {"prompt", "exited"} \/ NamedNoJob)
       \/ <>[](pc = "wait" /\ Disturbed(frame.jb))
=============================================================================
