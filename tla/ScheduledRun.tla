----------------------------- MODULE ScheduledRun -----------------------------
(***************************************************************************)
(* operations/scheduling.py, windows_scheduler.py and the scripts that     *)
(* call them: a wrapper runs one cycle in a child process, asks for the    *)
(* status, publishes one envelope and returns the exit code of the cycle.  *)
(* It is started by the Windows task, which has a limit of its own, or by  *)
(* hand.  Registrations of the task run beside each other.                 *)
(***************************************************************************)
EXTENDS Integers, FiniteSets, Absent

CONSTANTS
    Invocation,       \* starts of run_scheduled_observatory.py
    ByTask,           \* those the Windows task makes, one after the other
    CycleExit,        \* exit codes of run_daily_observatory (EXIT_BY_STATUS, 0, 9)
    ProcessTimeout,   \* process_timeout_seconds, in ticks
    Registrar,        \* processes that register the task
    Plan,             \* task definitions, build_task_xml of a configuration
    LastTick          \* bound: the last tick of the clock

ASSUME ScheduleAssumption ==
    /\ ByTask \subseteq Invocation
    /\ CycleExit \subseteq Nat \ {124, 125}
    /\ ProcessTimeout \in Nat \ {0} /\ LastTick \in Nat
    /\ None \notin Plan \cup Nat

VARIABLES
    tick,
    wrapper,          \* the locals of run_scheduled_cycle
    envelope,         \* the published envelopes
    returned,         \* the exit codes of the wrapper
    task,             \* the registered task
    registrar         \* the locals of register_task

scheduleVars == <<tick, wrapper, envelope, returned, task, registrar>>

ProcessTimeoutExit == 124
ProcessExecutionErrorExit == 125
ConfigurationErrorExit == 9
UncaughtExit == 1

\* cycle: what became of the child process, which returned code; exit: cycle_exit.
Wrapper == [pc: {"READY", "VALIDATE", "CYCLE", "STATUS", "PUBLISH", "ENDED", "TERMINATED"},
            started: 0..LastTick, launched: 0..LastTick,
            cycle: {"NONE", "RUNNING", "RETURNED", "KILLED", "NOT_STARTED"},
            code: CycleExit \cup {None}, exit: Nat \cup {None}]

Envelope == [invocation: Invocation, exit: Nat, timedOut: BOOLEAN, status: BOOLEAN]

Registering == [pc: {"QUERY", "CREATE", "CREATED", "REUSED_IDENTICAL", "FAILED"}, plan: Plan]

-----------------------------------------------------------------------------
At(i, pc) == wrapper[i].pc = pc

\* MultipleInstancesPolicy IgnoreNew.
TaskBusy == \E i \in ByTask : wrapper[i].pc \notin {"READY", "ENDED", "TERMINATED"}

Start(i) ==
    /\ At(i, "READY")
    /\ i \in ByTask => task # None /\ ~TaskBusy
    /\ wrapper' = [wrapper EXCEPT ![i] = [@ EXCEPT !.pc = "VALIDATE", !.started = tick]]
    /\ UNCHANGED <<tick, envelope, returned, task, registrar>>

\* scheduled_plan refuses the environment or the checkout, the script returns 9; git that cannot
\* be started, or hangs, is not caught.
Refuse(i) ==
    /\ At(i, "VALIDATE")
    /\ wrapper' = [wrapper EXCEPT ![i].pc = "ENDED"]
    /\ \E e \in {ConfigurationErrorExit, UncaughtExit} : returned' = [returned EXCEPT ![i] = e]
    /\ UNCHANGED <<tick, envelope, task, registrar>>

Launch(i) ==
    /\ At(i, "VALIDATE")
    /\ wrapper' = [wrapper EXCEPT ![i] =
           [@ EXCEPT !.pc = "CYCLE", !.launched = tick, !.cycle = "RUNNING"]]
    /\ UNCHANGED <<tick, envelope, returned, task, registrar>>

\* The child is over, one way or another: its result is evidence, the status comes next.
Ended(w, cycle, exit) == [w EXCEPT !.pc = "STATUS", !.cycle = cycle, !.exit = exit]

LaunchFails(i) ==
    /\ At(i, "VALIDATE")
    /\ wrapper' = [wrapper EXCEPT ![i] = Ended(@, "NOT_STARTED", ProcessExecutionErrorExit)]
    /\ UNCHANGED <<tick, envelope, returned, task, registrar>>

CycleEnds(i) ==
    /\ At(i, "CYCLE")
    /\ \E e \in CycleExit :
           wrapper' = [wrapper EXCEPT ![i] = [Ended(@, "RETURNED", e) EXCEPT !.code = e]]
    /\ UNCHANGED <<tick, envelope, returned, task, registrar>>

CycleTimesOut(i) ==
    /\ At(i, "CYCLE")
    /\ tick >= wrapper[i].launched + ProcessTimeout
    /\ wrapper' = [wrapper EXCEPT ![i] = Ended(@, "KILLED", ProcessTimeoutExit)]
    /\ UNCHANGED <<tick, envelope, returned, task, registrar>>

StatusReplaces(i) ==   \* mutant: a failed status takes the place of the result
    /\ At(i, "STATUS")
    /\ \E e \in {0, ProcessTimeoutExit, ProcessExecutionErrorExit} :
           wrapper' = [wrapper EXCEPT ![i].pc = "PUBLISH", ![i].exit = e]
    /\ UNCHANGED <<tick, envelope, returned, task, registrar>>

\* The status command succeeds, fails, hangs or cannot start; nothing but the evidence differs.
AskStatus(i) ==
    /\ At(i, "STATUS")
    /\ wrapper' = [wrapper EXCEPT ![i].pc = "PUBLISH"]
    /\ UNCHANGED <<tick, envelope, returned, task, registrar>>

\* _atomic_publish under a name with an identifier of its own.  An error of the file system when
\* its temporary file is removed comes after the envelope, and nothing catches it.
PublishEnvelope(i) ==
    /\ At(i, "PUBLISH")
    /\ \E captured \in BOOLEAN :
           envelope' = envelope \cup
               {[invocation |-> i, exit |-> wrapper[i].exit,
                 timedOut |-> wrapper[i].cycle = "KILLED", status |-> captured]}
    /\ wrapper' = [wrapper EXCEPT ![i].pc = "ENDED"]
    /\ \E e \in {wrapper[i].exit, UncaughtExit} : returned' = [returned EXCEPT ![i] = e]
    /\ UNCHANGED <<tick, task, registrar>>

\* The envelope cannot be written: nothing catches the error of the file system.
PublishFails(i) ==
    /\ At(i, "PUBLISH")
    /\ wrapper' = [wrapper EXCEPT ![i].pc = "ENDED"]
    /\ returned' = [returned EXCEPT ![i] = UncaughtExit]
    /\ UNCHANGED <<tick, envelope, task, registrar>>

\* A task that is terminated takes the child down with it.
Terminated(w) ==
    [w EXCEPT !.pc = "TERMINATED", !.cycle = IF w.cycle = "RUNNING" THEN "KILLED" ELSE w.cycle]

\* ExecutionTimeLimit is the process timeout, counted from the start of the task; AllowHardTerminate.
TaskLimit(i) ==
    /\ i \in ByTask
    /\ wrapper[i].pc \in {"VALIDATE", "CYCLE", "STATUS", "PUBLISH"}
    /\ tick >= wrapper[i].started + ProcessTimeout
    /\ wrapper' = [wrapper EXCEPT ![i] = Terminated(@)]
    /\ UNCHANGED <<tick, envelope, returned, task, registrar>>

\* A timeout that is due is not late by a whole tick.
Pass ==
    /\ tick < LastTick
    /\ \A i \in Invocation :
           /\ At(i, "CYCLE") => tick < wrapper[i].launched + ProcessTimeout
           /\ i \in ByTask /\ wrapper[i].pc \in {"VALIDATE", "CYCLE", "STATUS", "PUBLISH"}
                => tick < wrapper[i].started + ProcessTimeout
    /\ tick' = tick + 1
    /\ UNCHANGED <<wrapper, envelope, returned, task, registrar>>

-----------------------------------------------------------------------------
Registered(r, pc) == registrar' = [registrar EXCEPT ![r].pc = pc]

\* An identical task is reused, another is a conflict, an unclear answer is a failure.
Query(r) ==
    /\ registrar[r].pc = "QUERY"
    /\ \/ task = None /\ Registered(r, "CREATE")
       \/ task = registrar[r].plan /\ Registered(r, "REUSED_IDENTICAL")
       \/ task # registrar[r].plan /\ Registered(r, "FAILED")
    /\ UNCHANGED <<tick, wrapper, envelope, returned, task>>

CreateForced(r) ==   \* mutant: schtasks /Create /F
    /\ registrar[r].pc = "CREATE"
    /\ task' = registrar[r].plan
    /\ Registered(r, "CREATED")
    /\ UNCHANGED <<tick, wrapper, envelope, returned>>

\* schtasks without /F does not replace a task that has appeared since the query.
Create(r) ==
    /\ registrar[r].pc = "CREATE"
    /\ IF task = None
         THEN task' = registrar[r].plan /\ Registered(r, "CREATED")
         ELSE Registered(r, "FAILED") /\ UNCHANGED task
    /\ UNCHANGED <<tick, wrapper, envelope, returned>>

ScheduleInit ==
    /\ tick = 0
    /\ wrapper = [i \in Invocation |->
           [pc |-> "READY", started |-> 0, launched |-> 0, cycle |-> "NONE",
            code |-> None, exit |-> None]]
    /\ envelope = {}
    /\ returned = [i \in Invocation |-> None]
    /\ task \in Plan \cup {None}
    /\ registrar \in [Registrar -> [pc: {"QUERY"}, plan: Plan]]

ScheduleNext ==
    \/ Pass
    \/ \E i \in Invocation :
          \/ Start(i) \/ Refuse(i) \/ Launch(i) \/ LaunchFails(i) \/ CycleEnds(i)
          \/ CycleTimesOut(i) \/ AskStatus(i) \/ PublishEnvelope(i) \/ PublishFails(i)
          \/ TaskLimit(i)
    \/ \E r \in Registrar : Query(r) \/ Create(r)

ScheduleSpec == ScheduleInit /\ [][ScheduleNext]_scheduleVars

-----------------------------------------------------------------------------
(* Properties.                                                             *)

\* Types of the wrappers, the envelopes and the registrations.
ScheduleTypeOK ==
    /\ tick \in 0..LastTick
    /\ wrapper \in [Invocation -> Wrapper]
    /\ envelope \subseteq Envelope
    /\ returned \in [Invocation -> Nat \cup {None}]
    /\ task \in Plan \cup {None}
    /\ registrar \in [Registrar -> Registering]

\* There is one envelope for an invocation that came to its end, and it and the code returned to
\* the scheduler say what became of the cycle: no status failure makes a failed, killed or
\* unstarted cycle look like another one.  Or else the code is that of an error nobody caught,
\* which is never read as success, or, without an envelope, of a refusal before the cycle.
EnvelopesTellTheCycle ==
    /\ \A e \in envelope :
           LET w == wrapper[e.invocation]
           IN  /\ w.pc = "ENDED" /\ returned[e.invocation] \in {e.exit, UncaughtExit}
               /\ \A f \in envelope : f.invocation = e.invocation => f = e
               /\ e.timedOut <=> w.cycle = "KILLED"
               /\ e.exit = CASE w.cycle = "KILLED" -> ProcessTimeoutExit
                             [] w.cycle = "NOT_STARTED" -> ProcessExecutionErrorExit
                             [] w.cycle = "RETURNED" -> w.code
    /\ \A i \in Invocation :
           At(i, "ENDED") => \/ \E e \in envelope : e.invocation = i
                             \/ returned[i] = ConfigurationErrorExit /\ wrapper[i].cycle = "NONE"
                             \/ returned[i] = UncaughtExit

\* A cycle that overran its process timeout is recorded, also when the task runs the wrapper.
OverrunRecorded ==
    \A i \in Invocation :
        wrapper[i].cycle = "KILLED" /\ wrapper[i].pc \in {"ENDED", "TERMINATED"}
        => \E e \in envelope : e.invocation = i /\ e.timedOut

\* What a registration reports is in the scheduler and stays there: two registrations that both
\* found no task do not replace each other's.
RegistrationTrue ==
    \A r \in Registrar :
        registrar[r].pc \in {"CREATED", "REUSED_IDENTICAL"} => task = registrar[r].plan

=============================================================================
