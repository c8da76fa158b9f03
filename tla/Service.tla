------------------------------ MODULE Service -------------------------------
(***************************************************************************)
(* Who owns the daemon, and which process may be told to stop              *)
(* (codex_session_relay/service.py; SingleInstance of daemon.py).  A       *)
(* supervisor takes the lock of its state directory and the lock of its    *)
(* socket, publishes a record, and replaces bounded workers that inherit   *)
(* both locks.  Commands beside it enable, disable, stop, restart and      *)
(* start.  A record on disk may outlive what it names: its process, the    *)
(* process's pid, the boot.                                                *)
(*                                                                         *)
(* Every installation serves one and the same socket.  A process is named  *)
(* in a record by its pid and start ticks: the pid may name anything once  *)
(* the process is gone, pid and ticks name one process until a reboot.     *)
(***************************************************************************)
EXTENDS Naturals, FiniteSets

CONSTANTS
  Dirs,         \* state directories, one store each
  Installs,     \* installation ids: a checkout with a state directory
  Supervisors,  \* runs of `service run' and of the unsupervised `daemon'
  Commands,     \* processes that run the other subcommands
  HomeOf,       \* the state directory of a supervisor or command
  InstallOf,    \* its installation
  Bounded,      \* the runs that are an unsupervised daemon: no workers
  Takers,       \* the runs given --takeover-scope
  Free,         \* nobody: a lock not held
  Segments,     \* model bound on the workers of one supervisor
  Asks,         \* model bound on commands
  Troubles,     \* model bound on crashes and exceptions
  Reboots       \* model bound on reboots

Processes == Supervisors \cup Commands

ASSUME ServiceAssumption ==
  /\ HomeOf \in [Processes -> Dirs] /\ InstallOf \in [Processes -> Installs]
  /\ Bounded \subseteq Supervisors /\ Takers \subseteq Supervisors
  /\ Free \notin Processes \cup Dirs /\ Supervisors \cap Commands = {}
  /\ Segments \in Nat /\ Asks \in Nat /\ Troubles \in Nat /\ Reboots \in Nat

VARIABLES
  intent,    \* service.json: enabled or not
  request,   \* stop.request is there
  record,    \* daemon.json
  claimed,   \* the scope registry's record of the socket
  lock,      \* who opened the locked description of daemon.lock
  scope,     \* the same of the socket's lock
  sup,       \* supervisors
  worker,    \* the last worker of each, and whether the record was told of it
  cmd,       \* commands
  boot,      \* boot_id
  asked, troubles,
  shot       \* history: processes that were signalled and were not the caller's

vars == <<intent, request, record, claimed, lock, scope, sup, worker, cmd, boot, asked, troubles,
          shot>>

\* new_record; `launch' stands for launchId, startedAt, token and startTicks, which no two
\* runs share.  `pid' says whether the pid is still in it, `worker' is the worker it names.
NoRecord  == [launch |-> Free, boot |-> 0, pid |-> FALSE, worker |-> 0, ready |-> FALSE]
Record(s) == [NoRecord EXCEPT !.launch = s, !.boot = boot, !.pid = TRUE]

NoClaim == [dir |-> Free, launch |-> Free, pid |-> FALSE, boot |-> 0]

Gone(s)    == sup[s] \in {"none", "over"}
Working(s) == worker[s].live

\* flock belongs to the description: it lasts while a process has it open.
Closed(held, s) == IF held = s /\ ~Working(s) THEN Free ELSE held

UnlockedExit(held, s) == IF held = s THEN Free ELSE held   \* mutant

\* SingleInstance.__exit__ and ScopeRegistry.release: a shared holder only closes.
LeaveLock(held, s) == IF s \in Bounded THEN (IF held = s THEN Free ELSE held) ELSE Closed(held, s)

LiveClaim == /\ claimed.pid /\ claimed.boot = boot
             /\ ~Gone(claimed.launch)
-----------------------------------------------------------------------------
(* Ownership, decided by `me' from the record it read.  `holder' is what   *)
(* has the recorded supervisor's pid once that is gone: nothing, another   *)
(* process, or after a reboot one with the very same start ticks.          *)

Holders(rec) == {"nothing", "stranger"} \cup (IF rec.boot = boot THEN {} ELSE {"twin"})

TrustsBoot(me, rec) == InstallOf[rec.launch] # InstallOf[me]   \* mutant

\* _foreign_markers
ForeignMarkers(me, rec) == rec.boot # boot \/ InstallOf[rec.launch] # InstallOf[me]

\* RelayService.ownership
Ownership(me, rec, holder) ==
  IF rec.launch = Free THEN "none"
  ELSE IF ~rec.pid THEN IF rec.worker # 0 /\ ForeignMarkers(me, rec) THEN "foreign" ELSE "none"
  ELSE IF ForeignMarkers(me, rec) THEN "foreign"
  ELSE IF Gone(rec.launch) /\ holder = "nothing" THEN "none"
  ELSE IF Gone(rec.launch) /\ holder = "stranger" THEN "foreign"
  ELSE "ours"

\* _worker_identified: the very worker the record names, still running.
Identified(rec) ==
  rec.worker # 0 /\ rec.boot = boot /\ Working(rec.launch) /\ worker[rec.launch].n = rec.worker

HolderIsOurs(me, rec, holder) ==
  /\ rec.launch # Free => ~ForeignMarkers(me, rec)
  /\ \/ Ownership(me, rec, holder) = "ours"
     \/ Ownership(me, rec, holder) = "none" /\ Identified(rec)
-----------------------------------------------------------------------------
(* Supervisors.                                                            *)

SupTo(s, phase) == sup' = [sup EXCEPT ![s] = phase]

Quit(s) == /\ SupTo(s, "over")
           /\ lock' = [lock EXCEPT ![HomeOf[s]] = LeaveLock(@, s)]

\* supervise, owned_service: the owner's intent, read before anything is held; and
\* clear_stop_request, also before the lock (a bounded daemon does not look at requests).
Begin(s) ==
  /\ sup[s] = "begun"
  /\ LET d == HomeOf[s] IN
     /\ SupTo(s, IF intent[d] THEN "cleared" ELSE "over")
     /\ request' = IF intent[d] /\ s \notin Bounded THEN [request EXCEPT ![d] = FALSE] ELSE request
  /\ UNCHANGED <<intent, record, claimed, lock, scope, worker, cmd, boot, asked, troubles, shot>>

TakeLock(s) ==
  /\ sup[s] = "cleared"
  /\ IF lock[HomeOf[s]] = Free
     THEN SupTo(s, "locked") /\ lock' = [lock EXCEPT ![HomeOf[s]] = s]
     ELSE SupTo(s, "over") /\ UNCHANGED lock
  /\ UNCHANGED <<intent, request, record, claimed, scope, worker, cmd, boot, asked, troubles, shot>>

\* The intent is read again under the lock, by a supervisor.
StillWilling(s) == s \in Bounded \/ intent[HomeOf[s]]

\* ScopeRegistry.claim, its look at the registration before the lock.
LookAtClaim(s) ==
  /\ sup[s] = "locked"
  /\ \/ /\ StillWilling(s)
        /\ claimed.dir \in {Free, HomeOf[s]} \/ s \in Takers
        /\ SupTo(s, "claiming") /\ UNCHANGED lock
     \/ /\ ~StillWilling(s) \/ (claimed.dir \notin {Free, HomeOf[s]} /\ s \notin Takers)
        /\ Quit(s)
  /\ UNCHANGED <<intent, request, record, claimed, scope, worker, cmd, boot, asked, troubles, shot>>

TakeScope(s) ==
  /\ sup[s] = "claiming"
  /\ IF scope = Free
     THEN /\ scope' = s /\ SupTo(s, "claimed") /\ UNCHANGED lock
          /\ claimed' = [dir |-> HomeOf[s], launch |-> s, pid |-> TRUE, boot |-> boot]
     ELSE Quit(s) /\ UNCHANGED <<scope, claimed>>
  /\ UNCHANGED <<intent, request, record, worker, cmd, boot, asked, troubles, shot>>

Publish(s) ==
  /\ sup[s] = "claimed"
  /\ record' = [record EXCEPT ![HomeOf[s]] = Record(s)]
  /\ SupTo(s, IF s \in Bounded THEN "serving" ELSE "recovering")
  /\ UNCHANGED <<intent, request, claimed, lock, scope, worker, cmd, boot, asked, troubles, shot>>

\* on_start has returned; readyAt.
GetReady(s) ==
  /\ sup[s] = "recovering"
  /\ record' = [record EXCEPT ![HomeOf[s]].ready = TRUE]
  /\ SupTo(s, "boundary")
  /\ UNCHANGED <<intent, request, claimed, lock, scope, worker, cmd, boot, asked, troubles, shot>>

RequestOnly(d) == ~request[d]   \* mutant

\* What is asked at every worker boundary.
GoesOn(d) == ~request[d] /\ intent[d]

Spawn(s) ==
  /\ sup[s] = "boundary" /\ GoesOn(HomeOf[s]) /\ worker[s].n < Segments
  /\ worker' = [worker EXCEPT ![s] = [n |-> worker[s].n + 1, live |-> TRUE, noted |-> FALSE]]
  /\ SupTo(s, "spawned")
  /\ UNCHANGED <<intent, request, record, claimed, lock, scope, cmd, boot, asked, troubles, shot>>

NoteWorker(s) ==
  /\ sup[s] = "spawned"
  /\ record' = [record EXCEPT ![HomeOf[s]].worker = worker[s].n]
  /\ worker' = [worker EXCEPT ![s].noted = TRUE]
  /\ SupTo(s, "waiting")
  /\ UNCHANGED <<intent, request, claimed, lock, scope, cmd, boot, asked, troubles, shot>>

\* child.wait returned.
Reap(s) ==
  /\ sup[s] = "waiting" /\ ~Working(s)
  /\ record' = [record EXCEPT ![HomeOf[s]].worker = 0]
  /\ SupTo(s, "boundary")
  /\ UNCHANGED <<intent, request, claimed, lock, scope, worker, cmd, boot, asked, troubles, shot>>

\* The finally of supervise releases the claim first ...
ReleaseScope(s, phase) ==
  /\ claimed' = [claimed EXCEPT !.pid = FALSE]
  /\ scope' = LeaveLock(scope, s)
  /\ SupTo(s, phase)

\* The loop is left by request or by intent (no bound was asked for); a bounded run just ends.
LeaveLoop(s) ==
  /\ \/ sup[s] = "boundary" /\ ~GoesOn(HomeOf[s])
     \/ sup[s] = "serving"
  /\ ReleaseScope(s, "released")
  /\ UNCHANGED <<intent, request, record, lock, worker, cmd, boot, asked, troubles, shot>>

\* An exception: recovery fails, a note cannot be written, or the wait is interrupted.  A worker
\* not waited for is still outstanding.
Raise(s) ==
  /\ troubles < Troubles /\ troubles' = troubles + 1
  /\ sup[s] \in {"recovering", "spawned", "waiting"}
  /\ ReleaseScope(s, IF sup[s] = "recovering" THEN "released" ELSE "released, outstanding")
  /\ UNCHANGED <<intent, request, record, lock, worker, cmd, boot, asked, shot>>

ClearsWorker(s) == TRUE   \* mutant

\* Only a worker that was waited for is taken out of the record.
WaitedFor(s) == sup[s] = "released"

\* ... then the record is cleared ...
ClearRecord(s) ==
  /\ sup[s] \in {"released", "released, outstanding"}
  /\ record' = [record EXCEPT ![HomeOf[s]].pid = FALSE,
                              ![HomeOf[s]].worker = IF WaitedFor(s) THEN 0 ELSE @]
  /\ SupTo(s, "leaving")
  /\ UNCHANGED <<intent, request, claimed, lock, scope, worker, cmd, boot, asked, troubles, shot>>

\* ... and the directory's lock goes last.
Leave(s) ==
  /\ sup[s] = "leaving" /\ Quit(s)
  /\ UNCHANGED <<intent, request, record, claimed, scope, worker, cmd, boot, asked, troubles, shot>>

\* The process ends without its finally: killed, or SIGTERM, which nothing handles.
Dies(s) ==
  /\ SupTo(s, "over")
  /\ lock'  = [lock EXCEPT ![HomeOf[s]] = Closed(@, s)]
  /\ scope' = Closed(scope, s)

Crash(s) ==
  /\ ~Gone(s) /\ troubles < Troubles /\ troubles' = troubles + 1
  /\ Dies(s)
  /\ UNCHANGED <<intent, request, record, claimed, worker, cmd, boot, asked, shot>>

WorkerDies(s) ==
  /\ worker' = [worker EXCEPT ![s].live = FALSE]
  /\ lock'  = IF Gone(s) /\ lock[HomeOf[s]] = s THEN [lock EXCEPT ![HomeOf[s]] = Free] ELSE lock
  /\ scope' = IF (Gone(s) \/ sup[s] \in {"released, outstanding", "leaving"}) /\ scope = s
              THEN Free ELSE scope

\* A worker is bounded by its segment; the kernel ends it when its supervisor dies, if that was
\* armed; and it refuses to serve a record whose token or supervisor is not its own.
EndWorker(s) ==
  /\ Working(s) /\ WorkerDies(s)
  /\ UNCHANGED <<intent, request, record, claimed, sup, cmd, boot, asked, troubles, shot>>
-----------------------------------------------------------------------------
(* Commands.  cmd[c] keeps what the command read and found out.            *)

Resting(down) == [phase |-> "idle", plan |-> "none", rec |-> NoRecord, owner |-> "none",
                  supDone |-> FALSE, workerDone |-> FALSE, stranger |-> FALSE,
                  own |-> Free, down |-> down]

CmdTo(c, phase) == cmd' = [cmd EXCEPT ![c].phase = phase]

\* The answer; it is kept whether it said that the service is down.
Tell(c, told) == cmd' = [cmd EXCEPT ![c] = Resting(told \in {"stopped", "not_running"})]

\* The supervisors of c's installation in c's directory.
Own(c) == {s \in Supervisors : InstallOf[s] = InstallOf[c] /\ HomeOf[s] = HomeOf[c]}

\* Where each command begins; restart asks for the intent first.
Opening(plan) == CASE plan \in {"enable", "disable"} -> "decide"
                   [] plan = "stop"    -> "look"
                   [] plan = "restart" -> "look"
                   [] plan = "start"   -> "start"

Ask(c, plan) ==
  /\ cmd[c].phase = "idle" /\ asked < Asks /\ asked' = asked + 1
  /\ plan = "restart" => intent[HomeOf[c]]
  /\ cmd' = [cmd EXCEPT ![c] = [Resting(FALSE) EXCEPT !.phase = Opening(plan), !.plan = plan]]
  /\ UNCHANGED <<intent, request, record, claimed, lock, scope, sup, worker, boot, troubles,
                 shot>>

LockIgnored(d) == TRUE   \* mutant

\* daemon_lock_if_free: nobody else can start while a decision is made and written.
LockIfFree(d) == lock[d] = Free

\* enable, disable: decided holding the lock, or by who holds it.
Decide(c) ==
  /\ cmd[c].phase = "decide"
  /\ LET d == HomeOf[c] IN
     IF LockIfFree(d)
     THEN lock' = [lock EXCEPT ![d] = c] /\ CmdTo(c, "write")
     ELSE /\ UNCHANGED lock
          /\ \E holder \in Holders(record[d]) :
               IF HolderIsOurs(c, record[d], holder) THEN CmdTo(c, "write") ELSE Tell(c, "refused")
  /\ UNCHANGED <<intent, request, record, claimed, scope, sup, worker, boot, asked, troubles,
                 shot>>

Write(c) ==
  /\ cmd[c].phase = "write"
  /\ LET d == HomeOf[c] IN
     /\ intent' = [intent EXCEPT ![d] = cmd[c].plan = "enable"]
     /\ lock' = IF lock[d] = c THEN [lock EXCEPT ![d] = Free] ELSE lock
  /\ IF cmd[c].plan = "enable" THEN Tell(c, "done") ELSE CmdTo(c, "look")
  /\ UNCHANGED <<request, record, claimed, scope, sup, worker, boot, asked, troubles,
                 shot>>

\* What a stop makes of the record it read.
Verdict(me, rec, holder) ==
  LET owner == Ownership(me, rec, holder) IN
  IF owner = "none" THEN (IF rec.worker = 0 THEN "nobody" ELSE "orphan") ELSE owner

Proceed(c, rec, verdict) ==
  /\ cmd' = [cmd EXCEPT ![c].phase = "request", ![c].rec = rec, ![c].owner = verdict,
                        ![c].stranger = verdict = "ours" /\ Gone(rec.launch)]

\* stop, its first look at the record.
Look(c) ==
  /\ cmd[c].phase = "look"
  /\ LET rec == record[HomeOf[c]] IN \E holder \in Holders(rec) :
       CASE Verdict(c, rec, holder) = "nobody"  -> CmdTo(c, "settle")
         [] Verdict(c, rec, holder) = "foreign" -> Tell(c, "refused")
         [] OTHER -> Proceed(c, rec, Verdict(c, rec, holder))
  /\ UNCHANGED <<intent, request, record, claimed, lock, scope, sup, worker, boot, asked, troubles,
                 shot>>

\* The stop is over; restart goes on to a start if the service is down and still enabled.
AfterStop(c, told) ==
  IF cmd[c].plan = "restart" /\ told \in {"stopped", "not_running"} /\ intent[HomeOf[c]]
  THEN CmdTo(c, "start") ELSE Tell(c, told)

\* _settle_absent_owner: nobody is running if the lock can be held while saying so.
Settle(c) ==
  /\ cmd[c].phase = "settle"
  /\ LET rec == record[HomeOf[c]] IN
     IF LockIfFree(HomeOf[c]) THEN AfterStop(c, "not_running")
     ELSE \E holder \in Holders(rec) :
            IF Verdict(c, rec, holder) \in {"nobody", "foreign"}
            THEN Tell(c, "refused")
            ELSE Proceed(c, rec, Verdict(c, rec, holder))
  /\ UNCHANGED <<intent, request, record, claimed, lock, scope, sup, worker, boot, asked, troubles,
                 shot>>

RequestStop(c) ==
  /\ cmd[c].phase = "request"
  /\ request' = [request EXCEPT ![HomeOf[c]] = TRUE]
  /\ CmdTo(c, "terminate")
  /\ UNCHANGED <<intent, record, claimed, lock, scope, sup, worker, boot, asked, troubles,
                 shot>>

\* _terminate: through the handle opened before the check, so it reaches what was checked or
\* nothing.  A process may outlast both signals.
Terminate(c) ==
  /\ cmd[c].phase = "terminate"
  /\ LET s == cmd[c].rec.launch
         Noted(done) == cmd' = [cmd EXCEPT ![c].phase = "worker", ![c].supDone = done] IN
     \/ cmd[c].owner = "orphan" /\ Noted(TRUE) /\ UNCHANGED <<lock, scope, sup, shot>>
     \/ /\ cmd[c].owner = "ours" /\ ~Gone(s)
        /\ Dies(s) /\ Noted(TRUE) /\ shot' = shot \cup ({s} \ Own(c))
     \/ /\ cmd[c].owner = "ours" /\ ~Gone(s) /\ troubles < Troubles
        /\ Noted(FALSE) /\ UNCHANGED <<lock, scope, sup, shot>>
     \/ /\ cmd[c].owner = "ours" /\ Gone(s) /\ Noted(TRUE)
        /\ shot' = IF cmd[c].stranger THEN shot \cup {Free} ELSE shot
        /\ UNCHANGED <<lock, scope, sup>>
  /\ UNCHANGED <<intent, request, record, claimed, worker, boot, asked, troubles>>

\* _launch_identity: the record read again is still about the launch we began with.
SameLaunch(rec, fresh) == fresh.launch = rec.launch

\* stop, the record read again, and _stop_worker: of the launch it began with in any case.
StopWorker(c) ==
  /\ cmd[c].phase = "worker"
  /\ LET fresh == record[HomeOf[c]]
         same  == SameLaunch(cmd[c].rec, fresh)
         rec   == IF same THEN fresh ELSE cmd[c].rec
         Noted(done) == IF same THEN cmd' = [cmd EXCEPT ![c].phase = "finish", ![c].rec = rec,
                                                        ![c].workerDone = done]
                                ELSE Tell(c, "replaced") IN
     \/ /\ Identified(rec) /\ WorkerDies(rec.launch) /\ Noted(TRUE)
        /\ shot' = shot \cup ({rec.launch} \ Own(c))
     \/ /\ Identified(rec) /\ troubles < Troubles
        /\ Noted(FALSE) /\ UNCHANGED <<worker, lock, scope, shot>>
     \/ /\ ~Identified(rec) /\ Noted(TRUE)
        /\ shot' = IF rec.worker # 0 /\ rec.boot # boot THEN shot \cup {Free} ELSE shot
        /\ UNCHANGED <<worker, lock, scope>>
  /\ UNCHANGED <<intent, request, record, claimed, sup, boot, asked, troubles>>

\* stop, its end: what is confirmed gone is taken out of the record.
Finish(c) ==
  /\ cmd[c].phase = "finish"
  /\ LET d    == HomeOf[c]
         rec  == cmd[c].rec
         done == cmd[c].supDone /\ cmd[c].workerDone
         told == IF done THEN "stopped" ELSE "did_not_exit" IN
     CASE ~LockIfFree(d) -> UNCHANGED record /\ Tell(c, IF done THEN "replaced" ELSE told)
       [] LockIfFree(d) /\ ~SameLaunch(rec, record[d]) ->
            UNCHANGED record /\ Tell(c, "replaced")
       [] OTHER ->
            /\ record' = [record EXCEPT ![d] =
                 [rec EXCEPT !.pid = @ /\ ~cmd[c].supDone,
                             !.worker = IF cmd[c].workerDone THEN 0 ELSE @]]
            /\ AfterStop(c, told)
  /\ UNCHANGED <<intent, request, claimed, lock, scope, sup, worker, boot, asked, troubles,
                 shot>>

\* start: what can be checked from here, then a child that takes the locks itself.
Start(c) ==
  /\ cmd[c].phase = "start"
  /\ LET d == HomeOf[c]
         refusal == ~intent[d] \/ lock[d] # Free \/ (LiveClaim /\ claimed.dir # d) IN
     \/ refusal /\ Tell(c, "refused") /\ UNCHANGED sup
     \/ /\ ~refusal
        /\ \E s \in Own(c) \ Bounded :
             /\ sup[s] = "none" /\ SupTo(s, "begun")
             /\ cmd' = [cmd EXCEPT ![c].phase = "await", ![c].own = s]
  /\ UNCHANGED <<intent, request, record, claimed, lock, scope, worker, boot, asked, troubles,
                 shot>>

\* _await_launch: the child published itself, is ready, and something holds the lock.
Reported(c) ==
  LET rec == record[HomeOf[c]] IN
  rec.pid /\ rec.ready /\ rec.launch = cmd[c].own /\ lock[HomeOf[c]] # Free

\* _await_launch, _abandon: a child that did not report in time is ended, or reported running.
Await(c) ==
  /\ cmd[c].phase = "await"
  /\ LET s == cmd[c].own IN
     \/ Reported(c) /\ Tell(c, "started") /\ UNCHANGED <<lock, scope, sup, troubles>>
     \/ ~Reported(c) /\ Gone(s) /\ Tell(c, "exited") /\ UNCHANGED <<lock, scope, sup, troubles>>
     \/ /\ ~Reported(c) /\ ~Gone(s) /\ troubles < Troubles /\ troubles' = troubles + 1
        /\ Tell(c, "did_not_report")
        /\ Dies(s) \/ UNCHANGED <<lock, scope, sup>>
  /\ UNCHANGED <<intent, request, record, claimed, worker, boot, asked, shot>>

\* A command is killed; the lock it held goes with it.
CommandDies(c) ==
  /\ cmd[c].phase # "idle" /\ troubles < Troubles /\ troubles' = troubles + 1
  /\ Tell(c, "nothing")
  /\ lock' = [d \in Dirs |-> IF lock[d] = c THEN Free ELSE lock[d]]
  /\ UNCHANGED <<intent, request, record, claimed, scope, sup, worker, boot, asked, shot>>
-----------------------------------------------------------------------------
\* service run or daemon, by hand.
Run(s) ==
  /\ sup[s] = "none" /\ SupTo(s, "begun")
  /\ UNCHANGED <<intent, request, record, claimed, lock, scope, worker, cmd, boot, asked, troubles,
                 shot>>

\* Every process ends; files stay.
Reboot ==
  /\ boot <= Reboots /\ boot' = boot + 1
  /\ sup'    = [s \in Supervisors |-> IF Gone(s) THEN sup[s] ELSE "over"]
  /\ worker' = [s \in Supervisors |-> [worker[s] EXCEPT !.live = FALSE]]
  /\ cmd'    = [c \in Commands |-> Resting(FALSE)]
  /\ lock'   = [d \in Dirs |-> Free] /\ scope' = Free
  /\ UNCHANGED <<intent, request, record, claimed, asked, troubles, shot>>

Init ==
  /\ intent \in [Dirs -> BOOLEAN] /\ request = [d \in Dirs |-> FALSE]
  /\ record = [d \in Dirs |-> NoRecord] /\ claimed = NoClaim
  /\ lock = [d \in Dirs |-> Free] /\ scope = Free
  /\ sup = [s \in Supervisors |-> "none"]
  /\ worker = [s \in Supervisors |-> [n |-> 0, live |-> FALSE, noted |-> FALSE]]
  /\ cmd = [c \in Commands |-> Resting(FALSE)]
  /\ boot = 1 /\ asked = 0 /\ troubles = 0 /\ shot = {}

Supervise(s) ==
  \/ Begin(s) \/ TakeLock(s) \/ LookAtClaim(s) \/ TakeScope(s) \/ Publish(s)
  \/ GetReady(s) \/ Spawn(s) \/ NoteWorker(s) \/ Reap(s)
  \/ LeaveLoop(s) \/ ClearRecord(s) \/ Leave(s)

Execute(c) ==
  \/ Decide(c) \/ Write(c) \/ Look(c) \/ Settle(c) \/ RequestStop(c) \/ Terminate(c)
  \/ StopWorker(c) \/ Finish(c) \/ Start(c) \/ Await(c)

Next ==
  \/ \E s \in Supervisors : Run(s) \/ Supervise(s) \/ EndWorker(s) \/ Raise(s) \/ Crash(s)
  \/ \E c \in Commands : Execute(c) \/ CommandDies(c)
                         \/ \E plan \in {"enable", "disable", "stop", "restart", "start"} : Ask(c, plan)
  \/ Reboot

Spec == Init /\ [][Next]_vars

\* As long as a supervisor can go on or a worker's segment can end, some of them do.
Fairness == WF_vars(\E s \in Supervisors : Supervise(s) \/ EndWorker(s))
-----------------------------------------------------------------------------
Phases == {"none", "over", "begun", "cleared", "locked", "claiming", "claimed", "recovering",
           "boundary", "spawned", "waiting", "serving", "released", "released, outstanding",
           "leaving"}

\* Types; a lock is held by somebody who lives.
TypeOK ==
  /\ intent \in [Dirs -> BOOLEAN] /\ request \in [Dirs -> BOOLEAN]
  /\ record \in [Dirs -> [launch : Supervisors \cup {Free}, boot : Nat, pid : BOOLEAN,
                          worker : 0..Segments, ready : BOOLEAN]]
  /\ sup \in [Supervisors -> Phases]
  /\ worker \in [Supervisors -> [n : 0..Segments, live : BOOLEAN, noted : BOOLEAN]]
  /\ lock \in [Dirs -> Processes \cup {Free}] /\ scope \in Supervisors \cup {Free}

Serving(s) == Working(s) \/ sup[s] \in {"recovering", "boundary", "spawned", "waiting", "serving"}

\* One daemon serves the socket, whichever directories and installations it is served from, and
\* whoever died: a supervisor's worker keeps both locks after it.  (SingleInstance.__exit__,
\* ScopeRegistry.claim and release.)
ServesAlone == \A s, t \in Supervisors : Serving(s) /\ Serving(t) => s = t

\* A worker that outlives its supervisor can be reached by a stop: the record names it for as
\* long as it lives, if its supervisor lived to note it.  (The finally of supervise; the end of
\* stop, which writes under the lock or not at all.)
OrphanIsReachable ==
  \A s \in Supervisors : Working(s) /\ Gone(s) /\ worker[s].noted =>
     record[HomeOf[s]].launch = s /\ record[HomeOf[s]].worker = worker[s].n

\* No signal reaches a process of another installation, or one that merely has a recorded pid,
\* before and after a reboot.  (ownership, ProcessHandle, _stop_worker.)
SignalsOnlyItsOwn == shot = {}

\* A service reported stopped or not running is not serving from the caller's directory when the
\* answer is given, whoever was starting meanwhile.  (_settle_absent_owner, the end of stop.)
StoppedIsTrue ==
  [][\A c \in Commands, s \in Supervisors :
       cmd[c].phase # "idle" /\ cmd'[c].down /\ HomeOf[s] = HomeOf[c] => ~Serving(s)]_vars

\* A service whose owner turned it off for good comes to rest, workers included, whatever was
\* starting, crashing or being stopped meanwhile.  (supervise reads the intent before the lock,
\* under it and at every worker boundary.)
DisabledComesToRest ==
  \A d \in Dirs : <>[](~intent[d]) =>
     <>[](\A s \in Supervisors : HomeOf[s] = d => ~Serving(s) /\ sup[s] \in {"none", "over"})
=============================================================================
