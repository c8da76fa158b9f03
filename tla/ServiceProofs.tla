---------------------------- MODULE ServiceProofs ----------------------------
(***************************************************************************)
(* What holds of the service for any directories, installations,           *)
(* supervisors and commands, and any bound of the model.                   *)
(***************************************************************************)
EXTENDS Service, TLAPS

CmdPhases == {"idle", "decide", "write", "look", "settle", "request", "terminate", "worker",
              "finish", "start", "await"}

Records == [launch : Supervisors \cup {Free}, boot : Nat, pid : BOOLEAN, worker : 0..Segments,
            ready : BOOLEAN]

Cmds == [phase : CmdPhases, plan : {"none", "enable", "disable", "stop", "restart", "start"},
         rec : Records, owner : {"none", "ours", "orphan"}, supDone : BOOLEAN,
         workerDone : BOOLEAN, stranger : BOOLEAN, own : Supervisors \cup {Free}, down : BOOLEAN]

(***************************************************************************)
(* The strengthening.  A supervisor inside holds both locks, and its       *)
(* worker keeps them for it; so nobody else writes the record, and the     *)
(* record that a command took up names its own installation's service of   *)
(* this boot for as long as the command goes on.                           *)
(***************************************************************************)

\* Phases in which a supervisor holds the scope, has its record published, holds the lock.
Inside    == {"claimed", "recovering", "boundary", "spawned", "waiting", "serving"}
Past      == {"recovering", "boundary", "spawned", "waiting", "serving", "released",
              "released, outstanding", "leaving"}
Locked    == Past \cup {"locked", "claiming", "claimed"}

\* Phases in which it may have a worker.
Outliving == {"spawned", "waiting", "released, outstanding", "leaving", "over"}
Spawning  == {"recovering", "boundary", "spawned", "waiting"}

ProcTypes == /\ sup \in [Supervisors -> Phases]
             /\ worker \in [Supervisors -> [n : 0..Segments, live : BOOLEAN, noted : BOOLEAN]]
             /\ lock \in [Dirs -> Processes \cup {Free}] /\ scope \in Supervisors \cup {Free}

DataTypes == /\ intent \in [Dirs -> BOOLEAN] /\ request \in [Dirs -> BOOLEAN]
             /\ record \in [Dirs -> Records] /\ boot \in Nat

LockIsHeld  == \A s \in Supervisors : sup[s] \in Locked \/ Working(s) => lock[HomeOf[s]] = s
ScopeIsHeld == \A s \in Supervisors : sup[s] \in Inside \/ Working(s) => scope = s

WorkersAreSpawned ==
  \A s \in Supervisors : /\ Working(s) => s \notin Bounded /\ sup[s] \in Outliving
                         /\ sup[s] \in Spawning => s \notin Bounded

ProcInv == ProcTypes /\ LockIsHeld /\ ScopeIsHeld /\ WorkersAreSpawned

RecordIsOwn ==
  \A s \in Supervisors :
    /\ sup[s] \in Past => record[HomeOf[s]].launch = s
    /\ Working(s) /\ worker[s].noted =>
         record[HomeOf[s]].launch = s /\ record[HomeOf[s]].worker = worker[s].n

RecordsAreAtHome ==
  \A d \in Dirs : IF record[d].launch = Free THEN ~record[d].pid /\ record[d].worker = 0
                  ELSE HomeOf[record[d].launch] = d

RecInv == RecordIsOwn /\ RecordsAreAtHome

\* What a command holds between its look at the record and its end.
Sound(c) ==
  /\ cmd[c].phase # "idle" => ~cmd[c].down
  /\ cmd[c].phase = "await" => cmd[c].own \in Supervisors
  /\ cmd[c].phase \in {"request", "terminate", "worker", "finish"} =>
       /\ cmd[c].rec.launch \in Own(c) /\ cmd[c].rec.boot = boot
       /\ cmd[c].owner \in {"ours", "orphan"} /\ ~cmd[c].stranger
       /\ record[HomeOf[c]].launch = cmd[c].rec.launch => record[HomeOf[c]].boot = boot

CmdInv == cmd \in [Commands -> Cmds] /\ \A c \in Commands : Sound(c)

IInv == ProcInv /\ DataTypes /\ RecInv /\ CmdInv /\ shot = {}

-----------------------------------------------------------------------------

LEMMA Homes ==
  /\ \A p \in Processes : HomeOf[p] \in Dirs
  /\ Free \notin Supervisors /\ Free \notin Commands
  /\ \A c \in Commands : c \notin Supervisors
BY ServiceAssumption DEF Processes

LEMMA Rests == NoRecord \in Records /\ \A b \in BOOLEAN : Resting(b) \in Cmds
<1>1. 0 \in 0..Segments
  BY ServiceAssumption
<1>2. NoRecord \in Records
  BY <1>1 DEF NoRecord, Records
<1> QED
  BY <1>2 DEF Resting, Cmds, CmdPhases

LEMMA RestsAre == \A b \in BOOLEAN : Resting(b).phase = "idle" /\ Resting(b).down = b
BY DEF Resting

LEMMA InitInvariant == Init => IInv
<1> SUFFICES ASSUME Init PROVE IInv
  OBVIOUS
<1>1. ProcInv
  BY Homes, ServiceAssumption
     DEF Init, ProcInv, ProcTypes, LockIsHeld, ScopeIsHeld, WorkersAreSpawned, Phases, Working,
         Locked, Past, Inside, Spawning, Processes
<1>2. DataTypes
  BY Rests DEF Init, DataTypes
<1>3. RecInv
  BY Homes DEF Init, RecInv, RecordIsOwn, RecordsAreAtHome, NoRecord, Past, Working
<1>4. CmdInv
  BY Rests, RestsAre DEF Init, CmdInv, Sound
<1> QED
  BY <1>1, <1>2, <1>3, <1>4 DEF IInv, Init

-----------------------------------------------------------------------------
(* What a step leaves alone                                                  *)

LEMMA ProcFrame == ASSUME ProcInv, UNCHANGED <<sup, worker, lock, scope>> PROVE ProcInv'
BY DEF ProcInv, ProcTypes, LockIsHeld, ScopeIsHeld, WorkersAreSpawned, Working

\* Nobody who holds the lock of a directory is disturbed by who takes a free one.
LEMMA LockTaken ==
  ASSUME ProcInv, NEW d \in Dirs, NEW c \in Commands, UNCHANGED <<sup, worker, scope>>,
         lock[d] = Free \/ lock[d] = c,
         lock' \in [Dirs -> Processes \cup {Free}],
         \A e \in Dirs : e # d => lock'[e] = lock[e]
  PROVE  ProcInv'
BY Homes DEF ProcInv, ProcTypes, LockIsHeld, ScopeIsHeld, WorkersAreSpawned, Working, Processes

LEMMA RecFrame == ASSUME RecInv, UNCHANGED <<sup, worker, record>> PROVE RecInv'
BY DEF RecInv, RecordIsOwn, RecordsAreAtHome, Working

\* Commands do not notice what else happens, as long as a record is rewritten with this boot's.
LEMMA CmdFrame ==
  ASSUME CmdInv, UNCHANGED <<cmd, boot>>,
         \A d \in Dirs : \/ record'[d].launch = record[d].launch /\ record'[d].boot = record[d].boot
                         \/ record'[d].boot = boot
  PROVE  CmdInv'
BY Homes DEF CmdInv, Sound, Own, Processes

LEMMA OtherCommands ==
  ASSUME CmdInv, NEW c \in Commands, UNCHANGED boot, NEW new \in Cmds,
         cmd' = [cmd EXCEPT ![c] = new],
         \A d \in Dirs : \/ record'[d].launch = record[d].launch /\ record'[d].boot = record[d].boot
                         \/ record'[d].boot = boot,
         Sound(c)'
  PROVE  CmdInv'
BY Homes DEF CmdInv, Sound, Own, Processes

-----------------------------------------------------------------------------
(* A process ends                                                            *)

LEMMA DiesKeeps ==
  ASSUME ProcInv, RecInv, NEW s \in Supervisors, Dies(s), UNCHANGED <<worker, record>>
  PROVE  ProcInv' /\ RecInv'
<1> USE Homes
<1>1. ProcTypes'
  BY DEF ProcInv, ProcTypes, Dies, Closed, Phases, Processes, SupTo
<1>2. \A t \in Supervisors : t # s => sup'[t] = sup[t]
  BY DEF ProcInv, ProcTypes, Dies, SupTo
<1>3. sup'[s] = "over"
  BY DEF ProcInv, ProcTypes, Dies, SupTo
<1>4. LockIsHeld' /\ ScopeIsHeld'
  BY <1>2, <1>3
     DEF ProcInv, ProcTypes, LockIsHeld, ScopeIsHeld, Dies, Closed, Working, Processes,
         Locked, Past, Inside
<1>5. WorkersAreSpawned'
  BY <1>2, <1>3 DEF ProcInv, WorkersAreSpawned, Working, Outliving, Spawning
<1>6. RecInv'
  BY <1>2, <1>3 DEF RecInv, RecordIsOwn, RecordsAreAtHome, Working, Past
<1> QED
  BY <1>1, <1>4, <1>5, <1>6 DEF ProcInv

LEMMA WorkerDiesKeeps ==
  ASSUME ProcInv, RecInv, NEW s \in Supervisors, WorkerDies(s), UNCHANGED <<sup, record>>
  PROVE  ProcInv' /\ RecInv'
<1> USE Homes
<1>1. ProcTypes'
  BY DEF ProcInv, ProcTypes, WorkerDies, Processes
<1>2. ~Working(s)' /\ \A t \in Supervisors : t # s => worker'[t] = worker[t]
  BY DEF ProcInv, ProcTypes, WorkerDies, Working
<1>3. Gone(s) => sup[s] \notin Locked
  BY DEF Gone, Locked, Past
<1>4. sup[s] \in {"released, outstanding", "leaving"} => sup[s] \notin Inside
  BY DEF Inside
<1>5. Inside \subseteq Locked
  BY DEF Inside, Locked, Past
<1>6. LockIsHeld'
  BY <1>1, <1>2, <1>3
     DEF ProcInv, ProcTypes, LockIsHeld, WorkerDies, Working, Processes
<1>7. ScopeIsHeld'
  BY <1>1, <1>2, <1>3, <1>4, <1>5
     DEF ProcInv, ProcTypes, ScopeIsHeld, WorkerDies, Working
<1>8. WorkersAreSpawned' /\ RecInv'
  BY <1>2 DEF ProcInv, WorkersAreSpawned, Working, RecInv, RecordIsOwn, RecordsAreAtHome
<1> QED
  BY <1>1, <1>6, <1>7, <1>8 DEF ProcInv

-----------------------------------------------------------------------------
(* Supervisors                                                               *)

\* A supervisor moves on; whoever else holds a lock still does.
LEMMA SupMoves ==
  ASSUME ProcInv, NEW s \in Supervisors, NEW phase \in Phases, SupTo(s, phase), UNCHANGED worker,
         lock' \in [Dirs -> Processes \cup {Free}], scope' \in Supervisors \cup {Free},
         phase \in Locked \/ Working(s) => lock'[HomeOf[s]] = s,
         phase \in Inside \/ Working(s) => scope' = s,
         Working(s) => phase \in Outliving,
         phase \in Spawning => s \notin Bounded,
         \A t \in Supervisors : t # s => /\ lock[HomeOf[t]] = t => lock'[HomeOf[t]] = t
                                         /\ scope = t => scope' = t
  PROVE  ProcInv'
<1>1. sup' \in [Supervisors -> Phases] /\ sup'[s] = phase
      /\ \A t \in Supervisors : t # s => sup'[t] = sup[t]
  BY DEF ProcInv, ProcTypes, SupTo
<1>2. ProcTypes'
  BY <1>1 DEF ProcInv, ProcTypes
<1>3. LockIsHeld' /\ ScopeIsHeld' /\ WorkersAreSpawned'
  BY <1>1 DEF ProcInv, LockIsHeld, ScopeIsHeld, WorkersAreSpawned, Working
<1> QED
  BY <1>2, <1>3 DEF ProcInv

LEMMA RecStays ==
  ASSUME ProcInv, RecInv, NEW s \in Supervisors, NEW phase \in Phases, SupTo(s, phase),
         UNCHANGED <<worker, record>>, phase \in Past => record[HomeOf[s]].launch = s
  PROVE  RecInv'
<1>1. sup'[s] = phase /\ \A t \in Supervisors : t # s => sup'[t] = sup[t]
  BY DEF ProcInv, ProcTypes, SupTo
<1> QED
  BY <1>1 DEF RecInv, RecordIsOwn, RecordsAreAtHome, Working

\* Who writes the record holds the lock, so no other supervisor of the directory relies on it.
LEMMA RecWritten ==
  ASSUME ProcInv, RecInv, NEW s \in Supervisors, NEW phase \in Phases, SupTo(s, phase),
         record \in [Dirs -> Records], lock[HomeOf[s]] = s,
         NEW new, record' = [record EXCEPT ![HomeOf[s]] = new], new.launch = s,
         \A t \in Supervisors : t # s => worker'[t] = worker[t],
         Working(s)' /\ worker'[s].noted => new.worker = worker'[s].n
  PROVE  RecInv'
<1> USE Homes
<1>1. sup'[s] = phase /\ \A t \in Supervisors : t # s => sup'[t] = sup[t]
  BY DEF ProcInv, ProcTypes, SupTo
<1>2. \A d \in Dirs : d # HomeOf[s] => record'[d] = record[d]
  OBVIOUS
<1>3. HomeOf[s] \in Dirs /\ record'[HomeOf[s]] = new
  BY DEF Processes
<1>4. \A t \in Supervisors : t # s /\ (sup[t] \in Past \/ Working(t)) => HomeOf[t] # HomeOf[s]
  BY DEF ProcInv, LockIsHeld, Locked
<1>5. RecordIsOwn'
  BY <1>1, <1>2, <1>3, <1>4 DEF RecInv, RecordIsOwn, Working, Processes
<1>6. RecordsAreAtHome'
  BY <1>2, <1>3 DEF RecInv, RecordsAreAtHome
<1> QED
  BY <1>5, <1>6 DEF RecInv

LEMMA BeginKeeps == ASSUME IInv, NEW s \in Supervisors, Begin(s) PROVE IInv'
<1> USE Homes DEF IInv
<1>1. PICK phase \in {"cleared", "over"} : SupTo(s, phase)
  BY DEF Begin
<1>2. phase \in Phases /\ phase \notin Locked /\ phase \notin Inside /\ phase \notin Spawning
      /\ phase \notin Past /\ ~Working(s)
  BY DEF Begin, Phases, Locked, Inside, Spawning, Past, ProcInv, WorkersAreSpawned, Outliving
<1>3. ProcInv' /\ RecInv'
  BY <1>1, <1>2, SupMoves, RecStays DEF Begin, ProcInv, ProcTypes
<1>4. CmdInv' /\ DataTypes' /\ shot' = {}
  BY CmdFrame DEF Begin, DataTypes, Processes
<1> QED
  BY <1>3, <1>4

LEMMA TakeLockKeeps == ASSUME IInv, NEW s \in Supervisors, TakeLock(s) PROVE IInv'
<1> USE Homes DEF IInv
<1>1. ~Working(s) /\ HomeOf[s] \in Dirs
  BY DEF TakeLock, ProcInv, WorkersAreSpawned, Outliving, Processes
<1>2. ASSUME SupTo(s, "locked"), lock[HomeOf[s]] = Free, lock' = [lock EXCEPT ![HomeOf[s]] = s]
      PROVE  ProcInv' /\ RecInv'
  <2>1. "locked" \in Phases /\ "locked" \notin Inside /\ "locked" \notin Spawning
        /\ "locked" \notin Past
    BY DEF Phases, Inside, Spawning, Past
  <2>2. lock' \in [Dirs -> Processes \cup {Free}] /\ lock'[HomeOf[s]] = s
        /\ \A d \in Dirs : d # HomeOf[s] => lock'[d] = lock[d]
    BY <1>1, <1>2 DEF ProcInv, ProcTypes, Processes
  <2>3. \A t \in Supervisors : t # s /\ lock[HomeOf[t]] = t => lock'[HomeOf[t]] = t
    BY <1>2, <2>2 DEF Processes
  <2>4. UNCHANGED <<scope, worker, record>> /\ scope \in Supervisors \cup {Free}
    BY DEF TakeLock, ProcInv, ProcTypes
  <2>5. ProcInv'
    BY <1>1, <1>2, <2>1, <2>2, <2>3, <2>4, SupMoves
  <2>6. RecInv'
    BY <1>2, <2>1, <2>4, RecStays
  <2> QED
    BY <2>5, <2>6
<1>3. ASSUME SupTo(s, "over"), UNCHANGED lock
      PROVE  ProcInv' /\ RecInv'
  <2>1. "over" \in Phases /\ "over" \notin Locked /\ "over" \notin Inside
        /\ "over" \notin Spawning /\ "over" \notin Past
    BY DEF Phases, Locked, Inside, Spawning, Past
  <2>2. UNCHANGED <<scope, worker, record>> /\ ProcTypes
    BY DEF TakeLock, ProcInv
  <2>3. ProcInv'
    BY <1>1, <1>3, <2>1, <2>2, SupMoves DEF ProcTypes
  <2>4. RecInv'
    BY <1>3, <2>1, <2>2, RecStays
  <2> QED
    BY <2>3, <2>4
<1>4. ProcInv' /\ RecInv'
  BY <1>2, <1>3 DEF TakeLock
<1>5. CmdInv' /\ DataTypes' /\ shot' = {}
  BY CmdFrame DEF TakeLock, DataTypes
<1> QED
  BY <1>4, <1>5

\* A supervisor that has no worker, or one that may outlive it, leaves the directory's lock.
LEMMA QuitKeeps ==
  ASSUME ProcInv, RecInv, NEW s \in Supervisors, Quit(s), UNCHANGED <<worker, scope, record>>
  PROVE  ProcInv' /\ RecInv'
<1> USE Homes
<1>1. "over" \in Phases /\ "over" \notin Locked /\ "over" \notin Inside /\ "over" \in Outliving
      /\ "over" \notin Spawning /\ "over" \notin Past
  BY DEF Phases, Locked, Inside, Spawning, Past, Outliving
<1>2. lock' \in [Dirs -> Processes \cup {Free}]
  BY DEF Quit, LeaveLock, Closed, ProcInv, ProcTypes
<1>3. \A t \in Supervisors : t # s /\ lock[HomeOf[t]] = t => lock'[HomeOf[t]] = t
  BY DEF Quit, LeaveLock, Closed, ProcInv, ProcTypes, Processes
<1>4. Working(s) => lock'[HomeOf[s]] = s
  BY DEF Quit, LeaveLock, Closed, ProcInv, ProcTypes, WorkersAreSpawned, LockIsHeld, Processes
<1>5. Working(s) => scope = s
  BY DEF ProcInv, ScopeIsHeld
<1>6. ProcInv'
  BY <1>1, <1>2, <1>3, <1>4, <1>5, SupMoves DEF Quit, ProcInv, ProcTypes
<1>7. RecInv'
  BY <1>1, RecStays DEF Quit
<1> QED
  BY <1>6, <1>7

LEMMA LookAtClaimKeeps == ASSUME IInv, NEW s \in Supervisors, LookAtClaim(s) PROVE IInv'
<1> USE DEF IInv
<1>1. ASSUME SupTo(s, "claiming"), UNCHANGED lock
      PROVE  ProcInv' /\ RecInv'
  <2>1. ~Working(s) /\ lock[HomeOf[s]] = s
    BY DEF LookAtClaim, ProcInv, WorkersAreSpawned, LockIsHeld, Outliving, Locked
  <2>2. "claiming" \in Phases /\ "claiming" \notin Inside /\ "claiming" \notin Spawning
        /\ "claiming" \notin Past
    BY DEF Phases, Inside, Spawning, Past
  <2>3. UNCHANGED <<scope, worker, record>> /\ ProcTypes
    BY DEF LookAtClaim, ProcInv
  <2>4. ProcInv'
    BY <1>1, <2>1, <2>2, <2>3, SupMoves DEF ProcTypes
  <2>5. RecInv'
    BY <1>1, <2>2, <2>3, RecStays
  <2> QED
    BY <2>4, <2>5
<1>2. ProcInv' /\ RecInv'
  BY <1>1, QuitKeeps DEF LookAtClaim
<1>3. CmdInv' /\ DataTypes' /\ shot' = {}
  BY CmdFrame DEF LookAtClaim, DataTypes
<1> QED
  BY <1>2, <1>3

LEMMA TakeScopeKeeps == ASSUME IInv, NEW s \in Supervisors, TakeScope(s) PROVE IInv'
<1> USE Homes DEF IInv
<1>1. ASSUME scope = Free, scope' = s, SupTo(s, "claimed"), UNCHANGED lock
      PROVE  ProcInv' /\ RecInv'
  <2>1. ~Working(s) /\ lock[HomeOf[s]] = s
    BY DEF TakeScope, ProcInv, WorkersAreSpawned, LockIsHeld, Outliving, Locked
  <2>2. "claimed" \in Phases /\ "claimed" \notin Spawning /\ "claimed" \notin Past
    BY DEF Phases, Spawning, Past
  <2>3. UNCHANGED <<worker, record>> /\ ProcTypes
    BY DEF TakeScope, ProcInv
  <2>4. ProcInv'
    BY <1>1, <2>1, <2>2, <2>3, SupMoves DEF ProcTypes
  <2>5. RecInv'
    BY <1>1, <2>2, <2>3, RecStays
  <2> QED
    BY <2>4, <2>5
<1>2. ProcInv' /\ RecInv'
  BY <1>1, QuitKeeps DEF TakeScope
<1>3. CmdInv' /\ DataTypes' /\ shot' = {}
  BY CmdFrame DEF TakeScope, DataTypes
<1> QED
  BY <1>2, <1>3

LEMMA PublishKeeps == ASSUME IInv, NEW s \in Supervisors, Publish(s) PROVE IInv'
<1> USE Homes DEF IInv
<1> DEFINE phase == IF s \in Bounded THEN "serving" ELSE "recovering"
<1>1. /\ ~Working(s) /\ lock[HomeOf[s]] = s /\ scope = s
  BY DEF Publish, ProcInv, WorkersAreSpawned, LockIsHeld, ScopeIsHeld, Outliving, Locked, Inside
<1>2. phase \in Phases /\ (phase \in Spawning => s \notin Bounded)
  BY DEF Phases, Spawning
<1>3. Record(s) \in Records /\ Record(s).launch = s /\ Record(s).boot = boot
  <2>1. boot \in Nat
    BY DEF DataTypes
  <2> QED
    BY <2>1, Rests DEF Record, Records
<1>4. SupTo(s, phase) /\ record' = [record EXCEPT ![HomeOf[s]] = Record(s)]
      /\ UNCHANGED <<intent, request, lock, scope, worker, cmd, boot, shot>>
  BY DEF Publish
<1> HIDE DEF phase
<1>5. ProcInv'
  BY <1>1, <1>2, <1>4, SupMoves DEF ProcInv, ProcTypes
<1>6. RecInv'
  BY <1>1, <1>2, <1>3, <1>4, RecWritten DEF DataTypes, Working
<1>7. CmdInv'
  BY <1>3, <1>4, CmdFrame DEF DataTypes
<1>8. DataTypes' /\ shot' = {}
  BY <1>3, <1>4 DEF DataTypes
<1> QED
  BY <1>5, <1>6, <1>7, <1>8

\* The supervisor past its publication rewrites its own record.
LEMMA OwnRecordKeeps ==
  ASSUME IInv, NEW s \in Supervisors, NEW phase \in Phases, SupTo(s, phase), sup[s] \in Past,
         NEW new \in Records, record' = [record EXCEPT ![HomeOf[s]] = new],
         new.launch = record[HomeOf[s]].launch, new.boot = record[HomeOf[s]].boot,
         \A t \in Supervisors : t # s => worker'[t] = worker[t],
         Working(s)' /\ worker'[s].noted => new.worker = worker'[s].n,
         UNCHANGED <<intent, request, cmd, boot, shot>>
  PROVE  RecInv' /\ CmdInv' /\ DataTypes' /\ shot' = {}
<1> USE DEF IInv
<1>1. lock[HomeOf[s]] = s /\ record[HomeOf[s]].launch = s
  BY DEF ProcInv, LockIsHeld, Locked, RecInv, RecordIsOwn
<1>2. RecInv'
  BY <1>1, RecWritten DEF DataTypes
<1>3. CmdInv'
  BY CmdFrame DEF DataTypes
<1>4. DataTypes' /\ shot' = {}
  BY DEF DataTypes
<1> QED
  BY <1>2, <1>3, <1>4

LEMMA GetReadyKeeps == ASSUME IInv, NEW s \in Supervisors, GetReady(s) PROVE IInv'
<1> DEFINE new == [record[HomeOf[s]] EXCEPT !.ready = TRUE]
<1> USE Homes DEF IInv
<1>1. /\ ~Working(s) /\ lock[HomeOf[s]] = s /\ scope = s /\ sup[s] \in Past /\ s \notin Bounded
  BY DEF GetReady, ProcInv, WorkersAreSpawned, LockIsHeld, ScopeIsHeld, Outliving, Locked, Past,
         Inside, Spawning
<1>2. "boundary" \in Phases
  BY DEF Phases
<1>3. record[HomeOf[s]] \in Records
  BY DEF DataTypes, Processes
<1>4. new \in Records /\ new.launch = record[HomeOf[s]].launch /\ new.boot = record[HomeOf[s]].boot
  BY <1>3 DEF Records
<1>5. SupTo(s, "boundary") /\ record' = [record EXCEPT ![HomeOf[s]] = new]
      /\ UNCHANGED <<intent, request, lock, scope, worker, cmd, boot, shot>>
  BY DEF GetReady
<1> HIDE DEF new
<1>6. ProcInv'
  BY <1>1, <1>2, <1>5, SupMoves DEF ProcInv, ProcTypes
<1>7. RecInv' /\ CmdInv' /\ DataTypes' /\ shot' = {}
  BY <1>1, <1>2, <1>4, <1>5, OwnRecordKeeps DEF Working
<1> QED
  BY <1>6, <1>7

LEMMA SpawnKeeps == ASSUME IInv, NEW s \in Supervisors, Spawn(s) PROVE IInv'
<1> USE DEF IInv
<1>1. lock[HomeOf[s]] = s /\ scope = s /\ s \notin Bounded /\ record[HomeOf[s]].launch = s
  BY DEF Spawn, ProcInv, WorkersAreSpawned, LockIsHeld, ScopeIsHeld, Locked, Past, Inside,
         Spawning, RecInv, RecordIsOwn
<1>2. sup'[s] = "spawned" /\ \A t \in Supervisors : t # s => sup'[t] = sup[t]
  BY DEF Spawn, SupTo, ProcInv, ProcTypes
<1>3. /\ ~worker'[s].noted
      /\ \A t \in Supervisors : t # s => worker'[t] = worker[t]
  BY DEF Spawn, ProcInv, ProcTypes
<1>4. ProcTypes'
  <2>1. worker[s].n + 1 \in 0..Segments
    BY ServiceAssumption DEF Spawn, ProcInv, ProcTypes
  <2> QED
    BY <2>1 DEF Spawn, SupTo, ProcInv, ProcTypes, Phases
<1>5. LockIsHeld' /\ ScopeIsHeld'
  BY <1>1, <1>2, <1>3 DEF Spawn, ProcInv, LockIsHeld, ScopeIsHeld, Working
<1>6. WorkersAreSpawned'
  BY <1>1, <1>2, <1>3 DEF ProcInv, WorkersAreSpawned, Working, Outliving
<1>7. RecInv'
  BY <1>1, <1>2, <1>3 DEF Spawn, RecInv, RecordIsOwn, RecordsAreAtHome, Working
<1>8. CmdInv' /\ DataTypes' /\ shot' = {}
  BY CmdFrame DEF Spawn, DataTypes
<1> QED
  BY <1>4, <1>5, <1>6, <1>7, <1>8 DEF ProcInv

LEMMA NoteWorkerKeeps == ASSUME IInv, NEW s \in Supervisors, NoteWorker(s) PROVE IInv'
<1> DEFINE new == [record[HomeOf[s]] EXCEPT !.worker = worker[s].n]
<1> USE Homes DEF IInv
<1>1. lock[HomeOf[s]] = s /\ scope = s /\ sup[s] \in Past /\ s \notin Bounded
  BY DEF NoteWorker, ProcInv, WorkersAreSpawned, LockIsHeld, ScopeIsHeld, Locked, Past, Inside,
         Spawning
<1>2. record[HomeOf[s]] \in Records /\ worker[s].n \in 0..Segments
  BY DEF DataTypes, ProcInv, ProcTypes, Processes
<1>3. new \in Records /\ new.launch = record[HomeOf[s]].launch /\ new.boot = record[HomeOf[s]].boot
      /\ new.worker = worker[s].n
  BY <1>2 DEF Records
<1>4. SupTo(s, "waiting") /\ record' = [record EXCEPT ![HomeOf[s]] = new]
      /\ worker' = [worker EXCEPT ![s].noted = TRUE]
      /\ UNCHANGED <<intent, request, lock, scope, cmd, boot, shot>>
  BY DEF NoteWorker
<1> HIDE DEF new
<1>5. /\ ProcTypes' /\ sup'[s] = "waiting" /\ worker'[s].n = worker[s].n
      /\ \A t \in Supervisors : t # s => sup'[t] = sup[t] /\ worker'[t] = worker[t]
      /\ \A t \in Supervisors : worker'[t].live = worker[t].live
  BY <1>4 DEF SupTo, ProcInv, ProcTypes, Phases
<1>6. LockIsHeld' /\ ScopeIsHeld'
  BY <1>1, <1>4, <1>5 DEF ProcInv, LockIsHeld, ScopeIsHeld, Working
<1>7. WorkersAreSpawned'
  BY <1>1, <1>5 DEF ProcInv, WorkersAreSpawned, Working, Outliving
<1>8. "waiting" \in Phases
  BY DEF Phases
<1>9. RecInv' /\ CmdInv' /\ DataTypes' /\ shot' = {}
  BY <1>1, <1>3, <1>4, <1>5, <1>8, OwnRecordKeeps
<1> QED
  BY <1>5, <1>6, <1>7, <1>9 DEF ProcInv

LEMMA ReapKeeps == ASSUME IInv, NEW s \in Supervisors, Reap(s) PROVE IInv'
<1> DEFINE new == [record[HomeOf[s]] EXCEPT !.worker = 0]
<1> USE Homes DEF IInv
<1>1. /\ ~Working(s) /\ lock[HomeOf[s]] = s /\ scope = s /\ sup[s] \in Past /\ s \notin Bounded
  BY DEF Reap, ProcInv, WorkersAreSpawned, LockIsHeld, ScopeIsHeld, Locked, Past, Inside, Spawning
<1>2. "boundary" \in Phases /\ 0 \in 0..Segments
  BY ServiceAssumption DEF Phases
<1>3. record[HomeOf[s]] \in Records
  BY DEF DataTypes, Processes
<1>4. new \in Records /\ new.launch = record[HomeOf[s]].launch /\ new.boot = record[HomeOf[s]].boot
  BY <1>2, <1>3 DEF Records
<1>5. SupTo(s, "boundary") /\ record' = [record EXCEPT ![HomeOf[s]] = new]
      /\ UNCHANGED <<intent, request, lock, scope, worker, cmd, boot, shot>>
  BY DEF Reap
<1> HIDE DEF new
<1>6. ProcInv'
  BY <1>1, <1>2, <1>5, SupMoves DEF ProcInv, ProcTypes
<1>7. RecInv' /\ CmdInv' /\ DataTypes' /\ shot' = {}
  BY <1>1, <1>2, <1>4, <1>5, OwnRecordKeeps DEF Working
<1> QED
  BY <1>6, <1>7

\* The claim goes, and with it the scope unless a worker lives on.
LEMMA ReleaseKeeps ==
  ASSUME ProcInv, RecInv, NEW s \in Supervisors, sup[s] \in Past,
         NEW phase \in {"released", "released, outstanding"}, ReleaseScope(s, phase),
         Working(s) => phase = "released, outstanding", UNCHANGED <<worker, lock, record>>
  PROVE  ProcInv' /\ RecInv'
<1> USE Homes
<1>1. phase \in Phases /\ phase \notin Inside /\ phase \notin Spawning
      /\ (Working(s) => phase \in Outliving)
  BY DEF Phases, Inside, Spawning, Outliving
<1>2. lock[HomeOf[s]] = s /\ record[HomeOf[s]].launch = s
  BY DEF ProcInv, LockIsHeld, Locked, RecInv, RecordIsOwn
<1>3. scope' \in Supervisors \cup {Free} /\ (Working(s) => scope' = s)
      /\ \A t \in Supervisors : t # s /\ scope = t => scope' = t
  BY DEF ReleaseScope, LeaveLock, Closed, ProcInv, ProcTypes, ScopeIsHeld, WorkersAreSpawned
<1>4. ProcInv'
  BY <1>1, <1>2, <1>3, SupMoves DEF ReleaseScope, ProcInv, ProcTypes
<1>5. RecInv'
  BY <1>1, <1>2, RecStays DEF ReleaseScope
<1> QED
  BY <1>4, <1>5

LEMMA LeaveLoopKeeps == ASSUME IInv, NEW s \in Supervisors, LeaveLoop(s) PROVE IInv'
<1> USE DEF IInv
<1>1. ~Working(s) /\ sup[s] \in Past
  BY DEF LeaveLoop, ProcInv, WorkersAreSpawned, Outliving, Past
<1>2. ProcInv' /\ RecInv'
  BY <1>1, ReleaseKeeps DEF LeaveLoop
<1>3. CmdInv' /\ DataTypes' /\ shot' = {}
  BY CmdFrame DEF LeaveLoop, DataTypes
<1> QED
  BY <1>2, <1>3

LEMMA RaiseKeeps == ASSUME IInv, NEW s \in Supervisors, Raise(s) PROVE IInv'
<1> USE DEF IInv
<1>1. sup[s] \in Past /\ (sup[s] = "recovering" => ~Working(s))
  BY DEF Raise, ProcInv, WorkersAreSpawned, Outliving, Past
<1>2. ProcInv' /\ RecInv'
  <2>1. CASE sup[s] = "recovering"
    BY <1>1, <2>1, ReleaseKeeps DEF Raise
  <2>2. CASE sup[s] # "recovering"
    BY <1>1, <2>2, ReleaseKeeps DEF Raise
  <2> QED
    BY <2>1, <2>2
<1>3. CmdInv' /\ DataTypes' /\ shot' = {}
  BY CmdFrame DEF Raise, DataTypes
<1> QED
  BY <1>2, <1>3

LEMMA ClearRecordKeeps == ASSUME IInv, NEW s \in Supervisors, ClearRecord(s) PROVE IInv'
<1> DEFINE old == record[HomeOf[s]]
           new == [old EXCEPT !.pid = FALSE, !.worker = IF WaitedFor(s) THEN 0 ELSE @]
<1> USE Homes DEF IInv
<1>1. /\ lock[HomeOf[s]] = s /\ sup[s] \in Past /\ (WaitedFor(s) => ~Working(s))
      /\ (Working(s) => scope = s)
  BY DEF ClearRecord, ProcInv, WorkersAreSpawned, LockIsHeld, ScopeIsHeld, Locked, Past,
         Outliving, WaitedFor
<1>2. "leaving" \in Phases /\ 0 \in 0..Segments /\ "leaving" \notin Inside
      /\ "leaving" \in Outliving /\ "leaving" \notin Spawning
  BY ServiceAssumption DEF Phases, Inside, Outliving, Spawning
<1>3. old \in Records
  BY DEF DataTypes, Processes
<1>4. new \in Records /\ new.launch = old.launch /\ new.boot = old.boot
      /\ new.worker = IF WaitedFor(s) THEN 0 ELSE old.worker
  BY <1>2, <1>3 DEF Records
<1>5. SupTo(s, "leaving") /\ record' = [record EXCEPT ![HomeOf[s]] = new]
      /\ UNCHANGED <<intent, request, lock, scope, worker, cmd, boot, shot>>
  BY DEF ClearRecord
<1>6. Working(s)' /\ worker'[s].noted => new.worker = worker'[s].n
  BY <1>1, <1>4, <1>5 DEF RecInv, RecordIsOwn, Working
<1> HIDE DEF new
<1>7. ProcInv'
  BY <1>1, <1>2, <1>5, SupMoves DEF ProcInv, ProcTypes
<1>8. RecInv' /\ CmdInv' /\ DataTypes' /\ shot' = {}
  BY <1>1, <1>2, <1>4, <1>5, <1>6, OwnRecordKeeps
<1> QED
  BY <1>7, <1>8

LEMMA LeaveKeeps == ASSUME IInv, NEW s \in Supervisors, Leave(s) PROVE IInv'
<1> USE DEF IInv
<1>1. ProcInv' /\ RecInv'
  BY QuitKeeps DEF Leave
<1>2. CmdInv' /\ DataTypes' /\ shot' = {}
  BY CmdFrame DEF Leave, DataTypes
<1> QED
  BY <1>1, <1>2

LEMMA CrashKeeps == ASSUME IInv, NEW s \in Supervisors, Crash(s) PROVE IInv'
<1> USE DEF IInv
<1>1. ProcInv' /\ RecInv'
  BY DiesKeeps DEF Crash
<1>2. CmdInv' /\ DataTypes' /\ shot' = {}
  BY CmdFrame DEF Crash, DataTypes
<1> QED
  BY <1>1, <1>2

LEMMA EndWorkerKeeps == ASSUME IInv, NEW s \in Supervisors, EndWorker(s) PROVE IInv'
<1> USE DEF IInv
<1>1. ProcInv' /\ RecInv'
  BY WorkerDiesKeeps DEF EndWorker
<1>2. CmdInv' /\ DataTypes' /\ shot' = {}
  BY CmdFrame DEF EndWorker, DataTypes
<1> QED
  BY <1>1, <1>2

\* A supervisor comes to be.
LEMMA ArrivesKeeps ==
  ASSUME ProcInv, RecInv, NEW s \in Supervisors, sup[s] = "none", SupTo(s, "begun"),
         UNCHANGED <<worker, lock, scope, record>>
  PROVE  ProcInv' /\ RecInv'
<1>1. ~Working(s)
  BY DEF ProcInv, WorkersAreSpawned, Outliving
<1>2. "begun" \in Phases /\ "begun" \notin Locked /\ "begun" \notin Inside
      /\ "begun" \notin Spawning /\ "begun" \notin Past
  BY DEF Phases, Locked, Inside, Spawning, Past
<1> QED
  BY <1>1, <1>2, SupMoves, RecStays DEF ProcInv, ProcTypes

LEMMA RunKeeps == ASSUME IInv, NEW s \in Supervisors, Run(s) PROVE IInv'
<1> USE DEF IInv
<1>1. ProcInv' /\ RecInv'
  BY ArrivesKeeps DEF Run
<1>2. CmdInv' /\ DataTypes' /\ shot' = {}
  BY CmdFrame DEF Run, DataTypes
<1> QED
  BY <1>1, <1>2

-----------------------------------------------------------------------------
(* Commands                                                                  *)

\* Phases in which a command goes by a record it read.
Holding == {"request", "terminate", "worker", "finish"}

\* The record is as it was, or is rewritten with this boot in it.
RecordsOfThisBoot ==
  \A d \in Dirs : \/ record'[d].launch = record[d].launch /\ record'[d].boot = record[d].boot
                  \/ record'[d].boot = boot

LEMMA TellKeeps ==
  ASSUME CmdInv, NEW c \in Commands, NEW told, Tell(c, told), UNCHANGED boot, RecordsOfThisBoot
  PROVE  CmdInv'
<1> DEFINE down == told \in {"stopped", "not_running"}
<1>1. down \in BOOLEAN
  OBVIOUS
<1>2. cmd' = [cmd EXCEPT ![c] = Resting(down)]
  BY DEF Tell
<1> HIDE DEF down
<1>3. Resting(down) \in Cmds /\ Resting(down).phase = "idle"
  BY <1>1, Rests, RestsAre
<1>4. cmd'[c] = Resting(down)
  BY <1>2 DEF CmdInv
<1>5. Sound(c)'
  BY <1>3, <1>4 DEF Sound
<1> QED
  BY <1>2, <1>3, <1>5, OtherCommands DEF RecordsOfThisBoot

LEMMA MovesKeeps ==
  ASSUME CmdInv, NEW c \in Commands, NEW phase \in CmdPhases \ {"idle", "await"}, CmdTo(c, phase),
         cmd[c].phase # "idle", phase \in Holding => cmd[c].phase \in Holding,
         UNCHANGED boot, RecordsOfThisBoot
  PROVE  CmdInv'
<1> DEFINE new == [cmd[c] EXCEPT !.phase = phase]
<1>1. cmd[c] \in Cmds
  BY DEF CmdInv
<1>2. /\ new \in Cmds /\ new.phase = phase /\ new.down = cmd[c].down /\ new.rec = cmd[c].rec
      /\ new.owner = cmd[c].owner /\ new.stranger = cmd[c].stranger
  BY <1>1 DEF Cmds
<1>3. cmd' = [cmd EXCEPT ![c] = new]
  BY DEF CmdTo
<1> HIDE DEF new
<1>4. cmd'[c] = new
  BY <1>3 DEF CmdInv
<1>5. Sound(c)'
  BY <1>2, <1>4, Homes DEF Sound, CmdInv, Holding, RecordsOfThisBoot, Own, Processes
<1> QED
  BY <1>2, <1>3, <1>5, OtherCommands DEF RecordsOfThisBoot

LEMMA AfterStopKeeps ==
  ASSUME CmdInv, NEW c \in Commands, NEW told, AfterStop(c, told), cmd[c].phase # "idle",
         UNCHANGED boot, RecordsOfThisBoot
  PROVE  CmdInv'
<1>1. "start" \in CmdPhases \ {"idle", "await"} /\ "start" \notin Holding
  BY DEF CmdPhases, Holding
<1> QED
  BY <1>1, TellKeeps, MovesKeeps DEF AfterStop

\* A stop goes on only with the record of a service of its own installation, from this boot, whose
\* process is still the one that was recorded.
LEMMA VerdictMeans ==
  ASSUME DataTypes, RecordsAreAtHome, NEW c \in Commands,
         NEW holder \in Holders(record[HomeOf[c]]),
         Verdict(c, record[HomeOf[c]], holder) \notin {"nobody", "foreign"}
  PROVE  /\ Verdict(c, record[HomeOf[c]], holder) \in {"ours", "orphan"}
         /\ record[HomeOf[c]].launch \in Own(c) /\ record[HomeOf[c]].boot = boot
         /\ Verdict(c, record[HomeOf[c]], holder) = "ours" => ~Gone(record[HomeOf[c]].launch)
<1> DEFINE rec == record[HomeOf[c]]
<1>1. rec \in Records /\ (rec.launch = Free => ~rec.pid /\ rec.worker = 0)
      /\ (rec.launch # Free => HomeOf[rec.launch] = HomeOf[c])
  BY Homes DEF DataTypes, RecordsAreAtHome, Processes
<1>2. holder \in {"nothing", "stranger", "twin"} /\ (holder = "twin" => rec.boot # boot)
  BY DEF Holders
<1> HIDE DEF rec
<1>3. rec.launch # Free
  BY <1>1 DEF Verdict, Ownership, rec
<1>4. ~ForeignMarkers(c, rec)
  BY <1>3 DEF Verdict, Ownership, rec
<1>5. Ownership(c, rec, holder) \in {"none", "ours"}
  BY <1>3, <1>4 DEF Verdict, Ownership, rec
<1>6. rec.launch \in Own(c) /\ rec.boot = boot
  BY <1>1, <1>3, <1>4 DEF Own, ForeignMarkers, Records
<1>7. Ownership(c, rec, holder) = "ours" => ~Gone(rec.launch)
  BY <1>2, <1>3, <1>4, <1>6 DEF Ownership
<1> QED
  BY <1>5, <1>6, <1>7 DEF Verdict, rec

LEMMA ProceedKeeps ==
  ASSUME IInv, NEW c \in Commands, NEW holder \in Holders(record[HomeOf[c]]),
         Verdict(c, record[HomeOf[c]], holder) \notin {"nobody", "foreign"},
         Proceed(c, record[HomeOf[c]], Verdict(c, record[HomeOf[c]], holder)),
         cmd[c].phase # "idle", UNCHANGED <<boot, record>>
  PROVE  CmdInv'
<1> DEFINE rec == record[HomeOf[c]]
           verdict == Verdict(c, rec, holder)
           new == [cmd[c] EXCEPT !.phase = "request", !.rec = rec, !.owner = verdict,
                                 !.stranger = verdict = "ours" /\ Gone(rec.launch)]
<1>1. verdict \in {"ours", "orphan"} /\ rec.launch \in Own(c) /\ rec.boot = boot
      /\ ~(verdict = "ours" /\ Gone(rec.launch))
  BY VerdictMeans DEF IInv, RecInv
<1>2. rec \in Records
  BY Homes DEF IInv, DataTypes, Processes
<1>3. cmd[c] \in Cmds
  BY DEF IInv, CmdInv
<1>4. cmd' = [cmd EXCEPT ![c] = new]
  BY DEF Proceed
<1> HIDE DEF verdict, rec
<1>5. /\ new \in Cmds /\ new.phase = "request" /\ new.rec = rec /\ new.owner = verdict
      /\ ~new.stranger /\ new.down = cmd[c].down
  BY <1>1, <1>2, <1>3 DEF Cmds, CmdPhases
<1> HIDE DEF new
<1>6. cmd'[c] = new
  BY <1>4 DEF IInv, CmdInv
<1>7. Sound(c)'
  BY <1>1, <1>5, <1>6 DEF IInv, CmdInv, Sound, Own, rec
<1> QED
  BY <1>4, <1>5, <1>7, OtherCommands DEF IInv

LEMMA AskKeeps ==
  ASSUME IInv, NEW c \in Commands, NEW plan \in {"enable", "disable", "stop", "restart", "start"},
         Ask(c, plan)
  PROVE  IInv'
<1> DEFINE new == [Resting(FALSE) EXCEPT !.phase = Opening(plan), !.plan = plan]
<1> USE DEF IInv
<1>1. ProcInv' /\ RecInv' /\ DataTypes' /\ shot' = {}
  BY ProcFrame, RecFrame DEF Ask, DataTypes
<1>2. Opening(plan) \in {"decide", "look", "start"}
  BY DEF Opening
<1>3. Resting(FALSE) \in Cmds /\ ~Resting(FALSE).down
  BY Rests, RestsAre
<1>4. new \in Cmds /\ new.phase = Opening(plan) /\ ~new.down
  BY <1>2, <1>3 DEF Cmds, CmdPhases
<1>5. cmd' = [cmd EXCEPT ![c] = new] /\ UNCHANGED <<boot, record>>
  BY DEF Ask
<1> HIDE DEF new
<1>6. cmd'[c] = new
  BY <1>5 DEF CmdInv
<1>7. Sound(c)'
  BY <1>2, <1>4, <1>6 DEF Sound
<1>8. CmdInv'
  BY <1>4, <1>5, <1>7, OtherCommands
<1> QED
  BY <1>1, <1>8

LEMMA DecideKeeps == ASSUME IInv, NEW c \in Commands, Decide(c) PROVE IInv'
<1> USE Homes DEF IInv
<1>1. RecordsOfThisBoot /\ UNCHANGED boot /\ cmd[c].phase = "decide"
  BY DEF Decide, RecordsOfThisBoot
<1>2. "write" \in CmdPhases \ {"idle", "await"} /\ "write" \notin Holding
  BY DEF CmdPhases, Holding
<1>3. CmdTo(c, "write") \/ Tell(c, "refused")
  BY DEF Decide
<1>4. CmdInv'
  BY <1>1, <1>2, <1>3, MovesKeeps, TellKeeps
<1>5. ProcInv'
  <2>1. CASE UNCHANGED lock
    BY <2>1, ProcFrame DEF Decide
  <2>2. CASE lock[HomeOf[c]] = Free /\ lock' = [lock EXCEPT ![HomeOf[c]] = c]
    <3>1. lock' \in [Dirs -> Processes \cup {Free}]
      BY <2>2 DEF ProcInv, ProcTypes, Processes
    <3> QED
      BY <2>2, <3>1, LockTaken DEF Decide, Processes
  <2> QED
    BY <2>1, <2>2 DEF Decide, LockIfFree
<1>6. RecInv' /\ DataTypes' /\ shot' = {}
  BY RecFrame DEF Decide, DataTypes
<1> QED
  BY <1>4, <1>5, <1>6

LEMMA WriteKeeps == ASSUME IInv, NEW c \in Commands, Write(c) PROVE IInv'
<1> USE Homes DEF IInv
<1>1. RecordsOfThisBoot /\ UNCHANGED boot /\ cmd[c].phase = "write"
  BY DEF Write, RecordsOfThisBoot
<1>2. "look" \in CmdPhases \ {"idle", "await"} /\ "look" \notin Holding
  BY DEF CmdPhases, Holding
<1>3. CmdTo(c, "look") \/ Tell(c, "done")
  BY DEF Write
<1>4. CmdInv'
  BY <1>1, <1>2, <1>3, MovesKeeps, TellKeeps
<1>5. ProcInv'
  <2>1. CASE UNCHANGED lock
    BY <2>1, ProcFrame DEF Write
  <2>2. CASE lock[HomeOf[c]] = c /\ lock' = [lock EXCEPT ![HomeOf[c]] = Free]
    <3>1. lock' \in [Dirs -> Processes \cup {Free}]
      BY <2>2 DEF ProcInv, ProcTypes
    <3> QED
      BY <2>2, <3>1, LockTaken DEF Write, Processes
  <2> QED
    BY <2>1, <2>2 DEF Write
<1>6. RecInv' /\ shot' = {}
  BY RecFrame DEF Write
<1>7. DataTypes'
  BY DEF Write, DataTypes
<1> QED
  BY <1>4, <1>5, <1>6, <1>7

LEMMA LookKeeps == ASSUME IInv, NEW c \in Commands, Look(c) PROVE IInv'
<1> USE DEF IInv
<1>1. RecordsOfThisBoot /\ UNCHANGED <<boot, record>> /\ cmd[c].phase = "look"
  BY DEF Look, RecordsOfThisBoot
<1>2. PICK holder \in Holders(record[HomeOf[c]]) :
        \/ CmdTo(c, "settle")
        \/ Tell(c, "refused")
        \/ /\ Verdict(c, record[HomeOf[c]], holder) \notin {"nobody", "foreign"}
           /\ Proceed(c, record[HomeOf[c]], Verdict(c, record[HomeOf[c]], holder))
  BY DEF Look
<1>3. "settle" \in CmdPhases \ {"idle", "await"} /\ "settle" \notin Holding
  BY DEF CmdPhases, Holding
<1>4. CmdInv'
  BY <1>1, <1>2, <1>3, MovesKeeps, TellKeeps, ProceedKeeps
<1>5. ProcInv' /\ RecInv' /\ DataTypes' /\ shot' = {}
  BY ProcFrame, RecFrame DEF Look, DataTypes
<1> QED
  BY <1>4, <1>5

LEMMA SettleKeeps == ASSUME IInv, NEW c \in Commands, Settle(c) PROVE IInv'
<1> USE DEF IInv
<1>1. RecordsOfThisBoot /\ UNCHANGED <<boot, record>> /\ cmd[c].phase = "settle"
  BY DEF Settle, RecordsOfThisBoot
<1>2. \/ AfterStop(c, "not_running")
      \/ \E holder \in Holders(record[HomeOf[c]]) :
           \/ Tell(c, "refused")
           \/ /\ Verdict(c, record[HomeOf[c]], holder) \notin {"nobody", "foreign"}
              /\ Proceed(c, record[HomeOf[c]], Verdict(c, record[HomeOf[c]], holder))
  BY DEF Settle
<1>3. CmdInv'
  BY <1>1, <1>2, AfterStopKeeps, TellKeeps, ProceedKeeps
<1>4. ProcInv' /\ RecInv' /\ DataTypes' /\ shot' = {}
  BY ProcFrame, RecFrame DEF Settle, DataTypes
<1> QED
  BY <1>3, <1>4

LEMMA RequestStopKeeps == ASSUME IInv, NEW c \in Commands, RequestStop(c) PROVE IInv'
<1> USE Homes DEF IInv
<1>1. RecordsOfThisBoot /\ UNCHANGED <<boot, record>> /\ cmd[c].phase \in Holding
  BY DEF RequestStop, RecordsOfThisBoot, Holding
<1>2. "terminate" \in CmdPhases \ {"idle", "await"}
  BY DEF CmdPhases
<1>3. CmdInv'
  BY <1>1, <1>2, MovesKeeps DEF RequestStop
<1>4. ProcInv' /\ RecInv' /\ DataTypes' /\ shot' = {}
  BY ProcFrame, RecFrame DEF RequestStop, DataTypes
<1> QED
  BY <1>3, <1>4

LEMMA TerminateKeeps == ASSUME IInv, NEW c \in Commands, Terminate(c) PROVE IInv'
<1> DEFINE s == cmd[c].rec.launch
<1> USE DEF IInv
<1>1. /\ cmd[c].phase = "terminate" /\ cmd[c] \in Cmds /\ Sound(c)
      /\ UNCHANGED <<intent, request, record, worker, boot>>
  BY DEF Terminate, CmdInv
<1>2. s \in Supervisors /\ s \in Own(c) /\ ~cmd[c].stranger
  BY <1>1 DEF Sound, Own
<1>3. PICK done \in BOOLEAN : cmd' = [cmd EXCEPT ![c].phase = "worker", ![c].supDone = done]
  BY DEF Terminate
<1>4. CmdInv'
  <2> DEFINE new == [cmd[c] EXCEPT !.phase = "worker", !.supDone = done]
  <2>1. cmd' = [cmd EXCEPT ![c] = new]
    BY <1>3
  <2>2. /\ new \in Cmds /\ new.phase = "worker" /\ new.rec = cmd[c].rec
        /\ new.owner = cmd[c].owner /\ new.stranger = cmd[c].stranger /\ new.down = cmd[c].down
    BY <1>1 DEF Cmds, CmdPhases
  <2> HIDE DEF new
  <2>3. cmd'[c] = new
    BY <2>1 DEF CmdInv
  <2>4. Sound(c)'
    BY <1>1, <2>2, <2>3 DEF Sound
  <2> QED
    BY <1>1, <2>1, <2>2, <2>4, OtherCommands
<1> HIDE DEF s
<1>5. \/ UNCHANGED <<lock, scope, sup, shot>>
      \/ Dies(s) /\ shot' = shot \cup ({s} \ Own(c))
  BY <1>2 DEF Terminate, s
<1>6. ProcInv' /\ RecInv'
  BY <1>1, <1>2, <1>5, ProcFrame, RecFrame, DiesKeeps
<1>7. shot' = {}
  BY <1>2, <1>5
<1>8. DataTypes'
  BY <1>1 DEF DataTypes
<1> QED
  BY <1>4, <1>6, <1>7, <1>8

LEMMA StopWorkerKeeps == ASSUME IInv, NEW c \in Commands, StopWorker(c) PROVE IInv'
<1> DEFINE fresh == record[HomeOf[c]]
           same  == SameLaunch(cmd[c].rec, fresh)
           rec   == IF same THEN fresh ELSE cmd[c].rec
<1> USE Homes DEF IInv
<1>1. /\ cmd[c].phase = "worker" /\ cmd[c] \in Cmds /\ Sound(c) /\ fresh \in Records
      /\ UNCHANGED <<intent, request, record, sup, boot>>
  BY DEF StopWorker, CmdInv, DataTypes, Processes
<1>2. rec \in Records /\ rec.launch \in Own(c) /\ rec.launch \in Supervisors /\ rec.boot = boot
      /\ (fresh.launch = rec.launch => fresh.boot = boot)
  BY <1>1 DEF Sound, SameLaunch, Own, Cmds
<1> HIDE DEF rec
<1>3. PICK done \in BOOLEAN :
        \/ cmd' = [cmd EXCEPT ![c].phase = "finish", ![c].rec = rec, ![c].workerDone = done]
        \/ Tell(c, "replaced")
  BY DEF StopWorker, rec
<1>4. CmdInv'
  <2>1. CASE Tell(c, "replaced")
    BY <1>1, <2>1, TellKeeps DEF RecordsOfThisBoot
  <2>2. CASE cmd' = [cmd EXCEPT ![c].phase = "finish", ![c].rec = rec, ![c].workerDone = done]
    <3> DEFINE new == [cmd[c] EXCEPT !.phase = "finish", !.rec = rec, !.workerDone = done]
    <3>1. cmd' = [cmd EXCEPT ![c] = new]
      BY <2>2
    <3>2. /\ new \in Cmds /\ new.phase = "finish" /\ new.rec = rec
          /\ new.owner = cmd[c].owner /\ new.stranger = cmd[c].stranger /\ new.down = cmd[c].down
      BY <1>1, <1>2 DEF Cmds, CmdPhases
    <3> HIDE DEF new
    <3>3. cmd'[c] = new
      BY <3>1 DEF CmdInv
    <3>4. Sound(c)'
      BY <1>1, <1>2, <3>2, <3>3 DEF Sound, Own
    <3> QED
      BY <1>1, <3>1, <3>2, <3>4, OtherCommands
  <2> QED
    BY <1>3, <2>1, <2>2
<1>5. \/ UNCHANGED <<worker, lock, scope, shot>>
      \/ WorkerDies(rec.launch) /\ shot' = shot \cup ({rec.launch} \ Own(c))
  BY <1>2 DEF StopWorker, rec
<1>6. ProcInv' /\ RecInv'
  BY <1>1, <1>2, <1>5, ProcFrame, RecFrame, WorkerDiesKeeps
<1>7. shot' = {}
  BY <1>2, <1>5
<1>8. DataTypes'
  BY <1>1 DEF DataTypes
<1> QED
  BY <1>4, <1>6, <1>7, <1>8

\* Nobody relies on the record of a directory whose lock is free.
LEMMA FinishKeeps == ASSUME IInv, NEW c \in Commands, Finish(c) PROVE IInv'
<1> DEFINE d   == HomeOf[c]
           rec == cmd[c].rec
           new == [rec EXCEPT !.pid = @ /\ ~cmd[c].supDone,
                              !.worker = IF cmd[c].workerDone THEN 0 ELSE @]
<1> USE Homes DEF IInv
<1>1. /\ cmd[c].phase = "finish" /\ cmd[c] \in Cmds /\ Sound(c) /\ d \in Dirs
      /\ UNCHANGED <<intent, request, lock, scope, sup, worker, boot, shot>>
  BY DEF Finish, CmdInv, Processes
<1>2. 0 \in 0..Segments
  BY ServiceAssumption
<1>3. /\ new \in Records /\ new.launch = rec.launch /\ new.boot = boot
      /\ rec.launch \in Supervisors /\ HomeOf[rec.launch] = d
  BY <1>1, <1>2 DEF Sound, Own, Cmds, Records
<1>4. \/ UNCHANGED record
      \/ lock[d] = Free /\ record' = [record EXCEPT ![d] = new]
  BY DEF Finish, LockIfFree
<1>5. \/ \E told : Tell(c, told)
      \/ \E told : AfterStop(c, told)
  BY DEF Finish
<1> HIDE DEF new, rec, d
<1>6. record \in [Dirs -> Records]
  BY DEF DataTypes
<1>7. RecordsOfThisBoot
  BY <1>1, <1>3, <1>4, <1>6 DEF RecordsOfThisBoot
<1>8. CmdInv'
  BY <1>1, <1>5, <1>7, TellKeeps, AfterStopKeeps
<1>9. RecInv'
  <2>1. CASE UNCHANGED record
    BY <1>1, <2>1, RecFrame
  <2>2. CASE lock[d] = Free /\ record' = [record EXCEPT ![d] = new]
    <3>1. \A s \in Supervisors : sup[s] \in Past \/ Working(s) => HomeOf[s] # d
      BY <2>2 DEF ProcInv, LockIsHeld, Locked
    <3>2. record'[d] = new /\ \A e \in Dirs : e # d => record'[e] = record[e]
      BY <1>1, <1>6, <2>2
    <3>3. RecordIsOwn'
      BY <1>1, <3>1, <3>2 DEF RecInv, RecordIsOwn, Working, Processes
    <3>4. RecordsAreAtHome'
      BY <1>3, <3>2 DEF RecInv, RecordsAreAtHome
    <3> QED
      BY <3>3, <3>4 DEF RecInv
  <2> QED
    BY <1>4, <2>1, <2>2
<1>10. ProcInv' /\ DataTypes' /\ shot' = {}
  BY <1>1, <1>3, <1>4, ProcFrame DEF DataTypes
<1> QED
  BY <1>8, <1>9, <1>10

LEMMA StartKeeps == ASSUME IInv, NEW c \in Commands, Start(c) PROVE IInv'
<1> USE DEF IInv
<1>1. /\ cmd[c].phase = "start" /\ cmd[c] \in Cmds /\ ~cmd[c].down
      /\ UNCHANGED <<intent, request, record, lock, scope, worker, boot, shot>>
  BY DEF Start, CmdInv, Sound
<1>2. CASE Tell(c, "refused") /\ UNCHANGED sup
  BY <1>1, <1>2, TellKeeps, ProcFrame, RecFrame DEF RecordsOfThisBoot, DataTypes
<1>3. ASSUME NEW s \in Supervisors, sup[s] = "none", SupTo(s, "begun"),
             cmd' = [cmd EXCEPT ![c].phase = "await", ![c].own = s]
      PROVE  IInv'
  <2> DEFINE new == [cmd[c] EXCEPT !.phase = "await", !.own = s]
  <2>1. cmd' = [cmd EXCEPT ![c] = new]
    BY <1>3
  <2>2. new \in Cmds /\ new.phase = "await" /\ new.own = s /\ ~new.down
    BY <1>1 DEF Cmds, CmdPhases
  <2> HIDE DEF new
  <2>3. cmd'[c] = new
    BY <2>1 DEF CmdInv
  <2>4. Sound(c)'
    BY <2>2, <2>3 DEF Sound
  <2>5. CmdInv'
    BY <1>1, <2>1, <2>2, <2>4, OtherCommands
  <2>6. ProcInv' /\ RecInv'
    BY <1>1, <1>3, ArrivesKeeps
  <2> QED
    BY <1>1, <2>5, <2>6 DEF DataTypes
<1> QED
  BY <1>2, <1>3 DEF Start, Own

LEMMA AwaitKeeps == ASSUME IInv, NEW c \in Commands, Await(c) PROVE IInv'
<1> USE DEF IInv
<1>1. /\ cmd[c].phase = "await" /\ cmd[c].own \in Supervisors
      /\ UNCHANGED <<intent, request, record, worker, boot, shot>>
  BY DEF Await, CmdInv, Sound
<1>2. \/ UNCHANGED <<lock, scope, sup>>
      \/ Dies(cmd[c].own)
  BY DEF Await
<1>3. \E told : Tell(c, told)
  BY DEF Await
<1>4. CmdInv'
  BY <1>1, <1>3, TellKeeps DEF RecordsOfThisBoot
<1>5. ProcInv' /\ RecInv'
  BY <1>1, <1>2, ProcFrame, RecFrame, DiesKeeps
<1> QED
  BY <1>1, <1>4, <1>5 DEF DataTypes

LEMMA CommandDiesKeeps == ASSUME IInv, NEW c \in Commands, CommandDies(c) PROVE IInv'
<1> USE Homes DEF IInv
<1>1. CmdInv'
  BY TellKeeps DEF CommandDies, RecordsOfThisBoot
<1>2. /\ lock' = [d \in Dirs |-> IF lock[d] = c THEN Free ELSE lock[d]]
      /\ UNCHANGED <<sup, worker, scope>>
  BY DEF CommandDies
<1>3. ProcTypes'
  BY <1>2 DEF ProcInv, ProcTypes
<1>4. LockIsHeld'
  BY <1>2 DEF ProcInv, LockIsHeld, Working, Processes
<1>5. ScopeIsHeld' /\ WorkersAreSpawned'
  BY <1>2 DEF ProcInv, ScopeIsHeld, WorkersAreSpawned, Working
<1>6. RecInv' /\ DataTypes' /\ shot' = {}
  BY RecFrame DEF CommandDies, DataTypes
<1> QED
  BY <1>1, <1>3, <1>4, <1>5, <1>6 DEF ProcInv

LEMMA RebootKeeps == ASSUME IInv, Reboot PROVE IInv'
<1> USE Homes DEF IInv
<1>1. \A s \in Supervisors : sup'[s] \in {"none", "over"} /\ ~Working(s)'
  BY DEF Reboot, Gone, Working, ProcInv, ProcTypes
<1>2. ProcTypes'
  BY DEF Reboot, ProcInv, ProcTypes, Phases
<1>3. LockIsHeld' /\ ScopeIsHeld' /\ WorkersAreSpawned'
  BY <1>1 DEF LockIsHeld, ScopeIsHeld, WorkersAreSpawned, Locked, Past, Inside, Spawning
<1>4. RecInv'
  BY <1>1 DEF Reboot, RecInv, RecordIsOwn, RecordsAreAtHome, Past
<1>5. CmdInv'
  BY Rests, RestsAre DEF Reboot, CmdInv, Sound
<1>6. DataTypes' /\ shot' = {}
  BY DEF Reboot, DataTypes
<1> QED
  BY <1>2, <1>3, <1>4, <1>5, <1>6 DEF ProcInv

LEMMA StutterKeeps == ASSUME IInv, UNCHANGED vars PROVE IInv'
BY ProcFrame, RecFrame, CmdFrame DEF IInv, DataTypes, vars

LEMMA NextKeeps == IInv /\ [Next]_vars => IInv'
<1> SUFFICES ASSUME IInv, [Next]_vars PROVE IInv'
  OBVIOUS
<1>1. CASE UNCHANGED vars
  BY <1>1, StutterKeeps
<1>2. ASSUME NEW s \in Supervisors, Supervise(s) PROVE IInv'
  BY <1>2, BeginKeeps, TakeLockKeeps, LookAtClaimKeeps, TakeScopeKeeps, PublishKeeps,
     GetReadyKeeps, SpawnKeeps, NoteWorkerKeeps, ReapKeeps, LeaveLoopKeeps, ClearRecordKeeps,
     LeaveKeeps
     DEF Supervise
<1>3. ASSUME NEW s \in Supervisors, Run(s) \/ EndWorker(s) \/ Raise(s) \/ Crash(s) PROVE IInv'
  BY <1>3, RunKeeps, EndWorkerKeeps, RaiseKeeps, CrashKeeps
<1>4. ASSUME NEW c \in Commands, Execute(c) PROVE IInv'
  BY <1>4, DecideKeeps, WriteKeeps, LookKeeps, SettleKeeps, RequestStopKeeps, TerminateKeeps,
     StopWorkerKeeps, FinishKeeps, StartKeeps, AwaitKeeps
     DEF Execute
<1>5. ASSUME NEW c \in Commands, CommandDies(c) PROVE IInv'
  BY <1>5, CommandDiesKeeps
<1>6. ASSUME NEW c \in Commands,
             NEW plan \in {"enable", "disable", "stop", "restart", "start"}, Ask(c, plan)
      PROVE  IInv'
  BY <1>6, AskKeeps
<1>7. CASE Reboot
  BY <1>7, RebootKeeps
<1> QED
  BY <1>1, <1>2, <1>3, <1>4, <1>5, <1>6, <1>7 DEF Next

\* Who serves, or has a worker that does, holds both locks, and what a command took up is its own
\* installation's record for as long as the command goes on (SingleInstance, ScopeRegistry, stop).
THEOREM Inductive == Spec => []IInv
BY InitInvariant, NextKeeps, PTL DEF Spec

-----------------------------------------------------------------------------
(* What follows                                                              *)

\* Intents, records, supervisors, workers and locks are of their types.
THEOREM TypeCorrect == Spec => []TypeOK
<1>1. IInv => TypeOK
  BY DEF IInv, ProcInv, ProcTypes, DataTypes, TypeOK, Records
<1> QED
  BY <1>1, Inductive, PTL

\* One daemon serves the socket, with any number of installations, supervisors, commands, crashes,
\* orphaned workers and reboots (SingleInstance, ScopeRegistry).
THEOREM Alone == Spec => []ServesAlone
<1>1. IInv => ServesAlone
  BY DEF IInv, ProcInv, ScopeIsHeld, ServesAlone, Serving, Inside
<1> QED
  BY <1>1, Inductive, PTL

\* The record names a worker that outlives its supervisor for as long as it lives.
THEOREM OrphansAreReachable == Spec => []OrphanIsReachable
<1>1. IInv => OrphanIsReachable
  BY DEF IInv, RecInv, RecordIsOwn, OrphanIsReachable
<1> QED
  BY <1>1, Inductive, PTL

\* No signal reaches a process that is not a recorded one of the caller's installation.
THEOREM SignalsAreOwn == Spec => []SignalsOnlyItsOwn
<1>1. IInv => SignalsOnlyItsOwn
  BY DEF IInv, SignalsOnlyItsOwn
<1> QED
  BY <1>1, Inductive, PTL

LEMMA DownStep ==
  ASSUME IInv, [Next]_vars, NEW c \in Commands, NEW s \in Supervisors,
         cmd[c].phase # "idle", cmd'[c].down, HomeOf[s] = HomeOf[c]
  PROVE  ~Serving(s)
<1>1. cmd[c] \in Cmds /\ ~cmd[c].down
  BY DEF IInv, CmdInv, Sound
<1>2. SUFFICES lock[HomeOf[c]] = Free
  BY Homes DEF IInv, ProcInv, LockIsHeld, Serving, Locked, Past
<1>3. ASSUME NEW told, Tell(c, told) PROVE told \in {"stopped", "not_running"}
  <2> DEFINE down == told \in {"stopped", "not_running"}
  <2>1. cmd'[c] = Resting(down)
    BY <1>3 DEF Tell, IInv, CmdInv
  <2>2. down \in BOOLEAN
    OBVIOUS
  <2> HIDE DEF down
  <2>3. down
    BY <2>1, <2>2, RestsAre
  <2> QED
    BY <2>3 DEF down
<1>4. ASSUME NEW told, AfterStop(c, told) PROVE told \in {"stopped", "not_running"}
  <2>1. ASSUME CmdTo(c, "start") PROVE FALSE
    BY <1>1, <2>1 DEF CmdTo, IInv, CmdInv
  <2> QED
    BY <1>3, <1>4, <2>1 DEF AfterStop
<1>5. ASSUME NEW phase, CmdTo(c, phase) PROVE FALSE
  BY <1>1, <1>5 DEF CmdTo, IInv, CmdInv
<1>6. ASSUME NEW new, cmd' = [cmd EXCEPT ![c] = new], new.down = cmd[c].down PROVE FALSE
  BY <1>1, <1>6 DEF IInv, CmdInv
<1>7. ASSUME NEW rec, NEW verdict, Proceed(c, rec, verdict) PROVE FALSE
  <2> DEFINE new == [cmd[c] EXCEPT !.phase = "request", !.rec = rec, !.owner = verdict,
                                   !.stranger = verdict = "ours" /\ Gone(rec.launch)]
  <2>1. cmd' = [cmd EXCEPT ![c] = new]
    BY <1>7 DEF Proceed
  <2>2. new.down = cmd[c].down
    BY <1>1 DEF Cmds
  <2> QED
    BY <1>6, <2>1, <2>2
<1>8. CASE Settle(c)
  <2>1. lock[HomeOf[c]] = Free \/ (\E told \in {"refused"} : Tell(c, told))
        \/ \E rec, verdict : Proceed(c, rec, verdict)
    BY <1>8 DEF Settle, LockIfFree
  <2> QED
    BY <1>3, <1>7, <2>1
<1>9. CASE Finish(c)
  <2>1. lock[HomeOf[c]] = Free \/ (\E told \in {"replaced", "did_not_exit"} : Tell(c, told))
    BY <1>9 DEF Finish, LockIfFree
  <2> QED
    BY <1>3, <2>1
<1>10. ASSUME Execute(c), ~Settle(c), ~Finish(c) PROVE FALSE
  <2>1. ~Decide(c) /\ ~Write(c) /\ ~RequestStop(c)
    BY <1>3, <1>5 DEF Decide, Write, RequestStop
  <2>2. ~Look(c)
    <3>1. ASSUME Look(c)
          PROVE  \/ CmdTo(c, "settle") \/ Tell(c, "refused")
                 \/ \E rec, verdict : Proceed(c, rec, verdict)
      BY <3>1 DEF Look
    <3> QED
      BY <1>3, <1>5, <1>7, <3>1
  <2>3. ~Terminate(c)
    <3>1. ASSUME NEW done, cmd' = [cmd EXCEPT ![c].phase = "worker", ![c].supDone = done]
          PROVE  FALSE
      <4> DEFINE new == [cmd[c] EXCEPT !.phase = "worker", !.supDone = done]
      <4>1. cmd' = [cmd EXCEPT ![c] = new] /\ new.down = cmd[c].down
        BY <1>1, <3>1 DEF Cmds
      <4> QED
        BY <1>6, <4>1
    <3> QED
      BY <3>1 DEF Terminate
  <2>4. ~StopWorker(c)
    <3>1. ASSUME NEW rec, NEW done,
                 cmd' = [cmd EXCEPT ![c].phase = "finish", ![c].rec = rec, ![c].workerDone = done]
          PROVE  FALSE
      <4> DEFINE new == [cmd[c] EXCEPT !.phase = "finish", !.rec = rec, !.workerDone = done]
      <4>1. cmd' = [cmd EXCEPT ![c] = new] /\ new.down = cmd[c].down
        BY <1>1, <3>1 DEF Cmds
      <4> QED
        BY <1>6, <4>1
    <3>2. ~Tell(c, "replaced")
      BY <1>3
    <3> DEFINE fresh == record[HomeOf[c]]
               rec   == IF SameLaunch(cmd[c].rec, fresh) THEN fresh ELSE cmd[c].rec
    <3>3. ASSUME StopWorker(c)
          PROVE  \E done \in BOOLEAN :
                   \/ cmd' = [cmd EXCEPT ![c].phase = "finish", ![c].rec = rec,
                                         ![c].workerDone = done]
                   \/ Tell(c, "replaced")
      BY <3>3 DEF StopWorker
    <3> HIDE DEF rec
    <3> QED
      BY <3>1, <3>2, <3>3
  <2>5. ~Start(c)
    <3>1. ASSUME NEW s1, cmd' = [cmd EXCEPT ![c].phase = "await", ![c].own = s1] PROVE FALSE
      <4> DEFINE new == [cmd[c] EXCEPT !.phase = "await", !.own = s1]
      <4>1. cmd' = [cmd EXCEPT ![c] = new] /\ new.down = cmd[c].down
        BY <1>1, <3>1 DEF Cmds
      <4> QED
        BY <1>6, <4>1
    <3>2. ~Tell(c, "refused")
      BY <1>3
    <3> QED
      BY <3>1, <3>2 DEF Start
  <2>6. ~Await(c)
    BY <1>3 DEF Await
  <2> QED
    BY <1>10, <2>1, <2>2, <2>3, <2>4, <2>5, <2>6 DEF Execute
<1>11. ASSUME NEW d \in Commands, d # c,
             Execute(d) \/ CommandDies(d)
             \/ \E plan \in {"enable", "disable", "stop", "restart", "start"} : Ask(d, plan)
      PROVE  FALSE
  <2>1. \E new : cmd' = [cmd EXCEPT ![d] = new]
    BY <1>11 DEF Execute, Decide, Write, Look, Settle, RequestStop, Terminate, StopWorker, Finish,
                Start, Await, CommandDies, Ask, Tell, CmdTo, AfterStop, Proceed
  <2> QED
    BY <1>1, <1>11, <2>1 DEF IInv, CmdInv
<1>12. CASE CommandDies(c)
  BY <1>3, <1>12 DEF CommandDies
<1>13. CASE \E plan \in {"enable", "disable", "stop", "restart", "start"} : Ask(c, plan)
  BY <1>13 DEF Ask
<1>14. CASE Reboot
  BY <1>14, RestsAre DEF Reboot
<1>15. CASE UNCHANGED cmd
  BY <1>1, <1>15
<1>16. ASSUME NEW t \in Supervisors,
              Run(t) \/ Supervise(t) \/ EndWorker(t) \/ Raise(t) \/ Crash(t)
       PROVE  UNCHANGED cmd
  BY <1>16 DEF Run, Supervise, Begin, TakeLock, LookAtClaim, TakeScope, Publish, GetReady, Spawn,
               NoteWorker, Reap, LeaveLoop, ClearRecord, Leave, EndWorker, Raise, Crash
<1> QED
  BY <1>8, <1>9, <1>10, <1>11, <1>12, <1>13, <1>14, <1>15, <1>16 DEF Next, vars

\* What a stop reports as not running or stopped serves nothing in its directory at that moment.
THEOREM StopsAreTrue == Spec => StoppedIsTrue
<1>1. IInv /\ [Next]_vars =>
        [\A c \in Commands, s \in Supervisors :
           cmd[c].phase # "idle" /\ cmd'[c].down /\ HomeOf[s] = HomeOf[c] => ~Serving(s)]_vars
  BY DownStep
<1> QED
  BY <1>1, Inductive, PTL DEF Spec, StoppedIsTrue
=============================================================================
