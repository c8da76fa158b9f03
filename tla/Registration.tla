---------------------------- MODULE Registration ----------------------------
(***************************************************************************)
(* `runtime_install.py register-mcp' and `runtime_install.py hook': who    *)
(* starts the bridge and who runs the completion adapter on this host, the *)
(* user's own files or the plugin package.  Both owners may be installed   *)
(* first, or at the same time, or be killed half way.                      *)
(*                                                                         *)
(* Everything a register-mcp run does is under one lock file (Locked); the *)
(* hook runs share none.  Only runs that apply are here: the others write  *)
(* nothing.                                                                *)
(* Every command that is registered carries the bridge's own name.         *)
(***************************************************************************)
EXTENDS Naturals, Sequences, Locked

CONSTANTS
  Registrars,   \* register-mcp runs
  Hookers,      \* hook --adapter completion runs
  TableNames,   \* names of tables of the Codex configuration
  PackageName,  \* of them, the name the plugin package declares (MCP_NAME)
  Commands,     \* commands that start the bridge
  Timeouts,     \* --timeout of a hook registration
  Settings,     \* what hook settings may say beside their owner
  Unset,        \* nobody, and nothing
  Edits,        \* model bound on edits of these files by hand
  Losses        \* model bound on runs killed and writes that fail

VARIABLES
  config,     \* the command of each bridge table of config.toml
  ownership,  \* the bridge record
  locked,     \* the ownership lock
  mcp,        \* the register-mcp runs
  hookFile,   \* the adapter's registrations in hooks.json
  settings,   \* the adapter's settings
  hook,       \* the hook runs
  reported,   \* history: a run said that the hook file is not what it meant
  edits, losses

mcpVars  == <<config, ownership, locked, mcp>>
hookVars == <<hookFile, settings, hook, reported>>
registrationVars == <<mcpVars, hookVars, edits, losses>>

Owners == {"user", "plugin"}

\* Nobody and nothing is none of the data.
ASSUME RegistrationAssumption == Unset \notin Registrars \cup Commands \cup Owners

Unowned     == [owner |-> Unset, name |-> Unset, command |-> Unset]
Owned(r)    == [owner |-> mcp[r].owner, name |-> mcp[r].name, command |-> mcp[r].command]
NoSettings  == [owner |-> Unset, says |-> Unset]
Wanted(h)   == [owner |-> hook[h].owner, says |-> hook[h].says]
HookEntry(h) == [says |-> hook[h].says, timeout |-> hook[h].timeout]

\* _other_bridge_tables: tables that start this bridge, but the one named.
Tables(view)            == {n \in TableNames : view[n] # Unset}
OtherTables(view, name) == Tables(view) \ {name}

SameBounds == UNCHANGED <<edits, losses>>
Loss == losses < Losses /\ losses' = losses + 1 /\ UNCHANGED edits
-----------------------------------------------------------------------------
(* register-mcp                                                            *)

McpAt(r, phase) == mcp[r].phase = phase
McpTo(r, phase) == mcp' = [mcp EXCEPT ![r].phase = phase]

\* The plugin registers no other name than its own.
Begin(r, owner, name, command) ==
  /\ McpAt(r, "idle") /\ (owner = "plugin" => name = PackageName)
  /\ mcp' = [mcp EXCEPT ![r] = [phase |-> "start", owner |-> owner, name |-> name,
                                command |-> command, before |-> config]]
  /\ UNCHANGED <<config, ownership, locked>> /\ SameBounds

\* The file is read, once the ownership lock is held.
Acquire(r) ==
  /\ McpAt(r, "start") /\ Free(locked)
  /\ locked' = Entered(locked, r)
  /\ mcp' = [mcp EXCEPT ![r].phase = "decide", ![r].before = config]
  /\ UNCHANGED <<config, ownership>> /\ SameBounds

\* Busy: ten seconds are over.
GiveUp(r) ==
  /\ McpAt(r, "start") /\ ~Free(locked)
  /\ McpTo(r, "over")
  /\ UNCHANGED <<config, ownership, locked>> /\ SameBounds

\* The lock file is old, and then whatever has its name is unlinked.
FindOld(r) ==
  /\ McpAt(r, "start") /\ OutOfDate(locked)
  /\ McpTo(r, "old")
  /\ UNCHANGED <<config, ownership, locked>> /\ SameBounds

Unlink(r) ==
  /\ McpAt(r, "old")
  /\ locked' = Cleared(locked)
  /\ McpTo(r, "start")
  /\ UNCHANGED <<config, ownership>> /\ SameBounds

\* _mcp_ownership: each owner is refused by what the other has, and the user by a record or a
\* table that says something else.
Conflict(r) ==
  IF mcp[r].owner = "plugin"
  THEN Tables(mcp[r].before) # {}
  ELSE \/ ownership # Unowned /\ ownership # Owned(r)
       \/ OtherTables(mcp[r].before, mcp[r].name) # {}

\* codexconfig.register
Registered(view, name, command) ==
  CASE view[name] = Unset -> "created" [] view[name] = command -> "linked" [] OTHER -> "conflict"

DecideMcp(r) ==
  LET outcome == Registered(mcp[r].before, mcp[r].name, mcp[r].command) IN
  /\ McpAt(r, "decide")
  /\ \/ Conflict(r) /\ McpTo(r, "over") /\ locked' = Left(locked, r)
     \/ ~Conflict(r) /\ mcp[r].owner = "user" /\ outcome = "conflict"
        /\ McpTo(r, "over") /\ locked' = Left(locked, r)
     \/ ~Conflict(r) /\ mcp[r].owner = "user" /\ outcome = "created"
        /\ McpTo(r, "append") /\ UNCHANGED locked
     \/ ~Conflict(r) /\ (mcp[r].owner = "plugin" \/ outcome = "linked")
        /\ McpTo(r, "record") /\ UNCHANGED locked
  /\ UNCHANGED <<config, ownership>> /\ SameBounds

\* Under the lock of the file, which is read again; what changed is not written over.
AppendTable(r) ==
  /\ McpAt(r, "append")
  /\ IF config = mcp[r].before
     THEN /\ config' = [config EXCEPT ![mcp[r].name] = mcp[r].command]
          /\ McpTo(r, "record") /\ UNCHANGED locked
     ELSE McpTo(r, "over") /\ locked' = Left(locked, r) /\ UNCHANGED config
  /\ UNCHANGED ownership /\ SameBounds

\* bridgerecord.write: never over a record that says something else.
Record(r) ==
  /\ McpAt(r, "record")
  /\ ownership' = IF ownership = Unowned THEN Owned(r) ELSE ownership
  /\ McpTo(r, "over")
  /\ locked' = Left(locked, r)
  /\ UNCHANGED config /\ SameBounds

\* The registration stays, and the run says that its record did not land.
RecordFails(r) ==
  /\ McpAt(r, "record") /\ Loss
  /\ McpTo(r, "over") /\ locked' = Left(locked, r)
  /\ UNCHANGED <<config, ownership>>

KillRegistrar(r) ==
  /\ mcp[r].phase \in {"start", "old", "decide", "append", "record"} /\ Loss
  /\ McpTo(r, "dead")
  /\ locked' = Abandoned(locked, r)
  /\ UNCHANGED <<config, ownership>>

\* An operator adds a table, changes it or takes it out.
EditConfig(n, command) ==
  /\ edits < Edits /\ edits' = edits + 1 /\ UNCHANGED losses
  /\ config' = [config EXCEPT ![n] = command]
  /\ UNCHANGED <<ownership, locked, mcp>>
-----------------------------------------------------------------------------
(* hook --adapter completion                                               *)

HookAt(h, phase) == hook[h].phase = phase
HookTo(h, phase) == hook' = [hook EXCEPT ![h].phase = phase]

\* The hook file is read before the settings are.
Look(h, owner, says, timeout) ==
  /\ HookAt(h, "idle")
  /\ hook' = [hook EXCEPT ![h] = [phase |-> "asked", owner |-> owner, says |-> says,
                                  timeout |-> timeout, seen |-> hookFile, was |-> NoSettings]]
  /\ UNCHANGED <<hookFile, settings, reported>> /\ SameBounds

\* completion.duplicate_complaints
Duplicate(h) == hook[h].seen \notin {<<>>, <<HookEntry(h)>>}

\* completion.ownership_complaints, and the duplicates of a user's registration.
Complaint(h) == IF hook[h].owner = "plugin" THEN hook[h].seen # <<>>
                ELSE settings.owner = "plugin" \/ Duplicate(h)

Ask(h) ==
  /\ HookAt(h, "asked")
  /\ HookTo(h, IF Complaint(h) THEN "over" ELSE "settle")
  /\ UNCHANGED <<hookFile, settings, reported>> /\ SameBounds

AfterSettings(h) == IF hook[h].owner = "plugin" THEN "over" ELSE "plan"

\* completion.write_configuration reads, and then, under its lock, reads again.
ReadSettings(h) ==
  /\ HookAt(h, "settle")
  /\ hook' = [hook EXCEPT ![h].was = settings,
                          ![h].phase = CASE settings = NoSettings -> "write"
                                         [] settings = Wanted(h)  -> AfterSettings(h)
                                         [] OTHER                 -> "over"]
  /\ UNCHANGED <<hookFile, settings, reported>> /\ SameBounds

WritesOver(h) ==   \* mutant
  /\ HookAt(h, "write")
  /\ settings' = Wanted(h) /\ HookTo(h, AfterSettings(h))
  /\ UNCHANGED <<hookFile, reported>> /\ SameBounds

WriteSettings(h) ==
  /\ HookAt(h, "write")
  /\ IF settings = hook[h].was THEN settings' = Wanted(h) /\ HookTo(h, AfterSettings(h))
     ELSE UNCHANGED settings /\ HookTo(h, "over")
  /\ UNCHANGED <<hookFile, reported>> /\ SameBounds

\* hooks.install reads the file anew and asks only for a registration identical to its own.
Plan(h) ==
  /\ HookAt(h, "plan")
  /\ hook' = [hook EXCEPT ![h].seen = hookFile,
                          ![h].phase = IF \E i \in DOMAIN hookFile : hookFile[i] = HookEntry(h)
                                       THEN "readback" ELSE "append"]
  /\ UNCHANGED <<hookFile, settings, reported>> /\ SameBounds

\* A file that changed is not appended to; the run reads it back all the same.
AppendHook(h) ==
  /\ HookAt(h, "append")
  /\ hookFile' = IF hookFile = hook[h].seen THEN Append(hookFile, HookEntry(h)) ELSE hookFile
  /\ HookTo(h, "readback")
  /\ UNCHANGED <<settings, reported>> /\ SameBounds

\* Exactly one, and its own.
ReadBack(h) ==
  /\ HookAt(h, "readback")
  /\ HookTo(h, "over")
  /\ reported' = (reported \/ hookFile # <<HookEntry(h)>>)
  /\ UNCHANGED <<hookFile, settings>> /\ SameBounds

KillHooker(h) ==
  /\ hook[h].phase \notin {"idle", "over", "dead"} /\ Loss
  /\ HookTo(h, "dead")
  /\ UNCHANGED <<hookFile, settings, reported>>

\* An operator takes registrations out, as the refusals ask for.
EditHooks ==
  /\ edits < Edits /\ edits' = edits + 1 /\ UNCHANGED losses
  /\ hookFile # <<>> /\ hookFile' = Tail(hookFile)
  /\ UNCHANGED <<settings, hook, reported>>
-----------------------------------------------------------------------------
McpNext ==
  \/ \E r \in Registrars :
       \/ \E o \in Owners, n \in TableNames, c \in Commands : Begin(r, o, n, c)
       \/ Acquire(r) \/ GiveUp(r) \/ FindOld(r) \/ Unlink(r) \/ DecideMcp(r) \/ AppendTable(r)
       \/ Record(r) \/ RecordFails(r) \/ KillRegistrar(r)
  \/ \E n \in TableNames, c \in Commands \cup {Unset} : EditConfig(n, c)

HookNext ==
  \/ \E h \in Hookers :
       \/ \E o \in Owners, s \in Settings, t \in Timeouts : Look(h, o, s, t)
       \/ Ask(h) \/ ReadSettings(h) \/ WriteSettings(h) \/ Plan(h) \/ AppendHook(h)
       \/ ReadBack(h) \/ KillHooker(h)
  \/ EditHooks

RegistrationNext == (McpNext /\ UNCHANGED hookVars) \/ (HookNext /\ UNCHANGED mcpVars)

IdleMcp  == [phase |-> "idle", owner |-> Unset, name |-> Unset, command |-> Unset,
             before |-> [n \in TableNames |-> Unset]]
IdleHook == [phase |-> "idle", owner |-> Unset, says |-> Unset, timeout |-> Unset, seen |-> <<>>,
             was |-> NoSettings]

\* A host may have had a table or a registration before records and settings existed.
RegistrationInit ==
  /\ config \in {[n \in TableNames |-> Unset]} \cup
                {[[n \in TableNames |-> Unset] EXCEPT ![m] = c] : m \in TableNames, c \in Commands}
  /\ hookFile \in {<<>>} \cup {<<[says |-> s, timeout |-> t]>> : s \in Settings, t \in Timeouts}
  /\ ownership = Unowned /\ locked = Unlocked /\ mcp = [r \in Registrars |-> IdleMcp]
  /\ settings = NoSettings /\ hook = [h \in Hookers |-> IdleHook] /\ reported = FALSE
  /\ edits = 0 /\ losses = 0

RegistrationSpec == RegistrationInit /\ [][RegistrationNext]_registrationVars
-----------------------------------------------------------------------------
\* No run adds a bridge to a host that has one: a table is appended only where no other starts
\* the bridge and the record is not the plugin's, and the plugin's record is written only
\* where no table starts it, unless an operator put one there since the run read the file.
\* What either asks of the other's file takes the ownership lock, and is not said once two runs
\* met in it: its file is no lock when it is old (README, disagreements).
OneBridge ==
  [][/\ config' # config /\ edits' = edits =>
          Tables(config) = {} /\ (ownership.owner # "plugin" \/ locked.met)
     /\ ownership' # ownership /\ ownership'.owner = "plugin" =>
          Tables(config) = {} \/ edits > 0 \/ locked.met
    ]_registrationVars

\* A record of the user's names a table that is there and what it starts, whichever half a run
\* was killed after and whoever ran beside it.
RecordIsOfATable ==
  ownership.owner = "user" /\ edits = 0 => config[ownership.name] = ownership.command

\* The adapter is never registered by a run beside settings that say the plugin registers it:
\* the hook runs share no lock, and what decides between two of them is that settings come
\* before the hook and are never written over.
OneHookOwner == hookFile # <<>> => settings.owner # "plugin"

\* When the adapter is registered twice, and the runs are over, one of them said so, or was
\* killed before it could.
TwoHooksAreTold ==
  Len(hookFile) > 1 /\ (\A h \in Hookers : hook[h].phase \in {"idle", "over", "dead"})
    => reported \/ \E h \in Hookers : HookAt(h, "dead")

\* The registrations, the settings and the record of them agree, or a run said that they do not,
\* and no run adds a bridge to one, as OneBridge has it.
RegistrationsAgree ==
  /\ [](RecordIsOfATable /\ OneHookOwner /\ TwoHooksAreTold)
  /\ OneBridge
=============================================================================
