---------------------------- MODULE ServiceHost ----------------------------
(***************************************************************************)
(* The process around the agent and what starts and stops it: the Windows  *)
(* service (service/windows_service.py), the LaunchAgent of macOS          *)
(* (service/macos_service.py) and the commands that manage them (cli.py).  *)
(*                                                                         *)
(* On Windows three threads meet: the SCM's control handler (SvcStop),     *)
(* SvcDoRun, and the thread with the agent's event loop.  pywin32 reports  *)
(* RUNNING before it calls SvcDoRun, so that a stop can come at any of its *)
(* lines.  On macOS the process is `eres-print-agent run` itself.  The     *)
(* SCM, pywin32's RestartService and launchctl are modelled from how this  *)
(* code uses them.                                                         *)
(***************************************************************************)
EXTENDS Integers

CONSTANTS
  JoinTimeout,   \* thread.join(timeout=15), in ticks
  RestartWait,   \* how long RestartService tries to start again (30 s), in ticks
  Secrets        \* the credentials that pairings yield; three tell old from new

\* 15 s and 30 s: the service is gone before RestartService gives up.
ASSUME HostAssumption ==
  /\ JoinTimeout \in Nat \ {0} /\ RestartWait \in Nat /\ JoinTimeout < RestartWait
  /\ 0 \notin Secrets

VARIABLES
  platform,      \* sys.platform
  installed,     \* the service is registered, the plist exists
  recovers,      \* `sc.exe failure` has configured restarts
  loaded,        \* launchd has the job
  scm,           \* the service's state
  svc,           \* where SvcDoRun or cmd_run stands; "none" without a process
  stop_handle,   \* _stop_handle, an auto-reset event
  setting,       \* SvcStop is about to set it
  queued,        \* call_soon_threadsafe(agent.stop) is in the loop's queue
  agent,         \* the agent's main coroutine
  told,          \* stop_event
  join_left,     \* ticks until the join gives up
  stored,        \* the credential on disk, 0 for none
  using,         \* the credential this process read
  command,       \* the command that is being carried out
  wait_left,     \* ticks until RestartService gives up
  wanted,        \* did the last command that was obeyed ask for a running service?
  refused,       \* did the last start fail without a process to show for it?
  confirmed      \* has a command reported a (re)start since the credential changed?

processVars == <<svc, stop_handle, setting, queued, agent, told, join_left, using>>
managerVars == <<installed, recovers, loaded, scm>>
commandVars == <<command, wait_left>>
ghosts == <<wanted, refused, confirmed>>
hostVars == <<platform, managerVars, processVars, stored, commandVars, ghosts>>

Alive == {"idle", "connecting", "online"}

Flags ==
  /\ installed \in BOOLEAN /\ recovers \in BOOLEAN /\ loaded \in BOOLEAN
  /\ stop_handle \in BOOLEAN /\ setting \in BOOLEAN /\ queued \in BOOLEAN /\ told \in BOOLEAN
  /\ wanted \in BOOLEAN /\ refused \in BOOLEAN /\ confirmed \in BOOLEAN

\* The shape of the state; a service that is not stopped has a process, and there is
\* an agent only where SvcDoRun or cmd_run has started one.
HostTypeOK ==
  /\ platform \in {"win32", "darwin"} /\ Flags
  /\ scm \in {"STOPPED", "START_PENDING", "RUNNING", "STOP_PENDING", "FAILED"}
  /\ svc \in {"none", "load", "agent", "loop", "wait", "join"}
  /\ agent \in Alive \cup {"none", "ended", "crashed"}
  /\ join_left \in Nat /\ wait_left \in 0..RestartWait
  /\ stored \in Secrets \cup {0} /\ using \in Secrets \cup {0}
  /\ command \in {"none", "pair", "restart", "uninstall"}
  /\ platform = "win32" => (svc # "none" <=> scm \in {"RUNNING", "STOP_PENDING"})
  /\ agent # "none" <=> svc \in {"wait", "join"}
  /\ svc # "none" /\ platform = "darwin" => loaded

HostInit ==
  /\ platform \in {"win32", "darwin"}
  /\ installed = FALSE /\ recovers = FALSE /\ loaded = FALSE /\ scm = "STOPPED"
  /\ svc = "none" /\ stop_handle = FALSE /\ setting = FALSE /\ queued = FALSE
  /\ agent = "none" /\ told = FALSE /\ join_left = 0 /\ using = 0
  /\ stored \in {0} \cup Secrets
  /\ command = "none" /\ wait_left = 0
  /\ wanted = FALSE /\ refused = FALSE /\ confirmed = FALSE

\* A process at point s with nothing in it yet.
Process(s) ==
  /\ svc' = s /\ agent' = "none" /\ using' = 0
  /\ stop_handle' = FALSE /\ setting' = FALSE /\ queued' = FALSE /\ told' = FALSE
  /\ join_left' = 0

-----------------------------------------------------------------------------
(* The agent's event loop, in its thread (Windows) or process (macOS). *)

AgentGoesTo(a) ==
  /\ agent' = a
  /\ UNCHANGED <<platform, managerVars, svc, stop_handle, setting, queued, told, join_left,
                 using, stored, commandVars, ghosts>>

\* run_forever looks at the stop event before it connects and after a connection or
\* an attempt is over, not while it is connected.
AgentStep ==
  \/ agent = "idle" /\ AgentGoesTo(IF told THEN "ended" ELSE "connecting")
  \/ agent = "connecting" /\ AgentGoesTo("online")
  \/ agent \in {"connecting", "online"} /\ AgentGoesTo(IF told THEN "ended" ELSE "idle")

\* An exception that leaves Agent.run: an InvalidHandshake, an OSError of
\* write_status, an error in recovery.
AgentCrashes == agent \in Alive /\ AgentGoesTo("crashed")

\* The loop calls agent.stop().
AgentStops ==
  /\ queued /\ agent \in Alive
  /\ queued' = FALSE /\ told' = TRUE
  /\ UNCHANGED <<platform, managerVars, svc, stop_handle, setting, agent, join_left, using,
                 stored, commandVars, ghosts>>

-----------------------------------------------------------------------------
(* Windows: the service's process. *)

\* main() hands the process to the SCM; RUNNING is reported, then SvcDoRun called.
ServiceStarts ==
  /\ scm = "START_PENDING"
  /\ scm' = "RUNNING" /\ Process("load") /\ refused' = FALSE
  /\ UNCHANGED <<platform, installed, recovers, loaded, stored, commandVars, wanted, confirmed>>

\* Variant: a thread that is not a daemon, and keeps the process.
ServiceReturns_Lingers ==
  /\ scm' = "STOPPED"
  /\ UNCHANGED <<platform, installed, recovers, loaded, processVars, stored, commandVars, confirmed>>
ServiceReturns ==
  /\ scm' = "STOPPED" /\ Process("none")
  /\ UNCHANGED <<platform, installed, recovers, loaded, stored, commandVars, confirmed>>

\* "Report started-then-stopped rather than crash-looping" without a credential.
SvcLoads ==
  /\ platform = "win32" /\ svc = "load"
  /\ IF stored = 0
     THEN ServiceReturns /\ wanted' = FALSE /\ UNCHANGED refused
     ELSE /\ svc' = "agent" /\ using' = stored
          /\ UNCHANGED <<platform, managerVars, stop_handle, setting, queued, agent, told,
                         join_left, stored, commandVars, ghosts>>

\* Agent() or what comes before it raises: reported as stopped, not as a failure.
SvcRaises ==
  /\ platform = "win32" /\ svc \in {"load", "agent"}
  /\ ServiceReturns /\ refused' = TRUE /\ UNCHANGED wanted

\* _loop is set, then the thread is started.
SvcSpawns ==
  /\ svc \in {"agent", "loop"}
  /\ svc' = IF svc = "agent" THEN "loop" ELSE "wait"
  /\ agent' = IF svc = "agent" THEN "none" ELSE "idle"
  /\ UNCHANGED <<platform, managerVars, stop_handle, setting, queued, told, join_left, using,
                 stored, commandVars, ghosts>>

\* Variant: a join that waits longer than RestartService does.
JoinLimit_Long == JoinTimeout + RestartWait
JoinLimit == JoinTimeout

\* WaitForSingleObject resets the event.
SvcWaitEnds ==
  /\ platform = "win32" /\ svc = "wait" /\ stop_handle
  /\ svc' = "join" /\ stop_handle' = FALSE /\ join_left' = JoinLimit
  /\ UNCHANGED <<platform, managerVars, setting, queued, agent, told, using, stored,
                 commandVars, ghosts>>

\* The thread is a daemon: the process ends with or without it.
SvcJoinEnds ==
  /\ svc = "join" /\ (agent \notin Alive \/ join_left = 0)
  /\ ServiceReturns /\ UNCHANGED <<wanted, refused>>

SvcStep == SvcLoads \/ SvcSpawns \/ SvcWaitEnds \/ SvcJoinEnds

\* SvcStop, first part: STOP_PENDING, and agent.stop is queued if there is a loop.
SvcStop ==
  /\ scm' = "STOP_PENDING" /\ setting' = TRUE
  /\ queued' = (svc \in {"loop", "wait"})
  /\ UNCHANGED <<svc, stop_handle, agent, told, join_left, using>>

\* SvcStop, last line.
SvcStopSetsEvent ==
  /\ setting
  /\ setting' = FALSE /\ stop_handle' = TRUE
  /\ UNCHANGED <<platform, managerVars, svc, queued, agent, told, join_left, using, stored,
                 commandVars, ghosts>>

\* The process is killed; the SCM restarts it, if it was told to, launchd always.
ProcessDies ==
  /\ svc # "none" /\ scm # "STOP_PENDING"
  /\ scm' = (IF recovers THEN "FAILED" ELSE "STOPPED") /\ Process("none")
  /\ UNCHANGED <<platform, installed, recovers, loaded, stored, commandVars, ghosts>>

ScmRestarts ==
  /\ scm = "FAILED"
  /\ scm' = "START_PENDING"
  /\ UNCHANGED <<platform, installed, recovers, loaded, processVars, stored, commandVars, ghosts>>

-----------------------------------------------------------------------------
(* macOS: launchd's process. *)

\* Variant: a plist without KeepAlive.
KeepAlive_Off == FALSE
KeepAlive == loaded

LaunchdStarts ==
  /\ platform = "darwin" /\ svc = "none" /\ KeepAlive
  /\ Process("load")
  /\ UNCHANGED <<platform, managerVars, stored, commandVars, ghosts>>

\* cmd_run reads the identity, or exits with 1.
RunLoads ==
  /\ platform = "darwin" /\ svc = "load"
  /\ IF stored = 0 THEN Process("none")
     ELSE /\ svc' = "wait" /\ agent' = "idle" /\ using' = stored
          /\ UNCHANGED <<stop_handle, setting, queued, told, join_left>>
  /\ UNCHANGED <<platform, managerVars, stored, commandVars, ghosts>>

\* The process ends with its coroutine.
RunExits ==
  /\ platform = "darwin" /\ agent \in {"ended", "crashed"}
  /\ Process("none")
  /\ UNCHANGED <<platform, managerVars, stored, commandVars, ghosts>>

LaunchdStep == LaunchdStarts \/ RunLoads \/ RunExits

-----------------------------------------------------------------------------
(* The commands on Windows.  One that the SCM refuses changes nothing. *)

WinInstall ==
  /\ platform = "win32" /\ ~installed /\ scm = "STOPPED"
  /\ installed' = TRUE
  /\ recovers' \in BOOLEAN    \* sc.exe may fail after the service was registered
  /\ UNCHANGED <<loaded, scm, processVars>>

WinStart ==
  /\ platform = "win32" /\ installed /\ scm \in {"STOPPED", "FAILED"}
  /\ scm' = "START_PENDING"
  /\ UNCHANGED <<installed, recovers, loaded, processVars>>

WinStop ==
  /\ platform = "win32" /\ scm = "RUNNING"
  /\ SvcStop
  /\ UNCHANGED <<installed, recovers, loaded>>

\* RestartService, first part: a service that is starting or stopping is an error.
WinRestart ==
  /\ platform = "win32" /\ installed
  /\ \/ WinStop
     \/ scm \in {"STOPPED", "FAILED"} /\ UNCHANGED <<managerVars, processVars>>
  /\ command' = "restart" /\ wait_left' = RestartWait

\* It tries to start the service every second, and in the end gives up without an
\* error.
RestartStarts ==
  /\ command = "restart"
  /\ WinStart
  /\ command' = "none" /\ wait_left' = 0
  /\ wanted' = TRUE /\ confirmed' = TRUE
  /\ UNCHANGED <<platform, stored, refused>>

RestartGivesUp ==
  /\ command = "restart" /\ wait_left = 0 /\ scm \notin {"STOPPED", "FAILED"}
  /\ command' = "none"
  /\ wanted' = TRUE /\ confirmed' = TRUE
  /\ UNCHANGED <<platform, managerVars, processVars, stored, wait_left, refused>>

\* StopService's errors are swallowed ("not running - fine").
WinUninstall ==
  /\ platform = "win32" /\ installed
  /\ installed' = FALSE /\ recovers' = FALSE
  /\ IF scm = "RUNNING" THEN SvcStop
     ELSE /\ scm' = IF scm = "FAILED" THEN "STOPPED" ELSE scm
          /\ UNCHANGED processVars
  /\ UNCHANGED loaded

-----------------------------------------------------------------------------
(* The commands on macOS. *)

\* Variant: stop by `launchctl kill`.
Bootout_Kill == UNCHANGED loaded /\ Process("none")
Bootout == loaded' = FALSE /\ Process("none")

\* A fresh process follows, by RunAtLoad.  launchctl may refuse.
MacInstall(ok) ==
  /\ platform = "darwin"
  /\ installed' = TRUE /\ loaded' = ok /\ Process("none")
  /\ UNCHANGED <<recovers, scm>>

\* The exit codes of bootstrap and kickstart are not looked at.
MacStart(ok) ==
  /\ platform = "darwin" /\ installed
  /\ loaded' = (loaded \/ ok)
  /\ UNCHANGED <<installed, recovers, scm, processVars>>

MacStop ==
  /\ platform = "darwin"
  /\ IF loaded THEN Bootout ELSE UNCHANGED <<loaded, processVars>>
  /\ UNCHANGED <<installed, recovers, scm>>

\* kickstart -k
MacRestart ==
  /\ platform = "darwin" /\ loaded
  /\ Process("none")
  /\ UNCHANGED managerVars

MacUninstall ==
  /\ platform = "darwin"
  /\ installed' = FALSE
  /\ IF loaded THEN Bootout ELSE UNCHANGED <<loaded, processVars>>
  /\ UNCHANGED <<recovers, scm>>

-----------------------------------------------------------------------------
(* cli.py *)

\* What an obeyed command asks for; `fresh` if the process is a new one.
Obeyed(run, fresh, failed) ==
  /\ wanted' = run /\ confirmed' = (run /\ (fresh \/ confirmed)) /\ refused' = failed

\* install_service of either platform.  On Windows it starts nothing.
InstallService ==
  \/ WinInstall /\ Obeyed(FALSE, FALSE, FALSE)
  \/ \E ok \in BOOLEAN : MacInstall(ok) /\ Obeyed(ok, TRUE, FALSE)

\* start_service; on a Mac without a plist it installs.
StartService ==
  \/ WinStart /\ Obeyed(TRUE, TRUE, FALSE)
  \/ \E ok \in BOOLEAN : MacStart(ok) /\ Obeyed(TRUE, ~loaded, ~loaded')
  \/ \E ok \in BOOLEAN : ~installed /\ MacInstall(ok) /\ Obeyed(ok, TRUE, FALSE)

\* restart_service; on a Mac whose job is not loaded it starts.
RestartService ==
  \/ WinRestart /\ UNCHANGED ghosts
  \/ MacRestart /\ Obeyed(TRUE, TRUE, FALSE) /\ command' = "none" /\ UNCHANGED wait_left
  \/ platform = "darwin" /\ ~loaded /\ StartService /\ command' = "none" /\ UNCHANGED wait_left

cmd_install ==
  /\ command = "none" /\ InstallService
  /\ UNCHANGED <<platform, stored, commandVars>>

cmd_start ==
  /\ command = "none" /\ StartService
  /\ UNCHANGED <<platform, stored, commandVars>>

cmd_stop ==
  /\ command = "none"
  /\ WinStop \/ MacStop
  /\ Obeyed(FALSE, FALSE, FALSE)
  /\ UNCHANGED <<platform, stored, commandVars>>

cmd_restart ==
  /\ command = "none" /\ RestartService
  /\ UNCHANGED <<platform, stored>>

\* cmd_pair, first part: web/ answers and the credential is written.
cmd_pair ==
  /\ command = "none"
  /\ stored' \in Secrets \ {stored, using}
  /\ command' = "pair" /\ confirmed' = FALSE
  /\ UNCHANGED <<platform, managerVars, processVars, wait_left, wanted, refused>>

\* "(re)start it now to pick up the ones pairing just wrote".  A new service is
\* installed and, on Windows, started by the next command unless sc.exe failed.
PairRestarts ==
  /\ command = "pair"
  /\ \/ installed /\ RestartService
     \/ ~installed /\ InstallService /\ wait_left' = 0
        /\ command' = (IF recovers' THEN "restart" ELSE "none")
  /\ UNCHANGED <<platform, stored>>

\* --no-service, no elevated prompt, or any other error.
PairLeavesService ==
  /\ command = "pair"
  /\ command' = "none"
  /\ UNCHANGED <<platform, managerVars, processVars, stored, wait_left, ghosts>>

\* cmd_uninstall: the service, then the credential.  A stop that was swallowed
\* because the service was just starting or stopping is not an obeyed one.
cmd_uninstall ==
  /\ command = "none"
  /\ WinUninstall \/ MacUninstall
  /\ Obeyed(scm = "START_PENDING" /\ wanted, FALSE, FALSE)
  /\ command' = "uninstall"
  /\ UNCHANGED <<platform, stored, wait_left>>

UninstallDeletes ==
  /\ command = "uninstall"
  /\ stored' = 0 /\ command' = "none" /\ confirmed' = FALSE
  /\ UNCHANGED <<platform, managerVars, processVars, wait_left, wanted, refused>>

-----------------------------------------------------------------------------
(* Time and the machine. *)

\* Steps that take no time beside JoinTimeout and RestartWait.
Instant ==
  \/ setting
  \/ platform = "win32" /\ svc \in {"load", "agent", "loop"}
  \/ svc = "wait" /\ stop_handle
  \/ svc = "join" /\ (agent \notin Alive \/ join_left = 0)
  \/ command = "restart" /\ scm \in {"STOPPED", "FAILED"}

Tick ==
  /\ ~Instant
  /\ join_left > 0 \/ (command = "restart" /\ wait_left > 0)
  /\ join_left' = IF join_left > 0 THEN join_left - 1 ELSE 0
  /\ wait_left' = IF wait_left > 0 THEN wait_left - 1 ELSE 0
  /\ UNCHANGED <<platform, managerVars, svc, stop_handle, setting, queued, agent, told, using,
                 stored, command, ghosts>>

\* The machine starts again: an automatic service, a login with RunAtLoad.
Reboot ==
  /\ Process("none") /\ command' = "none" /\ wait_left' = 0
  /\ scm' = IF platform = "win32" /\ installed THEN "START_PENDING" ELSE "STOPPED"
  /\ loaded' = (platform = "darwin" /\ installed)
  /\ wanted' = installed /\ refused' = FALSE
  /\ UNCHANGED <<platform, installed, recovers, stored, confirmed>>

-----------------------------------------------------------------------------
\* What people type, and what nobody asked for.
Disturbance ==
  \/ cmd_install \/ cmd_start \/ cmd_stop \/ cmd_restart \/ cmd_pair \/ cmd_uninstall
  \/ ProcessDies \/ Reboot

HostNext ==
  \/ AgentStep \/ AgentCrashes \/ AgentStops
  \/ ServiceStarts \/ SvcStep \/ SvcRaises \/ SvcStopSetsEvent \/ ScmRestarts
  \/ LaunchdStep
  \/ PairRestarts \/ PairLeavesService \/ UninstallDeletes
  \/ RestartStarts \/ RestartGivesUp \/ Tick
  \/ Disturbance

\* The service managers do what they are set up for, threads run, time passes.
\* Nothing is assumed of the agent's own progress or of who types commands.
HostSpec ==
  /\ HostInit /\ [][HostNext]_hostVars
  /\ WF_hostVars(ServiceStarts) /\ WF_hostVars(SvcStep) /\ WF_hostVars(SvcStopSetsEvent)
  /\ WF_hostVars(ScmRestarts) /\ WF_hostVars(LaunchdStep)
  /\ WF_hostVars(RestartStarts \/ RestartGivesUp) /\ WF_hostVars(Tick)

-----------------------------------------------------------------------------
(* Properties. *)

\* A service that is told to stop ends and stays down, although the agent does not
\* look at its stop event while it is connected (net/ws_client.py), a stop can
\* come before there is an agent to tell, and launchd restarts what merely exits.
StopWins == <>[]~wanted => <>[](svc = "none")

Up == svc = "wait" /\ (platform = "darwin" => agent \in Alive)

\* A service that is wanted and paired is up in the end, or (on macOS, where the agent
\* may crash for ever) again and again, whatever commands, deaths of the process and
\* reboots came before; unless Windows was not told to restart it or the last start
\* was refused.
WantedServiceRuns ==
  /\ <>[](wanted /\ stored # 0 /\ ~refused /\ (platform = "win32" => recovers))
  /\ <>[][~Disturbance]_hostVars
  => []<>Up

\* "(re)start it now to pick up the ones pairing just wrote" (cli.py): once a restart
\* has been reported, no process still runs with an earlier credential.
RestartPicksUpPairing == confirmed /\ using # 0 => using = stored

\* Violated.  "auto-restart-on-crash" (README.md): on Windows too an agent that
\* crashed is replaced while its service is wanted.
CrashedAgentReturns == agent = "crashed" /\ wanted ~> agent # "crashed" \/ ~wanted

-----------------------------------------------------------------------------
(* The inductive invariant. *)

\* launchd's process is the command itself: no SCM, no thread to join.
MacHasNoScm ==
  platform = "darwin" =>
    scm = "STOPPED" /\ ~recovers /\ command # "restart" /\ svc \in {"none", "load", "wait"}

\* A process has a credential only after it has read one.
NoCredentialYet == svc \in {"none", "load"} => using = 0

\* A service that is to stop has its event set or about to be, or is past the wait.
StopIsOnItsWay ==
  platform = "win32" /\ scm = "STOP_PENDING" => setting \/ stop_handle \/ svc = "join"

\* While RestartService waits, a process with an earlier credential is on its way out
\* and has less time left than RestartService.
OldProcessEndsInTime ==
  /\ join_left <= JoinLimit
  /\ command = "restart" /\ using \notin {0, stored} =>
       /\ scm = "STOP_PENDING"
       /\ (IF svc = "join" THEN join_left ELSE JoinLimit) < wait_left

\* What every step of the agent, the service, the managers, the commands and the
\* clock preserves: RestartPicksUpPairing needs the time that is left, and that needs
\* to know where the service stands when it is told to stop.
HostInv ==
  /\ HostTypeOK
  /\ MacHasNoScm /\ NoCredentialYet /\ StopIsOnItsWay /\ OldProcessEndsInTime
  /\ RestartPicksUpPairing
=============================================================================
