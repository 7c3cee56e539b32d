-------------------------- MODULE ServiceHostProofs --------------------------
(***************************************************************************)
(* Proofs about the background service for every JoinTimeout < RestartWait *)
(* and every set of credentials: HostInv holds initially, every step of    *)
(* the agent, the service, the service managers, the commands and the      *)
(* clock preserves it, and it implies RestartPicksUpPairing.               *)
(***************************************************************************)
EXTENDS ServiceHost, TLAPS

USE HostAssumption DEF Alive, JoinLimit

\* A machine without the service.
LEMMA InitHostInv == HostInit => HostInv
  <1> SUFFICES ASSUME HostInit PROVE HostInv
    OBVIOUS
  <1>1. Flags
    BY Zenon DEF HostInit, Flags
  <1> QED
    BY <1>1 DEF HostInit, HostInv, HostTypeOK, MacHasNoScm, NoCredentialYet,
       StopIsOnItsWay, OldProcessEndsInTime, RestartPicksUpPairing

\* The agent's coroutine moves; nothing else does.
LEMMA AgentStepKeeps ==
  ASSUME HostInv, AgentStep \/ AgentCrashes
  PROVE  HostInv'
  <1> USE DEF AgentStep, AgentCrashes, AgentGoesTo, managerVars, commandVars,
              ghosts, processVars, HostInv
  <1>0. Flags'
    BY DEF HostTypeOK, Flags
  <1>1. HostTypeOK'
    BY <1>0 DEF HostTypeOK, MacHasNoScm
  <1>2. MacHasNoScm' /\ NoCredentialYet' /\ StopIsOnItsWay'
    BY DEF HostTypeOK, MacHasNoScm, NoCredentialYet, StopIsOnItsWay
  <1>3. OldProcessEndsInTime' /\ RestartPicksUpPairing'
    BY DEF HostTypeOK, MacHasNoScm, NoCredentialYet, OldProcessEndsInTime,
       RestartPicksUpPairing
  <1> QED BY <1>1, <1>2, <1>3

\* The loop calls agent.stop().
LEMMA AgentStopsKeeps ==
  ASSUME HostInv, AgentStops
  PROVE  HostInv'
  <1> USE DEF AgentStops, managerVars, commandVars,
              ghosts, processVars, HostInv
  <1>0. Flags'
    BY Zenon DEF HostTypeOK, Flags
  <1>1. HostTypeOK'
    BY <1>0 DEF HostTypeOK, MacHasNoScm
  <1>2. MacHasNoScm' /\ NoCredentialYet' /\ StopIsOnItsWay'
    BY DEF HostTypeOK, MacHasNoScm, NoCredentialYet, StopIsOnItsWay
  <1>3. OldProcessEndsInTime' /\ RestartPicksUpPairing'
    BY DEF HostTypeOK, MacHasNoScm, NoCredentialYet, OldProcessEndsInTime,
       RestartPicksUpPairing
  <1> QED BY <1>1, <1>2, <1>3

\* A new process has no credential.
LEMMA ServiceStartsKeeps ==
  ASSUME HostInv, ServiceStarts
  PROVE  HostInv'
  <1> USE DEF ServiceStarts, Process, managerVars, commandVars,
              ghosts, processVars, HostInv
  <1>0. Flags'
    BY Zenon DEF HostTypeOK, Flags
  <1>1. HostTypeOK'
    BY <1>0 DEF HostTypeOK, MacHasNoScm
  <1>2. MacHasNoScm' /\ NoCredentialYet' /\ StopIsOnItsWay'
    BY DEF HostTypeOK, MacHasNoScm, NoCredentialYet, StopIsOnItsWay
  <1>3. OldProcessEndsInTime' /\ RestartPicksUpPairing'
    BY DEF HostTypeOK, MacHasNoScm, NoCredentialYet, OldProcessEndsInTime,
       RestartPicksUpPairing
  <1> QED BY <1>1, <1>2, <1>3

\* SvcDoRun reads the credential that is stored now.
LEMMA SvcLoadsKeeps ==
  ASSUME HostInv, SvcLoads
  PROVE  HostInv'
  <1> USE DEF SvcLoads, ServiceReturns, Process, managerVars, commandVars,
              ghosts, processVars, HostInv
  <1>0. Flags'
    BY Zenon DEF HostTypeOK, Flags
  <1>1. HostTypeOK'
    BY <1>0 DEF HostTypeOK, MacHasNoScm
  <1>2. MacHasNoScm' /\ NoCredentialYet' /\ StopIsOnItsWay'
    BY DEF HostTypeOK, MacHasNoScm, NoCredentialYet, StopIsOnItsWay
  <1>3. OldProcessEndsInTime' /\ RestartPicksUpPairing'
    BY DEF HostTypeOK, MacHasNoScm, NoCredentialYet, OldProcessEndsInTime,
       RestartPicksUpPairing
  <1> QED BY <1>1, <1>2, <1>3

\* An error before the agent runs ends the process.
LEMMA SvcRaisesKeeps ==
  ASSUME HostInv, SvcRaises
  PROVE  HostInv'
  <1> USE DEF SvcRaises, ServiceReturns, Process, managerVars, commandVars,
              ghosts, processVars, HostInv
  <1>0. Flags'
    BY Zenon DEF HostTypeOK, Flags
  <1>1. HostTypeOK'
    BY <1>0 DEF HostTypeOK, MacHasNoScm
  <1>2. MacHasNoScm' /\ NoCredentialYet' /\ StopIsOnItsWay'
    BY DEF HostTypeOK, MacHasNoScm, NoCredentialYet, StopIsOnItsWay
  <1>3. OldProcessEndsInTime' /\ RestartPicksUpPairing'
    BY DEF HostTypeOK, MacHasNoScm, NoCredentialYet, OldProcessEndsInTime,
       RestartPicksUpPairing
  <1> QED BY <1>1, <1>2, <1>3

\* The loop, then the thread.
LEMMA SvcSpawnsKeeps ==
  ASSUME HostInv, SvcSpawns
  PROVE  HostInv'
  <1> USE DEF SvcSpawns, managerVars, commandVars,
              ghosts, processVars, HostInv
  <1>0. Flags'
    BY Zenon DEF HostTypeOK, Flags
  <1>1. HostTypeOK'
    BY <1>0 DEF HostTypeOK, MacHasNoScm
  <1>2. MacHasNoScm' /\ NoCredentialYet' /\ StopIsOnItsWay'
    BY DEF HostTypeOK, MacHasNoScm, NoCredentialYet, StopIsOnItsWay
  <1>3. OldProcessEndsInTime' /\ RestartPicksUpPairing'
    BY DEF HostTypeOK, MacHasNoScm, NoCredentialYet, OldProcessEndsInTime,
       RestartPicksUpPairing
  <1> QED BY <1>1, <1>2, <1>3

\* The join begins with its whole time left.
LEMMA SvcWaitEndsKeeps ==
  ASSUME HostInv, SvcWaitEnds
  PROVE  HostInv'
  <1> USE DEF SvcWaitEnds, managerVars, commandVars,
              ghosts, processVars, HostInv
  <1>0. Flags'
    BY Zenon DEF HostTypeOK, Flags
  <1>1. HostTypeOK'
    BY <1>0 DEF HostTypeOK, MacHasNoScm
  <1>2. MacHasNoScm' /\ NoCredentialYet' /\ StopIsOnItsWay'
    BY DEF HostTypeOK, MacHasNoScm, NoCredentialYet, StopIsOnItsWay
  <1>3. OldProcessEndsInTime' /\ RestartPicksUpPairing'
    BY DEF HostTypeOK, MacHasNoScm, NoCredentialYet, OldProcessEndsInTime,
       RestartPicksUpPairing
  <1> QED BY <1>1, <1>2, <1>3

\* The process ends with the join.
LEMMA SvcJoinEndsKeeps ==
  ASSUME HostInv, SvcJoinEnds
  PROVE  HostInv'
  <1> USE DEF SvcJoinEnds, ServiceReturns, Process, managerVars, commandVars,
              ghosts, processVars, HostInv
  <1>0. Flags'
    BY Zenon DEF HostTypeOK, Flags
  <1>1. HostTypeOK'
    BY <1>0 DEF HostTypeOK, MacHasNoScm
  <1>2. MacHasNoScm' /\ NoCredentialYet' /\ StopIsOnItsWay'
    BY DEF HostTypeOK, MacHasNoScm, NoCredentialYet, StopIsOnItsWay
  <1>3. OldProcessEndsInTime' /\ RestartPicksUpPairing'
    BY DEF HostTypeOK, MacHasNoScm, NoCredentialYet, OldProcessEndsInTime,
       RestartPicksUpPairing
  <1> QED BY <1>1, <1>2, <1>3

\* SvcStop sets the event.
LEMMA SvcStopSetsEventKeeps ==
  ASSUME HostInv, SvcStopSetsEvent
  PROVE  HostInv'
  <1> USE DEF SvcStopSetsEvent, managerVars, commandVars,
              ghosts, processVars, HostInv
  <1>0. Flags'
    BY Zenon DEF HostTypeOK, Flags
  <1>1. HostTypeOK'
    BY <1>0 DEF HostTypeOK, MacHasNoScm
  <1>2. MacHasNoScm' /\ NoCredentialYet' /\ StopIsOnItsWay'
    BY DEF HostTypeOK, MacHasNoScm, NoCredentialYet, StopIsOnItsWay
  <1>3. OldProcessEndsInTime' /\ RestartPicksUpPairing'
    BY DEF HostTypeOK, MacHasNoScm, NoCredentialYet, OldProcessEndsInTime,
       RestartPicksUpPairing
  <1> QED BY <1>1, <1>2, <1>3

\* A killed process is gone, also when the SCM starts another.
LEMMA ProcessDiesKeeps ==
  ASSUME HostInv, ProcessDies \/ ScmRestarts
  PROVE  HostInv'
  <1> USE DEF ProcessDies, ScmRestarts, Process, managerVars, commandVars,
              ghosts, processVars, HostInv
  <1>0. Flags'
    BY Zenon DEF HostTypeOK, Flags
  <1>1. HostTypeOK'
    BY <1>0 DEF HostTypeOK, MacHasNoScm
  <1>2. MacHasNoScm' /\ NoCredentialYet' /\ StopIsOnItsWay'
    BY DEF HostTypeOK, MacHasNoScm, NoCredentialYet, StopIsOnItsWay
  <1>3. OldProcessEndsInTime' /\ RestartPicksUpPairing'
    BY DEF HostTypeOK, MacHasNoScm, NoCredentialYet, OldProcessEndsInTime,
       RestartPicksUpPairing
  <1> QED BY <1>1, <1>2, <1>3

\* launchd's process starts, reads the credential and exits.
LEMMA LaunchdKeeps ==
  ASSUME HostInv, LaunchdStep
  PROVE  HostInv'
  <1> USE DEF LaunchdStep, LaunchdStarts, KeepAlive, RunLoads, RunExits, Process,
              managerVars, commandVars, ghosts, processVars, HostInv
  <1>0. Flags'
    BY Zenon DEF HostTypeOK, Flags
  <1>1. HostTypeOK'
    BY <1>0 DEF HostTypeOK, MacHasNoScm
  <1>2. MacHasNoScm' /\ NoCredentialYet' /\ StopIsOnItsWay'
    BY DEF HostTypeOK, MacHasNoScm, NoCredentialYet, StopIsOnItsWay
  <1>3. OldProcessEndsInTime' /\ RestartPicksUpPairing'
    BY DEF HostTypeOK, MacHasNoScm, NoCredentialYet, OldProcessEndsInTime,
       RestartPicksUpPairing
  <1> QED BY <1>1, <1>2, <1>3

\* RestartService starts a service that has no process.
LEMMA RestartStartsKeeps ==
  ASSUME HostInv, RestartStarts
  PROVE  HostInv'
  <1> USE DEF RestartStarts, WinStart, managerVars, commandVars,
              ghosts, processVars, HostInv
  <1>0. Flags'
    BY DEF HostTypeOK, Flags
  <1>1. HostTypeOK'
    BY <1>0 DEF HostTypeOK, MacHasNoScm
  <1>2. MacHasNoScm' /\ NoCredentialYet' /\ StopIsOnItsWay'
    BY DEF HostTypeOK, MacHasNoScm, NoCredentialYet, StopIsOnItsWay
  <1>3. OldProcessEndsInTime' /\ RestartPicksUpPairing'
    BY DEF HostTypeOK, MacHasNoScm, NoCredentialYet, OldProcessEndsInTime,
       RestartPicksUpPairing
  <1> QED BY <1>1, <1>2, <1>3

\* When RestartService gives up no earlier process is left.
LEMMA RestartGivesUpKeeps ==
  ASSUME HostInv, RestartGivesUp
  PROVE  HostInv'
  <1> USE DEF RestartGivesUp, managerVars, commandVars,
              ghosts, processVars, HostInv
  <1>0. Flags'
    BY DEF HostTypeOK, Flags
  <1>1. HostTypeOK'
    BY <1>0 DEF HostTypeOK, MacHasNoScm
  <1>2. MacHasNoScm' /\ NoCredentialYet' /\ StopIsOnItsWay'
    BY DEF HostTypeOK, MacHasNoScm, NoCredentialYet, StopIsOnItsWay
  <1>3. OldProcessEndsInTime' /\ RestartPicksUpPairing'
    BY DEF HostTypeOK, MacHasNoScm, NoCredentialYet, OldProcessEndsInTime,
       RestartPicksUpPairing
  <1> QED BY <1>1, <1>2, <1>3

\* Time passes for the join and for RestartService alike.
LEMMA TickKeeps ==
  ASSUME HostInv, Tick
  PROVE  HostInv'
  <1> USE DEF Tick, Instant, managerVars, commandVars,
              ghosts, processVars, HostInv
  <1>0. Flags'
    BY DEF HostTypeOK, Flags
  <1>1. HostTypeOK'
    BY <1>0 DEF HostTypeOK, MacHasNoScm
  <1>2. MacHasNoScm' /\ NoCredentialYet' /\ StopIsOnItsWay'
    BY DEF HostTypeOK, MacHasNoScm, NoCredentialYet, StopIsOnItsWay
  <1>3. OldProcessEndsInTime' /\ RestartPicksUpPairing'
    BY DEF HostTypeOK, MacHasNoScm, NoCredentialYet, StopIsOnItsWay, OldProcessEndsInTime,
       RestartPicksUpPairing
  <1> QED BY <1>1, <1>2, <1>3

\* No process survives a restart of the machine.
LEMMA RebootKeeps ==
  ASSUME HostInv, Reboot
  PROVE  HostInv'
  <1> USE DEF Reboot, Process, managerVars, commandVars,
              ghosts, processVars, HostInv
  <1>0. Flags'
    BY DEF HostTypeOK, Flags
  <1>1. HostTypeOK'
    BY <1>0 DEF HostTypeOK, MacHasNoScm
  <1>2. MacHasNoScm' /\ NoCredentialYet' /\ StopIsOnItsWay'
    BY DEF HostTypeOK, MacHasNoScm, NoCredentialYet, StopIsOnItsWay
  <1>3. OldProcessEndsInTime' /\ RestartPicksUpPairing'
    BY DEF HostTypeOK, MacHasNoScm, NoCredentialYet, OldProcessEndsInTime,
       RestartPicksUpPairing
  <1> QED BY <1>1, <1>2, <1>3

\* What a command that was obeyed leaves in the ghost variables.
LEMMA ObeyedGhosts ==
  ASSUME NEW run \in BOOLEAN, NEW fresh \in BOOLEAN, NEW failed \in BOOLEAN,
         HostInv, Obeyed(run, fresh, failed)
  PROVE  /\ wanted' \in BOOLEAN /\ refused' \in BOOLEAN /\ confirmed' \in BOOLEAN
         /\ confirmed' => run /\ (fresh \/ confirmed)
  BY Zenon DEF Obeyed, HostInv, HostTypeOK, Flags

\* The handles and flags that SvcStop writes stay Boolean.
LEMMA SvcStopFlags ==
  ASSUME HostInv, SvcStop
  PROVE  /\ stop_handle' \in BOOLEAN /\ setting' \in BOOLEAN
         /\ queued' \in BOOLEAN /\ told' \in BOOLEAN
  <1>1. queued' \in BOOLEAN
    <2>1. CASE svc \in {"loop", "wait"}
      BY <2>1 DEF SvcStop
    <2>2. CASE svc \notin {"loop", "wait"}
      BY <2>2 DEF SvcStop
    <2> QED BY <2>1, <2>2
  <1> QED BY <1>1 DEF SvcStop, HostInv, HostTypeOK, Flags

\* install_service: a new job of launchd, or a service that is not started.
LEMMA InstallServiceKeeps ==
  ASSUME HostInv, InstallService, UNCHANGED <<platform, stored>>,
         command' \in {"none", "restart"}, platform = "darwin" => command' = "none",
         wait_left' \in {wait_left, 0}
  PROVE  HostInv'
  <1> USE DEF HostInv, managerVars, processVars, Process
  <1>1. CASE WinInstall /\ Obeyed(FALSE, FALSE, FALSE)
    <2>1. wanted' \in BOOLEAN /\ refused' \in BOOLEAN /\ confirmed' \in BOOLEAN /\ ~confirmed'
      BY <1>1, ObeyedGhosts
    <2>2. Flags'
      BY <1>1, <2>1 DEF WinInstall, HostTypeOK, Flags
    <2>3. HostTypeOK'
      BY <1>1, <2>2 DEF WinInstall, HostTypeOK
    <2> QED
      BY <1>1, <2>1, <2>3 DEF WinInstall, HostTypeOK, MacHasNoScm, NoCredentialYet,
         StopIsOnItsWay, OldProcessEndsInTime, RestartPicksUpPairing
  <1>2. ASSUME NEW ok \in BOOLEAN, MacInstall(ok), Obeyed(ok, TRUE, FALSE) PROVE HostInv'
    <2>1. wanted' \in BOOLEAN /\ refused' \in BOOLEAN /\ confirmed' \in BOOLEAN
      BY <1>2, ObeyedGhosts
    <2>2. Flags'
      BY <1>2, <2>1 DEF MacInstall, HostTypeOK, Flags
    <2>3. HostTypeOK'
      BY <1>2, <2>2 DEF MacInstall, HostTypeOK, MacHasNoScm
    <2> QED
      BY <1>2, <2>3 DEF MacInstall, HostTypeOK, MacHasNoScm, NoCredentialYet,
         StopIsOnItsWay, OldProcessEndsInTime, RestartPicksUpPairing
  <1> QED BY <1>1, <1>2 DEF InstallService

\* start_service: only a service without a process is started anew.
LEMMA StartServiceKeeps ==
  ASSUME HostInv, StartService, UNCHANGED <<platform, stored, wait_left>>, command' = "none"
  PROVE  HostInv'
  <1> USE DEF HostInv, managerVars, processVars
  <1>1. CASE WinStart /\ Obeyed(TRUE, TRUE, FALSE)
    <2>1. wanted' \in BOOLEAN /\ refused' \in BOOLEAN /\ confirmed' \in BOOLEAN
      BY <1>1, ObeyedGhosts
    <2>2. Flags'
      BY <1>1, <2>1 DEF WinStart, HostTypeOK, Flags
    <2>3. HostTypeOK'
      BY <1>1, <2>2 DEF WinStart, HostTypeOK
    <2> QED
      BY <1>1, <2>3 DEF WinStart, HostTypeOK, MacHasNoScm, NoCredentialYet,
         StopIsOnItsWay, OldProcessEndsInTime, RestartPicksUpPairing
  <1>2. ASSUME NEW ok \in BOOLEAN, MacStart(ok), Obeyed(TRUE, ~loaded, ~loaded') PROVE HostInv'
    <2>0. loaded' \in BOOLEAN /\ (loaded => loaded')
      BY <1>2, Zenon DEF MacStart
    <2>1. /\ wanted' \in BOOLEAN /\ refused' \in BOOLEAN /\ confirmed' \in BOOLEAN
          /\ confirmed' => ~loaded \/ confirmed
      BY <1>2, Zenon DEF Obeyed
    <2>2. Flags'
      BY <1>2, <2>0, <2>1 DEF MacStart, HostTypeOK, Flags
    <2>3. HostTypeOK'
      BY <1>2, <2>0, <2>2 DEF MacStart, HostTypeOK
    <2>4. RestartPicksUpPairing'
      BY <1>2, <2>1 DEF MacStart, HostTypeOK, NoCredentialYet, RestartPicksUpPairing
    <2> QED
      BY <1>2, <2>3, <2>4 DEF MacStart, HostTypeOK, MacHasNoScm, NoCredentialYet,
         StopIsOnItsWay, OldProcessEndsInTime
  <1>3. ASSUME NEW ok \in BOOLEAN, MacInstall(ok), Obeyed(ok, TRUE, FALSE) PROVE HostInv'
    BY <1>3, InstallServiceKeeps DEF InstallService
  <1> QED BY <1>1, <1>2, <1>3 DEF StartService

\* restart_service: RestartService has all its time left when the old process is told
\* to stop.
LEMMA RestartServiceKeeps ==
  ASSUME HostInv, RestartService, UNCHANGED <<platform, stored>>
  PROVE  HostInv'
  <1> USE DEF HostInv, managerVars, processVars, ghosts
  <1>1. CASE WinRestart /\ WinStop /\ UNCHANGED ghosts
    <2>1. Flags'
      BY <1>1, SvcStopFlags DEF WinStop, HostTypeOK, Flags
    <2>2. HostTypeOK'
      BY <1>1, <2>1 DEF WinRestart, WinStop, SvcStop, HostTypeOK
    <2> QED
      BY <1>1, <2>2 DEF WinRestart, WinStop, SvcStop, HostTypeOK, MacHasNoScm,
         NoCredentialYet, StopIsOnItsWay, OldProcessEndsInTime, RestartPicksUpPairing
  <1>2. CASE /\ WinRestart /\ scm \in {"STOPPED", "FAILED"}
             /\ UNCHANGED <<managerVars, processVars, ghosts>>
    <2>1. Flags'
      BY <1>2 DEF HostTypeOK, Flags
    <2>2. HostTypeOK'
      BY <1>2, <2>1 DEF WinRestart, HostTypeOK
    <2> QED
      BY <1>2, <2>2 DEF WinRestart, HostTypeOK, MacHasNoScm, NoCredentialYet,
         StopIsOnItsWay, OldProcessEndsInTime, RestartPicksUpPairing
  <1>3. CASE MacRestart /\ Obeyed(TRUE, TRUE, FALSE) /\ command' = "none" /\ UNCHANGED wait_left
    <2>1. wanted' \in BOOLEAN /\ refused' \in BOOLEAN /\ confirmed' \in BOOLEAN
      BY <1>3, ObeyedGhosts
    <2>2. Flags'
      BY <1>3, <2>1 DEF MacRestart, Process, HostTypeOK, Flags
    <2>3. HostTypeOK'
      BY <1>3, <2>2 DEF MacRestart, Process, HostTypeOK, MacHasNoScm
    <2> QED
      BY <1>3, <2>3 DEF MacRestart, Process, HostTypeOK, MacHasNoScm, NoCredentialYet,
         StopIsOnItsWay, OldProcessEndsInTime, RestartPicksUpPairing
  <1>4. CASE StartService /\ command' = "none" /\ UNCHANGED wait_left
    BY <1>4, StartServiceKeeps
  <1> QED BY <1>1, <1>2, <1>3, <1>4 DEF RestartService, WinRestart

\* install, start and restart.
LEMMA StartingCommandsKeep ==
  ASSUME HostInv, cmd_install \/ cmd_start \/ cmd_restart
  PROVE  HostInv'
  BY InstallServiceKeeps, StartServiceKeeps, RestartServiceKeeps
     DEF cmd_install, cmd_start, cmd_restart, commandVars

\* stop.
LEMMA StopKeeps ==
  ASSUME HostInv, cmd_stop
  PROVE  HostInv'
  <1> USE DEF cmd_stop, WinStop, SvcStop, MacStop, Bootout, Obeyed, Process,
              managerVars, commandVars, ghosts, processVars, HostInv
  <1>g. wanted' \in BOOLEAN /\ refused' \in BOOLEAN /\ confirmed' \in BOOLEAN /\ ~confirmed'
    BY ObeyedGhosts
  <1>0. Flags'
    <2>1. CASE WinStop
      BY <1>g, <2>1, SvcStopFlags DEF HostTypeOK, Flags
    <2>2. CASE MacStop
      BY <1>g, <2>2 DEF HostTypeOK, Flags
    <2> QED BY <2>1, <2>2
  <1>1. HostTypeOK'
    BY <1>0 DEF HostTypeOK, MacHasNoScm
  <1>2. MacHasNoScm' /\ NoCredentialYet' /\ StopIsOnItsWay'
    BY DEF HostTypeOK, MacHasNoScm, NoCredentialYet, StopIsOnItsWay
  <1>3. OldProcessEndsInTime' /\ RestartPicksUpPairing'
    BY <1>g DEF HostTypeOK, MacHasNoScm, NoCredentialYet, OldProcessEndsInTime,
       RestartPicksUpPairing
  <1> QED BY <1>1, <1>2, <1>3

\* pair writes a new credential.
LEMMA PairKeeps ==
  ASSUME HostInv, cmd_pair
  PROVE  HostInv'
  <1> USE DEF cmd_pair, managerVars, commandVars,
              ghosts, processVars, HostInv
  <1>0. Flags'
    BY DEF HostTypeOK, Flags
  <1>1. HostTypeOK'
    BY <1>0 DEF HostTypeOK, MacHasNoScm
  <1>2. MacHasNoScm' /\ NoCredentialYet' /\ StopIsOnItsWay'
    BY DEF HostTypeOK, MacHasNoScm, NoCredentialYet, StopIsOnItsWay
  <1>3. OldProcessEndsInTime' /\ RestartPicksUpPairing'
    BY DEF HostTypeOK, MacHasNoScm, NoCredentialYet, OldProcessEndsInTime,
       RestartPicksUpPairing
  <1> QED BY <1>1, <1>2, <1>3

\* uninstall: the service is told to stop, or has no process.
LEMMA UninstallKeeps ==
  ASSUME HostInv, cmd_uninstall
  PROVE  HostInv'
  <1> USE DEF cmd_uninstall, HostInv, processVars
  <1>g. /\ wanted' \in BOOLEAN /\ refused' \in BOOLEAN /\ confirmed' \in BOOLEAN
        /\ confirmed' => confirmed
    BY Zenon DEF Obeyed, HostTypeOK, Flags
  <1>1. CASE WinUninstall
    <2>1. Flags'
      <3>1. CASE scm = "RUNNING"
        BY <1>1, <1>g, <3>1, SvcStopFlags DEF WinUninstall, HostTypeOK, Flags
      <3>2. CASE scm # "RUNNING"
        BY <1>1, <1>g, <3>2 DEF WinUninstall, HostTypeOK, Flags
      <3> QED BY <3>1, <3>2
    <2>2. HostTypeOK'
      BY <1>1, <2>1 DEF WinUninstall, SvcStop, HostTypeOK
    <2> QED
      BY <1>1, <1>g, <2>2 DEF WinUninstall, SvcStop, HostTypeOK, MacHasNoScm,
         NoCredentialYet, StopIsOnItsWay, OldProcessEndsInTime, RestartPicksUpPairing
  <1>2. CASE MacUninstall
    <2>1. Flags'
      BY <1>2, <1>g DEF MacUninstall, Bootout, Process, HostTypeOK, Flags
    <2>2. HostTypeOK'
      BY <1>2, <2>1 DEF MacUninstall, Bootout, Process, HostTypeOK, MacHasNoScm
    <2> QED
      BY <1>2, <1>g, <2>2 DEF MacUninstall, Bootout, Process, HostTypeOK, MacHasNoScm,
         NoCredentialYet, StopIsOnItsWay, OldProcessEndsInTime, RestartPicksUpPairing
  <1> QED BY <1>1, <1>2

\* pair, second part: restart what is installed, install what is not.
LEMMA PairRestartsKeeps ==
  ASSUME HostInv, PairRestarts
  PROVE  HostInv'
  <1>1. CASE installed /\ RestartService
    BY <1>1, RestartServiceKeeps DEF PairRestarts
  <1>2. CASE /\ ~installed /\ InstallService /\ wait_left' = 0
             /\ command' = (IF recovers' THEN "restart" ELSE "none")
    <2>1. platform = "darwin" => ~recovers'
      BY <1>2 DEF HostInv, MacHasNoScm, InstallService, WinInstall, MacInstall
    <2> QED BY <1>2, <2>1, InstallServiceKeeps DEF PairRestarts
  <1> QED BY <1>1, <1>2 DEF PairRestarts

\* pair and uninstall end.
LEMMA PairEndsKeeps ==
  ASSUME HostInv, PairLeavesService \/ UninstallDeletes
  PROVE  HostInv'
  <1> USE DEF PairLeavesService, UninstallDeletes, managerVars, commandVars,
              ghosts, processVars, HostInv
  <1>0. Flags'
    BY DEF HostTypeOK, Flags
  <1>1. HostTypeOK'
    BY <1>0 DEF HostTypeOK, MacHasNoScm
  <1>2. MacHasNoScm' /\ NoCredentialYet' /\ StopIsOnItsWay'
    BY DEF HostTypeOK, MacHasNoScm, NoCredentialYet, StopIsOnItsWay
  <1>3. OldProcessEndsInTime' /\ RestartPicksUpPairing'
    BY DEF HostTypeOK, MacHasNoScm, NoCredentialYet, OldProcessEndsInTime,
       RestartPicksUpPairing
  <1> QED BY <1>1, <1>2, <1>3

-----------------------------------------------------------------------------
(* The theorems. *)

\* The joint invariant of the service, its manager and the commands.
THEOREM HostInvariance == HostSpec => []HostInv
  <1>1. ASSUME HostInv, [HostNext]_hostVars PROVE HostInv'
    <2>1. CASE UNCHANGED hostVars
      <3> USE <1>1, <2>1 DEF hostVars, managerVars, processVars, commandVars, ghosts, HostInv
      <3>1. Flags'
        BY DEF HostTypeOK, Flags
      <3> QED
        BY <3>1 DEF HostTypeOK, MacHasNoScm, NoCredentialYet, StopIsOnItsWay,
           OldProcessEndsInTime, RestartPicksUpPairing
    <2>2. CASE Disturbance
      BY <1>1, <2>2, StartingCommandsKeep, StopKeeps, PairKeeps, UninstallKeeps,
         ProcessDiesKeeps, RebootKeeps DEF Disturbance
    <2>3. CASE HostNext /\ ~Disturbance
      BY <1>1, <2>3, AgentStepKeeps, AgentStopsKeeps, ServiceStartsKeeps, SvcLoadsKeeps,
         SvcRaisesKeeps, SvcSpawnsKeeps, SvcWaitEndsKeeps, SvcJoinEndsKeeps,
         SvcStopSetsEventKeeps, ProcessDiesKeeps, LaunchdKeeps, RestartStartsKeeps,
         RestartGivesUpKeeps, TickKeeps, PairRestartsKeeps, PairEndsKeeps
         DEF HostNext, SvcStep
    <2> QED BY <1>1, <2>1, <2>2, <2>3
  <1> QED BY <1>1, InitHostInv, PTL DEF HostSpec

\* Once a restart has been reported no process runs with an earlier credential.
THEOREM RestartUsesNewCredential == HostSpec => []RestartPicksUpPairing
  <1>1. HostInv => RestartPicksUpPairing
    BY DEF HostInv
  <1> QED BY <1>1, HostInvariance, PTL

\* A service that is not stopped has a process, and a process an agent only where
\* SvcDoRun or cmd_run has started one.
THEOREM HostTypeCorrect == HostSpec => []HostTypeOK
  <1>1. HostInv => HostTypeOK
    BY DEF HostInv
  <1> QED BY <1>1, HostInvariance, PTL
=============================================================================
