------------------------------ MODULE Managers ------------------------------
(***************************************************************************)
(* The managers that runUpdate() runs besides the network: on Linux those  *)
(* of the accounts, on Windows the ones that availableManagers() adds      *)
(* there.  A behaviour is of one platform, and of one Windows manager; the *)
(* variables of the others stay as they are.                               *)
(***************************************************************************)
EXTENDS Accounts, WindowsAccounts, Diagnostics, Wsfc, WindowsAddresses

VARIABLE goos   \* runtime.GOOS

windowsVars == <<eventVars, winAccountVars, diagnosticsVars, wsfcVars, addressVars>>
allVars == <<goos, vars, windowsVars>>

\* availableManagers()
ManagersInit ==
    /\ goos \in {"linux", "windows"}
    /\ Init /\ LoopInit
    /\ WinAccountsInit /\ DiagnosticsInit /\ WsfcInit /\ WinAddressInit
    /\ goos = "windows" =>
          /\ md = CHOOSE d \in Descriptors : TRUE
          /\ deprovision = CHOOSE b \in DeprovisionRemove : TRUE
    /\ goos = "linux" =>
          /\ mgr = CHOOSE m \in DOMAIN Parts : TRUE
          /\ wMd = CHOOSE d \in Parts[mgr] : TRUE

LinuxNext == goos = "linux" /\ Next /\ UNCHANGED <<goos, windowsVars>>

ManagerStep ==
    \/ WinAccountsStep /\ UNCHANGED <<diagnosticsVars, wsfcVars, addressVars>>
    \/ DiagnosticsStep /\ UNCHANGED <<winAccountVars, wsfcVars, addressVars>>
    \/ WsfcStep /\ UNCHANGED <<winAccountVars, diagnosticsVars, addressVars>>
    \/ WinAddressStep /\ UNCHANGED <<winAccountVars, diagnosticsVars, wsfcVars>>

\* The goroutines and programs that the managers leave behind.
BackgroundStep ==
    \/ CollectDone /\ UNCHANGED <<winAccountVars, wsfcVars, addressVars>>
    \/ (HandleConnection \/ HealthCheckDone) /\ UNCHANGED <<winAccountVars, diagnosticsVars, addressVars>>

Restart ==
    /\ RestartAgent
    /\ WinAccountsRestarted /\ DiagnosticsRestarted /\ WsfcRestarted /\ WinAddressRestarted

EventStep == MetadataEvent /\ UNCHANGED <<winAccountVars, diagnosticsVars, wsfcVars, addressVars>>

WindowsNext ==
    /\ goos = "windows" /\ UNCHANGED <<goos, vars>>
    /\ \/ EventStep \/ ManagerStep \/ BackgroundStep \/ Restart
       \/ ChangeMetadata /\ UNCHANGED <<winAccountVars, diagnosticsVars, wsfcVars, addressVars>>
       \/ Accept /\ UNCHANGED <<winAccountVars, diagnosticsVars, addressVars>>

ManagersNext == LinuxNext \/ WindowsNext

ManagersSpec == ManagersInit /\ [][ManagersNext]_allVars

OnLinux(A) == goos = "linux" /\ A /\ UNCHANGED <<goos, windowsVars>>
OnWindows(A) == goos = "windows" /\ A /\ UNCHANGED <<goos, vars>>

\* The watcher delivers an event at the latest after timeout_sec, commands and system
\* calls end, and a health check ends at its deadline.
ManagersFairSpec ==
    /\ ManagersSpec
    /\ WF_allVars(OnLinux(AgentStep))
    /\ WF_allVars(OnWindows(EventStep \/ ManagerStep))
    /\ WF_allVars(OnWindows(BackgroundStep))

-----------------------------------------------------------------------------
\* Type invariant of the managers.
ManagersTypeOK ==
    /\ TypeOK
    /\ WinAccountsTypeOK /\ DiagnosticsTypeOK /\ WsfcTypeOK /\ WinAddressTypeOK


\* What the registry says was done is not done again: no restart of the agent resets a
\* password or starts the collection of logs a second time.
NothingTwice == ResetOnce /\ CollectedOnce
=============================================================================
