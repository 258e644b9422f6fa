--------------------------- MODULE InstallerProofs ---------------------------
(***************************************************************************)
(* Proofs about Installer, for every set of zones, releases, tokens and    *)
(* certificates, on both systems and with any number of failures.          *)
(***************************************************************************)
EXTENDS Installer, TLAPS

-----------------------------------------------------------------------------
(* The inductive invariant                                                 *)

\* Nothing is installed and no command runs.
LEMMA InstallerBegins == Init => TypeOK /\ IndInv
  BY NamesAssumption, LimitsAssumption
  DEF Init, TypeOK, Commands, Steps, Env, NoCmd, NoEnv, Off, IndInv, StepInv,
      InstallInv, UpgradeInv, UninstallInv, InstallEstablishes, UpgradeConverges,
      SkewExplained, NothingLeftBehind, TrustFresh

\* Every step of every command, its failure, and a reboot preserve the
\* invariant: each step finds what the steps before it have done, and a
\* failure withdraws no more than it says.
LEMMA InstallerStep ==
    TypeOK /\ IndInv /\ [Next]_vars => TypeOK' /\ IndInv'
<1> SUFFICES ASSUME TypeOK, IndInv, [Next]_vars PROVE TypeOK' /\ IndInv'
  OBVIOUS
<1> USE NamesAssumption, LimitsAssumption, SystemsAssumption
<1> USE DEF TypeOK, Commands, Steps, Env, NoCmd, NoEnv, Off, ControllerOf
<1> USE DEF IndInv, StepInv, InstallInv, UpgradeInv, UninstallInv,
           InstallEstablishes, UpgradeConverges, SkewExplained, NothingLeftBehind,
           TrustFresh, StackMatches
<1> USE DEF Begin, Go, Succeed, GiveUp, Fail, Spend,
           cli, files, stack, volumes, host, failures, materialize
<1>1. CASE Install
  BY <1>1 DEF Install
<1>2. CASE Start
  BY <1>2 DEF Start
<1>3. CASE Stop
  BY <1>3 DEF Stop
<1>4. CASE Upgrade
  BY <1>4 DEF Upgrade
<1>5. CASE Uninstall
  BY <1>5 DEF Uninstall
<1>6. CASE Bundle
  BY <1>6 DEF Bundle
<1>7. CASE BundleFails
  BY <1>7 DEF BundleFails
<1>8. CASE WriteEnv
  BY <1>8 DEF WriteEnv, Fresh
<1>9. CASE ReplaceEnv
  BY <1>9 DEF ReplaceEnv, replaceEnv
<1>10. CASE ReplaceEnvAbsent
  BY <1>10 DEF ReplaceEnvAbsent
<1>11. CASE WriteEnvFails
  BY <1>11 DEF WriteEnvFails, Torn, replaceEnv, Fresh
<1>12. CASE Pull
  BY <1>12 DEF Pull
<1>13. CASE Up
  BY <1>13 DEF Up, UpEffect, Opened
<1>14. CASE UpFails
  BY <1>14 DEF UpFails, Opened
<1>15. CASE Halt
  BY <1>15 DEF Halt
<1>16. CASE HaltFails
  BY <1>16 DEF HaltFails, StackLeft
<1>17. CASE Down
  BY <1>17 DEF Down
<1>18. CASE DownFails
  BY <1>18 DEF DownFails, StackLeft
<1>19. CASE Remove
  BY <1>19 DEF Remove
<1>20. CASE RemoveFails
  BY <1>20 DEF RemoveFails
<1>21. CASE Resolve
  BY <1>21 DEF Resolve, PlanInstall
<1>22. CASE copyCA
  BY <1>22 DEF copyCA
<1>23. CASE copyCARetry
  BY <1>23 DEF copyCARetry
<1>24. CASE copyCAFails
  BY <1>24 DEF copyCAFails
<1>25. CASE Trust
  BY <1>25 DEF Trust, PlanTrust
<1>26. CASE Unresolve
  BY <1>26 DEF Unresolve, PlanUninstall, ZoneLost
<1>27. CASE UnresolveLost
  BY <1>27 DEF UnresolveLost, ZoneLost
<1>28. CASE Untrust
  BY <1>28 DEF Untrust
<1>29. CASE UntrustAbsent
  BY <1>29 DEF UntrustAbsent
<1>30. CASE Download
  BY <1>30 DEF Download
<1>31. CASE Stage
  BY <1>31 DEF Stage
<1>32. CASE StageFails
  BY <1>32 DEF StageFails
<1>33. CASE Swap
  BY <1>33 DEF Swap
<1>34. CASE SwapFails
  BY <1>34 DEF SwapFails
<1>35. CASE FailClean
  BY <1>35 DEF FailClean
<1>36. CASE MintCA
  BY <1>36 DEF MintCA
<1>37. CASE Reboot
  BY <1>37 DEF Reboot
<1>38. CASE UNCHANGED vars
  BY <1>38 DEF vars
<1> QED
  BY <1>1, <1>2, <1>3, <1>4, <1>5, <1>6, <1>7, <1>8, <1>9, <1>10, <1>11, <1>12,
     <1>13, <1>14, <1>15, <1>16, <1>17, <1>18, <1>19, <1>20, <1>21, <1>22, <1>23, <1>24,
     <1>25, <1>26, <1>27, <1>28, <1>29, <1>30, <1>31, <1>32, <1>33, <1>34, <1>35, <1>36,
     <1>37, <1>38 DEF Next, Run, Advance

\* No command ever leaves a value out of its type; above all the lrp executable
\* is a whole release at all times, however often an upgrade is interrupted
\* (upgradeCLI writes a staged file and renames it).
THEOREM InstallerTypes == Spec => []TypeOK
<1>1. TypeOK /\ IndInv /\ [Next]_vars => (TypeOK /\ IndInv)'
  BY InstallerStep
<1> QED
  BY InstallerBegins, <1>1, PTL DEF Spec

\* The inductive invariant holds.
THEOREM InstallerInvariant == Spec => []IndInv
<1>1. TypeOK /\ IndInv /\ [Next]_vars => (TypeOK /\ IndInv)'
  BY InstallerStep
<1> QED
  BY InstallerBegins, <1>1, PTL DEF Spec

-----------------------------------------------------------------------------
(* The safety properties                                                   *)

\* A successful install leaves the machine set up, whatever came before it.
THEOREM InstallIsComplete == Spec => []InstallEstablishes
  BY InstallerInvariant, PTL DEF IndInv

\* A successful upgrade has moved the executable, the files and the running
\* stack, whatever an earlier one left half done.
THEOREM UpgradeIsComplete == Spec => []UpgradeConverges
  BY InstallerInvariant, PTL DEF IndInv

\* Only an unfinished install or upgrade makes the running stack differ from
\* the installation files.
THEOREM SkewIsExplained == Spec => []SkewExplained
  BY InstallerInvariant, PTL DEF IndInv

\* Nothing on the host outlives the installation files that uninstall needs.
THEOREM NothingIsLeftBehind == Spec => []NothingLeftBehind
  BY InstallerInvariant, PTL DEF IndInv

\* The host trusts no authority but the one in Caddy's volume.
THEOREM TrustIsFresh == Spec => []TrustFresh
  BY InstallerInvariant, PTL DEF IndInv

-----------------------------------------------------------------------------
(* An installation keeps its token                                         *)

\* Unless a write has failed, the file and the running stack have a token and a
\* zone.
Settled ==
    /\ torn = "no" /\ env # NoEnv => env.token \in Tokens /\ env.zone \in Zones
    /\ Gated

\* No step removes them.
LEMMA SettledStep ==
    TypeOK /\ IndInv /\ Settled /\ [Next]_vars => Settled'
<1> SUFFICES ASSUME TypeOK, IndInv, Settled, [Next]_vars
             PROVE Settled'
  OBVIOUS
<1> USE NamesAssumption DEF Settled, Gated, IndInv, StepInv, TypeOK, Env, Commands,
        NoCmd, NoEnv, Off, ControllerOf, cli, files, stack, volumes, host, failures,
        Begin, Go, Succeed, GiveUp, Fail, Spend
<1>1. CASE Run
  BY <1>1 DEF Run, Install, Start, Stop, Upgrade, Uninstall
<1>2. CASE Bundle \/ BundleFails \/ Pull \/ FailClean
  BY <1>2 DEF Bundle, BundleFails, Pull, FailClean
<1>3. CASE WriteEnv
  BY <1>3 DEF WriteEnv, materialize, Fresh
<1>4. CASE ReplaceEnv \/ ReplaceEnvAbsent
  BY <1>4 DEF ReplaceEnv, ReplaceEnvAbsent, replaceEnv
<1>5. CASE WriteEnvFails
  BY <1>5 DEF WriteEnvFails
<1>6. CASE Up \/ UpFails
  BY <1>6 DEF Up, UpFails, UpEffect
<1>7. CASE Halt \/ HaltFails \/ Down \/ DownFails \/ Reboot
  BY <1>7 DEF Halt, HaltFails, Down, DownFails, Reboot, StackLeft
<1>8. CASE Remove \/ RemoveFails
  BY <1>8 DEF Remove, RemoveFails
<1>9. CASE Resolve \/ copyCA \/ copyCARetry \/ copyCAFails \/ Trust \/ MintCA
  BY <1>9 DEF Resolve, copyCA, copyCARetry, copyCAFails, Trust, MintCA
<1>10. CASE Unresolve \/ UnresolveLost \/ Untrust \/ UntrustAbsent
  BY <1>10 DEF Unresolve, UnresolveLost, Untrust, UntrustAbsent
<1>11. CASE Download \/ Stage \/ StageFails \/ Swap \/ SwapFails
  BY <1>11 DEF Download, Stage, StageFails, Swap, SwapFails
<1>12. CASE UNCHANGED vars
  BY <1>12 DEF vars
<1> QED
  BY <1>1, <1>2, <1>3, <1>4, <1>5, <1>6, <1>7, <1>8, <1>9, <1>10, <1>11, <1>12
  DEF Next, Advance

\* As long as no write of .env fails, every controller that lrp starts has the
\* token of a generated installation.
THEOREM InstallationIsGated == Spec => []Gated
<1>1. Init => TypeOK /\ IndInv /\ Settled
  BY InstallerBegins DEF Init, Settled, Gated
<1>2. TypeOK /\ IndInv /\ Settled /\ [Next]_vars => (TypeOK /\ IndInv /\ Settled)'
  BY InstallerStep, SettledStep
<1>3. Settled => Gated
  BY DEF Settled
<1> QED
  BY <1>1, <1>2, <1>3, PTL DEF Spec
=============================================================================
