--------------------------- MODULE Upgrade_proofs ---------------------------
(***************************************************************************)
(* Theorems about Upgrade, for any number of processes and versions and    *)
(* any number of losses of power.                                          *)
(***************************************************************************)
EXTENDS Upgrade, FiniteSetTheorems, TLAPS

Places == {"none", "forked", "started", "plan", "download", "verify", "install", "untar",
           "installer", "touch"}

\* The types the proofs need.
Shape ==
    /\ pc \in [Procs -> Places] /\ mode \in [Procs -> {"to", "continue"}]
    /\ tarVer \in Nat
    /\ slot \in [Slots -> Nat] /\ running \in Slots /\ kernel \in Slots

\* p is past the check of main.
Working(p) == pc[p] \notin {"none", "forked", "started"}

\* One process at most is, and what it does agrees with the state file.
Single == \A p, q \in Procs : Working(p) /\ Working(q) => p = q

Core == Shape /\ Single

LEMMA InitCore == Init => Core
<1> SUFFICES ASSUME Init  PROVE Core
  OBVIOUS
<1>1. pc \in [Procs -> Places] /\ mode \in [Procs -> {"to", "continue"}]
  BY DEF Init, Places
<1>2. slot \in [Slots -> Nat]
  BY DEF Init
<1>3. tarVer \in Nat /\ running \in Slots /\ kernel \in Slots
  BY DEF Init, Slots
<1>4. Single
  BY DEF Init, Single, Working
<1> QED  BY <1>1, <1>2, <1>3, <1>4 DEF Core, Shape

\* A process that goes on stays the only one.
LEMMA GoOn ==
  ASSUME Core, NEW p \in Procs, Working(p), NEW place \in Places,
         pc' = [pc EXCEPT ![p] = place]
  PROVE  /\ pc' \in [Procs -> Places] /\ Single'
         /\ \A q \in Procs \ {p} : ~Working(q) /\ ~Working(q)' /\ pc'[q] = pc[q]
         /\ pc'[p] = place
<1>1. pc \in [Procs -> Places]
  BY DEF Core, Shape
<1>2. \A q \in Procs \ {p} : ~Working(q)
  BY DEF Core, Single
<1>3. \A q \in Procs \ {p} : pc'[q] = pc[q]
  BY <1>1
<1>4. \A q \in Procs \ {p} : ~Working(q)'
  BY <1>2, <1>3 DEF Working
<1> QED  BY <1>1, <1>2, <1>3, <1>4 DEF Single

\* main lets a process go on only when it finds no other.
LEMMA MainAlone ==
  ASSUME Core, NEW p \in Procs, Main(p)
  PROVE  /\ Core'
         /\ \A q \in Procs \ {p} : pc'[q] = pc[q]
         /\ Working(p)' => \A q \in Procs \ {p} : pc[q] \in {"none", "forked"}
         /\ ~Working(p)
<1>1. pc \in [Procs -> Places] /\ mode \in [Procs -> {"to", "continue"}] /\ pc[p] = "started"
  BY DEF Core, Shape, Main
<1>2. PICK place \in {"none", "download", "install", "plan"} : pc' = [pc EXCEPT ![p] = place]
  BY DEF Main, Goto, Exit
<1>3. pc' \in [Procs -> Places] /\ mode' \in [Procs -> {"to", "continue"}]
  BY <1>1, <1>2 DEF Main, Goto, Exit, Places
<1>4. tarVer' \in Nat
  <2>1. tarVer \in Nat
    BY DEF Core, Shape
  <2>2. tarVer' = tarVer \/ tarVer' = 0
    BY DEF Main, CleanAllFiles, KeepFiles, fileVars
  <2> QED  BY <2>1, <2>2
<1>5. Shape'
  BY <1>3, <1>4 DEF Core, Shape, Main, bootVars
<1>6. \A q \in Procs \ {p} : pc'[q] = pc[q]
  BY <1>1, <1>2
<1>7. Found # {p} => pc'[p] = "none"
  BY <1>1 DEF Main, Exit, Goto
<1>8. Found = {p} => \A q \in Procs \ {p} : pc[q] \in {"none", "forked"}
  BY DEF Found
<1>9. Single'
  BY <1>1, <1>2, <1>6, <1>7, <1>8 DEF Core, Single, Working
<1> QED  BY <1>1, <1>5, <1>6, <1>7, <1>8, <1>9 DEF Core, Working

\* A process that the shell starts is not working yet.
LEMMA SpawnCore ==
  ASSUME Core, NEW m \in {"to", "continue"}, Spawn(m), UNCHANGED <<tarVer, slot, running, kernel>>
  PROVE  Core' /\ \A q \in Procs : Working(q)' <=> Working(q)
<1>1. PICK p \in Procs : /\ pc[p] = "none"
                         /\ pc' = [pc EXCEPT ![p] = "forked"]
                         /\ mode' = [mode EXCEPT ![p] = m]
  BY DEF Spawn
<1>2. \A q \in Procs : Working(q)' <=> Working(q)
  BY <1>1 DEF Core, Shape, Working
<1>3. Shape'
  BY <1>1 DEF Core, Shape, Places
<1> QED  BY <1>2, <1>3 DEF Core, Single

LEMMA DarkCore ==
  ASSUME Core, Dark, UNCHANGED <<tarVer, slot, running, kernel>>
  PROVE  Core' /\ \A q \in Procs : pc'[q] = "none"
BY DEF Core, Shape, Single, Working, Dark, Places

LEMMA UpgradeStepCore ==
  ASSUME Core, NEW p \in Procs, UpgradeStep(p)
  PROVE  Core'
<1> USE DEF Goto, Exit, CleanAllFiles, SetState, KeepFiles, GiveUp, fileVars, bootVars
<1>1. CASE ExecUpgrade(p)
  <2>1. pc' = [pc EXCEPT ![p] = "started"] /\ mode' = mode /\ pc[p] = "forked"
    BY <1>1 DEF ExecUpgrade
  <2>2. \A q \in Procs : Working(q)' <=> Working(q)
    BY <2>1 DEF Core, Shape, Working
  <2>3. Shape'
    BY <1>1, <2>1 DEF ExecUpgrade, Core, Shape, Places
  <2> QED  BY <2>2, <2>3 DEF Core, Single
<1>2. CASE Main(p)
  BY <1>2, MainAlone
<1>3. CASE ~Main(p) /\ ~ExecUpgrade(p)
  <2>1. Working(p)
    BY <1>3 DEF UpgradeStep, Plan, Download, Verify, Install, Untar, Installer, Touch, Working
  <2>2. PICK place \in Places : pc' = [pc EXCEPT ![p] = place] /\ mode' = mode
    BY <1>3 DEF UpgradeStep, Plan, Download, Verify, Install, Untar, Installer, Touch, Places
  <2>3. pc' \in [Procs -> Places] /\ Single'
    BY <2>1, <2>2, GoOn
  <2>4. tarVer' \in Nat
    <3>1. tarVer \in Nat
      BY DEF Core, Shape
    <3>2. CASE Plan(p)
      <4>1. tarVer' \in {0, tarVer} \/ tarVer' \in 1..Latest
        BY <3>2 DEF Plan
      <4> QED  BY <3>1, <4>1, UpgradeConstants
    <3>3. CASE ~Plan(p)
      <4>1. tarVer' = tarVer \/ tarVer' = 0
        BY <1>3, <3>3 DEF UpgradeStep, Download, Verify, Install, Untar, Installer, Touch
      <4> QED  BY <3>1, <4>1
    <3> QED  BY <3>2, <3>3
  <2>5. slot' \in [Slots -> Nat] /\ UNCHANGED <<running, kernel>>
    <3>1. CASE Untar(p)
      <4>1. slot \in [Slots -> Nat]
        BY DEF Core, Shape
      <4>2. slot' = slot \/ slot' = [slot EXCEPT ![Opposite] = 0]
        BY <3>1 DEF Untar, Mixed
      <4>3. UNCHANGED <<running, kernel>>
        BY <3>1 DEF Untar
      <4> QED  BY <4>1, <4>2, <4>3
    <3>2. CASE Installer(p)
      <4>1. slot \in [Slots -> Nat] /\ tarVer \in Nat /\ running \in Slots
        BY DEF Core, Shape
      <4>2. UNCHANGED <<running, kernel>>
        BY <3>2 DEF Installer
      <4>3. \/ slot' = [slot EXCEPT ![Opposite] = tarVer]
            \/ slot' = [slot EXCEPT ![Opposite] = SwVersion]
        BY <3>2 DEF Installer
      <4> QED  BY <4>1, <4>2, <4>3 DEF SwVersion
    <3>3. CASE ~Untar(p) /\ ~Installer(p)
      BY <1>3, <3>3 DEF UpgradeStep, Plan, Download, Verify, Install, Touch, Core, Shape
    <3> QED  BY <3>1, <3>2, <3>3
  <2> QED  BY <2>2, <2>3, <2>4, <2>5 DEF Core, Shape
<1> QED  BY <1>1, <1>2, <1>3

LEMMA OtherStepCore ==
  ASSUME Core, MonitorStep \/ PowerOff \/ ServerWants \/ FirstConnection \/ LosePower
  PROVE  Core'
<1>1. ASSUME UNCHANGED <<pc, mode, tarVer, slot, running, kernel>>  PROVE Core'
  BY <1>1 DEF Core, Shape, Single, Working
<1>2. CASE SeeRebootIt \/ WaitDone \/ SetProgrammed \/ WriteUpgradedVersion \/ WriteUpgradeInfo
           \/ PowerOff
  BY <1>1, <1>2 DEF SeeRebootIt, WaitDone, SetProgrammed, WriteUpgradedVersion, WriteUpgradeInfo,
                    PowerOff, procVars, fileVars, bootVars
<1>3. CASE Complete
  BY <1>1, <1>3, SpawnCore DEF Complete, procVars, fileVars, bootVars
<1>4. CASE SetKernel
  <2>1. kernel' \in Slots
    BY <1>4 DEF SetKernel, Opposite, Slots, Core, Shape
  <2> QED  BY <1>4, <2>1 DEF SetKernel, Core, Shape, Single, Working, procVars, fileVars
<1>5. CASE CheckUpgradeInfo \/ DupFsEnds
  <2>1. slot' \in [Slots -> Nat]
    BY <1>5 DEF CheckUpgradeInfo, DupFsEnds, SwVersion, Mixed, Core, Shape
  <2> QED
    BY <1>5, <2>1 DEF CheckUpgradeInfo, DupFsEnds, Core, Shape, Single, Working, procVars, fileVars
<1>6. CASE Halt \/ LosePower
  BY <1>6, DarkCore DEF Halt, LosePower, fileVars, bootVars
<1>7. CASE Boot
  <2>1. running' \in Slots /\ kernel' \in Slots
    BY <1>7 DEF Boot, Slots, Core, Shape
  <2> QED  BY <1>7, <2>1 DEF Boot, Core, Shape, Single, Working, procVars, fileVars
<1>8. CASE StartMonitor
  <2>1. tarVer' \in Nat
    <3>1. tarVer \in Nat
      BY DEF Core, Shape
    <3>2. tarVer' = tarVer \/ tarVer' = 0
      BY <1>8 DEF StartMonitor, CleanAllFiles, KeepFiles, fileVars
    <3> QED  BY <3>1, <3>2
  <2> QED  BY <1>8, <2>1 DEF StartMonitor, Core, Shape, Single, Working, procVars, bootVars
<1>9. CASE ServerWants
  BY <1>9, SpawnCore DEF ServerWants, fileVars, bootVars
<1>10. CASE FirstConnection
  BY <1>1, <1>10, SpawnCore DEF FirstConnection, procVars, fileVars, bootVars
<1> QED
  BY <1>2, <1>3, <1>4, <1>5, <1>6, <1>7, <1>8, <1>9, <1>10 DEF MonitorStep

LEMMA NextCore == Core /\ [Next]_vars => Core'
<1>1. Core /\ UNCHANGED vars => Core'
  BY DEF vars, fileVars, procVars, bootVars, Core, Shape, Single, Working
<1> QED  BY <1>1, UpgradeStepCore, OtherStepCore DEF Next

\* However many unitcomm and monitor start, and however long a shell takes to
\* become upgrade, at most one process is past the check of main.
THEOREM UpgradeOneUpgrade == Spec => []OneUpgrade
<1>1. Core => OneUpgrade
  <2> SUFFICES ASSUME Core  PROVE OneUpgrade
    OBVIOUS
  <2> DEFINE W == {p \in Procs : pc[p] \notin {"none", "forked", "started"}}
  <2>1. CASE W = {}
    BY <2>1, FS_EmptySet DEF OneUpgrade
  <2>2. CASE W # {}
    <3>1. PICK p \in W : TRUE
      BY <2>2
    <3>2. W = {p}
      BY <3>1 DEF Core, Single, Working
    <3> QED  BY <3>2, FS_Singleton DEF OneUpgrade
  <2> QED  BY <2>1, <2>2
<1> QED  BY <1>1, InitCore, NextCore, PTL DEF Spec

-----------------------------------------------------------------------------
(* The boot loader is sent to a whole file system                          *)

Writing == {"fetching", "untarring", "upgrading"}

\* What a process does agrees with the state file; there is a version to write.
Agrees(p) ==
    /\ pc[p] = "plan" => state = "starting"
    /\ pc[p] \in {"download", "verify"} => state = "fetching"
    /\ pc[p] = "install" => state \in Writing
    /\ pc[p] = "untar" => state = "untarring"
    /\ pc[p] = "installer" => state = "upgrading"
    /\ pc[p] = "touch" => state = "upgraded"
Staged ==
    /\ \A p \in Procs : Agrees(p)
    /\ state \in Writing => tarVer # 0

\* Nothing runs before monitor does, and a reboot is asked for at the end only.
Powered ==
    /\ mon \in {"off", "boot"} => ~rebootIt /\ \A p \in Procs : pc[p] = "none"
    /\ rebootIt => state = "upgraded"

\* While monitor goes down no download ends, and what monitor did not wait for
\* does not begin to write.
GoingDown ==
    /\ mon = "complete" =>
         \A p \in Procs : pc[p] # "verify" /\ (pc[p] = "install" => state # "fetching")
    /\ mon \in {"check", "dup"} /\ kernel = running =>
         /\ state # "upgraded"
         /\ \A p \in Procs : pc[p] \notin {"verify", "install", "untar", "installer", "touch"}
         /\ state \in {"untarring", "upgrading"} => \A p \in Procs : pc[p] = "none"

\* The boot loader is switched for a finished upgrade only, and from then on
\* nothing is done but to go down.
Switched ==
    /\ mon \in {"kernel", "flag", "version", "info"} => state = "upgraded"
    /\ mon \in {"flag", "version", "info"} => kernel # running
    /\ kernel # running =>
         /\ mon \in {"flag", "version", "info", "check", "halt", "off"}
         /\ mon # "off" => state = "upgraded"
         /\ mon = "check" => ~info.good
    /\ running \in verified
    /\ dup => mon = "dup"

SlotsWhole ==
    /\ slot[running] # Mixed /\ slot[kernel] # Mixed
    /\ state = "upgraded" => slot[Opposite] # Mixed

Orderly == Staged /\ Powered /\ GoingDown /\ Switched /\ SlotsWhole

LEMMA InitOrderly == Init => Orderly
<1> SUFFICES ASSUME Init  PROVE Orderly
  OBVIOUS
<1>1. SlotsWhole
  <2>1. running \in Slots /\ kernel \in Slots /\ \A t \in Slots : slot[t] = 1
    BY DEF Init, Slots
  <2>2. state # "upgraded"
    BY DEF Init
  <2>3. slot[running] = 1 /\ slot[kernel] = 1
    BY <2>1
  <2> QED  BY <2>2, <2>3 DEF SlotsWhole, Mixed
<1> QED
  BY <1>1 DEF Init, Orderly, Staged, Agrees, Writing, Powered, GoingDown, Switched, Slots

\* As long as the upgrade is not finished the boot loader is not switched.
LEMMA NotSwitched ==
  ASSUME Core, Orderly, state # "upgraded", NEW p \in Procs, pc[p] # "none"
  PROVE  kernel = running /\ mon \notin {"kernel", "flag", "version", "info", "off", "boot"}
BY DEF Orderly, Powered, Switched

\* A step of upgrade that does not end one keeps what was decided.
LEMMA StepSwitched ==
  ASSUME Core, Orderly, state # "upgraded", NEW p \in Procs, pc[p] # "none",
         UNCHANGED <<running, kernel, verified, info, mon, goal, dup>>
  PROVE  Switched'
BY NotSwitched DEF Orderly, Switched

LEMMA StepSlots ==
  ASSUME Core, Orderly, UNCHANGED <<slot, running, kernel>>,
         state' = "upgraded" => state = "upgraded"
  PROVE  SlotsWhole'
BY DEF Orderly, SlotsWhole, Opposite

\* Nothing changes but that a shell becomes upgrade, or main looks round.
LEMMA MainOrderly ==
  ASSUME Core, Orderly, NEW p \in Procs, ExecUpgrade(p) \/ Main(p)
  PROVE  Orderly'
<1> USE DEF Goto, Exit, CleanAllFiles, SetState, KeepFiles, fileVars, bootVars, monVars, boundVars
<1>1. CASE ExecUpgrade(p)
  <2>1. /\ pc[p] = "forked" /\ \A q \in Procs : pc'[q] = IF q = p THEN "started" ELSE pc[q]
        /\ UNCHANGED <<state, tarVer, rebootIt, mon, slot, running, kernel, verified, info, dup>>
    BY <1>1 DEF ExecUpgrade, Core, Shape
  <2> QED
    BY <2>1 DEF Orderly, Staged, Agrees, Powered, GoingDown, Switched, SlotsWhole, Opposite
<1>2. CASE Main(p)
  <2>1. /\ UNCHANGED <<rebootIt, mon, goal, slot, running, kernel, verified, info, dup>>
        /\ pc[p] = "started"
        /\ \A q \in Procs \ {p} : pc'[q] = pc[q]
    BY <1>2, MainAlone DEF Main
  <2>2. CASE pc'[p] = "none" /\ state' = state /\ tarVer' = tarVer
    BY <2>1, <2>2
    DEF Orderly, Staged, Agrees, Powered, GoingDown, Switched, SlotsWhole, Opposite
  <2>3. CASE ~(pc'[p] = "none" /\ state' = state /\ tarVer' = tarVer)
    <3>1. state # "upgraded" /\ Found = {p}
      BY <1>2, <2>3 DEF Main, Core, Shape
    <3>2. /\ pc'[p] \in {"none", "download", "install", "plan"}
          /\ pc'[p] = "download" => state = "fetching" /\ UNCHANGED <<state, tarVer>>
          /\ pc'[p] = "install" => state \in {"untarring", "upgrading"} /\ UNCHANGED <<state, tarVer>>
          /\ pc'[p] = "plan" => state' = "starting" /\ state \notin Writing
          /\ pc'[p] = "none" => state' = ""
      BY <1>2, <2>3, <3>1 DEF Main, Core, Shape, Writing
    <3>3. \A q \in Procs \ {p} : pc[q] \in {"none", "forked"}
      BY <3>1 DEF Found
    <3>4. Staged'
      BY <2>1, <3>2, <3>3 DEF Orderly, Staged, Agrees, Writing
    <3>5. Powered'
      BY <2>1, <3>1, <3>2 DEF Orderly, Powered
    <3>6. GoingDown'
      BY <2>1, <3>1, <3>2, <3>3 DEF Orderly, GoingDown
    <3>7. Switched'
      BY <2>1, <3>1, StepSwitched
    <3>8. SlotsWhole'
      BY <2>1, <3>1, <3>2, StepSlots
    <3> QED  BY <3>4, <3>5, <3>6, <3>7, <3>8 DEF Orderly
  <2> QED  BY <2>2, <2>3
<1> QED  BY <1>1, <1>2

\* The other steps are those of the one process that works.
LEMMA WorkOrderly ==
  ASSUME Core, Orderly, NEW p \in Procs, "overlap" \notin faults,
         Plan(p) \/ Download(p) \/ Verify(p) \/ Install(p) \/ Untar(p) \/ Installer(p) \/ Touch(p)
  PROVE  Orderly'
<1> USE DEF Goto, Exit, CleanAllFiles, SetState, GiveUp, bootVars, monVars, boundVars, fileVars
<1>1. /\ Working(p) /\ UNCHANGED <<running, kernel, verified, info, mon, goal, dup>>
      /\ \E place \in Places : pc' = [pc EXCEPT ![p] = place]
  BY DEF Plan, Download, Verify, Install, Untar, Installer, Touch, Working, Places
<1>2. PICK place \in Places : pc' = [pc EXCEPT ![p] = place]
  BY <1>1
<1>3. /\ \A q \in Procs \ {p} : ~Working(q) /\ ~Working(q)' /\ pc'[q] = pc[q]
      /\ pc'[p] = place
  BY <1>1, <1>2, GoOn
<1>4. pc[p] # "none" /\ ~(mon \in {"off", "boot"})
  BY <1>1 DEF Working, Orderly, Powered
<1>5. CASE Touch(p)
  <2>1. state = "upgraded" /\ state' = state /\ tarVer' = tarVer /\ pc'[p] = "none"
        /\ slot' = slot
    BY <1>3, <1>5 DEF Touch, Orderly, Staged, Agrees, Core, Shape
  <2> QED
    BY <1>1, <1>3, <1>4, <2>1
    DEF Orderly, Staged, Agrees, Powered, GoingDown, Switched, SlotsWhole, Opposite, Working
<1>6. CASE ~Touch(p)
  <2>1. state # "upgraded" /\ rebootIt' = rebootIt
    BY <1>6 DEF Plan, Download, Verify, Install, Untar, Installer, Orderly, Staged, Agrees, Writing
  <2>2. Switched'
    BY <1>1, <1>4, <2>1, StepSwitched
  <2>3. kernel = running /\ kernel' = running' /\ rebootIt = FALSE /\ rebootIt' = FALSE
    BY <1>1, <1>4, <2>1, NotSwitched DEF Orderly, Powered
  <2>4. Powered'
    BY <1>1, <1>4, <2>3 DEF Powered
  <2>5. ASSUME slot' = slot, state' # "upgraded"  PROVE SlotsWhole'
    BY <1>1, <2>5, StepSlots
  <2>6. ASSUME pc'[p] = "none", state' \in {"", "failed"}  PROVE Staged' /\ GoingDown'
    BY <1>1, <1>3, <2>3, <2>6 DEF Staged, Agrees, Writing, GoingDown, Working
  <2>7. CASE Plan(p)
    <3>1. pc[p] = "plan" /\ state = "starting"
      BY <2>7 DEF Plan, Orderly, Staged, Agrees
    <3>2. CASE pc'[p] = "none" /\ state' = ""
      BY <2>2, <2>4, <2>5, <2>6, <2>7, <3>2 DEF Plan, Orderly
    <3>3. CASE pc'[p] = "download" /\ state' = "fetching" /\ tarVer' # 0
      <4>1. Staged'
        BY <1>3, <3>3 DEF Staged, Agrees, Working
      <4>2. GoingDown'
        BY <1>1, <1>3, <2>3, <3>3 DEF GoingDown, Working
      <4> QED  BY <2>2, <2>4, <2>5, <2>7, <3>3, <4>1, <4>2 DEF Plan, Orderly
    <3>4. CASE pc'[p] = "none" /\ UNCHANGED <<state, tarVer, slot>>
      <4>1. Staged'
        BY <1>3, <3>1, <3>4 DEF Staged, Agrees, Working, Writing
      <4>2. GoingDown'
        BY <1>1, <1>3, <2>3, <3>1, <3>4 DEF Orderly, GoingDown, Working
      <4> QED  BY <2>1, <2>2, <2>4, <2>5, <3>4, <4>1, <4>2 DEF Orderly
    <3>5. \A dest \in 1..Latest : dest # 0
      BY UpgradeConstants
    <3> QED  BY <1>3, <2>7, <3>2, <3>3, <3>4, <3>5 DEF Plan, KeepFiles, Core, Shape
  <2>8. CASE Download(p)
    <3>1. /\ pc[p] = "download" /\ state = "fetching" /\ mon \in {"run", "wait"}
          /\ pc'[p] \in {"install", "verify"} /\ UNCHANGED <<state, tarVer, slot>>
      BY <1>3, <2>8 DEF Download, Orderly, Staged, Agrees, Core, Shape
    <3>2. Staged'
      BY <1>3, <3>1 DEF Staged, Agrees, Working, Writing, Orderly
    <3>3. GoingDown'
      BY <1>1, <3>1 DEF GoingDown
    <3> QED  BY <2>2, <2>4, <2>5, <3>1, <3>2, <3>3 DEF Orderly
  <2>9. CASE Verify(p)
    <3>1. /\ pc[p] = "verify" /\ state = "fetching"
          /\ pc'[p] = "install" /\ UNCHANGED <<state, tarVer, slot>>
      BY <1>3, <2>9 DEF Verify, Orderly, Staged, Agrees, Core, Shape
    <3>2. Staged'
      BY <1>3, <3>1 DEF Staged, Agrees, Working, Writing, Orderly
    <3>3. mon \notin {"complete", "check", "dup"}
      BY <2>3, <3>1 DEF Orderly, GoingDown
    <3>4. GoingDown'
      BY <1>1, <3>3 DEF GoingDown
    <3> QED  BY <2>2, <2>4, <2>5, <3>1, <3>2, <3>4 DEF Orderly
  <2>10. CASE Install(p)
    <3>1. pc[p] = "install" /\ state \in Writing /\ slot' = slot
      BY <2>10 DEF Install, Orderly, Staged, Agrees
    <3>2. CASE pc'[p] = "none" /\ state' = ""
      BY <2>2, <2>4, <2>5, <2>6, <3>1, <3>2 DEF Orderly
    <3>3. CASE pc'[p] = "untar" /\ state' = "untarring" /\ tarVer' = tarVer
      <4>1. Staged'
        BY <1>3, <3>1, <3>3 DEF Staged, Agrees, Working, Writing, Orderly
      <4>2. mon \notin {"check", "dup"}
        BY <2>3, <3>1 DEF Orderly, GoingDown
      <4>3. GoingDown'
        BY <1>1, <1>3, <3>3, <4>2 DEF GoingDown, Working
      <4> QED  BY <2>2, <2>4, <2>5, <3>1, <3>3, <4>1, <4>3 DEF Orderly
    <3> QED  BY <1>3, <2>10, <3>2, <3>3 DEF Install, Core, Shape
  <2>11. CASE Untar(p)
    <3>1. pc[p] = "untar" /\ state = "untarring"
      BY <2>11 DEF Untar, Orderly, Staged, Agrees
    <3>2. CASE pc'[p] = "none" /\ state' \in {"", "failed"} /\ slot' = slot
      BY <2>2, <2>4, <2>5, <2>6, <3>2 DEF Orderly
    <3>3. CASE /\ pc'[p] = "installer" /\ state' = "upgrading" /\ tarVer' = tarVer
               /\ slot' = [slot EXCEPT ![Opposite] = Mixed]
      <4>1. Staged'
        BY <1>3, <3>1, <3>3 DEF Staged, Agrees, Working, Writing, Orderly
      <4>2. mon \notin {"check", "dup"}
        BY <2>3, <3>1 DEF Orderly, GoingDown
      <4>3. GoingDown'
        BY <1>1, <1>3, <3>3, <4>2 DEF GoingDown, Working
      <4>4. running \in Slots /\ running # Opposite
        BY DEF Core, Shape, Slots, Opposite
      <4>5. SlotsWhole'
        BY <1>1, <2>3, <3>3, <4>4 DEF Orderly, SlotsWhole, Core, Shape
      <4> QED  BY <2>2, <2>4, <4>1, <4>3, <4>5 DEF Orderly
    <3> QED  BY <1>3, <2>11, <3>2, <3>3 DEF Untar, Core, Shape
  <2>12. CASE Installer(p)
    <3>1. pc[p] = "installer" /\ state = "upgrading" /\ tarVer # 0
      BY <2>12 DEF Installer, Orderly, Staged, Agrees, Writing
    <3>2. running \in Slots /\ Opposite \in Slots /\ running # Opposite /\ Opposite' = Opposite
      BY <1>1 DEF Core, Shape, Slots, Opposite
    <3>3. slot[running] # Mixed
      BY DEF Orderly, SlotsWhole
    <3>4. PICK v : v # Mixed /\ slot' = [slot EXCEPT ![Opposite] = v]
      BY <2>12, <3>1, <3>3 DEF Installer, SwVersion, Mixed
    <3>5. SlotsWhole'
      BY <1>1, <2>3, <3>2, <3>3, <3>4 DEF SlotsWhole, Core, Shape
    <3>6. CASE pc'[p] = "none" /\ state' = ""
      BY <2>2, <2>4, <2>6, <3>5, <3>6 DEF Orderly
    <3>7. CASE pc'[p] = "touch" /\ state' = "upgraded"
      <4>1. Staged'
        BY <1>3, <3>7 DEF Staged, Agrees, Working, Writing
      <4>2. mon \notin {"check", "dup"}
        BY <2>3, <3>1 DEF Orderly, GoingDown
      <4>3. GoingDown'
        BY <1>1, <1>3, <3>7, <4>2 DEF GoingDown, Working
      <4> QED  BY <2>2, <2>4, <3>5, <4>1, <4>3 DEF Orderly
    <3> QED  BY <1>3, <2>12, <3>6, <3>7 DEF Installer, Core, Shape
  <2> QED  BY <1>6, <2>7, <2>8, <2>9, <2>10, <2>11, <2>12
<1> QED  BY <1>5, <1>6

\* monitor on the way down: nothing of this touches the state file, ...
LEMMA DownOrderly ==
  ASSUME Core, Orderly, "overlap" \notin faults,
         SeeRebootIt \/ PowerOff \/ Complete \/ WaitDone
  PROVE  Orderly'
<1> USE DEF fileVars, procVars, bootVars, monVars, boundVars
<1>1. UNCHANGED <<state, tarVer, slot, running, kernel, verified, dup>>
  BY DEF SeeRebootIt, PowerOff, Complete, WaitDone
<1>2. SlotsWhole'
  BY <1>1, StepSlots
<1>3. CASE SeeRebootIt
  <2>1. state = "upgraded" /\ mon' = "complete" /\ UNCHANGED <<pc, info>> /\ ~rebootIt'
        /\ mon \in {"run", "wait", "dup"}
    BY <1>3 DEF SeeRebootIt, Orderly, Powered
  <2>2. kernel = running
    BY <2>1 DEF Orderly, Switched
  <2>3. \A p \in Procs : pc[p] # "verify"
    BY <2>1 DEF Orderly, Staged, Agrees
  <2>4. mon # "dup"
    BY <2>1, <2>2 DEF Orderly, GoingDown
  <2> QED
    BY <1>1, <1>2, <2>1, <2>2, <2>3, <2>4
    DEF Orderly, Staged, Agrees, Powered, GoingDown, Switched
<1>4. CASE PowerOff
  <2>1. /\ mon = "run" /\ mon' = "complete" /\ UNCHANGED <<pc, rebootIt>>
        /\ \A p \in Procs : pc[p] \notin {"verify", "install"}
    BY <1>4 DEF PowerOff, Unseen
  <2>2. kernel = running
    BY <2>1 DEF Orderly, Switched
  <2> QED
    BY <1>1, <1>2, <2>1, <2>2 DEF Orderly, Staged, Agrees, Powered, GoingDown, Switched
<1>5. CASE Complete
  <2>1. mon = "complete" /\ UNCHANGED <<rebootIt, info>>
    BY <1>5 DEF Complete
  <2>2. kernel = running
    BY <2>1 DEF Orderly, Switched
  <2>3. CASE mon' = "wait" /\ \E m \in {"continue"} : Spawn(m)
    <3>1. \A q \in Procs : pc'[q] = pc[q] \/ pc'[q] = "forked"
      BY <2>3 DEF Spawn, Core, Shape
    <3> QED
      BY <1>1, <1>2, <2>1, <2>2, <2>3, <3>1
      DEF Orderly, Staged, Agrees, Powered, GoingDown, Switched
  <2>4. CASE mon' = "wait" /\ UNCHANGED pc
    BY <1>1, <1>2, <2>1, <2>2, <2>4
    DEF Orderly, Staged, Agrees, Powered, GoingDown, Switched
  <2>5. CASE state = "upgraded" /\ mon' = "kernel" /\ UNCHANGED pc
    BY <1>1, <1>2, <2>1, <2>2, <2>5
    DEF Orderly, Staged, Agrees, Powered, GoingDown, Switched
  <2>6. CASE /\ state \notin {"untarring", "upgrading", "upgraded"}
             /\ mon' \in {"halt", "check"} /\ UNCHANGED pc
    <3>1. \A p \in Procs : pc[p] \notin {"verify", "install", "untar", "installer", "touch"}
      BY <2>1, <2>6 DEF Orderly, GoingDown, Staged, Agrees, Writing
    <3> QED
      BY <1>1, <1>2, <2>1, <2>2, <2>6, <3>1
      DEF Orderly, Staged, Agrees, Powered, GoingDown, Switched
  <2> QED  BY <1>5, <2>3, <2>4, <2>5, <2>6 DEF Complete, AfterCompletion
<1>6. CASE WaitDone
  <2>1. /\ mon = "wait" /\ UNCHANGED <<pc, rebootIt, info>>
        /\ mon' \in {"kernel", "halt", "check"} /\ (mon' = "kernel" <=> state = "upgraded")
        /\ state = "upgraded" \/ (Found = {} /\ \A p \in Procs : pc[p] # "forked")
    BY <1>6 DEF WaitDone, AfterCompletion, Unseen
  <2>2. kernel = running
    BY <2>1 DEF Orderly, Switched
  <2>3. state # "upgraded" => \A p \in Procs : pc[p] = "none"
    BY <2>1 DEF Found
  <2> QED
    BY <1>1, <1>2, <2>1, <2>2, <2>3 DEF Orderly, Staged, Agrees, Powered, GoingDown, Switched
<1> QED  BY <1>3, <1>4, <1>5, <1>6

\* ... nor does doUpgrade, which switches the boot loader, ...
LEMMA SwitchOrderly ==
  ASSUME Core, Orderly,
         SetKernel \/ SetProgrammed \/ WriteUpgradedVersion \/ WriteUpgradeInfo
  PROVE  Orderly'
<1> USE DEF fileVars, procVars, bootVars, monVars, boundVars
<1>1. /\ state = "upgraded" /\ UNCHANGED <<state, tarVer, pc, rebootIt, slot, running, dup>>
      /\ mon' \in {"flag", "version", "info", "check", "halt"}
      /\ mon \in {"kernel", "flag", "version", "info"}
  BY DEF SetKernel, SetProgrammed, WriteUpgradedVersion, WriteUpgradeInfo, AfterCompletion,
         Orderly, Switched
<1>2. running \in Slots /\ running # Opposite /\ Opposite \in Slots
  BY DEF Core, Shape, Slots, Opposite
<1>3. kernel' # running' /\ kernel' = Opposite
  <2>1. CASE SetKernel
    BY <1>1, <1>2, <2>1 DEF SetKernel
  <2>2. CASE ~SetKernel
    <3>1. mon \in {"flag", "version", "info"} /\ kernel' = kernel
      BY <2>2 DEF SetProgrammed, WriteUpgradedVersion, WriteUpgradeInfo
    <3>2. kernel # running
      BY <3>1 DEF Orderly, Switched
    <3> QED  BY <1>1, <3>1, <3>2 DEF Core, Shape, Slots, Opposite
  <2> QED  BY <2>1, <2>2
<1>4. SlotsWhole'
  BY <1>1, <1>2, <1>3 DEF Orderly, SlotsWhole, Opposite
<1>5. running \in verified'
  BY <1>2 DEF SetKernel, SetProgrammed, WriteUpgradedVersion, WriteUpgradeInfo, Orderly, Switched
<1>6. mon' = "check" => ~info'.good
  BY DEF SetKernel, SetProgrammed, WriteUpgradedVersion, WriteUpgradeInfo
<1>7. Switched'
  BY <1>1, <1>3, <1>5, <1>6 DEF Orderly, Switched
<1>8. Staged' /\ Powered' /\ GoingDown'
  BY <1>1, <1>3 DEF Orderly, Staged, Agrees, Powered, GoingDown
<1> QED  BY <1>4, <1>7, <1>8 DEF Orderly

\* ... and dup_fs writes the other file system only when it is not switched to.
LEMMA CopyOrderly ==
  ASSUME Core, Orderly, CheckUpgradeInfo \/ DupFsEnds
  PROVE  Orderly'
<1> USE DEF fileVars, procVars, bootVars, monVars, boundVars
<1>1. /\ UNCHANGED <<state, tarVer, pc, rebootIt, running, kernel, verified>>
      /\ Opposite' = Opposite
  BY DEF CheckUpgradeInfo, DupFsEnds, Opposite
<1>2. running \in Slots /\ running # Opposite
  BY DEF Core, Shape, Slots, Opposite
<1>3. CASE CheckUpgradeInfo
  <2>1. mon = "check" /\ mon' = (IF dup' THEN "dup" ELSE "halt")
        /\ slot' = (IF dup' THEN [slot EXCEPT ![Opposite] = Mixed] ELSE slot)
        /\ ~dup
    BY <1>3 DEF CheckUpgradeInfo, Orderly, Switched
  <2>2. kernel # running => ~dup'
    BY <1>3, <2>1 DEF CheckUpgradeInfo, Orderly, Switched
  <2>3. CASE dup'
    <3>1. kernel = running /\ state # "upgraded"
      BY <2>1, <2>2, <2>3 DEF Orderly, GoingDown
    <3>2. SlotsWhole'
      BY <1>1, <1>2, <2>1, <2>3, <3>1 DEF Orderly, SlotsWhole, Core, Shape
    <3> QED
      BY <1>1, <2>1, <2>3, <3>1, <3>2
      DEF Orderly, Staged, Agrees, Powered, GoingDown, Switched
  <2>4. CASE ~dup'
    <3>1. SlotsWhole'
      BY <1>1, <2>1, <2>4 DEF Orderly, SlotsWhole
    <3> QED
      BY <1>1, <2>1, <2>4, <3>1
      DEF Orderly, Staged, Agrees, Powered, GoingDown, Switched
  <2> QED  BY <2>3, <2>4
<1>4. CASE DupFsEnds
  <2>1. mon = "dup" /\ mon' = "halt" /\ ~dup' /\ info' = info
        /\ slot' = [slot EXCEPT ![Opposite] = slot[running]]
    BY <1>4 DEF DupFsEnds, SwVersion, Orderly, Switched
  <2>2. kernel = running /\ state # "upgraded"
    BY <2>1 DEF Orderly, Switched, GoingDown
  <2>3. SlotsWhole'
    BY <1>1, <1>2, <2>1, <2>2 DEF Orderly, SlotsWhole, Core, Shape
  <2> QED
    BY <1>1, <2>1, <2>2, <2>3 DEF Orderly, Staged, Agrees, Powered, GoingDown, Switched
<1> QED  BY <1>3, <1>4

\* Power goes and comes back, and what is started then.
LEMMA PowerOrderly ==
  ASSUME Core, Orderly,
         Halt \/ LosePower \/ Boot \/ StartMonitor \/ ServerWants \/ FirstConnection
  PROVE  Orderly'
<1> USE DEF fileVars, procVars, bootVars, monVars, boundVars
<1>1. CASE Halt \/ LosePower
  <2>1. /\ UNCHANGED <<state, tarVer, slot, running, kernel, verified, info>>
        /\ mon' = "off" /\ ~rebootIt' /\ ~dup' /\ \A p \in Procs : pc'[p] = "none"
    BY <1>1 DEF Halt, LosePower, Dark
  <2>2. SlotsWhole'
    BY <2>1, StepSlots
  <2> QED
    BY <2>1, <2>2 DEF Orderly, Staged, Agrees, Powered, GoingDown, Switched
<1>2. CASE Boot
  <2>1. /\ mon = "off" /\ mon' = "boot" /\ UNCHANGED <<state, tarVer, pc, rebootIt, slot, info, dup>>
        /\ kernel' = running' /\ running' \in {kernel, 3 - kernel}
    BY <1>2 DEF Boot
  <2>2. running \in Slots /\ kernel \in Slots
    BY DEF Core, Shape
  <2>3. running' \in verified'
    BY <1>2, <2>2 DEF Boot, Orderly, Switched, Slots
  <2>4. running' = kernel \/ running' = running
    BY <1>2, <2>2 DEF Boot, Orderly, Switched, Slots
  <2>5. slot[running] # Mixed /\ slot[kernel] # Mixed
        /\ (state = "upgraded" => slot[3 - running] # Mixed)
    BY DEF Orderly, SlotsWhole, Opposite
  <2>6. 3 - running' \in {running, 3 - running}
    BY <2>2, <2>4 DEF Slots
  <2>7. SlotsWhole'
    BY <2>1, <2>4, <2>5, <2>6 DEF SlotsWhole, Opposite
  <2> QED
    BY <2>1, <2>3, <2>7 DEF Orderly, Staged, Agrees, Powered, GoingDown, Switched
<1>3. CASE StartMonitor
  <2>1. /\ UNCHANGED <<pc, rebootIt, slot, running, kernel, verified, info, dup>>
        /\ mon = "boot" /\ mon' = "run"
        /\ state' = "" \/ (state' = state /\ tarVer' = tarVer)
    BY <1>3 DEF StartMonitor, CleanAllFiles, KeepFiles
  <2>2. ~rebootIt /\ kernel = running /\ \A p \in Procs : pc[p] = "none"
    BY <2>1 DEF Orderly, Powered, Switched
  <2>3. SlotsWhole'
    BY <2>1, StepSlots
  <2> QED
    BY <2>1, <2>2, <2>3 DEF Orderly, Staged, Agrees, Writing, Powered, GoingDown, Switched
<1>4. CASE ServerWants \/ FirstConnection
  <2>1. /\ UNCHANGED <<state, tarVer, rebootIt, slot, running, kernel, verified, info, mon, dup>>
        /\ mon = "run"
    BY <1>4 DEF ServerWants, FirstConnection
  <2>2. \A q \in Procs : pc'[q] = pc[q] \/ pc'[q] = "forked"
    BY <1>4 DEF ServerWants, FirstConnection, Spawn, Core, Shape
  <2>3. SlotsWhole'
    BY <2>1, StepSlots
  <2> QED
    BY <2>1, <2>2, <2>3 DEF Orderly, Staged, Agrees, Powered, GoingDown, Switched
<1> QED  BY <1>1, <1>2, <1>3, <1>4

OrderlyInv == Core /\ ("overlap" \notin faults => Orderly)

LEMMA NextOrderly == OrderlyInv /\ [Next]_vars => OrderlyInv'
<1> SUFFICES ASSUME Core, [Next]_vars, Orderly, "overlap" \notin faults  PROVE Orderly'
  <2>1. OrderlyInv /\ [Next]_vars => faults' = faults
    BY DEF Next, UpgradeStep, MonitorStep, ExecUpgrade, Main, Plan, Download, Verify, Install,
           Untar, Installer, Touch, SeeRebootIt, Complete, WaitDone, SetKernel, SetProgrammed,
           WriteUpgradedVersion, WriteUpgradeInfo, CheckUpgradeInfo, DupFsEnds, Halt, Boot,
           StartMonitor, PowerOff, ServerWants, FirstConnection, LosePower, boundVars, vars
  <2> QED  BY <2>1, NextCore DEF OrderlyInv
<1>1. CASE UNCHANGED vars
  BY <1>1 DEF vars, fileVars, procVars, bootVars, monVars, Orderly, Staged, Agrees, Powered,
              GoingDown, Switched, SlotsWhole, Opposite
<1>2. ASSUME NEW p \in Procs, UpgradeStep(p)  PROVE Orderly'
  BY <1>2, MainOrderly, WorkOrderly DEF UpgradeStep
<1> QED
  BY <1>1, <1>2, DownOrderly, SwitchOrderly, CopyOrderly, PowerOrderly DEF Next, MonitorStep

\* The boot loader is never sent to a file system that is half written: for
\* any losses of power, any versions that do not boot and however late
\* monitor starts, as long as no upgrade goes on unseen while it goes down.
THEOREM UpgradeBootsWhole == Spec => []BootsWhole
<1>1. Init => OrderlyInv
  BY InitCore, InitOrderly DEF OrderlyInv
<1>2. OrderlyInv => BootsWhole
  BY DEF OrderlyInv, Orderly, SlotsWhole, BootsWhole
<1> QED  BY <1>1, <1>2, NextOrderly, PTL DEF Spec

-----------------------------------------------------------------------------
(* What is written is where the paths lead                                 *)

\* There is a path from the first version to the second.
Leads(from, to) == from # to /\ <<from, to>> \in Paths

\* With nothing unseen and monitor in time, an upgrade follows a path from its
\* plan on; a finished one is in the other file system, until the next boot.
Led ==
    /\ kernel # running => state = "upgraded"
    /\ state \in Writing => Leads(slot[running], tarVer)
    /\ state = "upgraded" /\ mon \notin {"off", "boot"} =>
         Leads(slot[running], tarVer) /\ slot[Opposite] = tarVer

\* With one path from each version, where it leads is written down as soon as
\* the boot loader may refuse it; once it was refused nothing is written.
Remembered ==
    /\ kernel # running /\ mon \notin {"flag", "version"} =>
         upgradedVersion = slot[kernel] /\ Leads(slot[running], slot[kernel])
    /\ rejected # {} =>
         /\ kernel = running /\ <<slot[running], upgradedVersion>> \in Paths
         /\ state \notin Writing
         /\ state = "upgraded" => mon \in {"off", "boot"}

LedInv ==
    /\ losses \in Nat
    /\ faults = {} => Led
    /\ faults = {} /\ losses = 0 /\ OneWay => Remembered

LEMMA InitLed == Init => LedInv
<1> SUFFICES ASSUME Init  PROVE LedInv
  OBVIOUS
<1>1. state = "" /\ kernel = running /\ rejected = {} /\ losses = 0
  BY DEF Init
<1> QED  BY <1>1 DEF LedInv, Led, Remembered, Writing

\* The kinds of steps: nothing of an upgrade changes, ...
Stays ==
    /\ UNCHANGED <<state, tarVer, slot, running, kernel, upgradedVersion, rejected>>
    /\ mon \in {"off", "boot"} => mon' \in {"off", "boot"}
    /\ mon \in {"flag", "version"} => mon' \in {"flag", "version"} \/ losses' # 0

\* ... or the other file system is written, or the files are removed, ...
Rewrites ==
    /\ kernel = running /\ UNCHANGED <<running, kernel, upgradedVersion, rejected>>
    /\ slot'[running] = slot[running] /\ state' # "upgraded"
    /\ state' \in Writing => state \in Writing /\ tarVer' = tarVer
    /\ tarVer' \in {0, tarVer}

\* ... or an upgrade is planned, ...
Plans ==
    /\ kernel = running /\ UNCHANGED <<slot, running, kernel, upgradedVersion, rejected>>
    /\ state' = "fetching" /\ Leads(slot[running], tarVer')
    /\ tarVer' # upgradedVersion

\* ... or finished, ...
Finishes ==
    /\ kernel = running /\ UNCHANGED <<tarVer, running, kernel, upgradedVersion, rejected>>
    /\ state \in Writing /\ state' = "upgraded"
    /\ slot' = [slot EXCEPT ![Opposite] = tarVer]

\* ... or the boot loader is switched, ...
Switches ==
    /\ UNCHANGED <<state, tarVer, slot, running, upgradedVersion, rejected>>
    /\ kernel' = Opposite /\ state = "upgraded" /\ mon = "kernel" /\ mon' = "flag"

\* ... or it is written down to which version, ...
Records ==
    /\ UNCHANGED <<state, tarVer, slot, running, kernel, rejected>>
    /\ state = "upgraded" /\ mon = "version" /\ mon' = "info" /\ kernel # running
    /\ upgradedVersion' = slot[Opposite]

\* ... or the unit boots.
Boots ==
    /\ UNCHANGED <<state, tarVer, slot, upgradedVersion>>
    /\ mon = "off" /\ mon' = "boot" /\ kernel' = running'
    /\ \/ running' = kernel /\ rejected' = rejected
       \/ /\ kernel # running /\ running' = running
          /\ rejected' = rejected \cup ({slot[kernel]} \ {Mixed})

LEMMA UpgradeKind ==
  ASSUME Core, Orderly, Led, "overlap" \notin faults, NEW p \in Procs, UpgradeStep(p)
  PROVE  (Stays \/ Rewrites \/ Plans \/ Finishes) /\ losses' = losses
<1> USE DEF Goto, Exit, CleanAllFiles, SetState, KeepFiles, fileVars, bootVars, monVars, boundVars
<1>1. UNCHANGED <<running, kernel, upgradedVersion, rejected, mon, losses>> /\ pc[p] # "none"
  BY DEF UpgradeStep, ExecUpgrade, Main, Plan, Download, Verify, Install, Untar, Installer, Touch
<1>2. running \in Slots /\ Opposite \in Slots /\ running # Opposite /\ slot \in [Slots -> Nat]
  BY DEF Core, Shape, Slots, Opposite
<1>3. state # "upgraded" => kernel = running
  BY DEF Led
<1>4. CASE UNCHANGED <<state, tarVer, slot>>
  BY <1>1, <1>4 DEF Stays
<1>5. CASE ~(UNCHANGED <<state, tarVer, slot>>)
  <2>1. CASE Main(p)
    <3>1. state # "upgraded" /\ state' \in {"", "starting"} /\ slot' = slot /\ tarVer' \in {0, tarVer}
      BY <1>5, <2>1 DEF Main
    <3> QED  BY <1>1, <1>3, <3>1 DEF Rewrites, Writing
  <2>2. CASE Plan(p)
    <3>1. state = "starting" /\ slot' = slot
      BY <2>2 DEF Plan, Orderly, Staged, Agrees
    <3>2. CASE state' = "" /\ tarVer' = 0
      BY <1>1, <1>3, <3>1, <3>2 DEF Rewrites, Writing
    <3>3. CASE \E dest \in 1..Latest :
                 /\ <<SwVersion, dest>> \in Paths /\ dest # SwVersion
                 /\ dest # upgradedVersion /\ state' = "fetching" /\ tarVer' = dest
      BY <1>1, <1>3, <3>1, <3>3 DEF Plans, Leads, SwVersion
    <3> QED  BY <1>5, <2>2, <3>1, <3>2, <3>3 DEF Plan
  <2>3. CASE Install(p)
    <3>1. /\ state \in Writing /\ slot' = slot
          /\ \/ state' = "" /\ tarVer' \in {0, tarVer}
             \/ state' = "untarring" /\ tarVer' = tarVer
      BY <2>3 DEF Install, GiveUp, Orderly, Staged, Agrees
    <3> QED  BY <1>1, <1>3, <3>1 DEF Rewrites, Writing
  <2>4. CASE Untar(p)
    <3>1. /\ state = "untarring"
          /\ slot' = slot \/ slot' = [slot EXCEPT ![Opposite] = Mixed]
          /\ \/ state' \in {"", "failed"} /\ tarVer' \in {0, tarVer}
             \/ state' = "upgrading" /\ tarVer' = tarVer
      BY <2>4 DEF Untar, GiveUp, Orderly, Staged, Agrees
    <3>2. slot'[running] = slot[running]
      BY <1>2, <3>1
    <3> QED  BY <1>1, <1>3, <3>1, <3>2 DEF Rewrites, Writing
  <2>5. CASE Installer(p)
    <3>1. state = "upgrading"
      BY <2>5 DEF Installer, Orderly, Staged, Agrees
    <3>2. CASE state' = "upgraded" /\ tarVer' = tarVer /\ slot' = [slot EXCEPT ![Opposite] = tarVer]
      BY <1>1, <1>3, <3>1, <3>2 DEF Finishes, Writing
    <3>3. CASE state' = "" /\ tarVer' = 0 /\ slot' = [slot EXCEPT ![Opposite] = SwVersion]
      BY <1>1, <1>2, <1>3, <3>1, <3>3 DEF Rewrites, Writing
    <3> QED  BY <2>5, <3>2, <3>3 DEF Installer
  <2>6. CASE ExecUpgrade(p) \/ Download(p) \/ Verify(p) \/ Touch(p)
    BY <1>5, <2>6 DEF ExecUpgrade, Download, Verify, Touch
  <2> QED  BY <2>1, <2>2, <2>3, <2>4, <2>5, <2>6 DEF UpgradeStep
<1> QED  BY <1>1, <1>4, <1>5

LEMMA MonitorKind ==
  ASSUME Core, Orderly, Led, losses \in Nat, faults = {},
         MonitorStep \/ PowerOff \/ ServerWants \/ FirstConnection \/ LosePower
  PROVE  /\ Stays \/ Rewrites \/ Switches \/ Records \/ Boots
         /\ losses' \in Nat /\ (losses' = 0 => losses = 0)
<1> USE DEF fileVars, bootVars, monVars, boundVars
<1>1. losses' \in Nat /\ (losses' = 0 => losses = 0)
  <2>1. losses' = losses \/ losses' = losses + 1
    BY DEF MonitorStep, SeeRebootIt, Complete, WaitDone, SetKernel, SetProgrammed,
           WriteUpgradedVersion, WriteUpgradeInfo, CheckUpgradeInfo, DupFsEnds, Halt, Boot,
           StartMonitor, PowerOff, ServerWants, FirstConnection, LosePower
  <2> QED  BY <2>1
<1>2. running \in Slots /\ Opposite \in Slots /\ running # Opposite /\ slot \in [Slots -> Nat]
  BY DEF Core, Shape, Slots, Opposite
<1>3. CASE SeeRebootIt \/ PowerOff \/ Complete \/ WaitDone \/ ServerWants \/ FirstConnection
           \/ SetProgrammed \/ WriteUpgradeInfo \/ Halt
  BY <1>3 DEF SeeRebootIt, PowerOff, Complete, WaitDone, ServerWants, FirstConnection,
              SetProgrammed, WriteUpgradeInfo, Halt, Dark, Stays
<1>4. CASE LosePower
  <2>1. losses' # 0
    BY <1>4 DEF LosePower
  <2> QED  BY <1>4, <2>1 DEF LosePower, Dark, Stays
<1>5. CASE SetKernel
  BY <1>5 DEF SetKernel, Switches, Orderly, Switched
<1>6. CASE WriteUpgradedVersion
  BY <1>6 DEF WriteUpgradedVersion, Records, Orderly, Switched
<1>7. CASE CheckUpgradeInfo \/ DupFsEnds
  <2>1. /\ UNCHANGED <<state, tarVer, running, kernel, upgradedVersion, rejected>>
        /\ mon \in {"check", "dup"}
        /\ slot' = slot \/ \E v : slot' = [slot EXCEPT ![Opposite] = v]
        /\ kernel # running => slot' = slot
    BY <1>7 DEF CheckUpgradeInfo, DupFsEnds, Orderly, Switched
  <2>2. CASE kernel = running
    <3>1. state # "upgraded"
      BY <2>1, <2>2 DEF Orderly, GoingDown
    <3>2. slot'[running] = slot[running]
      BY <1>2, <2>1
    <3> QED  BY <2>1, <2>2, <3>1, <3>2, <1>1 DEF Rewrites
  <2>3. CASE kernel # running
    BY <2>1, <2>3, <1>1 DEF Stays
  <2> QED  BY <2>2, <2>3
<1>8. CASE Boot
  <2>1. kernel \in Slots /\ 3 - kernel \in Slots /\ running \in verified
    BY DEF Core, Shape, Slots, Orderly, Switched
  <2>2. kernel \notin verified => kernel # running /\ 3 - kernel = running
    BY <1>2, <2>1 DEF Slots
  <2> QED  BY <1>1, <1>8, <2>2 DEF Boot, Boots
<1>9. CASE StartMonitor
  <2>1. /\ mon = "boot" /\ mon' = "run"
        /\ UNCHANGED <<slot, running, kernel, upgradedVersion, rejected>>
        /\ IF state \in {"starting", "upgraded", "failed"} THEN state' = "" /\ tarVer' = 0
           ELSE state' = state /\ tarVer' = tarVer
    BY <1>9 DEF StartMonitor, CleanAllFiles, KeepFiles
  <2>2. kernel = running
    BY <2>1 DEF Orderly, Switched
  <2> QED  BY <1>1, <2>1, <2>2 DEF Rewrites, Writing
<1> QED  BY <1>1, <1>3, <1>4, <1>5, <1>6, <1>7, <1>8, <1>9 DEF MonitorStep

LEMMA KindLed ==
  ASSUME Core, Core', Led, Stays \/ Rewrites \/ Plans \/ Finishes \/ Switches \/ Records \/ Boots
  PROVE  Led'
<1>1. /\ running \in Slots /\ Opposite \in Slots /\ running # Opposite /\ slot \in [Slots -> Nat]
      /\ tarVer \in Nat /\ tarVer' \in Nat /\ slot[running] \in Nat
  BY UpgradeConstants DEF Core, Shape, Slots, Opposite
<1>2. CASE Stays
  BY <1>2 DEF Stays, Led, Opposite
<1>3. CASE Rewrites
  BY <1>1, <1>3 DEF Rewrites, Led
<1>4. CASE Plans
  BY <1>1, <1>4 DEF Plans, Led
<1>5. CASE Finishes
  <2>1. slot'[running] = slot[running] /\ slot'[Opposite] = tarVer /\ Opposite' = Opposite
    BY <1>1, <1>5 DEF Finishes, Opposite
  <2> QED  BY <1>1, <1>5, <2>1 DEF Finishes, Led, Writing
<1>6. CASE Switches \/ Records
  BY <1>6 DEF Switches, Records, Led, Opposite, Writing
<1>7. CASE Boots
  <2>1. CASE state = "upgraded"
    BY <1>7, <2>1 DEF Boots, Led, Writing
  <2>2. CASE state # "upgraded"
    BY <1>7, <2>2 DEF Boots, Led
  <2> QED  BY <2>1, <2>2
<1> QED  BY <1>2, <1>3, <1>4, <1>5, <1>6, <1>7

LEMMA KindRemembered ==
  ASSUME Core, Orderly, Led, Remembered, OneWay, losses' = 0,
         Stays \/ Rewrites \/ Plans \/ Finishes \/ Switches \/ Records \/ Boots
  PROVE  Remembered'
<1>1. /\ running \in Slots /\ Opposite \in Slots /\ running # Opposite /\ slot \in [Slots -> Nat]
      /\ kernel \in Slots
  BY DEF Core, Shape, Slots, Opposite
<1>2. CASE Stays
  BY <1>2 DEF Stays, Remembered
<1>3. CASE Rewrites
  BY <1>3 DEF Rewrites, Remembered
<1>4. CASE Plans
  <2>1. CASE rejected = {}
    BY <1>4, <2>1 DEF Plans, Remembered
  <2>2. CASE rejected # {}
    <3>1. <<slot[running], upgradedVersion>> \in Paths /\ <<slot[running], tarVer'>> \in Paths
      BY <1>4, <2>2 DEF Plans, Remembered, Leads
    <3>2. <<slot[running], upgradedVersion>> = <<slot[running], tarVer'>>
      BY <3>1 DEF OneWay
    <3> QED  BY <1>4, <3>2 DEF Plans
  <2> QED  BY <2>1, <2>2
<1>5. CASE Finishes
  BY <1>5 DEF Finishes, Remembered, Writing
<1>6. CASE Switches
  BY <1>6 DEF Switches, Remembered, Writing
<1>7. CASE Records
  <2>1. slot[Opposite] = tarVer /\ Leads(slot[running], tarVer)
    BY <1>7 DEF Records, Led
  <2>2. kernel = Opposite
    BY <1>1, <1>7 DEF Records, Slots, Opposite
  <2> QED  BY <1>7, <2>1, <2>2 DEF Records, Remembered, Writing
<1>8. CASE Boots
  <2>1. CASE running' = kernel /\ rejected' = rejected
    BY <1>8, <2>1 DEF Boots, Remembered
  <2>2. CASE /\ kernel # running /\ running' = running
             /\ rejected' = rejected \cup ({slot[kernel]} \ {Mixed})
    <3>1. state = "upgraded" /\ upgradedVersion = slot[kernel] /\ Leads(slot[running], slot[kernel])
      BY <1>8, <2>2 DEF Boots, Remembered, Led
    <3> QED  BY <1>8, <2>2, <3>1 DEF Boots, Remembered, Leads, Writing
  <2> QED  BY <1>8, <2>1, <2>2 DEF Boots
<1> QED  BY <1>2, <1>3, <1>4, <1>5, <1>6, <1>7, <1>8

LEMMA NextFaults == [Next]_vars => faults' = faults
BY DEF Next, UpgradeStep, MonitorStep, ExecUpgrade, Main, Plan, Download, Verify, Install,
       Untar, Installer, Touch, SeeRebootIt, Complete, WaitDone, SetKernel, SetProgrammed,
       WriteUpgradedVersion, WriteUpgradeInfo, CheckUpgradeInfo, DupFsEnds, Halt, Boot,
       StartMonitor, PowerOff, ServerWants, FirstConnection, LosePower, boundVars, vars

LEMMA NextKind ==
  ASSUME OrderlyInv, LedInv, faults = {}, [Next]_vars
  PROVE  /\ Stays \/ Rewrites \/ Plans \/ Finishes \/ Switches \/ Records \/ Boots
         /\ losses' \in Nat /\ (losses' = 0 => losses = 0)
<1>1. Core /\ Orderly /\ Led /\ losses \in Nat /\ "overlap" \notin faults
  BY DEF OrderlyInv, LedInv
<1>2. CASE UNCHANGED vars
  BY <1>1, <1>2 DEF vars, fileVars, bootVars, monVars, boundVars, Stays
<1>3. ASSUME NEW p \in Procs, UpgradeStep(p)
      PROVE  (Stays \/ Rewrites \/ Plans \/ Finishes) /\ losses' = losses
  BY <1>1, <1>3, UpgradeKind
<1>4. CASE MonitorStep \/ PowerOff \/ ServerWants \/ FirstConnection \/ LosePower
  BY <1>1, <1>4, MonitorKind
<1> QED  BY <1>1, <1>2, <1>3, <1>4 DEF Next

LEMMA NextLed == OrderlyInv /\ OrderlyInv' /\ LedInv /\ [Next]_vars => LedInv'
<1> SUFFICES ASSUME OrderlyInv, OrderlyInv', LedInv, [Next]_vars  PROVE LedInv'
  OBVIOUS
<1>1. faults' = faults
  BY NextFaults
<1>2. losses' \in Nat
  <2>1. losses' = losses \/ losses' = losses + 1
    BY DEF Next, UpgradeStep, MonitorStep, ExecUpgrade, Main, Plan, Download, Verify, Install,
           Untar, Installer, Touch, SeeRebootIt, Complete, WaitDone, SetKernel, SetProgrammed,
           WriteUpgradedVersion, WriteUpgradeInfo, CheckUpgradeInfo, DupFsEnds, Halt, Boot,
           StartMonitor, PowerOff, ServerWants, FirstConnection, LosePower, boundVars, vars
  <2> QED  BY <2>1 DEF LedInv
<1>3. CASE faults = {}
  <2>1. Core /\ Core' /\ Orderly /\ Led
    BY <1>3 DEF OrderlyInv, LedInv
  <2>2. Led'
    BY <1>3, <2>1, NextKind, KindLed
  <2>3. losses' = 0 /\ OneWay => Remembered'
    BY <1>3, <2>1, NextKind, KindRemembered DEF LedInv
  <2> QED  BY <1>1, <1>2, <2>2, <2>3 DEF LedInv
<1> QED  BY <1>1, <1>2, <1>3 DEF LedInv

LEMMA AlwaysLed == Spec => [](OrderlyInv /\ LedInv)
<1>1. Init => OrderlyInv /\ LedInv
  BY InitCore, InitOrderly, InitLed DEF OrderlyInv
<1> QED  BY <1>1, NextOrderly, NextLed, PTL DEF Spec

\* A finished upgrade is the new version, whole and alone, in the other file
\* system, for any losses of power and any versions that do not boot.
THEOREM UpgradeUpgradedIsWhole == Spec => []UpgradedIsWhole
<1>1. OrderlyInv /\ LedInv => UpgradedIsWhole
  BY DEF LedInv, Led, UpgradedIsWhole
<1> QED  BY <1>1, AlwaysLed, PTL

\* monitor switches the boot loader only to where a path leads, for any paths
\* file, also one that leads down or in circles.
THEOREM UpgradeFollowsPaths == Spec => FollowsPaths
<1>1. OrderlyInv /\ LedInv /\ [Next]_vars =>
        [faults = {} /\ kernel' # kernel /\ mon # "off" =>
           /\ slot[kernel'] # slot[kernel]
           /\ <<slot[kernel], slot[kernel']>> \in Paths]_vars
  <2> SUFFICES ASSUME OrderlyInv, LedInv, [Next]_vars, faults = {}, kernel' # kernel, mon # "off"
               PROVE  Leads(slot[kernel], slot[kernel'])
    BY DEF Leads
  <2>1. Led /\ Orderly
    BY DEF OrderlyInv, LedInv
  <2>2. Switches
    BY NextKind DEF Stays, Rewrites, Plans, Finishes, Records, Boots
  <2>3. kernel = running /\ kernel' = Opposite
    BY <2>1, <2>2 DEF Switches, Orderly, Switched
  <2> QED  BY <2>1, <2>2, <2>3 DEF Switches, Led
<1> QED  BY <1>1, AlwaysLed, PTL DEF Spec, FollowsPaths

\* The version that did not boot is not written again, however often the server
\* names it, when one path leads from each version and no power is lost.
THEOREM UpgradeNotAgain == Spec => []NotAgain
<1>1. OrderlyInv /\ LedInv => NotAgain
  <2> SUFFICES ASSUME OrderlyInv, LedInv, faults = {}, losses = 0, OneWay,
                      NEW p \in Procs, pc[p] = "installer"
               PROVE  tarVer \notin rejected
    BY DEF NotAgain
  <2>1. Orderly /\ Remembered
    BY DEF OrderlyInv, LedInv
  <2>2. state = "upgrading"
    BY <2>1 DEF Orderly, Staged, Agrees
  <2>3. rejected = {}
    BY <2>1, <2>2 DEF Remembered, Writing
  <2> QED  BY <2>3
<1> QED  BY <1>1, AlwaysLed, PTL

-----------------------------------------------------------------------------
(* Types                                                                   *)

FileTypes ==
    /\ state \in {"", "starting", "fetching", "untarring", "upgrading", "upgraded", "failed"}
    /\ tar \in {"none", "part", "whole", "bad", "good"}
    /\ tarVer \in 0..Latest /\ rebootIt \in BOOLEAN

BootTypes ==
    /\ slot \in [Slots -> 0..Latest] /\ running \in Slots /\ kernel \in Slots
    /\ verified \subseteq Slots /\ upgradedVersion \in 0..Latest
    /\ info \in [ver : 0..Latest, good : BOOLEAN]
    /\ rejected \subseteq 1..Latest

MonitorTypes ==
    /\ mon \in {"off", "boot", "run", "complete", "wait", "kernel", "flag",
                "version", "info", "check", "dup", "halt"}
    /\ goal \in {"reboot", "off"} /\ first \in BOOLEAN /\ dup \in BOOLEAN

BoundTypes == wants \in 0..MaxWants /\ losses \in 0..MaxLosses /\ faults \in FaultSets

Typed == FileTypes /\ BootTypes /\ MonitorTypes /\ BoundTypes

LEMMA InitTyped == Init => Typed
<1> SUFFICES ASSUME Init  PROVE Typed
  OBVIOUS
<1>1. 0 \in 0..Latest /\ 1 \in 0..Latest /\ 0 \in 0..MaxWants /\ 0 \in 0..MaxLosses
  BY UpgradeConstants
<1> USE <1>1 DEF Init
<1>2. FileTypes
  BY DEF FileTypes
<1>3. BootTypes
  BY DEF BootTypes, Slots
<1>4. MonitorTypes
  BY DEF MonitorTypes
<1>5. BoundTypes
  BY DEF BoundTypes
<1> QED  BY <1>2, <1>3, <1>4, <1>5 DEF Typed

\* The program upgrade: the version it writes is one there is.
LEMMA UpgradeTyped ==
  ASSUME Typed, NEW p \in Procs, UpgradeStep(p)
  PROVE  Typed'
<1> USE DEF Goto, Exit, CleanAllFiles, SetState, KeepFiles, GiveUp,
            fileVars, bootVars, monVars, boundVars
<1>1. UNCHANGED <<running, kernel, verified, upgradedVersion, info, rejected, monVars,
                  wants, losses, faults>>
  BY DEF UpgradeStep, ExecUpgrade, Main, Plan, Download, Verify, Install, Untar, Installer, Touch
<1>2. /\ Latest \in Nat /\ 0 \in 0..Latest /\ slot \in [Slots -> 0..Latest] /\ tarVer \in 0..Latest
      /\ SwVersion \in 0..Latest
  <2>1. Latest \in Nat /\ 0 \in 0..Latest
    BY UpgradeConstants
  <2>2. slot \in [Slots -> 0..Latest] /\ running \in Slots /\ tarVer \in 0..Latest
    BY DEF Typed, FileTypes, BootTypes
  <2> QED  BY <2>1, <2>2 DEF SwVersion
<1>3. FileTypes'
  <2>1. CASE Plan(p)
    <3>1. tarVer' \in {0, tarVer} \/ tarVer' \in 1..Latest
      BY <2>1 DEF Plan
    <3>2. tarVer' \in 0..Latest
      BY <1>2, <3>1
    <3> QED  BY <2>1, <3>2 DEF Plan, Typed, FileTypes
  <2>2. CASE ExecUpgrade(p) \/ Main(p) \/ Download(p) \/ Verify(p) \/ Install(p)
    BY <1>2, <2>2 DEF ExecUpgrade, Main, Download, Verify, Install, Typed, FileTypes
  <2>3. CASE Untar(p) \/ Installer(p) \/ Touch(p)
    BY <1>2, <2>3 DEF Untar, Installer, Touch, Typed, FileTypes
  <2> QED  BY <2>1, <2>2, <2>3 DEF UpgradeStep
<1>4. slot' \in [Slots -> 0..Latest]
  <2>1. PICK n \in 0..Latest : slot' = slot \/ slot' = [slot EXCEPT ![Opposite] = n]
    BY <1>2 DEF UpgradeStep, ExecUpgrade, Main, Plan, Download, Verify, Install, Untar, Installer,
                Touch, Mixed
  <2> QED  BY <1>2, <2>1
<1> QED  BY <1>1, <1>3, <1>4 DEF Typed, BootTypes, MonitorTypes, BoundTypes

\* monitor on its way down and the boot.
LEMMA MonitorTyped ==
  ASSUME Typed, MonitorStep \/ PowerOff \/ LosePower
  PROVE  Typed'
<1> USE DEF Dark, CleanAllFiles, KeepFiles, Spawn, AfterCompletion,
            fileVars, procVars, bootVars, monVars, boundVars
<1>1. FileTypes' /\ BoundTypes'
  <2>1. 0 \in 0..Latest /\ losses' \in 0..MaxLosses
    <3>1. losses' = losses \/ (losses < MaxLosses /\ losses' = losses + 1)
      BY DEF MonitorStep, SeeRebootIt, Complete, WaitDone,
        SetKernel, SetProgrammed, WriteUpgradedVersion, WriteUpgradeInfo, CheckUpgradeInfo,
        DupFsEnds, Halt, Boot, StartMonitor, PowerOff, LosePower
    <3>2. losses \in 0..MaxLosses /\ MaxLosses \in Nat /\ Latest \in Nat
      BY UpgradeConstants DEF Typed, BoundTypes
    <3> QED  BY <3>1, <3>2
  <2>2. FileTypes'
    BY <2>1 DEF Typed, FileTypes, MonitorStep, SeeRebootIt, Complete, WaitDone,
      SetKernel, SetProgrammed, WriteUpgradedVersion, WriteUpgradeInfo, CheckUpgradeInfo,
      DupFsEnds, Halt, Boot, StartMonitor, PowerOff, LosePower
  <2> QED
    BY <2>1, <2>2 DEF Typed, BoundTypes, MonitorStep, SeeRebootIt, Complete, WaitDone,
      SetKernel, SetProgrammed, WriteUpgradedVersion, WriteUpgradeInfo, CheckUpgradeInfo,
      DupFsEnds, Halt, Boot, StartMonitor, PowerOff, LosePower
<1>2. MonitorTypes'
  <2>1. CASE CheckUpgradeInfo
    <3>1. dup' \in BOOLEAN
      <4>1. dup' = dup \/ dup' = TRUE \/ dup' = FALSE
        <5>1. dup' = dup \/ dup' \in BOOLEAN
          BY <2>1 DEF CheckUpgradeInfo
        <5> QED  BY <5>1
      <4> QED  BY <4>1 DEF Typed, MonitorTypes
    <3>2. mon' \in {"dup", "halt"} /\ goal' = goal /\ first' = first
      BY <2>1 DEF CheckUpgradeInfo
    <3> QED  BY <3>1, <3>2 DEF Typed, MonitorTypes
  <2>4. CASE DupFsEnds \/ Halt \/ LosePower
    BY <2>4 DEF Typed, MonitorTypes, DupFsEnds, Halt, LosePower
  <2>2. CASE SeeRebootIt \/ Complete \/ WaitDone \/ Boot \/ StartMonitor \/ PowerOff
    BY <2>2 DEF Typed, MonitorTypes, SeeRebootIt, Complete, WaitDone, Boot, StartMonitor, PowerOff
  <2>3. CASE SetKernel \/ SetProgrammed \/ WriteUpgradedVersion \/ WriteUpgradeInfo
    BY <2>3 DEF Typed, MonitorTypes, SetKernel, SetProgrammed, WriteUpgradedVersion,
      WriteUpgradeInfo
  <2> QED  BY <2>1, <2>2, <2>3, <2>4 DEF MonitorStep
<1>3. BootTypes'
  <2>1. /\ Latest \in Nat /\ 0 \in 0..Latest /\ slot \in [Slots -> 0..Latest]
        /\ SwVersion \in 0..Latest /\ Opposite \in Slots /\ slot[Opposite] \in 0..Latest
        /\ running \in Slots /\ kernel \in Slots /\ 3 - kernel \in Slots
        /\ info \in [ver : 0..Latest, good : BOOLEAN]
    BY UpgradeConstants DEF Typed, BootTypes, SwVersion, Opposite, Slots
  <2>2. slot' \in [Slots -> 0..Latest]
    <3>1. PICK n \in 0..Latest : slot' = slot \/ slot' = [slot EXCEPT ![Opposite] = n]
      BY <2>1 DEF Mixed, MonitorStep, SeeRebootIt, Complete, WaitDone,
        SetKernel, SetProgrammed, WriteUpgradedVersion, WriteUpgradeInfo, CheckUpgradeInfo,
        DupFsEnds, Halt, Boot, StartMonitor, PowerOff, LosePower
    <3> QED  BY <2>1, <3>1
  <2>3. info' \in [ver : 0..Latest, good : BOOLEAN]
    <3>1. CASE PowerOff
      BY <2>1, <3>1 DEF PowerOff
    <3>2. CASE WriteUpgradeInfo
      BY <2>1, <3>2 DEF WriteUpgradeInfo
    <3>3. CASE CheckUpgradeInfo
      <4>1. info' = info \/ info' = [ver |-> 0, good |-> FALSE]
        BY <3>3 DEF CheckUpgradeInfo
      <4>2. [ver |-> 0, good |-> FALSE] \in [ver : 0..Latest, good : BOOLEAN]
        BY <2>1
      <4> QED  BY <2>1, <4>1, <4>2
    <3>4. CASE ~(PowerOff \/ WriteUpgradeInfo \/ CheckUpgradeInfo)
      <4>1. info' = info
        BY <3>4 DEF MonitorStep, SeeRebootIt, Complete, WaitDone, SetKernel, SetProgrammed,
          WriteUpgradedVersion, DupFsEnds, Halt, Boot, StartMonitor, LosePower
      <4> QED  BY <2>1, <4>1
    <3> QED  BY <3>1, <3>2, <3>3, <3>4
  <2>4. CASE Boot
    <3>1. slot[kernel] \in 0..Latest /\ {slot[kernel]} \ {Mixed} \subseteq 1..Latest
      BY <2>1 DEF Mixed
    <3> QED  BY <2>1, <2>2, <2>3, <2>4, <3>1 DEF Boot, Typed, BootTypes
  <2>5. CASE ~Boot
    BY <2>1, <2>2, <2>3, <2>5 DEF Typed, BootTypes, MonitorStep, SeeRebootIt, Complete, WaitDone,
      SetKernel, SetProgrammed, WriteUpgradedVersion, WriteUpgradeInfo, CheckUpgradeInfo,
      DupFsEnds, Halt, StartMonitor, PowerOff, LosePower
  <2> QED  BY <2>4, <2>5
<1> QED  BY <1>1, <1>2, <1>3 DEF Typed

LEMMA NextTyped == Typed /\ [Next]_vars => Typed'
<1> SUFFICES ASSUME Typed, [Next]_vars  PROVE Typed'
  OBVIOUS
<1>1. CASE UNCHANGED vars
  <2>1. UNCHANGED <<fileVars, rebootIt, bootVars, monVars, boundVars>>
    BY <1>1 DEF vars
  <2>2. FileTypes'
    BY <2>1 DEF fileVars, Typed, FileTypes
  <2>3. MonitorTypes'
    BY <2>1 DEF monVars, Typed, MonitorTypes
  <2>4. BootTypes'
    BY <2>1 DEF bootVars, boundVars, Typed, BootTypes
  <2>5. BoundTypes'
    BY <2>1 DEF boundVars, Typed, BoundTypes
  <2> QED  BY <2>2, <2>3, <2>4, <2>5 DEF Typed
<1>2. CASE ServerWants \/ FirstConnection
  <2>1. wants' \in 0..MaxWants
    BY <1>2, UpgradeConstants DEF ServerWants, FirstConnection, boundVars, Typed, BoundTypes
  <2>2. /\ UNCHANGED <<fileVars, rebootIt, bootVars, mon, goal, dup, rejected, losses, faults>>
        /\ first' \in {first, FALSE}
    BY <1>2 DEF ServerWants, FirstConnection, monVars, boundVars
  <2>3. FileTypes'
    BY <2>2 DEF fileVars, Typed, FileTypes
  <2>4. MonitorTypes'
    BY <2>2 DEF Typed, MonitorTypes
  <2>5. BootTypes'
    BY <2>2 DEF bootVars, Typed, BootTypes
  <2>6. BoundTypes'
    BY <2>1, <2>2 DEF Typed, BoundTypes
  <2> QED  BY <2>3, <2>4, <2>5, <2>6 DEF Typed
<1>3. CASE (\E p \in Procs : UpgradeStep(p)) \/ MonitorStep \/ PowerOff \/ LosePower
  BY <1>3, UpgradeTyped, MonitorTyped
<1> QED  BY <1>1, <1>2, <1>3 DEF Next

\* Type correctness: no file and no boot variable names a version there is not,
\* and no version that was refused was half written.
THEOREM UpgradeTypeOK == Spec => []TypeOK
<1>1. Typed /\ Core => TypeOK
  BY DEF Typed, FileTypes, BootTypes, MonitorTypes, BoundTypes, Core, Shape, Places, TypeOK
<1> QED  BY <1>1, InitTyped, NextTyped, InitCore, NextCore, PTL DEF Spec
=============================================================================
