-------------------------- MODULE CertRotationProofs --------------------------
(***************************************************************************)
(* Proofs about CertRotation, for every set of machines, every number of   *)
(* rotations and every number of crashes.                                  *)
(***************************************************************************)
EXTENDS CertRotation, TLAPS

-------------------------------------------------------------------------------
(* The configuration files. *)

\* What the three files of a rotation from authority g to g + 1 contain.
LEMMA StageFilesOf ==
    ASSUME NEW g
    PROVE  /\ StageFiles(Fresh(g), g + 1)[1] = [ca |-> g, roots |-> {g, g + 1}]
           /\ StageFiles(Fresh(g), g + 1)[2] = [ca |-> g + 1, roots |-> {g, g + 1}]
           /\ StageFiles(Fresh(g), g + 1)[3] = Fresh(g + 1)
<1>1. Stage1(Fresh(g), g + 1) = [ca |-> g, roots |-> {g, g + 1}]
  <2>1. {g} \cup {g + 1} = {g, g + 1}
    OBVIOUS
  <2> QED
    BY <2>1 DEF Stage1, Fresh
<1>2. Stage2(Fresh(g), g + 1) = [ca |-> g + 1, roots |-> {g, g + 1}]
  BY <1>1 DEF Stage2
<1>3. Stage3(Fresh(g), g + 1) = Fresh(g + 1)
  BY <1>2 DEF Stage3, Fresh
<1> QED
  BY <1>1, <1>2, <1>3 DEF StageFiles, Stage

\* create-certs yields well-formed configurations.
LEMMA StageFilesType ==
    ASSUME NEW k \in Keys, k.ca < MaxCa
    PROVE  StageFiles(k, k.ca + 1) \in [Stage -> Keys]
<1>1. k.ca \in Ca /\ k.ca + 1 \in Ca /\ k.roots \subseteq Ca
  BY MaxCaAssumption DEF Keys, Ca
<1>2. Stage1(k, k.ca + 1) \in Keys
  BY <1>1 DEF Stage1, Keys
<1>3. Stage2(k, k.ca + 1) \in Keys
  BY <1>1, <1>2 DEF Stage2, Keys
<1>4. Stage3(k, k.ca + 1) \in Keys
  BY <1>1, <1>3 DEF Stage3, Keys
<1> QED
  BY <1>2, <1>3, <1>4 DEF StageFiles, Stage

\* cluster create yields a well-formed configuration.
LEMMA FreshType == Fresh(1) \in Keys
BY MaxCaAssumption DEF Fresh, Keys, Ca

-------------------------------------------------------------------------------
(* Type correctness.  It needs to know that a stage is rolled out exactly   *)
(* while the operator is not idle, so that a stage file is what is sent.    *)

\* The cluster starts well typed, between rotations.
LEMMA TypeInit == Init => TypeOK /\ PhaseInv
BY FreshType, MachineAssumption DEF Init, TypeOK, PhaseInv, Stage

\* No command of the operator and no event on a machine breaks a type, or
\* separates the stage from what the operator is doing.
LEMMA TypeStep == TypeOK /\ PhaseInv /\ [Next]_vars => TypeOK' /\ PhaseInv'
<1> SUFFICES ASSUME TypeOK, PhaseInv, [Next]_vars PROVE TypeOK' /\ PhaseInv'
  OBVIOUS
<1> USE DEF TypeOK, PhaseInv, operatorVars, machineVars
<1>1. CASE CreateCerts
  <2>1. StageFiles(master, master.ca + 1) \in [Stage -> Keys]
    BY <1>1, StageFilesType DEF CreateCerts
  <2> QED
    BY <1>1, <2>1 DEF CreateCerts, Stage
<1>2. CASE UploadConfig
  BY <1>2 DEF UploadConfig, AwsUpload, AzureUpload
<1>3. CASE NextStage
  BY <1>3 DEF NextStage, Stage
<1>4. CASE SaveMaster
  BY <1>4 DEF SaveMaster, Stage
<1>5. ASSUME NEW m \in Machine, Install(m) PROVE TypeOK' /\ PhaseInv'
  <2>1. CASE InstallNew(m)
    BY <2>1 DEF InstallNew, MayInstall
  <2>2. CASE InstallIdentical(m)
    BY <2>2 DEF InstallIdentical, MayInstall
  <2>3. CASE SeesRotation(m)
    BY <2>3 DEF SeesRotation
  <2>4. CASE Interrupt(m)
    BY <2>4 DEF Interrupt
  <2> QED
    BY <1>5, <2>1, <2>2, <2>3, <2>4 DEF Install
<1>6. ASSUME NEW m \in Machine, Controller(m) PROVE TypeOK' /\ PhaseInv'
  <2>1. CASE ControllerStart(m)
    BY <2>1 DEF ControllerStart
  <2>2. CASE ControllerReload(m)
    BY <2>2 DEF ControllerReload
  <2>3. CASE ControllerCrash(m)
    BY <2>3, MachineAssumption DEF ControllerCrash
  <2>4. CASE LogAges(m)
    BY <2>4 DEF LogAges
  <2> QED
    BY <1>6, <2>1, <2>2, <2>3, <2>4 DEF Controller
<1>7. ASSUME NEW m \in Machine, Life(m) PROVE TypeOK' /\ PhaseInv'
  <2>1. CASE MachineAdd(m)
    BY <2>1 DEF MachineAdd
  <2>2. CASE UrlExpires(m)
    BY <2>2 DEF UrlExpires
  <2>3. CASE Download(m)
    BY <2>3 DEF Download
  <2>4. CASE Join(m)
    BY <2>4 DEF Join
  <2>5. CASE MachineDelete(m)
    BY <2>5 DEF MachineDelete
  <2> QED
    BY <1>7, <2>1, <2>2, <2>3, <2>4, <2>5 DEF Life
<1>8. CASE UNCHANGED vars
  BY <1>8 DEF vars
<1> QED
  BY <1>1, <1>2, <1>3, <1>4, <1>5, <1>6, <1>7, <1>8 DEF Next

\* Every variable keeps its type, whoever operates the cluster.
THEOREM TypeCorrect == Spec => []TypeOK
<1> DEFINE TypeInv == TypeOK /\ PhaseInv
<1>1. Init => TypeInv
  BY TypeInit
<1>2. TypeInv /\ [Next]_vars => TypeInv'
  BY TypeStep
<1>3. TypeInv => TypeOK
  OBVIOUS
<1> HIDE DEF TypeInv
<1> QED
  BY <1>1, <1>2, <1>3, PTL DEF Spec

-------------------------------------------------------------------------------
(* Mutual trust.  A patient operator keeps the fleet within one stage: the  *)
(* configurations on the machines are the one it comes from (Base) and the  *)
(* one it is to have (Current), and stages are designed so that these two   *)
(* accept each other.                                                       *)

\* The two configurations are well formed.
LEMMA BaseCurrentType ==
    ASSUME TypeOK, PhaseInv
    PROVE  Base \in Keys /\ Current \in Keys
BY DEF TypeOK, PhaseInv, Base, Current, Stage

\* Whatever the stage, the last and the current configuration accept
\* themselves and each other.
LEMMA NeighboursAccept ==
    ASSUME TypeOK, PhaseInv, RotationInv,
           NEW k \in {Base, Current}, NEW l \in {Base, Current}
    PROVE  Accepts(k, l)
<1> DEFINE g == master.ca
<1>1. g \in Nat /\ master = [ca |-> g, roots |-> {g}]
  BY DEF RotationInv, TypeOK, Keys, Ca, Fresh
<1>2. CASE stage = 0
  <2>1. Base = master /\ Current = master
    BY <1>2 DEF Base, Current, PhaseInv
  <2> QED
    BY <1>1, <2>1 DEF Accepts
<1>3. CASE stage \in Stage
  <2>1. /\ stageFile[1] = [ca |-> g, roots |-> {g, g + 1}]
        /\ stageFile[2] = [ca |-> g + 1, roots |-> {g, g + 1}]
        /\ stageFile[3] = [ca |-> g + 1, roots |-> {g + 1}]
    BY <1>1, <1>3, StageFilesOf DEF RotationInv, Stage, Fresh
  <2>2. CASE stage = 1
    <3>1. Base = master /\ Current \in {master, stageFile[1]}
      BY <2>2 DEF Base, Current
    <3> QED
      BY <1>1, <2>1, <3>1 DEF Accepts
  <2>3. CASE stage = 2
    <3>1. Base = stageFile[1] /\ Current \in {stageFile[1], stageFile[2]}
      BY <2>3 DEF Base, Current
    <3> QED
      BY <1>1, <2>1, <3>1 DEF Accepts
  <2>4. CASE stage = 3
    <3>1. Base = stageFile[2] /\ Current \in {stageFile[2], stageFile[3]}
      BY <2>4 DEF Base, Current
    <3> QED
      BY <1>1, <2>1, <3>1 DEF Accepts
  <2> QED
    BY <1>3, <2>2, <2>3, <2>4 DEF Stage
<1> QED
  BY <1>2, <1>3 DEF TypeOK

\* A fresh cluster has one configuration, so it is not spread over stages.
LEMMA FleetInit == Init => FleetWithinOneStage
<1> SUFFICES ASSUME Init PROVE FleetWithinOneStage
  OBVIOUS
<1>1. Fresh(1) \in Keys /\ NoKeys # Fresh(1) /\ Fresh(1).ca = 1
  BY FreshType, MachineAssumption DEF Fresh
<1>2. PhaseInv /\ RotationInv
  BY <1>1 DEF Init, PhaseInv, RotationInv, Base, Current
<1>3. FleetInv
  BY <1>1 DEF Init, FleetInv, Base, Current
<1> QED
  BY <1>2, <1>3 DEF FleetWithinOneStage

\* A step of one machine leaves both configurations alone; it is enough that
\* the invariant holds for this machine afterwards.
LEMMA FleetStep ==
    ASSUME TypeOK, FleetWithinOneStage, ~Hasty, [Next]_vars
    PROVE  FleetWithinOneStage'
<1>1. PhaseInv /\ PhaseInv'
  BY TypeStep DEF FleetWithinOneStage
<1>2. Base \in Keys /\ Current \in Keys /\ NoKeys \notin Keys
  BY <1>1, BaseCurrentType, MachineAssumption
<1> USE DEF operatorVars, machineVars
<1>3. CASE CreateCerts
  <2>1. stage = 0 /\ Base = master /\ Current = master /\ Base' = master /\ Current' = master
    BY <1>1, <1>3 DEF CreateCerts, PhaseInv, Base, Current
  <2>2. RotationInv'
    BY <1>3, <2>1 DEF CreateCerts, FleetWithinOneStage, RotationInv
  <2>3. FleetInv'
    BY <1>3, <2>1 DEF CreateCerts, FleetWithinOneStage, FleetInv, Listed
  <2> QED
    BY <1>1, <2>2, <2>3 DEF FleetWithinOneStage
<1>4. CASE UploadConfig
  <2>1. Base' = Base /\ Current = Base /\ Current' = stageFile[stage]
    BY <1>4 DEF UploadConfig, Base, Current
  <2>2. RotationInv'
    BY <1>4, <2>1 DEF UploadConfig, AwsUpload, AzureUpload, FleetWithinOneStage, RotationInv
  <2>3. FleetInv'
    BY <1>4, <2>1 DEF UploadConfig, FleetWithinOneStage, FleetInv, Listed
  <2> QED
    BY <1>1, <2>2, <2>3 DEF FleetWithinOneStage
<1>5. CASE NextStage
  <2>1. Base' = Current /\ Current' = Current /\ stage \in {1, 2}
    BY <1>1, <1>5 DEF NextStage, PhaseInv, Base, Current, TypeOK, Stage
  <2>2. RotationInv'
    BY <1>5, <2>1 DEF NextStage, FleetWithinOneStage, RotationInv
  <2>3. FleetInv'
    BY <1>2, <1>5, <2>1 DEF NextStage, FleetWithinOneStage, FleetInv, Listed
  <2> QED
    BY <1>1, <2>2, <2>3 DEF FleetWithinOneStage
<1>6. CASE SaveMaster
  <2>1. Base' = Current /\ Current' = Current
    BY <1>6 DEF SaveMaster, Base, Current
  <2>2. RotationInv'
    <3>1. master' = Fresh(master.ca + 1)
      <4>1. PICK g : g = master.ca
        OBVIOUS
      <4>2. master = Fresh(g) /\ master' = StageFiles(master, g + 1)[3]
        BY <1>6, <4>1 DEF SaveMaster, FleetWithinOneStage, RotationInv
      <4>3. StageFiles(Fresh(g), g + 1)[3] = Fresh(g + 1)
        BY StageFilesOf
      <4> QED
        BY <4>1, <4>2, <4>3
    <3>2. master' = Fresh(master'.ca)
      BY <3>1 DEF Fresh
    <3> QED
      BY <1>6, <2>1, <3>2 DEF SaveMaster, FleetWithinOneStage, RotationInv
  <2>3. FleetInv'
    BY <1>2, <1>6, <2>1 DEF SaveMaster, FleetWithinOneStage, FleetInv, Listed
  <2> QED
    BY <1>1, <2>2, <2>3 DEF FleetWithinOneStage
<1>7. ASSUME NEW m \in Machine, Install(m) PROVE FleetWithinOneStage'
  <2>1. Base' = Base /\ Current' = Current /\ RotationInv'
    BY <1>7 DEF Install, InstallNew, InstallIdentical, SeesRotation, Interrupt,
                FleetWithinOneStage, RotationInv, Base, Current
  <2>2. CASE InstallNew(m)
    <3>1. Current = stageFile[stage] /\ disk[m] = Base /\ active[m] \in {NoKeys, Base}
      BY <2>2 DEF InstallNew, MayInstall, Current, FleetWithinOneStage, FleetInv
    <3> QED
      BY <1>1, <1>2, <2>1, <2>2, <3>1
      DEF InstallNew, MayInstall, FleetWithinOneStage, FleetInv, Listed, TypeOK
  <2>3. CASE InstallIdentical(m)
    BY <1>1, <2>1, <2>3 DEF InstallIdentical, MayInstall, Current, FleetWithinOneStage, FleetInv, Listed, TypeOK
  <2>4. CASE SeesRotation(m)
    BY <1>1, <2>1, <2>4 DEF SeesRotation, FleetWithinOneStage, FleetInv, Listed, TypeOK
  <2>5. CASE Interrupt(m)
    BY <1>1, <2>1, <2>5 DEF Interrupt, FleetWithinOneStage, FleetInv, Listed, TypeOK
  <2> QED
    BY <1>7, <2>2, <2>3, <2>4, <2>5 DEF Install
<1>8. ASSUME NEW m \in Machine, Controller(m) PROVE FleetWithinOneStage'
  <2>1. Base' = Base /\ Current' = Current /\ RotationInv'
    BY <1>8 DEF Controller, ControllerStart, ControllerReload, ControllerCrash, LogAges,
                FleetWithinOneStage, RotationInv, Base, Current
  <2>2. CASE ControllerStart(m)
    BY <1>1, <2>1, <2>2 DEF ControllerStart, FleetWithinOneStage, FleetInv, Listed, TypeOK
  <2>3. CASE ControllerReload(m)
    BY <1>1, <2>1, <2>3 DEF ControllerReload, FleetWithinOneStage, FleetInv, Listed, TypeOK
  <2>4. CASE ControllerCrash(m)
    BY <1>1, <2>1, <2>4 DEF ControllerCrash, FleetWithinOneStage, FleetInv, Listed, TypeOK
  <2>5. CASE LogAges(m)
    BY <1>1, <2>1, <2>5 DEF LogAges, FleetWithinOneStage, FleetInv, Listed, TypeOK
  <2> QED
    BY <1>8, <2>2, <2>3, <2>4, <2>5 DEF Controller
<1>9. ASSUME NEW m \in Machine, Life(m) PROVE FleetWithinOneStage'
  <2>1. Base' = Base /\ Current' = Current /\ RotationInv'
    BY <1>9 DEF Life, MachineAdd, UrlExpires, Download, Join, MachineDelete,
                FleetWithinOneStage, RotationInv, Base, Current
  <2>2. CASE MachineAdd(m)
    BY <1>1, <2>1, <2>2 DEF MachineAdd, FleetWithinOneStage, FleetInv, Listed, TypeOK
  <2>3. CASE UrlExpires(m)
    BY <1>1, <2>1, <2>3 DEF UrlExpires, FleetWithinOneStage, FleetInv, Listed, TypeOK
  <2>4. CASE Download(m)
    BY <1>1, <2>1, <2>4 DEF Download, FleetWithinOneStage, RotationInv, FleetInv, Listed, TypeOK
  <2>5. CASE Join(m)
    <3>1. disk[m] = NoKeys /\ active[m] = NoKeys /\ script[m] = "idle"
      BY <2>5 DEF Join, FleetWithinOneStage, FleetInv
    <3>2. CASE image[m] = NotAnArchive
      BY <1>1, <2>1, <2>5, <3>1, <3>2 DEF Join, FleetWithinOneStage, FleetInv, Listed, TypeOK
    <3>3. CASE image[m] # NotAnArchive
      <4>1. image[m] \in {Base, Current}
        BY <2>5, <3>3 DEF Join, FleetWithinOneStage, FleetInv
      <4>2. phase = "install" => m \notin done
        BY <2>5, <3>1, <1>2 DEF Join, FleetWithinOneStage, FleetInv, Listed
      <4>3. /\ node' = [node EXCEPT ![m] = "joined"]
            /\ disk' = [disk EXCEPT ![m] = image[m]]
            /\ UNCHANGED <<phase, done, image, active, script, recent>>
        BY <2>5, <3>3 DEF Join
      <4>4. FleetInv'
        BY <1>2, <2>1, <3>1, <4>1, <4>2, <4>3 DEF FleetWithinOneStage, FleetInv, Listed, TypeOK
      <4> QED
        BY <1>1, <2>1, <4>4 DEF FleetWithinOneStage
    <3> QED
      BY <3>2, <3>3
  <2>6. CASE MachineDelete(m)
    BY <1>1, <2>1, <2>6 DEF MachineDelete, FleetWithinOneStage, FleetInv, Listed, TypeOK
  <2> QED
    BY <1>9, <2>2, <2>3, <2>4, <2>5, <2>6 DEF Life
<1>10. CASE UNCHANGED vars
  BY <1>1, <1>10 DEF vars, FleetWithinOneStage, RotationInv, FleetInv, Base, Current, Listed
<1> QED
  BY <1>3, <1>4, <1>5, <1>6, <1>7, <1>8, <1>9, <1>10 DEF Next

\* The inductive invariant of a rotation run by a patient operator.
LEMMA FleetInvariant ==
    ASSUME ~Hasty
    PROVE  Spec => [](TypeOK /\ FleetWithinOneStage)
<1> DEFINE IInv == TypeOK /\ FleetWithinOneStage
<1>1. Init => IInv
  BY TypeInit, FleetInit
<1>2. IInv /\ [Next]_vars => IInv'
  BY TypeStep, FleetStep DEF FleetWithinOneStage
<1> HIDE DEF IInv
<1>3. Spec => []IInv
  BY <1>1, <1>2, PTL DEF Spec
<1> QED
  BY <1>3 DEF IInv

\* A patient operator never has the fleet more than one stage apart.
THEOREM OneStageApart ==
    ASSUME ~Hasty
    PROVE  Spec => []FleetWithinOneStage
BY FleetInvariant, PTL

\* During every rotation run by a patient operator, any two running
\* controllers accept each other's certificates.
THEOREM TrustIsMutual ==
    ASSUME ~Hasty
    PROVE  Spec => []MutualTrust
<1>1. TypeOK /\ FleetWithinOneStage => MutualTrust
  <2> SUFFICES ASSUME TypeOK, FleetWithinOneStage,
                      NEW m \in Machine, NEW n \in Machine,
                      active[m] # NoKeys, active[n] # NoKeys
               PROVE  Accepts(active[m], active[n])
    BY DEF MutualTrust
  <2>1. active[m] \in {Base, Current} /\ active[n] \in {Base, Current}
    BY DEF FleetWithinOneStage, FleetInv
  <2> QED
    BY <2>1, NeighboursAccept DEF FleetWithinOneStage
<1> QED
  BY <1>1, FleetInvariant, PTL

\* After every rotation run by a patient operator, the authority that was
\* rotated out is trusted nowhere.
THEOREM OldCaIsRetired ==
    ASSUME ~Hasty
    PROVE  Spec => []OldCaRetired
<1>1. TypeOK /\ FleetWithinOneStage => OldCaRetired
  <2> SUFFICES ASSUME TypeOK, FleetWithinOneStage, phase = "idle", NEW m \in Machine
               PROVE  active[m] \in {NoKeys, Fresh(master.ca)}
    BY DEF OldCaRetired
  <2>1. Base = Fresh(master.ca) /\ Current = Fresh(master.ca)
    BY DEF FleetWithinOneStage, PhaseInv, RotationInv, Base, Current
  <2> QED
    BY <2>1 DEF FleetWithinOneStage, FleetInv
<1> QED
  BY <1>1, FleetInvariant, PTL

-------------------------------------------------------------------------------
(* What the exit of the install script is worth.                            *)

\* A script only waits on a machine with keys; and a line that was logged
\* while it waits is about the keys that it installed.
LineInv ==
    \A m \in Machine :
        /\ disk[m] # NoKeys => node[m] = "joined"
        /\ script[m] = "waiting" => disk[m] # NoKeys
        /\ script[m] = "waiting" /\ recent[m] => stale[m] \/ active[m] \in {NoKeys, disk[m]}

\* No step, of a patient operator or another, breaks it.
LEMMA LineStep ==
    ASSUME TypeOK, PhaseInv, LineInv, [Next]_vars
    PROVE  LineInv'
<1> USE DEF TypeOK, LineInv, operatorVars, machineVars
<1>1. CASE CreateCerts \/ UploadConfig \/ NextStage \/ SaveMaster
  BY <1>1 DEF CreateCerts, UploadConfig, NextStage, SaveMaster
<1>2. ASSUME NEW m \in Machine, Install(m) PROVE LineInv'
  <2>1. CASE InstallNew(m)
    <3>1. stageFile[stage] # NoKeys
      BY <2>1, MachineAssumption DEF InstallNew, MayInstall, PhaseInv
    <3> QED
      BY <2>1, <3>1 DEF InstallNew, MayInstall
  <2>2. CASE InstallIdentical(m)
    BY <2>2 DEF InstallIdentical
  <2>3. CASE SeesRotation(m)
    BY <2>3 DEF SeesRotation
  <2>4. CASE Interrupt(m)
    BY <2>4 DEF Interrupt
  <2> QED
    BY <1>2, <2>1, <2>2, <2>3, <2>4 DEF Install
<1>3. ASSUME NEW m \in Machine, Controller(m) PROVE LineInv'
  <2>1. CASE ControllerStart(m)
    BY <2>1 DEF ControllerStart
  <2>2. CASE ControllerReload(m)
    BY <2>2 DEF ControllerReload
  <2>3. CASE ControllerCrash(m)
    BY <2>3 DEF ControllerCrash
  <2>4. CASE LogAges(m)
    BY <2>4 DEF LogAges
  <2> QED
    BY <1>3, <2>1, <2>2, <2>3, <2>4 DEF Controller
<1>4. ASSUME NEW m \in Machine, Life(m) PROVE LineInv'
  <2>1. CASE MachineAdd(m)
    BY <2>1 DEF MachineAdd
  <2>2. CASE UrlExpires(m)
    BY <2>2 DEF UrlExpires
  <2>3. CASE Download(m)
    BY <2>3 DEF Download
  <2>4. CASE Join(m)
    BY <2>4 DEF Join
  <2>5. CASE MachineDelete(m)
    BY <2>5 DEF MachineDelete
  <2> QED
    BY <1>4, <2>1, <2>2, <2>3, <2>4, <2>5 DEF Life
<1>5. CASE UNCHANGED vars
  BY <1>5 DEF vars
<1> QED
  BY <1>1, <1>2, <1>3, <1>4, <1>5 DEF Next

\* Whoever operates the cluster, an install script that exits with success has
\* had the installed keys loaded, or it was fooled by a line from before.
THEOREM ExitIsRotated == Spec => ExitMeansRotated
<1> DEFINE IInv == TypeOK /\ PhaseInv /\ LineInv
<1>1. Init => IInv
  <2> SUFFICES ASSUME Init PROVE LineInv
    BY TypeInit
  <2> QED
    BY DEF Init, LineInv
<1>2. IInv /\ [Next]_vars => IInv'
  BY TypeStep, LineStep
<1>3. IInv /\ [Next]_vars
        => [\A m \in Machine : SeesRotation(m) => active[m] = disk[m] \/ stale[m]]_vars
  BY DEF SeesRotation, LineInv
<1> HIDE DEF IInv
<1> QED
  BY <1>1, <1>2, <1>3, PTL DEF Spec, ExitMeansRotated

-------------------------------------------------------------------------------
(* Machines that join.  What sye aws upload-config stores is an archive, so *)
(* only a URL that has expired makes a machine download anything else.      *)

\* The strengthening of NewMachinesJoin.
JoinInv ==
    /\ bucket # NotAnArchive
    /\ \A m \in Machine : node[m] = "fetched" /\ image[m] = NotAnArchive => late[m]
    /\ NewMachinesJoin

\* Whatever the operator does, patient or not, the strengthening is kept.
LEMMA JoinStep ==
    ASSUME TypeOK, PhaseInv, JoinInv, ~Azure, [Next]_vars
    PROVE  JoinInv'
<1> USE DEF TypeOK, JoinInv, NewMachinesJoin, operatorVars, machineVars
<1>1. CASE CreateCerts
  BY <1>1 DEF CreateCerts
<1>2. CASE UploadConfig
  <2>1. stageFile[stage] \in Keys
    BY <1>2 DEF UploadConfig, PhaseInv
  <2> QED
    BY <1>2, <2>1, MachineAssumption DEF UploadConfig, AwsUpload
<1>3. CASE NextStage
  BY <1>3 DEF NextStage
<1>4. CASE SaveMaster
  BY <1>4 DEF SaveMaster
<1>5. ASSUME NEW m \in Machine, Install(m) PROVE JoinInv'
  BY <1>5 DEF Install, InstallNew, InstallIdentical, SeesRotation, Interrupt
<1>6. ASSUME NEW m \in Machine, Controller(m) PROVE JoinInv'
  BY <1>6 DEF Controller, ControllerStart, ControllerReload, ControllerCrash, LogAges
<1>7. ASSUME NEW m \in Machine, Life(m) PROVE JoinInv'
  <2>1. CASE MachineAdd(m)
    BY <2>1 DEF MachineAdd
  <2>2. CASE UrlExpires(m)
    BY <2>2 DEF UrlExpires
  <2>3. CASE Download(m)
    BY <2>3 DEF Download
  <2>4. CASE Join(m)
    BY <2>4 DEF Join
  <2>5. CASE MachineDelete(m)
    BY <2>5 DEF MachineDelete
  <2> QED
    BY <1>7, <2>1, <2>2, <2>3, <2>4, <2>5 DEF Life
<1>8. CASE UNCHANGED vars
  BY <1>8 DEF vars
<1> QED
  BY <1>1, <1>2, <1>3, <1>4, <1>5, <1>6, <1>7, <1>8 DEF Next

\* On AWS a machine fails to join only when its signed URL has expired, whatever
\* stage of a rotation it is added in.
THEOREM NewcomersJoin ==
    ASSUME ~Azure
    PROVE  Spec => []NewMachinesJoin
<1> DEFINE IInv == TypeOK /\ PhaseInv /\ JoinInv
<1>1. Init => IInv
  <2> SUFFICES ASSUME Init PROVE JoinInv
    BY TypeInit
  <2>1. Fresh(1) # NotAnArchive
    BY FreshType, MachineAssumption
  <2> QED
    BY <2>1, MachineAssumption DEF Init, JoinInv, NewMachinesJoin
<1>2. IInv /\ [Next]_vars => IInv'
  BY TypeStep, JoinStep
<1>3. IInv => NewMachinesJoin
  BY DEF JoinInv
<1> HIDE DEF IInv
<1> QED
  BY <1>1, <1>2, <1>3, PTL DEF Spec

-------------------------------------------------------------------------------
(* The staged rotation implements the barrier: the frontier is the epoch of *)
(* the current configuration, and every running controller is at it or one  *)
(* epoch behind it.                                                         *)

\* Epochs of the configurations a rotation passes through.
LEMMA EpochsOf ==
    ASSUME NEW g \in Nat
    PROVE  /\ Epoch([ca |-> g, roots |-> {g}]) = 3 * g
           /\ Epoch([ca |-> g, roots |-> {g, g + 1}]) = 3 * g + 1
           /\ Epoch([ca |-> g + 1, roots |-> {g, g + 1}]) = 3 * g + 2
           /\ Epoch([ca |-> g + 1, roots |-> {g + 1}]) = 3 * g + 3
<1>1. Epoch([ca |-> g, roots |-> {g}]) = 3 * g
  BY DEF Epoch
<1>2. Epoch([ca |-> g, roots |-> {g, g + 1}]) = 3 * g + 1
  BY DEF Epoch
<1>3. Epoch([ca |-> g + 1, roots |-> {g, g + 1}]) = 3 * g + 2
  BY DEF Epoch
<1>4. Epoch([ca |-> g + 1, roots |-> {g + 1}]) = 3 * g + 3
  BY DEF Epoch
<1> QED
  BY <1>1, <1>2, <1>3, <1>4

\* The refinement mapping.
Position == [m \in Machine |-> IF active[m] = NoKeys THEN 0 ELSE Epoch(active[m])]
Frontier == 3 * master.ca + (IF phase = "upload" THEN stage - 1 ELSE stage)

\* The mapped frontier is the epoch of the current configuration, and the
\* configuration the fleet comes from is at most one epoch behind.
LEMMA FrontierIsCurrent ==
    ASSUME TypeOK, PhaseInv, RotationInv
    PROVE  /\ Frontier \in 3..(3 * MaxCa)
           /\ Epoch(Current) = Frontier
           /\ Epoch(Base) = IF phase = "install" THEN Frontier - 1 ELSE Frontier
           /\ phase = "upload" => Frontier < 3 * MaxCa
<1> PICK g : g = master.ca
  OBVIOUS
<1>1. g \in 1..MaxCa /\ MaxCa \in Nat /\ master = [ca |-> g, roots |-> {g}]
  BY MaxCaAssumption DEF RotationInv, TypeOK, Keys, Ca, Fresh
<1>epochs. /\ Epoch([ca |-> g, roots |-> {g}]) = 3 * g
      /\ Epoch([ca |-> g, roots |-> {g, g + 1}]) = 3 * g + 1
      /\ Epoch([ca |-> g + 1, roots |-> {g, g + 1}]) = 3 * g + 2
      /\ Epoch([ca |-> g + 1, roots |-> {g + 1}]) = 3 * g + 3
  <2>1. g \in Nat
    BY <1>1
  <2> QED
    BY <2>1, EpochsOf
<1>2. Epoch(master) = 3 * g
  BY <1>1, <1>epochs, Zenon
<1>3. CASE stage = 0
  <2>1. Base = master /\ Current = master /\ Frontier = 3 * g /\ phase = "idle"
    BY <1>1, <1>3 DEF Base, Current, Frontier, PhaseInv
  <2> QED
    BY <1>1, <1>2, <2>1
<1>4. CASE stage \in Stage
  <2>1. g < MaxCa /\ phase \in {"upload", "install"}
    BY <1>4 DEF RotationInv, PhaseInv, TypeOK, Stage
  <2>2. /\ stageFile[1] = [ca |-> g, roots |-> {g, g + 1}]
        /\ stageFile[2] = [ca |-> g + 1, roots |-> {g, g + 1}]
        /\ stageFile[3] = [ca |-> g + 1, roots |-> {g + 1}]
    BY <1>1, <1>4, StageFilesOf DEF RotationInv, Stage, Fresh
  <2>3. \A s \in Stage : Epoch(stageFile[s]) = 3 * g + s
    <3>1. /\ Epoch(stageFile[1]) = 3 * g + 1
          /\ Epoch(stageFile[2]) = 3 * g + 2
          /\ Epoch(stageFile[3]) = 3 * g + 3
      BY <1>epochs, <2>2, Zenon
    <3> QED
      BY <3>1 DEF Stage
  <2>4. Epoch(Base) = 3 * g + stage - 1
    BY <1>1, <1>2, <1>4, <2>3 DEF Base, Stage
  <2>5. Epoch(Current) = Frontier
    <3>1. CASE phase = "install"
      BY <1>1, <1>4, <2>3, <3>1 DEF Current, Frontier
    <3>2. CASE phase = "upload"
      BY <1>1, <1>4, <2>4, <3>2 DEF Current, Frontier, Stage
    <3> QED
      BY <2>1, <3>1, <3>2
  <2>6. Frontier = IF phase = "upload" THEN 3 * g + stage - 1 ELSE 3 * g + stage
    BY <1>1, <1>4 DEF Frontier, Stage
  <2> QED
    BY <1>1, <1>4, <2>1, <2>4, <2>5, <2>6 DEF Stage
<1> QED
  BY <1>3, <1>4 DEF TypeOK

\* A running controller is at the frontier or, while a stage is installed,
\* one epoch behind.
LEMMA PositionNearFrontier ==
    ASSUME TypeOK, FleetWithinOneStage, NEW m \in Machine
    PROVE  /\ active[m] = NoKeys => Position[m] = 0
           /\ active[m] = Current => Position[m] = Frontier
           /\ active[m] = Base =>
                  Position[m] = IF phase = "install" THEN Frontier - 1 ELSE Frontier
           /\ active[m] \in {NoKeys, Base, Current}
<1>1. NoKeys \notin {Base, Current}
  BY BaseCurrentType, MachineAssumption DEF FleetWithinOneStage
<1>2. active[m] \in {NoKeys, Base, Current}
  BY DEF FleetWithinOneStage, FleetInv
<1> QED
  BY <1>1, <1>2, FrontierIsCurrent DEF FleetWithinOneStage, Position

\* Changing what one controller runs changes its position only.
LEMMA PositionUpdate ==
    ASSUME TypeOK, NEW m \in Machine, NEW k, active' = [active EXCEPT ![m] = k]
    PROVE  Position' = [Position EXCEPT ![m] = IF k = NoKeys THEN 0 ELSE Epoch(k)]
BY DEF TypeOK, Position

\* In a fresh cluster all controllers stand at the frontier of the barrier.
LEMMA BarrierInit == Init => Barrier!Init
<1> SUFFICES ASSUME Init PROVE Barrier!Init
  OBVIOUS
<1>1. TypeOK /\ PhaseInv /\ RotationInv /\ FleetWithinOneStage
  BY TypeInit, FleetInit DEF FleetWithinOneStage
<1>2. Frontier \in 1..(3 * MaxCa)
  BY <1>1, FrontierIsCurrent, MaxCaAssumption
<1>3. phase # "install"
  BY DEF Init
<1>4. \A m \in Machine : Position[m] \in {0, Frontier}
  BY <1>1, <1>3, PositionNearFrontier
<1>5. Position \in [Machine -> {0, Frontier}]
  BY <1>4 DEF Position
<1> QED
  BY <1>2, <1>5 DEF Barrier!Init, Position, Frontier

\* Every step of the rotation is a step of the barrier, or none.
LEMMA BarrierStep ==
    ASSUME TypeOK, FleetWithinOneStage, ~Hasty, [Next]_vars
    PROVE  [Barrier!Next]_(Barrier!vars)
<1>1. PhaseInv /\ RotationInv /\ FleetInv
  BY DEF FleetWithinOneStage
<1>2. Frontier \in 3..(3 * MaxCa) /\ MaxCa \in Nat
  BY <1>1, FrontierIsCurrent, MaxCaAssumption
<1>3. NoKeys \notin Keys /\ Base \in Keys /\ Current \in Keys
  BY <1>1, BaseCurrentType, MachineAssumption
<1> USE DEF operatorVars, machineVars
<1>4. ASSUME Position' = Position, Frontier' = Frontier
      PROVE  [Barrier!Next]_(Barrier!vars)
  BY <1>4 DEF Barrier!vars, Position, Frontier
<1>5. ASSUME NEW m \in Machine, active[m] # NoKeys, active' = [active EXCEPT ![m] = NoKeys],
             Frontier' = Frontier
      PROVE  [Barrier!Next]_(Barrier!vars)
  <2>1. Position[m] # 0
    BY <1>1, <1>2, <1>5, PositionNearFrontier
  <2>2. Position' = [Position EXCEPT ![m] = 0]
    BY <1>5, PositionUpdate
  <2> QED
    BY <1>5, <2>1, <2>2 DEF Barrier!Next, Barrier!Leave, Position, Frontier
<1>6. CASE CreateCerts
  <2>1. Frontier' = Frontier
    BY <1>1, <1>6 DEF CreateCerts, Frontier, PhaseInv
  <2> QED
    BY <1>4, <1>6, <2>1 DEF CreateCerts, Position
<1>7. CASE UploadConfig
  <2>1. Frontier' = Frontier + 1 /\ Frontier < 3 * MaxCa
    <3>1. Frontier = 3 * master.ca + (stage - 1) /\ Frontier' = 3 * master.ca + stage
      BY <1>7 DEF UploadConfig, Frontier
    <3>2. master.ca \in Nat /\ stage \in Nat
      BY DEF TypeOK, Keys, Ca, Stage
    <3> QED
      BY <1>1, <1>7, <3>1, <3>2, FrontierIsCurrent DEF UploadConfig
  <2>2. \A m \in Machine : Position[m] \in {0, Frontier}
    BY <1>1, <1>7, PositionNearFrontier DEF UploadConfig
  <2>3. Position' = Position
    BY <1>7 DEF UploadConfig, Position
  <2> QED
    BY <2>1, <2>2, <2>3 DEF Barrier!Next, Barrier!Raise, Position, Frontier
<1>8. CASE NextStage
  <2>1. Frontier' = Frontier
    BY <1>8 DEF NextStage, Frontier, TypeOK, Stage, Keys, Ca
  <2> QED
    BY <1>4, <1>8, <2>1 DEF NextStage, Position
<1>9. CASE SaveMaster
  <2>1. master'.ca = master.ca + 1
    <3>1. PICK g : g = master.ca
      OBVIOUS
    <3>2. master = Fresh(g) /\ master' = StageFiles(master, g + 1)[3]
      BY <1>1, <1>9, <3>1 DEF SaveMaster, RotationInv
    <3>3. StageFiles(Fresh(g), g + 1)[3] = Fresh(g + 1)
      BY StageFilesOf
    <3>4. master' = Fresh(g + 1)
      BY <3>2, <3>3
    <3> QED
      BY <3>1, <3>4 DEF Fresh
  <2>2. Frontier' = Frontier
    BY <1>9, <2>1 DEF SaveMaster, Frontier, TypeOK, Keys, Ca
  <2> QED
    BY <1>4, <1>9, <2>2 DEF SaveMaster, Position
<1>10. ASSUME NEW m \in Machine, Install(m) PROVE [Barrier!Next]_(Barrier!vars)
  BY <1>4, <1>10 DEF Install, InstallNew, InstallIdentical, SeesRotation, Interrupt, Position, Frontier
<1>11. ASSUME NEW m \in Machine, ControllerStart(m) PROVE [Barrier!Next]_(Barrier!vars)
  <2>1. disk[m] \in {Base, Current} /\ disk[m] # NoKeys
    BY <1>1, <1>11 DEF ControllerStart, FleetInv
  <2>2. Position' = [Position EXCEPT ![m] = Epoch(disk[m])]
    BY <1>11, <2>1, PositionUpdate DEF ControllerStart
  <2>3. Epoch(disk[m]) \in {Frontier - 1, Frontier} \ {0}
    BY <1>1, <1>2, <2>1, FrontierIsCurrent
  <2>4. Position[m] = 0 /\ Frontier' = Frontier
    BY <1>11 DEF ControllerStart, Position, Frontier
  <2> QED
    BY <2>2, <2>3, <2>4 DEF Barrier!Next, Barrier!Enter, Position, Frontier
<1>12. ASSUME NEW m \in Machine, ControllerReload(m) PROVE [Barrier!Next]_(Barrier!vars)
  <2>1. active[m] = Base /\ disk[m] = Current /\ phase = "install"
    BY <1>1, <1>12 DEF ControllerReload, FleetInv
  <2>2. Position[m] = Frontier - 1 /\ Position[m] # 0
    BY <1>2, <2>1, PositionNearFrontier
  <2>3. Position' = [Position EXCEPT ![m] = Frontier]
    BY <1>1, <1>3, <1>12, <2>1, PositionUpdate, FrontierIsCurrent DEF ControllerReload
  <2>4. Frontier' = Frontier
    BY <1>12 DEF ControllerReload, Frontier
  <2> QED
    BY <2>2, <2>3, <2>4 DEF Barrier!Next, Barrier!CatchUp, Position, Frontier
<1>13. ASSUME NEW m \in Machine, ControllerCrash(m) PROVE [Barrier!Next]_(Barrier!vars)
  BY <1>5, <1>13 DEF ControllerCrash, Frontier
<1>14. ASSUME NEW m \in Machine, LogAges(m) PROVE [Barrier!Next]_(Barrier!vars)
  BY <1>4, <1>14 DEF LogAges, Position, Frontier
<1>15. ASSUME NEW m \in Machine, Life(m), ~MachineDelete(m) PROVE [Barrier!Next]_(Barrier!vars)
  BY <1>4, <1>15 DEF Life, MachineAdd, UrlExpires, Download, Join, Position, Frontier
<1>16. ASSUME NEW m \in Machine, MachineDelete(m) PROVE [Barrier!Next]_(Barrier!vars)
  <2>1. active' = [active EXCEPT ![m] = NoKeys] /\ Frontier' = Frontier
    BY <1>16 DEF MachineDelete, Frontier
  <2>2. CASE active[m] = NoKeys
    <3>1. active' = active
      BY <2>1, <2>2 DEF TypeOK
    <3> QED
      BY <1>4, <2>1, <3>1 DEF Position
  <2> QED
    BY <1>5, <2>1, <2>2
<1>17. CASE UNCHANGED vars
  BY <1>4, <1>17 DEF vars, Position, Frontier
<1> QED
  BY <1>6, <1>7, <1>8, <1>9, <1>10, <1>11, <1>12, <1>13, <1>14, <1>15, <1>16, <1>17
  DEF Next, Controller

\* With a patient operator the staged rotation implements the barrier: no
\* controller ever skips an epoch, falls back, or gets ahead of one that lags.
THEOREM ImplementsBarrier ==
    ASSUME ~Hasty
    PROVE  Spec => MovesInStep
<1> DEFINE IInv == TypeOK /\ FleetWithinOneStage
<1>1. Init => Barrier!Init
  BY BarrierInit
<1>2. IInv /\ [Next]_vars => [Barrier!Next]_(Barrier!vars)
  BY BarrierStep
<1>3. Spec => []IInv
  BY FleetInvariant
<1> HIDE DEF IInv
<1> QED
  BY <1>1, <1>2, <1>3, PTL DEF Spec, MovesInStep, Barrier!Spec
================================================================================
