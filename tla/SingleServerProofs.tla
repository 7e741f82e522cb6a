-------------------------- MODULE SingleServerProofs --------------------------
(***************************************************************************)
(* Proofs about SingleServer, for every set of services and any number of  *)
(* faults and restarts of docker.                                          *)
(***************************************************************************)
EXTENDS SingleServer, TLAPS

-------------------------------------------------------------------------------
(* The inductive invariant. *)

\* A controller exists only with its configuration.
Configured == ct["controller"] # "none" => conf # "none" /\ named

\* What a join has done before it makes the controller, and a registry before it runs.
JoinProgress ==
    /\ job.step \in {"name", "look", "create", "run"} => conf # "none"
    /\ job.step \in {"look", "create", "run"} => named
    /\ job.step = "start" \/ ct["registry"] # "none" => "registry" \in volume

\* A leave with docker rm ahead of it has listed every container, or else the controller
\* has come up again, which docker rm will then refuse to remove.
Listed ==
    \/ Existing \subseteq job.ids
    \/ ct["controller"] = "running" /\ "controller" \in job.ids

\* How far a leave has come.
LeaveProgress ==
    /\ job.step = "removeAll" => Listed
    /\ job.step \in {"volumes", "files"} => Existing = {}
    /\ job.step = "files" => volume = {}

\* Without a restart of docker nothing starts once the controller is stopped.
Quiet ==
    ~restarted =>
        /\ job.step \in {"list", "stopAll", "listAgain", "removeAll"} => ct["controller"] # "running"
        /\ job.step = "stopAll" => Existing \subseteq job.ids
        /\ job.step \in {"listAgain", "removeAll"} => \A x \in Container : ct[x] # "running"

MachineInv == TypeOK /\ Configured /\ JoinProgress /\ LeaveProgress /\ Quiet

-------------------------------------------------------------------------------
(* It holds. *)

\* A machine with docker and nothing else.
LEMMA MachineInit == Init => MachineInv
<1> SUFFICES ASSUME Init PROVE MachineInv
  OBVIOUS
<1>1. images \in BOOLEAN /\ named \in BOOLEAN /\ restarted \in BOOLEAN /\ want \in BOOLEAN
      /\ ~images /\ ~named
  BY Zenon DEF Init
<1>2. faults \in 0..MaxFaults
  BY SingleServerAssumption DEF Init
<1>3. TypeOK
  BY <1>1, <1>2 DEF Init, TypeOK, NoJob, Url
<1>4. Existing = {}
  BY DEF Init, Existing
<1> QED
  BY <1>3, <1>4 DEF Init, NoJob, MachineInv, Configured, JoinProgress, LeaveProgress, Quiet, Container

-------------------------------------------------------------------------------
(* How a command goes on. *)

\* The values of job.
Job == [cmd : {"none", "leave", "remove", "start", "add", "join", "single"},
        step : {"idle"} \cup LeaveStep \cup RegistryStep \cup JoinStep,
        local : BOOLEAN, ids : SUBSET Container]

\* The steps of a command.
Steps == LeaveStep \cup RegistryStep \cup JoinStep

\* A command that goes on changes its step and nothing else.
LEMMA GotoJob ==
    ASSUME job \in Job, NEW step \in Steps, Goto(step)
    PROVE  job' \in Job /\ job'.step = step /\ job'.ids = job.ids
BY DEF Job, Steps, Goto

\* A command that ends leaves the shell idle.
LEMMA EndJob == End => job' \in Job /\ job'.step = "idle"
<1>1. FALSE \in BOOLEAN
  OBVIOUS
<1> QED
  BY <1>1 DEF End, NoJob, Job

\* A command that begins is at the step it begins with.
LEMMA BeginJob ==
    ASSUME NEW cmd \in {"leave", "remove", "start", "add", "join", "single"},
           NEW step \in Steps, NEW local \in BOOLEAN, Begin(cmd, step, local)
    PROVE  job' \in Job /\ job'.step = step /\ restarted' = FALSE
BY DEF Job, Steps, Begin

\* A command either goes on to a step or ends.
LEMMA GotoIfJob ==
    ASSUME job \in Job, NEW ok, NEW step \in Steps, GotoIf(ok, step)
    PROVE  job' \in Job /\ (job'.step = step \/ job'.step = "idle")
BY GotoJob, EndJob DEF GotoIf

\* So does single-server, when one of its parts returns.
LEMMA ReturnJob ==
    ASSUME job \in Job, NEW step \in Steps, Return(step)
    PROVE  job' \in Job /\ (job'.step = step \/ job'.step = "idle")
BY GotoIfJob DEF Return

\* What was listed is what there is.
LEMMA ListJob ==
    ASSUME job \in Job, List
    PROVE  /\ job' \in Job
           /\ \/ job'.step = "idle"
              \/ job.step = "list" /\ job'.step = "stopAll" /\ job'.ids = Existing
              \/ job.step = "listAgain" /\ job'.step = "removeAll" /\ job'.ids = Existing
<1>1. CASE End
  BY <1>1, EndJob
<1>2. CASE job.step = "list" /\ job' = [job EXCEPT !.ids = Existing, !.step = "stopAll"]
  BY <1>2 DEF Job, LeaveStep, Existing
<1>3. CASE job.step = "listAgain" /\ job' = [job EXCEPT !.ids = Existing, !.step = "removeAll"]
  BY <1>3 DEF Job, LeaveStep, Existing
<1>4. \/ End
      \/ job.step = "list" /\ job' = [job EXCEPT !.ids = Existing, !.step = "stopAll"]
      \/ job.step = "listAgain" /\ job' = [job EXCEPT !.ids = Existing, !.step = "removeAll"]
  BY DEF List, At, Job
<1> QED
  BY <1>1, <1>2, <1>3, <1>4

\* Faults are counted up to their bound.
LEMMA FaultType == ASSUME TypeOK, Restart \/ Crash PROVE faults' \in 0..MaxFaults
BY SingleServerAssumption DEF TypeOK, Restart, Crash

-------------------------------------------------------------------------------
(* No step breaks the invariant. *)

\* The shell is always at a step of a command.
LEMMA JobStep == MachineInv /\ [Next]_vars => (job \in Job)'
<1> SUFFICES ASSUME MachineInv, [Next]_vars PROVE (job \in Job)'
  OBVIOUS
<1>0. job \in Job
  BY DEF MachineInv, TypeOK, Job
<1> USE GotoJob, EndJob, GotoIfJob, ReturnJob DEF Steps, LeaveStep, RegistryStep, JoinStep
<1>1. CASE CommandStart
  BY <1>0, <1>1, BeginJob DEF CommandStart
<1>2. CASE SingleServerStart
  BY <1>0, <1>2, BeginJob DEF SingleServerStart
<1>3. CASE LeaveLook
  BY <1>0, <1>3 DEF LeaveLook
<1>4. CASE StopController
  BY <1>0, <1>4 DEF StopController
<1>5. CASE List
  BY <1>0, <1>5, ListJob
<1>6. CASE StopAll
  BY <1>0, <1>6 DEF StopAll
<1>7. CASE RemoveAll
  BY <1>0, <1>7 DEF RemoveAll
<1>8. CASE RemoveVolumes
  BY <1>0, <1>8 DEF RemoveVolumes
<1>9. CASE LeaveDone
  BY <1>0, <1>9 DEF LeaveDone
<1>10. CASE RegistryStop
  BY <1>0, <1>10 DEF RegistryStop
<1>11. CASE RegistryRemove
  BY <1>0, <1>11 DEF RegistryRemove
<1>12. CASE RegistryCreate
  BY <1>0, <1>12 DEF RegistryCreate
<1>13. CASE RegistryRun
  BY <1>0, <1>13 DEF RegistryRun
<1>14. CASE RegistryCheck
  BY <1>0, <1>14 DEF RegistryCheck
<1>15. CASE RegistryAddImages
  BY <1>0, <1>15 DEF RegistryAddImages
<1>16. CASE ClusterCreate
  BY <1>0, <1>16 DEF ClusterCreate
<1>17. CASE Extract
  BY <1>0, <1>17 DEF Extract
<1>18. CASE WriteMachineJson
  BY <1>0, <1>18 DEF WriteMachineJson
<1>19. CASE JoinLook
  BY <1>0, <1>19 DEF JoinLook, JoinSucceeds
<1>20. CASE ControllerCreate
  BY <1>0, <1>20 DEF ControllerCreate
<1>21. CASE ControllerRun
  BY <1>0, <1>21 DEF ControllerRun, JoinSucceeds
<1>22. CASE StartService
  BY <1>0, <1>22 DEF StartService
<1>23. CASE StopService
  BY <1>0, <1>23 DEF StopService
<1>24. CASE Restart
  BY <1>0, <1>24 DEF Restart
<1>25. CASE Crash
  BY <1>0, <1>25 DEF Crash
<1>26. CASE UNCHANGED vars
  BY <1>0, <1>26 DEF vars
<1> QED
  BY <1>1, <1>2, <1>3, <1>4, <1>5, <1>6, <1>7, <1>8, <1>9, <1>10, <1>11,
     <1>12, <1>13, <1>14, <1>15, <1>16, <1>17, <1>18, <1>19, <1>20, <1>21,
     <1>22, <1>23, <1>24, <1>25, <1>26
  DEF Next, Leave, Registry, Join

\* Every variable keeps its type; images are only in the volume of a registry.
LEMMA TypeStep == MachineInv /\ [Next]_vars => TypeOK'
<1> SUFFICES ASSUME MachineInv, [Next]_vars PROVE TypeOK'
  OBVIOUS
<1>0. job' \in Job
  BY JobStep
<1> USE <1>0, SingleServerAssumption DEF Job, MachineInv, TypeOK, JoinProgress, Url,
      Container, At, Becomes, JoinSucceeds, Begin
<1>1. CASE CommandStart
  BY <1>1 DEF CommandStart
<1>2. CASE SingleServerStart
  BY <1>2 DEF SingleServerStart
<1>3. CASE LeaveLook
  BY <1>3 DEF LeaveLook, Existing
<1>4. CASE StopController
  BY <1>4 DEF StopController
<1>5. CASE List
  BY <1>5 DEF List, Existing
<1>6. CASE StopAll
  BY <1>6 DEF StopAll
<1>7. CASE RemoveAll
  BY <1>7 DEF RemoveAll, Stubborn
<1>8. CASE RemoveVolumes
  BY <1>8 DEF RemoveVolumes
<1>9. CASE LeaveDone
  BY <1>9 DEF LeaveDone
<1>10. CASE RegistryStop
  BY <1>10 DEF RegistryStop
<1>11. CASE RegistryRemove
  BY <1>11 DEF RegistryRemove
<1>12. CASE RegistryCreate
  BY <1>12 DEF RegistryCreate
<1>13. CASE RegistryRun
  BY <1>13 DEF RegistryRun
<1>14. CASE RegistryCheck
  BY <1>14 DEF RegistryCheck
<1>15. CASE RegistryAddImages
  BY <1>15 DEF RegistryAddImages
<1>16. CASE ClusterCreate
  BY <1>16 DEF ClusterCreate
<1>17. CASE Extract
  BY <1>17 DEF Extract
<1>18. CASE WriteMachineJson
  BY <1>18 DEF WriteMachineJson
<1>19. CASE JoinLook
  BY <1>19 DEF JoinLook
<1>20. CASE ControllerCreate
  BY <1>20 DEF ControllerCreate
<1>21. CASE ControllerRun
  BY <1>21 DEF ControllerRun
<1>22. CASE StartService
  BY <1>22 DEF StartService
<1>23. CASE StopService
  BY <1>23 DEF StopService
<1>24. CASE Restart
  BY <1>24 DEF Restart
<1>25. CASE Crash
  BY <1>25 DEF Crash
<1>26. CASE UNCHANGED vars
  BY <1>26 DEF vars
<1> QED
  BY <1>1, <1>2, <1>3, <1>4, <1>5, <1>6, <1>7, <1>8, <1>9, <1>10, <1>11,
     <1>12, <1>13, <1>14, <1>15, <1>16, <1>17, <1>18, <1>19, <1>20, <1>21,
     <1>22, <1>23, <1>24, <1>25, <1>26
  DEF Next, Leave, Registry, Join

\* /etc/sye is removed when there is no controller, and filled before there is one.
LEMMA ConfiguredStep == MachineInv /\ [Next]_vars => Configured'
<1> SUFFICES ASSUME MachineInv, [Next]_vars PROVE Configured'
  OBVIOUS
<1> USE SingleServerAssumption DEF MachineInv, TypeOK, Configured, JoinProgress,
      LeaveProgress, Container, Existing, Begin, Goto, GotoIf, Return, End, At, Becomes,
      JoinSucceeds, NoJob
<1>1. CASE CommandStart
  BY <1>1 DEF CommandStart
<1>2. CASE SingleServerStart
  BY <1>2 DEF SingleServerStart
<1>3. CASE LeaveLook
  BY <1>3 DEF LeaveLook
<1>4. CASE StopController
  BY <1>4 DEF StopController
<1>5. CASE List
  BY <1>5 DEF List
<1>6. CASE StopAll
  BY <1>6 DEF StopAll
<1>7. CASE RemoveAll
  BY <1>7 DEF RemoveAll, Stubborn
<1>8. CASE RemoveVolumes
  BY <1>8 DEF RemoveVolumes
<1>9. CASE LeaveDone
  BY <1>9 DEF LeaveDone
<1>10. CASE RegistryStop
  BY <1>10 DEF RegistryStop
<1>11. CASE RegistryRemove
  BY <1>11 DEF RegistryRemove
<1>12. CASE RegistryCreate
  BY <1>12 DEF RegistryCreate
<1>13. CASE RegistryRun
  BY <1>13 DEF RegistryRun
<1>14. CASE RegistryCheck
  BY <1>14 DEF RegistryCheck
<1>15. CASE RegistryAddImages
  BY <1>15 DEF RegistryAddImages
<1>16. CASE ClusterCreate
  BY <1>16 DEF ClusterCreate
<1>17. CASE Extract
  BY <1>17 DEF Extract
<1>18. CASE WriteMachineJson
  BY <1>18 DEF WriteMachineJson
<1>19. CASE JoinLook
  BY <1>19 DEF JoinLook
<1>20. CASE ControllerCreate
  BY <1>20 DEF ControllerCreate
<1>21. CASE ControllerRun
  BY <1>21 DEF ControllerRun
<1>22. CASE StartService
  BY <1>22 DEF StartService
<1>23. CASE StopService
  BY <1>23 DEF StopService
<1>24. CASE Restart
  BY <1>24 DEF Restart
<1>25. CASE Crash
  BY <1>25 DEF Crash
<1>26. CASE UNCHANGED vars
  BY <1>26 DEF vars
<1> QED
  BY <1>1, <1>2, <1>3, <1>4, <1>5, <1>6, <1>7, <1>8, <1>9, <1>10, <1>11,
     <1>12, <1>13, <1>14, <1>15, <1>16, <1>17, <1>18, <1>19, <1>20, <1>21,
     <1>22, <1>23, <1>24, <1>25, <1>26
  DEF Next, Leave, Registry, Join

\* A join never sees its configuration go.
LEMMA JoinProgressStep == MachineInv /\ [Next]_vars => JoinProgress'
<1> SUFFICES ASSUME MachineInv, [Next]_vars PROVE JoinProgress'
  OBVIOUS
<1> USE SingleServerAssumption DEF MachineInv, TypeOK, JoinProgress, Container, Existing,
      Begin, Goto, GotoIf, Return, End, At, Becomes, JoinSucceeds, NoJob
<1>1. CASE CommandStart
  BY <1>1 DEF CommandStart
<1>2. CASE SingleServerStart
  BY <1>2 DEF SingleServerStart
<1>3. CASE LeaveLook
  BY <1>3 DEF LeaveLook
<1>4. CASE StopController
  BY <1>4 DEF StopController
<1>5. CASE List
  <2>1. /\ UNCHANGED <<ct, volume, conf, named, restarted>>
        /\ \/ job'.step = "idle"
           \/ job.step = "list" /\ job'.step = "stopAll" /\ job'.ids = Existing
           \/ job.step = "listAgain" /\ job'.step = "removeAll" /\ job'.ids = Existing
    BY <1>5, ListJob DEF List, Job
  <2> QED
    BY <2>1
<1>6. CASE StopAll
  BY <1>6 DEF StopAll
<1>7. CASE RemoveAll
  BY <1>7 DEF RemoveAll, Stubborn
<1>8. CASE RemoveVolumes
  BY <1>8 DEF RemoveVolumes
<1>9. CASE LeaveDone
  BY <1>9 DEF LeaveDone
<1>10. CASE RegistryStop
  BY <1>10 DEF RegistryStop
<1>11. CASE RegistryRemove
  BY <1>11 DEF RegistryRemove
<1>12. CASE RegistryCreate
  BY <1>12 DEF RegistryCreate
<1>13. CASE RegistryRun
  BY <1>13 DEF RegistryRun
<1>14. CASE RegistryCheck
  BY <1>14 DEF RegistryCheck
<1>15. CASE RegistryAddImages
  BY <1>15 DEF RegistryAddImages
<1>16. CASE ClusterCreate
  BY <1>16 DEF ClusterCreate
<1>17. CASE Extract
  BY <1>17 DEF Extract
<1>18. CASE WriteMachineJson
  BY <1>18 DEF WriteMachineJson
<1>19. CASE JoinLook
  BY <1>19 DEF JoinLook
<1>20. CASE ControllerCreate
  BY <1>20 DEF ControllerCreate
<1>21. CASE ControllerRun
  BY <1>21 DEF ControllerRun
<1>22. CASE StartService
  BY <1>22 DEF StartService
<1>23. CASE StopService
  BY <1>23 DEF StopService
<1>24. CASE Restart
  BY <1>24 DEF Restart
<1>25. CASE Crash
  BY <1>25 DEF Crash
<1>26. CASE UNCHANGED vars
  BY <1>26 DEF vars
<1> QED
  BY <1>1, <1>2, <1>3, <1>4, <1>5, <1>6, <1>7, <1>8, <1>9, <1>10, <1>11,
     <1>12, <1>13, <1>14, <1>15, <1>16, <1>17, <1>18, <1>19, <1>20, <1>21,
     <1>22, <1>23, <1>24, <1>25, <1>26
  DEF Next, Leave, Registry, Join

\* Only a controller that runs brings up others, and one that runs is not removed.
LEMMA LeaveProgressStep == MachineInv /\ [Next]_vars => LeaveProgress'
<1> SUFFICES ASSUME MachineInv, [Next]_vars PROVE LeaveProgress'
  OBVIOUS
<1> USE SingleServerAssumption DEF MachineInv, TypeOK, LeaveProgress, Listed, Container,
      Existing, Begin, Goto, GotoIf, Return, End, At, Becomes, JoinSucceeds, NoJob
<1>1. CASE CommandStart
  BY <1>1 DEF CommandStart
<1>2. CASE SingleServerStart
  BY <1>2 DEF SingleServerStart
<1>3. CASE LeaveLook
  BY <1>3 DEF LeaveLook
<1>4. CASE StopController
  BY <1>4 DEF StopController
<1>5. CASE List
  <2>1. /\ UNCHANGED <<ct, volume, conf, named, restarted>>
        /\ \/ job'.step = "idle"
           \/ job.step = "list" /\ job'.step = "stopAll" /\ job'.ids = Existing
           \/ job.step = "listAgain" /\ job'.step = "removeAll" /\ job'.ids = Existing
    BY <1>5, ListJob DEF List, Job
  <2> QED
    BY <2>1
<1>6. CASE StopAll
  BY <1>6 DEF StopAll
<1>7. CASE RemoveAll
  BY <1>7 DEF RemoveAll, Stubborn
<1>8. CASE RemoveVolumes
  BY <1>8 DEF RemoveVolumes
<1>9. CASE LeaveDone
  BY <1>9 DEF LeaveDone
<1>10. CASE RegistryStop
  BY <1>10 DEF RegistryStop
<1>11. CASE RegistryRemove
  BY <1>11 DEF RegistryRemove
<1>12. CASE RegistryCreate
  BY <1>12 DEF RegistryCreate
<1>13. CASE RegistryRun
  BY <1>13 DEF RegistryRun
<1>14. CASE RegistryCheck
  BY <1>14 DEF RegistryCheck
<1>15. CASE RegistryAddImages
  BY <1>15 DEF RegistryAddImages
<1>16. CASE ClusterCreate
  BY <1>16 DEF ClusterCreate
<1>17. CASE Extract
  BY <1>17 DEF Extract
<1>18. CASE WriteMachineJson
  BY <1>18 DEF WriteMachineJson
<1>19. CASE JoinLook
  BY <1>19 DEF JoinLook
<1>20. CASE ControllerCreate
  BY <1>20 DEF ControllerCreate
<1>21. CASE ControllerRun
  BY <1>21 DEF ControllerRun
<1>22. CASE StartService
  BY <1>22 DEF StartService
<1>23. CASE StopService
  BY <1>23 DEF StopService
<1>24. CASE Restart
  BY <1>24 DEF Restart
<1>25. CASE Crash
  BY <1>25 DEF Crash
<1>26. CASE UNCHANGED vars
  BY <1>26 DEF vars
<1> QED
  BY <1>1, <1>2, <1>3, <1>4, <1>5, <1>6, <1>7, <1>8, <1>9, <1>10, <1>11,
     <1>12, <1>13, <1>14, <1>15, <1>16, <1>17, <1>18, <1>19, <1>20, <1>21,
     <1>22, <1>23, <1>24, <1>25, <1>26
  DEF Next, Leave, Registry, Join

\* The controller is stopped before the containers are listed.
LEMMA QuietStep == MachineInv /\ [Next]_vars => Quiet'
<1> SUFFICES ASSUME MachineInv, [Next]_vars PROVE Quiet'
  OBVIOUS
<1> USE SingleServerAssumption DEF MachineInv, TypeOK, Quiet, Container, Existing, Begin,
      Goto, GotoIf, Return, End, At, Becomes, JoinSucceeds, NoJob
<1>1. CASE CommandStart
  BY <1>1 DEF CommandStart
<1>2. CASE SingleServerStart
  BY <1>2 DEF SingleServerStart
<1>3. CASE LeaveLook
  BY <1>3 DEF LeaveLook
<1>4. CASE StopController
  BY <1>4 DEF StopController
<1>5. CASE List
  <2>1. /\ UNCHANGED <<ct, volume, conf, named, restarted>>
        /\ \/ job'.step = "idle"
           \/ job.step = "list" /\ job'.step = "stopAll" /\ job'.ids = Existing
           \/ job.step = "listAgain" /\ job'.step = "removeAll" /\ job'.ids = Existing
    BY <1>5, ListJob DEF List, Job
  <2> QED
    BY <2>1
<1>6. CASE StopAll
  BY <1>6 DEF StopAll
<1>7. CASE RemoveAll
  BY <1>7 DEF RemoveAll, Stubborn
<1>8. CASE RemoveVolumes
  BY <1>8 DEF RemoveVolumes
<1>9. CASE LeaveDone
  BY <1>9 DEF LeaveDone
<1>10. CASE RegistryStop
  BY <1>10 DEF RegistryStop
<1>11. CASE RegistryRemove
  BY <1>11 DEF RegistryRemove
<1>12. CASE RegistryCreate
  BY <1>12 DEF RegistryCreate
<1>13. CASE RegistryRun
  BY <1>13 DEF RegistryRun
<1>14. CASE RegistryCheck
  BY <1>14 DEF RegistryCheck
<1>15. CASE RegistryAddImages
  BY <1>15 DEF RegistryAddImages
<1>16. CASE ClusterCreate
  BY <1>16 DEF ClusterCreate
<1>17. CASE Extract
  BY <1>17 DEF Extract
<1>18. CASE WriteMachineJson
  BY <1>18 DEF WriteMachineJson
<1>19. CASE JoinLook
  BY <1>19 DEF JoinLook
<1>20. CASE ControllerCreate
  BY <1>20 DEF ControllerCreate
<1>21. CASE ControllerRun
  BY <1>21 DEF ControllerRun
<1>22. CASE StartService
  BY <1>22 DEF StartService
<1>23. CASE StopService
  BY <1>23 DEF StopService
<1>24. CASE Restart
  BY <1>24 DEF Restart
<1>25. CASE Crash
  BY <1>25 DEF Crash
<1>26. CASE UNCHANGED vars
  BY <1>26 DEF vars
<1> QED
  BY <1>1, <1>2, <1>3, <1>4, <1>5, <1>6, <1>7, <1>8, <1>9, <1>10, <1>11,
     <1>12, <1>13, <1>14, <1>15, <1>16, <1>17, <1>18, <1>19, <1>20, <1>21,
     <1>22, <1>23, <1>24, <1>25, <1>26
  DEF Next, Leave, Registry, Join

\* What every command relies on is there in every state.
LEMMA MachineInvariant == Spec => []MachineInv
<1>1. MachineInv /\ [Next]_vars => MachineInv'
  BY TypeStep, ConfiguredStep, JoinProgressStep, LeaveProgressStep, QuietStep DEF MachineInv
<1> QED
  BY MachineInit, <1>1, PTL DEF Spec

-------------------------------------------------------------------------------
(* The theorems. *)

\* No controller is ever without its configuration: sye-cluster-leave.sh removes it last
\* and sye-cluster-join.sh writes it first.
THEOREM ControllerIsConfigured == Spec => []ControllerHasConfig
<1>1. MachineInv => ControllerHasConfig
  BY DEF MachineInv, Configured, ControllerHasConfig
<1> QED
  BY MachineInvariant, <1>1, PTL

\* The three lists of sye-cluster-leave.sh suffice: what succeeds leaves no container and
\* no volume, and docker rm fails only when docker was restarted.
THEOREM LeaveIsComplete == Spec => LeaveLeavesNothing
<1>1. ASSUME MachineInv, LeaveDone PROVE Existing = {} /\ volume = {}
  BY <1>1 DEF MachineInv, LeaveProgress, LeaveDone, At
<1>2. ASSUME MachineInv, RemoveAll, Stubborn # {} PROVE restarted
  BY <1>2 DEF MachineInv, TypeOK, Quiet, RemoveAll, At, Stubborn
<1>3. MachineInv /\ [Next]_vars
        => [/\ LeaveDone => Existing = {} /\ volume = {}
            /\ RemoveAll /\ Stubborn # {} => restarted]_vars
  BY <1>1, <1>2
<1> QED
  BY MachineInvariant, <1>3, PTL DEF Spec, LeaveLeavesNothing
================================================================================
