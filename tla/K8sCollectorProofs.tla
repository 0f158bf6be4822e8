------------------------- MODULE K8sCollectorProofs -------------------------
(***************************************************************************)
(* Theorems about K8sCollector, for every cluster, number of workers and   *)
(* of failures.                                                            *)
(***************************************************************************)
EXTENDS K8sCollector, TLAPS

USE DEF worker, ports, output, jobs

(* Actions by what they touch.                                              *)

WorkerStep(w) ==
  \/ ExportContainerLogs(w) \/ ContainerLogsFail(w) \/ LogsDone(w)
  \/ NextType(w) \/ TypesDone(w) \/ Summary(w)
  \/ ProcessSingleFile(w) \/ FileFails(w) \/ FilesDone(w)

\* What is written and what is logged stays, and an archive that takes nothing
\* more never will.
Grow == archive \subseteq archive' /\ errors \subseteq errors' /\ (tar # "ok" => tar' # "ok")

LEMMA PutGrows == ASSUME NEW E, Put(E) PROVE archive' = archive \cup E
BY DEF Put

LEMMA WrittenGrows ==
  ASSUME NEW E, Written(E)
  PROVE  archive' = archive \cup E /\ tar' = tar /\ tar = "ok"
BY DEF Written, Put

LEMMA WriteFailsGrows ==
  ASSUME WriteFails PROVE archive' = archive /\ tar' # "ok"
BY DEF WriteFails

LEMMA ExportGrows == ASSUME NEW t \in Tasks, Export(t) PROVE Grow
<1> USE DEF Grow
<1>1. CASE Acquire(t) \/ AcquireFails(t)
  BY <1>1 DEF Acquire, AcquireFails, NoWrite, LogError
<1>2. CASE ExportGeneric(t)
  BY <1>2, WrittenGrows, WriteFailsGrows DEF ExportGeneric, NoWrite, LogError
<1>3. CASE DumpSSLInfo(t)
  BY <1>3, PutGrows DEF DumpSSLInfo, NoWrite
<1> QED
  BY <1>1, <1>2, <1>3 DEF Export

LEMMA SummaryErrorGrows ==
  ASSUME NEW w \in Workers, SummaryError(w)
  PROVE  Grow /\ <<"summary", job[w]>> \in errors'
BY WrittenGrows, WriteFailsGrows DEF SummaryError, LogError, Grow

LEMMA SummaryGrows == ASSUME NEW w \in Workers, Summary(w) PROVE Grow
<1> USE DEF Grow
<1>1. CASE GetSecret(w) \/ StorePort(w) \/ PortForwardPod(w) \/ AlreadyForwarded(w)
  BY <1>1 DEF GetSecret, StorePort, PortForwardPod, AlreadyForwarded
<1>2. CASE LocalPortInUse(w) \/ SummaryFails(w) \/ NoSummary(w)
  BY <1>2, SummaryErrorGrows DEF LocalPortInUse, SummaryFails, NoSummary
<1>3. CASE GotSummary(w)
  BY <1>3, WrittenGrows, WriteFailsGrows DEF GotSummary, LogError
<1> QED
  BY <1>1, <1>2, <1>3 DEF Summary

LEMMA WorkerGrows == ASSUME NEW w \in Workers, Worker(w) PROVE Grow
<1> USE DEF Grow
<1>1. CASE Take(w) \/ Leave(w) \/ LogsDone(w) \/ NextType(w) \/ TypesDone(w) \/ FilesDone(w)
  <2>1. UNCHANGED output
    BY <1>1 DEF Take, Leave, LogsDone, NextType, TypesDone, FilesDone
  <2> QED
    BY <2>1
<1>2. CASE ExportContainerLogs(w)
  BY <1>2, WrittenGrows DEF ExportContainerLogs
<1>3. CASE ContainerLogsFail(w)
  BY <1>3 DEF ContainerLogsFail, NoWrite, LogError
<1>4. CASE NoSpaceLeft(w)
  BY <1>4, WriteFailsGrows DEF NoSpaceLeft, NoWrite
<1>5. CASE Summary(w)
  BY <1>5, SummaryGrows
<1>6. CASE ProcessSingleFile(w)
  BY <1>6, WrittenGrows DEF ProcessSingleFile
<1>7. CASE FileFails(w)
  BY <1>7, WriteFailsGrows DEF FileFails, NoWrite
<1> QED
  BY <1>1, <1>2, <1>3, <1>4, <1>5, <1>6, <1>7 DEF Worker

LEMMA MainGrows == DumpCluster \/ Fails => Grow
<1> USE DEF Grow
<1>1. CASE DumpToArchive
  BY <1>1, WrittenGrows, WriteFailsGrows DEF DumpToArchive
<1>2. CASE Fails
  BY <1>2 DEF Fails, Refused, DiscoverFails, NamespacesFail, ListFails
<1>3. CASE DumpCluster /\ ~DumpToArchive
  BY <1>3 DEF DumpCluster, New, OpenArchive, DiscoverAndSpawn, ListNamespaces, ExportDone,
     StartWorkers, ListPods, Dispatch, CloseJobs, WaitWorkers, CloseArchive
<1> QED
  BY <1>1, <1>2, <1>3

LEMMA EveryStepGrows == [Next]_vars => Grow
BY ExportGrows, WorkerGrows, MainGrows DEF Next, Runs, Grow, vars
-----------------------------------------------------------------------------
(* Where main is, and the channel.                                          *)

Final == {"errors", "close", "exited"}

MainInv ==
  /\ pc \in {"new", "open", "discover", "namespaces", "export", "workers", "sync", "dispatch",
             "wait"} \cup Final
  /\ exit \in {-1, 0, 1} /\ ((exit = -1) <=> (pc \notin Final))
  /\ queue \in Seq(Pods) /\ undispatched \subseteq Pods
  /\ pc \in {"new", "open", "discover", "namespaces", "export", "workers"} =>
       \A w \in Workers : at[w] = "none"
  /\ closed => pc \in {"wait"} \cup Final
  /\ pc = "wait" => undispatched = {}

LEMMA MainInit == Init => MainInv
<1> SUFFICES ASSUME Init PROVE MainInv
  OBVIOUS
<1>1. pc = "new" /\ exit = -1 /\ queue = <<>> /\ undispatched = {} /\ closed = FALSE
  BY DEF Init
<1>2. \A w \in Workers : at[w] = "none"
  BY DEF Init
<1> QED
  BY <1>1, <1>2 DEF MainInv, Final

\* What a worker does to main's variables: nothing but taking jobs and cancelling.
LEMMA WorkerLeavesMain ==
  ASSUME NEW w \in Workers, Worker(w)
  PROVE  /\ pc # "exited" /\ UNCHANGED <<pc, exit, crTypes, task, closed, undispatched>>
         /\ at[w] # "none" /\ at[w] # "gone"
         /\ \E a : at' = [at EXCEPT ![w] = a]
         /\ cancelled => cancelled'
<1> USE DEF Go
<1>1. CASE Take(w)
  BY <1>1 DEF Take
<1>2. CASE Leave(w) \/ NoSpaceLeft(w)
  BY <1>2 DEF Leave, NoSpaceLeft
<1>3. CASE ExportContainerLogs(w) \/ ContainerLogsFail(w) \/ LogsDone(w)
  BY <1>3 DEF ExportContainerLogs, ContainerLogsFail, LogsDone, AfterLogs
<1>4. CASE NextType(w)
  <2>1. PICK to : Go(w, "types", to)
    BY <1>4 DEF NextType
  <2> QED
    BY <1>4, <2>1 DEF NextType
<1>5. CASE Summary(w)
  <2>1. CASE GetSecret(w) \/ StorePort(w) \/ PortForwardPod(w) \/ AlreadyForwarded(w) \/ LocalPortInUse(w)
    BY <2>1 DEF GetSecret, StorePort, PortForwardPod, AlreadyForwarded, LocalPortInUse
  <2>2. CASE SummaryFails(w)
    BY <2>2 DEF SummaryFails
  <2>3. CASE GotSummary(w)
    BY <2>3 DEF GotSummary
  <2>4. CASE NoSummary(w)
    BY <2>4 DEF NoSummary
  <2> QED
    BY <1>5, <2>1, <2>2, <2>3, <2>4 DEF Summary
<1>7. CASE TypesDone(w)
  BY <1>7 DEF TypesDone
<1>6. CASE ProcessSingleFile(w) \/ FileFails(w) \/ FilesDone(w)
  BY <1>6 DEF ProcessSingleFile, FileFails, FilesDone
<1> QED
  BY <1>1, <1>2, <1>3, <1>4, <1>5, <1>6, <1>7 DEF Worker

\* Only Take touches the channel.
LEMMA OnlyTakeTakes ==
  ASSUME NEW w \in Workers, Worker(w), ~Take(w) PROVE UNCHANGED queue
<1>1. CASE Summary(w)
  BY <1>1 DEF Summary, GetSecret, StorePort, PortForwardPod, AlreadyForwarded, LocalPortInUse,
     SummaryFails, GotSummary, NoSummary
<1> QED
  BY <1>1 DEF Worker, Leave, NoSpaceLeft, ExportContainerLogs, ContainerLogsFail, LogsDone,
     NextType, TypesDone, ProcessSingleFile, FileFails, FilesDone

LEMMA ExportLeavesMain ==
  ASSUME NEW t \in Tasks, Export(t)
  PROVE  pc # "exited" /\ UNCHANGED <<pc, exit, crTypes, jobs, worker, ports>>
BY DEF Export, Acquire, AcquireFails, ExportGeneric, DumpSSLInfo

LEMMA WorkerMainInv == ASSUME MainInv, NEW w \in Workers, Worker(w) PROVE MainInv'
<1>1. /\ UNCHANGED <<pc, exit, closed, undispatched>> /\ at[w] # "none"
  BY WorkerLeavesMain
<1>2. queue' \in Seq(Pods)
  <2>1. CASE Take(w)
    BY <2>1 DEF Take, ReceiveJob, MainInv
  <2>2. CASE ~Take(w)
    BY <2>2, OnlyTakeTakes DEF MainInv
  <2> QED
    BY <2>1, <2>2
<1> QED
  BY <1>1, <1>2 DEF MainInv

LEMMA MainStep == MainInv /\ [Next]_vars => MainInv'
<1> SUFFICES ASSUME MainInv, [Next]_vars PROVE MainInv'
  OBVIOUS
<1> USE DEF Goto, Return, Final
<1>1. CASE \E w \in Workers : Worker(w)
  BY <1>1, WorkerMainInv
<1>2. CASE \E t \in Tasks : Export(t)
  BY <1>2, ExportLeavesMain DEF MainInv
<1>3. CASE Fails
  BY <1>3 DEF Fails, Refused, DiscoverFails, NamespacesFail, ListFails, MainInv
<1>4. CASE New \/ OpenArchive \/ DiscoverAndSpawn \/ ListNamespaces \/ ExportDone
  <2>1. CASE New
    BY <2>1 DEF New, MainInv
  <2>2. CASE OpenArchive \/ ExportDone
    BY <2>2 DEF OpenArchive, ExportDone, MainInv
  <2>3. CASE DiscoverAndSpawn
    BY <2>3 DEF DiscoverAndSpawn, MainInv
  <2>4. CASE ListNamespaces
    BY <2>4 DEF ListNamespaces, MainInv
  <2> QED
    BY <1>4, <2>1, <2>2, <2>3, <2>4
<1>5. CASE StartWorkers
  BY <1>5 DEF StartWorkers, MainInv
<1>6. CASE ListPods
  BY <1>6 DEF ListPods, MainInv
<1>7. CASE Dispatch
  BY <1>7 DEF Dispatch, MainInv
<1>8. CASE CloseJobs
  BY <1>8 DEF CloseJobs, MainInv
<1>9. CASE WaitWorkers
  BY <1>9 DEF WaitWorkers, MainInv
<1>10. CASE DumpToArchive \/ CloseArchive
  BY <1>10 DEF DumpToArchive, CloseArchive, MainInv
<1>11. CASE UNCHANGED vars
  BY <1>11 DEF vars, MainInv
<1> QED
  BY <1>1, <1>2, <1>3, <1>4, <1>5, <1>6, <1>7, <1>8, <1>9, <1>10, <1>11
     DEF Next, Runs, DumpCluster
-----------------------------------------------------------------------------
(* The export of the resources.                                             *)

TaskInv ==
  /\ DOMAIN task = Tasks
  /\ pc \in {"workers", "sync", "dispatch", "wait"} => \A t \in Tasks : task[t] = "done"
  /\ \A t \in Tasks : task[t] = "done" => TaskAccounted(t)

LEMMA TaskInit == Init => TaskInv
<1> SUFFICES ASSUME Init PROVE TaskInv
  OBVIOUS
<1>1. pc = "new" /\ task = [t \in Tasks |-> "none"]
  BY DEF Init
<1> QED
  BY <1>1 DEF TaskInv

LEMMA StaysAccounted ==
  ASSUME Grow, NEW t \in Tasks, TaskAccounted(t) PROVE TaskAccounted(t)'
BY DEF Grow, TaskAccounted, InArchive

\* A task that is done is accounted for.
LEMMA DoneIsAccounted ==
  ASSUME NEW t \in Tasks, AcquireFails(t) \/ ExportGeneric(t) \/ DumpSSLInfo(t)
  PROVE  TaskAccounted(t)'
<1>1. CASE DumpSSLInfo(t)
  BY <1>1 DEF DumpSSLInfo, TaskAccounted
<1>3. CASE AcquireFails(t)
  BY <1>3 DEF AcquireFails, LogError, TaskAccounted
<1>2. CASE ExportGeneric(t)
  <2>1. CASE LogError(<<"export", t.ns, t.name>>)
    BY <2>1 DEF LogError, TaskAccounted
  <2>2. CASE Objects[t.name] = {}
    BY <2>2 DEF TaskAccounted
  <2>3. CASE WriteFails
    BY <2>3, WriteFailsGrows DEF TaskAccounted
  <2>4. ASSUME NEW os, Written({Entry(PodResourcePath(t.ns, t.name), "objects", os)})
        PROVE  TaskAccounted(t)'
    <3> DEFINE e == Entry(PodResourcePath(t.ns, t.name), "objects", os)
    <3>1. e \in archive'
      BY <2>4, WrittenGrows
    <3>2. e.path = PodResourcePath(t.ns, t.name)
      BY DEF Entry
    <3> QED
      BY <3>1, <3>2 DEF TaskAccounted, InArchive
  <2>5. \/ LogError(<<"export", t.ns, t.name>>) \/ Objects[t.name] = {} \/ WriteFails
        \/ \E os : Written({Entry(PodResourcePath(t.ns, t.name), "objects", os)})
    BY <1>2 DEF ExportGeneric
  <2> QED
    BY <2>1, <2>2, <2>3, <2>4, <2>5
<1> QED
  BY <1>1, <1>2, <1>3

LEMMA ExportTaskInv == ASSUME TaskInv, NEW t \in Tasks, Export(t) PROVE TaskInv'
<1>1. Grow /\ UNCHANGED pc
  BY ExportGrows, ExportLeavesMain
<1>2. CASE Acquire(t)
  <2>1. task[t] = "spawned" /\ task' = [task EXCEPT ![t] = "running"]
    BY <1>2 DEF Acquire
  <2> QED
    BY <1>1, <2>1, StaysAccounted DEF TaskInv
<1>3. CASE AcquireFails(t) \/ ExportGeneric(t) \/ DumpSSLInfo(t)
  <2>1. task' = [task EXCEPT ![t] = "done"]
    BY <1>3 DEF AcquireFails, ExportGeneric, DumpSSLInfo
  <2> QED
    BY <1>1, <1>3, <2>1, StaysAccounted, DoneIsAccounted DEF TaskInv
<1> QED
  BY <1>2, <1>3 DEF Export

LEMMA TaskStep == TaskInv /\ [Next]_vars => TaskInv'
<1> SUFFICES ASSUME TaskInv, [Next]_vars PROVE TaskInv'
  OBVIOUS
<1> USE DEF Goto, Return
<1>1. Grow
  BY EveryStepGrows
<1>2. CASE \E t \in Tasks : Export(t)
  BY <1>2, ExportTaskInv
<1>3. CASE \E w \in Workers : Worker(w)
  BY <1>1, <1>3, WorkerLeavesMain, StaysAccounted DEF TaskInv
<1>4. CASE DiscoverAndSpawn \/ ListNamespaces
  <2>1. PICK T : Spawn(T)
    BY <1>4 DEF DiscoverAndSpawn, ListNamespaces
  <2>2. pc' \in {"namespaces", "export"}
    BY <1>4 DEF DiscoverAndSpawn, ListNamespaces
  <2> QED
    BY <1>1, <2>1, <2>2, StaysAccounted DEF Spawn, TaskInv
<1>5. CASE ExportDone
  BY <1>1, <1>5, StaysAccounted DEF ExportDone, TaskInv
<1>6. CASE UNCHANGED task /\ (pc' \in {"workers", "sync", "dispatch", "wait"}
                              => pc \in {"workers", "sync", "dispatch", "wait"})
  BY <1>1, <1>6, StaysAccounted DEF TaskInv
<1>7. CASE Fails
  BY <1>6, <1>7 DEF Fails, Refused, DiscoverFails, NamespacesFail, ListFails
<1>8. CASE New \/ OpenArchive \/ StartWorkers \/ ListPods \/ Dispatch
  BY <1>6, <1>8 DEF New, OpenArchive, StartWorkers, ListPods, Dispatch
<1>9. CASE CloseJobs \/ WaitWorkers \/ DumpToArchive \/ CloseArchive
  BY <1>6, <1>9 DEF CloseJobs, WaitWorkers, DumpToArchive, CloseArchive
<1>10. CASE UNCHANGED vars
  BY <1>6, <1>10 DEF vars
<1> QED
  BY <1>2, <1>3, <1>4, <1>5, <1>7, <1>8, <1>9, <1>10 DEF Next, Runs, DumpCluster
-----------------------------------------------------------------------------
(* The workers: what is left of a pod is accounted for when its worker is   *)
(* through with it.                                                         *)

Done(p) == LogsAccounted(p) /\ SummaryAccounted(p)

Progress(w) ==
  /\ at[w] \in WorkerSteps => job[w] \in Pods
  /\ at[w] = "logs" =>
       /\ left[w] \in Seq(Range(AllContainers(job[w])))
       /\ \/ <<"logs", job[w]>> \in errors
          \/ \A c \in Range(AllContainers(job[w])) :
               \/ c \in Range(left[w])
               \/ InArchive(PodLogPath(PodOf[job[w]].ns, job[w], c))
  /\ at[w] \in {"types", "secret", "forward", "dial", "run", "files"} => LogsAccounted(job[w])
  /\ at[w] = "types" => types[w] # {} \/ SummaryAccounted(job[w])
  /\ at[w] = "files" => SummaryAccounted(job[w])

WorkerInv ==
  /\ at \in [Workers -> WorkerSteps \cup {"none", "idle", "gone"}]
  /\ DOMAIN job = Workers /\ DOMAIN left = Workers /\ DOMAIN types = Workers
  /\ DOMAIN type = Workers
  /\ \A w \in Workers : Progress(w)

LEMMA WorkerInit == Init => WorkerInv
<1> SUFFICES ASSUME Init PROVE WorkerInv
  OBVIOUS
<1>1. /\ at = [w \in Workers |-> "none"] /\ job = [w \in Workers |-> ""]
      /\ left = [w \in Workers |-> <<>>] /\ types = [w \in Workers |-> {}]
      /\ type = [w \in Workers |-> ""]
  BY DEF Init
<1> QED
  BY <1>1 DEF WorkerInv, Progress, WorkerSteps

LEMMA StaysDone ==
  ASSUME Grow, UNCHANGED crTypes, NEW p
  PROVE  /\ LogsAccounted(p) => LogsAccounted(p)'
         /\ SummaryAccounted(p) => SummaryAccounted(p)'
         /\ \A x : InArchive(x) => InArchive(x)'
BY DEF Grow, LogsAccounted, SummaryAccounted, InArchive

LEMMA ProgressStays ==
  ASSUME Grow, UNCHANGED crTypes, NEW w \in Workers, Progress(w),
         UNCHANGED <<at[w], job[w], left[w], types[w]>>
  PROVE  Progress(w)'
BY StaysDone DEF Grow, Progress

LEMMA TailRange ==
  ASSUME NEW S, NEW s \in Seq(S), s # <<>>
  PROVE  /\ Tail(s) \in Seq(S) /\ Head(s) \in S
         /\ \A x \in Range(s) : x = Head(s) \/ x \in Range(Tail(s))
<1>1. Tail(s) \in Seq(S) /\ Head(s) \in S /\ Head(s) = s[1]
  OBVIOUS
<1>2. ASSUME NEW x \in Range(s), x # Head(s) PROVE x \in Range(Tail(s))
  <2>1. PICK i \in 1..Len(s) : x = s[i]
    BY DEF Range
  <2>2. i - 1 \in 1..Len(Tail(s)) /\ Tail(s)[i - 1] = s[i]
    BY <1>1, <1>2, <2>1
  <2>3. DOMAIN Tail(s) = 1..Len(Tail(s))
    BY <1>1
  <2> QED
    BY <2>1, <2>2, <2>3 DEF Range
<1> QED
  BY <1>1, <1>2

\* The other workers.
LEMMA OthersUnchanged ==
  ASSUME WorkerInv, NEW w \in Workers, NEW v \in Workers, v # w, Worker(w)
  PROVE  UNCHANGED <<at[v], job[v], left[v], types[v]>>
<1> USE DEF Go, WorkerInv
<1>1. CASE Take(w)
  BY <1>1 DEF Take
<1>2. CASE Leave(w) \/ NoSpaceLeft(w)
  BY <1>2 DEF Leave, NoSpaceLeft
<1>3. CASE ExportContainerLogs(w)
  BY <1>3 DEF ExportContainerLogs
<1>4. CASE ContainerLogsFail(w) \/ LogsDone(w)
  BY <1>4 DEF ContainerLogsFail, LogsDone, AfterLogs
<1>5. CASE NextType(w)
  <2>1. PICK t \in types[w] :
          /\ Go(w, "types", IF SkipPodSummary THEN "files"
                            ELSE IF RemotePort(ResourceType(t)) = 0 THEN "run" ELSE "secret")
          /\ types' = [types EXCEPT ![w] = @ \ {t}]
          /\ \E l : left' = [left EXCEPT ![w] = l]
    BY <1>5 DEF NextType
  <2> QED
    BY <1>5, <2>1 DEF NextType
<1>6. CASE TypesDone(w)
  BY <1>6 DEF TypesDone
<1>7. CASE Summary(w)
  <2>1. UNCHANGED <<job, left, types>> /\ \E to : at' = [at EXCEPT ![w] = to]
    BY <1>7, WorkerLeavesMain DEF Worker, Summary, GetSecret, StorePort, PortForwardPod,
       AlreadyForwarded, LocalPortInUse, SummaryFails, GotSummary, NoSummary
  <2> QED
    BY <2>1
<1>8. CASE ProcessSingleFile(w) \/ FileFails(w)
  BY <1>8 DEF ProcessSingleFile, FileFails
<1>9. CASE FilesDone(w)
  BY <1>9 DEF FilesDone
<1> QED
  BY <1>1, <1>2, <1>3, <1>4, <1>5, <1>6, <1>7, <1>8, <1>9 DEF Worker

LEMMA OthersProgress ==
  ASSUME WorkerInv, Grow, UNCHANGED crTypes, NEW w \in Workers, NEW v \in Workers, v # w,
         Worker(w)
  PROVE  Progress(v)'
BY OthersUnchanged, ProgressStays DEF WorkerInv

LEMMA TakeProgress ==
  ASSUME MainInv, WorkerInv, NEW w \in Workers, Take(w) PROVE Progress(w)'
<1>1. Head(queue) \in Pods
  BY DEF Take, MainInv
<1>2. /\ at'[w] = "logs" /\ job'[w] = Head(queue)
      /\ left'[w] = AllContainers(Head(queue))
  BY DEF Take, Go, WorkerInv
<1>3. left'[w] \in Seq(Range(AllContainers(job'[w])))
  BY <1>1, <1>2, ClusterAssumption
<1> QED
  BY <1>1, <1>2, <1>3 DEF Progress

LEMMA LogProgress ==
  ASSUME WorkerInv, NEW w \in Workers, ExportContainerLogs(w), Grow, UNCHANGED crTypes
  PROVE  Progress(w)'
<1>7. PICK p : p = job[w]
  OBVIOUS
<1>8. PICK c : c = Head(left[w])
  OBVIOUS
<1> DEFINE cs == AllContainers(p)
           e == Entry(PodLogPath(PodOf[p].ns, p, c), "log", {})
<1>1. /\ at[w] = "logs" /\ left[w] # <<>> /\ p \in Pods /\ left[w] \in Seq(Range(cs))
      /\ at'[w] = "logs" /\ job'[w] = p /\ left'[w] = Tail(left[w])
  BY <1>7 DEF ExportContainerLogs, Go, WorkerInv, Progress, WorkerSteps
<1>2. left'[w] \in Seq(Range(cs)) /\ \A x \in Range(left[w]) : x = c \/ x \in Range(left'[w])
  BY <1>1, <1>8, TailRange
<1>3. e \in archive' /\ e.path = PodLogPath(PodOf[p].ns, p, c)
  BY <1>7, <1>8, WrittenGrows DEF ExportContainerLogs, Entry
<1>4. InArchive(PodLogPath(PodOf[p].ns, p, c))'
  BY <1>3 DEF InArchive
<1>5. \/ <<"logs", p>> \in errors
      \/ \A x \in Range(cs) :
           x \in Range(left[w]) \/ InArchive(PodLogPath(PodOf[p].ns, p, x))
  BY <1>1, <1>7 DEF WorkerInv, Progress
<1>6. \/ <<"logs", p>> \in errors'
      \/ \A x \in Range(cs) :
           x \in Range(left'[w]) \/ InArchive(PodLogPath(PodOf[p].ns, p, x))'
  BY <1>2, <1>4, <1>5, StaysDone DEF Grow
<1> QED
  BY <1>1, <1>2, <1>6 DEF Progress

LEMMA AfterLogsProgress ==
  ASSUME WorkerInv, NEW w \in Workers, AfterLogs(w), UNCHANGED crTypes,
         NEW p, p = job[w], LogsAccounted(p)'
  PROVE  Progress(w)'
<1>1. /\ at[w] = "logs" /\ at'[w] = "types" /\ job'[w] = p /\ p \in Pods
      /\ types'[w] = IF PodOf[p].running
                     THEN {t \in crTypes : MatchesCR(ResourceType(t), PodOf[p].labels)}
                     ELSE {}
  BY DEF AfterLogs, Go, WorkerInv, Progress, WorkerSteps
<1>2. types'[w] = {} => SummaryAccounted(p)'
  BY <1>1 DEF SummaryAccounted
<1> QED
  BY <1>1, <1>2 DEF Progress, LogsAccounted, SummaryAccounted

LEMMA LogsEndProgress ==
  ASSUME WorkerInv, NEW w \in Workers, ContainerLogsFail(w) \/ LogsDone(w), Grow
  PROVE  Progress(w)'
<1>1. AfterLogs(w) /\ UNCHANGED crTypes
  BY DEF ContainerLogsFail, LogsDone
<1>4. PICK p : p = job[w]
  OBVIOUS
<1>2. CASE ContainerLogsFail(w)
  <2>1. <<"logs", p>> \in errors'
    BY <1>2, <1>4 DEF ContainerLogsFail, LogError
  <2>2. LogsAccounted(p)'
    BY <2>1 DEF LogsAccounted
  <2> QED
    BY <1>1, <1>4, <2>2, AfterLogsProgress
<1>3. CASE LogsDone(w)
  <2>1. at[w] = "logs" /\ left[w] = <<>>
    BY <1>3 DEF LogsDone, AfterLogs, Go
  <2>2. Range(left[w]) = {}
    BY <2>1 DEF Range
  <2>3. \/ <<"logs", p>> \in errors
        \/ \A c \in Range(AllContainers(p)) :
             c \in Range(left[w]) \/ InArchive(PodLogPath(PodOf[p].ns, p, c))
    BY <1>4, <2>1 DEF WorkerInv, Progress
  <2>4. LogsAccounted(p)
    BY <2>2, <2>3 DEF LogsAccounted
  <2> QED
    BY <1>1, <1>4, <2>4, StaysDone, AfterLogsProgress
<1> QED
  BY <1>2, <1>3

LEMMA NextTypeProgress ==
  ASSUME WorkerInv, NEW w \in Workers, NextType(w) PROVE Progress(w)'
<1>6. PICK p : p = job[w]
  OBVIOUS
<1>1. PICK t \in types[w] :
        Go(w, "types", IF SkipPodSummary THEN "files"
                       ELSE IF RemotePort(ResourceType(t)) = 0 THEN "run" ELSE "secret")
  BY DEF NextType
<1>2. /\ at[w] = "types" /\ UNCHANGED <<job, archive, errors, crTypes>> /\ job[w] \in Pods
      /\ LogsAccounted(p)
  BY <1>1, <1>6 DEF NextType, Go, WorkerInv, Progress, WorkerSteps
<1>3. LogsAccounted(p)' /\ job'[w] = p
  BY <1>2, <1>6 DEF LogsAccounted, InArchive
<1>4. CASE SkipPodSummary
  <2>1. at'[w] = "files" /\ SummaryAccounted(p)'
    BY <1>1, <1>4 DEF Go, WorkerInv, SummaryAccounted
  <2> QED
    BY <1>2, <1>3, <2>1 DEF Progress, LogsAccounted, SummaryAccounted
<1>5. CASE ~SkipPodSummary
  <2>1. at'[w] \in {"run", "secret"}
    BY <1>1, <1>5 DEF Go, WorkerInv
  <2> QED
    BY <1>2, <1>3, <2>1 DEF Progress, LogsAccounted
<1> QED
  BY <1>4, <1>5

LEMMA SummaryProgress ==
  ASSUME WorkerInv, NEW w \in Workers, Summary(w), Grow PROVE Progress(w)'
<1> USE DEF Go
<1>4. PICK p : p = job[w]
  OBVIOUS
<1>1. /\ at[w] \in {"secret", "forward", "dial", "run"} /\ UNCHANGED <<job, crTypes>>
      /\ at'[w] \in {"forward", "dial", "run", "files"}
  BY DEF Summary, GetSecret, StorePort, PortForwardPod, AlreadyForwarded, LocalPortInUse, SummaryFails,
     GotSummary, NoSummary, WorkerInv
<1>2. job'[w] = p /\ p \in Pods /\ LogsAccounted(p)'
  BY <1>1, <1>4, StaysDone DEF WorkerInv, Progress, WorkerSteps
<1>3. at'[w] = "files" => SummaryAccounted(p)'
  <2>1. CASE SummaryError(w)
    BY <1>4, <2>1, SummaryErrorGrows DEF SummaryAccounted
  <2>2. CASE LogError(<<"summary", job[w]>>)
    BY <1>4, <2>2 DEF LogError, SummaryAccounted
  <2>3. CASE Written({Entry(SummaryPath(w), Reached(w), {})})
    <3>2. PICK e : e = Entry(SummaryPath(w), Reached(w), {})
      OBVIOUS
    <3>1. e \in archive' /\ e.path = PodSummaryPath(PodOf[p].ns, p)
      BY <1>4, <2>3, <3>2, WrittenGrows DEF Entry, SummaryPath
    <3> QED
      BY <3>1 DEF SummaryAccounted, InArchive
  <2>4. at'[w] = "files" => \/ SummaryError(w) \/ LogError(<<"summary", job[w]>>)
                            \/ Written({Entry(SummaryPath(w), Reached(w), {})})
    BY DEF Summary, GetSecret, StorePort, PortForwardPod, AlreadyForwarded, LocalPortInUse, SummaryFails,
       GotSummary, NoSummary, WorkerInv
  <2> QED
    BY <2>1, <2>2, <2>3, <2>4
<1> QED
  BY <1>1, <1>2, <1>3 DEF Progress, LogsAccounted, SummaryAccounted

LEMMA FilesProgress ==
  ASSUME WorkerInv, NEW w \in Workers, ProcessSingleFile(w) \/ FileFails(w) \/ FilesDone(w),
         Grow
  PROVE  Progress(w)'
<1>3. PICK p : p = job[w]
  OBVIOUS
<1>1. /\ at[w] = "files" /\ at'[w] \in {"files", "types"} /\ UNCHANGED <<job, crTypes>>
  BY DEF ProcessSingleFile, FileFails, FilesDone, Go, WorkerInv
<1>2. job'[w] = p /\ p \in Pods /\ LogsAccounted(p)' /\ SummaryAccounted(p)'
  BY <1>1, <1>3, StaysDone DEF WorkerInv, Progress, WorkerSteps
<1> QED
  BY <1>1, <1>2 DEF Progress, LogsAccounted, SummaryAccounted

LEMMA IdleProgress ==
  ASSUME WorkerInv, NEW w \in Workers, Leave(w) \/ NoSpaceLeft(w) \/ TypesDone(w)
  PROVE  Progress(w)'
BY DEF Leave, NoSpaceLeft, TypesDone, Go, WorkerInv, Progress, WorkerSteps

LEMMA WorkerWorkerInv ==
  ASSUME MainInv, WorkerInv, NEW w \in Workers, Worker(w), Grow PROVE WorkerInv'
<1>1. UNCHANGED crTypes
  BY WorkerLeavesMain
<1>2. Progress(w)'
  BY <1>1, TakeProgress, LogProgress, LogsEndProgress, NextTypeProgress, SummaryProgress,
     FilesProgress, IdleProgress DEF Worker
<1>3. \A v \in Workers : Progress(v)'
  BY <1>1, <1>2, OthersProgress
<1>4. at' \in [Workers -> WorkerSteps \cup {"none", "idle", "gone"}]
  <2> USE DEF Go, WorkerInv, WorkerSteps
  <2>1. CASE Take(w) \/ Leave(w) \/ NoSpaceLeft(w) \/ TypesDone(w) \/ FilesDone(w)
    BY <2>1 DEF Take, Leave, NoSpaceLeft, TypesDone, FilesDone
  <2>2. CASE ExportContainerLogs(w) \/ ProcessSingleFile(w) \/ FileFails(w)
    BY <2>2 DEF ExportContainerLogs, ProcessSingleFile, FileFails
  <2>3. CASE ContainerLogsFail(w) \/ LogsDone(w)
    BY <2>3 DEF ContainerLogsFail, LogsDone, AfterLogs
  <2>4. CASE NextType(w)
    <3>1. \E t \in types[w] :
            Go(w, "types", IF SkipPodSummary THEN "files"
                           ELSE IF RemotePort(ResourceType(t)) = 0 THEN "run" ELSE "secret")
      BY <2>4 DEF NextType
    <3> QED
      BY <3>1
  <2>5. CASE Summary(w)
    BY <2>5 DEF Summary, GetSecret, StorePort, PortForwardPod, AlreadyForwarded, LocalPortInUse,
       SummaryFails, GotSummary, NoSummary
  <2> QED
    BY <2>1, <2>2, <2>3, <2>4, <2>5 DEF Worker
<1>5. DOMAIN job' = Workers /\ DOMAIN left' = Workers /\ DOMAIN types' = Workers
      /\ DOMAIN type' = Workers
  <2> USE DEF WorkerInv
  <2>1. CASE Take(w) \/ Leave(w) \/ NoSpaceLeft(w) \/ TypesDone(w) \/ FilesDone(w)
    BY <2>1 DEF Take, Leave, NoSpaceLeft, TypesDone, FilesDone
  <2>2. CASE ExportContainerLogs(w) \/ ProcessSingleFile(w) \/ FileFails(w)
    BY <2>2 DEF ExportContainerLogs, ProcessSingleFile, FileFails
  <2>3. CASE ContainerLogsFail(w) \/ LogsDone(w)
    BY <2>3 DEF ContainerLogsFail, LogsDone, AfterLogs
  <2>4. CASE NextType(w)
    BY <2>4 DEF NextType
  <2>5. CASE Summary(w)
    BY <2>5 DEF Summary, GetSecret, StorePort, PortForwardPod, AlreadyForwarded, LocalPortInUse,
       SummaryFails, GotSummary, NoSummary
  <2> QED
    BY <2>1, <2>2, <2>3, <2>4, <2>5 DEF Worker
<1> QED
  BY <1>3, <1>4, <1>5 DEF WorkerInv

LEMMA WorkerStepInv == MainInv /\ WorkerInv /\ [Next]_vars => WorkerInv'
<1> SUFFICES ASSUME MainInv, WorkerInv, [Next]_vars PROVE WorkerInv'
  OBVIOUS
<1> USE DEF Goto, Return
<1>1. Grow
  BY EveryStepGrows
<1>2. CASE \E w \in Workers : Worker(w)
  BY <1>1, <1>2, WorkerWorkerInv
<1>3. CASE UNCHANGED <<worker, crTypes>>
  <2>1. \A w \in Workers : Progress(w)'
    BY <1>1, <1>3, ProgressStays DEF WorkerInv
  <2> QED
    BY <1>3, <2>1 DEF WorkerInv
<1>4. CASE New \/ StartWorkers
  <2>1. \A w \in Workers : at[w] = "none"
    BY <1>4 DEF New, StartWorkers, MainInv
  <2>2. /\ at' \in [Workers -> {"none", "idle"}]
        /\ UNCHANGED <<job, left, types, type>>
    BY <1>4, <2>1 DEF New, StartWorkers, WorkerInv
  <2> QED
    BY <2>2 DEF WorkerInv, Progress, WorkerSteps
<1>5. CASE \E t \in Tasks : Export(t)
  BY <1>3, <1>5, ExportLeavesMain
<1>6. CASE Fails
  BY <1>3, <1>6 DEF Fails, Refused, DiscoverFails, NamespacesFail, ListFails
<1>7. CASE DumpCluster /\ ~(New \/ StartWorkers)
  BY <1>3, <1>7 DEF DumpCluster, OpenArchive, DiscoverAndSpawn, ListNamespaces, ExportDone,
     ListPods, Dispatch, CloseJobs, WaitWorkers, DumpToArchive, CloseArchive
<1>8. CASE UNCHANGED vars
  BY <1>3, <1>8 DEF vars
<1> QED
  BY <1>2, <1>4, <1>5, <1>6, <1>7, <1>8 DEF Next, Runs
-----------------------------------------------------------------------------
(* No pod is lost between main, the channel and the workers.                *)

\* A worker leaves when it is told to or when no job is left and none comes.
LeaveInv == \A w \in Workers : at[w] = "gone" => cancelled \/ (closed /\ queue = <<>>)

LEMMA LeaveStep == MainInv /\ WorkerInv /\ LeaveInv /\ [Next]_vars => LeaveInv'
<1> SUFFICES ASSUME MainInv, WorkerInv, LeaveInv, [Next]_vars PROVE LeaveInv'
  OBVIOUS
<1> USE DEF Goto, Return
<1>1. ASSUME NEW w \in Workers, Worker(w) PROVE LeaveInv'
  <2>1. CASE Leave(w) \/ NoSpaceLeft(w)
    BY <2>1 DEF Leave, NoSpaceLeft, Go, LeaveInv, WorkerInv
  <2>2. CASE Take(w)
    BY <2>2 DEF Take, Go, LeaveInv, WorkerInv
  <2>3. ASSUME ~Leave(w), ~NoSpaceLeft(w), ~Take(w) PROVE LeaveInv'
    <3>1. UNCHANGED <<queue, closed>> /\ (cancelled => cancelled')
      BY <1>1, <2>3, WorkerLeavesMain, OnlyTakeTakes
    <3>2. PICK a : at' = [at EXCEPT ![w] = a]
      BY <1>1, WorkerLeavesMain
    <3>3. at'[w] # "gone"
      <4> USE DEF Go, WorkerInv
      <4>1. CASE ExportContainerLogs(w) \/ TypesDone(w)
        BY <4>1 DEF ExportContainerLogs, TypesDone
      <4>2. CASE ContainerLogsFail(w) \/ LogsDone(w)
        BY <4>2 DEF ContainerLogsFail, LogsDone, AfterLogs
      <4>3. CASE NextType(w)
        <5>1. \E t \in types[w] :
                Go(w, "types", IF SkipPodSummary THEN "files"
                               ELSE IF RemotePort(ResourceType(t)) = 0 THEN "run" ELSE "secret")
          BY <4>3 DEF NextType
        <5> QED
          BY <5>1
      <4>4. CASE Summary(w)
        BY <4>4 DEF Summary, GetSecret, StorePort, PortForwardPod, AlreadyForwarded, LocalPortInUse,
           SummaryFails, GotSummary, NoSummary
      <4>5. CASE ProcessSingleFile(w) \/ FileFails(w) \/ FilesDone(w)
        BY <4>5 DEF ProcessSingleFile, FileFails, FilesDone
      <4> QED
        BY <1>1, <2>3, <4>1, <4>2, <4>3, <4>4, <4>5 DEF Worker
    <3> QED
      BY <3>1, <3>2, <3>3 DEF LeaveInv, WorkerInv
  <2> QED
    BY <2>1, <2>2, <2>3
<1>2. CASE UNCHANGED <<at, queue, closed>> /\ (cancelled => cancelled')
  BY <1>2 DEF LeaveInv
<1>3. CASE \E t \in Tasks : Export(t)
  BY <1>2, <1>3, ExportLeavesMain
<1>4. CASE Fails
  BY <1>2, <1>4 DEF Fails, Refused, DiscoverFails, NamespacesFail, ListFails
<1>5. CASE StartWorkers
  BY <1>5 DEF StartWorkers, LeaveInv
<1>6. CASE Dispatch
  BY <1>6 DEF Dispatch, MainInv, Final, LeaveInv
<1>7. CASE CloseJobs
  BY <1>7 DEF CloseJobs, MainInv, Final, LeaveInv
<1>8. CASE DumpCluster /\ ~(StartWorkers \/ Dispatch \/ CloseJobs)
  <2>1. CASE New \/ OpenArchive \/ DiscoverAndSpawn \/ ListNamespaces \/ ExportDone
    BY <1>2, <2>1 DEF New, OpenArchive, DiscoverAndSpawn, ListNamespaces, ExportDone
  <2>2. CASE ListPods \/ WaitWorkers \/ DumpToArchive \/ CloseArchive
    BY <1>2, <2>2 DEF ListPods, WaitWorkers, DumpToArchive, CloseArchive
  <2> QED
    BY <1>8, <2>1, <2>2 DEF DumpCluster
<1>9. CASE UNCHANGED vars
  BY <1>2, <1>9 DEF vars
<1> QED
  BY <1>1, <1>3, <1>4, <1>5, <1>6, <1>7, <1>8, <1>9 DEF Next, Runs

\* A pod is still to be handed out, in the channel, with a worker, or done with.
Somewhere(p) ==
  \/ cancelled \/ Done(p) \/ p \in undispatched \/ p \in Range(queue)
  \/ \E w \in Workers : at[w] \in WorkerSteps /\ job[w] = p

PodInv == pc \in {"dispatch", "wait"} => \A p \in Pods : Somewhere(p)

LEMMA StaysSomewhere ==
  ASSUME Grow, UNCHANGED crTypes, cancelled => cancelled', UNCHANGED <<at, job>>,
         undispatched \subseteq undispatched' \cup Range(queue'),
         Range(queue) \subseteq Range(queue'),
         NEW p \in Pods, Somewhere(p)
  PROVE  Somewhere(p)'
BY StaysDone DEF Somewhere, Done

LEMMA AppendRange ==
  ASSUME NEW S, NEW s \in Seq(S), NEW x \in S
  PROVE  Range(Append(s, x)) = Range(s) \cup {x}
<1>1. /\ Append(s, x) \in Seq(S) /\ Len(Append(s, x)) = Len(s) + 1
      /\ \A i \in 1..Len(s) : Append(s, x)[i] = s[i]
      /\ Append(s, x)[Len(s) + 1] = x
  OBVIOUS
<1>2. DOMAIN s = 1..Len(s) /\ DOMAIN Append(s, x) = 1..(Len(s) + 1) /\ Len(s) \in Nat
  BY <1>1
<1> QED
  BY <1>1, <1>2 DEF Range

\* A worker keeps its job until it is through with it.
LEMMA JobStays ==
  ASSUME WorkerInv, NEW w \in Workers, Worker(w), ~Take(w), ~Leave(w), ~NoSpaceLeft(w),
         ~TypesDone(w)
  PROVE  at'[w] \in WorkerSteps /\ job'[w] = job[w]
<1> USE DEF Go, WorkerInv, WorkerSteps
<1>1. CASE ExportContainerLogs(w) \/ ContainerLogsFail(w) \/ LogsDone(w)
  BY <1>1 DEF ExportContainerLogs, ContainerLogsFail, LogsDone, AfterLogs
<1>2. CASE NextType(w)
  <2>1. \E t \in types[w] :
          Go(w, "types", IF SkipPodSummary THEN "files"
                         ELSE IF RemotePort(ResourceType(t)) = 0 THEN "run" ELSE "secret")
    BY <1>2 DEF NextType
  <2> QED
    BY <1>2, <2>1 DEF NextType
<1>3. CASE Summary(w)
  BY <1>3 DEF Summary, GetSecret, StorePort, PortForwardPod, AlreadyForwarded, LocalPortInUse,
     SummaryFails, GotSummary, NoSummary
<1>4. CASE ProcessSingleFile(w) \/ FileFails(w) \/ FilesDone(w)
  BY <1>4 DEF ProcessSingleFile, FileFails, FilesDone
<1> QED
  BY <1>1, <1>2, <1>3, <1>4 DEF Worker

LEMMA WorkerSomewhere ==
  ASSUME MainInv, WorkerInv, Grow, NEW w \in Workers, Worker(w), NEW p \in Pods, Somewhere(p)
  PROVE  Somewhere(p)'
<1>1. UNCHANGED <<crTypes, undispatched>> /\ (cancelled => cancelled')
  BY WorkerLeavesMain
<1>2. CASE cancelled \/ Done(p) \/ p \in undispatched
  BY <1>1, <1>2, StaysDone DEF Somewhere, Done
<1>3. CASE p \in Range(queue)
  <2>1. CASE Take(w)
    <3>1. queue # <<>> /\ queue \in Seq(Pods) /\ queue' = Tail(queue)
      BY <2>1 DEF Take, ReceiveJob, MainInv
    <3>2. p = Head(queue) \/ p \in Range(queue')
      BY <1>3, <3>1, TailRange
    <3>3. at'[w] \in WorkerSteps /\ job'[w] = Head(queue)
      BY <2>1 DEF Take, Go, WorkerInv, WorkerSteps
    <3> QED
      BY <3>2, <3>3 DEF Somewhere
  <2>2. CASE ~Take(w)
    BY <1>3, <2>2, OnlyTakeTakes DEF Somewhere
  <2> QED
    BY <2>1, <2>2
<1>4. ASSUME NEW v \in Workers, at[v] \in WorkerSteps, job[v] = p PROVE Somewhere(p)'
  <2>1. CASE v # w
    BY <1>4, <2>1, OthersUnchanged DEF Somewhere
  <2>2. CASE v = w
    <3>1. CASE Take(w) \/ Leave(w)
      BY <1>4, <2>2, <3>1 DEF Take, Leave, Go, WorkerSteps
    <3>2. CASE NoSpaceLeft(w)
      BY <3>2 DEF NoSpaceLeft, Somewhere
    <3>3. CASE TypesDone(w)
      <4>1. Done(p)
        BY <1>4, <2>2, <3>3 DEF TypesDone, Go, WorkerInv, Progress, Done
      <4> QED
        BY <1>1, <4>1, StaysDone DEF Somewhere, Done
    <3>4. CASE ~(Take(w) \/ Leave(w) \/ NoSpaceLeft(w) \/ TypesDone(w))
      BY <1>4, <2>2, <3>4, JobStays DEF Somewhere
    <3> QED
      BY <3>1, <3>2, <3>3, <3>4
  <2> QED
    BY <2>1, <2>2
<1> QED
  BY <1>2, <1>3, <1>4 DEF Somewhere

LEMMA PodStep == MainInv /\ WorkerInv /\ PodInv /\ [Next]_vars => PodInv'
<1> SUFFICES ASSUME MainInv, WorkerInv, PodInv, [Next]_vars PROVE PodInv'
  OBVIOUS
<1> USE DEF Goto, Return
<1>1. Grow
  BY EveryStepGrows
<1>2. CASE \E w \in Workers : Worker(w)
  BY <1>1, <1>2, WorkerSomewhere, WorkerLeavesMain DEF PodInv
<1>3. CASE \E t \in Tasks : Export(t)
  BY <1>1, <1>3, ExportLeavesMain, StaysSomewhere DEF PodInv
<1>4. CASE ListPods
  BY <1>4 DEF ListPods, PodInv, Somewhere
<1>5. CASE Dispatch
  <2>1. PICK p \in undispatched : undispatched' = undispatched \ {p} /\ queue' = Append(queue, p)
    BY <1>5 DEF Dispatch
  <2>2. Range(queue') = Range(queue) \cup {p}
    BY <2>1, AppendRange DEF MainInv
  <2>3. pc = "dispatch" /\ UNCHANGED <<crTypes, cancelled, at, job>>
    BY <1>5 DEF Dispatch
  <2> QED
    BY <1>1, <2>1, <2>2, <2>3, StaysSomewhere DEF PodInv
<1>6. CASE CloseJobs
  BY <1>1, <1>6, StaysSomewhere DEF CloseJobs, PodInv
<1>7. CASE UNCHANGED vars
  BY <1>1, <1>7, StaysSomewhere DEF PodInv, vars
<1>8. CASE Fails
  BY <1>8 DEF Fails, Refused, DiscoverFails, NamespacesFail, ListFails, PodInv
<1>9. CASE New \/ OpenArchive \/ DiscoverAndSpawn \/ ListNamespaces \/ ExportDone
  BY <1>9 DEF New, OpenArchive, DiscoverAndSpawn, ListNamespaces, ExportDone, PodInv
<1>10. CASE StartWorkers \/ WaitWorkers \/ DumpToArchive \/ CloseArchive
  BY <1>10 DEF StartWorkers, WaitWorkers, DumpToArchive, CloseArchive, PodInv
<1> QED
  BY <1>2, <1>3, <1>4, <1>5, <1>6, <1>7, <1>8, <1>9, <1>10 DEF Next, Runs, DumpCluster
-----------------------------------------------------------------------------
(* The end of a successful collection.                                      *)

IInv == MainInv /\ TaskInv /\ WorkerInv /\ LeaveInv /\ PodInv /\ Collected

LEMMA IInvInit == Init => IInv
<1> SUFFICES ASSUME Init PROVE IInv
  OBVIOUS
<1>1. pc = "new" /\ exit = -1
  BY DEF Init
<1>2. \A w \in Workers : at[w] = "none"
  BY DEF Init
<1> QED
  BY <1>1, <1>2, MainInit, TaskInit, WorkerInit
     DEF IInv, LeaveInv, PodInv, Collected, NothingLost, ClosedQuietly

\* With the workers gone and main at the end, every pod is done with.
LEMMA WaitedForAll ==
  ASSUME IInv, WaitWorkers PROVE Collected'
<1>1. /\ pc = "wait" /\ pc' = "errors" /\ exit' = 0 /\ \A w \in Workers : at[w] = "gone"
      /\ UNCHANGED <<crTypes, task, jobs, worker, ports, output>>
  BY DEF WaitWorkers, Return
<1>2. \A t \in Tasks : task[t] = "done" /\ TaskAccounted(t)
  BY <1>1 DEF IInv, TaskInv
<1>3. cancelled \/ queue = <<>>
  BY <1>1, ClusterAssumption DEF IInv, LeaveInv
<1>4. ASSUME NEW p \in Pods, ~cancelled PROVE Done(p)
  <2>1. Somewhere(p) /\ undispatched = {}
    BY <1>1 DEF IInv, PodInv, MainInv
  <2>2. Range(queue) = {}
    BY <1>3, <1>4 DEF Range
  <2> QED
    BY <1>1, <1>4, <2>1, <2>2 DEF Somewhere, WorkerSteps
<1>5. \A t \in Tasks : task'[t] = "done" /\ TaskAccounted(t)'
  BY <1>1, <1>2 DEF TaskAccounted, InArchive
<1>6. cancelled' \/ \A p \in Pods : LogsAccounted(p)' /\ SummaryAccounted(p)'
  BY <1>1, <1>4 DEF Done, LogsAccounted, SummaryAccounted, InArchive
<1> QED
  BY <1>1, <1>5, <1>6 DEF Collected, NothingLost, ClosedQuietly

LEMMA CollectedStep == IInv /\ [Next]_vars => Collected'
<1> SUFFICES ASSUME IInv, [Next]_vars PROVE Collected'
  OBVIOUS
<1> USE DEF Goto, Return
<1>1. CASE WaitWorkers
  BY <1>1, WaitedForAll
<1>2. CASE exit' # 0
  BY <1>2 DEF Collected, NothingLost, ClosedQuietly
<1>3. CASE exit = 0 /\ (\E w \in Workers : Worker(w))
  BY <1>3, WorkerLeavesMain DEF IInv, Collected, ClosedQuietly
<1>4. CASE exit = 0 /\ (\E t \in Tasks : Export(t))
  BY <1>4 DEF IInv, Collected, ClosedQuietly, Export, Acquire, AcquireFails, ExportGeneric,
     DumpSSLInfo
<1>5. CASE DumpToArchive \/ CloseArchive
  BY <1>5 DEF DumpToArchive, CloseArchive, IInv, Collected, NothingLost, ClosedQuietly
<1>6. CASE UNCHANGED vars
  BY <1>6 DEF vars, IInv, Collected, NothingLost, ClosedQuietly, TaskAccounted, LogsAccounted,
     SummaryAccounted, InArchive
<1>7. ASSUME exit' = 0, DumpCluster \/ Fails, ~WaitWorkers, ~DumpToArchive, ~CloseArchive
      PROVE  FALSE
  <2>1. CASE Fails
    BY <1>7, <2>1 DEF Fails, Refused, DiscoverFails, NamespacesFail, ListFails
  <2>2. exit # 0 \/ pc \in Final
    BY DEF IInv, MainInv
  <2>3. CASE New
    BY <1>7, <2>2, <2>3 DEF New, Final
  <2>4. CASE OpenArchive \/ DiscoverAndSpawn \/ ListNamespaces \/ ExportDone
    BY <1>7, <2>2, <2>4 DEF OpenArchive, DiscoverAndSpawn, ListNamespaces, ExportDone, Final
  <2>5. CASE StartWorkers \/ ListPods \/ Dispatch \/ CloseJobs
    BY <1>7, <2>2, <2>5 DEF StartWorkers, ListPods, Dispatch, CloseJobs, Final
  <2> QED
    BY <1>7, <2>1, <2>3, <2>4, <2>5 DEF DumpCluster
<1>8. (\E w \in Workers : Worker(w)) \/ (\E t \in Tasks : Export(t)) => exit' = exit
  BY WorkerLeavesMain, ExportLeavesMain
<1> QED
  BY <1>1, <1>2, <1>3, <1>4, <1>5, <1>6, <1>7, <1>8 DEF Next, Runs

\* When the collector says that the export is complete, every resource, every
\* pod's logs and every database's summary is in the archive or its error is in
\* the log, unless a worker found the disk full; and nobody writes any more.
THEOREM CollectedTheorem == Spec => []Collected
<1>1. IInv /\ [Next]_vars => IInv'
  BY MainStep, TaskStep, WorkerStepInv, LeaveStep, PodStep, CollectedStep DEF IInv
<1>2. IInv => Collected
  BY DEF IInv
<1> QED
  BY IInvInit, <1>1, <1>2, PTL DEF Spec
-----------------------------------------------------------------------------
(* Type correctness, and no forwarder outlives its summary.                 *)

ForwardInv == \A p \in DOMAIN forwards :
  forwards[p] # "" => forwards[p] \in Workers /\ at[forwards[p]] = "run"

LEMMA WorkerForwards ==
  ASSUME WorkerInv, ForwardInv, NEW w \in Workers, Worker(w) PROVE ForwardInv'
<1>1. \A v \in Workers : v # w => at'[v] = at[v]
  BY OthersUnchanged
<1> USE DEF Go, WorkerInv
<1>2. CASE PortForwardPod(w)
  <2>1. at'[w] = "run" /\ \E p : forwards' = [forwards EXCEPT ![p] = w]
    BY <1>2 DEF PortForwardPod
  <2> QED
    BY <1>1, <2>1 DEF ForwardInv
<1>3. CASE ForwardEnds(w)
  BY <1>1, <1>3 DEF ForwardEnds, ForwardInv
<1>4. CASE UNCHANGED forwards /\ at[w] # "run"
  BY <1>1, <1>4 DEF ForwardInv
<1>5. CASE Summary(w)
  <2>1. CASE GetSecret(w) \/ StorePort(w) \/ AlreadyForwarded(w) \/ LocalPortInUse(w) \/ SummaryFails(w)
    BY <1>4, <2>1 DEF GetSecret, StorePort, AlreadyForwarded, LocalPortInUse, SummaryFails
  <2>2. CASE GotSummary(w) \/ NoSummary(w)
    BY <1>3, <2>2 DEF GotSummary, NoSummary
  <2> QED
    BY <1>2, <1>5, <2>1, <2>2 DEF Summary
<1>6. CASE Take(w) \/ Leave(w) \/ NoSpaceLeft(w) \/ TypesDone(w) \/ FilesDone(w)
  BY <1>4, <1>6 DEF Take, Leave, NoSpaceLeft, TypesDone, FilesDone
<1>7. CASE ExportContainerLogs(w) \/ ProcessSingleFile(w) \/ FileFails(w)
  BY <1>4, <1>7 DEF ExportContainerLogs, ProcessSingleFile, FileFails
<1>8. CASE ContainerLogsFail(w) \/ LogsDone(w)
  BY <1>4, <1>8 DEF ContainerLogsFail, LogsDone, AfterLogs
<1>9. CASE NextType(w)
  <2>1. \E t \in types[w] :
          Go(w, "types", IF SkipPodSummary THEN "files"
                         ELSE IF RemotePort(ResourceType(t)) = 0 THEN "run" ELSE "secret")
    BY <1>9 DEF NextType
  <2> QED
    BY <1>4, <1>9, <2>1 DEF NextType
<1> QED
  BY <1>5, <1>6, <1>7, <1>8, <1>9 DEF Worker

LEMMA ForwardStep == MainInv /\ WorkerInv /\ ForwardInv /\ [Next]_vars => ForwardInv'
<1> SUFFICES ASSUME MainInv, WorkerInv, ForwardInv, [Next]_vars PROVE ForwardInv'
  OBVIOUS
<1> USE DEF Goto, Return
<1>1. CASE \E w \in Workers : Worker(w)
  BY <1>1, WorkerForwards
<1>2. CASE UNCHANGED <<at, forwards>>
  BY <1>2 DEF ForwardInv
<1>3. CASE StartWorkers
  <2>1. \A w \in Workers : at[w] = "none"
    BY <1>3 DEF StartWorkers, MainInv
  <2>2. UNCHANGED forwards
    BY <1>3 DEF StartWorkers
  <2> QED
    BY <2>1, <2>2 DEF ForwardInv
<1>4. CASE \E t \in Tasks : Export(t)
  BY <1>2, <1>4, ExportLeavesMain
<1>5. CASE Fails
  BY <1>2, <1>5 DEF Fails, Refused, DiscoverFails, NamespacesFail, ListFails
<1>6. CASE DumpCluster /\ ~StartWorkers
  <2>1. CASE New \/ OpenArchive \/ DiscoverAndSpawn \/ ListNamespaces \/ ExportDone
    BY <1>2, <2>1 DEF New, OpenArchive, DiscoverAndSpawn, ListNamespaces, ExportDone
  <2>2. CASE ListPods \/ Dispatch \/ CloseJobs \/ WaitWorkers \/ DumpToArchive \/ CloseArchive
    BY <1>2, <2>2 DEF ListPods, Dispatch, CloseJobs, WaitWorkers, DumpToArchive, CloseArchive
  <2> QED
    BY <1>6, <2>1, <2>2 DEF DumpCluster
<1>7. CASE UNCHANGED vars
  BY <1>2, <1>7 DEF vars
<1> QED
  BY <1>1, <1>3, <1>4, <1>5, <1>6, <1>7 DEF Next, Runs

\* The types the proofs above do without.
Rest ==
  /\ task \in [Tasks -> {"none", "spawned", "running", "done"}]
  /\ cancelled \in BOOLEAN /\ closed \in BOOLEAN /\ Len(queue) <= JobsCap
  /\ tar \in {"ok", "full", "short"} /\ failures \in 0..MaxFailures

LEMMA OneFailure ==
  ASSUME failures \in 0..MaxFailures, MayFail \/ CallFails \/ UNCHANGED failures
  PROVE  failures' \in 0..MaxFailures
BY BoundsAssumption DEF MayFail, CallFails

LEMMA WriteTypes ==
  ASSUME tar \in {"ok", "full", "short"}
  PROVE  /\ \A E : Written(E) => UNCHANGED tar
         /\ WriteFails \/ NoWrite => tar' \in {"ok", "full", "short"}
BY DEF Written, WriteFails, NoWrite

LEMMA WorkerRest ==
  ASSUME MainInv, Rest, NEW w \in Workers, Worker(w) PROVE Rest'
<1>1. UNCHANGED <<task, closed>>
  BY WorkerLeavesMain
<1>2. tar' \in {"ok", "full", "short"} /\ cancelled' \in BOOLEAN
  <2> USE WriteTypes DEF Rest
  <2>1. CASE Take(w) \/ Leave(w) \/ TypesDone(w) \/ FilesDone(w) \/ LogsDone(w)
    BY <2>1 DEF Take, Leave, TypesDone, FilesDone, LogsDone
  <2>2. CASE ExportContainerLogs(w) \/ ProcessSingleFile(w)
    BY <2>2 DEF ExportContainerLogs, ProcessSingleFile
  <2>3. CASE FileFails(w)
    BY <2>3 DEF FileFails
  <2>4. CASE ContainerLogsFail(w)
    BY <2>4 DEF ContainerLogsFail
  <2>5. CASE NoSpaceLeft(w)
    BY <2>5 DEF NoSpaceLeft
  <2>6. CASE NextType(w)
    BY <2>6 DEF NextType
  <2>7. CASE Summary(w)
    BY <2>7 DEF Summary, GetSecret, StorePort, PortForwardPod, AlreadyForwarded, LocalPortInUse,
       SummaryFails, SummaryError, GotSummary, NoSummary
  <2> QED
    BY <2>1, <2>2, <2>3, <2>4, <2>5, <2>6, <2>7 DEF Worker
<1>3. Len(queue') <= JobsCap
  <2>1. CASE Take(w)
    BY <2>1, BoundsAssumption DEF Take, ReceiveJob, MainInv, Rest
  <2>2. CASE ~Take(w)
    BY <2>2, OnlyTakeTakes DEF Rest
  <2> QED
    BY <2>1, <2>2
<1>4. failures' \in 0..MaxFailures
  <2>1. MayFail \/ CallFails \/ UNCHANGED failures
    <3>1. CASE Take(w) \/ Leave(w) \/ TypesDone(w) \/ FilesDone(w) \/ LogsDone(w)
      BY <3>1 DEF Take, Leave, TypesDone, FilesDone, LogsDone
    <3>2. CASE ExportContainerLogs(w) \/ ProcessSingleFile(w) \/ NextType(w)
      BY <3>2 DEF ExportContainerLogs, ProcessSingleFile, NextType
    <3>3. CASE FileFails(w)
      BY <3>3 DEF FileFails
    <3>4. CASE ContainerLogsFail(w) \/ NoSpaceLeft(w)
      BY <3>4 DEF ContainerLogsFail, NoSpaceLeft
    <3>5. CASE Summary(w)
      BY <3>5 DEF Summary, GetSecret, StorePort, PortForwardPod, AlreadyForwarded, LocalPortInUse,
         SummaryFails, GotSummary, NoSummary
    <3> QED
      BY <3>1, <3>2, <3>3, <3>4, <3>5 DEF Worker
  <2> QED
    BY <2>1, OneFailure DEF Rest
<1> QED
  BY <1>1, <1>2, <1>3, <1>4 DEF Rest

LEMMA ExportRest ==
  ASSUME Rest, NEW t \in Tasks, Export(t) PROVE Rest'
<1>1. UNCHANGED jobs
  BY ExportLeavesMain
<1>2. \E s \in {"running", "done"} : task' = [task EXCEPT ![t] = s]
  BY DEF Export, Acquire, AcquireFails, ExportGeneric, DumpSSLInfo
<1>3. tar' \in {"ok", "full", "short"}
  <2> USE WriteTypes DEF Rest
  <2>1. CASE ExportGeneric(t)
    BY <2>1 DEF ExportGeneric
  <2>2. CASE Acquire(t) \/ AcquireFails(t) \/ DumpSSLInfo(t)
    BY <2>2 DEF Acquire, AcquireFails, DumpSSLInfo
  <2> QED
    BY <2>1, <2>2 DEF Export
<1>4. failures' \in 0..MaxFailures
  <2>1. MayFail \/ CallFails \/ UNCHANGED failures
    BY DEF Export, Acquire, AcquireFails, ExportGeneric, DumpSSLInfo
  <2> QED
    BY <2>1, OneFailure DEF Rest
<1> QED
  BY <1>1, <1>2, <1>3, <1>4 DEF Rest

LEMMA RestStep == MainInv /\ Rest /\ [Next]_vars => Rest'
<1> SUFFICES ASSUME MainInv, Rest, [Next]_vars PROVE Rest'
  OBVIOUS
<1> USE DEF Goto, Return
<1>1. CASE \E w \in Workers : Worker(w)
  BY <1>1, WorkerRest
<1>2. CASE \E t \in Tasks : Export(t)
  BY <1>2, ExportRest
<1>3. CASE Fails
  <2>1. failures' \in 0..MaxFailures
    BY <1>3, OneFailure DEF Rest, Fails, Refused, DiscoverFails, NamespacesFail, ListFails
  <2> QED
    BY <1>3, <2>1 DEF Rest, Fails, Refused, DiscoverFails, NamespacesFail, ListFails
<1>4. CASE New
  <2>1. failures' \in 0..MaxFailures
    BY <1>4, OneFailure DEF Rest, New
  <2> QED
    BY <1>4, <2>1 DEF Rest, New
<1>5. CASE DiscoverAndSpawn \/ ListNamespaces
  <2>1. PICK T : Spawn(T)
    BY <1>5 DEF DiscoverAndSpawn, ListNamespaces
  <2>2. task' \in [Tasks -> {"none", "spawned", "running", "done"}]
    BY <2>1 DEF Spawn, Rest
  <2> QED
    BY <1>5, <2>2 DEF Rest, DiscoverAndSpawn, ListNamespaces
<1>6. CASE OpenArchive \/ ExportDone \/ StartWorkers \/ ListPods \/ WaitWorkers \/ CloseArchive
  BY <1>6 DEF Rest, OpenArchive, ExportDone, StartWorkers, ListPods, WaitWorkers, CloseArchive
<1>7. CASE Dispatch
  <2>1. PICK p \in Pods : queue' = Append(queue, p) /\ Len(queue) < JobsCap
    BY <1>7 DEF Dispatch, MainInv
  <2>2. Len(queue') <= JobsCap
    BY <2>1, BoundsAssumption DEF MainInv
  <2> QED
    BY <1>7, <2>2 DEF Rest, Dispatch
<1>8. CASE CloseJobs
  BY <1>8 DEF Rest, CloseJobs
<1>9. CASE DumpToArchive
  BY <1>9, WriteTypes DEF Rest, DumpToArchive
<1>10. CASE UNCHANGED vars
  BY <1>10 DEF Rest, vars
<1> QED
  BY <1>1, <1>2, <1>3, <1>4, <1>5, <1>6, <1>7, <1>8, <1>9, <1>10 DEF Next, Runs, DumpCluster

LEMMA RestInit == Init => ForwardInv /\ Rest
<1> SUFFICES ASSUME Init PROVE ForwardInv /\ Rest
  OBVIOUS
<1>1. /\ task = [t \in Tasks |-> "none"] /\ cancelled = FALSE /\ closed = FALSE
      /\ queue = <<>> /\ tar = "ok" /\ failures = 0
  BY DEF Init
<1>2. forwards = [p \in LocalPorts |-> ""]
  BY DEF Init
<1>3. ForwardInv
  BY <1>2 DEF ForwardInv
<1>4. queue \in Seq(Pods) /\ Len(queue) = 0
  BY <1>1
<1>5. Len(queue) <= JobsCap /\ failures \in 0..MaxFailures
  BY <1>1, <1>4, BoundsAssumption
<1>6. task \in [Tasks -> {"none", "spawned", "running", "done"}]
  BY <1>1
<1> QED
  BY <1>1, <1>3, <1>4, <1>5, <1>6 DEF Rest

\* The collector's state is well typed, and a port is listened at only while the
\* worker that forwarded it takes the summary.
THEOREM TypeCorrect == Spec => []TypeOK
<1>1. MainInv /\ WorkerInv /\ ForwardInv /\ Rest /\ [Next]_vars
        => (MainInv /\ WorkerInv /\ ForwardInv /\ Rest)'
  BY MainStep, WorkerStepInv, ForwardStep, RestStep
<1>2. Init => MainInv /\ WorkerInv /\ ForwardInv /\ Rest
  BY MainInit, WorkerInit, RestInit
<1>3. MainInv /\ WorkerInv /\ ForwardInv /\ Rest => TypeOK
  <2> SUFFICES ASSUME MainInv, WorkerInv, ForwardInv, Rest PROVE TypeOK
    OBVIOUS
  <2>1. ForwardsEnd
    BY DEF ForwardInv, ForwardsEnd
  <2>2. \A w \in Workers : at[w] \in WorkerSteps => job[w] \in Pods
    BY DEF WorkerInv, Progress
  <2> QED
    BY <2>1, <2>2 DEF TypeOK, MainInv, Final, WorkerInv, Rest
<1> QED
  BY <1>1, <1>2, <1>3, PTL DEF Spec
-----------------------------------------------------------------------------
(* What is in the archive: no path is written twice, and no object mounts  *)
(* what was taken out of it.  Each pod is with main, in the channel or     *)
(* with one worker, and what somebody is still to write is not in the      *)
(* archive yet.                                                            *)

(* What an action adds to the paths of the archive.                         *)

\* The paths added; what of them is there already is written twice.
Adds(X) ==
  /\ \A y : InArchive(y)' <=> InArchive(y) \/ y \in X
  /\ \A y \in again' : y \in again \/ (y \in X /\ InArchive(y))

LEMMA PutAdds ==
  ASSUME NEW E, Put(E) PROVE Adds({e.path : e \in E})
<1>1. \A y : InArchive(y)' <=> InArchive(y) \/ y \in {e.path : e \in E}
  BY DEF Put, InArchive
<1>2. ASSUME NEW y \in again', y \notin again
      PROVE  y \in {e.path : e \in E} /\ InArchive(y)
  BY <1>2 DEF Put, InArchive
<1> QED
  BY <1>1, <1>2 DEF Adds

LEMMA WrittenAdds ==
  ASSUME NEW x, NEW what, NEW os, Written({Entry(x, what, os)}) PROVE Adds({x})
<1> DEFINE e == Entry(x, what, os)
<1>1. Adds({f.path : f \in {e}})
  BY PutAdds DEF Written
<1>2. e.path = x
  BY DEF Entry
<1> HIDE DEF e
<1>3. {f.path : f \in {e}} = {x}
  BY <1>2
<1> QED
  BY <1>1, <1>3

LEMMA NothingAdded ==
  ASSUME UNCHANGED <<archive, again>> PROVE Adds({})
BY DEF Adds, InArchive

LEMMA FailsAddNothing ==
  ASSUME WriteFails \/ NoWrite PROVE Adds({})
BY NothingAdded DEF WriteFails, NoWrite

(* The paths differ.                                                        *)

LEMMA LogPathsApart ==
  ASSUME NEW a, NEW b, NEW c, NEW d, NEW e, NEW f
  PROVE  /\ PodLogPath(a, b, c) = PodLogPath(d, e, f) => b = e /\ c = f
         /\ PodLogPath(a, b, c) # PodSummaryPath(d, e)
         /\ PodLogPath(a, b, c) # PodIndividualFilesPath(d, e, f)
BY DEF PodLogPath, PodSummaryPath, PodIndividualFilesPath

LEMMA SummaryPathsApart ==
  ASSUME NEW a, NEW b, NEW c, NEW d, NEW e
  PROVE  /\ PodSummaryPath(a, b) = PodSummaryPath(c, d) => b = d
         /\ PodSummaryPath(a, b) # PodLogPath(c, d, e)
         /\ PodSummaryPath(a, b) # PodIndividualFilesPath(c, d, e)
BY DEF PodLogPath, PodSummaryPath, PodIndividualFilesPath

LEMMA FilePathsApart ==
  ASSUME NEW a, NEW b, NEW c, NEW d, NEW e, NEW f
  PROVE  /\ PodIndividualFilesPath(a, b, c) = PodIndividualFilesPath(d, e, f) => b = e /\ c = f
         /\ PodIndividualFilesPath(a, b, c) # PodLogPath(d, e, f)
         /\ PodIndividualFilesPath(a, b, c) # PodSummaryPath(d, e)
BY DEF PodLogPath, PodSummaryPath, PodIndividualFilesPath

\* What belongs to no pod lies beside what does.
LEMMA ErrorsPathApart ==
  ASSUME NEW a, NEW b, NEW c
  PROVE  /\ DumperLogPath # NamespaceIndividualFilesPath(a, b)
         /\ DumperLogPath # PodResourcePath(a, b)
         /\ DumperLogPath # PodLogPath(a, b, c)
         /\ DumperLogPath # PodSummaryPath(a, b)
         /\ DumperLogPath # PodIndividualFilesPath(a, b, c)
BY DEF DumperLogPath, NamespaceIndividualFilesPath, PodResourcePath, PodLogPath, PodSummaryPath,
       PodIndividualFilesPath

LEMMA CertificatePathsApart ==
  ASSUME NEW a, NEW b, NEW c, NEW d, NEW e
  PROVE  /\ NamespaceIndividualFilesPath(a, b) = NamespaceIndividualFilesPath(c, d)
              => a = c /\ b = d
         /\ NamespaceIndividualFilesPath(a, b) # PodLogPath(c, d, e)
         /\ NamespaceIndividualFilesPath(a, b) # PodSummaryPath(c, d)
         /\ NamespaceIndividualFilesPath(a, b) # PodIndividualFilesPath(c, d, e)
BY DEF NamespaceIndividualFilesPath, PodResourcePath, PodLogPath, PodSummaryPath,
       PodIndividualFilesPath

LEMMA ResourcePathApart ==
  ASSUME NEW a, NEW b, NEW c, NEW d, NEW e
  PROVE  /\ PodResourcePath(a, b) # PodLogPath(c, d, e)
         /\ PodResourcePath(a, b) # PodSummaryPath(c, d)
         /\ PodResourcePath(a, b) # PodIndividualFilesPath(c, d, e)
BY DEF PodResourcePath, PodLogPath, PodSummaryPath, PodIndividualFilesPath

-----------------------------------------------------------------------------
(* The tasks: each writes to a path of its own.                             *)

LEMMA DiscoveredFrom ==
  ASSUME NEW r \in Discovered
  PROVE  \E i \in DOMAIN Lists : \E q \in Lists[i].resources :
           r.name = q.name /\ r.group = Lists[ChosenGroup(Lists, q.name)].group
<1>1. PICK x \in UNION {{i} \X Lists[i].resources : i \in DOMAIN Lists} :
        /\ x[1] = ChosenGroup(Lists, x[2].name)
        /\ r = [name |-> x[2].name, namespaced |-> x[2].namespaced, group |-> Lists[x[1]].group]
  BY DEF Discovered, DiscoverResources
<1>2. PICK i \in DOMAIN Lists : x \in {i} \X Lists[i].resources
  BY <1>1
<1>3. x[1] = i /\ x[2] \in Lists[i].resources
  BY <1>2
<1> QED
  BY <1>1, <1>3

LEMMA TaskCases ==
  ASSUME NEW t \in Tasks
  PROVE  \/ \E r \in Discovered : t = Task("", r)
         \/ \E ns \in Namespaces : \E r \in Discovered : r.name # "secrets" /\ t = Task(ns, r)
         \/ \E ns \in Namespaces : t = SSLTask(ns)
<1>1. CASE t \in ClusterTasks
  BY <1>1 DEF ClusterTasks
<1>2. CASE t \in NamespaceTasks
  <2>1. PICK ns \in Namespaces :
          t \in {SSLTask(ns)} \cup
                {Task(ns, r) : r \in {x \in Discovered : x.namespaced /\ x.name # "secrets"}}
    BY <1>2 DEF NamespaceTasks
  <2> QED
    BY <2>1
<1> QED
  BY <1>1, <1>2 DEF Tasks

LEMMA TaskNames == ASSUME NEW t \in Tasks, t.name # "" PROVE t.name \in ResourceNames
<1>1. ASSUME NEW r \in Discovered PROVE r.name \in ResourceNames
  <2>1. PICK i \in DOMAIN Lists : \E q \in Lists[i].resources : r.name = q.name
    BY DiscoveredFrom
  <2>2. r.name \in {p.name : p \in Lists[i].resources}
    BY <2>1
  <2> QED
    BY <2>2 DEF ResourceNames
<1>2. /\ \A n : SSLTask(n).name = ""
      /\ \A n, r : Task(n, r).name = r.name
  BY DEF Task, SSLTask
<1>3. CASE \E r \in Discovered : t = Task("", r)
  BY <1>1, <1>2, <1>3
<1>4. CASE \E ns \in Namespaces : \E r \in Discovered : t = Task(ns, r)
  BY <1>1, <1>2, <1>4
<1> QED
  BY <1>2, <1>3, <1>4, TaskCases

LEMMA ResourcePathsApart ==
  ASSUME NEW t \in Tasks, NEW u \in Tasks, t.name # "", u.name # "",
         PodResourcePath(t.ns, t.name) = PodResourcePath(u.ns, u.name)
  PROVE  t = u
<1>1. ASSUME NEW v \in Tasks, v.name # ""
      PROVE  /\ v.ns \in Namespaces \cup {""}
             /\ v = [ns |-> v.ns, name |-> v.name,
                     group |-> Lists[ChosenGroup(Lists, v.name)].group]
  <2>1. PICK ns \in Namespaces \cup {""}, r \in Discovered : v = Task(ns, r)
    <3>1. \A ns : SSLTask(ns).name = ""
      BY DEF SSLTask
    <3>2. CASE \E r \in Discovered : v = Task("", r)
      BY <3>2
    <3>3. CASE \E ns \in Namespaces : \E r \in Discovered : v = Task(ns, r)
      BY <3>3
    <3> QED
      BY <1>1, <3>1, <3>2, <3>3, TaskCases
  <2>2. r.group = Lists[ChosenGroup(Lists, r.name)].group
    BY DiscoveredFrom
  <2> QED
    BY <2>1, <2>2 DEF Task
<1>2. t.ns \in Namespaces \cup {""} /\ u.ns \in Namespaces \cup {""}
  BY <1>1
<1>4. t.name \in ResourceNames /\ u.name \in ResourceNames
  BY TaskNames
<1>3. t.name = u.name /\ t.ns = u.ns
  BY <1>2, <1>4, NamesAssumption DEF PodResourcePath
<1> QED
  BY <1>1, <1>3

LEMMA SSLTasks ==
  ASSUME NEW t \in Tasks, t.name = "" PROVE t = SSLTask(t.ns) /\ t.ns \in Namespaces
<1>1. \A r \in Discovered : r.name # ""
  BY DiscoveredFrom, NamesAssumption
<1>3. \A ns : \A r \in Discovered : Task(ns, r).name # ""
  BY <1>1 DEF Task
<1>2. PICK ns \in Namespaces : t = SSLTask(ns)
  BY <1>3, TaskCases
<1> QED
  BY <1>2 DEF SSLTask
-----------------------------------------------------------------------------
(* Who may write what: each pod is with main, in the channel or with one    *)
(* worker, and what is still to be written of it is not in the archive.     *)

LogAt(p, c) == InArchive(PodLogPath(PodOf[p].ns, p, c))
SummaryAt(p) == InArchive(PodSummaryPath(PodOf[p].ns, p))
FileAt(p, f) == InArchive(PodIndividualFilesPath(PodOf[p].ns, p, f))

Unlogged(p) == \A c \in Range(AllContainers(p)) : ~LogAt(p, c)
Unvisited(p) == ~SummaryAt(p) /\ \A f \in Range(Files) : ~FileAt(p, f)

Early == {"new", "open", "discover", "namespaces", "export", "workers", "sync"}

Working(w) == at[w] \in WorkerSteps

\* A pod that no worker has taken yet.
Waiting(p) == pc \in Early \/ p \in undispatched \/ p \in Range(queue)

OneWorkerInv ==
  /\ pc \in Early => undispatched = {} /\ queue = <<>> /\ \A w \in Workers : ~Working(w)
  /\ IsInjective(queue) /\ \A p \in Range(queue) : p \notin undispatched
  /\ \A w \in Workers : Working(w) =>
       /\ job[w] \notin undispatched /\ job[w] \notin Range(queue)
       /\ \A v \in Workers : v # w /\ Working(v) => job[v] # job[w]

WorkerPaths(w) ==
  LET p == job[w] IN
  /\ at[w] = "logs" =>
       /\ IsInjective(left[w]) /\ \A c \in Range(left[w]) : ~LogAt(p, c)
       /\ Unvisited(p)
  /\ at[w] \in {"types", "secret", "forward", "dial", "run"} =>
       \A s, t \in types[w] : s = t
  /\ at[w] = "types" /\ types[w] # {} => Unvisited(p)
  /\ at[w] \in {"secret", "forward", "dial", "run"} =>
       types[w] = {} /\ Unvisited(p) /\ left[w] \in {Files, <<>>}
  /\ at[w] = "files" =>
       /\ types[w] = {} /\ left[w] \in Seq(Range(Files)) /\ IsInjective(left[w])
       /\ \A f \in Range(left[w]) : ~FileAt(p, f)

Owned(t, x) == InArchive(x) => task[t] = "done" \/ NamedLikeAFile(x)

\* A path of the export is written by one task, or is a secret's and a resource's.
PathInv ==
  /\ PathsOnce
  /\ crTypes \subseteq Operators
  /\ InArchive(DumperLogPath) => pc \in {"close", "exited"}
  /\ \A t \in Tasks : t.name # "" => Owned(t, PodResourcePath(t.ns, t.name))
  /\ \A t \in Tasks : t.name = "" =>
       \A s \in Secrets[t.ns] : Owned(t, NamespaceIndividualFilesPath(t.ns, s))
  /\ \A p \in Pods : Waiting(p) => Unlogged(p) /\ Unvisited(p)
  /\ \A w \in Workers : WorkerPaths(w)

LEMMA TailInjective ==
  ASSUME NEW S, NEW s \in Seq(S), s # <<>>, IsInjective(s)
  PROVE  /\ IsInjective(Tail(s)) /\ Head(s) \notin Range(Tail(s)) /\ Head(s) \in Range(s)
         /\ Range(Tail(s)) \subseteq Range(s)
<1>1. /\ Tail(s) \in Seq(S) /\ Head(s) = s[1] /\ Len(s) \in Nat \ {0}
      /\ DOMAIN s = 1..Len(s) /\ DOMAIN Tail(s) = 1..(Len(s) - 1)
      /\ \A i \in 1..(Len(s) - 1) : Tail(s)[i] = s[i + 1] /\ i + 1 \in 1..Len(s) /\ i + 1 # 1
  OBVIOUS
<1>2. \A i \in DOMAIN Tail(s), j \in DOMAIN Tail(s) : Tail(s)[i] = Tail(s)[j] => i = j
  BY <1>1 DEF IsInjective
<1>3. \A i \in DOMAIN Tail(s) : Tail(s)[i] # Head(s)
  <2> SUFFICES ASSUME NEW i \in DOMAIN Tail(s), Tail(s)[i] = Head(s) PROVE FALSE
    OBVIOUS
  <2>1. s[i + 1] = s[1] /\ i + 1 \in DOMAIN s /\ 1 \in DOMAIN s /\ i + 1 # 1
    BY <1>1
  <2> QED
    BY <2>1 DEF IsInjective
<1> QED
  BY <1>1, <1>2, <1>3 DEF IsInjective, Range

LEMMA AppendedValues ==
  ASSUME NEW S, NEW s \in Seq(S), NEW x \in S
  PROVE  /\ Append(s, x) \in Seq(S) /\ Len(Append(s, x)) = Len(s) + 1
         /\ \A i \in 1..Len(s) : Append(s, x)[i] = s[i]
         /\ Append(s, x)[Len(s) + 1] = x
OBVIOUS

LEMMA AppendOneMore ==
  ASSUME NEW S, NEW s \in Seq(S), NEW x \in S, IsInjective(s), x \notin Range(s)
  PROVE  IsInjective(Append(s, x))
<1> DEFINE t == Append(s, x)
<1>0. /\ t \in Seq(S) /\ Len(t) = Len(s) + 1 /\ t[Len(s) + 1] = x
      /\ \A i \in 1..Len(s) : t[i] = s[i]
  BY AppendedValues
<1> HIDE DEF t
<1>1. Len(s) \in Nat /\ DOMAIN s = 1..Len(s) /\ DOMAIN t = 1..(Len(s) + 1)
  BY <1>0
<1>2. \A i \in 1..Len(s) : s[i] # x
  BY <1>1 DEF Range
<1>3. \A i \in 1..(Len(s) + 1) : i \in 1..Len(s) \/ i = Len(s) + 1
  BY <1>1
<1>4. \A i \in 1..Len(s), j \in 1..Len(s) : s[i] = s[j] => i = j
  BY <1>1 DEF IsInjective
<1>5. \A i \in 1..(Len(s) + 1), j \in 1..(Len(s) + 1) :
        t[i] = t[j] => i = j
  BY <1>0, <1>2, <1>3, <1>4
<1>6. \A i, j \in DOMAIN t : t[i] = t[j] => i = j
  BY <1>1, <1>5
<1>7. IsInjective(t)
  BY <1>6 DEF IsInjective
<1> QED
  BY <1>7 DEF t

LEMMA EmptyInjective == IsInjective(<<>>) /\ Range(<<>>) = {}
BY DEF IsInjective, Range

-----------------------------------------------------------------------------
(* A pod is in one place.                                                   *)

LEMMA OneWorkerInit == Init => OneWorkerInv
<1> SUFFICES ASSUME Init PROVE OneWorkerInv
  OBVIOUS
<1>1. /\ queue = <<>> /\ undispatched = {} /\ pc = "new"
      /\ \A w \in Workers : at[w] = "none"
  BY DEF Init
<1> QED
  BY <1>1, EmptyInjective DEF OneWorkerInv, Working, WorkerSteps

LEMMA WorkerOneWorker ==
  ASSUME MainInv, WorkerInv, OneWorkerInv, NEW w \in Workers, Worker(w) PROVE OneWorkerInv'
<1>1. UNCHANGED <<pc, undispatched>>
  BY WorkerLeavesMain
<1>2. \A v \in Workers : v # w => UNCHANGED <<at[v], job[v]>>
  BY OthersUnchanged
<1>3. CASE Take(w)
  <2>1. /\ queue # <<>> /\ queue \in Seq(Pods) /\ queue' = Tail(queue)
        /\ job'[w] = Head(queue)
    BY <1>3 DEF Take, ReceiveJob, MainInv, WorkerInv
  <2>2. /\ IsInjective(queue') /\ Head(queue) \notin Range(queue')
        /\ Head(queue) \in Range(queue) /\ Range(queue') \subseteq Range(queue)
    BY <2>1, TailInjective DEF OneWorkerInv
  <2>3. pc \notin Early
    BY <2>1 DEF OneWorkerInv
  <2> QED
    BY <1>1, <1>2, <2>1, <2>2, <2>3 DEF OneWorkerInv, Working
<1>4. CASE ~Take(w) /\ Working(w)' => Working(w) /\ job'[w] = job[w]
  <2>1. CASE Take(w)
    BY <1>3, <2>1
  <2>2. CASE ~Take(w)
    <3>1. UNCHANGED queue /\ (Working(w)' => Working(w) /\ job'[w] = job[w])
      BY <1>4, <2>2, OnlyTakeTakes
    <3> QED
      BY <1>1, <1>2, <3>1 DEF OneWorkerInv, Working
  <2> QED
    BY <2>1, <2>2
<1>5. CASE Leave(w) \/ NoSpaceLeft(w) \/ TypesDone(w)
  <2>1. at'[w] \in {"gone", "idle"} /\ ~Take(w)
    BY <1>5 DEF Leave, NoSpaceLeft, TypesDone, Take, Go, WorkerInv
  <2> QED
    BY <1>4, <2>1 DEF Working, WorkerSteps
<1>6. CASE ~Take(w) /\ ~Leave(w) /\ ~NoSpaceLeft(w) /\ ~TypesDone(w)
  <2>1. job'[w] = job[w]
    BY <1>6, JobStays
  <2>2. Working(w)
    BY <1>6 DEF Working, WorkerSteps, Worker, ExportContainerLogs, ContainerLogsFail, LogsDone,
       AfterLogs, NextType, Summary, GetSecret, StorePort, PortForwardPod, AlreadyForwarded,
       LocalPortInUse, SummaryFails, GotSummary, NoSummary, ProcessSingleFile, FileFails,
       FilesDone, Go
  <2> QED
    BY <1>4, <1>6, <2>1, <2>2
<1> QED
  BY <1>3, <1>5, <1>6

LEMMA OneWorkerStep == MainInv /\ WorkerInv /\ OneWorkerInv /\ [Next]_vars => OneWorkerInv'
<1> SUFFICES ASSUME MainInv, WorkerInv, OneWorkerInv, [Next]_vars PROVE OneWorkerInv'
  OBVIOUS
<1> USE DEF Goto, Return, Working
<1>1. CASE \E w \in Workers : Worker(w)
  BY <1>1, WorkerOneWorker
<1>2. CASE UNCHANGED <<queue, undispatched, at, job>> /\ (pc' \in Early => pc \in Early)
  BY <1>2 DEF OneWorkerInv
<1>3. CASE \E t \in Tasks : Export(t)
  BY <1>2, <1>3, ExportLeavesMain
<1>4. CASE Fails
  BY <1>2, <1>4 DEF Fails, Refused, DiscoverFails, NamespacesFail, ListFails, Early
<1>5. CASE New \/ OpenArchive \/ DiscoverAndSpawn \/ ListNamespaces \/ ExportDone
  BY <1>2, <1>5 DEF New, OpenArchive, DiscoverAndSpawn, ListNamespaces, ExportDone, Early
<1>6. CASE StartWorkers
  <2>1. \A w \in Workers : at'[w] = "idle"
    BY <1>6 DEF StartWorkers
  <2>2. UNCHANGED <<queue, undispatched, job>> /\ pc = "workers"
    BY <1>6 DEF StartWorkers
  <2> QED
    BY <2>1, <2>2 DEF OneWorkerInv, WorkerSteps, Early
<1>7. CASE ListPods
  <2>1. queue = <<>> /\ \A w \in Workers : ~Working(w)
    BY <1>7 DEF ListPods, OneWorkerInv, Early
  <2> QED
    BY <1>7, <2>1, EmptyInjective DEF ListPods, OneWorkerInv, Early
<1>8. CASE Dispatch
  <2>1. PICK p \in undispatched : undispatched' = undispatched \ {p} /\ queue' = Append(queue, p)
    BY <1>8 DEF Dispatch
  <2>2. p \in Pods /\ p \notin Range(queue) /\ queue \in Seq(Pods)
    BY <2>1 DEF MainInv, OneWorkerInv
  <2>5. Range(queue') = Range(queue) \cup {p}
    BY <2>1, <2>2, AppendRange
  <2>6. IsInjective(Append(queue, p))
    <3>1. IsInjective(queue)
      BY DEF OneWorkerInv
    <3> QED
      BY <2>2, <3>1, AppendOneMore
  <2>3. Range(queue') = Range(queue) \cup {p} /\ IsInjective(queue')
    BY <2>1, <2>5, <2>6
  <2>4. pc = "dispatch" /\ UNCHANGED <<pc, at, job>>
    BY <1>8 DEF Dispatch
  <2> QED
    BY <2>1, <2>3, <2>4 DEF OneWorkerInv, Early
<1>9. CASE CloseJobs \/ WaitWorkers \/ DumpToArchive \/ CloseArchive
  BY <1>2, <1>9 DEF CloseJobs, WaitWorkers, DumpToArchive, CloseArchive, Early
<1>10. CASE UNCHANGED vars
  BY <1>2, <1>10 DEF vars
<1> QED
  BY <1>1, <1>3, <1>4, <1>5, <1>6, <1>7, <1>8, <1>9, <1>10 DEF Next, Runs, DumpCluster

-----------------------------------------------------------------------------
(* What the workers write.                                                  *)

\* What a worker adds.
LEMMA WorkerAdds ==
  ASSUME WorkerInv, NEW w \in Workers, Worker(w)
  PROVE  \/ Adds({})
         \/ /\ ExportContainerLogs(w)
            /\ Adds({PodLogPath(PodOf[job[w]].ns, job[w], Head(left[w]))})
         \/ Summary(w) /\ at'[w] = "files" /\ Adds({PodSummaryPath(PodOf[job[w]].ns, job[w])})
         \/ /\ ProcessSingleFile(w)
            /\ Adds({PodIndividualFilesPath(PodOf[job[w]].ns, job[w], Head(left[w]))})
<1>1. CASE Take(w) \/ Leave(w) \/ TypesDone(w) \/ FilesDone(w) \/ LogsDone(w) \/ NextType(w)
  BY <1>1, NothingAdded DEF Take, Leave, TypesDone, FilesDone, LogsDone, NextType
<1>2. CASE ExportContainerLogs(w)
  BY <1>2, WrittenAdds DEF ExportContainerLogs
<1>3. CASE ContainerLogsFail(w)
  BY <1>3, FailsAddNothing DEF ContainerLogsFail
<1>4. CASE NoSpaceLeft(w)
  BY <1>4, FailsAddNothing DEF NoSpaceLeft
<1>5. CASE ProcessSingleFile(w)
  BY <1>5, WrittenAdds DEF ProcessSingleFile
<1>6. CASE FileFails(w)
  BY <1>6, FailsAddNothing, NothingAdded DEF FileFails
<1>7. CASE GetSecret(w) \/ StorePort(w) \/ PortForwardPod(w) \/ AlreadyForwarded(w)
  BY <1>7, NothingAdded DEF GetSecret, StorePort, PortForwardPod, AlreadyForwarded
<1> DEFINE y == PodSummaryPath(PodOf[job[w]].ns, job[w])
<1>9. SummaryError(w) => Adds({y}) \/ Adds({})
  BY WrittenAdds, FailsAddNothing DEF SummaryError, SummaryPath
<1>10. (\E what : Written({Entry(SummaryPath(w), what, {})})) \/ WriteFails => Adds({y}) \/ Adds({})
  BY WrittenAdds, FailsAddNothing DEF SummaryPath
<1> HIDE DEF y
<1>8. CASE LocalPortInUse(w) \/ SummaryFails(w) \/ GotSummary(w) \/ NoSummary(w)
  <2>1. Summary(w)
    BY <1>8 DEF Summary
  <2>2. Go(w, "forward", "files") \/ Go(w, "secret", "files") \/ Go(w, "dial", "files") \/ Go(w, "run", "files")
    BY <1>8 DEF LocalPortInUse, SummaryFails, GotSummary, NoSummary
  <2>3. Adds({y}) \/ Adds({})
    BY <1>8, <1>9, <1>10 DEF LocalPortInUse, SummaryFails, GotSummary, NoSummary
  <2> QED
    BY <2>1, <2>2, <2>3 DEF y, Go, WorkerInv
<1> QED
  BY <1>1, <1>2, <1>3, <1>4, <1>5, <1>6, <1>7, <1>8 DEF Worker, Summary

\* What of a pod is not in the archive, with what is written of another.
LEMMA OtherPodUntouched ==
  ASSUME NEW p, NEW q, p # q, NEW x, NEW X, X \subseteq
           {PodLogPath(PodOf[q].ns, q, x), PodSummaryPath(PodOf[q].ns, q),
            PodIndividualFilesPath(PodOf[q].ns, q, x)}, Adds(X)
  PROVE  /\ \A c : LogAt(p, c)' <=> LogAt(p, c)
         /\ SummaryAt(p)' <=> SummaryAt(p)
         /\ \A f : FileAt(p, f)' <=> FileAt(p, f)
<1>1. \A c : PodLogPath(PodOf[p].ns, p, c) \notin X
  BY LogPathsApart
<1>2. PodSummaryPath(PodOf[p].ns, p) \notin X
  BY SummaryPathsApart
<1>3. \A f : PodIndividualFilesPath(PodOf[p].ns, p, f) \notin X
  BY FilePathsApart
<1> QED
  BY <1>1, <1>2, <1>3 DEF Adds, LogAt, SummaryAt, FileAt

LEMMA StaysUntouched ==
  ASSUME NEW p,
         \A c : LogAt(p, c)' <=> LogAt(p, c), SummaryAt(p)' <=> SummaryAt(p),
         \A f : FileAt(p, f)' <=> FileAt(p, f)
  PROVE  Unlogged(p)' = Unlogged(p) /\ Unvisited(p)' = Unvisited(p)
BY DEF Unlogged, Unvisited

\* What belongs to main and to the export stays as it is when a worker writes.
LEMMA WorkersWriteOfPods ==
  ASSUME NEW p, NEW x, NEW X, X \subseteq
           {PodLogPath(PodOf[p].ns, p, x), PodSummaryPath(PodOf[p].ns, p),
            PodIndividualFilesPath(PodOf[p].ns, p, x)}, Adds(X)
  PROVE  /\ InArchive(DumperLogPath)' <=> InArchive(DumperLogPath)
         /\ \A ns, r : InArchive(PodResourcePath(ns, r))' <=> InArchive(PodResourcePath(ns, r))
         /\ \A ns, s : InArchive(NamespaceIndividualFilesPath(ns, s))'
                         <=> InArchive(NamespaceIndividualFilesPath(ns, s))
<1>1. DumperLogPath \notin X
  BY ErrorsPathApart
<1>2. \A ns, r : PodResourcePath(ns, r) \notin X
  BY ResourcePathApart
<1>3. \A ns, s : NamespaceIndividualFilesPath(ns, s) \notin X
  BY CertificatePathsApart
<1> QED
  BY <1>1, <1>2, <1>3 DEF Adds

LEMMA WorkerAddsOfItsPod ==
  ASSUME WorkerInv, NEW w \in Workers, Worker(w)
  PROVE  \E x, X : /\ Adds(X) /\ (X = {} \/ Working(w))
                   /\ X \subseteq {PodLogPath(PodOf[job[w]].ns, job[w], x),
                                   PodSummaryPath(PodOf[job[w]].ns, job[w]),
                                   PodIndividualFilesPath(PodOf[job[w]].ns, job[w], x)}
<1> USE DEF Working, WorkerSteps, Go
<1>1. CASE Adds({})
  BY <1>1
<1>2. CASE /\ ExportContainerLogs(w)
           /\ Adds({PodLogPath(PodOf[job[w]].ns, job[w], Head(left[w]))})
  <2>1. at[w] = "logs"
    BY <1>2 DEF ExportContainerLogs
  <2> QED
    BY <1>2, <2>1
<1>3. CASE Summary(w) /\ Adds({PodSummaryPath(PodOf[job[w]].ns, job[w])})
  <2>1. at[w] \in {"secret", "forward", "dial", "run"}
    BY <1>3 DEF Summary, GetSecret, StorePort, PortForwardPod, AlreadyForwarded, LocalPortInUse,
       SummaryFails, GotSummary, NoSummary
  <2> QED
    BY <1>3, <2>1
<1>4. CASE /\ ProcessSingleFile(w)
           /\ Adds({PodIndividualFilesPath(PodOf[job[w]].ns, job[w], Head(left[w]))})
  <2>1. at[w] = "files"
    BY <1>4 DEF ProcessSingleFile
  <2> QED
    BY <1>4, <2>1
<1> QED
  BY <1>1, <1>2, <1>3, <1>4, WorkerAdds

\* The other workers, and the pods nobody has taken.
LEMMA OthersPaths ==
  ASSUME WorkerInv, OneWorkerInv, NEW w \in Workers, Worker(w),
         NEW v \in Workers, v # w, WorkerPaths(v)
  PROVE  WorkerPaths(v)'
<1>1. PICK x, X : /\ Adds(X) /\ (X = {} \/ Working(w))
                  /\ X \subseteq {PodLogPath(PodOf[job[w]].ns, job[w], x),
                                  PodSummaryPath(PodOf[job[w]].ns, job[w]),
                                  PodIndividualFilesPath(PodOf[job[w]].ns, job[w], x)}
  BY WorkerAddsOfItsPod
<1>2. UNCHANGED <<at[v], job[v], left[v], types[v]>>
  BY OthersUnchanged
<1>3. PICK p : p = job[v]
  OBVIOUS
<1>4. CASE ~Working(v)
  BY <1>2, <1>4 DEF WorkerPaths, Working, WorkerSteps
<1>5. CASE Working(v) /\ Working(w)
  <2>1. p # job[w]
    BY <1>3, <1>5 DEF OneWorkerInv
  <2>2. /\ \A c : LogAt(p, c)' <=> LogAt(p, c)
        /\ SummaryAt(p)' <=> SummaryAt(p)
        /\ \A f : FileAt(p, f)' <=> FileAt(p, f)
    BY <1>1, <2>1, OtherPodUntouched
  <2>3. Unvisited(p)' = Unvisited(p)
    BY <2>2, StaysUntouched
  <2> QED
    BY <1>2, <1>3, <2>2, <2>3 DEF WorkerPaths
<1>6. CASE X = {}
  <2>1. \A y : InArchive(y)' <=> InArchive(y)
    BY <1>1, <1>6 DEF Adds
  <2> QED
    BY <1>2, <2>1 DEF WorkerPaths, LogAt, SummaryAt, FileAt, Unvisited
<1> QED
  BY <1>1, <1>4, <1>5, <1>6

LEMMA WaitingPaths ==
  ASSUME MainInv, WorkerInv, OneWorkerInv, NEW w \in Workers, Worker(w), NEW p \in Pods,
         Waiting(p)', Waiting(p) => Unlogged(p) /\ Unvisited(p)
  PROVE  (Unlogged(p) /\ Unvisited(p))'
<1>1. PICK x, X : /\ Adds(X) /\ (X = {} \/ Working(w))
                  /\ X \subseteq {PodLogPath(PodOf[job[w]].ns, job[w], x),
                                  PodSummaryPath(PodOf[job[w]].ns, job[w]),
                                  PodIndividualFilesPath(PodOf[job[w]].ns, job[w], x)}
  BY WorkerAddsOfItsPod
<1>2. Waiting(p)
  <2>1. UNCHANGED <<pc, undispatched>>
    BY WorkerLeavesMain
  <2>2. Range(queue') \subseteq Range(queue)
    <3>1. CASE Take(w)
      <4>1. queue # <<>> /\ queue \in Seq(Pods) /\ queue' = Tail(queue) /\ IsInjective(queue)
        BY <3>1 DEF Take, ReceiveJob, MainInv, OneWorkerInv
      <4> QED
        BY <4>1, TailInjective
    <3>2. CASE ~Take(w)
      BY <3>2, OnlyTakeTakes
    <3> QED
      BY <3>1, <3>2
  <2> QED
    BY <2>1, <2>2 DEF Waiting
<1>3. CASE Working(w)
  <2>1. p # job[w]
    BY <1>2, <1>3 DEF Waiting, OneWorkerInv
  <2>2. /\ \A c : LogAt(p, c)' <=> LogAt(p, c)
        /\ SummaryAt(p)' <=> SummaryAt(p)
        /\ \A f : FileAt(p, f)' <=> FileAt(p, f)
    BY <1>1, <2>1, OtherPodUntouched
  <2> QED
    BY <1>2, <2>2, StaysUntouched
<1>4. CASE X = {}
  <2>1. \A y : InArchive(y)' <=> InArchive(y)
    BY <1>1, <1>4 DEF Adds
  <2> QED
    BY <1>2, <2>1 DEF LogAt, SummaryAt, FileAt, Unvisited, Unlogged
<1> QED
  BY <1>1, <1>3, <1>4

\* The worker itself.
LEMMA TakePaths ==
  ASSUME MainInv, WorkerInv, PathInv, NEW w \in Workers, Take(w) PROVE WorkerPaths(w)'
<1>1. Head(queue) \in Pods /\ Head(queue) \in Range(queue)
  BY TailRange DEF Take, MainInv, Range
<1>2. PICK p : p = Head(queue)
  OBVIOUS
<1>3. /\ at'[w] = "logs" /\ job'[w] = p /\ left'[w] = AllContainers(p)
      /\ UNCHANGED archive
  BY <1>2 DEF Take, Go, WorkerInv
<1>4. Unlogged(p) /\ Unvisited(p)
  BY <1>1, <1>2 DEF PathInv, Waiting
<1>5. IsInjective(AllContainers(p))
  BY <1>1, <1>2, ClusterAssumption
<1>6. (\A c \in Range(AllContainers(p)) : ~LogAt(p, c)') /\ Unvisited(p)'
  BY <1>3, <1>4 DEF Unlogged, Unvisited, LogAt, SummaryAt, FileAt, InArchive
<1> QED
  BY <1>3, <1>5, <1>6 DEF WorkerPaths

LEMMA LogPaths ==
  ASSUME WorkerInv, NEW w \in Workers, WorkerPaths(w), ExportContainerLogs(w)
  PROVE  WorkerPaths(w)'
<1>1. PICK p : p = job[w]
  OBVIOUS
<1>2. PICK s : s = left[w]
  OBVIOUS
<1>3. /\ at[w] = "logs" /\ s # <<>> /\ s \in Seq(Range(AllContainers(p)))
      /\ at'[w] = "logs" /\ job'[w] = p /\ left'[w] = Tail(s)
  BY <1>1, <1>2 DEF ExportContainerLogs, Go, WorkerInv, Progress, WorkerSteps
<1>4. Adds({PodLogPath(PodOf[p].ns, p, Head(s))})
  BY <1>1, <1>2, WrittenAdds DEF ExportContainerLogs
<1>5. IsInjective(s) /\ (\A c \in Range(s) : ~LogAt(p, c)) /\ Unvisited(p)
  BY <1>1, <1>2, <1>3 DEF WorkerPaths
<1>6. /\ IsInjective(Tail(s)) /\ Head(s) \notin Range(Tail(s))
      /\ Range(Tail(s)) \subseteq Range(s)
  BY <1>3, <1>5, TailInjective
<1>7. \A c \in Range(Tail(s)) : ~LogAt(p, c)'
  BY <1>4, <1>5, <1>6, LogPathsApart DEF Adds, LogAt
<1>8. Unvisited(p)'
  BY <1>4, <1>5, LogPathsApart DEF Adds, Unvisited, SummaryAt, FileAt
<1> QED
  BY <1>3, <1>6, <1>7, <1>8 DEF WorkerPaths

LEMMA AfterLogsPaths ==
  ASSUME WorkerInv, PathInv, NEW w \in Workers, ContainerLogsFail(w) \/ LogsDone(w)
  PROVE  WorkerPaths(w)'
<1>1. PICK p : p = job[w]
  OBVIOUS
<1>2. /\ at[w] = "logs" /\ at'[w] = "types" /\ job'[w] = p /\ p \in Pods
      /\ types'[w] \subseteq {t \in crTypes : MatchesCR(ResourceType(t), PodOf[p].labels)}
      /\ UNCHANGED archive
  BY <1>1 DEF ContainerLogsFail, LogsDone, AfterLogs, Go, WorkerInv, Progress, WorkerSteps,
     NoWrite
<1>3. \A s, t \in types'[w] : s = t
  <2>1. \A s, t \in types'[w] : s \in Operators /\ t \in Operators
    BY <1>2 DEF PathInv
  <2> QED
    BY <1>2, <2>1, NamesAssumption
<1>4. Unvisited(p)
  BY <1>1, <1>2 DEF PathInv, WorkerPaths
<1>5. Unvisited(p)'
  BY <1>2, <1>4 DEF Unvisited, SummaryAt, FileAt, InArchive
<1> QED
  BY <1>2, <1>3, <1>5 DEF WorkerPaths

LEMMA NextTypePaths ==
  ASSUME WorkerInv, NEW w \in Workers, WorkerPaths(w), NextType(w)
  PROVE  WorkerPaths(w)'
<1>1. PICK p : p = job[w]
  OBVIOUS
<1>2. PICK t \in types[w] :
        /\ Go(w, "types", IF SkipPodSummary THEN "files"
                          ELSE IF RemotePort(ResourceType(t)) = 0 THEN "run" ELSE "secret")
        /\ types' = [types EXCEPT ![w] = @ \ {t}]
        /\ left' = [left EXCEPT ![w] =
             IF FilesContainer(ResourceType(t)) \in Range(PodOf[job[w]].containers)
             THEN Files ELSE <<>>]
  BY DEF NextType
<1>3. /\ at[w] = "types" /\ at'[w] \in {"files", "run", "secret"} /\ job'[w] = p
      /\ UNCHANGED archive
  BY <1>1, <1>2 DEF NextType, Go, WorkerInv
<1>4. types'[w] = {}
  BY <1>2, <1>3 DEF WorkerPaths, WorkerInv
<1>5. left'[w] = Files \/ left'[w] = <<>>
  BY <1>2 DEF WorkerInv
<1>6. Unvisited(p)
  BY <1>1, <1>2, <1>3 DEF WorkerPaths
<1>7. Unvisited(p)' /\ \A f \in Range(Files) : ~FileAt(p, f)'
  BY <1>3, <1>6 DEF Unvisited, SummaryAt, FileAt, InArchive
<1>8. /\ left'[w] \in Seq(Range(Files)) /\ IsInjective(left'[w])
      /\ Range(left'[w]) \subseteq Range(Files)
  <2>1. CASE left'[w] = Files
    BY <2>1, NamesAssumption
  <2>2. CASE left'[w] = <<>>
    BY <2>2, EmptyInjective
  <2> QED
    BY <1>5, <2>1, <2>2
<1> QED
  BY <1>3, <1>4, <1>5, <1>7, <1>8 DEF WorkerPaths

LEMMA SummaryPaths ==
  ASSUME WorkerInv, NEW w \in Workers, WorkerPaths(w), Summary(w)
  PROVE  WorkerPaths(w)'
<1>1. PICK p : p = job[w]
  OBVIOUS
<1>2. /\ at[w] \in {"secret", "forward", "dial", "run"} /\ UNCHANGED <<job, left, types>>
      /\ at'[w] \in {"forward", "dial", "run", "files"}
  BY DEF Summary, GetSecret, StorePort, PortForwardPod, AlreadyForwarded, LocalPortInUse, SummaryFails,
     GotSummary, NoSummary, WorkerInv, Go
<1>3. \/ Adds({})
      \/ at'[w] = "files" /\ Adds({PodSummaryPath(PodOf[job[w]].ns, job[w])})
  <2>1. ~ExportContainerLogs(w) /\ ~ProcessSingleFile(w)
    BY <1>2 DEF ExportContainerLogs, ProcessSingleFile, Go
  <2>2. Worker(w)
    BY DEF Worker
  <2> QED
    BY <2>1, <2>2, WorkerAdds
<1>9. PICK X : /\ \A y : InArchive(y)' <=> InArchive(y) \/ y \in X
               /\ X = {} \/ X = {PodSummaryPath(PodOf[p].ns, p)}
               /\ X = {} \/ at'[w] = "files"
  BY <1>1, <1>3 DEF Adds
<1>4. types[w] = {} /\ Unvisited(p) /\ left[w] \in {Files, <<>>}
  BY <1>1, <1>2 DEF WorkerPaths
<1>5. \A f : FileAt(p, f)' <=> FileAt(p, f)
  BY <1>9, SummaryPathsApart DEF FileAt
<1>6. at'[w] # "files" => Unvisited(p)'
  BY <1>4, <1>9 DEF Unvisited, SummaryAt, FileAt
<1>7. /\ left[w] \in Seq(Range(Files)) /\ IsInjective(left[w])
      /\ Range(left[w]) \subseteq Range(Files)
  <2>1. CASE left[w] = Files
    BY <2>1, NamesAssumption
  <2>2. CASE left[w] = <<>>
    BY <2>2, EmptyInjective
  <2> QED
    BY <1>4, <2>1, <2>2
<1>8. \A f \in Range(left[w]) : ~FileAt(p, f)'
  BY <1>4, <1>5, <1>7 DEF Unvisited
<1> QED
  BY <1>1, <1>2, <1>4, <1>6, <1>7, <1>8 DEF WorkerPaths

LEMMA FilePaths ==
  ASSUME WorkerInv, NEW w \in Workers, WorkerPaths(w), ProcessSingleFile(w) \/ FileFails(w)
  PROVE  WorkerPaths(w)'
<1>1. PICK p : p = job[w]
  OBVIOUS
<1>2. PICK s : s = left[w]
  OBVIOUS
<1>3. /\ at[w] = "files" /\ s # <<>> /\ at'[w] = "files" /\ job'[w] = p /\ left'[w] = Tail(s)
      /\ UNCHANGED types
  BY <1>1, <1>2 DEF ProcessSingleFile, FileFails, Go, WorkerInv
<1>4. Adds({}) \/ Adds({PodIndividualFilesPath(PodOf[p].ns, p, Head(s))})
  BY <1>1, <1>2, WrittenAdds, FailsAddNothing, NothingAdded DEF ProcessSingleFile, FileFails
<1>5. /\ types[w] = {} /\ s \in Seq(Range(Files)) /\ IsInjective(s)
      /\ \A f \in Range(s) : ~FileAt(p, f)
  BY <1>1, <1>2, <1>3 DEF WorkerPaths
<1>6. /\ IsInjective(Tail(s)) /\ Head(s) \notin Range(Tail(s))
      /\ Range(Tail(s)) \subseteq Range(s) /\ Tail(s) \in Seq(Range(Files))
  BY <1>3, <1>5, TailInjective
<1>7. \A f \in Range(Tail(s)) : ~FileAt(p, f)'
  <2>1. PICK h : h = Head(s)
    OBVIOUS
  <2>2. \A f \in Range(Tail(s)) : f # h /\ ~FileAt(p, f)
    BY <1>5, <1>6, <2>1
  <2>3. Adds({}) \/ Adds({PodIndividualFilesPath(PodOf[p].ns, p, h)})
    BY <1>4, <2>1
  <2>4. \A f : f # h /\ ~FileAt(p, f) => ~FileAt(p, f)'
    BY <2>3, FilePathsApart DEF Adds, FileAt
  <2> QED
    BY <2>2, <2>4
<1> QED
  BY <1>3, <1>5, <1>6, <1>7 DEF WorkerPaths

LEMMA IdlePaths ==
  ASSUME WorkerInv, NEW w \in Workers, WorkerPaths(w),
         Leave(w) \/ NoSpaceLeft(w) \/ TypesDone(w) \/ FilesDone(w)
  PROVE  WorkerPaths(w)'
<1>1. CASE Leave(w) \/ NoSpaceLeft(w) \/ TypesDone(w)
  <2>1. at'[w] \in {"gone", "idle"}
    BY <1>1 DEF Leave, NoSpaceLeft, TypesDone, Go, WorkerInv
  <2> QED
    BY <2>1 DEF WorkerPaths
<1>2. CASE FilesDone(w)
  <2>1. at[w] = "files" /\ at'[w] = "types" /\ UNCHANGED types
    BY <1>2 DEF FilesDone, Go, WorkerInv
  <2>2. types'[w] = {}
    BY <2>1 DEF WorkerPaths
  <2> QED
    BY <2>1, <2>2 DEF WorkerPaths
<1> QED
  BY <1>1, <1>2

LEMMA WorkerPathInv ==
  ASSUME MainInv, WorkerInv, OneWorkerInv, PathInv, NEW w \in Workers, Worker(w)
  PROVE  PathInv'
<1>1. PICK x, X : /\ Adds(X) /\ (X = {} \/ Working(w))
                  /\ X \subseteq {PodLogPath(PodOf[job[w]].ns, job[w], x),
                                  PodSummaryPath(PodOf[job[w]].ns, job[w]),
                                  PodIndividualFilesPath(PodOf[job[w]].ns, job[w], x)}
  BY WorkerAddsOfItsPod
<1>2. /\ InArchive(DumperLogPath)' <=> InArchive(DumperLogPath)
      /\ \A ns, r : InArchive(PodResourcePath(ns, r))' <=> InArchive(PodResourcePath(ns, r))
      /\ \A ns, s : InArchive(NamespaceIndividualFilesPath(ns, s))'
                      <=> InArchive(NamespaceIndividualFilesPath(ns, s))
  BY <1>1, WorkersWriteOfPods
<1>3. UNCHANGED <<pc, crTypes, task>>
  BY WorkerLeavesMain
<1>4. WorkerPaths(w)
  BY DEF PathInv
<1>5. WorkerPaths(w)'
  BY <1>4, TakePaths, LogPaths, AfterLogsPaths, NextTypePaths, SummaryPaths, FilePaths, IdlePaths
     DEF Worker
<1>6. \A v \in Workers : WorkerPaths(v)'
  BY <1>5, OthersPaths DEF PathInv
<1>7. \A p \in Pods : Waiting(p)' => (Unlogged(p) /\ Unvisited(p))'
  BY WaitingPaths DEF PathInv
<1>8. PathsOnce'
  <2> USE DEF PathsOnce, NamedLikeAFile
  <2>1. CASE Adds({})
    BY <2>1 DEF Adds, PathInv
  <2>2. CASE /\ ExportContainerLogs(w)
             /\ Adds({PodLogPath(PodOf[job[w]].ns, job[w], Head(left[w]))})
    <3>1. PICK p : p = job[w]
      OBVIOUS
    <3>2. at[w] = "logs" /\ left[w] # <<>> /\ left[w] \in Seq(Range(AllContainers(p)))
      BY <2>2, <3>1 DEF ExportContainerLogs, Go, WorkerInv, Progress
    <3>3. Head(left[w]) \in Range(left[w])
      BY <1>4, <3>2, TailInjective DEF WorkerPaths
    <3>4. ~LogAt(job[w], Head(left[w]))
      BY <1>4, <3>2, <3>3 DEF WorkerPaths
    <3> QED
      BY <2>2, <3>4 DEF Adds, LogAt, PathInv
  <2>3. CASE Summary(w) /\ Adds({PodSummaryPath(PodOf[job[w]].ns, job[w])})
    <3>1. at[w] \in {"secret", "forward", "dial", "run"}
      BY <2>3 DEF Summary, GetSecret, StorePort, PortForwardPod, AlreadyForwarded, LocalPortInUse,
         SummaryFails, GotSummary, NoSummary, Go
    <3>2. ~SummaryAt(job[w])
      BY <1>4, <3>1 DEF WorkerPaths, Unvisited
    <3> QED
      BY <2>3, <3>2 DEF Adds, SummaryAt, PathInv
  <2>4. CASE /\ ProcessSingleFile(w)
             /\ Adds({PodIndividualFilesPath(PodOf[job[w]].ns, job[w], Head(left[w]))})
    <3>1. at[w] = "files" /\ left[w] # <<>>
      BY <2>4 DEF ProcessSingleFile, Go
    <3>2. left[w] \in Seq(Range(Files)) /\ IsInjective(left[w])
      BY <1>4, <3>1 DEF WorkerPaths
    <3>3. Head(left[w]) \in Range(left[w])
      BY <3>1, <3>2, TailInjective
    <3>4. ~FileAt(job[w], Head(left[w]))
      BY <1>4, <3>1, <3>3 DEF WorkerPaths
    <3> QED
      BY <2>4, <3>4 DEF Adds, FileAt, PathInv
  <2> QED
    BY <2>1, <2>2, <2>3, <2>4, WorkerAdds
<1>9. /\ \A t \in Tasks : t.name # "" => Owned(t, PodResourcePath(t.ns, t.name))'
      /\ \A t \in Tasks : t.name = "" =>
           \A s \in Secrets[t.ns] : Owned(t, NamespaceIndividualFilesPath(t.ns, s))'
  BY <1>2, <1>3 DEF PathInv, Owned, NamedLikeAFile
<1> QED
  BY <1>2, <1>3, <1>6, <1>7, <1>8, <1>9 DEF PathInv

-----------------------------------------------------------------------------
(* What the export and main write.                                          *)

\* What is not a pod's leaves the pods' paths alone.
LEMMA PodsPathsStay ==
  ASSUME NEW X, Adds(X),
         \A x \in X : \/ x = DumperLogPath \/ \E ns, s : x = NamespaceIndividualFilesPath(ns, s)
                      \/ \E ns, r : x = PodResourcePath(ns, r)
  PROVE  /\ \A p, c : LogAt(p, c)' <=> LogAt(p, c)
         /\ \A p : SummaryAt(p)' <=> SummaryAt(p)
         /\ \A p, f : FileAt(p, f)' <=> FileAt(p, f)
         /\ \A p : Unlogged(p)' = Unlogged(p) /\ Unvisited(p)' = Unvisited(p)
<1>1. \A p, c : PodLogPath(PodOf[p].ns, p, c) \notin X
  BY ErrorsPathApart, CertificatePathsApart, ResourcePathApart
<1>2. \A p : PodSummaryPath(PodOf[p].ns, p) \notin X
  BY ErrorsPathApart, CertificatePathsApart, ResourcePathApart
<1>3. \A p, f : PodIndividualFilesPath(PodOf[p].ns, p, f) \notin X
  BY ErrorsPathApart, CertificatePathsApart, ResourcePathApart
<1>4. /\ \A p, c : LogAt(p, c)' <=> LogAt(p, c)
      /\ \A p : SummaryAt(p)' <=> SummaryAt(p)
      /\ \A p, f : FileAt(p, f)' <=> FileAt(p, f)
  BY <1>1, <1>2, <1>3 DEF Adds, LogAt, SummaryAt, FileAt
<1>5. \A p : Unlogged(p)' = Unlogged(p) /\ Unvisited(p)' = Unvisited(p)
  BY <1>4, StaysUntouched
<1> QED
  BY <1>4, <1>5

\* What is left of PathInv when the workers do nothing and no pod is given out.
LEMMA WorkersPathsStay ==
  ASSUME PathInv, UNCHANGED <<job, left, types>>,
         \A w \in Workers : at'[w] = at[w] \/ at'[w] = "idle",
         \A p \in Pods : Waiting(p)' => Waiting(p),
         \A p, c : LogAt(p, c)' <=> LogAt(p, c), \A p : SummaryAt(p)' <=> SummaryAt(p),
         \A p, f : FileAt(p, f)' <=> FileAt(p, f),
         \A p : Unlogged(p)' = Unlogged(p) /\ Unvisited(p)' = Unvisited(p)
  PROVE  /\ \A p \in Pods : Waiting(p)' => (Unlogged(p) /\ Unvisited(p))'
         /\ \A w \in Workers : WorkerPaths(w)'
<1>1. ASSUME NEW w \in Workers PROVE WorkerPaths(w)'
  <2>1. WorkerPaths(w)
    BY DEF PathInv
  <2>2. PICK p : p = job[w]
    OBVIOUS
  <2>3. CASE at'[w] = at[w]
    BY <2>1, <2>2, <2>3 DEF WorkerPaths
  <2>4. CASE at'[w] = "idle"
    BY <2>4 DEF WorkerPaths
  <2> QED
    BY <2>3, <2>4
<1> QED
  BY <1>1 DEF PathInv

LEMMA ExportAdds ==
  ASSUME NEW t \in Tasks, Export(t), TaskInv
  PROVE  \/ Adds({})
         \/ t.name # "" /\ task[t] = "running" /\ task'[t] = "done"
              /\ Adds({PodResourcePath(t.ns, t.name)})
         \/ t.name = "" /\ task[t] = "running" /\ task'[t] = "done"
              /\ \E S \in SUBSET Secrets[t.ns] :
                   Adds({NamespaceIndividualFilesPath(t.ns, s) : s \in S})
<1>1. CASE Acquire(t) \/ AcquireFails(t)
  BY <1>1, NothingAdded DEF Acquire, AcquireFails, NoWrite
<1>2. CASE ExportGeneric(t)
  <2>1. t.name # "" /\ task[t] = "running" /\ task'[t] = "done"
    BY <1>2 DEF ExportGeneric, TaskInv
  <2>2. Adds({}) \/ Adds({PodResourcePath(t.ns, t.name)})
    BY <1>2, WrittenAdds, FailsAddNothing DEF ExportGeneric
  <2> QED
    BY <2>1, <2>2
<1>3. CASE DumpSSLInfo(t)
  <2>1. t.name = "" /\ task[t] = "running" /\ task'[t] = "done"
    BY <1>3 DEF DumpSSLInfo, TaskInv
  <2>2. ASSUME NEW S \in SUBSET Secrets[t.ns],
               Put({Entry(NamespaceIndividualFilesPath(t.ns, s), "certificate", {}) : s \in S})
        PROVE  Adds({NamespaceIndividualFilesPath(t.ns, s) : s \in S})
    <3>1. PICK E : E = {Entry(NamespaceIndividualFilesPath(t.ns, s), "certificate", {}) : s \in S}
      OBVIOUS
    <3> DEFINE cert(s) == Entry(NamespaceIndividualFilesPath(t.ns, s), "certificate", {})
    <3>4. \A s : cert(s).path = NamespaceIndividualFilesPath(t.ns, s)
      BY DEF Entry
    <3>5. E = {cert(s) : s \in S}
      BY <3>1
    <3> HIDE DEF cert
    <3>2. {f.path : f \in E} = {NamespaceIndividualFilesPath(t.ns, s) : s \in S}
      BY <3>4, <3>5
    <3>3. Adds({e.path : e \in E})
      BY <2>2, <3>1, PutAdds
    <3> QED
      BY <3>2, <3>3
  <2>3. \/ NoWrite
        \/ \E S \in SUBSET Secrets[t.ns] :
             Put({Entry(NamespaceIndividualFilesPath(t.ns, s), "certificate", {}) : s \in S})
    BY <1>3 DEF DumpSSLInfo
  <2> QED
    BY <2>1, <2>2, <2>3, FailsAddNothing
<1> QED
  BY <1>1, <1>2, <1>3 DEF Export

\* Tasks that are not spawned yet, and that no later step spawns again.
SpawnInv == \A t \in Tasks :
  pc \in {"new", "open", "discover"} \/ (pc = "namespaces" /\ t.ns # "") => task[t] = "none"

LEMMA ExportMovesTask ==
  ASSUME TaskInv, NEW t \in Tasks, Export(t)
  PROVE  /\ task[t] \in {"spawned", "running"} /\ DOMAIN task' = Tasks
         /\ \A u \in Tasks : u # t => task'[u] = task[u]
BY DEF Export, Acquire, AcquireFails, ExportGeneric, DumpSSLInfo, TaskInv

LEMMA TaskNamespaces ==
  /\ \A t \in ClusterTasks : t.ns = ""
  /\ \A t \in NamespaceTasks : t.ns \in Namespaces
<1>1. ASSUME NEW t \in NamespaceTasks PROVE t.ns \in Namespaces
  <2>1. PICK ns \in Namespaces :
          t \in {SSLTask(ns)} \cup
                {Task(ns, r) : r \in {x \in Discovered : x.namespaced /\ x.name # "secrets"}}
    BY DEF NamespaceTasks
  <2>2. SSLTask(ns).ns = ns /\ \A r : Task(ns, r).ns = ns
    BY DEF SSLTask, Task
  <2> QED
    BY <2>1, <2>2
<1>2. \A r : Task("", r).ns = ""
  BY DEF Task
<1> QED
  BY <1>1, <1>2 DEF ClusterTasks

LEMMA SpawnStep == TaskInv /\ SpawnInv /\ [Next]_vars => SpawnInv'
<1> SUFFICES ASSUME TaskInv, SpawnInv, [Next]_vars PROVE SpawnInv'
  OBVIOUS
<1> USE DEF Goto, Return
<1>1. CASE \E t \in Tasks : Export(t)
  BY <1>1, ExportMovesTask, ExportLeavesMain DEF SpawnInv
<1>2. CASE /\ UNCHANGED task
           /\ \/ UNCHANGED pc
              \/ pc' \notin {"new", "open", "discover", "namespaces"}
              \/ pc \in {"new", "open"} /\ pc' \in {"open", "discover"}
  BY <1>2 DEF SpawnInv
<1>3. CASE \E w \in Workers : Worker(w)
  BY <1>2, <1>3, WorkerLeavesMain
<1>4. CASE Fails
  BY <1>2, <1>4 DEF Fails, Refused, DiscoverFails, NamespacesFail, ListFails
<1>5. CASE New \/ OpenArchive
  BY <1>2, <1>5 DEF New, OpenArchive
<1>6. CASE DiscoverAndSpawn
  <2>1. pc = "discover" /\ pc' = "namespaces" /\ Spawn(ClusterTasks)
    BY <1>6 DEF DiscoverAndSpawn
  <2> QED
    BY <2>1, TaskNamespaces DEF Spawn, SpawnInv
<1>7. CASE ListNamespaces
  BY <1>7 DEF ListNamespaces, SpawnInv
<1>8. CASE ExportDone \/ StartWorkers \/ ListPods \/ Dispatch \/ CloseJobs
  BY <1>2, <1>8 DEF ExportDone, StartWorkers, ListPods, Dispatch, CloseJobs
<1>9. CASE WaitWorkers \/ DumpToArchive \/ CloseArchive \/ UNCHANGED vars
  BY <1>2, <1>9 DEF WaitWorkers, DumpToArchive, CloseArchive, vars
<1> QED
  BY <1>1, <1>3, <1>4, <1>5, <1>6, <1>7, <1>8, <1>9 DEF Next, Runs, DumpCluster

LEMMA ExportPathInv ==
  ASSUME TaskInv, PathInv, NEW t \in Tasks, Export(t) PROVE PathInv'
<1>1. /\ task[t] # "done" /\ \A u \in Tasks : u # t => task'[u] = task[u]
      /\ UNCHANGED <<pc, crTypes, queue, undispatched, at, job, left, types>>
  BY ExportMovesTask, ExportLeavesMain
<1>2. ASSUME NEW X, Adds(X),
             \A x \in X : \/ \E ns, s : x = NamespaceIndividualFilesPath(ns, s)
                          \/ \E ns, r : x = PodResourcePath(ns, r)
      PROVE  /\ InArchive(DumperLogPath)' <=> InArchive(DumperLogPath)
             /\ \A p \in Pods : Waiting(p)' => (Unlogged(p) /\ Unvisited(p))'
             /\ \A w \in Workers : WorkerPaths(w)'
  <2>1. DumperLogPath \notin X
    BY <1>2, ErrorsPathApart
  <2>2. \A p \in Pods : Waiting(p)' => Waiting(p)
    BY <1>1 DEF Waiting
  <2> QED
    BY <1>1, <1>2, <2>1, <2>2, PodsPathsStay, WorkersPathsStay DEF Adds
<1>3. CASE Adds({})
  <2>1. /\ \A y : InArchive(y)' <=> InArchive(y)
        /\ PathsOnce'
    BY <1>3 DEF Adds, PathInv, PathsOnce, NamedLikeAFile
  <2>2. \A u \in Tasks : \A y : Owned(u, y) => Owned(u, y)'
    BY <1>1, <2>1 DEF Owned, NamedLikeAFile
  <2> QED
    BY <1>1, <1>2, <1>3, <2>1, <2>2 DEF PathInv
<1>4. CASE /\ t.name # "" /\ task'[t] = "done"
           /\ Adds({PodResourcePath(t.ns, t.name)})
  <2>7. PICK x : x = PodResourcePath(t.ns, t.name)
    OBVIOUS
  <2>8. \A y : InArchive(y)' <=> InArchive(y) \/ y = x
    BY <1>4, <2>7 DEF Adds
  <2>1. InArchive(x) => NamedLikeAFile(x)
    BY <1>1, <1>4, <2>7 DEF PathInv, Owned
  <2>2. PathsOnce'
    BY <1>4, <2>1, <2>7 DEF Adds, PathInv, PathsOnce, NamedLikeAFile
  <2>4. \A u \in Tasks : \A y : y # x /\ Owned(u, y) => Owned(u, y)'
    <3>1. ASSUME NEW u \in Tasks, task[u] = "done" PROVE task'[u] = "done"
      BY <1>1, <3>1
    <3> QED
      BY <2>8, <3>1 DEF Owned, NamedLikeAFile
  <2>3. ASSUME NEW u \in Tasks, u.name # "" PROVE Owned(u, PodResourcePath(u.ns, u.name))'
    <3>1. CASE u = t
      BY <1>4, <3>1 DEF Owned
    <3>2. CASE u # t
      <4>1. PodResourcePath(u.ns, u.name) # x
        BY <1>4, <2>3, <2>7, <3>2, ResourcePathsApart
      <4> QED
        BY <2>3, <2>4, <4>1 DEF PathInv
    <3> QED
      BY <3>1, <3>2
  <2>5. ASSUME NEW u \in Tasks, u.name = "", NEW s \in Secrets[u.ns]
        PROVE  Owned(u, NamespaceIndividualFilesPath(u.ns, s))'
    <3>1. CASE NamespaceIndividualFilesPath(u.ns, s) = x
      <4>1. u.ns \in Namespaces
        BY <2>5, SSLTasks
      <4>2. NamedLikeAFile(x)
        BY <1>4, <2>5, <2>7, <3>1, <4>1 DEF NamedLikeAFile
      <4> QED
        BY <3>1, <4>2 DEF Owned, NamedLikeAFile
    <3>2. CASE NamespaceIndividualFilesPath(u.ns, s) # x
      BY <2>4, <2>5, <3>2 DEF PathInv
    <3> QED
      BY <3>1, <3>2
  <2> QED
    BY <1>1, <1>2, <1>4, <2>2, <2>3, <2>5 DEF PathInv
<1>5. CASE /\ t.name = "" /\ task'[t] = "done"
           /\ \E S \in SUBSET Secrets[t.ns] :
                Adds({NamespaceIndividualFilesPath(t.ns, s) : s \in S})
  <2>1. PICK S \in SUBSET Secrets[t.ns] :
          Adds({NamespaceIndividualFilesPath(t.ns, s) : s \in S})
    BY <1>5
  <2>10. PICK X : X = {NamespaceIndividualFilesPath(t.ns, s) : s \in S}
    OBVIOUS
  <2>11. \A y : InArchive(y)' <=> InArchive(y) \/ y \in X
    BY <2>1, <2>10 DEF Adds
  <2>12. t.ns \in Namespaces
    BY <1>5, SSLTasks
  <2>2. \A x \in X : InArchive(x) => NamedLikeAFile(x)
    BY <1>1, <1>5, <2>10 DEF PathInv, Owned
  <2>3. PathsOnce'
    BY <2>1, <2>2, <2>10 DEF Adds, PathInv, PathsOnce, NamedLikeAFile
  <2>4. \A u \in Tasks : \A y : y \notin X /\ Owned(u, y) => Owned(u, y)'
    <3>1. ASSUME NEW u \in Tasks, task[u] = "done" PROVE task'[u] = "done"
      BY <1>1, <3>1
    <3> QED
      BY <2>11, <3>1 DEF Owned, NamedLikeAFile
  <2>5. ASSUME NEW u \in Tasks, u.name # "" PROVE Owned(u, PodResourcePath(u.ns, u.name))'
    <3>1. CASE PodResourcePath(u.ns, u.name) \in X
      <4>1. NamedLikeAFile(PodResourcePath(u.ns, u.name))
        BY <2>5, <2>10, <2>12, <3>1 DEF NamedLikeAFile
      <4> QED
        BY <4>1 DEF Owned, NamedLikeAFile
    <3>2. CASE PodResourcePath(u.ns, u.name) \notin X
      BY <2>4, <2>5, <3>2 DEF PathInv
    <3> QED
      BY <3>1, <3>2
  <2>6. ASSUME NEW u \in Tasks, u.name = "", NEW s \in Secrets[u.ns]
        PROVE  Owned(u, NamespaceIndividualFilesPath(u.ns, s))'
    <3>1. CASE u = t
      BY <1>5, <3>1 DEF Owned
    <3>2. CASE u # t
      <4>1. u.ns # t.ns
        BY <1>5, <2>6, <3>2, SSLTasks
      <4>2. NamespaceIndividualFilesPath(u.ns, s) \notin X
        BY <2>10, <4>1, CertificatePathsApart
      <4> QED
        BY <2>4, <2>6, <4>2 DEF PathInv
    <3> QED
      BY <3>1, <3>2
  <2>7. \A u \in Tasks : u.name = "" => \A s \in Secrets[u.ns] :
          Owned(u, NamespaceIndividualFilesPath(u.ns, s))'
    BY <2>6
  <2>8. /\ InArchive(DumperLogPath)' <=> InArchive(DumperLogPath)
        /\ \A p \in Pods : Waiting(p)' => (Unlogged(p) /\ Unvisited(p))'
        /\ \A w \in Workers : WorkerPaths(w)'
    BY <1>2, <2>1
  <2> QED
    BY <1>1, <2>3, <2>5, <2>7, <2>8 DEF PathInv
<1> QED
  BY <1>3, <1>4, <1>5, ExportAdds

LEMMA RemovedFrom ==
  ASSUME NEW s, s \in Seq(Range(s)), NEW i \in DOMAIN s
  PROVE  \A j \in DOMAIN RemoveAt(s, i) : \E k \in DOMAIN s : RemoveAt(s, i)[j] = s[k]
<1>1. PICK S : S = Range(s)
  OBVIOUS
<1>2. s \in Seq(S) /\ i \in 1..Len(s) /\ Len(s) \in Nat /\ DOMAIN s = 1..Len(s)
  BY <1>1
<1>3. SubSeq(s, 1, i - 1) \in Seq(S) /\ SubSeq(s, i + 1, Len(s)) \in Seq(S)
  BY <1>2
<1>4. RemoveAt(s, i) \in Seq(S)
  BY <1>3 DEF RemoveAt
<1>5. \A j \in DOMAIN RemoveAt(s, i) : RemoveAt(s, i)[j] \in S
  BY <1>4
<1> QED
  BY <1>1, <1>5 DEF Range

LEMMA FoundOperators ==
  ASSUME NEW lists, \A j \in DOMAIN lists : \E k \in DOMAIN Lists : lists[j] = Lists[k]
  PROVE  AutoCustomResource(lists) \subseteq Operators
<1>1. \A j \in DOMAIN lists : lists[j].operator # "" => lists[j].operator \in Operators
  BY DEF Operators
<1> QED
  BY <1>1 DEF AutoCustomResource, Operators

\* main writes nothing, and hands out no pod that somebody has.
LEMMA QuietPathInv ==
  ASSUME PathInv, UNCHANGED <<archive, again, job, left, types>>,
         \A w \in Workers : at'[w] = at[w] \/ at'[w] = "idle",
         \A p \in Pods : Waiting(p)' => Waiting(p),
         pc \in {"close", "exited"} => pc' \in {"close", "exited"},
         crTypes' \subseteq Operators,
         \A t \in Tasks : task[t] = "done" => task'[t] = "done"
  PROVE  PathInv'
<1>1. \A y : InArchive(y)' <=> InArchive(y)
  BY DEF InArchive
<1>2. /\ \A p, c : LogAt(p, c)' <=> LogAt(p, c)
      /\ \A p : SummaryAt(p)' <=> SummaryAt(p)
      /\ \A p, f : FileAt(p, f)' <=> FileAt(p, f)
  BY <1>1 DEF LogAt, SummaryAt, FileAt
<1>3. \A p : Unlogged(p)' = Unlogged(p) /\ Unvisited(p)' = Unvisited(p)
  BY <1>2, StaysUntouched
<1>4. /\ \A p \in Pods : Waiting(p)' => (Unlogged(p) /\ Unvisited(p))'
      /\ \A w \in Workers : WorkerPaths(w)'
  BY <1>2, <1>3, WorkersPathsStay
<1>5. \A t \in Tasks : \A y : Owned(t, y) => Owned(t, y)'
  BY <1>1 DEF Owned, NamedLikeAFile
<1>6. PathsOnce'
  BY DEF PathInv, PathsOnce, NamedLikeAFile
<1> QED
  BY <1>1, <1>4, <1>5, <1>6 DEF PathInv

LEMMA DumpPathInv ==
  ASSUME PathInv, DumpToArchive PROVE PathInv'
<1>1. /\ pc = "errors" /\ pc' = "close" /\ crTypes' \subseteq Operators
      /\ UNCHANGED <<task, queue, undispatched, at, job, left, types>>
  BY DEF DumpToArchive, Goto, PathInv
<1>2. PICK X : X \subseteq {DumperLogPath} /\ Adds(X)
  BY WrittenAdds, FailsAddNothing DEF DumpToArchive
<1>3. ~InArchive(DumperLogPath)
  BY <1>1 DEF PathInv
<1>4. PathsOnce'
  BY <1>2, <1>3 DEF Adds, PathInv, PathsOnce, NamedLikeAFile
<1>5. /\ \A ns, r : InArchive(PodResourcePath(ns, r))' <=> InArchive(PodResourcePath(ns, r))
      /\ \A ns, s : InArchive(NamespaceIndividualFilesPath(ns, s))'
                      <=> InArchive(NamespaceIndividualFilesPath(ns, s))
  <2>1. /\ \A ns, r : PodResourcePath(ns, r) \notin X
        /\ \A ns, s : NamespaceIndividualFilesPath(ns, s) \notin X
    BY <1>2, ErrorsPathApart
  <2> QED
    BY <1>2, <2>1 DEF Adds
<1>8. /\ \A t \in Tasks : t.name # "" => Owned(t, PodResourcePath(t.ns, t.name))'
      /\ \A t \in Tasks : t.name = "" =>
           \A s \in Secrets[t.ns] : Owned(t, NamespaceIndividualFilesPath(t.ns, s))'
  BY <1>1, <1>5 DEF PathInv, Owned, NamedLikeAFile
<1>6. \A p \in Pods : Waiting(p)' => Waiting(p)
  BY <1>1 DEF Waiting, Early
<1>7. /\ \A p \in Pods : Waiting(p)' => (Unlogged(p) /\ Unvisited(p))'
      /\ \A w \in Workers : WorkerPaths(w)'
  BY <1>1, <1>2, <1>6, PodsPathsStay, WorkersPathsStay
<1> QED
  BY <1>1, <1>4, <1>7, <1>8 DEF PathInv

LEMMA MainPathInv ==
  ASSUME MainInv, TaskInv, SpawnInv, PathInv, DumpCluster \/ Fails
  PROVE  PathInv'
<1> USE DEF Goto, Return
<1> DEFINE Quiet ==
      /\ UNCHANGED <<archive, again, job, left, types>>
      /\ \A w \in Workers : at'[w] = at[w] \/ at'[w] = "idle"
      /\ \A p \in Pods : Waiting(p)' => Waiting(p)
      /\ pc \in {"close", "exited"} => pc' \in {"close", "exited"}
<1>1. CASE Quiet /\ UNCHANGED <<crTypes, task>>
  BY <1>1, QuietPathInv DEF PathInv
<1>2. CASE New
  <2>1. Quiet /\ UNCHANGED task
    BY <1>2 DEF New, Waiting, Early
  <2>2. crTypes' \subseteq Operators
    <3>1. AutoCustomResource(Lists) \subseteq Operators
      BY FoundOperators
    <3>2. \A i \in DOMAIN Lists : AutoCustomResource(RemoveAt(Lists, i)) \subseteq Operators
      <4> SUFFICES ASSUME NEW i \in DOMAIN Lists
                   PROVE  AutoCustomResource(RemoveAt(Lists, i)) \subseteq Operators
        OBVIOUS
      <4>1. Lists \in Seq(Range(Lists))
        BY NamesAssumption
      <4>2. \A j \in DOMAIN RemoveAt(Lists, i) :
              \E k \in DOMAIN Lists : RemoveAt(Lists, i)[j] = Lists[k]
        BY <4>1, RemovedFrom
      <4> QED
        BY <4>2, FoundOperators
    <3> QED
      BY <1>2, <3>1, <3>2 DEF New
  <2> QED
    BY <2>1, <2>2, QuietPathInv
<1>3. CASE DiscoverAndSpawn \/ ListNamespaces
  <2>1. Quiet /\ UNCHANGED crTypes
    BY <1>3 DEF DiscoverAndSpawn, ListNamespaces, Waiting, Early
  <2>2. CASE DiscoverAndSpawn
    <3>1. \A t \in Tasks : task[t] = "none"
      BY <2>2 DEF DiscoverAndSpawn, SpawnInv
    <3> QED
      BY <2>1, <3>1, QuietPathInv DEF PathInv
  <2>3. CASE ListNamespaces
    <3>1. pc = "namespaces" /\ Spawn(NamespaceTasks)
      BY <2>3 DEF ListNamespaces
    <3>2. \A t \in NamespaceTasks : t.ns # ""
      BY TaskNamespaces, ClusterAssumption
    <3>3. \A t \in Tasks : task[t] = "done" => task'[t] = "done"
      BY <3>1, <3>2 DEF Spawn, SpawnInv
    <3> QED
      BY <2>1, <3>3, QuietPathInv DEF PathInv
  <2> QED
    BY <1>3, <2>2, <2>3
<1>4. CASE Fails
  BY <1>1, <1>4 DEF Fails, Refused, DiscoverFails, NamespacesFail, ListFails, Waiting, Early
<1>5. CASE OpenArchive \/ ExportDone \/ WaitWorkers \/ CloseArchive
  BY <1>1, <1>5 DEF OpenArchive, ExportDone, WaitWorkers, CloseArchive, Waiting, Early
<1>6. CASE StartWorkers
  BY <1>1, <1>6 DEF StartWorkers, Waiting, Early
<1>7. CASE ListPods
  BY <1>1, <1>7 DEF ListPods, Waiting, Early
<1>8. CASE Dispatch
  <2>1. PICK p \in undispatched : undispatched' = undispatched \ {p} /\ queue' = Append(queue, p)
    BY <1>8 DEF Dispatch
  <2>2. Range(queue') = Range(queue) \cup {p}
    BY <2>1, AppendRange DEF MainInv
  <2>3. \A q \in Pods : Waiting(q)' => Waiting(q)
    BY <1>8, <2>1, <2>2 DEF Dispatch, Waiting
  <2> QED
    BY <1>1, <1>8, <2>3 DEF Dispatch
<1>9. CASE CloseJobs
  BY <1>1, <1>9 DEF CloseJobs, Waiting, Early
<1> QED
  BY <1>2, <1>3, <1>4, <1>5, <1>6, <1>7, <1>8, <1>9, DumpPathInv DEF DumpCluster

LEMMA PathInvInit == Init => PathInv /\ SpawnInv /\ Redacted
<1> SUFFICES ASSUME Init PROVE PathInv /\ SpawnInv /\ Redacted
  OBVIOUS
<1>1. archive = {} /\ again = {} /\ crTypes = {}
  BY DEF Init
<1>2. \A w \in Workers : at[w] = "none"
  BY DEF Init
<1>3. \A y : ~InArchive(y)
  BY <1>1 DEF InArchive
<1>4. PathInv
  BY <1>1, <1>2, <1>3 DEF PathInv, WorkerPaths, Unlogged, Unvisited, LogAt, SummaryAt, FileAt,
     PathsOnce, Owned
<1>5. task = [t \in Tasks |-> "none"]
  BY DEF Init
<1>6. SpawnInv
  BY <1>5 DEF SpawnInv
<1> QED
  BY <1>1, <1>4, <1>6 DEF Redacted

LEMMA PathStep ==
  MainInv /\ TaskInv /\ WorkerInv /\ OneWorkerInv /\ SpawnInv /\ PathInv /\ [Next]_vars
    => PathInv'
<1> SUFFICES ASSUME MainInv, TaskInv, WorkerInv, OneWorkerInv, SpawnInv, PathInv, [Next]_vars
             PROVE  PathInv'
  OBVIOUS
<1>1. CASE UNCHANGED vars
  BY <1>1, QuietPathInv DEF vars, PathInv, Waiting
<1> QED
  BY <1>1, WorkerPathInv, ExportPathInv, MainPathInv DEF Next, Runs
-----------------------------------------------------------------------------
(* What is in the entries.                                                  *)

Sound(e) ==
  /\ \A o \in e.objects : \A spec \in {o.own, o.template} :
       Mountable(spec) /\ \A v \in spec.volumes : ~HasPgbouncerSecretRef(v)
  /\ e.what = "objects" => \A ns \in Namespaces : e.path # PodResourcePath(ns, "secrets")

LEMMA RedactedSpec ==
  ASSUME NEW spec, Mountable(spec)
  PROVE  /\ Mountable(RedactPodSpec(spec))
         /\ \A v \in RedactPodSpec(spec).volumes : ~HasPgbouncerSecretRef(v)
<1> DEFINE gone == {v.name : v \in {w \in spec.volumes : HasPgbouncerSecretRef(w)}}
<1>1. /\ RedactPodSpec(spec).volumes = {v \in spec.volumes : ~HasPgbouncerSecretRef(v)}
      /\ RedactPodSpec(spec).mounts = {m \in spec.mounts : m.volume \notin gone}
  BY DEF RedactPodSpec
<1>2. \A v \in spec.volumes : HasPgbouncerSecretRef(v) => v.name \in gone
  OBVIOUS
<1> HIDE DEF gone
<1> QED
  BY <1>1, <1>2 DEF Mountable

\* A resource of the cluster or of a namespace, and not the secrets of one.
LEMMA NoSecretsTask ==
  ASSUME NEW t \in Tasks, t.name # "", NEW ns \in Namespaces
  PROVE  PodResourcePath(t.ns, t.name) # PodResourcePath(ns, "secrets")
<1>1. \A n, r : Task(n, r).ns = n /\ Task(n, r).name = r.name /\ SSLTask(n).name = ""
  BY DEF Task, SSLTask
<1>2. t.ns = "" \/ t.name # "secrets"
  <2>1. CASE \E r \in Discovered : t = Task("", r)
    BY <1>1, <2>1
  <2>2. CASE \E n \in Namespaces : \E r \in Discovered : r.name # "secrets" /\ t = Task(n, r)
    BY <1>1, <2>2
  <2>3. CASE \E n \in Namespaces : t = SSLTask(n)
    BY <1>1, <2>3
  <2> QED
    BY <2>1, <2>2, <2>3, TaskCases
<1>3. ns # "" /\ ns # "cluster-scope"
  BY ClusterAssumption, NamesAssumption
<1>4. t.name # "secrets" => YamlOf[t.name] # YamlOf["secrets"]
  <2>1. t.name \in ResourceNames
    BY TaskNames
  <2>2. "secrets" \in ResourceNames
    BY DEF ResourceNames
  <2> QED
    BY <2>1, <2>2, NamesAssumption
<1> QED
  BY <1>2, <1>3, <1>4 DEF PodResourcePath

LEMMA ObjectsSound ==
  ASSUME NEW t \in Tasks, t.name # ""
  PROVE  Sound(Entry(PodResourcePath(t.ns, t.name), "objects",
                     {RedactPgbouncerVolumeRefs(o) : o \in Objects[t.name]}))
<1> DEFINE os == {RedactPgbouncerVolumeRefs(o) : o \in Objects[t.name]}
           e == Entry(PodResourcePath(t.ns, t.name), "objects", os)
<1>1. e.path = PodResourcePath(t.ns, t.name) /\ e.objects = os
  BY DEF Entry
<1>2. ASSUME NEW o \in Objects[t.name], NEW s \in {RedactPodSpec(o.own), RedactPodSpec(o.template)}
      PROVE  Mountable(s) /\ \A v \in s.volumes : ~HasPgbouncerSecretRef(v)
  <2>1. Mountable(o.own) /\ Mountable(o.template)
    BY ObjectsAssumption
  <2> QED
    BY <1>2, <2>1, RedactedSpec
<1>3. \A x \in os : \E o \in Objects[t.name] :
        x.own = RedactPodSpec(o.own) /\ x.template = RedactPodSpec(o.template)
  <2>1. \A o : LET x == RedactPgbouncerVolumeRefs(o)
              IN  x.own = RedactPodSpec(o.own) /\ x.template = RedactPodSpec(o.template)
    BY DEF RedactPgbouncerVolumeRefs
  <2> QED
    BY <2>1
<1> HIDE DEF os, e
<1>4. \A x \in e.objects : \A s \in {x.own, x.template} :
        Mountable(s) /\ \A v \in s.volumes : ~HasPgbouncerSecretRef(v)
  BY <1>1, <1>2, <1>3
<1>5. \A ns \in Namespaces : e.path # PodResourcePath(ns, "secrets")
  BY <1>1, NoSecretsTask
<1>6. Sound(e)
  BY <1>4, <1>5 DEF Sound
<1> QED
  BY <1>6 DEF e, os

LEMMA WrittenSound ==
  ASSUME Redacted, NEW x, NEW what, NEW os, Sound(Entry(x, what, os)),
         Written({Entry(x, what, os)})
  PROVE  Redacted'
BY WrittenGrows DEF Redacted, Sound

LEMMA PlainSound ==
  ASSUME NEW x, NEW what,
         what # "objects" \/ \A ns \in Namespaces : x # PodResourcePath(ns, "secrets")
  PROVE  Sound(Entry(x, what, {}))
BY DEF Sound, Entry

LEMMA StaysRedacted == ASSUME Redacted, UNCHANGED archive PROVE Redacted'
BY DEF Redacted

LEMMA WorkerRedacted ==
  ASSUME Redacted, NEW w \in Workers, Worker(w) PROVE Redacted'
<1> DEFINE W(x) == \E what : Written({Entry(x, what, {})})
<1>1. ASSUME NEW x, W(x), \A ns : x # PodResourcePath(ns, "secrets") PROVE Redacted'
  BY <1>1, PlainSound, WrittenSound
<1>2. \A p, c : W(PodLogPath(PodOf[p].ns, p, c)) => Redacted'
  BY <1>1, ResourcePathApart
<1>3. \A p : W(PodSummaryPath(PodOf[p].ns, p)) => Redacted'
  BY <1>1, ResourcePathApart
<1>4. \A p, f : W(PodIndividualFilesPath(PodOf[p].ns, p, f)) => Redacted'
  BY <1>1, ResourcePathApart
<1>5. CASE UNCHANGED archive
  BY <1>5, StaysRedacted
<1>6. CASE Take(w) \/ Leave(w) \/ TypesDone(w) \/ FilesDone(w) \/ LogsDone(w) \/ NextType(w)
  BY <1>5, <1>6 DEF Take, Leave, TypesDone, FilesDone, LogsDone, NextType
<1>7. CASE ExportContainerLogs(w)
  BY <1>2, <1>7 DEF ExportContainerLogs
<1>8. CASE ProcessSingleFile(w)
  BY <1>4, <1>8 DEF ProcessSingleFile
<1>9. CASE ContainerLogsFail(w) \/ NoSpaceLeft(w) \/ FileFails(w)
  BY <1>5, <1>9 DEF ContainerLogsFail, NoSpaceLeft, FileFails, NoWrite, WriteFails
<1>10. CASE Summary(w)
  <2>1. CASE GetSecret(w) \/ StorePort(w) \/ PortForwardPod(w) \/ AlreadyForwarded(w)
    BY <1>5, <2>1 DEF GetSecret, StorePort, PortForwardPod, AlreadyForwarded
  <2>2. WriteFails => Redacted'
    BY <1>5 DEF WriteFails
  <2>3. SummaryError(w) => Redacted'
    BY <1>3, <2>2 DEF SummaryError, SummaryPath
  <2>4. CASE LocalPortInUse(w) \/ SummaryFails(w) \/ NoSummary(w)
    BY <2>3, <2>4 DEF LocalPortInUse, SummaryFails, NoSummary
  <2>5. CASE GotSummary(w)
    BY <1>3, <2>2, <2>5 DEF GotSummary, SummaryPath
  <2> QED
    BY <1>10, <2>1, <2>4, <2>5 DEF Summary
<1> QED
  BY <1>6, <1>7, <1>8, <1>9, <1>10 DEF Worker

LEMMA ExportRedacted ==
  ASSUME Redacted, NEW t \in Tasks, Export(t) PROVE Redacted'
<1>1. CASE UNCHANGED archive
  BY <1>1, StaysRedacted
<1>2. CASE ExportGeneric(t)
  BY <1>1, <1>2, ObjectsSound, WrittenSound DEF ExportGeneric, NoWrite, WriteFails
<1>3. CASE DumpSSLInfo(t)
  <2>1. ASSUME NEW S,
               Put({Entry(NamespaceIndividualFilesPath(t.ns, s), "certificate", {}) : s \in S})
        PROVE  Redacted'
    <3> DEFINE cert(s) == Entry(NamespaceIndividualFilesPath(t.ns, s), "certificate", {})
    <3>1. \A s : Sound(cert(s))
      BY PlainSound
    <3>2. archive' = archive \cup {cert(s) : s \in S}
      BY <2>1, PutGrows
    <3> HIDE DEF cert
    <3> QED
      BY <3>1, <3>2 DEF Redacted, Sound
  <2> QED
    BY <1>1, <1>3, <2>1 DEF DumpSSLInfo, NoWrite
<1> QED
  BY <1>1, <1>2, <1>3 DEF Export, Acquire, AcquireFails, NoWrite

LEMMA RedactStep == Redacted /\ [Next]_vars => Redacted'
<1> SUFFICES ASSUME Redacted, [Next]_vars PROVE Redacted'
  OBVIOUS
<1>1. CASE DumpToArchive
  <2>1. \A ns : DumperLogPath # PodResourcePath(ns, "secrets")
    BY ErrorsPathApart
  <2> QED
    BY <1>1, <2>1, PlainSound, WrittenSound, StaysRedacted DEF DumpToArchive, WriteFails
<1>2. CASE (DumpCluster /\ ~DumpToArchive) \/ Fails \/ UNCHANGED vars
  <2>1. UNCHANGED archive
    BY <1>2 DEF DumpCluster, New, OpenArchive, DiscoverAndSpawn, ListNamespaces, ExportDone,
       StartWorkers, ListPods, Dispatch, CloseJobs, WaitWorkers, CloseArchive, Fails, Refused,
       DiscoverFails, NamespacesFail, ListFails, vars
  <2> QED
    BY <2>1, StaysRedacted
<1> QED
  BY <1>1, <1>2, WorkerRedacted, ExportRedacted DEF Next, Runs

\* Whoever works on what, a path of the archive is written twice only if a secret is
\* named like a resource's file; an exported object mounts only volumes it has, none
\* of which refers to a secret of pgbouncer; and no secrets are exported.
THEOREM OnceAndRedactedTheorem == Spec => []OnceAndRedacted
<1> DEFINE Inv == /\ MainInv /\ TaskInv /\ WorkerInv
                  /\ OneWorkerInv /\ SpawnInv /\ PathInv /\ Redacted
<1>1. Inv /\ [Next]_vars => Inv'
  BY MainStep, TaskStep, WorkerStepInv, OneWorkerStep, SpawnStep, PathStep, RedactStep
<1>2. Init => Inv
  BY MainInit, TaskInit, WorkerInit, OneWorkerInit, PathInvInit
<1>3. Inv => OnceAndRedacted
  BY DEF PathInv, OnceAndRedacted
<1> QED
  BY <1>1, <1>2, <1>3, PTL DEF Spec
=============================================================================
