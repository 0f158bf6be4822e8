---------------------------- MODULE K8sCollector ----------------------------
(***************************************************************************)
(* src/go/pt-k8s-debug-collector: main exports the API resources with one  *)
(* goroutine each, held back by two semaphores, then hands the pods one by *)
(* one to a pool of workers over a buffered channel.  A worker exports the *)
(* pod's logs, takes a summary of its database through a port it forwards  *)
(* to the pod, and copies files out of it.  Everything is written to one   *)
(* tar archive under a lock, so a write is one step.                       *)
(*                                                                         *)
(* The API server, the pods and the disk may fail any step; MaxFailures    *)
(* bounds how often they do.  "full" and "short" say that the archive      *)
(* takes nothing more: the disk is full (the writers keep that error), or  *)
(* an entry is shorter than its header says (the tar writer then refuses   *)
(* the next header).                                                       *)
(***************************************************************************)
EXTENDS K8sResources, SequencesExt, FiniteSetsExt, Functions, TLC

CONSTANTS Lists,          \* the API resource lists of the cluster
          Namespaces,     \* its namespaces
          Objects,        \* resource name -> what a list of it returns
          Secrets,        \* namespace -> its secrets that hold certificates
          Pods, PodOf,    \* pods; pod -> [ns, labels, init, containers, running]
          Files,          \* the files to copy from a pxc pod
          Only,           \* --namespace, "" for all
          Resource,       \* --resource
          ForwardPort,    \* --forwardport, 0 if not given
          SkipPodSummary, \* --skip-pod-summary
          Workers,        \* concurrent-export-workers of them
          JobsCap,        \* the capacity of jobsChannel
          MaxFailures     \* bound: failures

\* exportPodLogs: InitContainers, then Containers.
AllContainers(p) == PodOf[p].init \o PodOf[p].containers

ASSUME BoundsAssumption == JobsCap \in Nat \ {0} /\ MaxFailures \in Nat
ASSUME ClusterAssumption ==
  /\ "" \notin Namespaces /\ Only \in Namespaces \cup {""}
  /\ IsFiniteSet(Workers) /\ Workers # {}   \* New: 16 of them for 0 or less
  /\ \A p \in Pods : LET cs == AllContainers(p) IN
       PodOf[p].ns \in Namespaces /\ cs \in Seq(Range(cs)) /\ IsInjective(cs)

VARIABLES
  pc, exit,                     \* DumpCluster; the exit code
  crTypes,                      \* Dumper.crTypes
  task,                         \* export's goroutines
  cancelled, queue, closed,     \* the context; jobsChannel
  undispatched,                 \* the pods main has not sent yet
  at, job, left, types, type,   \* the workers: where, on what, what is left of it
  used, forwards,               \* usedPorts; port -> the worker whose forwarder listens
  archive, again, tar,          \* what was written, what twice; can it be written to
  errors,                       \* what was logged as an error
  failures

worker == <<at, job, left, types, type>>
ports  == <<used, forwards>>
output == <<archive, again, tar, errors>>
jobs   == <<cancelled, queue, closed, undispatched>>
vars   == <<pc, exit, crTypes, task, jobs, worker, ports, output, failures>>

Goto(from, to) == pc = from /\ pc' = to /\ UNCHANGED exit

MayFail == failures < MaxFailures /\ failures' = failures + 1

\* With the context cancelled a call to the API server fails by itself.
CallFails ==
  \/ MayFail
  \/ cancelled /\ UNCHANGED failures

LogError(e) == errors' = errors \cup {e}
-----------------------------------------------------------------------------
(* tarWriter.                                                               *)

Entry(path, what, objects) == [path |-> path, what |-> what, objects |-> objects]

Put(entries) ==
  /\ archive' = archive \cup entries
  /\ again' = again \cup {e.path : e \in {f \in entries : \E g \in archive : g.path = f.path}}

\* Whether a write succeeds is up to the disk; once it failed none does.
Written(entries) == tar = "ok" /\ Put(entries) /\ UNCHANGED tar

WriteFails ==
  /\ UNCHANGED <<archive, again>>
  /\ tar' = IF tar = "ok" THEN "full" ELSE tar

NoWrite == UNCHANGED <<archive, again, tar>>
-----------------------------------------------------------------------------
(* New and the start of DumpCluster.                                        *)

\* New: unless --resource is none the types are those the cluster has, whatever
\* was asked for; a group that cannot be read is passed over.
New ==
  /\ Goto("new", "open")
  /\ \/ Resource \in {"none", ""} /\ crTypes' = {} /\ UNCHANGED failures
     \/ Resource \notin {"none", ""} /\ crTypes' = AutoCustomResource(Lists)
        /\ UNCHANGED failures
     \/ /\ Resource \notin {"none", ""} /\ MayFail
        /\ \E i \in DOMAIN Lists : crTypes' = AutoCustomResource(RemoveAt(Lists, i))
  /\ UNCHANGED <<task, jobs, worker, ports, output>>

\* buildRestConfig, the clients or autoCustomResource fail, or the archive cannot
\* be created: nothing was collected.
Refused ==
  /\ pc \in {"new", "open"} /\ pc' = "exited" /\ exit' = 1 /\ MayFail
  /\ UNCHANGED <<crTypes, task, jobs, worker, ports, output>>

OpenArchive ==
  /\ Goto("open", "discover")
  /\ UNCHANGED <<crTypes, task, jobs, worker, ports, output, failures>>

\* An error of DumpCluster: only the deferred calls are left.
Return(from, code) == pc = from /\ pc' = "errors" /\ exit' = code
-----------------------------------------------------------------------------
(* export.                                                                  *)

Discovered == DiscoverResources(Lists)

Task(ns, r) == [ns |-> ns, name |-> r.name, group |-> r.group]

\* dumpSSLInfo's goroutine of a namespace.
SSLTask(ns) == [ns |-> ns, name |-> "", group |-> ""]

ClusterTasks == {Task("", r) : r \in {x \in Discovered : ~x.namespaced}}

\* Of the namespace asked for, or of all; secrets are not collected.
NamespaceTasks ==
  UNION {{SSLTask(ns)} \cup
         {Task(ns, r) : r \in {x \in Discovered : x.namespaced /\ x.name # "secrets"}} :
           ns \in {n \in Namespaces : Only \in {"", n}}}

Tasks == ClusterTasks \cup NamespaceTasks

\* What autoCustomResource may find.
Operators == ({Lists[i].operator : i \in DOMAIN Lists} \ {""}) \cup {"none"}

ResourceNames ==
  {"secrets"} \cup UNION {{r.name : r \in Lists[i].resources} : i \in DOMAIN Lists}

\* What the paths of the archive rely on: no namespace has the name of the directory
\* of the resources without one, and a pod belongs to one operator.  The API server
\* admits no object that mounts a volume it has not.
ASSUME NamesAssumption ==
  /\ "cluster-scope" \notin Namespaces
  /\ Lists \in Seq(Range(Lists))
  /\ \A i \in DOMAIN Lists : \A r \in Lists[i].resources : r.name # ""
  /\ \A a, b \in ResourceNames : YamlOf[a] = YamlOf[b] => a = b
  /\ \A p \in Pods : \A s, t \in Operators :
       MatchesCR(ResourceType(s), PodOf[p].labels) /\ MatchesCR(ResourceType(t), PodOf[p].labels)
         => s = t
  /\ Files \in Seq(Range(Files)) /\ IsInjective(Files)
ASSUME ObjectsAssumption ==
  \A t \in Tasks : t.name # "" =>
    \A o \in Objects[t.name] : Mountable(o.own) /\ Mountable(o.template)

Spawn(T) == task' = [t \in Tasks |-> IF t \in T THEN "spawned" ELSE task[t]]

DiscoverAndSpawn ==
  /\ Goto("discover", "namespaces") /\ Spawn(ClusterTasks)
  /\ UNCHANGED <<crTypes, jobs, worker, ports, output, failures>>

\* ServerPreferredResources is all or nothing here.
DiscoverFails ==
  /\ Return("discover", 1) /\ MayFail
  /\ UNCHANGED <<crTypes, task, jobs, worker, ports, output>>

ListNamespaces ==
  /\ Goto("namespaces", "export") /\ Spawn(NamespaceTasks)
  /\ UNCHANGED <<crTypes, jobs, worker, ports, output, failures>>

\* The goroutines of the cluster's resources go on while main returns.
NamespacesFail ==
  /\ Return("namespaces", 1) /\ MayFail
  /\ UNCHANGED <<crTypes, task, jobs, worker, ports, output>>

\* wg.Wait().
ExportDone ==
  /\ Goto("export", "workers") /\ \A t \in Tasks : task[t] = "done"
  /\ UNCHANGED <<crTypes, task, jobs, worker, ports, output, failures>>

\* Mutant: none for two workers.
PermitsMutant == (Cardinality(Workers) - 1) \div 2

\* concurrentExportWorkersCluster and concurrentExportWorkersNamespace.
Permits == Cardinality(Workers) \div 2

Running(T) == Cardinality({t \in T : task[t] = "running"})

Acquire(t) ==
  /\ pc # "exited" /\ task[t] = "spawned"
  /\ Running(IF t \in ClusterTasks THEN ClusterTasks ELSE NamespaceTasks) < Permits
  /\ task' = [task EXCEPT ![t] = "running"]
  /\ UNCHANGED <<pc, exit, crTypes, jobs, worker, ports, output, failures>>

\* The context ended first: DumpCluster returned, with an error.
AcquireFails(t) ==
  /\ pc # "exited" /\ task[t] = "spawned" /\ cancelled
  /\ task' = [task EXCEPT ![t] = "done"]
  /\ IF t.name = "" THEN UNCHANGED errors ELSE LogError(<<"export", t.ns, t.name>>)
  /\ NoWrite
  /\ UNCHANGED <<pc, exit, crTypes, jobs, worker, ports, failures>>

\* exportGeneric: list, redact and write; a failed write is not looked at.
ExportGeneric(t) ==
  /\ pc # "exited" /\ task[t] = "running" /\ t.name # ""
  /\ \/ NoWrite /\ CallFails /\ LogError(<<"export", t.ns, t.name>>)
     \/ Objects[t.name] = {} /\ NoWrite /\ UNCHANGED <<errors, failures>>
     \/ /\ Objects[t.name] # {} /\ UNCHANGED <<errors, failures>>
        /\ \/ Written({Entry(PodResourcePath(t.ns, t.name), "objects",
                             {RedactPgbouncerVolumeRefs(o) : o \in Objects[t.name]})})
           \/ WriteFails
  /\ task' = [task EXCEPT ![t] = "done"]
  /\ UNCHANGED <<pc, exit, crTypes, jobs, worker, ports>>

\* dumpSSLInfo: the first failed write ends it; its errors are logged as information.
DumpSSLInfo(t) ==
  /\ pc # "exited" /\ task[t] = "running" /\ t.name = ""
  /\ \/ NoWrite /\ CallFails
     \/ tar # "ok" /\ NoWrite /\ UNCHANGED failures
     \/ /\ tar = "ok" /\ UNCHANGED failures
        /\ \E S \in SUBSET Secrets[t.ns] :
             /\ Put({Entry(NamespaceIndividualFilesPath(t.ns, s), "certificate", {}) : s \in S})
             /\ tar' = IF S = Secrets[t.ns] THEN "ok" ELSE "full"
  /\ task' = [task EXCEPT ![t] = "done"]
  /\ UNCHANGED <<pc, exit, crTypes, jobs, worker, ports, errors>>
-----------------------------------------------------------------------------
(* DumpCluster, once the resources are exported.                            *)

StartWorkers ==
  /\ Goto("workers", "sync") /\ at' = [w \in Workers |-> "idle"]
  /\ UNCHANGED <<crTypes, task, jobs, job, left, types, type, ports, output, failures>>

\* WaitForCacheSync and List; they may fail.
ListPods ==
  /\ Goto("sync", "dispatch") /\ undispatched' = Pods
  /\ UNCHANGED <<crTypes, task, cancelled, queue, closed, worker, ports, output, failures>>

ListFails ==
  /\ Return("sync", 1) /\ MayFail
  /\ UNCHANGED <<crTypes, task, jobs, worker, ports, output>>

\* jobsChannel <- exportJob, in the order the lister has them.
Dispatch ==
  /\ pc = "dispatch" /\ Len(queue) < JobsCap
  /\ \E p \in undispatched :
       undispatched' = undispatched \ {p} /\ queue' = Append(queue, p)
  /\ UNCHANGED <<pc, exit, crTypes, task, cancelled, closed, worker, ports, output, failures>>

CloseJobs ==
  /\ Goto("dispatch", "wait") /\ undispatched = {}
  /\ closed' = TRUE
  /\ UNCHANGED <<crTypes, task, cancelled, queue, undispatched, worker, ports, output,
                 failures>>

WaitWorkers ==
  /\ Return("wait", 0) /\ \A w \in Workers : at[w] = "gone"
  /\ UNCHANGED <<crTypes, task, jobs, worker, ports, output, failures>>

\* The deferred calls: DumpToArchive, whose error nobody sees, cancel and Close.
DumpToArchive ==
  /\ Goto("errors", "close")
  /\ Written({Entry(DumperLogPath, "errors", {})}) \/ WriteFails
  /\ cancelled' = TRUE
  /\ UNCHANGED <<crTypes, task, queue, closed, undispatched, worker, ports, errors, failures>>

CloseArchive ==
  /\ Goto("close", "exited")
  /\ UNCHANGED <<crTypes, task, jobs, worker, ports, output, failures>>
-----------------------------------------------------------------------------
(* resilientWorker.                                                         *)

Go(w, from, to) == pc # "exited" /\ at[w] = from /\ at' = [at EXCEPT ![w] = to]

\* Mutant: the job stays in the channel.
ReceiveJobMutant == queue' \in {queue}

ReceiveJob == queue' = Tail(queue)

Take(w) ==
  /\ Go(w, "idle", "logs") /\ queue # <<>>
  /\ ReceiveJob
  /\ job' = [job EXCEPT ![w] = Head(queue)]
  /\ left' = [left EXCEPT ![w] = AllContainers(Head(queue))]
  /\ UNCHANGED <<pc, exit, crTypes, task, cancelled, closed, undispatched, types, type,
                 ports, output, failures>>

\* Mutant: a closed channel is left with jobs in it.
LeaveMutant(w) ==
  /\ Go(w, "idle", "gone")
  /\ cancelled \/ closed
  /\ UNCHANGED <<pc, exit, crTypes, task, jobs, job, left, types, type, ports, output,
                 failures>>

Leave(w) ==
  /\ Go(w, "idle", "gone")
  /\ cancelled \/ (closed /\ queue = <<>>)
  /\ UNCHANGED <<pc, exit, crTypes, task, jobs, job, left, types, type, ports, output,
                 failures>>

\* What is exported besides a pod's logs, if it is running.
AfterLogs(w) ==
  LET pod == PodOf[job[w]] IN
  /\ Go(w, "logs", "types")
  /\ types' = [types EXCEPT ![w] =
       IF pod.running THEN {t \in crTypes : MatchesCR(ResourceType(t), pod.labels)} ELSE {}]
  /\ left' = [left EXCEPT ![w] = <<>>]
  /\ UNCHANGED <<job, type>>

\* exportContainerLogs: the log is copied to a temporary file first.
ExportContainerLogs(w) ==
  /\ Go(w, "logs", "logs") /\ left[w] # <<>>
  /\ Written({Entry(PodLogPath(PodOf[job[w]].ns, job[w], Head(left[w])), "log", {})})
  /\ left' = [left EXCEPT ![w] = Tail(@)]
  /\ UNCHANGED <<pc, exit, crTypes, task, jobs, job, types, type, ports, errors, failures>>

\* A container's log fails: those after it are not tried.
ContainerLogsFail(w) ==
  /\ left[w] # <<>> /\ AfterLogs(w)
  /\ \/ NoWrite /\ CallFails
     \/ tar = "short" /\ NoWrite /\ UNCHANGED failures
  /\ LogError(<<"logs", job[w]>>)
  /\ UNCHANGED <<pc, exit, crTypes, task, jobs, ports>>

\* No space left on device, for the temporary file or the archive.
NoSpaceLeft(w) ==
  /\ Go(w, "logs", "gone") /\ left[w] # <<>>
  /\ \/ NoWrite /\ MayFail
     \/ tar # "short" /\ WriteFails /\ UNCHANGED failures
  /\ cancelled' = TRUE
  /\ UNCHANGED <<pc, exit, crTypes, task, queue, closed, undispatched, job, left, types,
                 type, ports, errors>>

LogsDone(w) ==
  /\ left[w] = <<>> /\ AfterLogs(w)
  /\ UNCHANGED <<pc, exit, crTypes, task, jobs, ports, output, failures>>

\* exportPodSummaryAndFiles: the next of the pod's types.
NextType(w) ==
  /\ \E t \in types[w] :
       /\ Go(w, "types", IF SkipPodSummary THEN "files"
                         ELSE IF RemotePort(ResourceType(t)) = 0 THEN "run" ELSE "secret")
       /\ types' = [types EXCEPT ![w] = @ \ {t}]
       /\ type' = [type EXCEPT ![w] = ResourceType(t)]
       /\ left' = [left EXCEPT ![w] =
            IF FilesContainer(ResourceType(t)) \in Range(PodOf[job[w]].containers)
            THEN Files ELSE <<>>]
  /\ UNCHANGED <<pc, exit, crTypes, task, jobs, job, ports, output, failures>>

TypesDone(w) ==
  /\ Go(w, "types", "idle") /\ types[w] = {}
  /\ job' = [job EXCEPT ![w] = ""] /\ type' = [type EXCEPT ![w] = ""]
  /\ UNCHANGED <<pc, exit, crTypes, task, jobs, left, types, ports, output, failures>>
-----------------------------------------------------------------------------
(* getPodSummary.                                                           *)

SummaryPath(w) == PodSummaryPath(PodOf[job[w]].ns, job[w])

\* The error is logged, and written where the summary would be.
SummaryError(w) ==
  /\ LogError(<<"summary", job[w]>>)
  /\ Written({Entry(SummaryPath(w), "error", {})}) \/ WriteFails

\* getSecretValueFromPod.
GetSecret(w) ==
  /\ Go(w, "secret", "forward")
  /\ UNCHANGED <<pc, exit, crTypes, task, jobs, job, left, types, type, ports, output,
                 failures>>

LocalPorts == {3306, 27017, ForwardPort}

LocalPort(t) == IF ForwardPort # 0 THEN ForwardPort ELSE RemotePort(t)

UsePort(w) == used' = (LocalPort(type[w]) :> RemotePort(type[w])) @@ used

\* portForwardPod: usedPorts.LoadOrStore finds the port free and takes it.
StorePort(w) ==
  /\ Go(w, "forward", "dial") /\ LocalPort(type[w]) \notin DOMAIN used /\ UsePort(w)
  /\ UNCHANGED <<forwards, pc, exit, crTypes, task, jobs, job, left, types, type, output,
                 failures>>

\* The forwarder is ready.
PortForwardPod(w) ==
  /\ Go(w, "dial", "run")
  /\ forwards' = [forwards EXCEPT ![LocalPort(type[w])] = w]
  /\ UNCHANGED <<pc, exit, crTypes, task, jobs, job, left, types, type, used, output,
                 failures>>

\* ERR_PORT_ALREADY_FORWARDED, which getPodSummary ignores.
AlreadyForwarded(w) ==
  LET port == LocalPort(type[w]) IN
  /\ Go(w, "forward", "run") /\ port \in DOMAIN used /\ used[port] = RemotePort(type[w])
  /\ UNCHANGED <<pc, exit, crTypes, task, jobs, job, left, types, type, ports, output,
                 failures>>

\* ERR_LOCAL_PORT_IN_USE.
LocalPortInUse(w) ==
  LET port == LocalPort(type[w]) IN
  /\ Go(w, "forward", "files") /\ port \in DOMAIN used /\ used[port] # RemotePort(type[w])
  /\ SummaryError(w)
  /\ UNCHANGED <<pc, exit, crTypes, task, jobs, job, left, types, type, ports, failures>>

\* The secret cannot be had, or the forwarder does not get ready; its port stays used.
SummaryFails(w) ==
  /\ CallFails
  /\ Go(w, "secret", "files") \/ Go(w, "dial", "files")
  /\ SummaryError(w)
  /\ UNCHANGED <<ports, pc, exit, crTypes, task, jobs, job, left, types, type>>

\* Whom the summary program reaches: the pod itself, or what listens at the port.
Reached(w) ==
  IF RemotePort(type[w]) = 0 THEN job[w]
  ELSE IF forwards[LocalPort(type[w])] = "" THEN ""
  ELSE job[forwards[LocalPort(type[w])]]

\* Mutant: the forwarder is left to itself.
ForwardEndsMutant(w) == forwards' \in {forwards}

\* getPodSummary returns, which ends the forwarder it started.
ForwardEnds(w) ==
  forwards' = [p \in DOMAIN forwards |-> IF forwards[p] = w THEN "" ELSE forwards[p]]

GotSummary(w) ==
  /\ Go(w, "run", "files") /\ Reached(w) # ""
  /\ \/ Written({Entry(SummaryPath(w), Reached(w), {})}) /\ UNCHANGED errors
     \/ WriteFails /\ LogError(<<"summary", job[w]>>)
  /\ ForwardEnds(w)
  /\ UNCHANGED <<pc, exit, crTypes, task, jobs, job, left, types, type, used, failures>>

\* Nothing listens at the port, or what is run there or in the pod fails.
NoSummary(w) ==
  /\ Go(w, "run", "files")
  /\ \/ Reached(w) = "" /\ UNCHANGED failures
     \/ Reached(w) # "" /\ CallFails
  /\ SummaryError(w)
  /\ ForwardEnds(w)
  /\ UNCHANGED <<pc, exit, crTypes, task, jobs, job, left, types, type, used>>
-----------------------------------------------------------------------------
(* getIndividualFiles: what cannot be copied is warned about and skipped.   *)

ProcessSingleFile(w) ==
  /\ Go(w, "files", "files") /\ left[w] # <<>>
  /\ Written({Entry(PodIndividualFilesPath(PodOf[job[w]].ns, job[w], Head(left[w])), "file", {})})
  /\ left' = [left EXCEPT ![w] = Tail(@)]
  /\ UNCHANGED <<pc, exit, crTypes, task, jobs, job, types, type, ports, errors, failures>>

\* It is not there, or cannot be written; or the stream from the pod ends early,
\* the header having been written.
FileFails(w) ==
  /\ Go(w, "files", "files") /\ left[w] # <<>>
  /\ \/ NoWrite /\ CallFails
     \/ WriteFails /\ UNCHANGED failures
     \/ tar = "ok" /\ MayFail /\ tar' = "short" /\ UNCHANGED <<archive, again>>
  /\ left' = [left EXCEPT ![w] = Tail(@)]
  /\ UNCHANGED <<pc, exit, crTypes, task, jobs, job, types, type, ports, errors>>

FilesDone(w) ==
  /\ Go(w, "files", "types") /\ left[w] = <<>>
  /\ UNCHANGED <<pc, exit, crTypes, task, jobs, job, left, types, type, ports, output,
                 failures>>
-----------------------------------------------------------------------------
Init ==
  /\ pc = "new" /\ exit = -1 /\ crTypes = {}
  /\ task = [t \in Tasks |-> "none"]
  /\ cancelled = FALSE /\ queue = <<>> /\ closed = FALSE /\ undispatched = {}
  /\ at = [w \in Workers |-> "none"] /\ job = [w \in Workers |-> ""]
  /\ left = [w \in Workers |-> <<>>] /\ types = [w \in Workers |-> {}]
  /\ type = [w \in Workers |-> ""]
  /\ used = [p \in {} |-> 0]
  /\ forwards = [p \in LocalPorts |-> ""]
  /\ archive = {} /\ again = {} /\ tar = "ok" /\ errors = {} /\ failures = 0

Export(t) == Acquire(t) \/ AcquireFails(t) \/ ExportGeneric(t) \/ DumpSSLInfo(t)

DumpCluster ==
  \/ New \/ OpenArchive \/ DiscoverAndSpawn \/ ListNamespaces \/ ExportDone
  \/ StartWorkers \/ ListPods \/ Dispatch \/ CloseJobs \/ WaitWorkers
  \/ DumpToArchive \/ CloseArchive

Fails == Refused \/ DiscoverFails \/ NamespacesFail \/ ListFails

Summary(w) ==
  \/ GetSecret(w) \/ StorePort(w) \/ PortForwardPod(w) \/ AlreadyForwarded(w) \/ LocalPortInUse(w)
  \/ SummaryFails(w) \/ GotSummary(w) \/ NoSummary(w)

Worker(w) ==
  \/ Take(w) \/ Leave(w) \/ ExportContainerLogs(w) \/ ContainerLogsFail(w)
  \/ NoSpaceLeft(w) \/ LogsDone(w) \/ NextType(w) \/ TypesDone(w)
  \/ Summary(w) \/ ProcessSingleFile(w) \/ FileFails(w) \/ FilesDone(w)

Runs == DumpCluster \/ (\E t \in Tasks : Export(t)) \/ (\E w \in Workers : Worker(w))

Next == Runs \/ Fails

\* While a goroutine can run one does: calls return, and the pod cache fills.
Spec == Init /\ [][Next]_vars /\ WF_vars(Runs)
-----------------------------------------------------------------------------
(* Properties.                                                              *)

WorkerSteps == {"logs", "types", "secret", "forward", "dial", "run", "files"}

\* A port is listened at only while the worker that forwarded it takes the summary.
ForwardsEnd == \A p \in DOMAIN forwards : forwards[p] # "" => at[forwards[p]] = "run"

\* Types, what a worker at each place holds, and no forwarder that outlives its summary.
TypeOK ==
  /\ pc \in {"new", "open", "discover", "namespaces", "export", "workers", "sync", "dispatch",
             "wait", "errors", "close", "exited"}
  /\ exit \in {-1, 0, 1} /\ (exit = -1) = (pc \notin {"errors", "close", "exited"})
  /\ task \in [Tasks -> {"none", "spawned", "running", "done"}]
  /\ cancelled \in BOOLEAN /\ closed \in BOOLEAN
  /\ queue \in Seq(Pods) /\ Len(queue) <= JobsCap
  /\ undispatched \subseteq Pods
  /\ at \in [Workers -> WorkerSteps \cup {"none", "idle", "gone"}]
  /\ \A w \in Workers : at[w] \in WorkerSteps => job[w] \in Pods
  /\ ForwardsEnd
  /\ tar \in {"ok", "full", "short"} /\ failures \in 0..MaxFailures

\* A secret is named like the file of a resource that is exported of its namespace.
NamedLikeAFile(p) ==
  /\ \E ns \in Namespaces : \E s \in Secrets[ns] : p = NamespaceIndividualFilesPath(ns, s)
  /\ \E t \in Tasks : t.name # "" /\ p = PodResourcePath(t.ns, t.name)

\* No path is written twice, whoever writes what, but that of such a secret.
PathsOnce == \A p \in again : NamedLikeAFile(p)

\* The volumes of an exported object's pod specification and of its template's refer
\* to no secret of pgbouncer, and it mounts only volumes it still has; the secrets
\* themselves are not exported.  (Environment variables and the job template of a
\* CronJob are exported as they are.)
Redacted ==
  \A e \in archive :
    /\ \A o \in e.objects : \A spec \in {o.own, o.template} :
         Mountable(spec) /\ \A v \in spec.volumes : ~HasPgbouncerSecretRef(v)
    /\ e.what = "objects" =>
         \A ns \in Namespaces : e.path # PodResourcePath(ns, "secrets")

\* What every entry of the archive may rely on.
OnceAndRedacted == PathsOnce /\ Redacted

InArchive(path) == \E e \in archive : e.path = path

\* A resource was exported, had no objects, failed with an error in the log, or the
\* archive took nothing more.
TaskAccounted(t) ==
  \/ t.name = "" \/ <<"export", t.ns, t.name>> \in errors \/ tar # "ok" \/ Objects[t.name] = {}
  \/ InArchive(PodResourcePath(t.ns, t.name))

LogsAccounted(p) ==
  \/ <<"logs", p>> \in errors
  \/ \A c \in Range(AllContainers(p)) : InArchive(PodLogPath(PodOf[p].ns, p, c))

SummaryAccounted(p) ==
  \/ SkipPodSummary \/ ~PodOf[p].running
  \/ \A t \in crTypes : ~MatchesCR(ResourceType(t), PodOf[p].labels)
  \/ <<"summary", p>> \in errors \/ InArchive(PodSummaryPath(PodOf[p].ns, p))

\* When the collector says that the export is complete, every resource, every pod's
\* logs and every database's summary is in the archive or its error is in the log,
\* unless a worker found the disk full.
NothingLost ==
  pc = "errors" /\ exit = 0 =>
    /\ \A t \in Tasks : TaskAccounted(t)
    /\ cancelled \/ \A p \in Pods : LogsAccounted(p) /\ SummaryAccounted(p)

\* Then nothing writes to the archive that is closed.
ClosedQuietly ==
  exit = 0 => /\ \A t \in Tasks : task[t] = "done"
              /\ \A w \in Workers : at[w] = "gone"

\* A successful collection is complete.
Collected == NothingLost /\ ClosedQuietly

\* The workers stopped because the disk is full and main waits to hand out a pod.
Abandoned ==
  pc = "dispatch" /\ cancelled /\ \A w \in Workers : at[w] = "gone"

\* The collector exits, unless main is left alone with its pods.
Ends == <>(pc = "exited" \/ Abandoned)

\* The summary of a pod is a summary of its own database.
SummaryOfPod ==
  \A e \in archive : \A p \in Pods :
    e.path = PodSummaryPath(PodOf[p].ns, p) => e.what \in {p, "error"}
=============================================================================
