-------------------------- MODULE PersistenceTasks --------------------------
(***************************************************************************)
(* The persistence manager of the daemon: tasks that copy one artifact to  *)
(* remote stable memory and to the shared disk.                            *)
(*                                                                         *)
(* A task has one or two shards.  A shard has a memory target (the local   *)
(* node or a remote one, chosen by the placement plan of the Global Store) *)
(* and, when the policy names the shared disk, a disk target, whose part   *)
(* file a job of the blocking executor writes block by block.  Every pass  *)
(* of the scheduler (tick) advances every task under the manager's mutex,  *)
(* and appends the task to the task log, from which a restarted daemon     *)
(* rebuilds its tasks.  All tasks are about the same artifact, so they     *)
(* share the object directory.  Storage path and cluster id are configured.*)
(***************************************************************************)
EXTENDS Naturals, FiniteSets, FiniteSetsExt

CONSTANTS MaxTasks,     \* bound on the tasks started
          MaxRestarts,  \* bound on the restarts of the daemon
          MaxAttempts,  \* kMaxLeaseAttempts
          Remotes,      \* requirement levels of the policies, remote stable
          Disks,        \* requirement levels of the policies, shared disk
          Layouts,      \* subset of {"one", "two"}: the shards of a plan
          None

VARIABLES tasks,     \* tasks_, by task number; None before start_task
          job,       \* disk_write_state of each task and shard
          file,      \* part files: length and the blocks really in them
          meta,      \* tensor_index.json and artifact_descriptor.json exist
          location,  \* the Global Store knows the disk location
          durable,   \* durability_index_ of the artifact
          sources,   \* policy source registry: tasks with a usable directory
          log,       \* last line of the task log, by task
          restarts

vars == <<tasks, job, file, meta, location, durable, sources, log, restarts>>

Ids == 1..MaxTasks
Parts == 1..2
ShardsOf(layout) == IF layout = "one" THEN {1} ELSE {1, 2}
\* The blocks of a part: an unsharded artifact has both in its only part.
BlocksOf(layout, i) == IF layout = "one" THEN {1, 2} ELSE {i}
SizeOf(layout, i) == Cardinality(BlocksOf(layout, i))

Terminal(st) == st \in {"success", "failed", "degraded"}
Fresh == [st |-> "none", written |-> 0]
Whole(layout, i) == file[i] = [len |-> SizeOf(layout, i), has |-> BlocksOf(layout, i)]
Done(target) == target \in {"complete", "skipped"}

Init == /\ tasks = [t \in Ids |-> None]
        /\ job = [t \in Ids |-> [i \in Parts |-> Fresh]]
        /\ file = [i \in Parts |-> None]
        /\ meta = FALSE /\ location = FALSE
        /\ durable = [disk |-> FALSE, remote |-> FALSE]
        /\ sources = {}
        /\ log = [t \in Ids |-> None]
        /\ restarts = 0

(***************************************************************************)
(* Pure steps of the state machine of a task.                              *)
(***************************************************************************)

\* A degraded task degrades every shard, a degraded shard the task.
Propagate(k) ==
    LET any == k.degraded \/ \E i \in DOMAIN k.shards : k.shards[i].degraded
    IN IF k.st = "failed" THEN k
       ELSE [k EXCEPT !.degraded = any,
                      !.shards = [i \in DOMAIN k.shards |->
                                    [k.shards[i] EXCEPT !.degraded = @ \/ any]]]

\* Targets after the placement plan and attach_shared_disk_targets: without
\* a plan, or with a degraded one, the memory target is the local node.
Planned(layout, remote, disk, plan) ==
    LET far == remote # "none" /\ plan = "ok"
        shard == [st |-> "pending", degraded |-> FALSE, far |-> far, mem |-> "pending",
                  disk |-> IF disk = "none" THEN "absent" ELSE "pending",
                  attempts |-> 0, cool |-> 0]
    IN Propagate([layout |-> layout, remote |-> remote, need |-> disk,
                  st |-> IF plan # "ok" /\ remote = "must" THEN "failed" ELSE "pending",
                  degraded |-> plan # "ok" /\ remote = "should",
                  shards |-> [i \in ShardsOf(layout) |-> shard],
                  meta |-> FALSE, reg |-> FALSE])

\* compute_backoff_ticks: the cooldown after a failed attempt.
Backoff(attempts) == 2 ^ (IF attempts < 3 THEN attempts ELSE 3)

\* One pass over the memory target; ok says whether the Global Store grants
\* the lease, or acknowledges it and registers the replica.
MemTarget(s, ok) ==
    LET refused == [s EXCEPT !.mem = "failed", !.attempts = @ + 1,
                             !.cool = Backoff(s.attempts + 1)]
    IN CASE Done(s.mem) -> s
         [] s.mem = "failed" /\ s.attempts >= MaxAttempts -> s
         [] s.cool > 0 -> [s EXCEPT !.cool = @ - 1]
         [] s.mem = "copying" -> IF ok \/ ~s.far THEN [s EXCEPT !.mem = "complete"] ELSE refused
         [] ~s.far -> [s EXCEPT !.mem = "complete"]
         [] OTHER -> IF ok THEN [s EXCEPT !.mem = "copying", !.cool = 0] ELSE refused

\* One pass over the disk target: a finished job ends it only once the
\* directory is registered; src says whether a source of the bytes exists.
DiskTarget(s, j, reg, src) ==
    CASE s.disk \in {"absent", "complete", "skipped", "failed"} -> s
      [] j.st = "failed" -> [s EXCEPT !.disk = "failed"]
      [] j.st = "ok" /\ reg -> [s EXCEPT !.disk = "complete"]
      [] j.st # "none" -> [s EXCEPT !.disk = "copying"]
      [] s.disk = "pending" -> [s EXCEPT !.disk = IF src THEN "copying" ELSE "failed"]
      [] OTHER -> s

\* Mutant: a failed disk target only degrades, whatever the policy requires.
VerdictLenient(k, s) ==
    LET memFailed == s.mem = "failed" /\ s.attempts >= MaxAttempts
        lacks(need, seen, failed) == need /\ (~seen \/ failed)
        failed == lacks(k.remote = "must", s.far, memFailed)
        degraded == \/ s.degraded
                    \/ lacks(k.remote = "should", s.far, memFailed)
                    \/ lacks(k.need # "none", s.disk # "absent", s.disk = "failed")
        ended == (Done(s.mem) \/ memFailed) /\ s.disk \in {"absent", "complete", "skipped", "failed"}
    IN [s EXCEPT !.degraded = degraded,
                 !.st = CASE failed -> "failed"
                          [] ended -> IF degraded \/ k.degraded THEN "degraded" ELSE "success"
                          [] OTHER -> "running"]

\* A shard fails when a required tier failed or is missing, and is degraded
\* when an optional one did.
Verdict(k, s) ==
    LET memFailed == s.mem = "failed" /\ s.attempts >= MaxAttempts
        lacks(need, seen, failed) == need /\ (~seen \/ failed)
        failed == \/ lacks(k.remote = "must", s.far, memFailed)
                  \/ lacks(k.need = "must", s.disk # "absent", s.disk = "failed")
        degraded == \/ s.degraded
                    \/ lacks(k.remote = "should", s.far, memFailed)
                    \/ lacks(k.need = "should", s.disk # "absent", s.disk = "failed")
        ended == (Done(s.mem) \/ memFailed) /\ s.disk \in {"absent", "complete", "skipped", "failed"}
    IN [s EXCEPT !.degraded = degraded,
                 !.st = CASE failed -> "failed"
                          [] ended -> IF degraded \/ k.degraded THEN "degraded" ELSE "success"
                          [] OTHER -> "running"]

AdvanceShard(k, s, j, ok, src) ==
    IF Terminal(s.st) THEN s ELSE Verdict(k, DiskTarget(MemTarget(s, ok), j, k.reg, src))

\* disk_writes_complete: every shard has a disk target whose job succeeded.
DiskWritten(k, jobs) ==
    /\ k.need # "none"
    /\ \A i \in DOMAIN k.shards :
          /\ k.shards[i].disk \notin {"absent", "failed"}
          /\ jobs[i].st = "ok" \/ Done(k.shards[i].disk)

\* finalize_disk_directory checks only that the part files have their sizes.
SizesMatch(k) == \A i \in DOMAIN k.shards : file[i] # None /\ file[i].len = SizeOf(k.layout, i)

\* finalize_disk_directory, then register_disk_location; the first needs the
\* part files and a readable index, the second the Global Store.
Commit(k, reached) ==
    LET wrote == k.meta \/ (SizesMatch(k) /\ reached # "no_index")
    IN IF wrote /\ reached # "no_register" THEN [k EXCEPT !.meta = TRUE, !.reg = TRUE]
       ELSE LET m == [k EXCEPT !.meta = wrote]
            IN CASE k.need = "must" ->
                        [m EXCEPT !.shards = [i \in DOMAIN @ |-> [@[i] EXCEPT !.st = "failed"]]]
                 [] k.need = "should" -> [m EXCEPT !.degraded = TRUE]
                 [] OTHER -> m

\* The state of a task after its shards advanced.
Settle(k) ==
    LET sts == {k.shards[i].st : i \in DOMAIN k.shards}
        p == Propagate(k)
    IN [p EXCEPT !.st = CASE "failed" \in sts -> "failed"
                          [] sts \subseteq {"success", "degraded"} ->
                                IF p.degraded \/ "degraded" \in sts THEN "degraded" ELSE "success"
                          [] OTHER -> "running"]

\* One pass over a task (advance_locked); o holds the outcome of every call
\* the pass makes.
Advance(k, jobs, o) ==
    IF k = None \/ Terminal(k.st) THEN k
    ELSE IF k.st = "pending"
         THEN Propagate([k EXCEPT !.st = "running",
                                  !.shards = [i \in DOMAIN @ |-> [@[i] EXCEPT !.st = "running"]]])
         ELSE LET a == [k EXCEPT !.shards = [i \in DOMAIN @ |->
                                    AdvanceShard(k, @[i], jobs[i], i \in o.ok, o.src)]]
              IN Settle(IF DiskWritten(a, jobs) /\ ~a.reg THEN Commit(a, o.commit) ELSE a)

\* The outcomes of the calls that a pass over a task makes: the shards whose
\* Global Store calls succeed, whether a source of the bytes is found, and
\* where the commit of the directory stops.
Outcomes(k, jobs) ==
    IF k = None \/ k.st # "running" THEN {[ok |-> {}, src |-> TRUE, commit |-> "ok"]}
    ELSE [ok : SUBSET {i \in DOMAIN k.shards : k.shards[i].far /\ ~Done(k.shards[i].mem)},
          src : IF \E i \in DOMAIN k.shards : k.shards[i].disk = "pending" THEN BOOLEAN ELSE {TRUE},
          commit : IF \A i \in DOMAIN k.shards : jobs[i].st = "ok" \/ Done(k.shards[i].disk)
                   THEN {"no_index", "no_register", "ok"} ELSE {"ok"}]

\* The disk tier is complete when every shard's disk target is, the remote
\* tier when every shard has a completed remote target.
DiskComplete(k) == k.need # "none" /\ k.reg /\ \A i \in DOMAIN k.shards : Done(k.shards[i].disk)
RemoteComplete(k) == k.remote # "none" /\ \A i \in DOMAIN k.shards : k.shards[i].far /\ Done(k.shards[i].mem)
Durability(d, ks) == [disk |-> d.disk \/ \E k \in ks : DiskComplete(k),
                      remote |-> d.remote \/ \E k \in ks : RemoteComplete(k)]

\* A task whose directory is registered, described and complete by size.
Usable(k) == k # None /\ DiskComplete(k) /\ meta' /\ SizesMatch(k)

(***************************************************************************)
(* Actions.                                                                *)
(***************************************************************************)

\* start_task: plan, attach the disk targets, insert, index and log.
StartTask(t) ==
    /\ tasks[t] = None
    /\ \A u \in 1..(t - 1) : tasks[u] # None
    /\ \E layout \in Layouts, remote \in Remotes, disk \in Disks, plan \in {"ok", "degraded"} :
          /\ tasks' = [tasks EXCEPT ![t] = Planned(layout, remote, disk, plan)]
          /\ log' = [log EXCEPT ![t] = tasks'[t]]
    /\ UNCHANGED <<job, file, meta, location, durable, sources, restarts>>

\* The job start_disk_write leaves behind: none is queued when the part file
\* already has the right size.
JobAfter(t, i) ==
    IF tasks[t] = None \/ Terminal(tasks[t].st) THEN job[t][i]
    ELSE IF i \in DOMAIN tasks[t].shards /\ tasks[t].shards[i].disk = "pending"
                                         /\ tasks'[t].shards[i].disk = "copying"
         THEN IF file[i] # None /\ file[i].len = SizeOf(tasks[t].layout, i)
              THEN [st |-> "ok", written |-> 0]
              ELSE [st |-> "queued", written |-> 0]
         ELSE job[t][i]

\* What a pass does outside the memory of the daemon.
CommitEffects(next) ==
    /\ meta' = (meta \/ \E t \in Ids : next[t] # None /\ next[t].meta)
    /\ location' = (location \/ \E t \in Ids : next[t] # None /\ next[t].reg)

\* tick: every task advances; a task that was only started is not logged.
Tick ==
    /\ \E t \in Ids : tasks[t] # None /\ ~Terminal(tasks[t].st)
    /\ UNCHANGED <<file, restarts>>
    /\ \E o \in [Ids -> UNION {Outcomes(tasks[t], job[t]) : t \in Ids}] :
          /\ \A t \in Ids : o[t] \in Outcomes(tasks[t], job[t])
          /\ tasks' = [t \in Ids |-> Advance(tasks[t], job[t], o[t])]
    /\ job' = [t \in Ids |-> [i \in Parts |-> JobAfter(t, i)]]
    /\ CommitEffects(tasks')
    /\ LET passed == {t \in Ids : tasks[t] # None /\ tasks[t].st = "running"}
       IN /\ log' = [t \in Ids |-> IF t \in passed THEN tasks'[t] ELSE log[t]]
          /\ durable' = Durability(durable, {tasks'[t] : t \in passed})
          /\ sources' = (sources \ passed) \cup {t \in passed : Usable(tasks'[t])}

\* A job of the executor opens its part file, which truncates it, ...
WriteBegin(t, i) ==
    /\ job[t][i].st = "queued"
    /\ job' = [job EXCEPT ![t][i].st = "writing"]
    /\ file' = [file EXCEPT ![i] = [len |-> 0, has |-> {}]]
    /\ UNCHANGED <<tasks, meta, location, durable, sources, log, restarts>>

\* ... writes its next block at its own offset, ...
WriteBlock(t, i) ==
    LET size == SizeOf(tasks[t].layout, i)
        n == job[t][i].written + 1
        block == IF size = 2 THEN n ELSE i
    IN /\ job[t][i].st = "writing"
       /\ job' = [job EXCEPT ![t][i] = [st |-> IF n = size THEN "ok" ELSE "writing",
                                        written |-> n]]
       /\ file' = [file EXCEPT ![i] = [len |-> Max({@.len, n}), has |-> @.has \cup {block}]]
       /\ UNCHANGED <<tasks, meta, location, durable, sources, log, restarts>>

\* ... or fails.
WriteFail(t, i) ==
    /\ job[t][i].st \in {"queued", "writing"}
    /\ job' = [job EXCEPT ![t][i].st = "failed"]
    /\ UNCHANGED <<tasks, file, meta, location, durable, sources, log, restarts>>

\* load_task_log: the tasks, their durability and their directories are
\* rebuilt from the log; the jobs died with the old process.
Recovered ==
    LET ks == {log[t] : t \in Ids} \ {None}
    IN /\ tasks' = log
       /\ job' = [t \in Ids |-> [i \in Parts |-> Fresh]]
       /\ durable' = Durability([disk |-> FALSE, remote |-> FALSE], ks)
       /\ sources' = {t \in Ids : Usable(log[t])}
       /\ log' = log

Restart ==
    /\ restarts < MaxRestarts
    /\ restarts' = restarts + 1
    /\ UNCHANGED <<file, meta, location>>
    /\ Recovered

\* The daemon dies inside a pass: after the calls, before the log.
RestartInTick ==
    /\ restarts < MaxRestarts
    /\ restarts' = restarts + 1
    /\ \E t \in Ids :
          /\ tasks[t] # None /\ tasks[t].st = "running"
          /\ \E k \in {Advance(tasks[t], job[t], o) : o \in Outcomes(tasks[t], job[t])} :
                CommitEffects([tasks EXCEPT ![t] = k])
    /\ Recovered
    /\ UNCHANGED file

Job == \E t \in Ids, i \in Parts : WriteBegin(t, i) \/ WriteBlock(t, i) \/ WriteFail(t, i)
Next == (\E t \in Ids : StartTask(t)) \/ Tick \/ Job \/ Restart \/ RestartInTick

Spec == Init /\ [][Next]_vars
FairSpec == Spec /\ WF_vars(Tick)
                 /\ \A t \in Ids, i \in Parts : WF_vars(WriteBegin(t, i) \/ WriteBlock(t, i))

(***************************************************************************)
(* Properties.                                                             *)
(***************************************************************************)

\* A task that ends well has every tier its policy requires: each shard has
\* a registered remote replica when remote stable is a must, and the disk
\* directory is committed and known to the Global Store when the disk is.
RequiredTiersHold ==
    \A t \in Ids : tasks[t] # None /\ tasks[t].st \in {"success", "degraded"} =>
        /\ tasks[t].remote = "must" => RemoteComplete(tasks[t])
        /\ tasks[t].need = "must" => DiskComplete(tasks[t]) /\ meta /\ location

\* Spill eviction of the memory copy is allowed on account of the disk only
\* when the Global Store knows a described directory with every block of the
\* artifact in it.
EvictableIsOnDisk ==
    durable.disk => /\ meta /\ location
                    /\ \E layout \in Layouts : \A i \in ShardsOf(layout) : Whole(layout, i)

\* docs/designs/0071: readers must never see partial replicas.  What the
\* Global Store lists as the disk location is a complete directory.
ReadersSeeWhole ==
    location => \E layout \in Layouts : \A i \in ShardsOf(layout) : Whole(layout, i)

\* Every task that was started ends.
Running == \E t \in Ids : tasks[t] # None /\ ~Terminal(tasks[t].st)
TasksEnd == Running ~> ~Running
=============================================================================
