----------------------------- MODULE Background -----------------------------
(***************************************************************************)
(* What runs beside the requests, from the start of the process to its     *)
(* end: the backup scheduler and the administrators' backups, threads that *)
(* write archives into one directory (engine/backup.py, api/backup.py),    *)
(* the tasks that deliver events (engine/event_dispatcher.py), and the     *)
(* shutdown of the application (main.py, lifespan).  What the daily purge  *)
(* makes of the audit rows is AuditPurge's.                                *)
(*                                                                         *)
(* An archive is named by the local second its backup starts in.  Its      *)
(* contents are abstracted to whether everything is in it.  A stop of the  *)
(* process that is not a shutdown may come at any point.                   *)
(***************************************************************************)
EXTENDS Naturals, FiniteSets, Sequences, Functions, AuditPurge

CONSTANTS Keep,        \* backup_keep
          Subs,        \* how many subscriptions match the event
          Tries,       \* MAX_RETRIES + 1
          MaxJobs,     \* bound on the backups
          MaxNow,      \* bound on the seconds they start in
          MaxStops     \* bound on the stops of the process, shutdowns included

ASSUME BoundsAreNatural == /\ {Keep, Subs, MaxJobs, MaxStops} \subseteq Nat
                           /\ {Tries, MaxNow} \subseteq Nat \ {0}

VARIABLES life,        \* "up", "closing", "closed" (threads may still run), "down"
          now,         \* the server's local time
          files,       \* the directory: second -> who opened the archive, and its state
          jobs,        \* the calls of create_backup
          sched,       \* backup_scheduler_loop: "asleep", "working", "over"
          task,        \* the delivery of an event
          failures,    \* history: archives begun and not finished since the last retention
          saved,       \* history: the second of the archive that must stay, or 0
          stops

directory == <<now, files, jobs, failures, saved>>
processVars == <<life, now, files, jobs, sched, task, failures, saved, stops>>

Job == 1..MaxJobs      \* in the order they start
Second == 1..MaxNow
Absent == [phase |-> "new"]
Ended == [phase |-> "ended"]
Nobody == 0
NoTask == [phase |-> "none"]
Outcome == {"accepted", "failed", "blocked"}

ProcessInit ==
  /\ life = "up" /\ now = 1 /\ sched = "asleep" /\ stops = 0
  /\ files = <<>> /\ jobs = [j \in Job |-> Absent]
  /\ task = NoTask
  /\ failures = 0 /\ saved = 0

-----------------------------------------------------------------------------
(* The backups.                                                            *)
Phase(p) == {j \in Job : jobs[j].phase = p}
Active == Phase("open") \cup Phase("written")
Ends(j) == jobs' = [jobs EXCEPT ![j] = Ended]

(* The archive a writer has opened, when it is still in the directory under its name; its  *)
(* state once the writer has let go of it.                                                 *)
OfWriter(j) == {n \in DOMAIN files : files[n].by = j}
Closed(j, state) ==
  [n \in DOMAIN files |->
     IF n \notin OfWriter(j) THEN files[n]
     ELSE [by |-> Nobody, state |-> IF files[n].state = "torn" THEN "torn" ELSE state]]

(* The scheduler goes back to sleep, whatever became of the backup; a cancelled one is    *)
(* not there any more.                                                                    *)
LoopGoesOn(j) ==
  sched' = IF sched = "working" /\ jobs[j].by = "clock" THEN "asleep" ELSE sched

(* Opening the archive truncates one of the same second; two writers spoil each other.    *)
Opened(j, second) ==
  LET torn == \E i \in Phase("open") : jobs[i].name = second
  IN  [n \in DOMAIN files \cup {second} |->
         IF n # second THEN files[n]
         ELSE [by |-> j, state |-> IF torn THEN "torn" ELSE "partial"]]

(* create_backup begins. The mkdir or the open may fail: then there is no archive.        *)
Opens(by, second) ==
  /\ life = "up"
  /\ \E j \in Phase("new") :
       /\ \A i \in Phase("new") : j <= i
       /\ \/ /\ files' = Opened(j, second)
             /\ jobs' = [i \in Job |->
                  IF i = j
                  THEN [phase |-> "open", name |-> second, by |-> by, alone |-> Active = {}]
                  ELSE IF i \in Active THEN [jobs[i] EXCEPT !.alone = FALSE] ELSE jobs[i]]
             /\ sched' = IF by = "clock" THEN "working" ELSE sched
             /\ saved' = IF saved = second THEN 0 ELSE saved
          \/ /\ jobs' = [jobs EXCEPT ![j] = Ended]
             /\ UNCHANGED <<files, sched, saved>>

(* The scheduler wakes, hours after its last backup, and starts one in a thread. *)
SchedulerWakes ==
  /\ sched = "asleep" /\ now < MaxNow
  /\ now' = now + 1 /\ Opens("clock", now')
  /\ UNCHANGED <<life, task, failures, stops>>

(* post_backup. *)
AdminAsks ==
  /\ Opens("admin", now)
  /\ UNCHANGED <<life, now, task, failures, stops>>

(* The archive is complete: database copy, index, sidecar, settings and manifest. The     *)
(* file may have been removed or opened anew under the writer.                            *)
Writes(j) ==
  /\ jobs[j].phase = "open"
  /\ jobs' = [jobs EXCEPT ![j].phase = "written"]
  /\ files' = Closed(j, "whole")
  /\ UNCHANGED <<life, now, sched, task, failures, saved, stops>>

(* _enforce_retention: by name, which is by local time. *)
Retained ==
  LET stale == {n \in DOMAIN files :
                  Keep > 0 /\ Cardinality({k \in DOMAIN files : k > n}) >= Keep}
  IN  Restrict(files, DOMAIN files \ stale)

(* Retention, then the size of the archive, an error when it is not there any more. What   *)
(* must stay from now on: an archive no other backup ran beside, the newest by its name.   *)
Finishes(j) ==
  /\ jobs[j].phase = "written"
  /\ files' = Retained /\ failures' = 0
  /\ saved' = IF /\ jobs[j].alone /\ jobs[j].name \in DOMAIN files
                  /\ \A n \in DOMAIN files : n <= jobs[j].name
               THEN jobs[j].name ELSE 0
  /\ Ends(j) /\ LoopGoesOn(j)
  /\ UNCHANGED <<life, now, task, stops>>

(* Mutant: retention also runs when the backup failed. *)
FailsPruning(j) ==
  /\ jobs[j].phase = "open"
  /\ Ends(j) /\ failures' = failures + 1 /\ LoopGoesOn(j)
  /\ files' = Retained
  /\ UNCHANGED <<life, now, task, saved, stops>>

(* The copy of the database or a write fails: the archive is closed as it is and stays,   *)
(* and there is no retention.                                                             *)
Fails(j) ==
  /\ jobs[j].phase = "open"
  /\ Ends(j) /\ failures' = failures + 1 /\ LoopGoesOn(j)
  /\ files' = Closed(j, "partial")
  /\ UNCHANGED <<life, now, task, saved, stops>>

(* delete_backup. *)
Removes(n) ==
  /\ life = "up" /\ n \in DOMAIN files
  /\ files' = Restrict(files, DOMAIN files \ {n})
  /\ saved' = IF saved = n THEN 0 ELSE saved
  /\ UNCHANGED <<life, now, jobs, sched, task, failures, stops>>

(* Local time goes on, and an hour is repeated once a year. *)
Passes ==
  /\ now < MaxNow
  /\ now' = now + 1
  /\ UNCHANGED <<life, files, jobs, sched, task, failures, saved, stops>>

StepsBack ==
  /\ now = MaxNow /\ now > 1
  /\ now' = now - 1
  /\ UNCHANGED <<life, files, jobs, sched, task, failures, saved, stops>>

-----------------------------------------------------------------------------
(* The delivery of an event, to one subscription after the other, each with its attempts. *)
Delivering == task.phase \in {"posting", "cancelled"}
Done == [phase |-> "done"]
Begun == [phase |-> "posting", to |-> 1, log |-> [i \in 1..Subs |-> <<>>]]  \* outcomes by subscription

(* emit_event, by a request; dispatch_event finds the subscriptions, or fails to. *)
Emits ==
  /\ life = "up" /\ task = NoTask
  /\ task' \in {Done, IF Subs = 0 THEN Done ELSE Begun}
  /\ UNCHANGED <<life, sched, stops, directory>>

(* Mutant: a target that is blocked ends the whole delivery. *)
BlockedEndsAll(to, tried) ==
  IF tried[Len(tried)] = "failed" /\ Len(tried) < Tries THEN to
  ELSE IF tried[Len(tried)] = "blocked" THEN Subs + 1 ELSE to + 1

(* _deliver_one: a success and a blocked target end the attempts, a failure the last one; *)
(* dispatch_event goes on with the next subscription.                                     *)
NextTo(to, tried) ==
  IF tried[Len(tried)] = "failed" /\ Len(tried) < Tries THEN to ELSE to + 1

Tried(outcome) == [task.log EXCEPT ![task.to] = Append(@, outcome)]

Posts(outcome) ==
  /\ task.phase = "posting"
  /\ LET to == NextTo(task.to, Tried(outcome)[task.to])
     IN  task' = IF to > Subs THEN Done ELSE [task EXCEPT !.to = to, !.log = Tried(outcome)]
  /\ UNCHANGED <<life, sched, stops, directory>>

-----------------------------------------------------------------------------
(* The end of the process.                                                 *)

(* The server stops when its requests have ended, a backup asked for by one included; the  *)
(* scheduler's task is cancelled, its thread is not.                                       *)
Shutdown ==
  /\ life = "up" /\ stops < MaxStops
  /\ \A j \in Active : jobs[j].by = "clock"
  /\ life' = "closing" /\ sched' = "over" /\ stops' = stops + 1
  /\ UNCHANGED <<task, directory>>

(* Mutant: the deliveries are waited for without a limit. *)
NoDeadline == FALSE /\ UNCHANGED processVars

(* shutdown_event_tasks: what still runs at the deadline is cancelled, ... *)
Deadline ==
  /\ life = "closing" /\ task.phase = "posting"
  /\ task' = [phase |-> "cancelled"]
  /\ UNCHANGED <<life, sched, stops, directory>>

(* ... and ends at its next step. *)
Cancelled ==
  /\ task.phase = "cancelled" /\ task' = Done
  /\ UNCHANGED <<life, sched, stops, directory>>

(* Mutant: the cancelled deliveries are not awaited. *)
DisposesAtOnce ==
  /\ life = "closing" /\ task.phase # "posting"
  /\ life' = "closed"
  /\ UNCHANGED <<sched, stops, task, directory>>

(* The deliveries have ended and the database is closed. *)
Disposes ==
  /\ life = "closing" /\ ~Delivering
  /\ life' = "closed"
  /\ UNCHANGED <<sched, stops, task, directory>>

(* The interpreter waits for the threads of its pool. *)
Leaves ==
  /\ life = "closed" /\ Active = {}
  /\ life' = "down"
  /\ UNCHANGED <<sched, stops, task, directory>>

(* The process is stopped at any other point; the archives begun stay as they are. *)
Crashes ==
  /\ life # "down" /\ stops < MaxStops
  /\ life' = "down" /\ sched' = "over" /\ stops' = stops + 1
  /\ jobs' = [j \in Job |-> IF j \in Active THEN Ended ELSE jobs[j]]
  /\ files' = [n \in DOMAIN files |-> [files[n] EXCEPT !.by = Nobody]]
  /\ failures' = failures + Cardinality(Active)
  /\ task' = IF Delivering THEN Done ELSE task
  /\ UNCHANGED <<now, saved>>

Starts ==
  /\ life = "down"
  /\ life' = "up" /\ sched' = "asleep"
  /\ UNCHANGED <<now, files, jobs, task, failures, saved, stops>>

Backs(j) == Writes(j) \/ Fails(j) \/ Finishes(j)

ProcessNext ==
  \/ SchedulerWakes \/ AdminAsks \/ \E j \in Job : Backs(j)
  \/ \E n \in Second : Removes(n)
  \/ Passes \/ StepsBack
  \/ Emits \/ \E outcome \in Outcome : Posts(outcome)
  \/ Shutdown \/ Deadline \/ Cancelled \/ Disposes \/ Leaves \/ Crashes \/ Starts

ProcessSpec == ProcessInit /\ [][ProcessNext]_processVars

(* Threads and cancelled tasks go on, and timers expire.  An attempt to deliver may take  *)
(* any time: its limit of ten seconds is for each read, not for the answer.               *)
FairSpec ==
  /\ ProcessSpec
  /\ \A j \in Job : WF_processVars(Backs(j))
  /\ WF_processVars(Deadline) /\ WF_processVars(Cancelled)
  /\ WF_processVars(Disposes) /\ WF_processVars(Leaves)

-----------------------------------------------------------------------------
(* Type invariant. *)
Phases == {"new", "open", "written", "ended"}
ProcessTypeOK ==
  /\ life \in {"up", "closing", "closed", "down"}
  /\ now \in Second /\ saved \in 0..MaxNow /\ stops \in 0..MaxStops
  /\ DOMAIN files \subseteq Second
  /\ \A n \in DOMAIN files : files[n].by \in {Nobody} \cup Job /\ files[n].state \in {"partial", "whole", "torn"}
  /\ \A j \in Job : jobs[j].phase \in Phases
  /\ sched \in {"asleep", "working", "over"} /\ (sched = "over" <=> life # "up")
  /\ failures \in 0..MaxJobs
  /\ task.phase \in {"none", "posting", "cancelled", "done"}

(* Whatever fails or is cut afterwards, the last backup that was completed stays in the   *)
(* directory, whole, until another one is completed: backups that fail never push a good  *)
(* one out, and a stop of the process leaves it alone (create_backup,                     *)
(* _enforce_retention).  This is so of a backup no other one ran beside, whose name is    *)
(* the newest; an administrator may remove it, and one that begins in the same second     *)
(* takes its place.                                                                       *)
RestorePoint == saved # 0 => saved \in DOMAIN files /\ files[saved].state = "whole"

(* The directory stays as small as retention says, but for the archives begun since it    *)
(* last ran: those under way, failed or cut (_enforce_retention).                         *)
DiskBounded == Keep > 0 => Cardinality(DOMAIN files) <= Keep + failures + Cardinality(Active)

(* What retention makes of the directory: a way back, and no more files than it says.     *)
RetentionSound == ProcessTypeOK /\ RestorePoint /\ DiskBounded

(* A purge that the database does not refuse leaves no expired row, and none takes a row  *)
(* that is not: see Sound in AuditPurge.  It keeps no state between its runs, so what is  *)
(* asked of one is asked in every state (purge_expired_audit_traces).                     *)
PurgeComplete == stops <= MaxStops => Misjudged = {}

(* No delivery, which reads subscriptions and posts, outlives the database the           *)
(* application closes, though its subscribers may never answer; and no thread still       *)
(* writes an archive once the process has left (lifespan, shutdown_event_tasks).  Of      *)
(* deliveries only: nobody waits for the thread of a backup before the close, nor for the *)
(* task of an automatic rebuild of the index (maybe_auto_rebuild).                        *)
DeliveriesDrained == /\ life \in {"closed", "down"} => ~Delivering
                     /\ life = "down" => Active = {}

(* A delivery that ends by itself has asked every subscription until it accepted, was     *)
(* blocked or had all its attempts, whatever became of the ones before it                 *)
(* (dispatch_event, _deliver_one).                                                        *)
Settled(tried) == tried # <<>> /\ (tried[Len(tried)] = "failed" => Len(tried) = Tries)
EveryoneAsked ==
  [][\A outcome \in Outcome :
       Posts(outcome) /\ task' = Done => \A i \in 1..Subs : Settled(Tried(outcome)[i])]_processVars

(* A backup of the scheduler, however it ends, is followed by the sleep before the next   *)
(* one, unless the process is stopped (backup_scheduler_loop).                            *)
SchedulerLives == sched = "working" ~> (sched = "asleep" \/ life # "up")

(* A shutdown ends, though a subscriber may never answer (shutdown_event_tasks).          *)
ShutdownEnds == life = "closing" ~> life = "down"
(* What runs beside the requests neither dies nor stays: the scheduler goes on after every *)
(* backup, and a shutdown ends.                                                           *)
GoesOnAndEnds == SchedulerLives /\ ShutdownEnds

=============================================================================
