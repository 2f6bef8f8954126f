------------------------------- MODULE JobStore -------------------------------
(***************************************************************************)
(* RouteFirstJobStore of lib/domain/route-first/job-cache.ts: jobs are      *)
(* submitted once per key, wait in a queue for one of a few fill slots,     *)
(* are filled under a deadline, kept until they expire, and removed when    *)
(* there are too many.                                                      *)
(*                                                                         *)
(* The store runs on one event loop.  submit, get, a timer and the end of   *)
(* a fill are tasks; the rest of a runFill that was told to end - its        *)
(* finally, the freed slot and the drain - runs as a microtask before the   *)
(* next task.  `ending` holds the jobs whose runFill is about to end so.     *)
(*                                                                         *)
(* A key stands for session, submission, snapshot and cache scope; the      *)
(* validation of a result is the choice between a good and a bad one.       *)
(***************************************************************************)
EXTENDS Naturals, Sequences, FiniteSets

CONSTANTS
  Keys,         (* the cache keys                                           *)
  NoJob,        (* no job under a key                                       *)
  MaxEntries, MaxConcurrentFills, MaxFillDuration, Ttl,
  MaxJobs,      (* bound on the jobs that are created                       *)
  LastSubmit    (* bound on the time of a submission                        *)

ASSUME JobStoreAssumption ==
  /\ {MaxEntries, MaxConcurrentFills, MaxFillDuration, Ttl} \subseteq Nat \ {0}
  /\ MaxJobs \in Nat
  /\ LastSubmit \in Nat
  /\ NoJob \notin Nat
  /\ Keys # {}

Jobs == 1 .. MaxJobs

\* Every job has expired by then.
EndOfTime == LastSubmit + Ttl

VARIABLES
  now,
  made,         (* the jobs made so far are 1 .. made                       *)
  jobs,         (* this.jobs: the ids in the map                            *)
  cacheIndex,   (* this.cacheIndex                                          *)
  queue,        (* this.queue                                               *)
  activeFills,
  key, createdAt, deadlineAt, status,
  filling,      (* the runFill calls that wait for their outcome            *)
  ending,       (* the runFill calls that have it                           *)
  working,      (* the fills whose promise has not settled                  *)
  aborted       (* the jobs whose controller was aborted                    *)

storeVars == <<jobs, cacheIndex, queue, activeFills>>
jobVars == <<made, key, createdAt, deadlineAt, status>>
fillVars == <<filling, ending, working, aborted>>
vars == <<now, storeVars, jobVars, fillVars>>

Results == {"complete", "failed"}
Statuses == {"queued", "running", "expired"} \cup Results

Init ==
  /\ now = 0
  /\ made = 0
  /\ jobs = {}
  /\ cacheIndex = [k \in Keys |-> NoJob]
  /\ queue = <<>>
  /\ activeFills = 0
  /\ key = [j \in Jobs |-> CHOOSE k \in Keys : TRUE]
  /\ createdAt = [j \in Jobs |-> 0]
  /\ deadlineAt = [j \in Jobs |-> 0]
  /\ status = [j \in Jobs |-> "queued"]
  /\ filling = {}
  /\ ending = {}
  /\ working = {}
  /\ aborted = {}

\* A task starts when all microtasks have run.
Task == ending = {}

-------------------------------------------------------------------------------
(* expireJob, remove and drain, as what they leave of a state.  A state of  *)
(* the store is a record here, because submit changes it several times.     *)

Store == [jobs |-> jobs, index |-> cacheIndex, queue |-> queue,
          active |-> activeFills, created |-> createdAt, status |-> status,
          deadline |-> deadlineAt, filling |-> filling, ending |-> ending,
          working |-> working, aborted |-> aborted]

Becomes(after) ==
  \E s \in {after} :
    /\ jobs' = s.jobs
    /\ cacheIndex' = s.index
    /\ queue' = s.queue
    /\ activeFills' = s.active
    /\ createdAt' = s.created
    /\ status' = s.status
    /\ deadlineAt' = s.deadline
    /\ filling' = s.filling
    /\ ending' = s.ending
    /\ working' = s.working
    /\ aborted' = s.aborted

ExpiresAt(s, j) == s.created[j] + Ttl

\* Mutant of Stopped: the signals do not fire.
StoppedUnsignalled(s, gone) ==
  [s EXCEPT !.filling = @ \ gone,
            !.ending = @ \cup (gone \cap s.filling)]

\* The runFill calls of gone learn that they are over, and their signals fire.
Stopped(s, gone) ==
  [s EXCEPT !.filling = @ \ gone,
            !.ending = @ \cup (gone \cap s.filling),
            !.aborted = @ \cup (gone \cap s.filling)]

Unindexed(index, gone) ==
  [k \in Keys |-> IF index[k] \in gone THEN NoJob ELSE index[k]]

\* Mutant of Expired: the key still leads to the expired job.
ExpiredStaysIndexed(s, gone) ==
  LET them == {j \in gone \cap s.jobs : s.status[j] # "expired"} IN
  Stopped([s EXCEPT !.status = [j \in Jobs |-> IF j \in them THEN "expired"
                                               ELSE s.status[j]]], them)

\* expireJob() on each of gone that is in the map and not expired.
Expired(s, gone) ==
  LET them == {j \in gone \cap s.jobs : s.status[j] # "expired"} IN
  Stopped([s EXCEPT !.index = Unindexed(s.index, them),
                    !.status = [j \in Jobs |-> IF j \in them THEN "expired"
                                               ELSE s.status[j]]], them)

\* evictExpired()
Due(s) == {j \in s.jobs : \/ ExpiresAt(s, j) <= now
                          \/ s.status[j] = "running" /\ s.deadline[j] <= now}

Evicted(s) == Expired(s, Due(s))

\* Mutant of Removed: the runFill of the removed job is not told.
RemovedSilently(s, j) ==
  [s EXCEPT !.jobs = @ \ {j}, !.index = Unindexed(s.index, {j}),
            !.aborted = @ \cup ({j} \cap s.filling)]

\* remove()
Removed(s, j) ==
  Stopped([s EXCEPT !.jobs = @ \ {j}, !.index = Unindexed(s.index, {j})], {j})

\* What drain() finds at a place of the queue: a job to fill, or one that was
\* removed or has expired.
Waiting(s, i) == s.queue[i] \in s.jobs /\ s.status[s.queue[i]] = "queued"

\* The places that drain() gives a slot to: those with fewer waiting jobs
\* before them than there are free slots.
Starts(s) ==
  LET places == {i \in DOMAIN s.queue : Waiting(s, i)} IN
  {i \in places : Cardinality({h \in places : h < i})
                    < MaxConcurrentFills - s.active}

\* Mutant of Drained: a stale job at the head ends the loop.
DrainedUntilStale(s) ==
  LET free == {i \in Starts(s) : \A h \in 1 .. i : Waiting(s, h)}
      last == Cardinality(free)
      begun == {s.queue[i] : i \in free}
      late == {j \in begun : ExpiresAt(s, j) <= now}
      run == begun \ late
      begin == [s EXCEPT
        !.queue = SubSeq(s.queue, last + 1, Len(s.queue)),
        !.active = @ + Cardinality(begun),
        !.status = [j \in Jobs |-> IF j \in run THEN "running" ELSE s.status[j]],
        !.deadline = [j \in Jobs |-> IF j \in run THEN now + MaxFillDuration
                                     ELSE s.deadline[j]],
        !.filling = @ \cup run,
        !.working = @ \cup run,
        !.ending = @ \cup late]
  IN Expired(begin, late)

\* drain() and the synchronous part of each runFill() it calls.
Drained(s) ==
  LET starts == Starts(s)
      begun == {s.queue[i] : i \in starts}
      late == {j \in begun : ExpiresAt(s, j) <= now}
      run == begun \ late
      full == s.active + Cardinality(begun) = MaxConcurrentFills
      taken == IF ~full THEN DOMAIN s.queue
               ELSE {i \in DOMAIN s.queue : \E h \in starts : i <= h}
      begin == [s EXCEPT
        !.queue = SubSeq(s.queue, Cardinality(taken) + 1, Len(s.queue)),
        !.active = @ + Cardinality(begun),
        !.status = [j \in Jobs |-> IF j \in run THEN "running" ELSE s.status[j]],
        !.deadline = [j \in Jobs |-> IF j \in run THEN now + MaxFillDuration
                                     ELSE s.deadline[j]],
        !.filling = @ \cup run,
        !.working = @ \cup run,
        !.ending = @ \cup late]
  IN Expired(begin, late)

-------------------------------------------------------------------------------
(* The tasks.                                                              *)

\* submit() of a key that has a live job: only the expired ones change.
SubmitKnown(k) ==
  /\ Task
  /\ Evicted(Store).index[k] # NoJob
  /\ Becomes(Evicted(Store))
  /\ UNCHANGED <<now, made, key>>

\* A new job under a key.
Added(s, j, k) ==
  [s EXCEPT !.jobs = @ \cup {j}, !.index[k] = j, !.queue = Append(@, j),
            !.created[j] = now]

\* The jobs that enforceMaxEntries() may remove first: the oldest; ids are
\* random, so any of those made at the same time.
Oldest(s, protected) ==
  LET others == s.jobs \ {protected} IN
  {j \in others : \A h \in others : s.created[j] <= s.created[h]}

\* submit() of a key that has none.
SubmitNew(k) ==
  /\ Task
  /\ made < MaxJobs /\ now <= LastSubmit
  /\ made' = made + 1
  /\ key' = [key EXCEPT ![made + 1] = k]
  /\ \E s \in {Evicted(Store)} :
       /\ s.index[k] = NoJob
       /\ \E added \in {Added(s, made + 1, k)} :
            IF Cardinality(added.jobs) <= MaxEntries
            THEN Becomes(Drained(added))
            ELSE \E old \in Oldest(added, made + 1) :
                   \E fewer \in {Removed(added, old)} : Becomes(Drained(fewer))
  /\ UNCHANGED now

\* get() of any job, known or not.
Get ==
  /\ Task
  /\ Becomes(Evicted(Store))
  /\ UNCHANGED <<now, made, key>>

\* The timer of a fill fires, some time after it is due; remove() clears it.
TimerFires(j) ==
  /\ Task
  /\ j \in filling \cap jobs
  /\ deadlineAt[j] <= now \/ ExpiresAt(Store, j) <= now
  /\ \E s \in {Expired(Store, {j})} : Becomes(Stopped(s, {j}))
  /\ UNCHANGED <<now, made, key>>

\* Mutant of FillSettles: a result that comes after the outcome is kept too.
FillSettlesLate(j, result) ==
  /\ Task
  /\ j \in working
  /\ Becomes([Store EXCEPT !.working = @ \ {j}, !.filling = @ \ {j},
                           !.ending = @ \cup ({j} \cap filling),
                           !.status[j] = result])
  /\ UNCHANGED <<now, made, key>>

\* The promise of a fill settles.  While runFill waits, a good result is kept,
\* and a bad one or a rejection is a failure; later it is not listened to.
FillSettles(j, result) ==
  /\ Task
  /\ j \in working
  /\ Becomes([Store EXCEPT !.working = @ \ {j}, !.filling = @ \ {j},
                           !.ending = @ \cup ({j} \cap filling),
                           !.status[j] = IF j \in filling THEN result ELSE @])
  /\ UNCHANGED <<now, made, key>>

\* The microtasks: runFill returns, its slot is freed, and drain() runs.
EndFill(j) ==
  /\ j \in ending
  /\ \E s \in {[Store EXCEPT !.ending = @ \ {j}, !.active = @ - 1]} :
       Becomes(Drained(s))
  /\ UNCHANGED <<now, made, key>>

Tick ==
  /\ Task
  /\ now < EndOfTime
  /\ now' = now + 1
  /\ UNCHANGED <<storeVars, jobVars, fillVars>>

Next ==
  \/ \E k \in Keys : SubmitKnown(k) \/ SubmitNew(k)
  \/ Get
  \/ \E j \in Jobs : TimerFires(j) \/ EndFill(j)
  \/ \E j \in Jobs, result \in Results : FillSettles(j, result)
  \/ Tick

Spec == Init /\ [][Next]_vars

\* Microtasks run, time passes and timers fire; a fill may never settle.
FairSpec ==
  /\ Spec
  /\ WF_vars(\E j \in Jobs : EndFill(j))
  /\ WF_vars(\E j \in Jobs : TimerFires(j))
  /\ WF_vars(Tick)

-------------------------------------------------------------------------------
(* Properties.                                                             *)

\* Types of all variables.
TypeOK ==
  /\ now \in 0 .. EndOfTime
  /\ made \in 0 .. MaxJobs
  /\ jobs \subseteq 1 .. made
  /\ cacheIndex \in [Keys -> Jobs \cup {NoJob}]
  /\ queue \in Seq(1 .. made)
  /\ activeFills \in 0 .. MaxConcurrentFills
  /\ key \in [Jobs -> Keys]
  /\ createdAt \in [Jobs -> 0 .. LastSubmit]
  /\ deadlineAt \in [Jobs -> 0 .. EndOfTime + MaxFillDuration]
  /\ status \in [Jobs -> Statuses]
  /\ filling \subseteq Jobs /\ ending \subseteq Jobs
  /\ working \subseteq Jobs /\ aborted \subseteq Jobs

\* The slot counter counts the runFill calls, and a fill without a slot has
\* been told to stop: no more than maxConcurrentFills work on for a result
\* somebody wants (drain, expireJob, remove).
SlotsCounted ==
  /\ activeFills = Cardinality(filling \cup ending)
  /\ filling \cap ending = {}
  /\ working \ (filling \cup ending) \subseteq aborted
  /\ Cardinality(working \ aborted) <= MaxConcurrentFills

\* A key leads to the one job of that key that has not expired, and the map
\* stays within maxEntries (submit, expireJob, remove).
IndexIsExact ==
  /\ TypeOK
  /\ \A j \in jobs : status[j] # "expired" => cacheIndex[key[j]] = j
  /\ \A k \in Keys : cacheIndex[k] # NoJob =>
       /\ cacheIndex[k] \in jobs
       /\ status[cacheIndex[k]] # "expired"
       /\ key[cacheIndex[k]] = k
  /\ Cardinality(jobs) <= MaxEntries

\* No slot is free while a job that somebody can still ask for waits for one,
\* whatever stale jobs stand before it in the queue (drain).
NoIdleSlot ==
  /\ \A j \in jobs : status[j] = "queued" =>
       \E i \in DOMAIN queue : queue[i] = j
  /\ Task /\ activeFills < MaxConcurrentFills =>
       \A j \in jobs : status[j] # "queued"

\* Every slot is counted, and used while a job waits.
SlotsAreUsed == SlotsCounted /\ NoIdleSlot

\* What a client was told stays true: a result stays until it expires, an
\* expired job stays expired, and a job that was removed is not touched by the
\* fill that still runs for it (runFill, expireJob, remove).
OutcomesStay ==
  [][\A j \in 1 .. made :
       /\ status[j] \in Results => status'[j] \in {status[j], "expired"}
       /\ status[j] = "expired" => status'[j] = "expired"
       /\ j \notin jobs => status'[j] = status[j] /\ j \notin jobs']_vars

\* A job is not queued or running for ever, even when no fill ever settles
\* (drain, runFill, the deadline's timer).
JobsEnd ==
  \A j \in Jobs :
    (j \in jobs /\ status[j] \in {"queued", "running"}) ~>
    ~(j \in jobs /\ status[j] \in {"queued", "running"})

===============================================================================
