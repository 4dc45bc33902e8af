------------------------- MODULE CronSchedulerProofs -------------------------
(***************************************************************************)
(* Safety of the autonomy scheduler, for any jobs, workers, limits and     *)
(* bounds: a slot of a schedule queues one run, and what existing jobs     *)
(* have in the queue or in dispatch stays within the limits.               *)
(*                                                                         *)
(* The slots: the key a job carries, in the store and in the state file,   *)
(* tells whether the slot it is due for has been served (SlotsKept); the   *)
(* slots served lie in the past (FiredPast), so an edit to a later time    *)
(* asks for a new one.                                                     *)
(*                                                                         *)
(* The backlog: a run is in one place only, the queue or one worker        *)
(* (RunsApart), so what leaves the counts of the policy has left them      *)
(* both, and the runs of existing jobs are counted while they wait         *)
(* (WaitingCounted).  What the policy admits is then within the limits.    *)
(***************************************************************************)
EXTENDS CronScheduler, FiniteSetTheorems, SequenceTheorems, TLAPS

(***************************************************************************)
(* The invariant.                                                          *)
(***************************************************************************)
\* Slots were served for jobs that have run, not later than now.
FiredPast == \A s \in fired : /\ s[1] \in ToSet(run)
                              /\ s[2] = "at" => s[3] <= now
                              /\ s[2] = "minute" => s[3] <= Minute[now]

\* The key of a job tells what the minute and its own time have served: it
\* reads what the job's zone shows, unless something else wrote it in the minute
\* or the job was moved to another zone.
KeyTells(j, job) ==
    job # Nil =>
        /\ <<j, "minute", Minute[now]>> \in fired /\ <<j, Minute[now]>> \notin touched =>
              job.key = MinuteKey(job)
        /\ job.mode = "one_shot" /\ <<j, "at", job.run_at>> \in fired => job.key = Consumed

\* It does in the store and in the state file, while saves succeed.
SlotsKept ==
    "disk" \notin faults => \A j \in Jobs : KeyTells(j, jobs[j]) /\ KeyTells(j, disk[j])

\* A run waits in one place.
RunsApart ==
    /\ \A m, n \in DOMAIN queue : queue[m] = queue[n] => m = n
    /\ \A w \in Workers : held[w] \notin ToSet(queue)
    /\ \A v, w \in Workers : held[v] = held[w] /\ held[w] # 0 => v = w

\* The policy counts what waits for a job that is still there.
WaitingCounted ==
    "reload" \notin faults =>
        \A r \in Waiting : jobs[run[r]] # Nil => r \in Outstanding

IInv ==
    /\ TypeOK
    /\ FiredPast
    /\ SlotsKept
    /\ OncePerSlot
    /\ RunsApart
    /\ WaitingCounted
    /\ BacklogBounded

(***************************************************************************)
(* Lemmas about the operators.                                             *)
(***************************************************************************)
\* The larger and the smaller of two numbers.
LEMMA MaxOfTwo ==
  ASSUME NEW a \in Int, NEW b \in Int
  PROVE  Max({a, b}) \in {a, b} /\ Max({a, b}) >= a /\ Max({a, b}) >= b
<1>1. \E x \in {a, b} : \A y \in {a, b} : x >= y
  <2>1. CASE a >= b
      BY <2>1
  <2>2. CASE ~(a >= b)
      BY <2>2
  <2> QED BY <2>1, <2>2
<1> QED BY <1>1 DEF Max

LEMMA MinOfTwo ==
  ASSUME NEW a \in Int, NEW b \in Int
  PROVE  Min({a, b}) \in {a, b} /\ Min({a, b}) <= a /\ Min({a, b}) <= b
<1>1. \E x \in {a, b} : \A y \in {a, b} : x =< y
  <2>1. CASE a <= b
      BY <2>1
  <2>2. CASE ~(a <= b)
      BY <2>2
  <2> QED BY <2>1, <2>2
<1> QED BY <1>1 DEF Min

\* The limits and bounds are numbers.
LEMMA Numbers ==
  /\ MaxPerJob \in Nat \ {0} /\ MaxPending \in Nat \ {0}
  /\ TickPerJob \in Nat \ {0} /\ TickPending \in Nat \ {0}
  /\ MaxNow \in Nat /\ MaxRuns \in Nat /\ MaxEdits \in Nat /\ MaxEvents \in Nat
BY CronAssumption

\* An instant lies in a minute of every zone, and minutes are no other keys.
LEMMA Clock ==
  ASSUME now \in Instants
  PROVE  /\ now \in Nat
         /\ Minute[now] \in UtcMinutes /\ Minute[now] \in Nat
         /\ \A job \in Job : /\ MinuteKey(job) \in LocalMinutes
                             /\ MinuteKey(job) # Consumed
<1>1. Minute[now] \in UtcMinutes /\ Minute[now] \in Nat
    BY CronAssumption DEF UtcMinutes
<1>2. ASSUME NEW job \in Job
      PROVE  MinuteKey(job) \in LocalMinutes /\ MinuteKey(job) # Consumed
  <2>1. job.zone \in Zones
      BY DEF Job
  <2>2. Local[job.zone] \in [Instants -> Nat]
      BY <2>1, CronAssumption
  <2>3. MinuteKey(job) \in Nat
      BY <2>2 DEF MinuteKey
  <2>4. MinuteKey(job) \in {Local[job.zone][t] : t \in Instants}
      BY DEF MinuteKey
  <2>5. MinuteKey(job) \in LocalMinutes
      BY <2>1, <2>4 DEF LocalMinutes
  <2> QED BY <2>3, <2>5, CronAssumption
<1>3. now \in Nat
    BY Numbers DEF Instants
<1> QED BY <1>1, <1>2, <1>3

LEMMA LimitsAreMaxima ==
  /\ Max({MaxPerJob, TickPerJob}) \in Nat
  /\ Max({MaxPerJob, TickPerJob}) >= MaxPerJob /\ Max({MaxPerJob, TickPerJob}) >= TickPerJob
  /\ Max({MaxPending, TickPending}) \in Nat
  /\ Max({MaxPending, TickPending}) >= MaxPending
  /\ Max({MaxPending, TickPending}) >= TickPending
<1>1. /\ MaxPerJob \in Int /\ TickPerJob \in Int /\ MaxPending \in Int /\ TickPending \in Int
    BY Numbers
<1>2. /\ Max({MaxPerJob, TickPerJob}) \in {MaxPerJob, TickPerJob}
      /\ Max({MaxPerJob, TickPerJob}) >= MaxPerJob /\ Max({MaxPerJob, TickPerJob}) >= TickPerJob
    BY <1>1, MaxOfTwo
<1>3. /\ Max({MaxPending, TickPending}) \in {MaxPending, TickPending}
      /\ Max({MaxPending, TickPending}) >= MaxPending
      /\ Max({MaxPending, TickPending}) >= TickPending
    BY <1>1, MaxOfTwo
<1> QED BY <1>2, <1>3, Numbers

\* The bounded counters.
LEMMA Counted ==
  ASSUME TypeOK, Edit \/ Event \/ UNCHANGED bounds
  PROVE  edits' \in 0 .. MaxEdits /\ events' \in 0 .. MaxEvents
BY Numbers DEF TypeOK, Edit, Event, bounds

\* The fields of a job that an operation or a trigger writes.
LEMMA JobEdits ==
  ASSUME NEW job \in Job, now \in Instants
  PROVE  /\ Triggered(job) \in Job
         /\ [job EXCEPT !.key = Consumed, !.enabled = FALSE, !.cool = TRUE] \in Job
         /\ [job EXCEPT !.key = Never, !.cool = TRUE] \in Job
         /\ [job EXCEPT !.cool = FALSE] \in Job
         /\ [job EXCEPT !.enabled = FALSE] \in Job
BY Clock DEF Job, Triggered

\* A save that succeeds writes the store; one that fails is remembered.
LEMMA Saved ==
  ASSUME TypeOK, Save(jobs'), faults' = SaveFaults, jobs' \in [Jobs -> Job \cup {Nil}]
  PROVE  /\ disk' \in [Jobs -> Job \cup {Nil}]
         /\ faults' \subseteq {"crash", "reload", "stop", "disk"}
         /\ faults \subseteq faults'
         /\ "disk" \notin faults' => disk' = jobs'
BY DEF TypeOK, Save, SaveFaults

\* The runs that count are finitely many.
LEMMA RunsFinite ==
  ASSUME TypeOK
  PROVE  /\ DOMAIN run = 1 .. Len(run) /\ Len(run) \in Nat
         /\ IsFiniteSet(DOMAIN run)
         /\ IsFiniteSet(Outstanding) /\ Cardinality(Outstanding) \in Nat
<1>1. DOMAIN run = 1 .. Len(run) /\ Len(run) \in Nat
    BY DEF TypeOK
<1>2. IsFiniteSet(DOMAIN run)
    BY <1>1, FS_Interval
<1>3. Outstanding \subseteq DOMAIN run
    BY DEF TypeOK, Outstanding
<1> QED BY <1>1, <1>2, <1>3, FS_Subset, FS_CardinalityType

\* The jobs a tick admits: each once, and only while there is room.
LEMMA AdmittedJobs ==
  ASSUME TypeOK, NEW ready \in SUBSET Jobs, NEW js \in Admitted(ready)
  PROVE  /\ js \in Seq(Jobs)
         /\ ToSet(js) \subseteq ready
         /\ \A m, n \in DOMAIN js : js[m] = js[n] => m = n
         /\ Len(js) = 0 \/ Len(js) + Cardinality(Outstanding) <= TickPending
<1>1. js \in SetToAllKPermutations(ready)
    BY DEF Admitted
<1>2. PICK s \in SUBSET ready : js \in SetToSeqs(s)
    BY <1>1 DEF SetToAllKPermutations
<1>3. /\ IsFiniteSet(s) /\ Cardinality(s) \in Nat
      /\ IsFiniteSet(ready) /\ Cardinality(ready) \in Nat
    BY CronAssumption, FS_Subset, FS_CardinalityType
<1>4. /\ js \in [1 .. Cardinality(s) -> s]
      /\ \A m, n \in 1 .. Cardinality(s) : m # n => js[m] # js[n]
    BY <1>2 DEF SetToSeqs
<1>5. js \in Seq(s) /\ Len(js) \in Nat /\ DOMAIN js = 1 .. Len(js)
    BY <1>3, <1>4
<1>6. js \in Seq(Jobs) /\ ToSet(js) \subseteq ready
    BY <1>5 DEF ToSet
<1>7. \A m, n \in DOMAIN js : js[m] = js[n] => m = n
    BY <1>4
<1>8. Len(js) = 0 \/ Len(js) + Cardinality(Outstanding) <= TickPending
  <2> DEFINE c == Cardinality(Outstanding)
             room == TickPending - c
             most == Max({0, room})
  <2>1. c \in Nat /\ TickPending \in Nat /\ room \in Int
      BY RunsFinite, CronAssumption
  <2>2. Len(js) = Min({Cardinality(ready), most})
      BY DEF Admitted
  <2>3. room + c = TickPending
      BY <2>1
  <2> HIDE DEF c, room
  <2>4. most \in {0, room}
    <3>1. 0 \in Int
        OBVIOUS
    <3> QED BY <2>1, <3>1, MaxOfTwo
  <2>5. Min({Cardinality(ready), most}) <= most
    <3>1. most \in Int
        BY <2>1, <2>4
    <3> HIDE DEF most
    <3> QED BY <3>1, <1>3, MinOfTwo
  <2>6. Len(js) \in Nat /\ Len(js) <= most
      BY <2>2, <2>5, <1>5
  <2>7. Len(js) = 0 \/ Len(js) + c <= TickPending
    <3> HIDE DEF most
    <3> QED BY <2>1, <2>3, <2>4, <2>6
  <2> QED BY <2>7 DEF c
<1> QED BY <1>6, <1>7, <1>8

\* What a concatenation holds.
LEMMA Concatenated ==
  ASSUME NEW S, NEW s \in Seq(S), NEW t \in Seq(S)
  PROVE  /\ s \o t \in Seq(S)
         /\ DOMAIN (s \o t) = 1 .. Len(s) + Len(t)
         /\ \A i \in DOMAIN s : (s \o t)[i] = s[i]
         /\ \A i \in DOMAIN t : (s \o t)[Len(s) + i] = t[i]
         /\ ToSet(s \o t) = ToSet(s) \cup ToSet(t)
         /\ (/\ \A m, n \in DOMAIN s : s[m] = s[n] => m = n
             /\ \A m, n \in DOMAIN t : t[m] = t[n] => m = n
             /\ ToSet(s) \cap ToSet(t) = {})
            => \A m, n \in DOMAIN (s \o t) : (s \o t)[m] = (s \o t)[n] => m = n
<1> DEFINE c == s \o t
<1>1. /\ Len(s) \in Nat /\ DOMAIN s = 1 .. Len(s)
      /\ Len(t) \in Nat /\ DOMAIN t = 1 .. Len(t)
    OBVIOUS
<1>2. /\ c \in Seq(S) /\ Len(c) = Len(s) + Len(t)
      /\ \A i \in 1 .. Len(s) + Len(t) : c[i] = IF i <= Len(s) THEN s[i] ELSE t[i - Len(s)]
    BY ConcatProperties
<1> HIDE DEF c
<1>3. DOMAIN c = 1 .. Len(s) + Len(t)
    BY <1>2
<1>4. \A i \in DOMAIN s : i \in DOMAIN c /\ c[i] = s[i]
    BY <1>1, <1>2, <1>3
<1>5. \A i \in DOMAIN t : Len(s) + i \in DOMAIN c /\ c[Len(s) + i] = t[i]
    BY <1>1, <1>2, <1>3
<1>6. \A i \in DOMAIN c : \/ i \in DOMAIN s /\ c[i] = s[i]
                          \/ i - Len(s) \in DOMAIN t /\ c[i] = t[i - Len(s)]
    BY <1>1, <1>2, <1>3
<1>7. ToSet(c) = ToSet(s) \cup ToSet(t)
    BY <1>4, <1>5, <1>6 DEF ToSet
<1>8. ASSUME \A m, n \in DOMAIN s : s[m] = s[n] => m = n,
             \A m, n \in DOMAIN t : t[m] = t[n] => m = n,
             ToSet(s) \cap ToSet(t) = {},
             NEW m \in DOMAIN c, NEW n \in DOMAIN c, c[m] = c[n]
      PROVE  m = n
  <2>1. \A i \in DOMAIN s, k \in DOMAIN t : s[i] # t[k]
      BY <1>8 DEF ToSet
  <2>2. CASE m \in DOMAIN s /\ c[m] = s[m]
      BY <2>1, <2>2, <1>6, <1>8
  <2>3. CASE m - Len(s) \in DOMAIN t /\ c[m] = t[m - Len(s)]
    <3>1. n - Len(s) \in DOMAIN t /\ c[n] = t[n - Len(s)]
        BY <2>1, <2>3, <1>6, <1>8
    <3>2. m - Len(s) = n - Len(s)
        BY <2>3, <3>1, <1>8
    <3> QED BY <3>2, <1>1, <1>3
  <2> QED BY <2>2, <2>3, <1>6
<1> QED BY <1>2, <1>3, <1>4, <1>5, <1>7, <1>8 DEF c

\* What Enqueue() appends: fresh numbers at the end of the runs and the queue.
NewRuns(js) == {Len(run) + i : i \in DOMAIN js}

LEMMA Enqueued ==
  ASSUME TypeOK, NEW js \in Seq(Jobs), Enqueue(js)
  PROVE  /\ run' \in Seq(Jobs)
         /\ DOMAIN run' = DOMAIN run \cup NewRuns(js)
         /\ \A r \in DOMAIN run : run'[r] = run[r]
         /\ \A i \in DOMAIN js : run'[Len(run) + i] = js[i]
         /\ queue' \in Seq(DOMAIN run')
         /\ ToSet(queue') = ToSet(queue) \cup NewRuns(js)
         /\ pending' = pending \cup NewRuns(js)
         /\ NewRuns(js) \cap DOMAIN run = {}
         /\ (\A m, n \in DOMAIN queue : queue[m] = queue[n] => m = n)
            => \A m, n \in DOMAIN queue' : queue'[m] = queue'[n] => m = n
         /\ ToSet(run') = ToSet(run) \cup ToSet(js)
<1> DEFINE ids == [i \in DOMAIN js |-> Len(run) + i]
           D == DOMAIN run \cup NewRuns(js)
<1>1. /\ run' = run \o js /\ queue' = queue \o ids
      /\ pending' = pending \cup NewRuns(js)
    BY DEF Enqueue, NewRuns
<1>2. /\ run \in Seq(Jobs) /\ Len(run) \in Nat /\ DOMAIN run = 1 .. Len(run)
      /\ Len(js) \in Nat /\ DOMAIN js = 1 .. Len(js)
    BY DEF TypeOK
<1>3. NewRuns(js) \cap DOMAIN run = {}
    BY <1>2 DEF NewRuns
<1>4. D = 1 .. Len(run) + Len(js)
  <2>1. \A n \in 1 .. Len(run) + Len(js) : n > Len(run) =>
            n - Len(run) \in DOMAIN js /\ n = Len(run) + (n - Len(run))
      BY <1>2
  <2>2. ASSUME NEW n \in 1 .. Len(run) + Len(js)
        PROVE  n \in D
    <3>1. CASE n > Len(run)
        BY <3>1, <2>1 DEF NewRuns
    <3>2. CASE ~(n > Len(run))
        BY <3>2, <1>2
    <3> QED BY <3>1, <3>2
  <2> QED BY <1>2, <2>2 DEF NewRuns
<1>5. /\ run \o js \in Seq(Jobs)
      /\ DOMAIN (run \o js) = 1 .. Len(run) + Len(js)
      /\ \A r \in DOMAIN run : (run \o js)[r] = run[r]
      /\ \A i \in DOMAIN js : (run \o js)[Len(run) + i] = js[i]
      /\ ToSet(run \o js) = ToSet(run) \cup ToSet(js)
    BY <1>2, Concatenated
<1>6. ToSet(queue) \subseteq DOMAIN run
    BY DEF TypeOK, ToSet
<1>7. ToSet(ids) = NewRuns(js) /\ \A m, n \in DOMAIN ids : ids[m] = ids[n] => m = n
    BY <1>2 DEF ToSet, NewRuns
<1>8. queue \in Seq(D) /\ ids \in Seq(D)
  <2>1. ids \in [1 .. Len(js) -> D]
      BY <1>2 DEF NewRuns
  <2>2. Len(queue) \in Nat /\ queue \in [1 .. Len(queue) -> D]
      BY DEF TypeOK
  <2> QED BY <1>2, <2>1, <2>2
<1> HIDE DEF ids, D
<1>9. /\ queue \o ids \in Seq(D)
      /\ ToSet(queue \o ids) = ToSet(queue) \cup ToSet(ids)
      /\ (\A m, n \in DOMAIN queue : queue[m] = queue[n] => m = n)
         => \A m, n \in DOMAIN (queue \o ids) : (queue \o ids)[m] = (queue \o ids)[n] => m = n
    BY <1>3, <1>6, <1>7, <1>8, Concatenated
<1>10. D = DOMAIN run \cup NewRuns(js)
    BY DEF D
<1> QED BY <1>1, <1>3, <1>4, <1>5, <1>7, <1>9, <1>10

\* The head of the queue leaves it.
LEMMA Dequeued ==
  ASSUME TypeOK, RunsApart, queue # <<>>
  PROVE  /\ Head(queue) \in DOMAIN run
         /\ Tail(queue) \in Seq(DOMAIN run)
         /\ ToSet(queue) = {Head(queue)} \cup ToSet(Tail(queue))
         /\ Head(queue) \notin ToSet(Tail(queue))
         /\ \A m, n \in DOMAIN Tail(queue) : Tail(queue)[m] = Tail(queue)[n] => m = n
<1> DEFINE t == Tail(queue)
<1>1. /\ Head(queue) \in DOMAIN run /\ t \in Seq(DOMAIN run)
      /\ Len(t) = Len(queue) - 1
      /\ \A i \in 1 .. Len(t) : t[i] = queue[i + 1]
    BY HeadTailProperties DEF TypeOK
<1>2. /\ Len(queue) \in Nat /\ DOMAIN queue = 1 .. Len(queue) /\ Len(queue) >= 1
      /\ Len(t) \in Nat /\ DOMAIN t = 1 .. Len(t) /\ Head(queue) = queue[1]
    BY <1>1 DEF TypeOK
<1>3. \A i \in DOMAIN t : i + 1 \in DOMAIN queue /\ i + 1 # 1 /\ t[i] = queue[i + 1]
    BY <1>1, <1>2
<1>4. \A n \in DOMAIN queue : n # 1 => n - 1 \in DOMAIN t /\ queue[n] = t[n - 1]
    BY <1>1, <1>2
<1>5. ToSet(queue) \subseteq {Head(queue)} \cup ToSet(t)
    BY <1>2, <1>4 DEF ToSet
<1>6. {Head(queue)} \cup ToSet(t) \subseteq ToSet(queue)
    BY <1>2, <1>3 DEF ToSet
<1>7. Head(queue) \notin ToSet(t)
    BY <1>2, <1>3 DEF ToSet, RunsApart
<1>8. \A m, n \in DOMAIN t : t[m] = t[n] => m = n
  <2> SUFFICES ASSUME NEW m \in DOMAIN t, NEW n \in DOMAIN t, t[m] = t[n]
               PROVE  m = n
      OBVIOUS
  <2>1. m + 1 = n + 1
      BY <1>3 DEF RunsApart
  <2> QED BY <2>1, <1>2
<1> QED BY <1>1, <1>5, <1>6, <1>7, <1>8

\* A tick queues due jobs within the limits, each once, and saves.
LEMMA Ticked ==
  ASSUME TypeOK, tick_once
  PROVE  \E js \in Seq(Jobs) :
            /\ Enqueue(js)
            /\ \A m, n \in DOMAIN js : js[m] = js[n] => m = n
            /\ ToSet(js) \subseteq Jobs
            /\ \A j \in ToSet(js) : Due(j) /\ Backlog(j) < TickPerJob
            /\ Len(js) = 0 \/ Len(js) + Cardinality(Outstanding) <= TickPending
            /\ jobs' = [j \in Jobs |-> IF j \in ToSet(js) THEN Triggered(jobs[j])
                                                        ELSE jobs[j]]
            /\ fired' = fired \cup {Slot(j) : j \in ToSet(js)}
            /\ twice' = twice \cup ({Slot(j) : j \in ToSet(js)} \cap fired)
            /\ touched' = touched \cup {<<j, Minute[now]>> :
                              j \in {i \in ToSet(js) : jobs[i].mode = "one_shot"}}
<1> DEFINE ready == {j \in {k \in Jobs : Due(k)} : Backlog(j) < TickPerJob}
<1>1. PICK js \in Admitted(ready) :
            /\ Enqueue(js)
            /\ jobs' = [j \in Jobs |-> IF j \in ToSet(js) THEN Triggered(jobs[j])
                                                        ELSE jobs[j]]
            /\ fired' = fired \cup {Slot(j) : j \in ToSet(js)}
            /\ twice' = twice \cup ({Slot(j) : j \in ToSet(js)} \cap fired)
            /\ touched' = touched \cup {<<j, Minute[now]>> :
                              j \in {i \in ToSet(js) : jobs[i].mode = "one_shot"}}
    BY DEF tick_once
<1>2. /\ ready \in SUBSET Jobs
      /\ \A j \in ready : Due(j) /\ Backlog(j) < TickPerJob
    OBVIOUS
<1> HIDE DEF ready
<1>3. /\ js \in Seq(Jobs)
      /\ ToSet(js) \subseteq ready
      /\ \A m, n \in DOMAIN js : js[m] = js[n] => m = n
      /\ Len(js) = 0 \/ Len(js) + Cardinality(Outstanding) <= TickPending
    BY <1>2, AdmittedJobs
<1> QED BY <1>1, <1>2, <1>3

\* A manual run is one run of one job.
LEMMA OneRun ==
  ASSUME NEW j \in Jobs
  PROVE  /\ <<j>> \in Seq(Jobs) /\ Len(<<j>>) = 1 /\ DOMAIN <<j>> = {1}
         /\ ToSet(<<j>>) = {j}
         /\ \A m, n \in DOMAIN <<j>> : <<j>>[m] = <<j>>[n] => m = n
BY DEF ToSet


(***************************************************************************)
(* The steps.                                                              *)
(***************************************************************************)
\* The initial states satisfy the invariant.
LEMMA InvInit == Init => IInv
<1> SUFFICES ASSUME Init PROVE IInv
    OBVIOUS
<1>1. TypeOK
  <2>1. << >> \in Seq(Jobs) /\ DOMAIN << >> = {} /\ << >> \in Seq({})
      OBVIOUS
  <2>2. 0 \in Instants /\ 0 \in 0 .. MaxEdits /\ 0 \in 0 .. MaxEvents
      BY Numbers DEF Instants
  <2> QED BY <2>1, <2>2 DEF Init, TypeOK
<1>2. Waiting = {} /\ DOMAIN queue = {}
    BY DEF Init, Waiting, ToSet
<1>3. FiredPast /\ SlotsKept /\ OncePerSlot
    BY DEF Init, FiredPast, SlotsKept, KeyTells, MinuteKey, OncePerSlot
<1>4. RunsApart /\ WaitingCounted
    BY <1>2 DEF Init, RunsApart, WaitingCounted, ToSet
<1>5. BacklogBounded
  <2>1. \A js \in SUBSET Jobs : {r \in Waiting : run[r] \in js} = {}
      BY <1>2
  <2>2. /\ \A j \in Jobs : {r \in Waiting : run[r] \in {j}} = {}
        /\ {r \in Waiting : run[r] \in Existing} = {}
      BY <2>1 DEF Existing
  <2> QED BY <2>2, LimitsAreMaxima, FS_EmptySet DEF BacklogBounded
<1> QED BY <1>1, <1>3, <1>4, <1>5 DEF IInv

\* Every step keeps the types.
LEMMA TypeStep ==
  ASSUME TypeOK, RunsApart, [Next]_vars
  PROVE  TypeOK'
<1>1. ASSUME NEW j \in Jobs, create_job(j)
      PROVE  TypeOK'
  <2>1. jobs' \in [Jobs -> Job \cup {Nil}]
    <3>1. \A mode \in {"recurring", "one_shot"}, cron \in Crons, zone \in Zones,
              at \in Instants :
              Fresh(mode, cron, zone, at) \in Job
        BY DEF Fresh, Job
    <3> QED BY <1>1, <3>1 DEF create_job, TypeOK
  <2>2. edits' \in 0 .. MaxEdits /\ events' \in 0 .. MaxEvents
      BY <1>1, Counted DEF create_job
  <2>3. /\ disk' \in [Jobs -> Job \cup {Nil}]
        /\ faults' \subseteq {"crash", "reload", "stop", "disk"}
      BY <1>1, <2>1, Saved DEF create_job
  <2> QED BY <1>1, <2>1, <2>2, <2>3 DEF create_job, TypeOK, flowVars, taskVars, slotVars
<1>2. ASSUME NEW j \in Jobs, update_job(j)
      PROVE  TypeOK'
  <2>1. jobs' \in [Jobs -> Job \cup {Nil}]
      BY <1>2 DEF update_job, TypeOK
  <2>2. edits' \in 0 .. MaxEdits /\ events' \in 0 .. MaxEvents
      BY <1>2, Counted DEF update_job
  <2>3. /\ disk' \in [Jobs -> Job \cup {Nil}]
        /\ faults' \subseteq {"crash", "reload", "stop", "disk"}
      BY <1>2, <2>1, Saved DEF update_job
  <2>4. touched' \subseteq Jobs \X UtcMinutes
      BY <1>2, Clock DEF update_job, TypeOK
  <2> QED BY <1>2, <2>1, <2>2, <2>3, <2>4 DEF update_job, TypeOK, flowVars, taskVars
<1>3. ASSUME NEW j \in Jobs, delete_job(j)
      PROVE  TypeOK'
    BY <1>3, CronAssumption DEF TypeOK, delete_job, Edit, Save, SaveFaults,
       flowVars, taskVars, slotVars
<1>4. ASSUME NEW j \in Jobs, run_now(j)
      PROVE  TypeOK'
  <2>1. jobs' \in [Jobs -> Job \cup {Nil}]
    <3>1. jobs[j] \in Job /\ now \in Instants
        BY <1>4 DEF run_now, TypeOK
    <3> QED BY <1>4, <3>1, JobEdits DEF run_now, TypeOK
  <2>2. edits' \in 0 .. MaxEdits /\ events' \in 0 .. MaxEvents
      BY <1>4, Counted DEF run_now
  <2>3. /\ disk' \in [Jobs -> Job \cup {Nil}]
        /\ faults' \subseteq {"crash", "reload", "stop", "disk"}
      BY <1>4, <2>1, Saved DEF run_now
  <2>4. /\ run' \in Seq(Jobs) /\ queue' \in Seq(DOMAIN run')
        /\ pending' \subseteq DOMAIN run' /\ DOMAIN run \subseteq DOMAIN run'
    <3>1. Enqueue(<<j>>) /\ pending \subseteq DOMAIN run
        BY <1>4 DEF run_now, TypeOK
    <3> QED BY <3>1, OneRun, Enqueued
  <2>5. touched' \subseteq Jobs \X UtcMinutes
      BY <1>4, Clock DEF run_now, TypeOK
  <2> QED BY <1>4, <2>1, <2>2, <2>3, <2>4, <2>5 DEF run_now, TypeOK, taskVars
<1>5. ASSUME NEW j \in Jobs, CooledDown(j)
      PROVE  TypeOK'
  <2>1. jobs' \in [Jobs -> Job \cup {Nil}]
    <3>1. jobs[j] \in Job /\ now \in Instants
        BY <1>5 DEF CooledDown, TypeOK
    <3> QED BY <1>5, <3>1, JobEdits DEF CooledDown, TypeOK
  <2>2. edits' \in 0 .. MaxEdits /\ events' \in 0 .. MaxEvents
      BY <1>5, Counted DEF CooledDown
  <2>3. disk' \in [Jobs -> Job \cup {Nil}]
    <3>1. disk[j] # Nil => disk[j] \in Job
        BY DEF TypeOK
    <3>2. now \in Instants
        BY DEF TypeOK
    <3> QED BY <1>5, <3>1, <3>2, JobEdits DEF CooledDown, TypeOK
  <2> QED BY <1>5, <2>1, <2>2, <2>3 DEF CooledDown, TypeOK, flowVars, taskVars, slotVars
<1>6. ASSUME NEW w \in Workers, TakeSaveFails(w)
      PROVE  TypeOK'
    BY <1>6, CronAssumption, Dequeued DEF TypeOK, TakeSaveFails, SaveFaults, bounds,
       slotVars
<1>7. ASSUME NEW w \in Workers, TakeAndRecord(w)
      PROVE  TypeOK'
    BY <1>7, CronAssumption, Dequeued DEF TypeOK, TakeAndRecord, Save, bounds,
       taskVars, slotVars
<1>8. ASSUME NEW w \in Workers, TakeAndSubmit(w)
      PROVE  TypeOK'
    BY <1>8, CronAssumption, Dequeued DEF TypeOK, TakeAndSubmit, Save, bounds,
       taskVars, slotVars
<1>9. ASSUME NEW w \in Workers, Finish(w)
      PROVE  TypeOK'
  <2>1. jobs' \in [Jobs -> Job \cup {Nil}]
    <3>1. held[w] \in DOMAIN run /\ run[held[w]] \in Jobs /\ now \in Instants
        BY <1>9 DEF Finish, TypeOK
    <3>2. jobs[run[held[w]]] # Nil => jobs[run[held[w]]] \in Job
        BY <3>1 DEF TypeOK
    <3> QED BY <1>9, <3>1, <3>2, JobEdits DEF Finish, TypeOK
  <2>2. edits' \in 0 .. MaxEdits /\ events' \in 0 .. MaxEvents
      BY <1>9, Counted DEF Finish
  <2>3. /\ disk' \in [Jobs -> Job \cup {Nil}]
        /\ faults' \subseteq {"crash", "reload", "stop", "disk"}
      BY <1>9, <2>1, Saved DEF Finish
  <2>4. /\ running' \subseteq DOMAIN run /\ ended' \subseteq DOMAIN run
        /\ held' \in [Workers -> {0} \cup DOMAIN run] /\ alive' \subseteq Workers
      BY <1>9 DEF Finish, TypeOK
  <2> QED BY <1>9, <2>1, <2>2, <2>3, <2>4 DEF Finish, TypeOK, slotVars
<1>10. CASE tick_once
  <2>1. PICK js \in Seq(Jobs) :
            /\ Enqueue(js)
            /\ ToSet(js) \subseteq Jobs
            /\ \A j \in ToSet(js) : Due(j)
            /\ jobs' = [j \in Jobs |-> IF j \in ToSet(js) THEN Triggered(jobs[j])
                                                        ELSE jobs[j]]
            /\ fired' = fired \cup {Slot(j) : j \in ToSet(js)}
            /\ twice' = twice \cup ({Slot(j) : j \in ToSet(js)} \cap fired)
            /\ touched' = touched \cup {<<j, Minute[now]>> :
                              j \in {i \in ToSet(js) : jobs[i].mode = "one_shot"}}
      BY <1>10, Ticked
  <2>2. now \in Instants /\ \A j \in ToSet(js) : jobs[j] \in Job
      BY <2>1 DEF Due, TypeOK
  <2>3. jobs' \in [Jobs -> Job \cup {Nil}]
      BY <2>1, <2>2, JobEdits DEF TypeOK
  <2>4. /\ disk' \in [Jobs -> Job \cup {Nil}]
        /\ faults' \subseteq {"crash", "reload", "stop", "disk"}
      BY <1>10, <2>3, Saved DEF tick_once
  <2>5. edits' \in 0 .. MaxEdits /\ events' \in 0 .. MaxEvents
      BY <1>10, Counted DEF tick_once
  <2>6. /\ run' \in Seq(Jobs) /\ queue' \in Seq(DOMAIN run')
        /\ pending' \subseteq DOMAIN run' /\ DOMAIN run \subseteq DOMAIN run'
      BY <2>1, Enqueued DEF TypeOK
  <2>7. \A j \in ToSet(js) : Slot(j) \in Jobs \X {"minute", "at"} \X (Instants \cup UtcMinutes)
      BY <2>1, <2>2, Clock DEF Slot, Job
  <2>8. fired' \cup twice' \subseteq Jobs \X {"minute", "at"} \X (Instants \cup UtcMinutes)
      BY <2>1, <2>7 DEF TypeOK
  <2>9. touched' \subseteq Jobs \X UtcMinutes
      BY <2>1, <2>2, Clock DEF TypeOK
  <2> QED BY <1>10, <2>3, <2>4, <2>5, <2>6, <2>8, <2>9 DEF tick_once, TypeOK, taskVars
<1>11. CASE start
    BY <1>11, CronAssumption, Counted DEF TypeOK, start, Waiting, flowVars,
       taskVars, slotVars
<1>12. CASE stop
    BY <1>12, CronAssumption, Counted DEF TypeOK, stop, storeVars, slotVars
<1>13. CASE Crash
  <2>1. << >> \in Seq(DOMAIN run)
      OBVIOUS
  <2> QED BY <1>13, <2>1, Counted DEF Crash, TypeOK, slotVars
<1>14. CASE Pass
    BY <1>14, CronAssumption, Numbers DEF TypeOK, Instants, Pass, bounds, storeVars,
       flowVars, taskVars, slotVars
<1>15. CASE DiskFails
    BY <1>15, CronAssumption, Counted DEF TypeOK, DiskFails, storeVars, flowVars,
       taskVars, slotVars
<1>16. CASE DiskRecovers
    BY <1>16, CronAssumption DEF TypeOK, DiskRecovers, bounds, storeVars, flowVars,
       taskVars, slotVars
<1>17. CASE UNCHANGED vars
    BY <1>17, CronAssumption DEF TypeOK, vars
<1> QED
    BY <1>1, <1>2, <1>3, <1>4, <1>5, <1>6, <1>7, <1>8, <1>9, <1>10, <1>11, <1>12,
       <1>13, <1>14, <1>15, <1>16, <1>17 DEF Next, WorkerStep

\* A slot is served in its minute, or later when it was missed.
LEMMA FiredPastStep ==
  ASSUME TypeOK, FiredPast, [Next]_vars
  PROVE  FiredPast'
<1>1. ASSUME NEW j \in Jobs, create_job(j)
      PROVE  FiredPast'
    BY <1>1, CronAssumption DEF TypeOK, FiredPast, create_job, Edit, Save,
       SaveFaults, Existing, Fresh, flowVars, taskVars, slotVars
<1>2. ASSUME NEW j \in Jobs, update_job(j)
      PROVE  FiredPast'
    BY <1>2, CronAssumption DEF TypeOK, FiredPast, update_job, Edit, Save,
       SaveFaults, flowVars, taskVars, slotVars
<1>3. ASSUME NEW j \in Jobs, delete_job(j)
      PROVE  FiredPast'
    BY <1>3, CronAssumption DEF TypeOK, FiredPast, delete_job, Edit, Save,
       SaveFaults, flowVars, taskVars, slotVars
<1>4. ASSUME NEW j \in Jobs, run_now(j)
      PROVE  FiredPast'
  <2>1. ToSet(run') = ToSet(run) \cup {j}
    <3>1. Enqueue(<<j>>)
        BY <1>4 DEF run_now
    <3> QED BY <3>1, OneRun, Enqueued
  <2> QED BY <1>4, <2>1 DEF run_now, FiredPast
<1>5. ASSUME NEW j \in Jobs, CooledDown(j)
      PROVE  FiredPast'
    BY <1>5, CronAssumption DEF TypeOK, FiredPast, CooledDown, bounds, flowVars,
       taskVars, slotVars
<1>6. ASSUME NEW w \in Workers, TakeSaveFails(w)
      PROVE  FiredPast'
    BY <1>6, CronAssumption DEF TypeOK, FiredPast, TakeSaveFails, SaveFaults,
       bounds, slotVars
<1>7. ASSUME NEW w \in Workers, TakeAndRecord(w)
      PROVE  FiredPast'
    BY <1>7, CronAssumption DEF TypeOK, FiredPast, TakeAndRecord, Save, bounds,
       taskVars, slotVars
<1>8. ASSUME NEW w \in Workers, TakeAndSubmit(w)
      PROVE  FiredPast'
    BY <1>8, CronAssumption DEF TypeOK, FiredPast, TakeAndSubmit, Save, bounds,
       taskVars, slotVars
<1>9. ASSUME NEW w \in Workers, Finish(w)
      PROVE  FiredPast'
    BY <1>9, CronAssumption DEF TypeOK, FiredPast, Finish, Save, SaveFaults, bounds,
       slotVars
<1>10. CASE tick_once
  <2>1. PICK js \in Seq(Jobs) :
            /\ Enqueue(js)
            /\ \A m, n \in DOMAIN js : js[m] = js[n] => m = n
            /\ ToSet(js) \subseteq Jobs
            /\ \A j \in ToSet(js) : Due(j) /\ Backlog(j) < TickPerJob
            /\ Len(js) = 0 \/ Len(js) + Cardinality(Outstanding) <= TickPending
            /\ jobs' = [j \in Jobs |-> IF j \in ToSet(js) THEN Triggered(jobs[j])
                                                        ELSE jobs[j]]
            /\ fired' = fired \cup {Slot(j) : j \in ToSet(js)}
            /\ twice' = twice \cup ({Slot(j) : j \in ToSet(js)} \cap fired)
            /\ touched' = touched \cup {<<j, Minute[now]>> :
                              j \in {i \in ToSet(js) : jobs[i].mode = "one_shot"}}
      BY <1>10, Ticked
  <2>2. /\ now \in Nat
        /\ \A j \in ToSet(js) :
              /\ jobs[j] \in Job /\ jobs[j] # Nil /\ jobs[j].run_at \in Nat
              /\ IF jobs[j].mode = "one_shot"
                 THEN jobs[j].key # Consumed /\ jobs[j].run_at <= now
                 ELSE jobs[j].key # MinuteKey(jobs[j])
    <3>1. \A j \in ToSet(js) : jobs[j] \in Job
        BY <2>1 DEF Due, TypeOK
    <3> QED BY <2>1, <3>1, Numbers DEF Due, TypeOK, Job, Instants
  <2>3. ToSet(run') = ToSet(run) \cup ToSet(js)
      BY <2>1, Enqueued
  <2>4. \A j \in ToSet(js) : /\ Slot(j)[1] = j
                             /\ Slot(j)[2] = "at" => Slot(j)[3] <= now
                             /\ Slot(j)[2] = "minute" => Slot(j)[3] <= Minute[now]
      BY <2>2, Clock DEF Slot, TypeOK
  <2> QED BY <1>10, <2>1, <2>3, <2>4 DEF tick_once, FiredPast
<1>11. CASE start
    BY <1>11, CronAssumption DEF TypeOK, FiredPast, start, Event, Waiting, flowVars,
       taskVars, slotVars
<1>12. CASE stop
    BY <1>12, CronAssumption DEF TypeOK, FiredPast, stop, Event, storeVars, slotVars
<1>13. CASE Crash
    BY <1>13, CronAssumption DEF TypeOK, FiredPast, Crash, Event, slotVars
<1>14. CASE Pass
  <2>1. /\ now \in Nat /\ now \in Instants /\ now' \in Instants /\ now <= now'
      BY <1>14, Numbers DEF Pass, TypeOK, Instants
  <2>2. Minute[now] \in Nat /\ Minute[now'] \in Nat /\ Minute[now] <= Minute[now']
      BY <2>1, CronAssumption
  <2>3. \A s \in fired : s[3] \in Nat
      BY Numbers, CronAssumption DEF TypeOK, Instants, UtcMinutes
  <2>4. now' \in Nat
      BY <2>1, Numbers DEF Instants
  <2> QED BY <1>14, <2>1, <2>2, <2>3, <2>4 DEF Pass, FiredPast, slotVars, flowVars
<1>15. CASE DiskFails
    BY <1>15, CronAssumption DEF TypeOK, FiredPast, DiskFails, Event, storeVars,
       flowVars, taskVars, slotVars
<1>16. CASE DiskRecovers
    BY <1>16, CronAssumption DEF TypeOK, FiredPast, DiskRecovers, bounds, storeVars,
       flowVars, taskVars, slotVars
<1>17. CASE UNCHANGED vars
    BY <1>17, CronAssumption DEF TypeOK, FiredPast, vars
<1> QED
    BY <1>1, <1>2, <1>3, <1>4, <1>5, <1>6, <1>7, <1>8, <1>9, <1>10, <1>11, <1>12,
       <1>13, <1>14, <1>15, <1>16, <1>17 DEF Next, WorkerStep

\* Keys and slots change together, in the store and in the file.
LEMMA SlotsKeptStep ==
  ASSUME TypeOK, RunsApart, FiredPast, SlotsKept, [Next]_vars
  PROVE  SlotsKept'
<1>1. ASSUME NEW j \in Jobs, create_job(j)
      PROVE  SlotsKept'
  <2> SUFFICES ASSUME "disk" \notin faults'
               PROVE  \A k \in Jobs : KeyTells(k, jobs[k])' /\ KeyTells(k, disk[k])'
      BY DEF SlotsKept
  <2>1. /\ "disk" \notin faults /\ disk' = jobs'
        /\ jobs' \in [Jobs -> Job \cup {Nil}]
    <3>1. jobs' \in [Jobs -> Job \cup {Nil}]
        BY TypeStep DEF TypeOK
    <3> QED BY <1>1, <3>1, Saved DEF create_job
  <2>2. \A k \in Jobs : KeyTells(k, jobs[k])
      BY <2>1 DEF SlotsKept
  <2>3. ASSUME NEW k \in Jobs
        PROVE  KeyTells(k, jobs[k])'
    <3>1. jobs'[k] = jobs[k] \/ k = j
        BY <1>1 DEF create_job, TypeOK
    <3>2. \A s \in fired : s[1] # j
        BY <1>1 DEF create_job, FiredPast
    <3>3. \A x, t : <<j, x, t>> \notin fired
        BY <3>2
    <3> QED BY <1>1, <2>2, <3>1, <3>3 DEF create_job, KeyTells, MinuteKey, slotVars
  <2> QED BY <2>1, <2>3 DEF KeyTells
<1>2. ASSUME NEW j \in Jobs, update_job(j)
      PROVE  SlotsKept'
  <2> SUFFICES ASSUME "disk" \notin faults'
               PROVE  \A k \in Jobs : KeyTells(k, jobs[k])' /\ KeyTells(k, disk[k])'
      BY DEF SlotsKept
  <2>1. /\ "disk" \notin faults /\ disk' = jobs'
        /\ jobs' \in [Jobs -> Job \cup {Nil}]
    <3>1. jobs' \in [Jobs -> Job \cup {Nil}]
        BY TypeStep DEF TypeOK
    <3> QED BY <1>2, <3>1, Saved DEF update_job
  <2>2. \A k \in Jobs : KeyTells(k, jobs[k])
      BY <2>1 DEF SlotsKept
  <2>3. ASSUME NEW k \in Jobs
        PROVE  KeyTells(k, jobs[k])'
    <3>1. PICK new \in Job :
              /\ new.key = jobs[j].key
              /\ IF new.mode = "one_shot"
                 THEN new.run_at \in {jobs[j].run_at} \cup (now + 1) .. MaxNow
                 ELSE new.run_at = 0
              /\ new.mode # jobs[j].mode /\ new.mode = "one_shot" => new.run_at > now
              /\ jobs' = [jobs EXCEPT ![j] = new]
              /\ touched' = IF new.zone = jobs[j].zone THEN touched
                            ELSE touched \cup {<<j, Minute[now]>>}
        BY <1>2 DEF update_job
    <3>2. CASE k # j
      <4>1. jobs'[k] = jobs[k] /\ touched \subseteq touched'
          BY <3>1, <3>2 DEF TypeOK
      <4>2. UNCHANGED <<now, fired>>
          BY <1>2 DEF update_job
      <4> QED BY <2>2, <4>1, <4>2 DEF KeyTells, MinuteKey
    <3>3. CASE k = j
      <4>1. jobs'[k] = new /\ jobs[j] # Nil /\ jobs[j] \in Job
          BY <1>2, <3>1, <3>3 DEF update_job, TypeOK
      <4>2. now \in Nat /\ jobs[j].run_at \in Nat /\ new.run_at \in Nat
            /\ jobs[j].mode \in {"recurring", "one_shot"}
            /\ new.mode \in {"recurring", "one_shot"}
          BY <4>1, Numbers DEF TypeOK, Instants, Job
      <4>3. new.mode = "one_shot" =>
                \/ new.run_at > now
                \/ jobs[j].mode = "one_shot" /\ new.run_at = jobs[j].run_at
        <5>1. new.mode = "one_shot" /\ jobs[j].mode # "one_shot" => new.run_at > now
            BY <3>1
        <5>2. new.mode = "one_shot" => new.run_at \in {jobs[j].run_at} \cup (now + 1) .. MaxNow
            BY <3>1
        <5>3. new.run_at \in (now + 1) .. MaxNow => new.run_at > now
            BY <4>2, Numbers
        <5> QED BY <5>1, <5>2, <5>3
      <4>4. \A t \in Nat : <<j, "at", t>> \in fired => t <= now
          BY DEF FiredPast
      <4>5. /\ <<j, "minute", Minute[now]>> \in fired /\ <<j, Minute[now]>> \notin touched =>
                 jobs[j].key = MinuteKey(jobs[j])
            /\ jobs[j].mode = "one_shot" /\ <<j, "at", jobs[j].run_at>> \in fired =>
                 jobs[j].key = Consumed
          BY <2>2, <4>1 DEF KeyTells
      <4>6. new.mode = "one_shot" /\ <<j, "at", new.run_at>> \in fired => new.key = Consumed
          BY <3>1, <4>2, <4>3, <4>4, <4>5
      <4>7. <<j, "minute", Minute[now]>> \in fired /\ <<j, Minute[now]>> \notin touched' =>
                new.key = MinuteKey(new)
          BY <3>1, <4>5 DEF MinuteKey
      <4>8. UNCHANGED <<now, fired>>
          BY <1>2 DEF update_job
      <4> QED BY <3>3, <4>1, <4>6, <4>7, <4>8 DEF KeyTells, MinuteKey
    <3> QED BY <3>2, <3>3
  <2> QED BY <2>1, <2>3 DEF KeyTells
<1>3. ASSUME NEW j \in Jobs, delete_job(j)
      PROVE  SlotsKept'
    BY <1>3, CronAssumption DEF TypeOK, SlotsKept, KeyTells, MinuteKey, delete_job, Edit, Save,
       SaveFaults, flowVars, taskVars, slotVars
<1>4. ASSUME NEW j \in Jobs, run_now(j)
      PROVE  SlotsKept'
  <2> SUFFICES ASSUME "disk" \notin faults'
               PROVE  \A k \in Jobs : KeyTells(k, jobs[k])' /\ KeyTells(k, disk[k])'
      BY DEF SlotsKept
  <2>1. /\ "disk" \notin faults /\ disk' = jobs'
        /\ jobs' \in [Jobs -> Job \cup {Nil}]
    <3>1. jobs' \in [Jobs -> Job \cup {Nil}]
        BY TypeStep DEF TypeOK
    <3> QED BY <1>4, <3>1, Saved DEF run_now
  <2>2. \A k \in Jobs : KeyTells(k, jobs[k])
      BY <2>1 DEF SlotsKept
  <2>3. ASSUME NEW k \in Jobs
        PROVE  KeyTells(k, jobs[k])'
    <3>1. CASE k # j
        BY <1>4, <2>2, <3>1 DEF run_now, KeyTells, MinuteKey, TypeOK
    <3>2. CASE k = j
      <4>1. jobs[j] \in Job
          BY <1>4 DEF run_now, TypeOK
      <4>2. /\ jobs'[j].mode = jobs[j].mode
            /\ jobs'[j].mode = "one_shot" => jobs'[j].key = Consumed
          BY <1>4, <4>1 DEF run_now, TypeOK, Job
      <4>3. <<j, Minute[now']>> \in touched'
          BY <1>4 DEF run_now
      <4> QED BY <3>2, <4>2, <4>3 DEF KeyTells
    <3> QED BY <3>1, <3>2
  <2> QED BY <2>1, <2>3 DEF KeyTells
<1>5. ASSUME NEW j \in Jobs, CooledDown(j)
      PROVE  SlotsKept'
  <2>1. UNCHANGED <<now, fired, touched, faults>>
      BY <1>5 DEF CooledDown, slotVars
  <2>2. ASSUME NEW k \in Jobs, NEW old \in Job \cup {Nil}, NEW new,
               new = old \/ new = Nil \/ (old # Nil /\ new = [old EXCEPT !.cool = FALSE]),
               KeyTells(k, old)
        PROVE  KeyTells(k, new)
    <3>1. new # Nil => /\ old # Nil /\ old.mode = new.mode /\ old.run_at = new.run_at
                       /\ old.key = new.key /\ old.zone = new.zone
        BY <2>2 DEF Job
    <3> QED BY <2>2, <3>1 DEF KeyTells, MinuteKey
  <2>3. \A k \in Jobs :
            /\ \/ jobs'[k] = jobs[k] \/ jobs'[k] = Nil
               \/ jobs[k] # Nil /\ jobs'[k] = [jobs[k] EXCEPT !.cool = FALSE]
            /\ \/ disk'[k] = disk[k] \/ disk'[k] = Nil
               \/ disk[k] # Nil /\ disk'[k] = [disk[k] EXCEPT !.cool = FALSE]
      BY <1>5 DEF CooledDown, TypeOK
  <2>4. ASSUME "disk" \notin faults', NEW k \in Jobs
        PROVE  KeyTells(k, jobs[k])' /\ KeyTells(k, disk[k])'
    <3>1. /\ KeyTells(k, jobs[k]) /\ KeyTells(k, disk[k])
          /\ jobs[k] \in Job \cup {Nil} /\ disk[k] \in Job \cup {Nil}
        BY <2>1, <2>4 DEF SlotsKept, TypeOK
    <3>2. KeyTells(k, jobs'[k]) /\ KeyTells(k, disk'[k])
        BY <2>2, <2>3, <3>1
    <3> QED BY <2>1, <3>2 DEF KeyTells, MinuteKey
  <2> QED BY <2>4 DEF SlotsKept
<1>6. ASSUME NEW w \in Workers, TakeSaveFails(w)
      PROVE  SlotsKept'
    BY <1>6, CronAssumption DEF TypeOK, SlotsKept, KeyTells, MinuteKey, TakeSaveFails,
       SaveFaults, bounds, slotVars
<1>7. ASSUME NEW w \in Workers, TakeAndRecord(w)
      PROVE  SlotsKept'
    BY <1>7, CronAssumption DEF TypeOK, SlotsKept, KeyTells, MinuteKey, TakeAndRecord, Save,
       bounds, taskVars, slotVars
<1>8. ASSUME NEW w \in Workers, TakeAndSubmit(w)
      PROVE  SlotsKept'
    BY <1>8, CronAssumption DEF TypeOK, SlotsKept, KeyTells, MinuteKey, TakeAndSubmit, Save,
       bounds, taskVars, slotVars
<1>9. ASSUME NEW w \in Workers, Finish(w)
      PROVE  SlotsKept'
  <2> SUFFICES ASSUME "disk" \notin faults'
               PROVE  \A k \in Jobs : KeyTells(k, jobs[k])' /\ KeyTells(k, disk[k])'
      BY DEF SlotsKept
  <2>1. /\ "disk" \notin faults /\ disk' = jobs'
        /\ jobs' \in [Jobs -> Job \cup {Nil}]
    <3>1. jobs' \in [Jobs -> Job \cup {Nil}]
        BY TypeStep DEF TypeOK
    <3> QED BY <1>9, <3>1, Saved DEF Finish
  <2>2. \A k \in Jobs : KeyTells(k, jobs[k])
      BY <2>1 DEF SlotsKept
  <2>3. ASSUME NEW k \in Jobs
        PROVE  KeyTells(k, jobs[k])'
    <3>1. \/ jobs'[k] = jobs[k]
          \/ jobs[k] # Nil /\ jobs'[k] = [jobs[k] EXCEPT !.enabled = FALSE]
        BY <1>9 DEF Finish, TypeOK
    <3>2. jobs'[k] # Nil => /\ jobs[k] # Nil
                            /\ jobs'[k].mode = jobs[k].mode
                            /\ jobs'[k].run_at = jobs[k].run_at
                            /\ jobs'[k].key = jobs[k].key
                            /\ jobs'[k].zone = jobs[k].zone
        BY <3>1 DEF TypeOK, Job
    <3> QED BY <1>9, <2>2, <3>2 DEF Finish, KeyTells, MinuteKey, slotVars
  <2> QED BY <2>1, <2>3 DEF KeyTells
<1>10. CASE tick_once
  <2> SUFFICES ASSUME "disk" \notin faults'
               PROVE  \A k \in Jobs : KeyTells(k, jobs[k])' /\ KeyTells(k, disk[k])'
      BY DEF SlotsKept
  <2>1. /\ "disk" \notin faults /\ disk' = jobs'
        /\ jobs' \in [Jobs -> Job \cup {Nil}]
    <3>1. jobs' \in [Jobs -> Job \cup {Nil}]
        BY TypeStep DEF TypeOK
    <3> QED BY <1>10, <3>1, Saved DEF tick_once
  <2>2. \A k \in Jobs : KeyTells(k, jobs[k])
      BY <2>1 DEF SlotsKept
  <2>3. ASSUME NEW k \in Jobs
        PROVE  KeyTells(k, jobs[k])'
  <3>1. PICK js \in Seq(Jobs) :
            /\ Enqueue(js)
            /\ \A m, n \in DOMAIN js : js[m] = js[n] => m = n
            /\ ToSet(js) \subseteq Jobs
            /\ \A j \in ToSet(js) : Due(j) /\ Backlog(j) < TickPerJob
            /\ Len(js) = 0 \/ Len(js) + Cardinality(Outstanding) <= TickPending
            /\ jobs' = [j \in Jobs |-> IF j \in ToSet(js) THEN Triggered(jobs[j])
                                                        ELSE jobs[j]]
            /\ fired' = fired \cup {Slot(j) : j \in ToSet(js)}
            /\ twice' = twice \cup ({Slot(j) : j \in ToSet(js)} \cap fired)
            /\ touched' = touched \cup {<<j, Minute[now]>> :
                              j \in {i \in ToSet(js) : jobs[i].mode = "one_shot"}}
        BY <1>10, Ticked
  <3>2. /\ now \in Nat
        /\ \A j \in ToSet(js) :
              /\ jobs[j] \in Job /\ jobs[j] # Nil /\ jobs[j].run_at \in Nat
              /\ IF jobs[j].mode = "one_shot"
                 THEN jobs[j].key # Consumed /\ jobs[j].run_at <= now
                 ELSE jobs[j].key # MinuteKey(jobs[j])
    <4>1. \A j \in ToSet(js) : jobs[j] \in Job
        BY <3>1 DEF Due, TypeOK
    <4> QED BY <3>1, <4>1, Numbers DEF Due, TypeOK, Job, Instants
    <3>3. now' = now /\ touched \subseteq touched'
        BY <1>10, <3>1 DEF tick_once
    <3>4. \A x, t : \A i \in ToSet(js) : <<k, x, t>> = Slot(i) => i = k
        BY DEF Slot
    <3>5. CASE k \notin ToSet(js)
      <4>1. jobs'[k] = jobs[k]
          BY <3>1, <3>5
      <4>2. \A x, t : <<k, x, t>> \in fired' => <<k, x, t>> \in fired
          BY <3>1, <3>4, <3>5
      <4> QED BY <2>2, <3>3, <4>1, <4>2 DEF KeyTells, MinuteKey
    <3>6. CASE k \in ToSet(js) /\ jobs[k].mode = "one_shot"
      <4>1. jobs'[k].key = Consumed
          BY <3>1, <3>2, <3>6 DEF Triggered, Job
      <4>2. <<k, Minute[now]>> \in touched'
          BY <3>1, <3>6
      <4> QED BY <3>3, <4>1, <4>2 DEF KeyTells
    <3>7. CASE k \in ToSet(js) /\ jobs[k].mode # "one_shot"
      <4>1. /\ jobs'[k].key = MinuteKey(jobs[k])
            /\ jobs'[k].zone = jobs[k].zone
            /\ jobs'[k].mode # "one_shot"
          BY <3>1, <3>2, <3>7 DEF Triggered, Job
      <4> QED BY <3>3, <4>1 DEF KeyTells, MinuteKey
    <3> QED BY <3>5, <3>6, <3>7
  <2> QED BY <2>1, <2>3 DEF KeyTells
<1>11. CASE start
    BY <1>11, CronAssumption DEF TypeOK, SlotsKept, KeyTells, MinuteKey, start, Event, Waiting,
       flowVars, taskVars, slotVars
<1>12. CASE stop
    BY <1>12, CronAssumption DEF TypeOK, SlotsKept, KeyTells, MinuteKey, stop, Event,
       storeVars, slotVars
<1>13. CASE Crash
    BY <1>13, CronAssumption DEF TypeOK, SlotsKept, KeyTells, MinuteKey, Crash, Event, slotVars
<1>14. CASE Pass
  <2>1. /\ now \in Instants /\ now' \in Instants
        /\ now \in Nat /\ now' = now + 1
      BY <1>14, Numbers DEF Pass, TypeOK, Instants
  <2>2. Minute[now] \in Nat /\ Minute[now'] \in Nat /\ Minute[now] <= Minute[now']
      BY <2>1, CronAssumption
  <2>3. ASSUME Minute[now'] # Minute[now], NEW j
        PROVE  <<j, "minute", Minute[now']>> \notin fired
      BY <2>2, <2>3 DEF FiredPast
  <2>4. ASSUME Minute[now'] = Minute[now], NEW job \in Job
        PROVE  MinuteKey(job)' = MinuteKey(job)
    <3>1. Local[job.zone][now'] = Local[job.zone][now]
        BY <2>1, <2>4, CronAssumption DEF Job
    <3> QED BY <3>1 DEF MinuteKey
  <2>5. ASSUME NEW j \in Jobs, NEW job \in Job \cup {Nil}, KeyTells(j, job)
        PROVE  /\ job # Nil =>
                    /\ (/\ <<j, "minute", Minute[now']>> \in fired
                        /\ <<j, Minute[now']>> \notin touched)
                       => job.key = Local[job.zone][now']
                    /\ job.mode = "one_shot" /\ <<j, "at", job.run_at>> \in fired
                       => job.key = Consumed
      BY <2>3, <2>4, <2>5 DEF KeyTells, MinuteKey
  <2> QED BY <1>14, <2>5 DEF Pass, SlotsKept, KeyTells, MinuteKey, TypeOK, storeVars, slotVars
<1>15. CASE DiskFails
    BY <1>15, CronAssumption DEF TypeOK, SlotsKept, KeyTells, MinuteKey, DiskFails, Event,
       storeVars, flowVars, taskVars, slotVars
<1>16. CASE DiskRecovers
    BY <1>16, CronAssumption DEF TypeOK, SlotsKept, KeyTells, MinuteKey, DiskRecovers, bounds,
       storeVars, flowVars, taskVars, slotVars
<1>17. CASE UNCHANGED vars
    BY <1>17, CronAssumption DEF TypeOK, SlotsKept, KeyTells, MinuteKey, vars
<1> QED
    BY <1>1, <1>2, <1>3, <1>4, <1>5, <1>6, <1>7, <1>8, <1>9, <1>10, <1>11, <1>12,
       <1>13, <1>14, <1>15, <1>16, <1>17 DEF Next, WorkerStep

\* What is due has not been served.
LEMMA OncePerSlotStep ==
  ASSUME TypeOK, SlotsKept, OncePerSlot, [Next]_vars
  PROVE  OncePerSlot'
<1>1. ASSUME NEW j \in Jobs, create_job(j)
      PROVE  OncePerSlot'
    BY <1>1 DEF OncePerSlot, create_job, Edit, Save, SaveFaults, Existing, Fresh,
       flowVars, taskVars, slotVars
<1>2. ASSUME NEW j \in Jobs, update_job(j)
      PROVE  OncePerSlot'
  <2>1. twice' = twice /\ touched \subseteq touched' /\ faults \subseteq faults'
      BY <1>2 DEF update_job, SaveFaults
  <2> QED BY <2>1 DEF OncePerSlot
<1>3. ASSUME NEW j \in Jobs, delete_job(j)
      PROVE  OncePerSlot'
    BY <1>3 DEF OncePerSlot, delete_job, Edit, Save, SaveFaults, flowVars, taskVars,
       slotVars
<1>4. ASSUME NEW j \in Jobs, run_now(j)
      PROVE  OncePerSlot'
    BY <1>4 DEF OncePerSlot, run_now, Edit, Save, SaveFaults, Outstanding, taskVars
<1>5. ASSUME NEW j \in Jobs, CooledDown(j)
      PROVE  OncePerSlot'
    BY <1>5 DEF OncePerSlot, CooledDown, bounds, flowVars, taskVars, slotVars
<1>6. ASSUME NEW w \in Workers, TakeSaveFails(w)
      PROVE  OncePerSlot'
    BY <1>6 DEF OncePerSlot, TakeSaveFails, SaveFaults, bounds, slotVars
<1>7. ASSUME NEW w \in Workers, TakeAndRecord(w)
      PROVE  OncePerSlot'
    BY <1>7 DEF OncePerSlot, TakeAndRecord, Save, bounds, taskVars, slotVars
<1>8. ASSUME NEW w \in Workers, TakeAndSubmit(w)
      PROVE  OncePerSlot'
    BY <1>8 DEF OncePerSlot, TakeAndSubmit, Save, bounds, taskVars, slotVars
<1>9. ASSUME NEW w \in Workers, Finish(w)
      PROVE  OncePerSlot'
    BY <1>9 DEF OncePerSlot, Finish, Save, SaveFaults, bounds, slotVars
<1>10. CASE tick_once
  <2> SUFFICES ASSUME "disk" \notin faults', NEW s \in twice'
               PROVE  s[2] = "minute" /\ <<s[1], s[3]>> \in touched'
      BY <1>10 DEF OncePerSlot, tick_once
  <2>1. PICK js \in Seq(Jobs) :
            /\ Enqueue(js)
            /\ \A m, n \in DOMAIN js : js[m] = js[n] => m = n
            /\ ToSet(js) \subseteq Jobs
            /\ \A j \in ToSet(js) : Due(j) /\ Backlog(j) < TickPerJob
            /\ Len(js) = 0 \/ Len(js) + Cardinality(Outstanding) <= TickPending
            /\ jobs' = [j \in Jobs |-> IF j \in ToSet(js) THEN Triggered(jobs[j])
                                                        ELSE jobs[j]]
            /\ fired' = fired \cup {Slot(j) : j \in ToSet(js)}
            /\ twice' = twice \cup ({Slot(j) : j \in ToSet(js)} \cap fired)
            /\ touched' = touched \cup {<<j, Minute[now]>> :
                              j \in {i \in ToSet(js) : jobs[i].mode = "one_shot"}}
      BY <1>10, Ticked
  <2>2. /\ now \in Nat
        /\ \A j \in ToSet(js) :
              /\ jobs[j] \in Job /\ jobs[j] # Nil /\ jobs[j].run_at \in Nat
              /\ IF jobs[j].mode = "one_shot"
                 THEN jobs[j].key # Consumed /\ jobs[j].run_at <= now
                 ELSE jobs[j].key # MinuteKey(jobs[j])
    <3>1. \A j \in ToSet(js) : jobs[j] \in Job
        BY <2>1 DEF Due, TypeOK
    <3> QED BY <2>1, <3>1, Numbers DEF Due, TypeOK, Job, Instants
  <2>3. "disk" \notin faults /\ touched \subseteq touched'
      BY <1>10, <2>1 DEF tick_once, SaveFaults
  <2>4. CASE s \in twice
      BY <2>3, <2>4 DEF OncePerSlot
  <2>5. CASE s \notin twice
    <3>1. PICK j \in ToSet(js) : s = Slot(j) /\ s \in fired
        BY <2>1, <2>5
    <3>2. KeyTells(j, jobs[j])
        BY <2>1, <2>3 DEF SlotsKept
    <3>3. CASE jobs[j].mode = "one_shot"
        BY <2>2, <3>1, <3>2, <3>3 DEF Slot, KeyTells
    <3>4. CASE jobs[j].mode # "one_shot"
      <4>1. s = <<j, "minute", Minute[now]>> /\ jobs[j].key # MinuteKey(jobs[j])
          BY <2>2, <3>1, <3>4 DEF Slot
      <4> QED BY <2>2, <2>3, <3>1, <3>2, <4>1 DEF KeyTells
    <3> QED BY <3>3, <3>4
  <2> QED BY <2>4, <2>5
<1>11. CASE start
    BY <1>11 DEF OncePerSlot, start, Event, Waiting, flowVars, taskVars, slotVars
<1>12. CASE stop
    BY <1>12 DEF OncePerSlot, stop, Event, storeVars, slotVars
<1>13. CASE Crash
    BY <1>13 DEF OncePerSlot, Crash, Event, slotVars
<1>14. CASE Pass
    BY <1>14 DEF OncePerSlot, Pass, bounds, storeVars, flowVars, taskVars, slotVars
<1>15. CASE DiskFails
    BY <1>15 DEF OncePerSlot, DiskFails, Event, storeVars, flowVars, taskVars,
       slotVars
<1>16. CASE DiskRecovers
    BY <1>16 DEF OncePerSlot, DiskRecovers, bounds, storeVars, flowVars, taskVars,
       slotVars
<1>17. CASE UNCHANGED vars
    BY <1>17 DEF OncePerSlot, vars
<1> QED
    BY <1>1, <1>2, <1>3, <1>4, <1>5, <1>6, <1>7, <1>8, <1>9, <1>10, <1>11, <1>12,
       <1>13, <1>14, <1>15, <1>16, <1>17 DEF Next, WorkerStep

\* A run goes from the queue to one worker, and never back.
LEMMA RunsApartStep ==
  ASSUME TypeOK, RunsApart, [Next]_vars
  PROVE  RunsApart'
<1>1. ASSUME NEW j \in Jobs, create_job(j)
      PROVE  RunsApart'
    BY <1>1 DEF TypeOK, RunsApart, create_job, Edit, Save, SaveFaults, Existing,
       Fresh, flowVars, taskVars, slotVars
<1>2. ASSUME NEW j \in Jobs, update_job(j)
      PROVE  RunsApart'
    BY <1>2 DEF TypeOK, RunsApart, update_job, Edit, Save, SaveFaults, flowVars,
       taskVars, slotVars
<1>3. ASSUME NEW j \in Jobs, delete_job(j)
      PROVE  RunsApart'
    BY <1>3 DEF TypeOK, RunsApart, delete_job, Edit, Save, SaveFaults, flowVars,
       taskVars, slotVars
<1>4. ASSUME NEW j \in Jobs, run_now(j)
      PROVE  RunsApart'
  <2> DEFINE js == <<j>>
  <2>1. js \in Seq(Jobs) /\ Enqueue(js)
      BY <1>4, OneRun DEF run_now
  <2>2. /\ \A m, n \in DOMAIN queue' : queue'[m] = queue'[n] => m = n
        /\ ToSet(queue') = ToSet(queue) \cup NewRuns(js)
        /\ NewRuns(js) \cap DOMAIN run = {} /\ 0 \notin NewRuns(js)
    <3>1. /\ queue' \in Seq(DOMAIN run') /\ run' \in Seq(Jobs)
          /\ \A m, n \in DOMAIN queue' : queue'[m] = queue'[n] => m = n
          /\ ToSet(queue') = ToSet(queue) \cup NewRuns(js)
          /\ NewRuns(js) \cap DOMAIN run = {} /\ NewRuns(js) \subseteq DOMAIN run'
        BY <2>1, Enqueued DEF RunsApart
    <3> QED BY <3>1
  <2> HIDE DEF js
  <2> QED BY <1>4, <2>2 DEF run_now, TypeOK, RunsApart
<1>5. ASSUME NEW j \in Jobs, CooledDown(j)
      PROVE  RunsApart'
    BY <1>5 DEF TypeOK, RunsApart, CooledDown, bounds, flowVars, taskVars, slotVars
<1>6. ASSUME NEW w \in Workers, TakeSaveFails(w)
      PROVE  RunsApart'
    BY <1>6, Dequeued DEF TypeOK, RunsApart, TakeSaveFails, SaveFaults, bounds,
       slotVars
<1>7. ASSUME NEW w \in Workers, TakeAndRecord(w)
      PROVE  RunsApart'
    BY <1>7, Dequeued DEF TypeOK, RunsApart, TakeAndRecord, Save, bounds, taskVars,
       slotVars
<1>8. ASSUME NEW w \in Workers, TakeAndSubmit(w)
      PROVE  RunsApart'
    BY <1>8, Dequeued DEF TypeOK, RunsApart, TakeAndSubmit, Save, bounds, taskVars,
       slotVars
<1>9. ASSUME NEW w \in Workers, Finish(w)
      PROVE  RunsApart'
  <2>1. 0 \notin ToSet(queue)
      BY DEF TypeOK, ToSet
  <2> QED BY <1>9, <2>1 DEF Finish, TypeOK, RunsApart
<1>10. CASE tick_once
  <2>1. PICK js \in Seq(Jobs) : Enqueue(js)
      BY <1>10, Ticked
  <2>2. /\ \A m, n \in DOMAIN queue' : queue'[m] = queue'[n] => m = n
        /\ ToSet(queue') = ToSet(queue) \cup NewRuns(js)
        /\ NewRuns(js) \cap DOMAIN run = {} /\ 0 \notin NewRuns(js)
    <3>1. /\ queue' \in Seq(DOMAIN run') /\ run' \in Seq(Jobs)
          /\ \A m, n \in DOMAIN queue' : queue'[m] = queue'[n] => m = n
          /\ ToSet(queue') = ToSet(queue) \cup NewRuns(js)
          /\ NewRuns(js) \cap DOMAIN run = {} /\ NewRuns(js) \subseteq DOMAIN run'
        BY <2>1, Enqueued DEF RunsApart
    <3> QED BY <3>1
  <2> QED BY <1>10, <2>2 DEF tick_once, TypeOK, RunsApart
<1>11. CASE start
    BY <1>11 DEF TypeOK, RunsApart, start, Event, Waiting, flowVars, taskVars,
       slotVars
<1>12. CASE stop
  <2>1. 0 \notin ToSet(queue)
      BY DEF TypeOK, ToSet
  <2> QED BY <1>12, <2>1 DEF stop, RunsApart, storeVars
<1>13. CASE Crash
  <2>1. queue' = <<>> /\ DOMAIN queue' = {} /\ ToSet(queue') = {}
      BY <1>13 DEF Crash, ToSet
  <2> QED BY <1>13, <2>1 DEF Crash, RunsApart
<1>14. CASE Pass
    BY <1>14 DEF TypeOK, RunsApart, Pass, bounds, storeVars, flowVars, taskVars,
       slotVars
<1>15. CASE DiskFails
    BY <1>15 DEF TypeOK, RunsApart, DiskFails, Event, storeVars, flowVars, taskVars,
       slotVars
<1>16. CASE DiskRecovers
    BY <1>16 DEF TypeOK, RunsApart, DiskRecovers, bounds, storeVars, flowVars,
       taskVars, slotVars
<1>17. CASE UNCHANGED vars
    BY <1>17 DEF TypeOK, RunsApart, vars
<1> QED
    BY <1>1, <1>2, <1>3, <1>4, <1>5, <1>6, <1>7, <1>8, <1>9, <1>10, <1>11, <1>12,
       <1>13, <1>14, <1>15, <1>16, <1>17 DEF Next, WorkerStep

\* What waits was queued.
LEMMA WaitingRuns ==
  ASSUME TypeOK
  PROVE  Waiting \subseteq DOMAIN run /\ IsFiniteSet(Waiting)
<1>1. Waiting \subseteq DOMAIN run
    BY DEF Waiting, ToSet, TypeOK
<1> QED BY <1>1, RunsFinite, FS_Subset

\* What waits for existing jobs becomes less, and keeps its place in the
\* counts, or the policy admits runs of existing jobs.
Shrinks ==
    /\ run' = run
    /\ faults \subseteq faults'
    /\ "reload" \notin faults' =>
          /\ Waiting' \subseteq Waiting
          /\ \A r \in Waiting' : jobs'[run[r]] # Nil =>
                jobs[run[r]] # Nil /\ (r \in Outstanding => r \in Outstanding')

Grows(js) ==
    /\ Enqueue(js)
    /\ \A m, n \in DOMAIN js : js[m] = js[n] => m = n
    /\ \A j \in ToSet(js) :
          jobs[j] # Nil /\ (Backlog(j) < MaxPerJob \/ Backlog(j) < TickPerJob)
    /\ \/ Len(js) = 0
       \/ Len(js) + Cardinality(Outstanding) <= MaxPending
       \/ Len(js) + Cardinality(Outstanding) <= TickPending
    /\ \A j \in Jobs : jobs'[j] # Nil => jobs[j] # Nil
    /\ running' = running
    /\ held' = held
    /\ faults \subseteq faults'

QueueMoves == Shrinks \/ \E js \in Seq(Jobs) : Grows(js)

\* Every step does one or the other.
LEMMA QueueMovesStep ==
  ASSUME TypeOK, RunsApart, [Next]_vars
  PROVE  QueueMoves
<1>1. ASSUME NEW j \in Jobs, create_job(j)
      PROVE  QueueMoves
  <2>1. Waiting' = Waiting
      BY <1>1 DEF create_job, Waiting, flowVars
  <2>2. \A r \in Waiting : jobs'[run[r]] = jobs[run[r]]
    <3>1. \A r \in Waiting : run[r] \in ToSet(run) /\ run[r] \in Jobs
        BY WaitingRuns DEF TypeOK, ToSet
    <3> QED BY <1>1, <3>1 DEF create_job, TypeOK
  <2> QED BY <1>1, <2>1, <2>2 DEF create_job, QueueMoves, Shrinks, Outstanding,
      SaveFaults, flowVars
<1>2. ASSUME NEW j \in Jobs, update_job(j)
      PROVE  QueueMoves
  <2>1. Waiting' = Waiting
      BY <1>2 DEF update_job, Waiting, flowVars
  <2>2. \A r \in Waiting : jobs'[run[r]] # Nil => jobs[run[r]] # Nil
    <3>1. \A r \in Waiting : run[r] \in Jobs
        BY WaitingRuns DEF TypeOK
    <3> QED BY <1>2, <3>1 DEF update_job, TypeOK
  <2> QED BY <1>2, <2>1, <2>2 DEF update_job, QueueMoves, Shrinks, Outstanding,
      SaveFaults, flowVars
<1>3. ASSUME NEW j \in Jobs, delete_job(j)
      PROVE  QueueMoves
  <2>1. Waiting' = Waiting
      BY <1>3 DEF delete_job, Waiting, flowVars
  <2>2. \A r \in Waiting : jobs'[run[r]] # Nil => jobs[run[r]] # Nil /\ run[r] # j
    <3>1. \A r \in Waiting : run[r] \in Jobs
        BY WaitingRuns DEF TypeOK
    <3> QED BY <1>3, <3>1 DEF delete_job, TypeOK
  <2> QED BY <1>3, <2>1, <2>2 DEF delete_job, QueueMoves, Shrinks, Outstanding,
      SaveFaults, flowVars
<1>4. ASSUME NEW j \in Jobs, run_now(j)
      PROVE  QueueMoves
  <2>1. Waiting' = ToSet(queue') \cup ({held[w] : w \in Workers} \ {0})
      BY <1>4 DEF run_now, Waiting
  <2>2. \A k \in Jobs : jobs'[k] # Nil => jobs[k] # Nil
      BY <1>4 DEF run_now, TypeOK
  <2>3. /\ Cardinality(Outstanding) < MaxPending
        /\ Backlog(j) < MaxPerJob
        /\ Enqueue(<<j>>) /\ running' = running /\ held' = held /\ faults \subseteq faults'
      BY <1>4 DEF run_now, SaveFaults
  <2>4. /\ \A k \in ToSet(<<j>>) :
              jobs[k] # Nil /\ (Backlog(k) < MaxPerJob \/ Backlog(k) < TickPerJob)
        /\ \/ Len(<<j>>) + Cardinality(Outstanding) <= MaxPending
           \/ Len(<<j>>) + Cardinality(Outstanding) <= TickPending
    <3>1. Cardinality(Outstanding) \in Nat /\ MaxPending \in Nat
        BY RunsFinite, Numbers
    <3>2. jobs[j] # Nil
        BY <1>4 DEF run_now
    <3> QED BY <2>3, <3>1, <3>2, OneRun
  <2> QED BY <2>2, <2>3, <2>4, OneRun DEF QueueMoves, Grows
<1>5. ASSUME NEW j \in Jobs, CooledDown(j)
      PROVE  QueueMoves
  <2>1. Waiting' = Waiting
      BY <1>5 DEF CooledDown, Waiting, flowVars
  <2>2. \A r \in Waiting : jobs'[run[r]] # Nil => jobs[run[r]] # Nil
    <3>1. \A r \in Waiting : run[r] \in Jobs
        BY WaitingRuns DEF TypeOK
    <3> QED BY <1>5, <3>1 DEF CooledDown, TypeOK
  <2> QED BY <1>5, <2>1, <2>2 DEF CooledDown, QueueMoves, Shrinks, Outstanding,
      SaveFaults, flowVars
<1>6. ASSUME NEW w \in Workers, TakeSaveFails(w)
      PROVE  QueueMoves
  <2>1. /\ Head(queue) \in DOMAIN run /\ Head(queue) \notin ToSet(queue')
        /\ ToSet(queue) = {Head(queue)} \cup ToSet(queue')
        /\ \A v \in Workers : held[v] # Head(queue)
      BY <1>6, Dequeued DEF TakeSaveFails, RunsApart
  <2>2. Waiting' \subseteq Waiting /\ Head(queue) \notin Waiting'
      BY <1>6, <2>1 DEF TakeSaveFails, Waiting
  <2> QED BY <1>6, <2>2 DEF TakeSaveFails, QueueMoves, Shrinks, Outstanding, SaveFaults
<1>7. ASSUME NEW w \in Workers, TakeAndRecord(w)
      PROVE  QueueMoves
  <2>1. /\ Head(queue) \in DOMAIN run /\ Head(queue) \notin ToSet(queue')
        /\ ToSet(queue) = {Head(queue)} \cup ToSet(queue')
        /\ \A v \in Workers : held[v] # Head(queue)
      BY <1>7, Dequeued DEF TakeAndRecord, RunsApart
  <2>2. Waiting' \subseteq Waiting /\ Head(queue) \notin Waiting'
      BY <1>7, <2>1 DEF TakeAndRecord, Waiting
  <2> QED BY <1>7, <2>2 DEF TakeAndRecord, QueueMoves, Shrinks, Outstanding, SaveFaults
<1>8. ASSUME NEW w \in Workers, TakeAndSubmit(w)
      PROVE  QueueMoves
  <2>1. /\ Head(queue) \in DOMAIN run /\ Head(queue) \notin ToSet(queue')
        /\ ToSet(queue) = {Head(queue)} \cup ToSet(queue')
        /\ \A v \in Workers : held[v] # Head(queue)
      BY <1>8, Dequeued DEF TakeAndSubmit, RunsApart
  <2>2. Waiting' \subseteq Waiting
      BY <1>8, <2>1 DEF TakeAndSubmit, Waiting, TypeOK
  <2> QED BY <1>8, <2>2 DEF TakeAndSubmit, QueueMoves, Shrinks, Outstanding
<1>9. ASSUME NEW w \in Workers, Finish(w)
      PROVE  QueueMoves
  <2>1. Waiting' \subseteq Waiting /\ held[w] \notin Waiting'
      BY <1>9 DEF Finish, Waiting, TypeOK, RunsApart
  <2>2. \A r \in Waiting : jobs'[run[r]] # Nil => jobs[run[r]] # Nil
    <3>1. \A r \in Waiting : run[r] \in Jobs
        BY WaitingRuns DEF TypeOK
    <3> QED BY <1>9, <3>1 DEF Finish, TypeOK
  <2> QED BY <1>9, <2>1, <2>2 DEF Finish, QueueMoves, Shrinks, Outstanding, SaveFaults
<1>10. CASE tick_once
  <2>1. PICK js \in Seq(Jobs) :
            /\ Enqueue(js)
            /\ \A m, n \in DOMAIN js : js[m] = js[n] => m = n
            /\ ToSet(js) \subseteq Jobs
            /\ \A j \in ToSet(js) : Due(j) /\ Backlog(j) < TickPerJob
            /\ Len(js) = 0 \/ Len(js) + Cardinality(Outstanding) <= TickPending
            /\ jobs' = [j \in Jobs |-> IF j \in ToSet(js) THEN Triggered(jobs[j])
                                                        ELSE jobs[j]]
            /\ fired' = fired \cup {Slot(j) : j \in ToSet(js)}
            /\ twice' = twice \cup ({Slot(j) : j \in ToSet(js)} \cap fired)
            /\ touched' = touched \cup {<<j, Minute[now]>> :
                              j \in {i \in ToSet(js) : jobs[i].mode = "one_shot"}}
      BY <1>10, Ticked
  <2>2. \A k \in Jobs : jobs'[k] # Nil => jobs[k] # Nil
      BY <2>1 DEF Due, TypeOK
  <2>3. running' = running /\ held' = held /\ faults \subseteq faults'
      BY <1>10 DEF tick_once, SaveFaults
  <2>4. \A j \in ToSet(js) : jobs[j] # Nil
      BY <2>1 DEF Due
  <2> QED BY <2>1, <2>2, <2>3, <2>4 DEF QueueMoves, Grows
<1>11. CASE start
  <2>1. Waiting' = Waiting
      BY <1>11 DEF start, Waiting, flowVars
  <2> QED BY <1>11, <2>1 DEF start, QueueMoves, Shrinks, flowVars
<1>12. CASE stop
  <2>1. Waiting' \subseteq Waiting
      BY <1>12 DEF stop, Waiting
  <2> QED BY <1>12, <2>1 DEF stop, QueueMoves, Shrinks, Outstanding, storeVars
<1>13. CASE Crash
  <2>1. Waiting' = {}
      BY <1>13 DEF Crash, Waiting, ToSet
  <2> QED BY <1>13, <2>1 DEF Crash, QueueMoves, Shrinks
<1>14. CASE Pass
  <2>1. Waiting' = Waiting
      BY <1>14 DEF Pass, Waiting, flowVars
  <2> QED BY <1>14, <2>1 DEF Pass, QueueMoves, Shrinks, Outstanding, storeVars, flowVars
<1>15. CASE DiskFails
  <2>1. Waiting' = Waiting
      BY <1>15 DEF DiskFails, Waiting, flowVars
  <2> QED BY <1>15, <2>1 DEF DiskFails, QueueMoves, Shrinks, Outstanding, storeVars, flowVars
<1>16. CASE DiskRecovers
  <2>1. Waiting' = Waiting
      BY <1>16 DEF DiskRecovers, Waiting, flowVars
  <2> QED BY <1>16, <2>1 DEF DiskRecovers, QueueMoves, Shrinks, Outstanding, storeVars, flowVars
<1>17. CASE UNCHANGED vars
  <2>1. Waiting' = Waiting
      BY <1>17 DEF vars, Waiting, flowVars
  <2> QED BY <1>17, <2>1 DEF vars, QueueMoves, Shrinks, Outstanding
<1> QED
    BY <1>1, <1>2, <1>3, <1>4, <1>5, <1>6, <1>7, <1>8, <1>9, <1>10, <1>11, <1>12,
       <1>13, <1>14, <1>15, <1>16, <1>17 DEF Next, WorkerStep

\* What the policy admits waits and counts.
LEMMA Admits ==
  ASSUME TypeOK, NEW js \in Seq(Jobs), Grows(js)
  PROVE  /\ Waiting' = Waiting \cup NewRuns(js)
         /\ Outstanding' = Outstanding \cup NewRuns(js)
         /\ \A r \in Waiting : run'[r] = run[r]
         /\ \A i \in DOMAIN js : run'[Len(run) + i] = js[i]
         /\ IsFiniteSet(NewRuns(js)) /\ Cardinality(NewRuns(js)) = Len(js)
<1>1. /\ DOMAIN run' = DOMAIN run \cup NewRuns(js)
      /\ \A r \in DOMAIN run : run'[r] = run[r]
      /\ \A i \in DOMAIN js : run'[Len(run) + i] = js[i]
      /\ run' \in Seq(Jobs)
      /\ ToSet(queue') = ToSet(queue) \cup NewRuns(js)
      /\ pending' = pending \cup NewRuns(js)
    BY Enqueued DEF Grows
<1>2. 0 \notin NewRuns(js)
  <2>1. Len(run) \in Nat /\ DOMAIN js = 1 .. Len(js) /\ Len(js) \in Nat
      BY DEF TypeOK
  <2> QED BY <2>1 DEF NewRuns
<1>3. Waiting' = Waiting \cup NewRuns(js)
    BY <1>1, <1>2 DEF Waiting, Grows
<1>4. Outstanding' = Outstanding \cup NewRuns(js)
    BY <1>1 DEF Outstanding, Grows
<1>5. NewRuns(js) = (Len(run) + 1) .. (Len(run) + Len(js))
  <2>1. Len(run) \in Nat /\ Len(js) \in Nat /\ DOMAIN js = 1 .. Len(js)
      BY DEF TypeOK
  <2>2. ASSUME NEW n \in (Len(run) + 1) .. (Len(run) + Len(js))
        PROVE  n \in NewRuns(js)
    <3>1. n - Len(run) \in DOMAIN js /\ n = Len(run) + (n - Len(run))
        BY <2>1
    <3> QED BY <3>1 DEF NewRuns
  <2>3. NewRuns(js) \subseteq (Len(run) + 1) .. (Len(run) + Len(js))
      BY <2>1 DEF NewRuns
  <2> QED BY <2>2, <2>3
<1>6. IsFiniteSet(NewRuns(js)) /\ Cardinality(NewRuns(js)) = Len(js)
  <2>1. Len(run) \in Nat /\ Len(js) \in Nat
      BY DEF TypeOK
  <2>2. Len(run) + 1 \in Int /\ Len(run) + Len(js) \in Int
      BY <2>1
  <2>3. /\ IsFiniteSet((Len(run) + 1) .. (Len(run) + Len(js)))
        /\ Cardinality((Len(run) + 1) .. (Len(run) + Len(js))) =
              IF Len(run) + 1 > Len(run) + Len(js) THEN 0
              ELSE Len(run) + Len(js) - (Len(run) + 1) + 1
      BY <2>2, FS_Interval
  <2>4. (IF Len(run) + 1 > Len(run) + Len(js) THEN 0
         ELSE Len(run) + Len(js) - (Len(run) + 1) + 1) = Len(js)
      BY <2>1
  <2> QED BY <1>5, <2>3, <2>4
<1> QED BY <1>1, <1>3, <1>4, <1>6, WaitingRuns

\* A waiting run leaves the counts only with its job.
LEMMA WaitingCountedStep ==
  ASSUME TypeOK, RunsApart, WaitingCounted, [Next]_vars
  PROVE  WaitingCounted'
<1>1. CASE Shrinks
    BY <1>1 DEF WaitingCounted, Shrinks
<1>2. ASSUME NEW js \in Seq(Jobs), Grows(js)
      PROVE  WaitingCounted'
  <2>1. /\ Waiting' = Waiting \cup NewRuns(js)
        /\ Outstanding' = Outstanding \cup NewRuns(js)
        /\ \A r \in Waiting : run'[r] = run[r] /\ run[r] \in Jobs
      BY <1>2, Admits, WaitingRuns DEF TypeOK
  <2>2. faults \subseteq faults' /\ \A j \in Jobs : jobs'[j] # Nil => jobs[j] # Nil
      BY <1>2 DEF Grows
  <2> QED BY <2>1, <2>2 DEF WaitingCounted
<1> QED BY <1>1, <1>2, QueueMovesStep DEF QueueMoves

(***************************************************************************)
(* The backlog, in terms of the waiting runs of a set of jobs.             *)
(***************************************************************************)
WaitingFor(S) == {r \in Waiting : run[r] \in S}
PerJobLimit == Max({MaxPerJob, TickPerJob})
TotalLimit == Max({MaxPending, TickPending})

JobBacklogs == \A j \in Jobs : Cardinality(WaitingFor({j})) <= PerJobLimit
TotalBacklog == Cardinality(WaitingFor(Existing)) <= TotalLimit

LEMMA BacklogInParts ==
  BacklogBounded <=> ("reload" \notin faults => JobBacklogs /\ TotalBacklog)
BY DEF BacklogBounded, JobBacklogs, TotalBacklog, WaitingFor, PerJobLimit, TotalLimit

\* Sets of waiting runs are finite, and fewer runs count for less.
LEMMA FewerWaiting ==
  ASSUME TypeOK, NEW S \in SUBSET Waiting
  PROVE  /\ IsFiniteSet(S) /\ Cardinality(S) \in Nat
         /\ \A T \in SUBSET S : Cardinality(T) \in Nat /\ Cardinality(T) <= Cardinality(S)
<1>1. IsFiniteSet(S)
    BY WaitingRuns, FS_Subset
<1>2. ASSUME NEW T \in SUBSET S
      PROVE  Cardinality(T) \in Nat /\ Cardinality(T) <= Cardinality(S)
    BY <1>1, FS_Subset, FS_CardinalityType
<1> QED BY <1>1, <1>2, FS_CardinalityType

\* While less waits, the limits hold.
LEMMA BacklogShrinks ==
  ASSUME TypeOK, JobBacklogs, TotalBacklog, Shrinks, "reload" \notin faults'
  PROVE  JobBacklogs' /\ TotalBacklog'
<1>1. run' = run /\ Waiting' \subseteq Waiting
      /\ \A r \in Waiting' : jobs'[run[r]] # Nil => jobs[run[r]] # Nil
    BY DEF Shrinks
<1>2. PerJobLimit \in Nat /\ TotalLimit \in Nat
    BY LimitsAreMaxima DEF PerJobLimit, TotalLimit
<1>3. ASSUME NEW j \in Jobs
      PROVE  Cardinality(WaitingFor({j})') <= PerJobLimit
  <2>1. WaitingFor({j})' \subseteq WaitingFor({j}) /\ WaitingFor({j}) \subseteq Waiting
      BY <1>1 DEF WaitingFor
  <2>2. /\ Cardinality(WaitingFor({j})') <= Cardinality(WaitingFor({j}))
        /\ Cardinality(WaitingFor({j})') \in Nat /\ Cardinality(WaitingFor({j})) \in Nat
      BY <2>1, FewerWaiting
  <2>3. Cardinality(WaitingFor({j})) <= PerJobLimit
      BY DEF JobBacklogs
  <2> QED BY <1>2, <2>2, <2>3
<1>4. Cardinality(WaitingFor(Existing)') <= TotalLimit
  <2>1. WaitingFor(Existing)' \subseteq WaitingFor(Existing)
        /\ WaitingFor(Existing) \subseteq Waiting
    <3>1. \A r \in Waiting : run[r] \in Jobs
        BY WaitingRuns DEF TypeOK
    <3> QED BY <1>1, <3>1 DEF WaitingFor, Existing
  <2>2. /\ Cardinality(WaitingFor(Existing)') <= Cardinality(WaitingFor(Existing))
        /\ Cardinality(WaitingFor(Existing)') \in Nat
        /\ Cardinality(WaitingFor(Existing)) \in Nat
      BY <2>1, FewerWaiting
  <2>3. Cardinality(WaitingFor(Existing)) <= TotalLimit
      BY DEF TotalBacklog
  <2> QED BY <1>2, <2>2, <2>3
<1>5. PerJobLimit' = PerJobLimit /\ TotalLimit' = TotalLimit
    BY DEF PerJobLimit, TotalLimit
<1> QED BY <1>3, <1>4, <1>5 DEF JobBacklogs, TotalBacklog

\* What the policy admits is within the limits, because it counts what waits.
LEMMA BacklogGrows ==
  ASSUME TypeOK, WaitingCounted, JobBacklogs, TotalBacklog,
         NEW js \in Seq(Jobs), Grows(js), "reload" \notin faults
  PROVE  JobBacklogs' /\ TotalBacklog'
<1>1. /\ Waiting' = Waiting \cup NewRuns(js)
      /\ \A r \in Waiting : run'[r] = run[r] /\ run[r] \in Jobs
      /\ \A i \in DOMAIN js : run'[Len(run) + i] = js[i]
      /\ IsFiniteSet(NewRuns(js)) /\ Cardinality(NewRuns(js)) = Len(js)
      /\ Len(js) \in Nat /\ DOMAIN js = 1 .. Len(js)
    BY Admits, WaitingRuns DEF TypeOK
<1>2. PerJobLimit \in Nat /\ TotalLimit \in Nat
      /\ PerJobLimit >= MaxPerJob /\ PerJobLimit >= TickPerJob
      /\ TotalLimit >= MaxPending /\ TotalLimit >= TickPending
    BY LimitsAreMaxima DEF PerJobLimit, TotalLimit
<1>3. \A r \in Waiting : jobs[run[r]] # Nil => r \in Outstanding
    BY DEF WaitingCounted
<1>4. IsFiniteSet(Outstanding) /\ Cardinality(Outstanding) \in Nat
    BY RunsFinite
<1>5. ASSUME NEW j \in Jobs
      PROVE  Cardinality(WaitingFor({j})') <= PerJobLimit
  <2>1. /\ IsFiniteSet(WaitingFor({j})) /\ Cardinality(WaitingFor({j})) \in Nat
        /\ Cardinality(WaitingFor({j})) <= PerJobLimit
    <3>1. WaitingFor({j}) \subseteq Waiting
        BY DEF WaitingFor
    <3> QED BY <3>1, FewerWaiting DEF JobBacklogs
  <2>2. CASE j \notin ToSet(js)
    <3>1. \A r \in NewRuns(js) : run'[r] # j
        BY <1>1, <2>2 DEF NewRuns, ToSet
    <3>2. WaitingFor({j})' = WaitingFor({j})
        BY <1>1, <3>1 DEF WaitingFor
    <3> QED BY <2>1, <3>2
  <2>3. CASE j \in ToSet(js)
    <3>1. PICK i \in DOMAIN js : js[i] = j
        BY <2>3 DEF ToSet
    <3>2. \A r \in NewRuns(js) : run'[r] = j => r = Len(run) + i
        BY <1>1, <3>1 DEF NewRuns, Grows
    <3>3. WaitingFor({j})' \subseteq WaitingFor({j}) \cup {Len(run) + i}
        BY <1>1, <3>2 DEF WaitingFor
    <3>4. /\ IsFiniteSet(WaitingFor({j}) \cup {Len(run) + i})
          /\ Cardinality(WaitingFor({j}) \cup {Len(run) + i}) <=
                Cardinality(WaitingFor({j})) + 1
          /\ Cardinality(WaitingFor({j}) \cup {Len(run) + i}) \in Nat
      <4>1. /\ IsFiniteSet(WaitingFor({j}) \cup {Len(run) + i})
            /\ Cardinality(WaitingFor({j}) \cup {Len(run) + i}) =
                  IF Len(run) + i \in WaitingFor({j}) THEN Cardinality(WaitingFor({j}))
                  ELSE Cardinality(WaitingFor({j})) + 1
          BY <2>1, FS_AddElement
      <4> QED BY <2>1, <4>1
    <3>5. /\ Cardinality(WaitingFor({j})') \in Nat
          /\ Cardinality(WaitingFor({j})') <=
                Cardinality(WaitingFor({j}) \cup {Len(run) + i})
        BY <3>3, <3>4, FS_Subset, FS_CardinalityType
    <3>6. Cardinality(WaitingFor({j})) <= Backlog(j) /\ Backlog(j) \in Nat
      <4>1. jobs[j] # Nil
          BY <2>3 DEF Grows
      <4>2. WaitingFor({j}) \subseteq {r \in Outstanding : run[r] = j}
          BY <1>3, <4>1 DEF WaitingFor
      <4>3. IsFiniteSet({r \in Outstanding : run[r] = j})
          BY <1>4, FS_Subset
      <4> QED BY <4>2, <4>3, FS_Subset, FS_CardinalityType DEF Backlog
    <3>7. Backlog(j) < MaxPerJob \/ Backlog(j) < TickPerJob
        BY <2>3 DEF Grows
    <3> QED BY <1>2, <2>1, <3>4, <3>5, <3>6, <3>7, Numbers
  <2> QED BY <2>2, <2>3
<1>6. Cardinality(WaitingFor(Existing)') <= TotalLimit
  <2>1. /\ WaitingFor(Existing)' \subseteq WaitingFor(Existing) \cup NewRuns(js)
        /\ WaitingFor(Existing) \subseteq Waiting
        /\ WaitingFor(Existing) \subseteq Outstanding
    <3>1. \A j \in Jobs : jobs'[j] # Nil => jobs[j] # Nil
        BY DEF Grows
    <3> QED BY <1>1, <1>3, <3>1 DEF WaitingFor, Existing
  <2>2. CASE Len(js) = 0
    <3>1. NewRuns(js) = {}
        BY <1>1, <2>2 DEF NewRuns
    <3>2. WaitingFor(Existing)' \subseteq WaitingFor(Existing)
        BY <2>1, <3>1
    <3>3. /\ Cardinality(WaitingFor(Existing)') <= Cardinality(WaitingFor(Existing))
          /\ Cardinality(WaitingFor(Existing)') \in Nat
          /\ Cardinality(WaitingFor(Existing)) \in Nat
        BY <2>1, <3>2, FewerWaiting
    <3> QED BY <1>2, <3>3 DEF TotalBacklog
  <2>3. CASE Len(js) # 0
    <3>1. /\ IsFiniteSet(Outstanding \cup NewRuns(js))
          /\ Cardinality(Outstanding \cup NewRuns(js)) =
                Cardinality(Outstanding) + Len(js)
                - Cardinality(Outstanding \cap NewRuns(js))
        BY <1>1, <1>4, FS_Union
    <3>2. Cardinality(Outstanding \cap NewRuns(js)) \in Nat
        BY <1>4, FS_Subset, FS_CardinalityType
    <3>3. WaitingFor(Existing)' \subseteq Outstanding \cup NewRuns(js)
        BY <2>1
    <3>4. /\ Cardinality(WaitingFor(Existing)') \in Nat
          /\ Cardinality(WaitingFor(Existing)') <= Cardinality(Outstanding \cup NewRuns(js))
        BY <3>1, <3>3, FS_Subset, FS_CardinalityType
    <3>5. \/ Len(js) + Cardinality(Outstanding) <= MaxPending
          \/ Len(js) + Cardinality(Outstanding) <= TickPending
        BY <2>3 DEF Grows
    <3> QED BY <1>1, <1>2, <1>4, <3>1, <3>2, <3>4, <3>5, Numbers
  <2> QED BY <2>2, <2>3
<1>7. PerJobLimit' = PerJobLimit /\ TotalLimit' = TotalLimit
    BY DEF PerJobLimit, TotalLimit
<1> QED BY <1>5, <1>6, <1>7 DEF JobBacklogs, TotalBacklog

\* Every step keeps the backlog within the limits.
LEMMA BacklogBoundedStep ==
  ASSUME TypeOK, RunsApart, WaitingCounted, BacklogBounded, [Next]_vars
  PROVE  BacklogBounded'
<1>1. SUFFICES ASSUME "reload" \notin faults'
               PROVE  JobBacklogs' /\ TotalBacklog'
    BY BacklogInParts DEF BacklogBounded, JobBacklogs, TotalBacklog, WaitingFor,
       PerJobLimit, TotalLimit
<1>2. CASE Shrinks
  <2>1. "reload" \notin faults
      BY <1>1, <1>2 DEF Shrinks
  <2> QED BY <1>1, <1>2, <2>1, BacklogInParts, BacklogShrinks
<1>3. ASSUME NEW js \in Seq(Jobs), Grows(js)
      PROVE  JobBacklogs' /\ TotalBacklog'
  <2>1. "reload" \notin faults
      BY <1>1, <1>3 DEF Grows
  <2> QED BY <1>3, <2>1, BacklogInParts, BacklogGrows
<1> QED BY <1>2, <1>3, QueueMovesStep DEF QueueMoves

(***************************************************************************)
(* The theorems.                                                           *)
(***************************************************************************)
\* Every behaviour of the specification satisfies the invariant.
THEOREM CronInvariant == Spec => []IInv
<1>1. IInv /\ [Next]_vars => IInv'
  <2> SUFFICES ASSUME IInv, [Next]_vars
               PROVE  IInv'
      OBVIOUS
  <2>1. TypeOK' /\ RunsApart'
      BY TypeStep, RunsApartStep DEF IInv
  <2>2. FiredPast' /\ SlotsKept' /\ OncePerSlot'
      BY FiredPastStep, SlotsKeptStep, OncePerSlotStep DEF IInv
  <2>3. WaitingCounted' /\ BacklogBounded'
      BY WaitingCountedStep, BacklogBoundedStep DEF IInv
  <2> QED BY <2>1, <2>2, <2>3 DEF IInv
<1> QED BY InvInit, <1>1, PTL DEF Spec

\* tick_once() queues one run for a slot of a schedule, over restarts, missed
\* times and edits that keep the zone.  A second run of a minute takes
\* something that rewrites last_trigger_key or its meaning in that minute:
\* run_now(), a one-shot firing, an edit of the zone, or a failed save.
THEOREM OncePerSlotHolds == Spec => []OncePerSlot
<1>1. IInv => OncePerSlot
    BY DEF IInv
<1> QED BY <1>1, CronInvariant, PTL

\* check_enqueue_policy() counts the pending list and the running table; the
\* queue and the workers hold no more than its limits allow, for each job and
\* for all existing jobs, unless start() forgot the counts.
THEOREM BacklogStaysBounded == Spec => []BacklogBounded
<1>1. IInv => BacklogBounded
    BY DEF IInv
<1> QED BY <1>1, CronInvariant, PTL

=============================================================================
