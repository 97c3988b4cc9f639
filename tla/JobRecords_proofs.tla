------------------------- MODULE JobRecords_proofs -------------------------
(***************************************************************************)
(* The records of background jobs, for any number of jobs, resume          *)
(* requests, failed writes, crashes and weeks.                             *)
(*                                                                         *)
(* The inductive invariant IInv says what numbers are taken (NumbersOK,    *)
(* UidsOK), what a record, a job and a revision to be written have to do   *)
(* with each other (RecordsOK, JobsOK, NewestOK, PendOK), what a link and  *)
(* a resume request stand for (LinksOK, RequestsOK), and that a job has    *)
(* one successor at most (ResumesOK).                                      *)
(***************************************************************************)
EXTENDS JobRecords, Integers, FiniteSetTheorems, TLAPS

States == {"none", "queued", "working"} \cup Final
RecordType == [uid : Nat, state : States, owner : Nat, reported : BOOLEAN,
           dismissed : BOOLEAN, text : BOOLEAN, from : Nat \X Nat,
           as : Nat \X Nat, old : BOOLEAN]
JobType == [rec : RecordType, rev : Nat, done : BOOLEAN, reported : BOOLEAN,
        owners : BOOLEAN, queued : BOOLEAN]
WriteType == [job : Numbers, rec : RecordType, rev : Nat]
RequestType == [pc : {"idle", "loaded", "checked", "starting"},
            job : {0} \cup Numbers, uid : Nat, new : {0} \cup Numbers]

TypedStore ==
  /\ epoch \in Nat /\ up \in BOOLEAN /\ live \in BOOLEAN
  /\ next \in Nat /\ starts \in 0 .. MaxStarts
  /\ table \in [Numbers -> JobType]
  /\ pend \subseteq WriteType
  /\ written \in [Numbers -> Nat]
TypedFiles ==
  /\ disk \in [Numbers -> RecordType]
  /\ runs \subseteq Numbers
  /\ agents \subseteq Numbers
  /\ succ \in [Numbers -> SUBSET Numbers]
  /\ fails \in Nat /\ weeks \in Nat
TypedRequests ==
  /\ req \in [Requests -> RequestType]
  /\ claims \subseteq Numbers
Typed == TypedStore /\ TypedFiles /\ TypedRequests

Here(n) == table[n] # NoJob
Kept(n) == disk[n] # NoRec
OfTable == {"queued", "working", "ended"}

\* Jobs and requests are of a session that lives.
LiveOK ==
  /\ live => up
  /\ ~live => pend = {} /\ claims = {} /\ \A n \in Numbers : ~Here(n)
  /\ next <= starts

\* Every number given to a job is below the next, whatever is left of it.
NumbersOK ==
  \A n \in Numbers :
    /\ n > starts => ~Kept(n) /\ n \notin runs
    /\ live /\ n > next =>
         ~Kept(n) /\ ~Here(n) /\ n \notin runs /\ written[n] = 0

RecordsOK ==
  \A n \in Numbers :
    /\ disk[n].owner <= epoch
    /\ Kept(n) => disk[n].uid \in 1 .. starts
    /\ disk[n].dismissed => Kept(n) /\ ~disk[n].text
    /\ disk[n].old => weeks > 0

\* A revision of a job in the table.
OfJob(n, r) ==
  /\ r.uid = table[n].rec.uid
  /\ r.from = table[n].rec.from
  /\ r.owner = epoch
  /\ r.state \in OfTable

JobOK(n) ==
  Here(n) =>
    /\ OfJob(n, table[n].rec)
    /\ ~table[n].rec.dismissed
    /\ table[n].rec.uid \in 1 .. starts
    /\ table[n].rev \in 1 .. 4
    /\ table[n].rec.state = "queued" => table[n].rev = 1 /\ ~table[n].done
    /\ ~table[n].done => table[n].rev \in 1 .. 2 /\ ~table[n].reported
    /\ ~table[n].reported => table[n].rev \in 1 .. 3
    /\ Kept(n) => OfJob(n, disk[n])
JobsOK == \A n \in Numbers : JobOK(n)

\* The newest revision was written, or is still to be.
Told(n) == disk[n].state = table[n].rec.state /\ disk[n].reported = table[n].rec.reported
NewestOK ==
  \A n \in Numbers : Here(n) =>
    /\ written[n] <= table[n].rev
    /\ written[n] = table[n].rev
         \/ \E w \in pend : w.job = n /\ w.rev = table[n].rev
    /\ fails = 0 /\ written[n] = table[n].rev /\ Kept(n) /\ ~disk[n].dismissed
         => Told(n)

PendOK ==
  \A w \in pend :
    /\ Here(w.job)
    /\ OfJob(w.job, w.rec)
    /\ ~w.rec.dismissed
    /\ w.rev \in 1 .. table[w.job].rev
    /\ w.rev = table[w.job].rev => w.rec = table[w.job].rec

\* A number is that of one job.
UidsOK ==
  \A n, k \in Numbers : n # k =>
    /\ Kept(n) /\ Kept(k) => disk[n].uid # disk[k].uid
    /\ Here(n) /\ Here(k) => table[n].rec.uid # table[k].rec.uid
    /\ Kept(n) /\ Here(k) => disk[n].uid # table[k].rec.uid

\* A job that was resumed is not of this session, and its record is still its
\* own or gone.
LinkOK(n, l) ==
  l # NoLink =>
    /\ l[1] \in Numbers
    /\ l[1] < n
    /\ l[2] \in Numbers
    /\ ~Here(l[1])
    /\ Kept(l[1]) => disk[l[1]].uid = l[2]
    /\ weeks = 0 => Kept(l[1])
LinksOK ==
  \A n \in Numbers :
    /\ LinkOK(n, disk[n].from)
    /\ Here(n) => LinkOK(n, table[n].rec.from)

Busy(r) == req[r].pc # "idle"
RequestOK(r) ==
  Busy(r) =>
    /\ live
    /\ req[r].job \in claims
    /\ req[r].job <= next
    /\ ~Here(req[r].job)
    /\ req[r].uid \in Numbers
    /\ Kept(req[r].job) => disk[req[r].job].uid = req[r].uid
    /\ weeks = 0 => Kept(req[r].job)
    /\ req[r].pc = "starting" => req[r].new \in Numbers
RequestsOK ==
  /\ \A r \in Requests : RequestOK(r)
  /\ \A r, s \in Requests : Busy(r) /\ Busy(s) /\ r # s => req[r].job # req[s].job

\* n is a job that resumed m.
Resumes(n, m) ==
  \/ Kept(n) /\ disk[n].from[1] = m
  \/ Here(n) /\ table[n].rec.from[1] = m

\* While every write succeeds and no record is pruned.
OneSuccessor ==
  \A m, n, k \in Numbers : Resumes(n, m) /\ Resumes(k, m) => n = k
NoneYet ==
  \A r \in Requests : req[r].pc = "checked" =>
    \A n \in Numbers : ~Resumes(n, req[r].job)
BeingStarted ==
  \A n \in Numbers :
    Here(n) /\ ~Kept(n) =>
      /\ written[n] = 0
      /\ Unspawned(n)
      /\ table[n].rec.from # NoLink =>
           \E r \in Requests : /\ req[r].pc = "starting"
                               /\ req[r].new = n
                               /\ req[r].job = table[n].rec.from[1]
RecordedOnDisk ==
  \A u \in Numbers : \A x \in succ[u] :
    \E n \in Numbers : /\ Kept(n)
                       /\ disk[n].uid = x
                       /\ disk[n].from # NoLink
                       /\ disk[n].from[2] = u
ResumesOK ==
  fails = 0 /\ weeks = 0 =>
    OneSuccessor /\ NoneYet /\ BeingStarted /\ RecordedOnDisk

IInv ==
  /\ Typed
  /\ LiveOK
  /\ NumbersOK
  /\ RecordsOK
  /\ JobsOK
  /\ NewestOK
  /\ PendOK
  /\ UidsOK
  /\ LinksOK
  /\ RequestsOK
  /\ ResumesOK
-----------------------------------------------------------------------------
(* Values                                                                  *)

LEMMA NumbersAreNat ==
  ASSUME RecordsAssumption
  PROVE  /\ MaxStarts \in Nat
         /\ Numbers = 1 .. MaxStarts
         /\ \A n \in Numbers : n \in Nat /\ n >= 1
  BY DEF RecordsAssumption, Numbers

LEMMA NoneTypes ==
  /\ NoRec \in RecordType
  /\ NoJob \in JobType
  /\ Idle \in RequestType
  /\ NoRec.uid = 0 /\ NoRec.owner = 0 /\ NoRec.from = NoLink
  /\ ~NoRec.dismissed /\ ~NoRec.old
  /\ NoJob.rev = 0
  /\ Idle.pc = "idle"
  BY DEF NoRec, NoJob, NoLink, Idle, RecordType, JobType, RequestType, States, Final

\* What write leaves of an old record and the one written over it.
LEMMA MergedIs ==
  ASSUME NEW o \in RecordType, NEW r \in RecordType
  PROVE  /\ Merged(o, r) \in RecordType
         /\ o.dismissed /\ ~r.dismissed => Merged(o, r) = o
         /\ ~(o.dismissed /\ ~r.dismissed) =>
              /\ Merged(o, r).uid = r.uid
              /\ Merged(o, r).state = r.state
              /\ Merged(o, r).owner = r.owner
              /\ Merged(o, r).reported = r.reported
              /\ Merged(o, r).dismissed = r.dismissed
              /\ Merged(o, r).text = r.text
              /\ Merged(o, r).from = IF r.from = NoLink THEN o.from ELSE r.from
              /\ ~Merged(o, r).old
  BY DEF Merged, RecordType, NoLink

-----------------------------------------------------------------------------
(* Steps that change records but no job                                    *)

\* A record that is still of the same job, was pruned, or is unchanged; the
\* newest state of a job in the table stands.
Touched(n) ==
  \/ disk'[n] = disk[n]
  \/ disk'[n] = NoRec /\ weeks > 0
  \/ /\ Kept(n) /\ disk'[n] \in RecordType /\ disk'[n] # NoRec
     /\ disk'[n].uid = disk[n].uid
     /\ disk'[n].from = disk[n].from
     /\ disk'[n].owner = disk[n].owner
     /\ disk'[n].dismissed => ~disk'[n].text
     /\ disk[n].dismissed => disk'[n].dismissed
     /\ disk'[n].old => weeks' > 0
     /\ Here(n) => /\ disk'[n].state = disk[n].state
                   /\ disk'[n].reported = disk[n].reported

SameJobs ==
  /\ UNCHANGED <<epoch, up, live, next, table, pend, written, starts, succ>>
  /\ runs' \subseteq runs
  /\ agents' \subseteq agents
  /\ fails' \in Nat /\ fails' >= fails
  /\ weeks' \in Nat /\ weeks' >= weeks

\* Requests that go on, or end once the job they started was recorded.
SameRequests ==
  /\ req' \in [Requests -> RequestType]
  /\ claims' \subseteq claims
  /\ \A r \in Requests :
       \/ req'[r] = req[r] /\ (Busy(r) => req[r].job \in claims')
       \/ /\ req'[r] = Idle
          /\ req[r].pc = "starting" => ~Unspawned(req[r].new)

LEMMA TouchedKeeps ==
  ASSUME RecordsAssumption, IInv, SameJobs, disk' \in [Numbers -> RecordType],
         \A n \in Numbers : Touched(n)
  PROVE  /\ TypedStore' /\ TypedFiles'
         /\ NumbersOK' /\ RecordsOK' /\ JobsOK'
         /\ NewestOK' /\ PendOK' /\ UidsOK' /\ LinksOK'
  <1> USE DEF Here, Kept
  <1>1. TypedStore' /\ TypedFiles'
    BY DEF SameJobs, IInv, Typed, TypedStore, TypedFiles
  <1>2. \A n \in Numbers : Kept(n)' => /\ Kept(n)
                                       /\ disk'[n].uid = disk[n].uid
                                       /\ disk'[n].from = disk[n].from
                                       /\ disk'[n].owner = disk[n].owner
    BY DEF Touched
  <1>3. NumbersOK'
    BY <1>2 DEF SameJobs, IInv, NumbersOK
  <1>4. RecordsOK'
    <2> SUFFICES ASSUME NEW n \in Numbers
                 PROVE  /\ disk'[n].owner <= epoch'
                        /\ Kept(n)' => disk'[n].uid \in 1 .. starts'
                        /\ disk'[n].dismissed => Kept(n)' /\ ~disk'[n].text
                        /\ disk'[n].old => weeks' > 0
      BY DEF RecordsOK
    <2>1. /\ disk[n].owner <= epoch
          /\ Kept(n) => disk[n].uid \in 1 .. starts
          /\ disk[n].dismissed => Kept(n) /\ ~disk[n].text
          /\ disk[n].old => weeks > 0
          /\ epoch \in Nat /\ weeks \in Nat
      BY DEF IInv, RecordsOK, Typed, TypedStore, TypedFiles
    <2>2. epoch' = epoch /\ starts' = starts /\ weeks' \in Nat /\ weeks' >= weeks
      BY DEF SameJobs
    <2>3. CASE disk'[n] = disk[n]
      BY <2>1, <2>2, <2>3
    <2>4. CASE disk'[n] = NoRec
      BY <2>1, <2>2, <2>4, NoneTypes
    <2>5. CASE disk'[n] # disk[n] /\ disk'[n] # NoRec
      BY <2>1, <2>2, <2>5 DEF Touched
    <2> QED BY <2>3, <2>4, <2>5
  <1>5. JobsOK'
    <2> SUFFICES ASSUME NEW n \in Numbers
                 PROVE  JobOK(n)'
      BY DEF JobsOK
    <2>1. JobOK(n)
      BY DEF IInv, JobsOK
    <2>2. table' = table /\ epoch' = epoch /\ starts' = starts
      BY DEF SameJobs
    <2>3. ASSUME Here(n), Kept(n)'
          PROVE  OfJob(n, disk[n])'
      BY <2>1, <2>2, <2>3, <1>2 DEF JobOK, OfJob, Touched
    <2> QED BY <2>1, <2>2, <2>3 DEF JobOK, OfJob
  <1>6. NewestOK'
    <2> SUFFICES ASSUME NEW n \in Numbers, Here(n)'
                 PROVE  /\ written'[n] <= table'[n].rev
                        /\ written'[n] = table'[n].rev
                             \/ \E w \in pend' : w.job = n /\ w.rev = table'[n].rev
                        /\ fails' = 0 /\ written'[n] = table'[n].rev /\ Kept(n)'
                             /\ ~disk'[n].dismissed => Told(n)'
      BY DEF NewestOK
    <2>1. table' = table /\ written' = written /\ pend' = pend
          /\ (fails' = 0 => fails = 0)
      BY DEF SameJobs, IInv, Typed, TypedFiles
    <2>2. /\ written[n] <= table[n].rev
          /\ written[n] = table[n].rev
               \/ \E w \in pend : w.job = n /\ w.rev = table[n].rev
          /\ fails = 0 /\ written[n] = table[n].rev /\ Kept(n) /\ ~disk[n].dismissed
               => Told(n)
      BY <2>1 DEF IInv, NewestOK
    <2>3. ASSUME fails' = 0, written'[n] = table'[n].rev, Kept(n)',
                 ~disk'[n].dismissed
          PROVE  Told(n)'
      BY <2>1, <2>2, <2>3 DEF Touched, Told
    <2> QED BY <2>1, <2>2, <2>3
  <1>7. PendOK'
    BY DEF SameJobs, IInv, PendOK, OfJob
  <1>8. UidsOK'
    BY <1>2 DEF SameJobs, IInv, UidsOK
  <1>9. LinksOK'
    <2>1. ASSUME NEW n \in Numbers, NEW l, LinkOK(n, l)
          PROVE  LinkOK(n, l)'
      <3>1. table' = table /\ (weeks' = 0 => weeks = 0)
        BY DEF SameJobs, IInv, Typed, TypedFiles
      <3>2. ASSUME l # NoLink, weeks' = 0
            PROVE  Kept(l[1])'
        BY <2>1, <3>1, <3>2 DEF LinkOK, Touched
      <3> QED BY <2>1, <3>1, <3>2, <1>2 DEF LinkOK
    <2>2. ASSUME NEW n \in Numbers
          PROVE  disk'[n].from = disk[n].from \/ disk'[n].from = NoLink
      BY NoneTypes DEF Touched
    <2>3. ASSUME NEW n \in Numbers
          PROVE  LinkOK(n, NoLink)
      BY DEF LinkOK
    <2>4. table' = table
      BY DEF SameJobs
    <2> QED BY <2>1, <2>2, <2>3, <2>4 DEF IInv, LinksOK
  <1> QED BY <1>1, <1>3, <1>4, <1>5, <1>6, <1>7, <1>8, <1>9

LEMMA RequestsKeep ==
  ASSUME RecordsAssumption, IInv, SameJobs, SameRequests,
         disk' \in [Numbers -> RecordType], \A n \in Numbers : Touched(n)
  PROVE  TypedRequests' /\ LiveOK' /\ RequestsOK' /\ ResumesOK'
  <1> USE DEF Here, Kept
  <1>1. TypedRequests'
    BY DEF SameRequests, IInv, Typed, TypedRequests
  <1>2. LiveOK'
    BY DEF SameJobs, SameRequests, IInv, LiveOK
  <1>3. weeks' = 0 => weeks = 0 /\ \A n \in Numbers : Kept(n) => Kept(n)'
    BY DEF SameJobs, IInv, Typed, TypedFiles, Touched
  <1>4. \A n \in Numbers : Kept(n)' => /\ Kept(n)
                                       /\ disk'[n].uid = disk[n].uid
                                       /\ disk'[n].from = disk[n].from
    BY DEF Touched
  <1>5. \A r \in Requests : Busy(r)' => Busy(r) /\ req'[r] = req[r]
                                          /\ req[r].job \in claims'
    BY NoneTypes DEF SameRequests, Busy
  <1>6. RequestsOK'
    <2>1. ASSUME NEW r \in Requests, Busy(r)'
          PROVE  RequestOK(r)'
      <3>1. RequestOK(r) /\ req'[r] = req[r] /\ req[r].job \in claims' /\ Busy(r)
        BY <2>1, <1>5 DEF IInv, RequestsOK
      <3>2. req[r].job \in Numbers
        BY <3>1 DEF RequestOK, IInv, Typed, TypedRequests
      <3>3. live' = live /\ next' = next /\ table' = table
        BY DEF SameJobs
      <3> QED BY <3>1, <3>2, <3>3, <1>3, <1>4 DEF RequestOK
    <2>2. ASSUME NEW r \in Requests
          PROVE  RequestOK(r)'
      BY <2>1 DEF RequestOK
    <2>3. \A r, s \in Requests : Busy(r)' /\ Busy(s)' /\ r # s
                                   => req'[r].job # req'[s].job
      BY <1>5 DEF IInv, RequestsOK
    <2> QED BY <2>2, <2>3 DEF RequestsOK
  <1>7. ResumesOK'
    <2> SUFFICES ASSUME fails' = 0, weeks' = 0
                 PROVE  (OneSuccessor /\ NoneYet /\ BeingStarted /\ RecordedOnDisk)'
      BY DEF ResumesOK
    <2>1. OneSuccessor /\ NoneYet /\ BeingStarted /\ RecordedOnDisk
      BY DEF SameJobs, IInv, Typed, TypedFiles, ResumesOK
    <2>2. ASSUME NEW n \in Numbers, NEW m, Resumes(n, m)'
          PROVE  Resumes(n, m)
      BY <2>2, <1>4 DEF Resumes, SameJobs
    <2>3. OneSuccessor'
      BY <2>1, <2>2 DEF OneSuccessor
    <2>4. NoneYet'
      <3> SUFFICES ASSUME NEW r \in Requests, req'[r].pc = "checked",
                          NEW n \in Numbers, Resumes(n, req[r].job)'
                   PROVE  FALSE
        BY <1>5 DEF NoneYet, Busy
      <3>1. req'[r] = req[r]
        BY <1>5 DEF Busy
      <3> QED BY <3>1, <2>1, <2>2 DEF NoneYet
    <2>5. BeingStarted'
      <3> SUFFICES ASSUME NEW n \in Numbers, Here(n)', ~Kept(n)'
                   PROVE  /\ written'[n] = 0
                          /\ Unspawned(n)'
                          /\ table'[n].rec.from # NoLink =>
                               \E r \in Requests :
                                 /\ req'[r].pc = "starting"
                                 /\ req'[r].new = n
                                 /\ req'[r].job = table'[n].rec.from[1]
        BY DEF BeingStarted
      <3>1. table' = table /\ written' = written /\ pend' = pend
        BY DEF SameJobs
      <3>2. ~Kept(n)
        BY <1>3
      <3>3. written'[n] = 0 /\ Unspawned(n) /\ Unspawned(n)'
        BY <2>1, <3>1, <3>2 DEF BeingStarted, Unspawned
      <3>4. ASSUME table[n].rec.from # NoLink
            PROVE  \E r \in Requests :
                     /\ req'[r].pc = "starting"
                     /\ req'[r].new = n
                     /\ req'[r].job = table'[n].rec.from[1]
        <4>1. PICK r \in Requests : /\ req[r].pc = "starting"
                                    /\ req[r].new = n
                                    /\ req[r].job = table[n].rec.from[1]
          BY <2>1, <3>1, <3>2, <3>4 DEF BeingStarted
        <4>2. req'[r] = req[r]
          BY <4>1, <3>3 DEF SameRequests
        <4> QED BY <4>1, <4>2, <3>1
      <3> QED BY <3>1, <3>3, <3>4
    <2>6. RecordedOnDisk'
      <3> SUFFICES ASSUME NEW u \in Numbers, NEW x \in succ[u]
                   PROVE  \E n \in Numbers : /\ Kept(n)'
                                             /\ disk'[n].uid = x
                                             /\ disk'[n].from # NoLink
                                             /\ disk'[n].from[2] = u
        BY DEF RecordedOnDisk, SameJobs
      <3>1. PICK n \in Numbers : /\ Kept(n)
                                 /\ disk[n].uid = x
                                 /\ disk[n].from # NoLink
                                 /\ disk[n].from[2] = u
        BY <2>1 DEF RecordedOnDisk
      <3> QED BY <3>1, <1>3, <1>4
    <2> QED BY <2>3, <2>4, <2>5, <2>6
  <1> QED BY <1>1, <1>2, <1>6, <1>7

\* What DismissedStays says of a step.
StepStays == DismissedStaysStep /\ NumberFreeStep

LEMMA TouchStep ==
  ASSUME RecordsAssumption, IInv, SameJobs, SameRequests,
         disk' \in [Numbers -> RecordType], \A n \in Numbers : Touched(n)
  PROVE  IInv' /\ StepStays
  <1>1. IInv'
    BY TouchedKeeps, RequestsKeep DEF IInv, Typed
  <1>2. \A n \in Numbers : disk[n].dismissed => ~disk[n].text
    BY DEF IInv, RecordsOK
  <1>3. DismissedStaysStep
    BY <1>2 DEF DismissedStaysStep, Touched
  <1>4. NumberFreeStep
    BY DEF NumberFreeStep, Touched, Kept
  <1> QED BY <1>1, <1>3, <1>4 DEF StepStays

\* A change of n's record that keeps whose it is; nothing else is written.
LEMMA WrittenTouches ==
  ASSUME RecordsAssumption, IInv, weeks' >= weeks, weeks' \in Nat,
         NEW n \in Numbers, Kept(n), ~disk[n].dismissed,
         NEW r \in RecordType, disk' = Written(n, r),
         r.uid = disk[n].uid, r.from = disk[n].from, r.owner = disk[n].owner,
         r.dismissed => ~r.text,
         Here(n) => r.state = disk[n].state /\ r.reported = disk[n].reported
  PROVE  disk' \in [Numbers -> RecordType] /\ \A k \in Numbers : Touched(k)
  <1>1. disk \in [Numbers -> RecordType] /\ disk[n] \in RecordType
    BY DEF IInv, Typed, TypedFiles
  <1>2. disk' = [disk EXCEPT ![n] = Merged(disk[n], r)]
    BY DEF Written
  <1> DEFINE d == Merged(disk[n], r)
  <1>3. /\ d \in RecordType
        /\ d.uid = r.uid /\ d.from = r.from /\ d.owner = r.owner
        /\ d.state = r.state /\ d.reported = r.reported
        /\ d.dismissed = r.dismissed /\ d.text = r.text /\ ~d.old
    BY <1>1, MergedIs
  <1> HIDE DEF d
  <1>4. disk' \in [Numbers -> RecordType]
    BY <1>1, <1>2, <1>3 DEF d
  <1>5. disk[n].uid \in 1 .. starts
    BY DEF IInv, RecordsOK
  <1>6. d # NoRec
    BY <1>3, <1>5, NoneTypes
  <1>7. disk'[n] = d
    BY <1>1, <1>2 DEF d
  <1>8. Touched(n)
    BY <1>3, <1>6, <1>7 DEF Touched
  <1>9. ASSUME NEW k \in Numbers, k # n
        PROVE  Touched(k)
    BY <1>1, <1>2, <1>9 DEF Touched
  <1> QED BY <1>4, <1>8, <1>9

LEMMA FailKeeps ==
  ASSUME IInv, NEW ok \in BOOLEAN, MayFail(ok)
  PROVE  fails' \in Nat /\ fails' >= fails /\ (ok => fails' = fails)
         /\ (~ok => fails' > 0)
  BY DEF MayFail, IInv, Typed, TypedFiles

LEMMA NothingTouched ==
  ASSUME IInv, UNCHANGED disk
  PROVE  disk' \in [Numbers -> RecordType] /\ \A k \in Numbers : Touched(k)
  BY DEF Touched, IInv, Typed, TypedFiles

LEMMA RequestsSame ==
  ASSUME IInv, UNCHANGED <<req, claims>>
  PROVE  SameRequests
  BY DEF SameRequests, IInv, Typed, TypedRequests, RequestsOK, RequestOK

LEMMA SettleStep ==
  ASSUME RecordsAssumption, IInv, NEW n \in Numbers, NEW ok \in BOOLEAN, Settle(n, ok)
  PROVE  IInv' /\ StepStays
  <1>1. SameJobs
    BY FailKeeps DEF Settle, SameJobs, bounds, IInv, Typed, TypedFiles
  <1>2. SameRequests
    BY RequestsSame DEF Settle
  <1>3. disk[n] \in RecordType /\ weeks \in Nat
    BY DEF IInv, Typed, TypedFiles
  <1>4. ~Here(n)
    BY DEF Settle, Alive, IInv, JobsOK, JobOK, OfJob, LiveOK, Here, Kept
  <1>5. CASE ok
    <2> DEFINE r == [disk[n] EXCEPT !.state = "interrupted"]
    <2>1. /\ r \in RecordType /\ r.uid = disk[n].uid /\ r.from = disk[n].from
          /\ r.owner = disk[n].owner /\ r.dismissed = disk[n].dismissed
      BY <1>3 DEF RecordType, States, Final
    <2>2. disk' = Written(n, r) /\ Kept(n) /\ ~disk[n].dismissed
      BY <1>5 DEF Settle, Kept
    <2> HIDE DEF r
    <2>3. weeks' = weeks
      BY DEF Settle, bounds
    <2>4. disk' \in [Numbers -> RecordType] /\ \A k \in Numbers : Touched(k)
      BY <1>3, <1>4, <2>1, <2>2, <2>3, WrittenTouches
    <2> QED BY <1>1, <1>2, <2>4, TouchStep
  <1>6. CASE ~ok
    BY <1>1, <1>2, <1>6, NothingTouched, TouchStep DEF Settle
  <1> QED BY <1>5, <1>6

LEMMA DismissStep ==
  ASSUME RecordsAssumption, IInv, NEW n \in Numbers, NEW ok \in BOOLEAN, Dismiss(n, ok)
  PROVE  IInv' /\ StepStays
  <1>1. SameJobs
    BY FailKeeps DEF Dismiss, SameJobs, bounds, IInv, Typed, TypedFiles
  <1>2. SameRequests
    BY RequestsSame DEF Dismiss
  <1>3. disk[n] \in RecordType /\ weeks \in Nat
    BY DEF IInv, Typed, TypedFiles
  <1>4. disk[n] # NoRec /\ ~disk[n].dismissed /\ MayFail(ok)
        /\ (disk[n].state \in Final \/ ~Alive(disk[n].owner))
    BY DEF Dismiss
  <1>5. CASE ok
    <2> DEFINE r == [disk[n] EXCEPT !.dismissed = TRUE, !.text = FALSE,
                              !.state = IF @ \in Final THEN @ ELSE "interrupted"]
    <2>1. /\ r \in RecordType /\ r.uid = disk[n].uid /\ r.from = disk[n].from
          /\ r.owner = disk[n].owner /\ r.dismissed /\ ~r.text
          /\ r.reported = disk[n].reported
          /\ disk[n].state \in Final => r.state = disk[n].state
      BY <1>3 DEF RecordType, States, Final
    <2>2. disk' = Written(n, r)
      BY <1>5 DEF Dismiss
    <2> HIDE DEF r
    <2>3. weeks' = weeks
      BY DEF Dismiss, bounds
    <2>4. Here(n) => disk[n].state \in Final
      BY <1>4 DEF Alive, IInv, JobsOK, JobOK, OfJob, LiveOK, Here, Kept
    <2>5. disk' \in [Numbers -> RecordType] /\ \A k \in Numbers : Touched(k)
      BY <1>3, <1>4, <2>1, <2>2, <2>3, <2>4, WrittenTouches DEF Kept
    <2> QED BY <1>1, <1>2, <2>5, TouchStep
  <1>6. CASE ~ok
    BY <1>1, <1>2, <1>6, NothingTouched, TouchStep DEF Dismiss
  <1> QED BY <1>5, <1>6

LEMMA PruneStep ==
  ASSUME RecordsAssumption, IInv, NEW n \in Numbers, Prune(n)
  PROVE  IInv' /\ StepStays
  <1>1. SameJobs
    BY DEF Prune, SameJobs, bounds, IInv, Typed, TypedFiles
  <1>2. SameRequests
    BY RequestsSame DEF Prune
  <1>3. disk' \in [Numbers -> RecordType]
    BY NoneTypes DEF Prune, IInv, Typed, TypedFiles
  <1>4. \A k \in Numbers : Touched(k)
    BY DEF Prune, Touched, IInv, RecordsOK, Typed, TypedFiles
  <1> QED BY <1>1, <1>2, <1>3, <1>4, TouchStep

LEMMA WeekStep ==
  ASSUME RecordsAssumption, IInv, Week
  PROVE  IInv' /\ StepStays
  <1>1. SameJobs
    BY DEF Week, SameJobs, bounds, IInv, Typed, TypedFiles
  <1>2. SameRequests
    BY RequestsSame DEF Week
  <1>3. ASSUME NEW k \in Numbers
        PROVE  disk'[k] \in RecordType /\ Touched(k)
    <2>1. CASE disk[k] = NoRec
      BY <2>1, NoneTypes DEF Week, Touched
    <2>2. CASE disk[k] # NoRec
      <3>1. disk[k] \in RecordType /\ weeks \in Nat
        BY DEF IInv, Typed, TypedFiles
      <3>2. disk'[k] = [disk[k] EXCEPT !.old = TRUE] /\ weeks' = weeks + 1
        BY <2>2 DEF Week
      <3>3. /\ disk'[k] \in RecordType
            /\ disk'[k].uid = disk[k].uid /\ disk'[k].from = disk[k].from
            /\ disk'[k].owner = disk[k].owner
            /\ disk'[k].dismissed = disk[k].dismissed /\ disk'[k].text = disk[k].text
            /\ disk'[k].state = disk[k].state /\ disk'[k].reported = disk[k].reported
        BY <3>1, <3>2 DEF RecordType
      <3>4. disk[k].uid >= 1 /\ (disk[k].dismissed => ~disk[k].text)
        BY <2>2 DEF IInv, RecordsOK, Kept
      <3>5. disk'[k] # NoRec
        BY <3>3, <3>4, NoneTypes
      <3> QED BY <2>2, <3>1, <3>2, <3>3, <3>4, <3>5 DEF Touched, Kept
    <2> QED BY <2>1, <2>2
  <1>4. disk' \in [Numbers -> RecordType]
    BY <1>3 DEF Week
  <1> QED BY <1>1, <1>2, <1>3, <1>4, TouchStep

LEMMA DoneSame ==
  ASSUME IInv, NEW r \in Requests, Busy(r), Done(r),
         req[r].pc = "starting" => ~Unspawned(req[r].new)
  PROVE  SameRequests
  <1>1. req' \in [Requests -> RequestType]
    BY NoneTypes DEF Done, IInv, Typed, TypedRequests
  <1>2. claims' \subseteq claims /\ req'[r] = Idle
    BY DEF Done, IInv, Typed, TypedRequests
  <1>3. ASSUME NEW s \in Requests, s # r
        PROVE  req'[s] = req[s] /\ (Busy(s) => req[s].job \in claims')
    BY <1>3 DEF Done, IInv, Typed, TypedRequests, RequestsOK, RequestOK
  <1> QED BY <1>1, <1>2, <1>3 DEF SameRequests

LEMMA LinkStep ==
  ASSUME RecordsAssumption, IInv, NEW r \in Requests, NEW ok \in BOOLEAN,
         ResumeLink(r, ok)
  PROVE  IInv' /\ StepStays
  <1>1. /\ req[r].pc = "starting" /\ ~Unspawned(req[r].new)
        /\ Done(r) /\ weeks' = weeks
        /\ UNCHANGED <<epoch, up, live, next, table, runs, pend, written, agents,
                       starts, succ>>
    BY DEF ResumeLink, bounds
  <1>2. SameRequests
    BY <1>1, DoneSame DEF Busy
  <1>3. fails' \in Nat /\ fails' >= fails
    BY FailKeeps DEF ResumeLink, IInv, Typed, TypedFiles
  <1>4. SameJobs
    BY <1>1, <1>3 DEF SameJobs, IInv, Typed, TypedFiles
  <1> DEFINE n == req[r].job
  <1>5. RequestOK(r) /\ Busy(r)
    BY <1>1 DEF IInv, RequestsOK, Busy
  <1>6. n \in Numbers /\ ~Here(n) /\ req[r].new \in Numbers
    BY <1>1, <1>5 DEF RequestOK, IInv, Typed, TypedRequests
  <1>7. CASE Shown(n) /\ ok
    <2> DEFINE x == [disk[n] EXCEPT !.as = <<req[r].new, table[req[r].new].rec.uid>>,
                              !.state = IF @ \in Final THEN @ ELSE "interrupted"]
    <2>1. disk[n] \in RecordType /\ weeks \in Nat
      BY <1>6 DEF IInv, Typed, TypedFiles
    <2>2. table[req[r].new].rec.uid \in Nat /\ req[r].new \in Nat
      BY <1>6, NumbersAreNat DEF IInv, Typed, TypedStore, JobType, RecordType
    <2>3. /\ x \in RecordType /\ x.uid = disk[n].uid /\ x.from = disk[n].from
          /\ x.owner = disk[n].owner /\ x.dismissed = disk[n].dismissed
      BY <2>1, <2>2 DEF RecordType, States, Final
    <2>4. disk' = Written(n, x)
      BY <1>7 DEF ResumeLink
    <2>5. Kept(n) /\ ~disk[n].dismissed
      BY <1>7 DEF Shown, Kept
    <2> HIDE DEF x
    <2>6. disk' \in [Numbers -> RecordType] /\ \A k \in Numbers : Touched(k)
      <3> HIDE DEF n
      <3> QED BY <1>1, <1>6, <2>1, <2>3, <2>4, <2>5, WrittenTouches
    <2> QED BY <1>2, <1>4, <2>6, TouchStep
  <1>8. CASE ~(Shown(n) /\ ok)
    <2>1. UNCHANGED disk
      BY <1>8 DEF ResumeLink
    <2> QED BY <1>2, <1>4, <2>1, NothingTouched, TouchStep
  <1> QED BY <1>7, <1>8

LEMMA RefusedStep ==
  ASSUME RecordsAssumption, IInv, NEW r \in Requests, ResumeRefused(r)
  PROVE  IInv' /\ StepStays
  <1>1. SameJobs
    BY DEF ResumeRefused, SameJobs, bounds, IInv, Typed, TypedFiles
  <1>2. SameRequests
    BY DoneSame DEF ResumeRefused, Busy
  <1> QED BY <1>1, <1>2, NothingTouched, TouchStep DEF ResumeRefused

LEMMA ReapStep ==
  ASSUME RecordsAssumption, IInv, Reap \/ UNCHANGED vars
  PROVE  IInv' /\ StepStays
  <1>1. SameJobs
    BY DEF Reap, vars, SameJobs, bounds, IInv, Typed, TypedFiles
  <1>2. SameRequests
    BY RequestsSame DEF Reap, vars
  <1>3. UNCHANGED disk
    BY DEF Reap, vars
  <1> QED BY <1>1, <1>2, <1>3, NothingTouched, TouchStep

-----------------------------------------------------------------------------
(* Resume requests                                                         *)

\* A job of this session is not one that resume takes for interrupted.
LEMMA NotHereWhenInterrupted ==
  ASSUME IInv, NEW n \in Numbers, up, Kept(n), Interrupted(n)
  PROVE  ~Here(n)
  BY DEF Interrupted, Alive, Final, IInv, JobsOK, JobOK, OfJob, OfTable

\* What a step keeps that changes requests alone.
LEMMA RequestsOnly ==
  ASSUME RecordsAssumption, IInv, claims' \subseteq Numbers,
         UNCHANGED <<epoch, up, live, next, table, disk, runs, pend, written,
                     agents, starts, succ, fails, weeks>>
  PROVE  /\ TypedStore' /\ TypedFiles'
         /\ live => LiveOK'
         /\ NumbersOK' /\ RecordsOK' /\ JobsOK' /\ NewestOK' /\ PendOK'
         /\ UidsOK' /\ LinksOK'
  <1>1. TypedStore' /\ TypedFiles'
    BY DEF IInv, Typed, TypedStore, TypedFiles
  <1>2. live => LiveOK'
    BY DEF IInv, LiveOK
  <1>3. NumbersOK' /\ RecordsOK' /\ UidsOK'
    BY DEF IInv, NumbersOK, RecordsOK, UidsOK, Here, Kept
  <1>4. JobsOK' /\ PendOK'
    BY DEF IInv, JobsOK, JobOK, PendOK, OfJob, Here, Kept
  <1>5. NewestOK'
    BY DEF IInv, NewestOK, Told, Here, Kept
  <1>6. LinksOK'
    BY DEF IInv, LinksOK, LinkOK, Here, Kept
  <1> QED BY <1>1, <1>2, <1>3, <1>4, <1>5, <1>6

LEMMA LoadStep ==
  ASSUME RecordsAssumption, IInv, NEW r \in Requests, NEW n \in Numbers,
         ResumeLoad(r, n)
  PROVE  IInv'
  <1> USE DEF Here, Kept
  <1> DEFINE q == [Idle EXCEPT !.pc = "loaded", !.job = n, !.uid = disk[n].uid]
  <1>1. /\ live /\ up /\ req[r] = Idle /\ n \notin claims
        /\ Kept(n) /\ Interrupted(n)
        /\ claims' = claims \cup {n}
        /\ req' = [req EXCEPT ![r] = q]
        /\ UNCHANGED <<epoch, up, live, next, table, disk, runs, pend, written,
                       agents, starts, succ, fails, weeks>>
    BY DEF ResumeLoad, Shown, bounds, IInv, LiveOK
  <1>2. disk[n] \in RecordType /\ req \in [Requests -> RequestType]
        /\ claims \subseteq Numbers /\ MaxStarts \in Nat
    BY NumbersAreNat DEF IInv, Typed, TypedFiles, TypedRequests
  <1>3. /\ q \in RequestType /\ q.pc = "loaded" /\ q.job = n
        /\ q.uid = disk[n].uid
    BY <1>2 DEF Idle, RequestType, RecordType
  <1> HIDE DEF q
  <1>4. /\ req' \in [Requests -> RequestType] /\ req'[r] = q
        /\ \A s \in Requests : s # r => req'[s] = req[s]
        /\ claims' \subseteq Numbers
    BY <1>1, <1>2, <1>3
  <1>5. TypedRequests'
    BY <1>4 DEF TypedRequests
  <1>6. ~Here(n)
    BY <1>1, NotHereWhenInterrupted
  <1>7. n <= next
    BY <1>1, NumbersAreNat DEF IInv, NumbersOK, Typed, TypedStore
  <1>8. disk[n].uid \in Numbers
    BY <1>1, NumbersAreNat DEF IInv, RecordsOK, Typed, TypedStore
  <1>9. RequestsOK'
    <2>1. RequestOK(r)'
      BY <1>1, <1>3, <1>4, <1>6, <1>7, <1>8 DEF RequestOK
    <2>2. ASSUME NEW s \in Requests, s # r
          PROVE  RequestOK(s)'
      BY <1>1, <1>4, <2>2 DEF RequestOK, Busy, IInv, RequestsOK
    <2>3. ASSUME NEW s \in Requests, s # r, Busy(s)'
          PROVE  req'[s].job # n
      BY <1>1, <1>4, <2>3 DEF RequestOK, Busy, IInv, RequestsOK
    <2>4. \A s, t \in Requests : Busy(s)' /\ Busy(t)' /\ s # t
                                   => req'[s].job # req'[t].job
      BY <1>3, <1>4, <2>3 DEF Busy, IInv, RequestsOK
    <2> QED BY <2>1, <2>2, <2>4 DEF RequestsOK
  <1>10. ResumesOK'
    <2> SUFFICES ASSUME fails = 0, weeks = 0
                 PROVE  (OneSuccessor /\ NoneYet /\ BeingStarted /\ RecordedOnDisk)'
      BY <1>1 DEF ResumesOK
    <2>1. OneSuccessor /\ NoneYet /\ BeingStarted /\ RecordedOnDisk
      BY DEF IInv, ResumesOK
    <2>2. OneSuccessor' /\ RecordedOnDisk'
      BY <1>1, <2>1 DEF OneSuccessor, RecordedOnDisk, Resumes
    <2>3. NoneYet'
      BY <1>1, <1>3, <1>4, <2>1 DEF NoneYet, Resumes
    <2>4. BeingStarted'
      <3>1. req[r].pc # "starting"
        BY <1>1, NoneTypes
      <3> QED BY <1>1, <1>4, <2>1, <3>1 DEF BeingStarted, Unspawned
    <2> QED BY <2>2, <2>3, <2>4
  <1> QED BY <1>1, <1>4, <1>5, <1>9, <1>10, RequestsOnly DEF IInv, Typed

\* The job has no successor: its record names none, and one that is not on
\* disk yet is another request's, which would hold the claim.
LEMMA CheckedHasNone ==
  ASSUME RecordsAssumption, IInv, fails = 0, weeks = 0, NEW r \in Requests,
         req[r].pc = "loaded", ~Successor(req[r].job),
         NEW n \in Numbers
  PROVE  ~Resumes(n, req[r].job)
  <1> USE DEF Here, Kept
  <1>1. BeingStarted
    BY DEF IInv, ResumesOK
  <1>2. ~(Kept(n) /\ disk[n].from[1] = req[r].job)
    BY DEF Successor
  <1>3. SUFFICES ASSUME Here(n), table[n].rec.from[1] = req[r].job
                 PROVE  FALSE
    BY <1>2 DEF Resumes
  <1>4. ~Kept(n)
    BY <1>2, <1>3 DEF IInv, JobsOK, JobOK, OfJob
  <1>5. Busy(r) /\ req[r].job \in Numbers
    BY DEF Busy, IInv, RequestsOK, RequestOK, Typed, TypedRequests
  <1>6. table[n].rec.from # NoLink
    BY <1>3, <1>5, NumbersAreNat DEF NoLink
  <1>7. PICK s \in Requests : /\ req[s].pc = "starting"
                              /\ req[s].job = table[n].rec.from[1]
    BY <1>1, <1>3, <1>4, <1>6 DEF BeingStarted
  <1>8. Busy(s) /\ s # r
    BY <1>7 DEF Busy
  <1> QED BY <1>3, <1>5, <1>7, <1>8 DEF IInv, RequestsOK

LEMMA CheckStep ==
  ASSUME RecordsAssumption, IInv, NEW r \in Requests, ResumeCheck(r)
  PROVE  IInv'
  <1> USE DEF Here, Kept
  <1>1. /\ up /\ req[r].pc = "loaded"
        /\ UNCHANGED <<epoch, up, live, next, table, disk, runs, pend, written,
                       agents, starts, succ, fails, weeks>>
    BY DEF ResumeCheck, bounds
  <1>2. CASE Done(r)
    <2>1. SameJobs
      BY <1>1 DEF SameJobs, IInv, Typed, TypedFiles
    <2>2. SameRequests
      BY <1>1, <1>2, DoneSame DEF Busy
    <2> QED BY <1>1, <2>1, <2>2, NothingTouched, TouchStep
  <1>3. CASE ~Successor(req[r].job) /\ claims' = claims
             /\ req' = [req EXCEPT ![r].pc = "checked"]
    <2>1. req \in [Requests -> RequestType] /\ claims \subseteq Numbers
      BY DEF IInv, Typed, TypedRequests
    <2>2. /\ req' \in [Requests -> RequestType]
          /\ req'[r].pc = "checked"
          /\ \A s \in Requests : /\ s # r => req'[s] = req[s]
                                 /\ req'[s].job = req[s].job
                                 /\ req'[s].uid = req[s].uid
                                 /\ req'[s].new = req[s].new
                                 /\ Busy(s)' <=> Busy(s)
      BY <1>1, <1>3, <2>1 DEF RequestType, Busy
    <2>3. TypedRequests'
      BY <1>3, <2>1, <2>2 DEF TypedRequests
    <2>4. live
      BY <1>1 DEF IInv, RequestsOK, RequestOK, Busy
    <2>5. RequestsOK'
      <3>1. ASSUME NEW s \in Requests
            PROVE  RequestOK(s)'
        BY <1>1, <1>3, <2>2 DEF RequestOK, IInv, RequestsOK
      <3>2. \A s, t \in Requests : Busy(s)' /\ Busy(t)' /\ s # t
                                     => req'[s].job # req'[t].job
        BY <2>2 DEF IInv, RequestsOK
      <3> QED BY <3>1, <3>2 DEF RequestsOK
    <2>6. ResumesOK'
      <3> SUFFICES ASSUME fails = 0, weeks = 0
                   PROVE  (OneSuccessor /\ NoneYet /\ BeingStarted /\ RecordedOnDisk)'
        BY <1>1 DEF ResumesOK
      <3>1. OneSuccessor /\ NoneYet /\ BeingStarted /\ RecordedOnDisk
        BY DEF IInv, ResumesOK
      <3>2. OneSuccessor' /\ RecordedOnDisk'
        BY <1>1, <3>1 DEF OneSuccessor, RecordedOnDisk, Resumes
      <3>3. \A n \in Numbers : ~Resumes(n, req[r].job)
        BY <1>1, <1>3, CheckedHasNone
      <3>4. NoneYet'
        BY <1>1, <2>2, <3>1, <3>3 DEF NoneYet, Resumes
      <3>5. BeingStarted'
        <4>1. \A s \in Requests : req[s].pc = "starting" => req'[s] = req[s]
          BY <1>1, <2>2
        <4> QED BY <1>1, <3>1, <4>1 DEF BeingStarted, Unspawned
      <3> QED BY <3>2, <3>4, <3>5
    <2> QED BY <1>1, <1>3, <2>1, <2>3, <2>4, <2>5, <2>6, RequestsOnly DEF IInv, Typed
  <1> QED BY <1>2, <1>3 DEF ResumeCheck

-----------------------------------------------------------------------------
(* The session and the process                                             *)

\* Without a table and requests, what is left is on disk.
LEMMA NothingRuns ==
  ASSUME RecordsAssumption, IInv,
         \A n \in Numbers : ~Here(n)', pend' = {}, \A r \in Requests : ~Busy(r)',
         UNCHANGED succ, fails' >= fails, weeks' = weeks,
         \A n \in Numbers : /\ Kept(n) => Kept(n)'
                            /\ Kept(n)' => Kept(n) \/ Here(n)
                            /\ Kept(n)' /\ Kept(n) =>
                                 /\ disk'[n].uid = disk[n].uid
                                 /\ disk'[n].from = disk[n].from
                            /\ Kept(n)' /\ ~Kept(n) =>
                                 /\ disk'[n].uid = table[n].rec.uid
                                 /\ disk'[n].from = table[n].rec.from
                            /\ ~Kept(n)' => disk'[n].from = NoLink
  PROVE  /\ JobsOK' /\ NewestOK' /\ PendOK' /\ UidsOK' /\ LinksOK'
         /\ RequestsOK' /\ ResumesOK'
  <1>1. JobsOK' /\ NewestOK' /\ PendOK'
    BY DEF JobsOK, JobOK, NewestOK, PendOK
  <1>2. RequestsOK'
    BY DEF RequestsOK, RequestOK
  <1>3. UidsOK'
    <2> SUFFICES ASSUME NEW n \in Numbers, NEW k \in Numbers, n # k,
                        Kept(n)', Kept(k)'
                 PROVE  disk'[n].uid # disk'[k].uid
      BY DEF UidsOK
    <2>1. UidsOK
      BY DEF IInv
    <2> QED BY <2>1 DEF UidsOK
  <1>4. LinksOK'
    <2> SUFFICES ASSUME NEW n \in Numbers
                 PROVE  LinkOK(n, disk[n].from)'
      BY DEF LinksOK
    <2>1. CASE ~Kept(n)'
      BY <2>1 DEF LinkOK
    <2>2. CASE Kept(n)'
      <3>1. LinkOK(n, disk'[n].from)
        BY <2>2 DEF IInv, LinksOK
      <3>2. weeks' = 0 <=> weeks = 0
        OBVIOUS
      <3> QED BY <3>1, <3>2 DEF LinkOK
    <2> QED BY <2>1, <2>2
  <1>5. ResumesOK'
    <2> SUFFICES ASSUME fails' = 0, weeks' = 0
                 PROVE  (OneSuccessor /\ NoneYet /\ BeingStarted /\ RecordedOnDisk)'
      BY DEF ResumesOK
    <2>1. OneSuccessor /\ NoneYet /\ BeingStarted /\ RecordedOnDisk
      BY DEF IInv, Typed, TypedFiles, ResumesOK
    <2>2. ASSUME NEW n \in Numbers, NEW m, Resumes(n, m)'
          PROVE  Resumes(n, m)
      BY <2>2 DEF Resumes
    <2>3. OneSuccessor'
      BY <2>1, <2>2 DEF OneSuccessor
    <2>4. NoneYet' /\ BeingStarted'
      BY DEF NoneYet, BeingStarted, Busy
    <2>5. RecordedOnDisk'
      BY <2>1 DEF RecordedOnDisk
    <2> QED BY <2>3, <2>4, <2>5
  <1> QED BY <1>1, <1>2, <1>3, <1>4, <1>5

LEMMA CrashStep ==
  ASSUME RecordsAssumption, IInv, Crash
  PROVE  IInv'
  <1>1. /\ up' = FALSE /\ live' = FALSE
        /\ table' = [n \in Numbers |-> NoJob] /\ pend' = {}
        /\ req' = [r \in Requests |-> Idle] /\ claims' = {}
        /\ UNCHANGED <<epoch, next, disk, runs, written, agents, starts, succ,
                       fails, weeks>>
    BY DEF Crash
  <1>2. Typed'
    BY <1>1, NoneTypes DEF IInv, Typed, TypedStore, TypedFiles, TypedRequests
  <1>3. LiveOK'
    BY <1>1 DEF IInv, LiveOK, Here
  <1>4. NumbersOK' /\ RecordsOK'
    BY <1>1 DEF IInv, NumbersOK, RecordsOK, Kept
  <1>5. \A n \in Numbers : ~Here(n)'
    BY <1>1 DEF Here
  <1>6. \A r \in Requests : ~Busy(r)'
    BY <1>1, NoneTypes DEF Busy
  <1>7. \A n \in Numbers : ~Kept(n) => disk[n].from = NoLink
    BY NoneTypes DEF Kept
  <1>8. fails' >= fails
    BY <1>1 DEF IInv, Typed, TypedFiles
  <1>9. /\ JobsOK' /\ NewestOK' /\ PendOK' /\ UidsOK' /\ LinksOK'
        /\ RequestsOK' /\ ResumesOK'
    BY <1>1, <1>5, <1>6, <1>7, <1>8, NothingRuns DEF Kept
  <1> QED BY <1>2, <1>3, <1>4, <1>9 DEF IInv

LEMMA EndStep ==
  ASSUME RecordsAssumption, IInv, NEW lost \in SUBSET Numbers, EndSession(lost)
  PROVE  IInv'
  <1> USE DEF Kept
  <1> DEFINE open == {n \in Numbers : Running(n)}
             Last(n) == [table[n].rec EXCEPT !.state = "interrupted"]
  <1>1. /\ up /\ live /\ pend = {} /\ claims = {}
        /\ lost \subseteq open
        /\ fails' = fails + Cardinality(lost)
        /\ disk' = [n \in Numbers |-> IF n \in open \ lost THEN Merged(disk[n], Last(n))
                                      ELSE disk[n]]
        /\ agents' \subseteq agents
        /\ live' = FALSE
        /\ table' = [n \in Numbers |-> NoJob]
        /\ UNCHANGED <<epoch, up, next, runs, pend, written, req, claims, starts,
                       succ, weeks>>
    BY DEF EndSession
  <1>2. \A n \in open : n \in Numbers /\ Here(n)
    BY DEF Running, Here
  <1> HIDE DEF open
  <1>3. fails' \in Nat /\ fails' >= fails
    <2>1. IsFiniteSet(Numbers)
      BY NumbersAreNat, FS_Interval
    <2>2. IsFiniteSet(lost)
      BY <2>1, FS_Subset
    <2>3. Cardinality(lost) \in Nat /\ fails \in Nat
      BY <2>2, FS_CardinalityType DEF IInv, Typed, TypedFiles
    <2> QED BY <1>1, <2>3
  <1>4. ASSUME NEW n \in Numbers
        PROVE  /\ disk'[n] \in RecordType
               /\ Kept(n) => Kept(n)'
               /\ Kept(n)' => Kept(n) \/ Here(n)
               /\ Kept(n)' /\ Kept(n) => /\ disk'[n].uid = disk[n].uid
                                         /\ disk'[n].from = disk[n].from
               /\ Kept(n)' /\ ~Kept(n) => /\ disk'[n].uid = table[n].rec.uid
                                          /\ disk'[n].from = table[n].rec.from
               /\ ~Kept(n)' => disk'[n].from = NoLink
               /\ disk'[n].owner <= epoch
               /\ Kept(n)' => disk'[n].uid \in 1 .. starts
               /\ disk'[n].dismissed => Kept(n)' /\ ~disk'[n].text
               /\ disk'[n].old => weeks > 0
    <2>1. /\ disk[n] \in RecordType /\ table[n].rec \in RecordType /\ epoch \in Nat
          /\ disk[n].owner <= epoch
          /\ Kept(n) => disk[n].uid \in 1 .. starts
          /\ disk[n].dismissed => Kept(n) /\ ~disk[n].text
          /\ disk[n].old => weeks > 0
      BY DEF IInv, Typed, TypedFiles, TypedStore, RecordsOK, JobType
    <2>2. CASE n \in open \ lost
      <3>1. Here(n) /\ disk'[n] = Merged(disk[n], Last(n))
        BY <1>1, <1>2, <2>2
      <3>2. /\ Last(n) \in RecordType /\ Last(n).uid = table[n].rec.uid
            /\ Last(n).from = table[n].rec.from /\ Last(n).owner = table[n].rec.owner
            /\ Last(n).dismissed = table[n].rec.dismissed
        BY <2>1 DEF RecordType, States, Final
      <3> HIDE DEF Last
      <3>3. /\ table[n].rec.uid \in 1 .. starts
            /\ table[n].rec.owner = epoch
            /\ ~table[n].rec.dismissed
            /\ Kept(n) => /\ disk[n].uid = table[n].rec.uid
                          /\ disk[n].from = table[n].rec.from
        BY <3>1 DEF IInv, JobsOK, JobOK, OfJob
      <3>4. CASE disk[n].dismissed
        <4>1. disk'[n] = disk[n]
          BY <2>1, <3>1, <3>2, <3>3, <3>4, MergedIs
        <4> QED BY <2>1, <3>1, <3>4, <4>1
      <3>5. CASE ~disk[n].dismissed
        <4>0. /\ Merged(disk[n], Last(n)) \in RecordType
              /\ Merged(disk[n], Last(n)).uid = Last(n).uid
              /\ Merged(disk[n], Last(n)).owner = Last(n).owner
              /\ Merged(disk[n], Last(n)).dismissed = Last(n).dismissed
              /\ ~Merged(disk[n], Last(n)).old
              /\ Merged(disk[n], Last(n)).from
                   = IF Last(n).from = NoLink THEN disk[n].from ELSE Last(n).from
          BY ONLY <2>1, <3>2, <3>5, MergedIs
        <4>1. /\ disk'[n] \in RecordType
              /\ disk'[n].uid = table[n].rec.uid
              /\ disk'[n].owner = epoch
              /\ ~disk'[n].dismissed
              /\ ~disk'[n].old
              /\ disk'[n].from = IF table[n].rec.from = NoLink THEN disk[n].from
                                 ELSE table[n].rec.from
          BY <3>1, <3>2, <3>3, <4>0
        <4>2. disk'[n].from = table[n].rec.from
          BY <3>3, <4>1, NoneTypes
        <4>3. Kept(n)'
          BY <3>3, <4>1, NoneTypes
        <4>4. epoch <= epoch
          BY <2>1
        <4> QED BY <3>1, <3>3, <4>1, <4>2, <4>3, <4>4
      <3> QED BY <3>4, <3>5
    <2>3. CASE n \notin open \ lost
      <3>1. disk'[n] = disk[n]
        BY <1>1, <2>3
      <3> QED BY <2>1, <3>1, NoneTypes
    <2> QED BY <2>2, <2>3
  <1>5. Typed'
    BY <1>1, <1>3, <1>4, NoneTypes
    DEF IInv, Typed, TypedStore, TypedFiles, TypedRequests
  <1>6. LiveOK'
    BY <1>1 DEF IInv, LiveOK, Here
  <1>7. NumbersOK'
    <2>1. \A n \in Numbers : n > starts => ~Kept(n) /\ ~Here(n)
      BY <1>1, NumbersAreNat DEF IInv, NumbersOK, LiveOK, Typed, TypedStore
    <2> QED BY <1>1, <1>4, <2>1 DEF IInv, NumbersOK
  <1>8. RecordsOK'
    BY <1>1, <1>4 DEF RecordsOK
  <1>9. \A n \in Numbers : ~Here(n)'
    BY <1>1 DEF Here
  <1>10. \A r \in Requests : ~Busy(r)'
    BY <1>1 DEF Busy, IInv, RequestsOK, RequestOK
  <1>11. /\ JobsOK' /\ NewestOK' /\ PendOK' /\ UidsOK' /\ LinksOK'
         /\ RequestsOK' /\ ResumesOK'
    BY <1>1, <1>3, <1>4, <1>9, <1>10, NothingRuns
  <1> QED BY <1>5, <1>6, <1>7, <1>8, <1>11 DEF IInv

LEMMA BeginStep ==
  ASSUME RecordsAssumption, IInv, BeginSession
  PROVE  IInv'
  <1>1. PICK last \in {0} \cup Numbers : LastNumber(last) /\ next' = last
    BY DEF BeginSession
  <1>2. /\ up /\ ~live /\ live' = TRUE
        /\ written' = [n \in Numbers |-> 0]
        /\ UNCHANGED <<epoch, up, table, disk, runs, pend, req, claims, agents,
                       starts, succ, fails, weeks>>
    BY DEF BeginSession, bounds
  <1>3. \A n \in Numbers : ~Here(n)
    BY <1>2 DEF IInv, LiveOK
  <1>4. \A n \in Numbers : ~Here(n)'
    BY <1>2, <1>3 DEF Here
  <1>5. Typed'
    BY <1>1, <1>2, NumbersAreNat DEF IInv, Typed, TypedStore, TypedFiles, TypedRequests
  <1>6. next' <= starts
    <2>1. ASSUME NEW n \in Recorded
          PROVE  n <= starts
      BY <2>1, NumbersAreNat
      DEF Recorded, IInv, NumbersOK, Kept, Typed, TypedFiles, TypedStore
    <2>2. last \in {0} \cup Recorded
      BY <1>1 DEF LastNumber
    <2>3. starts \in Nat
      BY NumbersAreNat DEF IInv, Typed, TypedStore
    <2> QED BY <1>1, <2>1, <2>2, <2>3
  <1>7. LiveOK'
    BY <1>2, <1>6 DEF LiveOK
  <1>8. NumbersOK'
    <2> SUFFICES ASSUME NEW n \in Numbers
                 PROVE  /\ n > starts => ~Kept(n)' /\ n \notin runs'
                        /\ n > next' => /\ ~Kept(n)' /\ ~Here(n)' /\ n \notin runs'
                                        /\ written'[n] = 0
      BY <1>2 DEF NumbersOK
    <2>1. n \in Recorded => n <= last
      BY <1>1 DEF LastNumber
    <2>2. n > last => n \notin Recorded
      BY <1>1, <2>1, NumbersAreNat
    <2>3. n > last => ~Kept(n) /\ n \notin runs
      BY <2>2 DEF Recorded, Kept
    <2> QED BY <1>1, <1>2, <1>4, <2>3 DEF IInv, NumbersOK, Kept
  <1>9. RecordsOK'
    BY <1>2 DEF IInv, RecordsOK, Kept
  <1>10. \A r \in Requests : ~Busy(r)'
    BY <1>2 DEF Busy, IInv, RequestsOK, RequestOK
  <1>11. \A n \in Numbers : ~Kept(n) => disk[n].from = NoLink
    BY NoneTypes DEF Kept
  <1>12. pend' = {} /\ fails' >= fails
    BY <1>2 DEF IInv, LiveOK, Typed, TypedFiles
  <1>13. /\ JobsOK' /\ NewestOK' /\ PendOK' /\ UidsOK' /\ LinksOK'
         /\ RequestsOK' /\ ResumesOK'
    BY <1>2, <1>4, <1>10, <1>11, <1>12, NothingRuns DEF Kept
  <1> QED BY <1>5, <1>7, <1>8, <1>9, <1>13 DEF IInv

LEMMA BootStep ==
  ASSUME RecordsAssumption, IInv, Boot
  PROVE  IInv'
  <1>1. /\ ~up /\ up' = TRUE /\ epoch' = epoch + 1
        /\ UNCHANGED <<live, next, table, disk, runs, pend, written, req, claims,
                       agents, starts, succ, fails, weeks>>
    BY DEF Boot, bounds
  <1>2. ~live /\ pend = {} /\ \A n \in Numbers : ~Here(n)
    BY <1>1 DEF IInv, LiveOK
  <1>3. \A n \in Numbers : ~Here(n)'
    BY <1>1, <1>2 DEF Here
  <1>4. Typed'
    BY <1>1 DEF IInv, Typed, TypedStore, TypedFiles, TypedRequests
  <1>5. LiveOK' /\ NumbersOK'
    BY <1>1, <1>2 DEF IInv, LiveOK, NumbersOK, Here, Kept
  <1>6. RecordsOK'
    BY <1>1 DEF IInv, RecordsOK, Kept, Typed, TypedStore, TypedFiles, RecordType
  <1>7. \A r \in Requests : ~Busy(r)'
    BY <1>1, <1>2 DEF Busy, IInv, RequestsOK, RequestOK
  <1>8. \A n \in Numbers : ~Kept(n) => disk[n].from = NoLink
    BY NoneTypes DEF Kept
  <1>9. fails' >= fails
    BY <1>1 DEF IInv, Typed, TypedFiles
  <1>10. /\ JobsOK' /\ NewestOK' /\ PendOK' /\ UidsOK' /\ LinksOK'
         /\ RequestsOK' /\ ResumesOK'
    BY <1>1, <1>2, <1>3, <1>7, <1>8, <1>9, NothingRuns DEF Kept
  <1> QED BY <1>4, <1>5, <1>6, <1>10 DEF IInv

-----------------------------------------------------------------------------
(* Jobs                                                                    *)

\* A job's new state under a new revision.
LEMMA ChangedStep ==
  ASSUME RecordsAssumption, IInv, live, NEW n \in Numbers, Here(n),
         NEW j \in JobType, Changed(n, j),
         j.rev = table[n].rev,
         OfJob(n, j.rec), ~j.rec.dismissed,
         j.rev + 1 <= 4,
         j.rec.state # "queued",
         ~j.done => j.rev + 1 <= 2 /\ ~j.reported,
         ~j.reported => j.rev + 1 <= 3,
         runs' \subseteq runs \cup {n},
         agents' \subseteq agents \cup {j.rec.uid},
         UNCHANGED <<epoch, up, live, next, disk, written, req, claims, starts,
                     succ, fails, weeks>>
  PROVE  IInv'
  <1> DEFINE i == [j EXCEPT !.rev = @ + 1]
             w == [job |-> n, rec |-> j.rec, rev |-> j.rev + 1]
  <1>1. table' = [table EXCEPT ![n] = i] /\ pend' = pend \cup {w}
    BY DEF Changed
  <1>2. /\ table \in [Numbers -> JobType] /\ pend \subseteq WriteType
        /\ table[n] \in JobType /\ j.rev \in Nat /\ j.rec \in RecordType
        /\ epoch \in Nat /\ starts \in 0 .. MaxStarts
    BY DEF IInv, Typed, TypedStore, JobType
  <1>3. /\ i \in JobType /\ i.rec = j.rec /\ i.rev = j.rev + 1
        /\ i.done = j.done /\ i.reported = j.reported
    BY <1>2 DEF JobType
  <1>4. w \in WriteType /\ w.job = n /\ w.rec = j.rec /\ w.rev = j.rev + 1
    BY <1>2 DEF WriteType
  <1> HIDE DEF i, w
  <1>5. /\ table' \in [Numbers -> JobType] /\ table'[n] = i
        /\ \A k \in Numbers : k # n => table'[k] = table[k]
    BY <1>1, <1>2, <1>3
  <1>6. Here(n)' /\ \A k \in Numbers : Here(k)' <=> Here(k)
    BY <1>2, <1>3, <1>5, NoneTypes DEF Here
  <1>7. JobOK(n)
    BY DEF IInv, JobsOK
  <1>8. /\ j.rec.uid = table[n].rec.uid /\ j.rec.from = table[n].rec.from
        /\ j.rec.owner = epoch /\ j.rec.state \in OfTable
        /\ table[n].rec.uid \in 1 .. starts
    BY <1>7 DEF JobOK, OfJob
  <1>9. \A k \in Numbers : /\ table'[k].rec.uid = table[k].rec.uid
                           /\ table'[k].rec.from = table[k].rec.from
    BY <1>3, <1>5, <1>8
  <1>10. Typed'
    <2>1. n \in Numbers /\ j.rec.uid \in Numbers
      BY <1>2, <1>8, NumbersAreNat
    <2> QED BY <1>1, <1>2, <1>4, <1>5, <2>1
        DEF IInv, Typed, TypedStore, TypedFiles, TypedRequests
  <1>11. LiveOK'
    BY DEF IInv, LiveOK
  <1>12. NumbersOK'
    <2>1. n <= next /\ n <= starts
      BY <1>2, NumbersAreNat DEF IInv, NumbersOK, LiveOK, Typed, TypedStore
    <2> QED BY <1>6, <2>1, NumbersAreNat DEF IInv, NumbersOK, Kept, Typed, TypedStore
  <1>13. RecordsOK'
    BY DEF IInv, RecordsOK, Kept
  <1>14. \A k \in Numbers : \A r : OfJob(k, r) <=> OfJob(k, r)'
    BY <1>9 DEF OfJob
  <1>15. JobsOK'
    <2>1. ASSUME NEW k \in Numbers, k # n
          PROVE  JobOK(k)'
      BY <1>5, <1>6, <1>9, <2>1 DEF IInv, JobsOK, JobOK, OfJob, Kept
    <2>2. JobOK(n)'
      <3>1. OfJob(n, table[n].rec)'
        BY <1>3, <1>5, <1>8 DEF OfJob
      <3>2. table'[n].rec.uid \in 1 .. starts' /\ ~table'[n].rec.dismissed
        BY <1>3, <1>5, <1>8
      <3>3. Kept(n)' => OfJob(n, disk[n])'
        BY <1>7, <1>9 DEF JobOK, OfJob, Kept
      <3>4. /\ table'[n].rev \in 1 .. 4
            /\ table'[n].rec.state # "queued"
            /\ ~table'[n].done => table'[n].rev \in 1 .. 2 /\ ~table'[n].reported
            /\ ~table'[n].reported => table'[n].rev \in 1 .. 3
        BY <1>2, <1>3, <1>5
      <3> QED BY <3>1, <3>2, <3>3, <3>4 DEF JobOK
    <2> QED BY <2>1, <2>2 DEF JobsOK
  <1>16. NewestOK'
    <2> SUFFICES ASSUME NEW k \in Numbers, Here(k)'
                 PROVE  /\ written[k] <= table'[k].rev
                        /\ written[k] = table'[k].rev
                             \/ \E v \in pend' : v.job = k /\ v.rev = table'[k].rev
                        /\ fails = 0 /\ written[k] = table'[k].rev /\ Kept(k)
                             /\ ~disk[k].dismissed => Told(k)'
      BY DEF NewestOK, Kept
    <2>1. /\ written[k] <= table[k].rev
          /\ written[k] = table[k].rev
               \/ \E v \in pend : v.job = k /\ v.rev = table[k].rev
          /\ fails = 0 /\ written[k] = table[k].rev /\ Kept(k) /\ ~disk[k].dismissed
               => Told(k)
      BY <1>6 DEF IInv, NewestOK
    <2>2. CASE k # n
      BY <1>1, <1>5, <2>1, <2>2 DEF Told
    <2>3. CASE k = n
      <3>1. written[n] \in Nat /\ table'[n].rev = table[n].rev + 1
            /\ table'[n].rev \in Nat
        BY <1>2, <1>3, <1>5 DEF IInv, Typed, TypedStore
      <3>2. written[n] < table'[n].rev
        BY <1>2, <2>1, <2>3, <3>1
      <3>3. \E v \in pend' : v.job = n /\ v.rev = table'[n].rev
        <4>1. w \in pend' /\ w.rev = table'[n].rev
          BY <1>1, <1>3, <1>4, <1>5
        <4> QED BY <4>1, <1>4
      <3> QED BY <2>3, <3>1, <3>2, <3>3
    <2> QED BY <2>2, <2>3
  <1>17. PendOK'
    <2>1. ASSUME NEW v \in pend
          PROVE  /\ Here(v.job)' /\ OfJob(v.job, v.rec)' /\ ~v.rec.dismissed
                 /\ v.rev \in 1 .. table'[v.job].rev
                 /\ v.rev = table'[v.job].rev => v.rec = table'[v.job].rec
      <3>1. /\ Here(v.job) /\ OfJob(v.job, v.rec) /\ ~v.rec.dismissed
            /\ v.rev \in 1 .. table[v.job].rev
            /\ v.rev = table[v.job].rev => v.rec = table[v.job].rec
            /\ v.job \in Numbers
        BY <1>2 DEF IInv, PendOK, WriteType
      <3>2. Here(v.job)' /\ OfJob(v.job, v.rec)'
        BY <1>6, <1>9, <3>1 DEF OfJob
      <3>3. CASE v.job # n
        BY <1>5, <3>1, <3>2, <3>3
      <3>4. CASE v.job = n
        BY <1>2, <1>3, <1>5, <3>1, <3>2, <3>4
      <3> QED BY <3>3, <3>4
    <2>2. /\ Here(w.job)' /\ OfJob(w.job, w.rec)' /\ ~w.rec.dismissed
          /\ w.rev \in 1 .. table'[w.job].rev
          /\ w.rev = table'[w.job].rev => w.rec = table'[w.job].rec
      BY <1>2, <1>3, <1>4, <1>5, <1>6, <1>8 DEF OfJob
    <2> QED BY <1>1, <2>1, <2>2 DEF PendOK
  <1>18. UidsOK'
    BY <1>6, <1>9 DEF IInv, UidsOK, Kept
  <1>19. LinksOK'
    <2>1. ASSUME NEW k \in Numbers, NEW l, LinkOK(k, l)
          PROVE  LinkOK(k, l)'
      BY <1>6, <2>1 DEF LinkOK, Kept
    <2> QED BY <1>6, <1>9, <2>1 DEF IInv, LinksOK
  <1>20. RequestsOK'
    <2>1. ASSUME NEW r \in Requests
          PROVE  RequestOK(r)'
      BY <1>6 DEF IInv, RequestsOK, RequestOK, Busy, Kept, Typed, TypedRequests
    <2> QED BY <2>1 DEF IInv, RequestsOK, Busy
  <1>21. ResumesOK'
    <2> SUFFICES ASSUME fails = 0, weeks = 0
                 PROVE  (OneSuccessor /\ NoneYet /\ BeingStarted /\ RecordedOnDisk)'
      BY DEF ResumesOK
    <2>1. OneSuccessor /\ NoneYet /\ BeingStarted /\ RecordedOnDisk
      BY DEF IInv, ResumesOK
    <2>2. \A k \in Numbers : \A m : Resumes(k, m)' <=> Resumes(k, m)
      BY <1>6, <1>9 DEF Resumes, Kept
    <2>3. OneSuccessor' /\ NoneYet' /\ RecordedOnDisk'
      <3>1. OneSuccessor'
        BY <2>1, <2>2 DEF OneSuccessor
      <3>2. NoneYet'
        BY <2>1, <2>2 DEF NoneYet
      <3>3. RecordedOnDisk'
        BY <2>1 DEF RecordedOnDisk, Kept
      <3> QED BY <3>1, <3>2, <3>3
    <2>4. BeingStarted'
      <3>1. \A k \in Numbers : Unspawned(k) => Unspawned(k)'
        BY <1>1 DEF Unspawned
      <3> QED BY <1>6, <1>9, <2>1, <3>1 DEF BeingStarted, Kept
    <2> QED BY <2>3, <2>4
  <1> QED BY <1>10, <1>11, <1>12, <1>13, <1>15, <1>16, <1>17, <1>18, <1>19, <1>20,
             <1>21 DEF IInv

LEMMA BeganStep ==
  ASSUME RecordsAssumption, IInv, NEW n \in Numbers, Began(n)
  PROVE  IInv'
  <1> DEFINE j == [table[n] EXCEPT !.rec.state = "working"]
  <1>1. /\ live /\ Here(n) /\ ~table[n].done /\ table[n].rec.state = "queued"
        /\ Changed(n, j)
        /\ agents' = agents \cup {table[n].rec.uid}
        /\ runs' = runs \cup {n}
        /\ UNCHANGED <<epoch, up, live, next, disk, written, req, claims, starts,
                       succ, fails, weeks>>
    BY DEF Began, Running, Here, bounds
  <1>2. table[n] \in JobType /\ table[n].rec \in RecordType
    BY DEF IInv, Typed, TypedStore, JobType
  <1>3. JobOK(n)
    BY DEF IInv, JobsOK
  <1>4. /\ j.rec = [table[n].rec EXCEPT !.state = "working"]
        /\ j.rev = table[n].rev /\ j.done = table[n].done
        /\ j.reported = table[n].reported
    BY <1>2 DEF JobType
  <1>5. /\ j.rec \in RecordType /\ j.rec.uid = table[n].rec.uid
        /\ j.rec.from = table[n].rec.from /\ j.rec.owner = table[n].rec.owner
        /\ j.rec.dismissed = table[n].rec.dismissed /\ j.rec.state = "working"
    BY <1>2, <1>4 DEF RecordType, States
  <1>6. j \in JobType
    BY <1>2, <1>5 DEF JobType, RecordType, States
  <1> HIDE DEF j
  <1>7. OfJob(n, j.rec) /\ ~j.rec.dismissed
    BY <1>1, <1>3, <1>5 DEF JobOK, OfJob, OfTable
  <1>8. table[n].rev = 1 /\ ~table[n].reported
    BY <1>1, <1>3 DEF JobOK
  <1>9. /\ j.rev + 1 <= 4
        /\ ~j.done => j.rev + 1 <= 2 /\ ~j.reported
        /\ ~j.reported => j.rev + 1 <= 3
        /\ j.rec.state # "queued"
    BY <1>4, <1>5, <1>8
  <1> QED BY <1>1, <1>4, <1>5, <1>6, <1>7, <1>9, ChangedStep

LEMMA FinishStep ==
  ASSUME RecordsAssumption, IInv, NEW n \in Numbers, FinishJob(n)
  PROVE  IInv'
  <1> DEFINE rep == table[n].reported \/ table[n].owners
             j == [table[n] EXCEPT !.done = TRUE, !.reported = rep, !.rec.state = "ended",
                                   !.rec.reported = @ \/ rep]
             said == table[n].rec.reported \/ rep
  <1>1. /\ live /\ Here(n) /\ ~table[n].done
        /\ Changed(n, j)
        /\ agents' \subseteq agents
        /\ UNCHANGED <<epoch, up, live, next, disk, runs, written, req, claims, starts,
                       succ, fails, weeks>>
    BY DEF FinishJob, Running, Here, bounds
  <1>2. table[n] \in JobType /\ table[n].rec \in RecordType
    BY DEF IInv, Typed, TypedStore, JobType
  <1>3. JobOK(n)
    BY DEF IInv, JobsOK
  <1>4. /\ j.rec = [table[n].rec EXCEPT !.state = "ended", !.reported = said]
        /\ j.rev = table[n].rev /\ j.done
    BY <1>2 DEF JobType, RecordType
  <1>5. /\ j.rec \in RecordType /\ j.rec.uid = table[n].rec.uid
        /\ j.rec.from = table[n].rec.from /\ j.rec.owner = table[n].rec.owner
        /\ j.rec.dismissed = table[n].rec.dismissed /\ j.rec.state = "ended"
    <2>1. said \in BOOLEAN /\ "ended" \in States
      BY DEF States, Final
    <2> DEFINE old == table[n].rec
               x == [old EXCEPT !.state = "ended", !.reported = said]
    <2>2. j.rec = x /\ old \in RecordType
      BY <1>2, <1>4
    <2> HIDE DEF said, j, old
    <2>3. /\ x \in RecordType /\ x.uid = old.uid /\ x.from = old.from
          /\ x.owner = old.owner /\ x.dismissed = old.dismissed /\ x.state = "ended"
      BY <2>1, <2>2 DEF RecordType
    <2> HIDE DEF x
    <2> QED BY <2>2, <2>3 DEF old
  <1>6. j \in JobType
    <2>1. rep \in BOOLEAN
      OBVIOUS
    <2>2. j = [table[n] EXCEPT !.done = TRUE, !.reported = rep, !.rec = j.rec]
      BY <1>2 DEF JobType
    <2> HIDE DEF rep, j
    <2> QED BY <1>2, <1>5, <2>1, <2>2 DEF JobType
  <1> HIDE DEF j
  <1>7. OfJob(n, j.rec) /\ ~j.rec.dismissed
    BY <1>1, <1>3, <1>5 DEF JobOK, OfJob, OfTable
  <1>8. table[n].rev \in 1 .. 2
    BY <1>1, <1>3 DEF JobOK
  <1>9. /\ j.rev + 1 <= 4
        /\ ~j.reported => j.rev + 1 <= 3
        /\ j.rec.state # "queued"
    BY <1>4, <1>5, <1>8
  <1> QED BY <1>1, <1>4, <1>5, <1>6, <1>7, <1>9, ChangedStep

LEMMA ReportedStep ==
  ASSUME RecordsAssumption, IInv, NEW n \in Numbers, MarkReported(n)
  PROVE  IInv'
  <1> DEFINE j == [table[n] EXCEPT !.reported = TRUE, !.rec.reported = TRUE]
  <1>1. /\ live /\ Here(n) /\ table[n].done /\ ~table[n].reported
        /\ Changed(n, j)
        /\ UNCHANGED <<epoch, up, live, next, disk, runs, written, req, claims, agents,
                       starts, succ, fails, weeks>>
    BY DEF MarkReported, Here, bounds
  <1>2. table[n] \in JobType /\ table[n].rec \in RecordType
    BY DEF IInv, Typed, TypedStore, JobType
  <1>3. JobOK(n)
    BY DEF IInv, JobsOK
  <1>4. /\ j.rec = [table[n].rec EXCEPT !.reported = TRUE]
        /\ j.rev = table[n].rev /\ j.done /\ j.reported
    BY <1>1, <1>2 DEF JobType
  <1>5. /\ j.rec \in RecordType /\ j.rec.uid = table[n].rec.uid
        /\ j.rec.from = table[n].rec.from /\ j.rec.owner = table[n].rec.owner
        /\ j.rec.dismissed = table[n].rec.dismissed
        /\ j.rec.state = table[n].rec.state
    <2> DEFINE old == table[n].rec
               x == [old EXCEPT !.reported = TRUE]
    <2>2. j.rec = x /\ old \in RecordType
      BY <1>2, <1>4
    <2> HIDE DEF j, old
    <2>3. /\ x \in RecordType /\ x.uid = old.uid /\ x.from = old.from
          /\ x.owner = old.owner /\ x.dismissed = old.dismissed /\ x.state = old.state
      BY <2>2 DEF RecordType
    <2> HIDE DEF x
    <2> QED BY <2>2, <2>3 DEF old
  <1>6. j \in JobType
    BY <1>2, <1>5 DEF JobType, RecordType
  <1> HIDE DEF j
  <1>7. OfJob(n, j.rec) /\ ~j.rec.dismissed
    BY <1>1, <1>3, <1>5 DEF JobOK, OfJob, OfTable
  <1>8. table[n].rev \in 1 .. 3
    BY <1>1, <1>3 DEF JobOK
  <1>9. j.rev + 1 <= 4 /\ j.rec.state # "queued"
    <2>1. table[n].rec.state # "queued"
      BY <1>1, <1>3 DEF JobOK
    <2> QED BY <1>4, <1>5, <1>8, <2>1
  <1> QED BY <1>1, <1>4, <1>5, <1>6, <1>7, <1>9, ChangedStep


\* What the write of a revision leaves, late, in time or failed.
LEMMA PersistIs ==
  ASSUME RecordsAssumption, IInv, NEW w \in pend, NEW ok \in BOOLEAN, Persist(w, ok),
         NEW n, n = w.job
  PROVE  /\ n \in Numbers /\ Here(n) /\ live
         /\ w.rec \in RecordType /\ OfJob(n, w.rec) /\ ~w.rec.dismissed
         /\ w.rev \in 1 .. table[n].rev
         /\ w.rev = table[n].rev => w.rec = table[n].rec
         /\ pend' = pend \ {w}
         /\ UNCHANGED <<epoch, up, live, next, table, req, claims, starts, weeks>>
         /\ disk' \in [Numbers -> RecordType]
         /\ written' \in [Numbers -> Nat]
         /\ fails' \in Nat /\ fails' >= fails
         /\ \A k \in Numbers : k # n => disk'[k] = disk[k] /\ written'[k] = written[k]
         /\ Kept(n) => Kept(n)'
         /\ Kept(n)' => OfJob(n, disk'[n])
         /\ disk'[n].dismissed => Kept(n)' /\ ~disk'[n].text
         /\ disk'[n].old => weeks > 0
         /\ \/ /\ written[n] >= w.rev
               /\ UNCHANGED <<disk, written, fails>>
            \/ /\ written[n] < w.rev
               /\ written'[n] = w.rev
               /\ fails' = 0 =>
                    /\ Kept(n)'
                    /\ disk'[n].dismissed \/ /\ disk'[n].state = w.rec.state
                                             /\ disk'[n].reported = w.rec.reported
  <1> USE DEF Here, Kept
  <1>1. /\ w \in WriteType /\ n \in Numbers /\ w.rec \in RecordType /\ w.rev \in Nat
        /\ disk \in [Numbers -> RecordType] /\ written \in [Numbers -> Nat]
        /\ fails \in Nat /\ weeks \in Nat
    BY DEF IInv, Typed, TypedStore, TypedFiles, WriteType
  <1>2. /\ Here(n) /\ OfJob(n, w.rec) /\ ~w.rec.dismissed
        /\ w.rev \in 1 .. table[n].rev
        /\ w.rev = table[n].rev => w.rec = table[n].rec
    BY DEF IInv, PendOK
  <1>3. live
    BY DEF IInv, LiveOK
  <1>4. /\ pend' = pend \ {w}
        /\ UNCHANGED <<epoch, up, live, next, table, req, claims, starts, weeks>>
    BY DEF Persist, bounds
  <1>5. /\ disk[n] \in RecordType
        /\ Kept(n) => OfJob(n, disk[n])
        /\ disk[n].dismissed => Kept(n) /\ ~disk[n].text
        /\ disk[n].old => weeks > 0
        /\ table[n].rec.uid \in 1 .. starts
    BY <1>1, <1>2 DEF IInv, JobsOK, JobOK, RecordsOK
  <1>6. CASE written[n] >= w.rev
    <2>1. UNCHANGED <<disk, written, fails>>
      BY <1>6 DEF Persist
    <2> QED BY <1>1, <1>2, <1>3, <1>4, <1>5, <1>6, <2>1 DEF OfJob
  <1>7. CASE ~(written[n] >= w.rev)
    <2>1. /\ MayFail(ok)
          /\ disk' = IF ok THEN Written(n, w.rec) ELSE disk
          /\ written' = [written EXCEPT ![n] = w.rev]
      BY <1>7 DEF Persist
    <2>2. /\ written' \in [Numbers -> Nat] /\ written'[n] = w.rev
          /\ \A k \in Numbers : k # n => written'[k] = written[k]
          /\ written[n] < w.rev
      BY <1>1, <1>7, <2>1
    <2>3. fails' \in Nat /\ fails' >= fails /\ (~ok => fails' > 0)
      BY <2>1, FailKeeps
    <2>4. CASE ~ok \/ disk[n].dismissed
      <3>1. UNCHANGED disk
        BY <1>1, <1>2, <1>5, <2>1, <2>4, MergedIs DEF Written
      <3> QED BY <1>1, <1>2, <1>3, <1>4, <1>5, <2>2, <2>3, <2>4, <3>1 DEF OfJob
    <2>5. CASE ok /\ ~disk[n].dismissed
      <3> DEFINE d == Merged(disk[n], w.rec)
      <3>1. disk' = [disk EXCEPT ![n] = d]
        BY <2>1, <2>5 DEF Written
      <3>2. /\ d \in RecordType /\ d.uid = w.rec.uid /\ d.state = w.rec.state
            /\ d.owner = w.rec.owner /\ d.reported = w.rec.reported
            /\ ~d.dismissed /\ ~d.old
            /\ d.from = IF w.rec.from = NoLink THEN disk[n].from ELSE w.rec.from
        BY <1>1, <1>2, <1>5, <2>5, MergedIs
      <3> HIDE DEF d
      <3>3. disk[n].from = NoLink \/ disk[n].from = w.rec.from
        BY <1>2, <1>5, NoneTypes DEF OfJob
      <3>4. OfJob(n, d)
        BY <1>2, <3>2, <3>3 DEF OfJob
      <3>5. d # NoRec
        BY <1>2, <1>5, <3>2, NoneTypes DEF OfJob
      <3>6. /\ disk' \in [Numbers -> RecordType] /\ disk'[n] = d
            /\ \A k \in Numbers : k # n => disk'[k] = disk[k]
        BY <1>1, <3>1, <3>2
      <3> QED BY <1>1, <1>2, <1>3, <1>4, <2>2, <2>3, <3>2, <3>4, <3>5, <3>6
    <2> QED BY <2>4, <2>5
  <1> QED BY <1>6, <1>7

LEMMA SpawnedIs ==
  ASSUME NEW w \in WriteType, Spawned(w)
  PROVE  /\ runs' \subseteq runs \cup {w.job}
         /\ agents' \subseteq agents \cup {w.rec.uid}
         /\ \/ succ' = succ
            \/ /\ w.rec.from # NoLink
               /\ succ' = [succ EXCEPT ![w.rec.from[2]] = @ \cup {w.rec.uid}]
  BY DEF Spawned

LEMMA PersistStep ==
  ASSUME RecordsAssumption, IInv, NEW w \in pend, NEW ok \in BOOLEAN, Persist(w, ok)
  PROVE  IInv'
  <1> DEFINE n == w.job
  <1>1. /\ n \in Numbers /\ Here(n) /\ live
        /\ w.rec \in RecordType /\ OfJob(n, w.rec) /\ ~w.rec.dismissed
        /\ w.rev \in 1 .. table[n].rev
        /\ w.rev = table[n].rev => w.rec = table[n].rec
        /\ pend' = pend \ {w}
        /\ UNCHANGED <<epoch, up, live, next, table, req, claims, starts, weeks>>
    BY PersistIs
  <1>2. /\ disk' \in [Numbers -> RecordType]
        /\ written' \in [Numbers -> Nat]
        /\ fails' \in Nat /\ fails' >= fails
        /\ \A k \in Numbers : k # n => disk'[k] = disk[k] /\ written'[k] = written[k]
    BY PersistIs
  <1>3. /\ Kept(n) => Kept(n)'
        /\ Kept(n)' => OfJob(n, disk'[n])
        /\ disk'[n].dismissed => Kept(n)' /\ ~disk'[n].text
        /\ disk'[n].old => weeks > 0
    BY PersistIs
  <1>4. \/ /\ written[n] >= w.rev
           /\ UNCHANGED <<disk, written, fails>>
        \/ /\ written[n] < w.rev
           /\ written'[n] = w.rev
           /\ fails' = 0 =>
                /\ Kept(n)'
                /\ disk'[n].dismissed \/ /\ disk'[n].state = w.rec.state
                                         /\ disk'[n].reported = w.rec.reported
    BY PersistIs
  <1>5. w \in WriteType /\ Spawned(w)
    BY DEF Persist, IInv, Typed, TypedStore
  <1>6. /\ runs' \subseteq runs \cup {n}
        /\ agents' \subseteq agents \cup {w.rec.uid}
        /\ \/ succ' = succ
           \/ /\ w.rec.from # NoLink
              /\ succ' = [succ EXCEPT ![w.rec.from[2]] = @ \cup {w.rec.uid}]
    BY <1>5, SpawnedIs
  <1> HIDE DEF n
  <1>7. /\ table \in [Numbers -> JobType] /\ table[n].rev \in Nat /\ epoch \in Nat
        /\ fails \in Nat /\ weeks \in Nat /\ starts \in Nat /\ next \in Nat
        /\ written \in [Numbers -> Nat] /\ disk \in [Numbers -> RecordType]
        /\ w.rev \in Nat
    BY <1>1, NumbersAreNat DEF IInv, Typed, TypedStore, TypedFiles, JobType
  <1>8. /\ w.rec.uid = table[n].rec.uid /\ w.rec.from = table[n].rec.from
        /\ w.rec.uid \in Numbers /\ w.rec.uid \in 1 .. starts
        /\ JobOK(n)
    <2>1. JobOK(n) /\ starts \in 0 .. MaxStarts /\ MaxStarts \in Nat
      BY <1>1, NumbersAreNat DEF IInv, JobsOK, Typed, TypedStore
    <2> QED BY <1>1, <2>1, NumbersAreNat DEF JobOK, OfJob
  <1>9. Kept(n)' => /\ disk'[n].uid = table[n].rec.uid
                    /\ disk'[n].from = table[n].rec.from
                    /\ disk'[n].owner = epoch
                    /\ disk'[n].state \in OfTable
    BY <1>3 DEF OfJob
  <1>10. Kept(n) => /\ disk[n].uid = table[n].rec.uid
                    /\ disk[n].from = table[n].rec.from
    BY <1>1, <1>8 DEF JobOK, OfJob
  <1>11. \A k \in Numbers : k # n => (Kept(k)' <=> Kept(k))
    BY <1>2 DEF Kept
  <1>12. \A k \in Numbers : Kept(k) => /\ Kept(k)'
                                       /\ disk'[k].uid = disk[k].uid
                                       /\ disk'[k].from = disk[k].from
    BY <1>1, <1>2, <1>3, <1>9, <1>10, <1>11
  <1>13. Typed'
    <2>1. TypedStore'
      BY <1>1, <1>2 DEF IInv, Typed, TypedStore
    <2>2. runs' \subseteq Numbers /\ agents' \subseteq Numbers
      BY <1>1, <1>6, <1>8 DEF IInv, Typed, TypedFiles
    <2>3. succ' \in [Numbers -> SUBSET Numbers]
      BY <1>6, <1>8 DEF IInv, Typed, TypedFiles
    <2>4. TypedFiles'
      BY <1>1, <1>2, <1>7, <2>2, <2>3 DEF TypedFiles
    <2>5. TypedRequests'
      BY <1>1 DEF IInv, Typed, TypedRequests
    <2> QED BY <2>1, <2>4, <2>5 DEF Typed
  <1>14. LiveOK'
    BY <1>1 DEF IInv, LiveOK
  <1>15. NumbersOK'
    <2>1. n <= next /\ n <= starts
      BY <1>1, <1>7, NumbersAreNat DEF IInv, NumbersOK, LiveOK
    <2> SUFFICES ASSUME NEW k \in Numbers
                 PROVE  /\ k > starts => ~Kept(k)' /\ k \notin runs'
                        /\ k > next => /\ ~Kept(k)' /\ ~Here(k) /\ k \notin runs'
                                       /\ written'[k] = 0
      BY <1>1 DEF NumbersOK, Here
    <2>2. CASE k = n
      BY <1>7, <2>1, <2>2, NumbersAreNat
    <2>3. CASE k # n
      BY <1>1, <1>2, <1>6, <1>11, <2>3 DEF IInv, NumbersOK
    <2> QED BY <2>2, <2>3
  <1>16. RecordsOK'
    <2> SUFFICES ASSUME NEW k \in Numbers
                 PROVE  /\ disk'[k].owner <= epoch
                        /\ Kept(k)' => disk'[k].uid \in 1 .. starts
                        /\ disk'[k].dismissed => Kept(k)' /\ ~disk'[k].text
                        /\ disk'[k].old => weeks > 0
      BY <1>1 DEF RecordsOK
    <2>1. CASE k # n
      BY <1>2, <1>11, <2>1 DEF IInv, RecordsOK
    <2>2. CASE k = n
      <3>1. disk'[n].owner <= epoch
        BY <1>7, <1>9, NoneTypes DEF Kept
      <3> QED BY <1>3, <1>8, <1>9, <2>2, <3>1
    <2> QED BY <2>1, <2>2
  <1>17. JobsOK'
    <2> SUFFICES ASSUME NEW k \in Numbers
                 PROVE  JobOK(k)'
      BY DEF JobsOK
    <2>1. JobOK(k)
      BY DEF IInv, JobsOK
    <2>2. Here(k) /\ Kept(k)' => OfJob(k, disk'[k])
      BY <1>2, <1>3, <1>11, <2>1 DEF JobOK
    <2> QED BY <1>1, <2>1, <2>2 DEF JobOK, OfJob, Here
  <1>18. NewestOK'
    <2> SUFFICES ASSUME NEW k \in Numbers, Here(k)
                 PROVE  /\ written'[k] <= table[k].rev
                        /\ written'[k] = table[k].rev
                             \/ \E v \in pend' : v.job = k /\ v.rev = table[k].rev
                        /\ fails' = 0 /\ written'[k] = table[k].rev /\ Kept(k)'
                             /\ ~disk'[k].dismissed => Told(k)'
      BY <1>1 DEF NewestOK, Here
    <2>1. /\ written[k] <= table[k].rev
          /\ written[k] = table[k].rev
               \/ \E v \in pend : v.job = k /\ v.rev = table[k].rev
          /\ fails = 0 /\ written[k] = table[k].rev /\ Kept(k) /\ ~disk[k].dismissed
               => Told(k)
      BY DEF IInv, NewestOK
    <2>2. fails' = 0 => fails = 0
      BY <1>2, <1>7
    <2>3. CASE k # n
      <3>1. \A v \in pend : v.job = k => v \in pend'
        BY <1>1, <2>3 DEF n
      <3>2. Told(k) => Told(k)'
        BY <1>1, <1>2, <2>3 DEF Told
      <3> QED BY <1>2, <1>11, <2>1, <2>2, <2>3, <3>1, <3>2
    <2>4. CASE k = n /\ written[n] >= w.rev /\ UNCHANGED <<disk, written, fails>>
      <3>1. Told(k)' <=> Told(k)
        BY <1>1, <2>4 DEF Told
      <3>2. Kept(k)' <=> Kept(k)
        BY <2>4 DEF Kept
      <3>3. ASSUME NEW v \in pend, v.job = k, v.rev = table[k].rev
            PROVE  written[k] = table[k].rev \/ v \in pend'
        BY <1>1, <1>7, <2>1, <2>4, <3>3
      <3>4. written'[k] = table[k].rev
              \/ \E v \in pend' : v.job = k /\ v.rev = table[k].rev
        BY <2>1, <2>4, <3>3
      <3> QED BY <2>1, <2>4, <3>1, <3>2, <3>4
    <2>5. CASE /\ k = n /\ written[n] < w.rev /\ written'[n] = w.rev
               /\ fails' = 0 => /\ Kept(n)'
                                /\ disk'[n].dismissed \/
                                     /\ disk'[n].state = w.rec.state
                                     /\ disk'[n].reported = w.rec.reported
      <3>1. written'[k] <= table[k].rev
        BY <1>1, <2>5
      <3>2. w.rev = table[k].rev \/ \E v \in pend' : v.job = k /\ v.rev = table[k].rev
        <4>1. written[k] # table[k].rev
          BY <1>1, <1>7, <2>5
        <4>2. PICK v \in pend : v.job = k /\ v.rev = table[k].rev
          BY <2>1, <4>1
        <4> QED BY <1>1, <4>2
      <3>3. fails' = 0 /\ w.rev = table[k].rev /\ ~disk'[k].dismissed => Told(k)'
        BY <1>1, <2>5 DEF Told
      <3> QED BY <2>5, <3>1, <3>2, <3>3
    <2> QED BY <1>4, <2>3, <2>4, <2>5
  <1>19. PendOK'
    BY <1>1 DEF IInv, PendOK, OfJob, Here
  <1>20. UidsOK'
    <2> SUFFICES ASSUME NEW k \in Numbers, NEW m \in Numbers, k # m
                 PROVE  /\ Kept(k)' /\ Kept(m)' => disk'[k].uid # disk'[m].uid
                        /\ Here(k) /\ Here(m) => table[k].rec.uid # table[m].rec.uid
                        /\ Kept(k)' /\ Here(m) => disk'[k].uid # table[m].rec.uid
      BY <1>1 DEF UidsOK, Here
    <2>1. UidsOK
      BY DEF IInv
    <2>2. ASSUME NEW x \in Numbers, Kept(x)'
          PROVE  \/ Kept(x) /\ disk'[x].uid = disk[x].uid
                 \/ Here(x) /\ disk'[x].uid = table[x].rec.uid
      BY <1>1, <1>2, <1>9, <1>11, <2>2
    <2>3. Kept(k)' /\ Kept(m)' => disk'[k].uid # disk'[m].uid
      BY <2>1, <2>2 DEF UidsOK
    <2>4. Kept(k)' /\ Here(m) => disk'[k].uid # table[m].rec.uid
      BY <2>1, <2>2 DEF UidsOK
    <2> QED BY <2>1, <2>3, <2>4 DEF UidsOK
  <1>21. LinksOK'
    <2>1. ASSUME NEW k \in Numbers, NEW l, LinkOK(k, l)
          PROVE  LinkOK(k, l)'
      BY <1>1, <1>2, <1>11, <2>1 DEF LinkOK, Here
    <2>2. ASSUME NEW k \in Numbers
          PROVE  \/ disk'[k].from = disk[k].from
                 \/ disk'[k].from = NoLink
                 \/ Here(k) /\ disk'[k].from = table[k].rec.from
      BY <1>1, <1>2, <1>9, NoneTypes DEF Kept
    <2>3. ASSUME NEW k \in Numbers
          PROVE  /\ LinkOK(k, disk[k].from)
                 /\ LinkOK(k, NoLink)
                 /\ Here(k) => LinkOK(k, table[k].rec.from)
      BY DEF IInv, LinksOK, LinkOK
    <2>4. ASSUME NEW k \in Numbers
          PROVE  LinkOK(k, disk'[k].from)
      BY <2>2, <2>3
    <2>5. table' = table
      BY <1>1
    <2> QED BY <2>1, <2>3, <2>4, <2>5 DEF LinksOK, Here
  <1>22. RequestsOK'
    <2>1. ASSUME NEW r \in Requests
          PROVE  RequestOK(r)'
      <3>1. CASE ~Busy(r)
        BY <1>1, <3>1 DEF RequestOK, Busy
      <3>2. CASE Busy(r)
        <4>1. RequestOK(r) /\ ~Here(req[r].job) /\ req[r].job \in Numbers
          BY <3>2 DEF IInv, RequestsOK, RequestOK, Typed, TypedRequests
        <4>2. disk'[req[r].job] = disk[req[r].job] /\ (Kept(req[r].job)' <=> Kept(req[r].job))
          BY <1>1, <1>2, <1>11, <4>1
        <4> QED BY <1>1, <4>1, <4>2 DEF RequestOK, Busy, Here, Kept
      <3> QED BY <3>1, <3>2
    <2> QED BY <1>1, <2>1 DEF IInv, RequestsOK, Busy
  <1>23. ResumesOK'
    <2> SUFFICES ASSUME fails' = 0, weeks = 0
                 PROVE  (OneSuccessor /\ NoneYet /\ BeingStarted /\ RecordedOnDisk)'
      BY <1>1 DEF ResumesOK
    <2>1. OneSuccessor /\ NoneYet /\ BeingStarted /\ RecordedOnDisk
      BY <1>2, <1>7 DEF IInv, ResumesOK
    <2>2. ASSUME NEW k \in Numbers, NEW m, Resumes(k, m)'
          PROVE  Resumes(k, m)
      BY <1>1, <1>2, <1>9, <1>11, <2>2 DEF Resumes, Here
    <2>3. OneSuccessor'
      BY <2>1, <2>2 DEF OneSuccessor
    <2>4. NoneYet'
      BY <1>1, <2>1, <2>2 DEF NoneYet
    <2>5. Kept(n)'
      <3>1. ~Kept(n) => written[n] = 0
        BY <1>1, <2>1 DEF BeingStarted
      <3> QED BY <1>1, <1>3, <1>4, <3>1
    <2>6. BeingStarted'
      <3> SUFFICES ASSUME NEW k \in Numbers, Here(k), ~Kept(k)'
                   PROVE  /\ written'[k] = 0
                          /\ Unspawned(k)'
                          /\ table[k].rec.from # NoLink =>
                               \E r \in Requests : /\ req[r].pc = "starting"
                                                   /\ req[r].new = k
                                                   /\ req[r].job = table[k].rec.from[1]
        BY <1>1 DEF BeingStarted, Here
      <3>1. k # n /\ ~Kept(k)
        BY <1>11, <2>5
      <3>2. \A v \in pend : v.job = k => v \in pend'
        BY <1>1, <3>1 DEF n
      <3>3. Unspawned(k) => Unspawned(k)'
        BY <3>2 DEF Unspawned
      <3> QED BY <1>2, <2>1, <3>1, <3>3 DEF BeingStarted
    <2>7. RecordedOnDisk'
      <3> SUFFICES ASSUME NEW u \in Numbers, NEW x \in succ'[u]
                   PROVE  \E k \in Numbers : /\ Kept(k)'
                                             /\ disk'[k].uid = x
                                             /\ disk'[k].from # NoLink
                                             /\ disk'[k].from[2] = u
        BY DEF RecordedOnDisk
      <3>1. CASE x \in succ[u]
        BY <1>12, <2>1, <3>1 DEF RecordedOnDisk
      <3>2. CASE x \notin succ[u]
        <4>1. w.rec.from # NoLink /\ u = w.rec.from[2] /\ x = w.rec.uid
          BY <1>6, <3>2 DEF IInv, Typed, TypedFiles
        <4> QED BY <1>1, <1>8, <1>9, <2>5, <4>1
      <3> QED BY <3>1, <3>2
    <2> QED BY <2>3, <2>4, <2>6, <2>7
  <1> QED BY <1>13, <1>14, <1>15, <1>16, <1>17, <1>18, <1>19, <1>20, <1>21, <1>22,
             <1>23 DEF IInv

\* Requests when a job is started under number n: one goes on, or none.
RequestsStart(n, from) ==
  /\ req' \in [Requests -> RequestType]
  /\ \A r \in Requests : /\ req'[r].job = req[r].job
                         /\ req'[r].uid = req[r].uid
                         /\ Busy(r)' <=> Busy(r)
                         /\ \/ req'[r] = req[r]
                            \/ /\ req[r].pc = "checked"
                               /\ req'[r].pc = "starting"
                               /\ req'[r].new = n
  /\ from # NoLink =>
       \E r \in Requests : /\ req[r].pc = "checked"
                           /\ req'[r].pc = "starting"
                           /\ req'[r].new = n
                           /\ req[r].job = from[1]

\* The number after the last one is nobody's.
LEMMA NextIsFree ==
  ASSUME RecordsAssumption, IInv, live, starts < MaxStarts
  PROVE  /\ next + 1 \in Numbers /\ next \in Nat /\ starts \in Nat
         /\ next + 1 <= starts + 1 /\ starts + 1 \in Numbers
         /\ ~Kept(next + 1) /\ ~Here(next + 1)
         /\ next + 1 \notin runs /\ written[next + 1] = 0
         /\ \A n \in Numbers : /\ Kept(n) \/ Here(n) => n <= next
                               /\ Kept(n) => disk[n].uid <= starts
                               /\ Here(n) => table[n].rec.uid <= starts
  <1>1. /\ next \in Nat /\ starts \in Nat /\ MaxStarts \in Nat /\ next <= starts
        /\ Numbers = 1 .. MaxStarts
    BY NumbersAreNat DEF IInv, LiveOK, Typed, TypedStore
  <1>2. next + 1 \in Numbers /\ starts + 1 \in Numbers
    BY <1>1
  <1>3. \A n \in Numbers : n > next => ~Kept(n) /\ ~Here(n) /\ n \notin runs /\ written[n] = 0
    BY DEF IInv, NumbersOK
  <1>4. next + 1 > next
    BY <1>1
  <1>5. ASSUME NEW n \in Numbers
        PROVE  /\ Kept(n) \/ Here(n) => n <= next
               /\ Kept(n) => disk[n].uid <= starts
               /\ Here(n) => table[n].rec.uid <= starts
    BY <1>1, <1>3 DEF IInv, RecordsOK, JobsOK, JobOK
  <1>6. /\ ~Kept(next + 1) /\ ~Here(next + 1)
        /\ next + 1 \notin runs /\ written[next + 1] = 0
    <2> DEFINE n == next + 1
    <2>1. n \in Numbers /\ n > next
      BY <1>2, <1>4
    <2> HIDE DEF n
    <2>2. ~Kept(n) /\ ~Here(n) /\ n \notin runs /\ written[n] = 0
      BY <1>3, <2>1
    <2> QED BY <2>2 DEF n
  <1> QED BY <1>1, <1>2, <1>5, <1>6

LEMMA StartedStep ==
  ASSUME RecordsAssumption, IInv, NEW n, n = next + 1,
         NEW queued \in BOOLEAN, NEW owners \in BOOLEAN, NEW from \in Nat \X Nat,
         Started(n, queued, owners, from), RequestsStart(n, from), LinkOK(n, from),
         UNCHANGED <<epoch, up, live, disk, written, claims, fails, weeks>>
  PROVE  IInv'
  <1>1. /\ up /\ live /\ starts < MaxStarts
        /\ next' = n /\ starts' = starts + 1
        /\ UNCHANGED <<agents, runs, succ>>
    BY DEF Started
  <1>2. /\ n \in Numbers /\ next \in Nat /\ starts \in Nat
        /\ n <= starts + 1 /\ starts + 1 \in Numbers
        /\ ~Kept(n) /\ ~Here(n) /\ n \notin runs /\ written[n] = 0
        /\ \A k \in Numbers : /\ Kept(k) \/ Here(k) => k <= next
                              /\ Kept(k) => disk[k].uid <= starts
                              /\ Here(k) => table[k].rec.uid <= starts
    BY <1>1, NextIsFree
  <1>3. /\ table \in [Numbers -> JobType] /\ pend \subseteq WriteType /\ epoch \in Nat
        /\ starts \in 0 .. MaxStarts /\ MaxStarts \in Nat
    BY NumbersAreNat DEF IInv, Typed, TypedStore
  <1>4. PICK rec \in RecordType :
          /\ rec = [NoRec EXCEPT !.uid = starts + 1, !.owner = epoch, !.text = TRUE,
                                 !.from = from,
                                 !.state = IF queued THEN "queued" ELSE "working"]
          /\ rec.uid = starts + 1 /\ rec.owner = epoch
          /\ rec.from = from /\ rec.state \in OfTable /\ ~rec.dismissed
    <2> DEFINE st == IF queued THEN "queued" ELSE "working"
    <2>1. st \in States /\ st \in OfTable
      BY DEF States, OfTable
    <2>2. PICK base \in RecordType : base = NoRec /\ ~base.dismissed
      BY NoneTypes
    <2>3. PICK u \in Nat, e \in Nat : u = starts + 1 /\ e = epoch
      BY <1>2, <1>3
    <2> HIDE DEF st
    <2> DEFINE x == [base EXCEPT !.uid = u, !.owner = e, !.text = TRUE, !.from = from,
                                 !.state = st]
    <2>4. /\ x \in RecordType /\ x.uid = u /\ x.owner = e /\ x.from = from
          /\ x.state = st /\ x.dismissed = base.dismissed
      BY <2>1 DEF RecordType
    <2>5. x = [NoRec EXCEPT !.uid = starts + 1, !.owner = epoch, !.text = TRUE,
                            !.from = from,
                            !.state = IF queued THEN "queued" ELSE "working"]
      BY <2>2, <2>3, Zenon DEF st
    <2> HIDE DEF x
    <2> QED BY <2>1, <2>2, <2>3, <2>4, <2>5
  <1> DEFINE j == [NoJob EXCEPT !.rec = rec, !.rev = 1, !.owners = owners,
                                !.queued = queued]
             w == [job |-> n, rec |-> rec, rev |-> 1]
  <1>5. /\ table' = [table EXCEPT ![n] = j]
         /\ pend' = pend \cup {w}
    BY <1>4 DEF Started
  <1>6. /\ j \in JobType /\ j.rec = rec /\ j.rev = 1 /\ ~j.done /\ ~j.reported
    BY <1>4 DEF NoJob, JobType
  <1>7. w \in WriteType /\ w.job = n /\ w.rec = rec /\ w.rev = 1
    BY <1>2, <1>4 DEF WriteType
  <1> HIDE DEF j, w
  <1>8. /\ table' \in [Numbers -> JobType] /\ table'[n] = j
        /\ \A k \in Numbers : k # n => table'[k] = table[k]
    BY <1>2, <1>3, <1>6, <1>5
  <1>9. /\ Here(n)'
        /\ \A k \in Numbers : k # n => (Here(k)' <=> Here(k))
        /\ \A k \in Numbers : Kept(k)' <=> Kept(k)
    <2>1. j # NoJob
      BY <1>6, NoneTypes
    <2> QED BY <1>8, <2>1 DEF Here, Kept
  <1>10. Typed'
    <2>1. starts' \in 0 .. MaxStarts /\ next' \in Nat
      BY <1>1, <1>2, <1>3
    <2>2. pend' \subseteq WriteType
      BY <1>3, <1>7, <1>5
    <2> QED BY <1>1, <1>8, <2>1, <2>2
        DEF IInv, Typed, TypedStore, TypedFiles, TypedRequests, RequestsStart
  <1>11. LiveOK'
    BY <1>1, <1>2 DEF IInv, LiveOK
  <1>12. NumbersOK'
    <2> SUFFICES ASSUME NEW k \in Numbers
                 PROVE  /\ k > starts + 1 => ~Kept(k) /\ k \notin runs
                        /\ k > n => /\ ~Kept(k) /\ ~Here(k)' /\ k \notin runs
                                    /\ written[k] = 0
      BY <1>1, <1>9 DEF NumbersOK
    <2>1. k \in Nat /\ n \in Nat
      BY <1>2, NumbersAreNat
    <2>2. k > starts + 1 => k > starts
      BY <1>2, <2>1
    <2>3. k > n => k > next /\ k # n
      BY <1>2, <2>1
    <2> QED BY <1>1, <1>9, <2>2, <2>3 DEF IInv, NumbersOK
  <1>13. RecordsOK'
    BY <1>1, <1>2, <1>9 DEF IInv, RecordsOK
  <1>14. JobsOK'
    <2>1. ASSUME NEW k \in Numbers, k # n
          PROVE  JobOK(k)'
      BY <1>1, <1>2, <1>8, <1>9, <2>1 DEF IInv, JobsOK, JobOK, OfJob
    <2>2. JobOK(n)'
      <3>1. OfJob(n, table[n].rec)'
        BY <1>4, <1>6, <1>8 DEF OfJob
      <3>2. ~Kept(n)'
        BY <1>2, <1>9
      <3>3. /\ table'[n].rec = rec /\ table'[n].rev = 1
            /\ ~table'[n].done /\ ~table'[n].reported
        BY <1>6, <1>8
      <3>4. rec.uid \in 1 .. starts'
        BY <1>1, <1>2, <1>4
      <3> QED BY <1>4, <3>1, <3>2, <3>3, <3>4 DEF JobOK
    <2> QED BY <2>1, <2>2 DEF JobsOK
  <1>15. NewestOK'
    <2>1. ASSUME NEW k \in Numbers, Here(k)', k # n
          PROVE  /\ written[k] <= table'[k].rev
                 /\ written[k] = table'[k].rev
                      \/ \E v \in pend' : v.job = k /\ v.rev = table'[k].rev
                 /\ fails = 0 /\ written[k] = table'[k].rev /\ Kept(k)
                      /\ ~disk[k].dismissed => Told(k)'
      BY <1>8, <1>9, <1>5, <2>1 DEF IInv, NewestOK, Told
    <2>2. /\ written[n] <= table'[n].rev
          /\ \E v \in pend' : v.job = n /\ v.rev = table'[n].rev
          /\ written[n] # table'[n].rev
      <3>1. table'[n].rev = 1
        BY <1>6, <1>8
      <3>2. w \in pend' /\ w.job = n /\ w.rev = 1
        BY <1>7, <1>5
      <3> QED BY <1>2, <3>1, <3>2
    <2> QED BY <1>9, <2>1, <2>2 DEF NewestOK
  <1>16. PendOK'
    <2>1. ASSUME NEW v \in pend
          PROVE  /\ Here(v.job)' /\ OfJob(v.job, v.rec)' /\ ~v.rec.dismissed
                 /\ v.rev \in 1 .. table'[v.job].rev
                 /\ v.rev = table'[v.job].rev => v.rec = table'[v.job].rec
      <3>1. /\ Here(v.job) /\ OfJob(v.job, v.rec) /\ ~v.rec.dismissed
            /\ v.rev \in 1 .. table[v.job].rev
            /\ v.rev = table[v.job].rev => v.rec = table[v.job].rec
            /\ v.job \in Numbers
        BY <1>3 DEF IInv, PendOK, WriteType
      <3>2. v.job # n
        BY <1>2, <3>1
      <3>3. table'[v.job] = table[v.job]
        BY <1>8, <3>1, <3>2
      <3> QED BY <1>9, <3>1, <3>2, <3>3 DEF OfJob
    <2>2. /\ Here(w.job)' /\ OfJob(w.job, w.rec)' /\ ~w.rec.dismissed
          /\ w.rev \in 1 .. table'[w.job].rev
          /\ w.rev = table'[w.job].rev => w.rec = table'[w.job].rec
      <3>1. OfJob(n, rec)' /\ Here(n)'
        BY <1>4, <1>6, <1>8, <1>9 DEF OfJob
      <3>2. table'[n].rev = 1 /\ table'[n].rec = rec
        BY <1>6, <1>8
      <3> QED BY <1>4, <1>7, <3>1, <3>2
    <2> QED BY <1>5, <2>1, <2>2 DEF PendOK
  <1>17. UidsOK'
    <2> SUFFICES ASSUME NEW k \in Numbers, NEW m \in Numbers, k # m
                 PROVE  /\ Kept(k) /\ Kept(m) => disk[k].uid # disk[m].uid
                        /\ Here(k)' /\ Here(m)' => table'[k].rec.uid # table'[m].rec.uid
                        /\ Kept(k) /\ Here(m)' => disk[k].uid # table'[m].rec.uid
      BY <1>9 DEF UidsOK
    <2>1. UidsOK
      BY DEF IInv
    <2>2. table'[n].rec.uid = starts + 1
      BY <1>4, <1>6, <1>8
    <2>3. ASSUME NEW x \in Numbers
          PROVE  /\ Kept(x) => disk[x].uid # starts + 1
                 /\ Here(x) => table[x].rec.uid # starts + 1
      <3>1. disk[x].uid \in Nat /\ table[x].rec.uid \in Nat
        BY <1>3 DEF IInv, Typed, TypedFiles, JobType, RecordType
      <3> QED BY <1>2, <3>1
    <2>4. Here(k)' /\ Here(m)' => table'[k].rec.uid # table'[m].rec.uid
      BY <1>8, <1>9, <2>1, <2>2, <2>3 DEF UidsOK
    <2>5. Kept(k) /\ Here(m)' => disk[k].uid # table'[m].rec.uid
      BY <1>8, <1>9, <2>1, <2>2, <2>3 DEF UidsOK
    <2> QED BY <2>1, <2>4, <2>5 DEF UidsOK
  <1>18. LinksOK'
    <2>1. ASSUME NEW k \in Numbers, NEW l, LinkOK(k, l), k <= n
          PROVE  LinkOK(k, l)'
      <3>1. l # NoLink => l[1] # n
        BY <1>2, <2>1, NumbersAreNat DEF LinkOK
      <3> QED BY <1>9, <2>1, <3>1 DEF LinkOK
    <2>2. ASSUME NEW k \in Numbers
          PROVE  LinkOK(k, disk[k].from)'
      <3>1. CASE Kept(k)
        <4>1. k <= n /\ LinkOK(k, disk[k].from) /\ disk' = disk
          BY <1>2, <3>1, NumbersAreNat DEF IInv, LinksOK
        <4> QED BY <2>1, <4>1
      <3>2. CASE ~Kept(k)
        BY <3>2, NoneTypes DEF Kept, LinkOK
      <3> QED BY <3>1, <3>2
    <2>3. ASSUME NEW k \in Numbers, Here(k)'
          PROVE  LinkOK(k, table'[k].rec.from)
      <3>1. CASE k = n
        BY <1>4, <1>6, <1>8, <3>1
      <3>2. CASE k # n
        BY <1>8, <1>9, <2>3, <3>2 DEF IInv, LinksOK
      <3> QED BY <3>1, <3>2
    <2>4. ASSUME NEW k \in Numbers, Here(k)'
          PROVE  k <= n
      BY <1>2, <1>9, <2>4, NumbersAreNat
    <2>5. ASSUME NEW k \in Numbers, Here(k)'
          PROVE  LinkOK(k, table[k].rec.from)'
      BY <2>1, <2>3, <2>4, <2>5
    <2> QED BY <2>2, <2>5 DEF LinksOK
  <1>19. RequestsOK'
    <2>1. ASSUME NEW r \in Requests
          PROVE  RequestOK(r)'
      <3>1. CASE ~Busy(r)
        BY <3>1 DEF RequestOK, RequestsStart
      <3>2. CASE Busy(r)
        <4>1. RequestOK(r)
          BY DEF IInv, RequestsOK
        <4>2. req[r].job \in Numbers /\ req[r].job <= next /\ next' = next + 1
          BY <1>1, <3>2, <4>1 DEF RequestOK, IInv, Typed, TypedRequests
        <4>3. req[r].job # n /\ req[r].job <= next'
          BY <1>2, <4>2, NumbersAreNat
        <4>4. /\ req'[r].job = req[r].job /\ req'[r].uid = req[r].uid
              /\ req'[r].pc = "starting" => req'[r].new \in Numbers
          BY <1>2, <3>2, <4>1 DEF RequestOK, RequestsStart
        <4> QED BY <1>1, <1>9, <3>2, <4>1, <4>2, <4>3, <4>4 DEF RequestOK
      <3> QED BY <3>1, <3>2
    <2>2. \A r, s \in Requests : Busy(r)' /\ Busy(s)' /\ r # s
                                   => req'[r].job # req'[s].job
      BY DEF IInv, RequestsOK, RequestsStart
    <2> QED BY <2>1, <2>2 DEF RequestsOK
  <1>20. ResumesOK'
    <2> SUFFICES ASSUME fails = 0, weeks = 0
                 PROVE  (OneSuccessor /\ NoneYet /\ BeingStarted /\ RecordedOnDisk)'
      BY DEF ResumesOK
    <2>1. OneSuccessor /\ NoneYet /\ BeingStarted /\ RecordedOnDisk
      BY DEF IInv, ResumesOK
    <2>2. ASSUME NEW k \in Numbers, NEW m, Resumes(k, m)', k # n
          PROVE  Resumes(k, m)
      BY <1>8, <1>9, <2>2 DEF Resumes
    <2>3. ASSUME NEW m \in Numbers, Resumes(n, m)'
          PROVE  from # NoLink /\ from[1] = m
      <3>1. from[1] = m
        BY <1>2, <1>4, <1>6, <1>8, <1>9, <2>3 DEF Resumes
      <3>2. NoLink[1] = 0 /\ m # 0
        BY NumbersAreNat DEF NoLink
      <3> QED BY <3>1, <3>2
    <2>4. ASSUME NEW m \in Numbers, NEW k \in Numbers, from # NoLink, from[1] = m
          PROVE  ~Resumes(k, m)
      BY <2>1, <2>4 DEF NoneYet, RequestsStart
    <2>5. OneSuccessor'
      BY <2>1, <2>2, <2>3, <2>4 DEF OneSuccessor
    <2>6. NoneYet'
      <3> SUFFICES ASSUME NEW r \in Requests, req'[r].pc = "checked",
                          NEW k \in Numbers, Resumes(k, req[r].job)'
                   PROVE  FALSE
        BY DEF NoneYet
      <3>1. req'[r] = req[r] /\ Busy(r)
        BY DEF RequestsStart, Busy
      <3>2. req[r].job \in Numbers
        BY <3>1 DEF IInv, RequestsOK, RequestOK, Typed, TypedRequests
      <3>3. CASE k # n
        BY <2>1, <2>2, <3>1, <3>3 DEF NoneYet
      <3>4. CASE k = n
        <4>1. from # NoLink /\ from[1] = req[r].job
          BY <2>3, <3>1, <3>2, <3>4
        <4>2. PICK s \in Requests : /\ req[s].pc = "checked" /\ req'[s].pc = "starting"
                                    /\ req[s].job = from[1]
          BY <4>1 DEF RequestsStart
        <4>3. s # r /\ Busy(s)
          BY <3>1, <4>2 DEF Busy
        <4> QED BY <3>1, <4>1, <4>2, <4>3 DEF IInv, RequestsOK
      <3> QED BY <3>3, <3>4
    <2>7. BeingStarted'
      <3> SUFFICES ASSUME NEW k \in Numbers, Here(k)', ~Kept(k)
                   PROVE  /\ written[k] = 0
                          /\ Unspawned(k)'
                          /\ table'[k].rec.from # NoLink =>
                               \E r \in Requests : /\ req'[r].pc = "starting"
                                                   /\ req'[r].new = k
                                                   /\ req'[r].job = table'[k].rec.from[1]
        BY <1>9 DEF BeingStarted
      <3>1. CASE k = n
        <4>1. Unspawned(n)'
          BY <1>7, <1>5 DEF Unspawned
        <4>2. table'[n].rec.from = from
          BY <1>4, <1>6, <1>8
        <4>3. from # NoLink => \E r \in Requests : /\ req'[r].pc = "starting"
                                                   /\ req'[r].new = n
                                                   /\ req'[r].job = from[1]
          BY DEF RequestsStart
        <4> QED BY <1>2, <3>1, <4>1, <4>2, <4>3
      <3>2. CASE k # n
        <4>1. Here(k) /\ table'[k] = table[k]
          BY <1>8, <1>9, <3>2
        <4>2. Unspawned(k) => Unspawned(k)'
          BY <1>5 DEF Unspawned
        <4>3. \A r \in Requests : req[r].pc = "starting" => req'[r] = req[r]
          BY DEF RequestsStart
        <4> QED BY <2>1, <4>1, <4>2, <4>3 DEF BeingStarted
      <3> QED BY <3>1, <3>2
    <2>8. RecordedOnDisk'
      BY <1>1, <1>9, <2>1 DEF RecordedOnDisk
    <2> QED BY <2>5, <2>6, <2>7, <2>8
  <1> QED BY <1>10, <1>11, <1>12, <1>13, <1>14, <1>15, <1>16, <1>17, <1>18, <1>19,
             <1>20 DEF IInv

LEMMA StartStep ==
  ASSUME RecordsAssumption, IInv, NEW queued \in Behind, NEW owners \in ByOwner,
         Start(queued, owners)
  PROVE  IInv'
  <1>1. Started(next + 1, queued, owners, NoLink)
        /\ UNCHANGED <<epoch, up, live, disk, written, req, claims, fails, weeks>>
    BY DEF Start, bounds
  <1>2. queued \in BOOLEAN /\ owners \in BOOLEAN
    BY DEF RecordsAssumption
  <1>3. NoLink \in Nat \X Nat /\ LinkOK(next + 1, NoLink)
    BY DEF NoLink, LinkOK
  <1>4. RequestsStart(next + 1, NoLink)
    BY <1>1 DEF RequestsStart, Busy, IInv, Typed, TypedRequests
  <1> QED BY <1>1, <1>2, <1>3, <1>4, StartedStep

LEMMA ResumeStartStep ==
  ASSUME RecordsAssumption, IInv, NEW r \in Requests, ResumeStart(r)
  PROVE  IInv'
  <1> DEFINE from == <<req[r].job, req[r].uid>>
             n == next + 1
  <1>1. /\ req[r].pc = "checked"
        /\ Started(n, FALSE, TRUE, from)
        /\ req' = [req EXCEPT ![r].pc = "starting", ![r].new = n]
        /\ UNCHANGED <<epoch, up, live, disk, written, claims, fails, weeks>>
    BY DEF ResumeStart, bounds
  <1>2. RequestOK(r) /\ Busy(r)
    BY <1>1 DEF IInv, RequestsOK, Busy
  <1>3. /\ req \in [Requests -> RequestType] /\ req[r].job \in Numbers
        /\ req[r].uid \in Numbers /\ req[r].job <= next
    BY <1>2 DEF RequestOK, IInv, Typed, TypedRequests
  <1>4. live /\ starts < MaxStarts
    BY <1>1 DEF Started
  <1>5. n \in Numbers /\ next \in Nat
    BY <1>4, NextIsFree
  <1>6. from \in Nat \X Nat /\ from[1] = req[r].job /\ from[2] = req[r].uid
    BY <1>3, NumbersAreNat
  <1>7. from # NoLink
    BY <1>3, <1>6, NumbersAreNat DEF NoLink
  <1>8. req[r].job < n
    BY <1>3, <1>5, NumbersAreNat
  <1> HIDE DEF from, n
  <1>9. LinkOK(n, from)
    BY <1>2, <1>3, <1>6, <1>8 DEF LinkOK, RequestOK
  <1>10. RequestsStart(n, from)
    <2>1. /\ req' \in [Requests -> RequestType]
          /\ req'[r].pc = "starting" /\ req'[r].new = n
          /\ req'[r].job = req[r].job /\ req'[r].uid = req[r].uid
          /\ \A s \in Requests : s # r => req'[s] = req[s]
      BY <1>1, <1>3, <1>5 DEF RequestType
    <2>2. \A s \in Requests : Busy(s)' <=> Busy(s)
      BY <1>1, <2>1 DEF Busy
    <2> QED BY <1>1, <1>6, <2>1, <2>2 DEF RequestsStart
  <1> QED BY <1>1, <1>6, <1>9, <1>10, StartedStep DEF n

-----------------------------------------------------------------------------
(* All steps                                                               *)

LEMMA InitOK ==
  ASSUME RecordsAssumption, Init
  PROVE  IInv
  <1> USE DEF Init, Here, Kept
  <1>1. Typed
    <2>1. /\ table \in [Numbers -> JobType] /\ disk \in [Numbers -> RecordType]
          /\ req \in [Requests -> RequestType]
      BY NoneTypes
    <2> QED BY <2>1, NumbersAreNat DEF Typed, TypedStore, TypedFiles, TypedRequests
  <1>2. \A n \in Numbers : ~Kept(n) /\ ~Here(n)
    OBVIOUS
  <1>3. \A r \in Requests : ~Busy(r)
    BY NoneTypes DEF Busy
  <1>4. LiveOK /\ NumbersOK
    BY <1>2 DEF LiveOK, NumbersOK
  <1>5. RecordsOK /\ LinksOK
    BY <1>2, NoneTypes DEF RecordsOK, LinksOK, LinkOK
  <1>6. JobsOK /\ NewestOK /\ PendOK /\ UidsOK
    BY <1>2 DEF JobsOK, JobOK, NewestOK, PendOK, UidsOK
  <1>7. RequestsOK
    BY <1>3 DEF RequestsOK, RequestOK
  <1>8. ResumesOK
    BY <1>2, <1>3 DEF ResumesOK, OneSuccessor, NoneYet, BeingStarted, RecordedOnDisk,
                      Resumes, Busy
  <1> QED BY <1>1, <1>4, <1>5, <1>6, <1>7, <1>8 DEF IInv

\* A late revision and the record of an ended session's job do not come over a
\* dismissal.
LEMMA PersistStays ==
  ASSUME RecordsAssumption, IInv, NEW w \in pend, NEW ok \in BOOLEAN, Persist(w, ok)
  PROVE  StepStays
  <1> DEFINE n == w.job
  <1>1. /\ n \in Numbers /\ ~w.rec.dismissed /\ w.rec \in RecordType /\ Here(n)
        /\ \A k \in Numbers : k # n => disk'[k] = disk[k]
        /\ Kept(n)' => OfJob(n, disk'[n])
    BY PersistIs
  <1>2. /\ disk \in [Numbers -> RecordType]
        /\ \A k \in Numbers : disk[k].dismissed => ~disk[k].text
    BY DEF IInv, Typed, TypedFiles, RecordsOK
  <1>3. disk' = disk \/ disk' = [disk EXCEPT ![n] = Merged(disk[n], w.rec)]
    BY DEF Persist, Written
  <1> HIDE DEF n
  <1>4. disk[n].dismissed => disk'[n] = disk[n]
    BY <1>1, <1>2, <1>3, MergedIs
  <1>5. Kept(n) => OfJob(n, disk[n])
    BY <1>1 DEF IInv, JobsOK, JobOK
  <1>6. Kept(n) /\ Kept(n)' => disk'[n].uid = disk[n].uid
    BY <1>1, <1>5 DEF OfJob
  <1>7. DismissedStaysStep
    BY <1>1, <1>2, <1>4 DEF DismissedStaysStep
  <1>8. NumberFreeStep
    BY <1>1, <1>6 DEF NumberFreeStep, Kept
  <1> QED BY <1>7, <1>8 DEF StepStays

LEMMA EndStays ==
  ASSUME RecordsAssumption, IInv, NEW lost \in SUBSET Numbers, EndSession(lost)
  PROVE  StepStays
  <1> SUFFICES ASSUME NEW n \in Numbers
               PROVE  /\ disk[n].dismissed =>
                           disk'[n] = NoRec \/ (disk'[n].dismissed /\ ~disk'[n].text)
                      /\ Kept(n) /\ Kept(n)' => disk'[n].uid = disk[n].uid
    BY DEF StepStays, DismissedStaysStep, NumberFreeStep, Kept
  <1> DEFINE r == [table[n].rec EXCEPT !.state = "interrupted"]
  <1>1. /\ disk[n] \in RecordType /\ table[n].rec \in RecordType
        /\ disk[n].dismissed => ~disk[n].text
    BY DEF IInv, Typed, TypedStore, TypedFiles, JobType, RecordsOK
  <1>2. disk'[n] = disk[n] \/ (Running(n) /\ disk'[n] = Merged(disk[n], r))
    <2> DEFINE open == {k \in Numbers : Running(k)}
               Last(k) == [table[k].rec EXCEPT !.state = "interrupted"]
    <2>1. disk' = [k \in Numbers |->
                     IF k \in open \ lost
                     THEN Merged(disk[k], Last(k)) ELSE disk[k]]
      BY DEF EndSession
    <2>2. n \in open => Running(n)
      OBVIOUS
    <2>3. Last(n) = r
      OBVIOUS
    <2> HIDE DEF open, Last, r
    <2> QED BY <2>1, <2>2, <2>3
  <1>3. r \in RecordType /\ r.uid = table[n].rec.uid /\ r.dismissed = table[n].rec.dismissed
    BY <1>1 DEF RecordType, States, Final
  <1> HIDE DEF r
  <1>4. CASE disk'[n] = disk[n]
    BY <1>1, <1>4
  <1>5. CASE Running(n) /\ disk'[n] = Merged(disk[n], r)
    <2>1. /\ ~table[n].rec.dismissed
          /\ Kept(n) => disk[n].uid = table[n].rec.uid
      BY <1>5 DEF Running, Here, IInv, JobsOK, JobOK, OfJob
    <2>2. CASE disk[n].dismissed
      BY <1>1, <1>3, <1>5, <2>1, <2>2, MergedIs
    <2>3. CASE ~disk[n].dismissed
      BY <1>1, <1>3, <1>5, <2>1, <2>3, MergedIs
    <2> QED BY <2>2, <2>3
  <1> QED BY <1>2, <1>4, <1>5

LEMMA SameFilesStay ==
  ASSUME IInv, UNCHANGED disk
  PROVE  StepStays
  BY DEF StepStays, DismissedStaysStep, NumberFreeStep, IInv, RecordsOK

LEMMA NextKeeps ==
  ASSUME RecordsAssumption, IInv, [Next]_vars
  PROVE  IInv' /\ StepStays
  <1>1. ASSUME NEW w \in pend, NEW ok \in BOOLEAN, Persist(w, ok)
        PROVE  IInv' /\ StepStays
    BY <1>1, PersistStep, PersistStays
  <1>2. ASSUME NEW queued \in Behind, NEW owners \in ByOwner, Start(queued, owners)
        PROVE  IInv' /\ StepStays
    BY <1>2, StartStep, SameFilesStay DEF Start
  <1>3. ASSUME NEW n \in Numbers, Began(n)
        PROVE  IInv' /\ StepStays
    BY <1>3, BeganStep, SameFilesStay DEF Began
  <1>4. ASSUME NEW n \in Numbers, FinishJob(n)
        PROVE  IInv' /\ StepStays
    BY <1>4, FinishStep, SameFilesStay DEF FinishJob
  <1>5. ASSUME NEW n \in Numbers, MarkReported(n)
        PROVE  IInv' /\ StepStays
    BY <1>5, ReportedStep, SameFilesStay DEF MarkReported
  <1>6. ASSUME NEW n \in Numbers, Prune(n)
        PROVE  IInv' /\ StepStays
    BY <1>6, PruneStep
  <1>7. ASSUME NEW lost \in SUBSET Numbers, EndSession(lost)
        PROVE  IInv' /\ StepStays
    BY <1>7, EndStep, EndStays
  <1>8. ASSUME BeginSession
        PROVE  IInv' /\ StepStays
    BY <1>8, BeginStep, SameFilesStay DEF BeginSession
  <1>9. ASSUME Crash
        PROVE  IInv' /\ StepStays
    BY <1>9, CrashStep, SameFilesStay DEF Crash
  <1>10. ASSUME Boot
         PROVE  IInv' /\ StepStays
    BY <1>10, BootStep, SameFilesStay DEF Boot
  <1>11. ASSUME Reap \/ UNCHANGED vars
         PROVE  IInv' /\ StepStays
    BY <1>11, ReapStep
  <1>12. ASSUME Week
         PROVE  IInv' /\ StepStays
    BY <1>12, WeekStep
  <1>13. ASSUME NEW n \in Numbers, NEW ok \in BOOLEAN, Settle(n, ok)
         PROVE  IInv' /\ StepStays
    BY <1>13, SettleStep
  <1>14. ASSUME NEW n \in Numbers, NEW ok \in BOOLEAN, Dismiss(n, ok)
         PROVE  IInv' /\ StepStays
    BY <1>14, DismissStep
  <1>15. ASSUME NEW r \in Requests, NEW n \in Numbers, ResumeLoad(r, n)
         PROVE  IInv' /\ StepStays
    BY <1>15, LoadStep, SameFilesStay DEF ResumeLoad
  <1>16. ASSUME NEW r \in Requests, ResumeCheck(r)
         PROVE  IInv' /\ StepStays
    BY <1>16, CheckStep, SameFilesStay DEF ResumeCheck
  <1>17. ASSUME NEW r \in Requests, ResumeStart(r)
         PROVE  IInv' /\ StepStays
    BY <1>17, ResumeStartStep, SameFilesStay DEF ResumeStart
  <1>18. ASSUME NEW r \in Requests, ResumeRefused(r)
         PROVE  IInv' /\ StepStays
    BY <1>18, RefusedStep
  <1>19. ASSUME NEW r \in Requests, NEW ok \in BOOLEAN, ResumeLink(r, ok)
         PROVE  IInv' /\ StepStays
    BY <1>19, LinkStep
  <1> QED BY <1>1, <1>2, <1>3, <1>4, <1>5, <1>6, <1>7, <1>8, <1>9, <1>10, <1>11, <1>12,
             <1>13, <1>14, <1>15, <1>16, <1>17, <1>18, <1>19 DEF Next, Maintain

-----------------------------------------------------------------------------
(* Theorems                                                                *)

\* The invariant of the job records: which numbers are taken, whose a record
\* and a revision to be written are, and what a link stands for (start,
\* record_changed, save_revision, last_number, resume_once).
THEOREM RecordsInvariance ==
  ASSUME RecordsAssumption
  PROVE  Spec => []IInv
  <1>1. Init => IInv
    BY InitOK
  <1>2. IInv /\ [Next]_vars => IInv'
    BY NextKeeps
  <1> QED BY <1>1, <1>2, PTL DEF Spec

LEMMA NewestHolds ==
  ASSUME RecordsAssumption, IInv
  PROVE  NewestStands
  <1>1. TypeOK
    <2>1. next \in 0 .. MaxStarts /\ starts \in 0 .. MaxStarts
      BY NumbersAreNat DEF IInv, LiveOK, Typed, TypedStore
    <2>2. ASSUME NEW n \in Numbers
          PROVE  /\ disk[n].state \in {"none", "queued", "working"} \cup Final
                 /\ table[n].rev \in 0 .. 4
                 /\ disk[n].owner <= epoch
      <3>1. disk[n].state \in {"none", "queued", "working"} \cup Final
        BY DEF IInv, Typed, TypedFiles, RecordType, States
      <3>2. table[n].rev \in 0 .. 4
        BY NoneTypes DEF IInv, JobsOK, JobOK, Here
      <3> QED BY <3>1, <3>2 DEF IInv, RecordsOK
    <2> QED BY <2>1, <2>2 DEF TypeOK, IInv, Typed, TypedRequests, TypedFiles
  <1>2. ASSUME fails = 0, NEW n \in Numbers, table[n] # NoJob, Shown(n),
               ~ \E w \in pend : w.job = n
        PROVE  /\ disk[n].uid = table[n].rec.uid
               /\ disk[n].state = table[n].rec.state
               /\ disk[n].reported = table[n].rec.reported
    <2>1. Here(n) /\ Kept(n) /\ ~disk[n].dismissed
      BY <1>2 DEF Here, Kept, Shown
    <2>2. written[n] = table[n].rev
      BY <1>2, <2>1 DEF IInv, NewestOK
    <2>3. Told(n)
      BY <1>2, <2>1, <2>2 DEF IInv, NewestOK
    <2> QED BY <2>1, <2>3 DEF Told, IInv, JobsOK, JobOK, OfJob
  <1> QED BY <1>1, <1>2 DEF NewestStands

\* Once a live job's writes landed, in whatever order, its record is the
\* newest state the store has, unless it was dismissed (save_revision).
THEOREM NewestAlwaysStands ==
  ASSUME RecordsAssumption
  PROVE  Spec => []NewestStands
  <1>1. IInv => NewestStands
    BY NewestHolds
  <1> QED BY <1>1, RecordsInvariance, PTL

\* A dismissed job's text does not come back, and a number's record stays that
\* of one job until it is pruned, through late writes, ends of the session and
\* crashes (write, prune, last_number).
THEOREM DismissalsStay ==
  ASSUME RecordsAssumption
  PROVE  Spec => DismissedStays
  <1>1. IInv /\ [Next]_vars => [DismissedStaysStep /\ NumberFreeStep]_vars
    BY NextKeeps DEF StepStays
  <1> QED BY <1>1, RecordsInvariance, PTL DEF Spec, DismissedStays

\* Two jobs that resumed the same one are the same job.
LEMMA OneResumes ==
  ASSUME RecordsAssumption, IInv, fails = 0, weeks = 0, NEW u \in Numbers,
         NEW x \in succ[u], NEW y \in succ[u]
  PROVE  x = y
  <1>1. OneSuccessor /\ RecordedOnDisk
    BY DEF IInv, ResumesOK
  <1>2. PICK n \in Numbers : /\ Kept(n) /\ disk[n].uid = x
                             /\ disk[n].from # NoLink /\ disk[n].from[2] = u
    BY <1>1 DEF RecordedOnDisk
  <1>3. PICK k \in Numbers : /\ Kept(k) /\ disk[k].uid = y
                             /\ disk[k].from # NoLink /\ disk[k].from[2] = u
    BY <1>1 DEF RecordedOnDisk
  <1>4. /\ disk[n].from[1] \in Numbers /\ Kept(disk[n].from[1])
        /\ disk[disk[n].from[1]].uid = u
    BY <1>2 DEF IInv, LinksOK, LinkOK
  <1>5. /\ disk[k].from[1] \in Numbers /\ Kept(disk[k].from[1])
        /\ disk[disk[k].from[1]].uid = u
    BY <1>3 DEF IInv, LinksOK, LinkOK
  <1>6. disk[n].from[1] = disk[k].from[1]
    BY <1>4, <1>5 DEF IInv, UidsOK
  <1>7. n = k
    BY <1>1, <1>2, <1>3, <1>4, <1>6 DEF OneSuccessor, Resumes
  <1> QED BY <1>2, <1>3, <1>7

LEMMA ResumedOnceHolds ==
  ASSUME RecordsAssumption, IInv
  PROVE  ResumedOnce
  <1>1. ASSUME fails = 0, weeks = 0, NEW u \in Numbers
        PROVE  Cardinality(succ[u]) <= 1
    <2>1. CASE succ[u] = {}
      BY <2>1, FS_EmptySet
    <2>2. CASE succ[u] # {}
      <3>1. PICK x \in succ[u] : TRUE
        BY <2>2
      <3>2. succ[u] = {x}
        BY <1>1, <3>1, OneResumes
      <3>3. Cardinality({x}) = 1
        BY FS_Singleton
      <3> QED BY <3>2, <3>3
    <2> QED BY <2>1, <2>2
  <1>2. LinksMeanOneJob
    <2> SUFFICES ASSUME NEW n \in Numbers, disk[n].from # NoLink,
                        disk[disk[n].from[1]] # NoRec
                 PROVE  disk[disk[n].from[1]].uid = disk[n].from[2]
      BY DEF LinksMeanOneJob
    <2> QED BY DEF IInv, LinksOK, LinkOK, Kept
  <1> QED BY <1>1, <1>2 DEF ResumedOnce

\* A job is resumed at most once, by any number of requests and through any
\* number of crashes, while every record was written and none is old enough to
\* be pruned; a link names the job it was made for (resume_once, Started).
THEOREM ResumedAtMostOnce ==
  ASSUME RecordsAssumption
  PROVE  Spec => []ResumedOnce
  <1>1. IInv => ResumedOnce
    BY ResumedOnceHolds
  <1> QED BY <1>1, RecordsInvariance, PTL
=============================================================================
