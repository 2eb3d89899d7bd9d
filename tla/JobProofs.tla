------------------------------ MODULE JobProofs ------------------------------
(***************************************************************************)
(* Proofs about the three jobs that may be cut at any point: the nightly   *)
(* job, for any number of projects, nights and kills (what is deployed is  *)
(* traceable on the data branch, is tonight's run, and no project goes     *)
(* back to an older one); the schedule of the peers workflow, for any      *)
(* number of peers, budget and allowance (the shares of the page budget,   *)
(* and the pages fetched past the floor); and the batch classifier, for    *)
(* any messages, texts, verdicts, concurrency and cap (what a run may      *)
(* spend, what is paid for, and that a completed run accounts for every    *)
(* message). The three share no name, so that this module extends them all.*)
(***************************************************************************)
EXTENDS Nightly, PeerSchedule, Classification, FiniteSetTheorems, TLAPS

(* No store speaks of a night to come.                                     *)
KnownUpToTonight(store) ==
  /\ store.pointer <= night \/ store.pointer = Torn
  /\ \A n \in Nights : n > night => store.manifest[n] = "absent"

NothingFromTheFuture ==
  \A p \in Projects : KnownUpToTonight(data[p]) /\ KnownUpToTonight(branch[p])

(* Tonight's processes only touch tonight's files.                         *)
OlderRunsUntouched ==
  stage \in {"run", "commit"} =>
    \A p \in Projects : \A n \in Nights : n < night =>
      /\ data[p].manifest[n] = branch[p].manifest[n]
      /\ data[p].snapshot[n] = branch[p].snapshot[n]

BuiltFromTheBranch == stage \in {"site", "deploy"} => data = branch

(* The dashboard shows older nights until tonight's commit, and a pointer  *)
(* that can be read is not behind it.                                      *)
LiveIsBehind ==
  \A p \in Projects :
    /\ live[p].run <= night
    /\ stage \in {"run", "commit"} => live[p].run < night
    /\ data[p].pointer \in Nights => live[p].run <= data[p].pointer
    /\ branch[p].pointer \in Nights => live[p].run <= branch[p].pointer

(* What BuildSite built can be deployed.                                   *)
SiteIsSound ==
  stage = "deploy" =>
    \A p \in Projects :
      /\ live[p].run <= site[p].run /\ site[p].run <= night
      /\ branch[p].pointer \in Nights => site[p].run <= branch[p].pointer
      /\ site[p] # Dark => /\ branch[p].manifest[site[p].run] = "whole"
                           /\ branch[p].snapshot[site[p].run] = "whole"

(* A run of Cassandra that succeeds has pointed to itself.                 *)
SuccessIsTonights ==
  /\ (stage = "run" /\ project = Cassandra /\ step = "manifest" /\ metrics = "ok")
       => data[Cassandra].pointer = night
  /\ (stage # "idle" /\ passed) => data[Cassandra].pointer = night
  /\ (stage = "deploy" /\ passed) => site[Cassandra].run = night

IInv ==
  /\ TypeOK
  /\ NothingFromTheFuture
  /\ OlderRunsUntouched
  /\ BuiltFromTheBranch
  /\ LiveIsBehind
  /\ LiveIsTraceable
  /\ SiteIsSound
  /\ SuccessIsTonights
  /\ stage # "idle" => night \in Nights

-----------------------------------------------------------------------------
(* Choosing the run to render.                                             *)

(* A nonempty set of nights has a latest.                                  *)
LEMMA LatestExists ==
  ASSUME NEW b \in Nat, NEW S \in SUBSET (1..b), S # {}
  PROVE  \E m \in S : \A y \in S : y <= m
<1> DEFINE T == {y..b : y \in S}
           R == StrictSubsetOrdering(1..b)
           F == FiniteSubsetsOf(1..b)
<1>1. T \subseteq SUBSET (1..b) /\ T # {}
  <2>1. \A y \in S : y..b \subseteq 1..b
    OBVIOUS
  <2>2. \A X \in T : \E y \in S : X = y..b
    OBVIOUS
  <2>3. PICK y \in S : TRUE
    OBVIOUS
  <2>4. y..b \in T
    OBVIOUS
  <2> HIDE DEF T
  <2> QED BY <2>1, <2>2, <2>4
<1>2. T \subseteq F
  <2>1. IsFiniteSet(1..b)
    BY FS_Interval
  <2> HIDE DEF T
  <2> QED BY <1>1, <2>1, FS_FiniteSubsetsOfFinite
<1>3. \E x \in T : \A y \in T : ~ (<<y, x>> \in R)
  <2>1. IsWellFoundedOn(R, F)
    BY FS_StrictSubsetOrderingWellFounded
  <2> HIDE DEF R, T, F
  <2> QED BY <1>1, <1>2, <2>1, WFMin
<1>4. PICK x \in T : \A y \in T : ~ (<<y, x>> \in R)
  BY <1>3
<1>5. PICK m \in S : x = m..b
  BY <1>4
<1>6. ASSUME NEW y \in S PROVE y <= m
  <2>1. y..b \in T
    OBVIOUS
  <2>2. <<y..b, m..b>> \notin R
    BY <1>4, <1>5, <2>1
  <2>3. y..b \subseteq 1..b /\ m..b \subseteq 1..b
    OBVIOUS
  <2>4. ~(y..b \subseteq m..b /\ y..b # m..b)
    BY <2>2, <2>3 DEF StrictSubsetOrdering
  <2>5. m \in Int /\ y \in Int /\ m <= b
    OBVIOUS
  <2>6. y > m => y..b \subseteq m..b /\ m \in m..b /\ m \notin y..b
    BY <2>5
  <2> QED BY <2>4, <2>5, <2>6
<1> QED BY <1>6

(* The run a project renders is not of a night to come, is the one its     *)
(* pointer names when that can be read, and is not older than a complete   *)
(* run the pointer is not behind.                                          *)
LEMMA ResolvedRun ==
  ASSUME NEW store \in Store, KnownUpToTonight(store), night \in 0..MaxNights
  PROVE  /\ ResolveLatestRun(store) \in 0..night
         /\ store.pointer \in Nights => ResolveLatestRun(store) = store.pointer
         /\ \A n \in Nights :
              /\ store.manifest[n] = "whole"
              /\ store.pointer \in Nights => n <= store.pointer
              => n <= ResolveLatestRun(store)
<1>0. MaxNights \in Nat \ {0}
  BY NightlyAssumption DEF NightlyAssumption
<1>1. CASE store.pointer \in Nights
  BY <1>0, <1>1 DEF ResolveLatestRun, KnownUpToTonight, Nights, Torn
<1>2. CASE store.pointer \notin Nights
  <2>1. WithManifest(store) \in SUBSET (1..MaxNights) /\ \A n \in WithManifest(store) : n <= night
    BY <1>0 DEF WithManifest, Nights, KnownUpToTonight
  <2>2. CASE WithManifest(store) = {}
    BY <1>0, <1>2, <2>2 DEF ResolveLatestRun, NoRun, WithManifest
  <2>3. CASE WithManifest(store) # {}
    <3>1. \E n \in WithManifest(store) : \A m \in WithManifest(store) : m <= n
      BY <1>0, <2>1, <2>3, LatestExists
    <3>2. /\ ResolveLatestRun(store) \in WithManifest(store)
          /\ \A m \in WithManifest(store) : m <= ResolveLatestRun(store)
      BY <1>2, <2>3, <3>1 DEF ResolveLatestRun
    <3>3. \A n \in Nights : store.manifest[n] = "whole" => n \in WithManifest(store)
      BY DEF WithManifest
    <3> QED BY <1>0, <1>2, <2>1, <3>2, <3>3
  <2> QED BY <2>2, <2>3
<1> QED BY <1>1, <1>2

-----------------------------------------------------------------------------
(* A project's process.                                                    *)

LEMMA Constants ==
  /\ MaxNights \in Nat \ {0} /\ NumProjects \in Nat \ {0} /\ MaxKills \in Nat
  /\ Cassandra \in Projects
BY NightlyAssumption DEF NightlyAssumption, Cassandra, Projects

(* A store in which only tonight's files differ from the process's own.    *)
TonightOnly(store) ==
  /\ store \in Store
  /\ store.pointer \in {Mine.pointer, night, Torn}
  /\ \A n \in Nights \ {night} : /\ store.manifest[n] = Mine.manifest[n]
                                 /\ store.snapshot[n] = Mine.snapshot[n]

Kept == /\ NothingFromTheFuture
        /\ OlderRunsUntouched
        /\ BuiltFromTheBranch
        /\ LiveIsBehind
        /\ LiveIsTraceable
        /\ SiteIsSound
        /\ stage # "idle" => night \in Nights

LEMMA MineTyped == ASSUME TypeOK PROVE Mine \in Store /\ project \in Projects
BY DEF TypeOK, Mine

(* A process step keeps all that is about earlier nights.                  *)
LEMMA ProcessKeeps ==
  ASSUME IInv, stage = "run", NEW store, TonightOnly(store),
         data' = [data EXCEPT ![project] = store],
         UNCHANGED <<night, branch, site, live>>, stage' \in {"run", "commit"}
  PROVE  Kept' /\ data' \in [Projects -> Store]
<1>0. /\ data \in [Projects -> Store] /\ project \in Projects /\ night \in Nights /\ Mine = data[project]
      /\ branch \in [Projects -> Store] /\ live \in [Projects -> Page \cup {Dark}]
  BY DEF IInv, TypeOK, Mine
<1>1. data' \in [Projects -> Store]
  BY <1>0 DEF TonightOnly
<1>2. \A p \in Projects : data'[p] = IF p = project THEN store ELSE data[p]
  BY <1>0
<1>3. NothingFromTheFuture'
  <2> SUFFICES ASSUME NEW p \in Projects PROVE KnownUpToTonight(data[p])' /\ KnownUpToTonight(branch[p])'
    BY DEF NothingFromTheFuture
  <2>1. KnownUpToTonight(data[p]) /\ KnownUpToTonight(branch[p]) /\ KnownUpToTonight(Mine)
    BY <1>0 DEF IInv, NothingFromTheFuture
  <2>2. KnownUpToTonight(store)
    BY <1>0, <2>1, Constants DEF TonightOnly, KnownUpToTonight, Nights
  <2> QED BY <1>2, <2>1, <2>2 DEF KnownUpToTonight
<1>4. OlderRunsUntouched'
  <2> SUFFICES ASSUME NEW p \in Projects, NEW n \in Nights, n < night
               PROVE  /\ data'[p].manifest[n] = branch[p].manifest[n]
                      /\ data'[p].snapshot[n] = branch[p].snapshot[n]
    BY DEF OlderRunsUntouched
  <2>1. n # night
    BY <1>0, Constants DEF Nights
  <2>2. data[p].manifest[n] = branch[p].manifest[n] /\ data[p].snapshot[n] = branch[p].snapshot[n]
    BY DEF IInv, OlderRunsUntouched
  <2> QED BY <1>0, <1>2, <2>1, <2>2 DEF TonightOnly
<1>5. LiveIsBehind'
  <2>1. \A p \in Projects : live[p].run < night
    BY DEF IInv, LiveIsBehind
  <2>2. \A p \in Projects : data'[p].pointer \in Nights => live[p].run <= data'[p].pointer
    BY <1>0, <1>2, <2>1, Constants DEF IInv, LiveIsBehind, TonightOnly, Nights, Torn
  <2> QED BY <2>1, <2>2 DEF IInv, LiveIsBehind
<1>6. BuiltFromTheBranch' /\ SiteIsSound' /\ LiveIsTraceable'
  BY DEF IInv, BuiltFromTheBranch, SiteIsSound, LiveIsTraceable
<1> QED BY <1>0, <1>1, <1>3, <1>4, <1>5, <1>6 DEF Kept

LEMMA EndProcessTypes ==
  ASSUME TypeOK, stage = "run", NEW success \in BOOLEAN, EndProcess(success)
  PROVE  /\ passed' \in BOOLEAN /\ project' \in Projects /\ step' \in Steps
         /\ stage' \in {"run", "commit"}
         /\ stage' = "run" => step' = "collect"
         /\ passed' => IF project = Cassandra THEN success ELSE passed
BY Constants DEF TypeOK, EndProcess, Projects, Steps

(* Nothing is written, or what the process writes is tonight's.            *)
LEMMA WritesTonightOnly ==
  ASSUME IInv, stage = "run"
  PROVE  /\ TonightOnly(Mine)
         /\ TonightOnly(CutShort)
         /\ TonightOnly([Mine EXCEPT !.snapshot[night] = "whole"])
         /\ TonightOnly([Mine EXCEPT !.pointer = night])
         /\ TonightOnly([Mine EXCEPT !.manifest[night] = "whole"])
<1>0. Mine \in Store /\ night \in Nights /\ night \in 0..Torn /\ Torn \in 0..Torn /\ step \in Steps
  BY MineTyped, Constants DEF IInv, TypeOK, Nights, Torn
<1>1. ASSUME NEW x \in {"torn", "whole"}
      PROVE  /\ TonightOnly([Mine EXCEPT !.snapshot[night] = x])
             /\ TonightOnly([Mine EXCEPT !.manifest[night] = x])
  BY <1>0 DEF TonightOnly, Store
<1>2. ASSUME NEW x \in {night, Torn} PROVE TonightOnly([Mine EXCEPT !.pointer = x])
  BY <1>0 DEF TonightOnly, Store
<1>3. TonightOnly(Mine) /\ TonightOnly([Mine EXCEPT !.collected = "torn"])
  BY <1>0 DEF TonightOnly, Store
<1> HIDE DEF Mine
<1>4. TonightOnly(CutShort)
  BY <1>0, <1>1, <1>2, <1>3 DEF CutShort, Steps
<1> QED BY <1>1, <1>2, <1>3, <1>4

-----------------------------------------------------------------------------
(* The invariant.                                                          *)

LEMMA InitInv == Init => IInv
<1> SUFFICES ASSUME Init PROVE IInv
  OBVIOUS
<1>1. Empty \in Store /\ \A n \in Nights : Empty.manifest[n] = "absent"
  BY Constants DEF Empty, Store, NoRun, Torn
<1>2. TypeOK
  <2>1. data \in [Projects -> Store] /\ branch \in [Projects -> Store]
    BY <1>1 DEF Init
  <2>2. site \in [Projects -> Page \cup {Dark}] /\ live \in [Projects -> Page \cup {Dark}]
    BY DEF Init, NoSite
  <2>3. night \in 0..MaxNights /\ kills \in 0..MaxKills /\ project \in Projects
    BY Constants DEF Init
  <2>4. /\ step \in Steps /\ metrics \in {"ok", "degraded", "failed"} /\ passed \in BOOLEAN
        /\ stage \in {"idle", "run", "commit", "site", "deploy"}
    BY DEF Init, Steps
  <2> QED BY <2>1, <2>2, <2>3, <2>4 DEF TypeOK
<1>3. NothingFromTheFuture
  BY <1>1, Constants DEF Init, NothingFromTheFuture, KnownUpToTonight, Empty, NoRun
<1>4. LiveIsBehind /\ LiveIsTraceable
  BY Constants DEF Init, LiveIsBehind, LiveIsTraceable, NoSite, Dark, NoRun, Nights
<1> QED BY <1>2, <1>3, <1>4
        DEF Init, IInv, OlderRunsUntouched, BuiltFromTheBranch, SiteIsSound, SuccessIsTonights

(* The steps of a process.                                                 *)
LEMMA ProcessInv == ASSUME IInv, Process \/ Kill PROVE IInv'
<1>0. /\ stage = "run" /\ project \in Projects /\ passed \in BOOLEAN
      /\ data \in [Projects -> Store] /\ Mine = data[project] /\ Mine \in Store
      /\ metrics \in {"ok", "degraded", "failed"}
  BY MineTyped DEF Process, Kill, Collect, Abort, Compute, WriteSnapshot, WritePointer,
       WriteManifest, At, IInv, TypeOK, Mine
<1>1. data = [data EXCEPT ![project] = Mine]
  BY <1>0
<1>2. CASE Collect \/ Compute
  <2>1. /\ stage' = "run" /\ data' = [data EXCEPT ![project] = Mine] /\ UNCHANGED <<night, branch, site, live>>
        /\ UNCHANGED <<project, passed, kills>> /\ step' \in Steps /\ metrics' \in {"ok", "degraded", "failed"}
        /\ step' = "manifest" => metrics' = "failed"
    BY <1>0, <1>1, <1>2 DEF Collect, Compute, job, Steps
  <2>2. Kept' /\ data' \in [Projects -> Store]
    BY <1>0, <2>1, WritesTonightOnly, ProcessKeeps
  <2>3. TypeOK'
    BY <1>0, <2>1, <2>2 DEF IInv, TypeOK
  <2>4. SuccessIsTonights'
    BY <1>0, <1>2, <2>1 DEF Collect, Compute, IInv, SuccessIsTonights
  <2> QED BY <2>2, <2>3, <2>4 DEF IInv, Kept
<1>3. CASE WriteSnapshot
  <2> DEFINE s == [Mine EXCEPT !.snapshot[night] = "whole"]
  <2>1. /\ stage' = "run" /\ data' = [data EXCEPT ![project] = s] /\ UNCHANGED <<night, branch, site, live>>
        /\ UNCHANGED <<project, passed, kills, metrics>> /\ step' = "pointer"
    BY <1>0, <1>3 DEF WriteSnapshot, job
  <2>2. Kept' /\ data' \in [Projects -> Store]
    BY <1>0, <2>1, WritesTonightOnly, ProcessKeeps
  <2>3. TypeOK'
    BY <1>0, <2>1, <2>2 DEF IInv, TypeOK, Steps
  <2>4. data'[Cassandra].pointer = data[Cassandra].pointer
    BY <1>0, <2>1, Constants DEF Store
  <2>5. SuccessIsTonights'
    BY <1>0, <2>1, <2>4 DEF IInv, SuccessIsTonights
  <2> QED BY <2>2, <2>3, <2>5 DEF IInv, Kept
<1>4. CASE WritePointer
  <2> DEFINE s == [Mine EXCEPT !.pointer = night]
  <2>1. /\ stage' = "run" /\ data' = [data EXCEPT ![project] = s] /\ UNCHANGED <<night, branch, site, live>>
        /\ UNCHANGED <<project, passed, kills, metrics>> /\ step' = "manifest"
    BY <1>0, <1>4 DEF WritePointer, job
  <2>2. Kept' /\ data' \in [Projects -> Store]
    BY <1>0, <2>1, WritesTonightOnly, ProcessKeeps
  <2>3. TypeOK'
    BY <1>0, <2>1, <2>2 DEF IInv, TypeOK, Steps
  <2>4. data'[Cassandra].pointer = IF project = Cassandra THEN night ELSE data[Cassandra].pointer
    BY <1>0, <2>1, Constants DEF Store
  <2>5. SuccessIsTonights'
    BY <1>0, <2>1, <2>4 DEF IInv, SuccessIsTonights
  <2> QED BY <2>2, <2>3, <2>5 DEF IInv, Kept
<1>5. CASE WriteManifest
  <2> DEFINE s == [Mine EXCEPT !.manifest[night] = "whole"]
  <2>1. /\ data' = [data EXCEPT ![project] = s] /\ UNCHANGED <<night, branch, site, live, metrics, kills>>
        /\ EndProcess(metrics = "ok") /\ step = "manifest"
    BY <1>0, <1>5 DEF WriteManifest, At, EndProcess
  <2>2. /\ passed' \in BOOLEAN /\ project' \in Projects /\ step' \in Steps /\ stage' \in {"run", "commit"}
        /\ stage' = "run" => step' = "collect"
        /\ passed' => IF project = Cassandra THEN metrics = "ok" ELSE passed
    BY <1>0, <2>1, EndProcessTypes, (metrics = "ok") \in BOOLEAN DEF IInv
  <2>3. Kept' /\ data' \in [Projects -> Store]
    BY <1>0, <2>1, <2>2, WritesTonightOnly, ProcessKeeps
  <2>4. TypeOK'
    BY <1>0, <2>1, <2>2, <2>3 DEF IInv, TypeOK
  <2>5. data'[Cassandra].pointer = data[Cassandra].pointer
    BY <1>0, <2>1, Constants DEF Store
  <2>6. SuccessIsTonights'
    BY <1>0, <2>1, <2>2, <2>5 DEF IInv, SuccessIsTonights
  <2> QED BY <2>3, <2>4, <2>6 DEF IInv, Kept
<1>6. CASE Abort \/ Kill
  <2>1. PICK s \in {Mine, CutShort} : data' = [data EXCEPT ![project] = s]
    BY <1>1, <1>6 DEF Abort, Kill
  <2>2. UNCHANGED <<night, branch, site, live, metrics>> /\ EndProcess(FALSE) /\ kills' \in 0..MaxKills
    <3>1. kills \in 0..MaxKills
      BY DEF IInv, TypeOK
    <3>2. CASE Abort
      BY <3>1, <3>2 DEF Abort
    <3>3. CASE Kill
      <4>1. kills < MaxKills /\ kills' = kills + 1
        BY <3>3 DEF Kill
      <4>2. kills' \in 0..MaxKills
        BY <3>1, <4>1, Constants
      <4> QED BY <3>3, <4>2 DEF Kill
    <3> QED BY <1>6, <3>2, <3>3
  <2>3. /\ passed' \in BOOLEAN /\ project' \in Projects /\ step' \in Steps /\ stage' \in {"run", "commit"}
        /\ stage' = "run" => step' = "collect"
        /\ passed' => project # Cassandra /\ passed
    BY <1>0, <2>2, EndProcessTypes DEF IInv
  <2>4. Kept' /\ data' \in [Projects -> Store]
    BY <1>0, <2>1, <2>2, <2>3, WritesTonightOnly, ProcessKeeps
  <2>5. TypeOK'
    BY <1>0, <2>2, <2>3, <2>4 DEF IInv, TypeOK
  <2>6. SuccessIsTonights'
    BY <1>0, <2>1, <2>2, <2>3, Constants DEF IInv, SuccessIsTonights
  <2> QED BY <2>4, <2>5, <2>6 DEF IInv, Kept
<1> QED BY <1>2, <1>3, <1>4, <1>5, <1>6 DEF Process

(* The steps of the job.                                                   *)
LEMMA JobInv ==
  ASSUME IInv, BeginNight \/ LoseNight \/ Commit \/ BuildSite \/ BuildFails \/ Deploy
  PROVE  IInv'
<1>0. /\ night \in 0..MaxNights
      /\ stage # "idle" => night \in Nights
      /\ data \in [Projects -> Store] /\ branch \in [Projects -> Store]
      /\ live \in [Projects -> Page \cup {Dark}] /\ site \in [Projects -> Page \cup {Dark}]
  BY DEF IInv, TypeOK
<1>1. \A p \in Projects : /\ live[p] # Dark => live[p].run \in Nights
                          /\ live[p].run \in Nat /\ site[p].run \in Nat
  BY <1>0, Constants DEF Page, Dark, NoRun, Nights
<1>2. CASE BeginNight \/ LoseNight
  <2>1. /\ data' = branch /\ UNCHANGED <<branch, live>> /\ stage' \in {"idle", "run"}
        /\ night' \in 0..MaxNights /\ night <= night'
        /\ stage' = "run" => night < night' /\ passed' = FALSE /\ step' = "collect"
    BY <1>0, <1>2, Constants DEF BeginNight, LoseNight, IInv, TypeOK
  <2>a. night \in Nat /\ night' \in Nat /\ MaxNights \in Nat /\ night <= night' /\ night' <= MaxNights
    BY <1>0, <2>1, Constants
  <2>b. stage' = "run" => night < night'
    BY <2>1
  <2>2. TypeOK'
    BY <1>0, <1>2, <2>1, Constants DEF BeginNight, LoseNight, IInv, TypeOK, Steps, NoSite
  <2>3. NothingFromTheFuture'
    <3> SUFFICES ASSUME NEW p \in Projects PROVE KnownUpToTonight(branch[p])'
      BY <2>1 DEF NothingFromTheFuture, KnownUpToTonight
    <3>1. KnownUpToTonight(branch[p])
      BY DEF IInv, NothingFromTheFuture
    <3>2. branch[p] \in Store
      BY <1>0
    <3>3. branch[p].pointer \in 0..Torn
      BY <3>2 DEF Store
    <3>4. branch[p].pointer <= night' \/ branch[p].pointer = Torn
      <4>1. branch[p].pointer \in Nat /\ (branch[p].pointer <= night \/ branch[p].pointer = Torn)
        BY <2>a, <3>1, <3>3 DEF KnownUpToTonight, Torn
      <4> QED BY <2>a, <4>1
    <3>5. \A n \in Nights : n > night' => n > night
      BY <2>a DEF Nights
    <3> QED BY <2>1, <3>1, <3>4, <3>5 DEF KnownUpToTonight
  <2>4. LiveIsBehind'
    <3> SUFFICES ASSUME NEW p \in Projects
                 PROVE  /\ live[p].run <= night'
                        /\ stage' \in {"run", "commit"} => live[p].run < night'
                        /\ branch[p].pointer \in Nights => live[p].run <= branch[p].pointer
      BY <2>1 DEF LiveIsBehind
    <3>1. live[p].run <= night /\ live[p].run \in Nat
      BY <1>1 DEF IInv, LiveIsBehind
    <3>2. branch[p].pointer \in Nights => live[p].run <= branch[p].pointer
      BY DEF IInv, LiveIsBehind
    <3>3. live[p].run <= night' /\ (night < night' => live[p].run < night')
      BY <2>a, <3>1
    <3> QED BY <2>1, <2>b, <3>2, <3>3
  <2>5. SuccessIsTonights'
    BY <2>1 DEF SuccessIsTonights
  <2>6. stage' # "idle" => night' \in Nights
    <3> SUFFICES ASSUME stage' = "run" PROVE night' \in 1..MaxNights
      BY <2>1 DEF Nights
    <3> QED BY <2>a, <2>b
  <2> QED BY <2>1, <2>2, <2>3, <2>4, <2>5, <2>6
          DEF IInv, OlderRunsUntouched, BuiltFromTheBranch, LiveIsTraceable, SiteIsSound
<1>3. CASE Commit
  <2>1. LiveIsTraceable'
    <3> SUFFICES ASSUME NEW p \in Projects, live[p] # Dark
                 PROVE  data[p].manifest[live[p].run] = "whole" /\ data[p].snapshot[live[p].run] = "whole"
      BY <1>3 DEF Commit, LiveIsTraceable
    <3>1. live[p].run < night /\ live[p].run \in Nights
      BY <1>1, <1>3 DEF Commit, IInv, LiveIsBehind
    <3> QED BY <1>3, <3>1 DEF Commit, IInv, LiveIsTraceable, OlderRunsUntouched
  <2>2. TypeOK' /\ NothingFromTheFuture'
    BY <1>3 DEF Commit, IInv, TypeOK, NothingFromTheFuture, KnownUpToTonight
  <2>3. LiveIsBehind' /\ SuccessIsTonights'
    BY <1>3 DEF Commit, IInv, LiveIsBehind, SuccessIsTonights
  <2> QED BY <1>0, <1>3, <2>1, <2>2, <2>3
          DEF Commit, IInv, OlderRunsUntouched, BuiltFromTheBranch, SiteIsSound
<1>4. CASE BuildSite
  <2> DEFINE Site(p) == ResolveLatestRun(data[p])
  <2>1. /\ stage = "site" /\ stage' = "deploy" /\ data = branch
        /\ UNCHANGED <<night, project, step, metrics, passed, data, branch, live, kills>>
    BY <1>4 DEF BuildSite, IInv, BuiltFromTheBranch
  <2>a. night \in Nat /\ MaxNights \in Nat
    BY <1>0, Constants
  <2>2. \A p \in Projects : /\ Site(p) \in 0..night
                            /\ data[p].pointer \in Nights => Site(p) = data[p].pointer
                            /\ live[p].run <= Site(p)
    <3> TAKE p \in Projects
    <3>1. data[p] \in Store /\ KnownUpToTonight(data[p])
      BY <1>0 DEF IInv, NothingFromTheFuture
    <3>2. Site(p) \in 0..night /\ (data[p].pointer \in Nights => Site(p) = data[p].pointer)
      BY <1>0, <3>1, ResolvedRun
    <3>a. Site(p) \in Nat
      BY <2>a, <3>2
    <3>b. \A n \in Nights : data[p].manifest[n] = "whole" /\ (data[p].pointer \in Nights => n <= data[p].pointer)
                             => n <= Site(p)
      BY <1>0, <3>1, ResolvedRun
    <3> HIDE DEF Site
    <3>3. CASE live[p] = Dark
      BY <3>a, <3>2, <3>3 DEF Dark, NoRun
    <3>4. CASE live[p] # Dark
      <4>1. data[p].manifest[live[p].run] = "whole" /\ live[p].run \in Nights
        BY <1>1, <2>1, <3>4 DEF IInv, LiveIsTraceable
      <4>2. data[p].pointer \in Nights => live[p].run <= data[p].pointer
        BY DEF IInv, LiveIsBehind
      <4> QED BY <3>2, <3>b, <4>1, <4>2
    <3> QED BY <3>2, <3>3, <3>4
  <2>3. \A p \in Projects : site'[p] = IF Site(p) # NoRun THEN Render(Site(p)) ELSE Dark
    BY <1>4 DEF BuildSite, Discovered
  <2>4. \A p \in Projects : Site(p) # NoRun => Renderable(data[p])
    BY <1>4 DEF BuildSite, Discovered
  <2> HIDE DEF Site
  <2>5. \A p \in Projects : site'[p].run = Site(p)
    <3>1. Dark.run = NoRun /\ \A r : Render(r).run = r
      BY DEF Render, Dark
    <3> QED BY <2>3, <3>1
  <2>6. TypeOK'
    <3>1. \A p \in Projects : site'[p] \in Page \cup {Dark}
      <4> TAKE p \in Projects
      <4>1. CASE Site(p) = NoRun
        BY <2>3, <4>1
      <4>2. CASE Site(p) # NoRun
        <5>1. Site(p) \in Nights
          BY <1>0, <2>a, <2>2, <4>2 DEF NoRun, Nights
        <5>2. (night >= Site(p) + 2) \in BOOLEAN
          BY <2>a, <5>1 DEF Nights
        <5>3. Render(Site(p)) \in Page
          BY <5>1, <5>2 DEF Render, Page
        <5> QED BY <2>3, <4>2, <5>3
      <4> QED BY <4>1, <4>2
    <3>2. site' \in [Projects -> Page \cup {Dark}]
      BY <1>4, <3>1 DEF BuildSite
    <3> QED BY <2>1, <3>2 DEF IInv, TypeOK
  <2>7. SiteIsSound'
    <3> SUFFICES ASSUME NEW p \in Projects
                 PROVE  /\ live[p].run <= site'[p].run /\ site'[p].run <= night
                        /\ branch[p].pointer \in Nights => site'[p].run <= branch[p].pointer
                        /\ site'[p] # Dark => /\ branch[p].manifest[site'[p].run] = "whole"
                                              /\ branch[p].snapshot[site'[p].run] = "whole"
      BY <2>1 DEF SiteIsSound
    <3>1. site'[p] # Dark => Site(p) # NoRun
      BY <2>3
    <3>2. Site(p) # NoRun => data[p].manifest[Site(p)] = "whole" /\ data[p].snapshot[Site(p)] = "whole"
      BY <2>4 DEF Renderable, Site
    <3> QED BY <1>0, <2>1, <2>2, <2>5, <3>1, <3>2, Constants DEF Nights
  <2>8. SuccessIsTonights'
    <3>1. passed => data[Cassandra].pointer = night /\ night \in Nights
      BY <1>0, <2>1 DEF IInv, SuccessIsTonights
    <3> QED BY <2>1, <2>2, <2>5, <3>1, Constants DEF SuccessIsTonights
  <2> QED BY <1>0, <2>1, <2>6, <2>7, <2>8
          DEF IInv, NothingFromTheFuture, KnownUpToTonight, OlderRunsUntouched, BuiltFromTheBranch,
              LiveIsBehind, LiveIsTraceable
<1>5. CASE BuildFails
  BY <1>0, <1>5 DEF BuildFails, IInv, TypeOK, NothingFromTheFuture, KnownUpToTonight, OlderRunsUntouched,
       BuiltFromTheBranch, LiveIsBehind, LiveIsTraceable, SiteIsSound, SuccessIsTonights
<1>6. CASE Deploy
  <2>1. /\ stage = "deploy" /\ stage' = "idle" /\ live' \in {live, site} /\ data = branch
        /\ UNCHANGED <<night, project, step, metrics, passed, data, branch, site, kills>>
    BY <1>6 DEF Deploy, IInv, BuiltFromTheBranch
  <2>2. LiveIsBehind'
    BY <2>1 DEF IInv, LiveIsBehind, SiteIsSound
  <2>3. LiveIsTraceable'
    BY <2>1 DEF IInv, LiveIsTraceable, SiteIsSound
  <2>4. TypeOK' /\ NothingFromTheFuture'
    BY <1>0, <2>1 DEF IInv, TypeOK, NothingFromTheFuture, KnownUpToTonight
  <2> QED BY <2>1, <2>2, <2>3, <2>4
          DEF IInv, OlderRunsUntouched, BuiltFromTheBranch, SiteIsSound, SuccessIsTonights
<1> QED BY <1>2, <1>3, <1>4, <1>5, <1>6

LEMMA NextInv == IInv /\ [Next]_vars => IInv'
<1> SUFFICES ASSUME IInv, [Next]_vars PROVE IInv'
  OBVIOUS
<1>1. CASE UNCHANGED vars
  BY <1>1 DEF vars, IInv, TypeOK, NothingFromTheFuture, KnownUpToTonight, OlderRunsUntouched,
       BuiltFromTheBranch, LiveIsBehind, LiveIsTraceable, SiteIsSound, SuccessIsTonights
<1> QED BY <1>1, ProcessInv, JobInv DEF Next

-----------------------------------------------------------------------------
(* Every reachable state of the nightly job is well typed.                 *)
THEOREM TypeCorrect == Spec => []TypeOK
<1>1. IInv => TypeOK
  BY DEF IInv
<1> QED BY <1>1, InitInv, NextInv, PTL DEF Spec

(* Whatever fails, is killed or lost, the runs on the live dashboard have  *)
(* their manifest and metrics on the data branch.                          *)
THEOREM LiveAlwaysTraceable == Spec => []LiveIsTraceable
<1>1. IInv => LiveIsTraceable
  BY DEF IInv
<1> QED BY <1>1, InitInv, NextInv, PTL DEF Spec

(* A deployment that changes the dashboard shows Cassandra's run of that   *)
(* night.                                                                  *)
THEOREM DeploysOnlyTonightsRun == Spec => DeploysTonightsRun
<1>1. IInv /\ [Next]_vars =>
        [live' # live => live'[Cassandra].run = night /\ data[Cassandra].pointer = night]_vars
  <2> SUFFICES ASSUME IInv, Next, live' # live
               PROVE  live'[Cassandra].run = night /\ data[Cassandra].pointer = night
    BY DEF vars
  <2>1. CASE Deploy
    BY <2>1 DEF Deploy, IInv, SuccessIsTonights
  <2>2. CASE ~Deploy
    BY <2>2 DEF Next, Process, Collect, Abort, Compute, WriteSnapshot, WritePointer, WriteManifest,
         job, Kill, BeginNight, LoseNight, Commit, BuildSite, BuildFails
  <2> QED BY <2>1, <2>2
<1> QED BY <1>1, InitInv, NextInv, PTL DEF Spec, DeploysTonightsRun

(* No project on the dashboard goes back to an older run or disappears.    *)
THEOREM NeverGoesBackProved == Spec => NeverGoesBack
<1>1. IInv /\ [Next]_vars => [\A p \in Projects : live'[p].run >= live[p].run]_vars
  <2> SUFFICES ASSUME IInv, Next, NEW p \in Projects PROVE live'[p].run >= live[p].run
    BY DEF vars
  <2>0. live[p].run \in Nat /\ site[p].run \in Nat
    BY Constants DEF IInv, TypeOK, Page, Dark, NoRun, Nights
  <2>1. CASE Deploy
    BY <2>0, <2>1 DEF Deploy, IInv, SiteIsSound
  <2>2. CASE ~Deploy
    <3>1. live' = live
      BY <2>2 DEF Next, Process, Collect, Abort, Compute, WriteSnapshot, WritePointer, WriteManifest,
           job, Kill, BeginNight, LoseNight, Commit, BuildSite, BuildFails
    <3> QED BY <2>0, <3>1
  <2> QED BY <2>1, <2>2
<1> QED BY <1>1, InitInv, NextInv, PTL DEF Spec, NeverGoesBack

-----------------------------------------------------------------------------
(* As long as nothing is killed, the run a pointer names is complete, but  *)
(* for the manifest that the process which wrote it has yet to write.      *)

Complete(store) ==
  /\ store.pointer # Torn
  /\ store.pointer \in Nights => store.manifest[store.pointer] = "whole" /\ store.snapshot[store.pointer] = "whole"

Finishing(store) == step = "manifest" /\ store.pointer = night /\ store.snapshot[night] = "whole"

BranchComplete == \A p \in Projects : Complete(branch[p])

DataComplete ==
  /\ stage = "commit" => \A p \in Projects : Complete(data[p])
  /\ stage = "run" => /\ \A p \in Projects \ {project} : Complete(data[p])
                      /\ Complete(Mine) \/ Finishing(Mine)

SnapshotBeforePointer == stage = "run" /\ step = "pointer" => Mine.snapshot[night] = "whole"

SeasonInv == kills = 0 => BranchComplete /\ DataComplete /\ SnapshotBeforePointer

LEMMA SeasonInit == Init => SeasonInv
BY Constants DEF Init, SeasonInv, BranchComplete, DataComplete, SnapshotBeforePointer, Complete, Empty,
     NoRun, Nights, Torn

(* What a process writes is complete, or will be with its manifest.        *)
LEMMA ProcessSeason ==
  ASSUME IInv, SeasonInv, kills = 0, Process
  PROVE  BranchComplete' /\ DataComplete' /\ SnapshotBeforePointer'
<1>a. stage = "run" /\ branch' = branch /\ night' = night
  BY DEF Process, Collect, Abort, Compute, WriteSnapshot, WritePointer, WriteManifest, At, job
<1>b. Mine \in Store /\ project \in Projects /\ data \in [Projects -> Store] /\ Mine = data[project]
  BY MineTyped DEF IInv, TypeOK, Mine
<1>c. night \in Nights /\ night # Torn /\ NumProjects \in Nat
  BY <1>a, Constants DEF IInv, Nights, Torn
<1>0. /\ stage = "run" /\ project \in Projects /\ night \in Nights /\ night # Torn /\ NumProjects \in Nat
      /\ data \in [Projects -> Store] /\ Mine = data[project] /\ Mine \in Store /\ branch' = branch /\ night' = night
  BY <1>a, <1>b, <1>c
<1>1. /\ BranchComplete
      /\ \A p \in Projects \ {project} : Complete(data[p])
      /\ Complete(Mine) \/ Finishing(Mine)
      /\ step = "pointer" => Mine.snapshot[night] = "whole"
  BY <1>0 DEF SeasonInv, DataComplete, SnapshotBeforePointer
<1>2. BranchComplete'
  BY <1>0, <1>1 DEF BranchComplete, Complete
<1>3. ASSUME NEW success, EndProcess(success), Complete(data'[project]),
             \A p \in Projects \ {project} : data'[p] = data[p]
      PROVE  DataComplete' /\ SnapshotBeforePointer'
  <2>1. \A p \in Projects : Complete(data'[p])
    BY <1>1, <1>3
  <2>2. stage' = "run" => step' = "collect" /\ project' \in Projects
    BY <1>0, <1>3 DEF EndProcess, Projects
  <2> QED BY <2>1, <2>2 DEF DataComplete, SnapshotBeforePointer, Complete, Mine
<1>4. ASSUME stage' = "run", project' = project, \A p \in Projects \ {project} : data'[p] = data[p],
             Complete(data'[project]) \/ (step' = "manifest" /\ data'[project].pointer = night
                                            /\ data'[project].snapshot[night] = "whole"),
             step' = "pointer" => data'[project].snapshot[night] = "whole"
      PROVE  DataComplete' /\ SnapshotBeforePointer'
  BY <1>0, <1>1, <1>4 DEF DataComplete, SnapshotBeforePointer, Complete, Finishing, Mine
<1>5. CASE Collect \/ Compute
  <2>1. stage' = "run" /\ project' = project /\ data' = data /\ step # "manifest" /\ step' # "pointer"
    BY <1>0, <1>5 DEF Collect, Compute, At, job
  <2>2. Complete(data'[project])
    BY <1>0, <1>1, <2>1 DEF Finishing
  <2> QED BY <1>2, <1>4, <2>1, <2>2
<1>6. CASE Abort
  <2>1. EndProcess(FALSE) /\ data' = data /\ step = "collect"
    BY <1>6 DEF Abort, At
  <2>2. Complete(data'[project])
    BY <1>0, <1>1, <2>1 DEF Finishing
  <2> QED BY <1>2, <1>3, <2>1, <2>2
<1>7. CASE WriteSnapshot
  <2> DEFINE s == [Mine EXCEPT !.snapshot[night] = "whole"]
  <2>1. stage' = "run" /\ project' = project /\ step = "snapshot" /\ step' = "pointer"
    BY <1>0, <1>7 DEF WriteSnapshot, At, job
  <2>2. data'[project] = s /\ \A p \in Projects \ {project} : data'[p] = data[p]
    BY <1>0, <1>7 DEF WriteSnapshot
  <2>3. Complete(Mine)
    BY <1>1, <2>1 DEF Finishing
  <2>4. Complete(s) /\ s.snapshot[night] = "whole"
    BY <1>0, <2>3 DEF Complete, Store
  <2> QED BY <1>2, <1>4, <2>1, <2>2, <2>4
<1>8. CASE WritePointer
  <2> DEFINE s == [Mine EXCEPT !.pointer = night]
  <2>1. stage' = "run" /\ project' = project /\ step = "pointer" /\ step' = "manifest"
    BY <1>0, <1>8 DEF WritePointer, At, job
  <2>2. data'[project] = s /\ \A p \in Projects \ {project} : data'[p] = data[p]
    BY <1>0, <1>8 DEF WritePointer
  <2>3. s.pointer = night /\ s.snapshot[night] = "whole"
    BY <1>0, <1>1, <2>1 DEF Store
  <2> QED BY <1>2, <1>4, <2>1, <2>2, <2>3
<1>9. CASE WriteManifest
  <2> DEFINE s == [Mine EXCEPT !.manifest[night] = "whole"]
  <2>1. PICK success \in BOOLEAN : EndProcess(success)
    BY <1>9 DEF WriteManifest
  <2>2. data'[project] = s /\ \A p \in Projects \ {project} : data'[p] = data[p]
    BY <1>0, <1>9 DEF WriteManifest
  <2>3. Complete(s)
    BY <1>0, <1>1 DEF Complete, Finishing, Store
  <2> QED BY <1>2, <1>3, <2>1, <2>2, <2>3
<1> QED BY <1>5, <1>6, <1>7, <1>8, <1>9 DEF Process

LEMMA SeasonNext == IInv /\ SeasonInv /\ [Next]_vars => SeasonInv'
<1> SUFFICES ASSUME IInv, SeasonInv, [Next]_vars, kills' = 0
             PROVE  BranchComplete' /\ DataComplete' /\ SnapshotBeforePointer'
  BY DEF SeasonInv
<1>0. kills \in Nat
  BY Constants DEF IInv, TypeOK
<1>1. CASE UNCHANGED vars
  BY <1>1
     DEF vars, SeasonInv, BranchComplete, DataComplete, SnapshotBeforePointer, Complete, Finishing,
         Mine
<1>2. CASE Process
  <2>1. kills = 0
    BY <1>2 DEF Process, Collect, Abort, Compute, WriteSnapshot, WritePointer, WriteManifest
  <2> QED BY <1>2, <2>1, ProcessSeason
<1>3. CASE Kill
  BY <1>0, <1>3 DEF Kill
<1>4. CASE BeginNight \/ LoseNight
  <2>1. /\ kills = 0 /\ branch' = branch /\ data' = branch /\ stage' \in {"idle", "run"}
        /\ stage' = "run" => step' = "collect" /\ project' \in Projects
    BY <1>4, Constants DEF BeginNight, LoseNight
  <2>2. BranchComplete
    BY <2>1 DEF SeasonInv
  <2> QED BY <2>1, <2>2 DEF BranchComplete, DataComplete, SnapshotBeforePointer, Complete, Mine
<1>5. CASE Commit
  <2>1. kills = 0 /\ branch' = data /\ stage = "commit" /\ stage' = "site"
    BY <1>5 DEF Commit
  <2>2. \A p \in Projects : Complete(data[p])
    BY <2>1 DEF SeasonInv, DataComplete
  <2> QED BY <2>1, <2>2 DEF BranchComplete, DataComplete, SnapshotBeforePointer, Complete
<1>6. CASE BuildSite \/ BuildFails \/ Deploy
  <2>1. kills = 0 /\ branch' = branch /\ stage' \in {"idle", "deploy"}
    BY <1>6 DEF BuildSite, BuildFails, Deploy
  <2> QED BY <2>1 DEF SeasonInv, BranchComplete, DataComplete, SnapshotBeforePointer, Complete
<1> QED BY <1>1, <1>2, <1>3, <1>4, <1>5, <1>6 DEF Next

(* As long as no process is killed, a project with a pointer renders: what *)
(* fails or aborts later does not stop the site.                           *)
THEOREM SeasonedProjectsAlwaysRender == Spec => []SeasonedProjectsRender
<1>1. IInv /\ SeasonInv => SeasonedProjectsRender
  <2> SUFFICES ASSUME IInv, SeasonInv, kills = 0, NEW p \in Projects, branch[p].pointer # NoRun
               PROVE  Renderable(branch[p])
    BY DEF SeasonedProjectsRender
  <2>1. branch[p] \in Store /\ Complete(branch[p])
    BY DEF IInv, TypeOK, SeasonInv, BranchComplete
  <2>2. branch[p].pointer \in Nights
    BY <2>1, Constants DEF Store, Complete, Torn, NoRun, Nights
  <2>3. ResolveLatestRun(branch[p]) = branch[p].pointer
    BY <2>2 DEF ResolveLatestRun
  <2> QED BY <2>1, <2>2, <2>3 DEF Complete, Renderable
<1> QED BY <1>1, InitInv, NextInv, SeasonInit, SeasonNext, PTL DEF Spec

-----------------------------------------------------------------------------
(***************************************************************************)
(* The schedule of the peers workflow.                                     *)
(***************************************************************************)
(* The peers of this stage whose turn is still to come and who need more   *)
(* than a settled peer's single page.                                      *)
Waiting(t) == {i \in t..(NumPeers - 1) : (rotation + i) % NumPeers \notin settled}

(* The pages past the floor so far: one for each pass that is over.        *)
OverrunSoFar ==
  pc = "github" =>
    spent <= allowance + 3 * turn + (IF turn < NumPeers THEN pass - 1 ELSE 0)

(* The last peer's turn leaves no pass open.                               *)
LastTurnOver == (pc = "github" /\ turn = NumPeers) => pass = 4

ScheduleInv == ScheduleTypeOK /\ SharesAreForTheWaiting /\ OverrunSoFar /\ LastTurnOver /\ OverrunBounded

-----------------------------------------------------------------------------
(* Arithmetic.                                                             *)

LEMMA ModRange == ASSUME NEW n \in Nat \ {0}, NEW x \in Nat
                  PROVE  x % n \in 0..(n - 1)
BY SMT

LEMMA ModSmall == ASSUME NEW n \in Nat \ {0}, NEW x \in 0..(n - 1)
                  PROVE  x % n = x
BY SMT

LEMMA ModWraps == ASSUME NEW n \in Nat \ {0}, NEW x \in n..(2 * n - 1)
                  PROVE  x % n = x - n
BY SMT

LEMMA DivNat == ASSUME NEW n \in Nat \ {0}, NEW x \in Nat
                PROVE  x \div n \in Nat
BY SMT

(* What has a least element has it as its Least.                           *)
LEMMA LeastIs == ASSUME NEW S \in SUBSET Int, NEW m \in S, \A y \in S : m <= y
                 PROVE  Least(S) = m
<1>1. Least(S) \in S /\ \A y \in S : Least(S) <= y
  BY DEF Least
<1>2. Least(S) <= m /\ m <= Least(S) /\ Least(S) \in Int
  BY <1>1
<1> HIDE DEF Least
<1> QED BY <1>2

LEMMA LeastOfTwo == ASSUME NEW a \in Int, NEW b \in Int
                    PROVE  Least({a, b}) = IF a <= b THEN a ELSE b
BY LeastIs, a <= b \/ b <= a

LEMMA GreatestOfTwo == ASSUME NEW a \in Int, NEW b \in Int
                       PROVE  Greatest({a, b}) = IF a >= b THEN a ELSE b
<1>1. Greatest({a, b}) \in {a, b} /\ \A y \in {a, b} : y <= Greatest({a, b})
  <2>1. \E x \in {a, b} : \A y \in {a, b} : y <= x
    BY a <= b \/ b <= a
  <2> QED BY <2>1 DEF Greatest
<1> QED BY <1>1

-----------------------------------------------------------------------------
(* The order of the peers is a rotation: each has exactly one turn.        *)

LEMMA PeerIsPeer == ASSUME ScheduleAssumption, ScheduleTypeOK, NEW i \in Nat
                    PROVE  (rotation + i) % NumPeers \in Peers
BY ModRange DEF ScheduleAssumption, ScheduleTypeOK, Peers

LEMMA EachPeerOnce ==
  ASSUME ScheduleAssumption, NEW r \in Peers, NEW S \in SUBSET Peers
  PROVE  LET W == {i \in 0..(NumPeers - 1) : (r + i) % NumPeers \notin S}
         IN  Cardinality(W) = Cardinality(Peers \ S)
<1> DEFINE W == {i \in 0..(NumPeers - 1) : (r + i) % NumPeers \notin S}
           f == [i \in W |-> (r + i) % NumPeers]
<1> USE DEF ScheduleAssumption, Peers
<1>1. \A i \in 0..(NumPeers - 1) :
        (r + i) % NumPeers = IF r + i < NumPeers THEN r + i ELSE r + i - NumPeers
  <2> TAKE i \in 0..(NumPeers - 1)
  <2>1. CASE r + i < NumPeers
    BY <2>1, ModSmall, r + i \in 0..(NumPeers - 1)
  <2>2. CASE r + i >= NumPeers
    BY <2>2, ModWraps, r + i \in NumPeers..(2 * NumPeers - 1)
  <2> QED BY <2>1, <2>2
<1>2. f \in [W -> Peers \ S]
  BY <1>1
<1>3. \A i, j \in W : f[i] = f[j] => i = j
  <2> SUFFICES ASSUME NEW i \in W, NEW j \in W, f[i] = f[j] PROVE i = j
    OBVIOUS
  <2>1. (r + i) % NumPeers = (r + j) % NumPeers
    OBVIOUS
  <2>2. i \in 0..(NumPeers - 1) /\ j \in 0..(NumPeers - 1)
    OBVIOUS
  <2> HIDE DEF f, W
  <2> QED BY <1>1, <2>1, <2>2
<1>4. \A p \in Peers \ S : \E i \in W : f[i] = p
  <2> TAKE p \in Peers \ S
  <2> DEFINE i == IF p >= r THEN p - r ELSE p - r + NumPeers
  <2>1. i \in 0..(NumPeers - 1)
    OBVIOUS
  <2>2. (r + i) % NumPeers = p
    <3>1. r + i = IF p >= r THEN p ELSE p + NumPeers
      OBVIOUS
    <3>2. (r + i) % NumPeers = IF r + i < NumPeers THEN r + i ELSE r + i - NumPeers
      BY <1>1, <2>1
    <3> HIDE DEF i
    <3> QED BY <3>1, <3>2
  <2>3. i \in W
    BY <2>1, <2>2
  <2>4. f[i] = p
    BY <2>2, <2>3
  <2> HIDE DEF i, f, W
  <2> QED BY <2>3, <2>4
<1>5. f \in Bijection(W, Peers \ S)
  <2> HIDE DEF f, W
  <2> QED BY <1>2, <1>3, <1>4 DEF Bijection, Injection, Surjection, IsInjective
<1>6. IsFiniteSet(W)
  <2>1. W \in SUBSET (0..(NumPeers - 1))
    OBVIOUS
  <2>2. IsFiniteSet(0..(NumPeers - 1))
    BY FS_Interval
  <2> HIDE DEF W
  <2> QED BY <2>1, <2>2, FS_Subset
<1>7. Cardinality(W) = Cardinality(Peers \ S)
  <2> HIDE DEF f, W
  <2> QED BY <1>5, <1>6, FS_Bijection DEF ExistsBijection
<1> QED BY <1>7

-----------------------------------------------------------------------------
(* A turn.                                                                 *)

LEMMA WaitingFinite == \A t \in Nat : IsFiniteSet(Waiting(t)) /\ Cardinality(Waiting(t)) \in Nat
<1> TAKE t \in Nat
<1>1. Waiting(t) \in SUBSET (t..(NumPeers - 1)) /\ NumPeers - 1 \in Int
  BY ScheduleAssumption DEF Waiting, ScheduleAssumption
<1>2. IsFiniteSet(t..(NumPeers - 1))
  BY <1>1, FS_Interval
<1> QED BY <1>1, <1>2, FS_Subset, FS_CardinalityType

(* An unsettled peer is counted in its own turn: the share never divides   *)
(* by zero.                                                                *)
LEMMA CountedInItsTurn ==
  ASSUME ScheduleTypeOK, SharesAreForTheWaiting, pc = "github", turn < NumPeers, Peer \notin settled
  PROVE  notDone \in Nat \ {0}
<1>1. turn \in Waiting(turn)
  BY ScheduleAssumption DEF ScheduleAssumption, ScheduleTypeOK, Peer, Waiting
<1>2. notDone = Cardinality(Waiting(turn))
  BY DEF SharesAreForTheWaiting, Waiting
<1>3. turn \in Nat
  BY ScheduleAssumption DEF ScheduleAssumption, ScheduleTypeOK
<1> QED BY <1>1, <1>2, <1>3, WaitingFinite, FS_EmptySet

LEMMA PageCapPositive ==
  ASSUME ScheduleTypeOK, SharesAreForTheWaiting, pc = "github", turn < NumPeers
  PROVE  PageCap \in Nat \ {0}
<1>1. CASE Peer \in settled
  BY <1>1 DEF PageCap
<1>2. CASE Peer \notin settled
  <2> DEFINE share == budget \div notDone
  <2>1. share \in Nat
    BY <1>2, CountedInItsTurn, DivNat, ScheduleAssumption DEF ScheduleTypeOK, ScheduleAssumption
  <2> HIDE DEF share
  <2>2. Greatest({1, share}) \in Nat \ {0}
    BY <2>1, GreatestOfTwo
  <2>3. MaxPages \in Nat \ {0}
    BY ScheduleAssumption DEF ScheduleAssumption
  <2>4. Least({MaxPages, Greatest({1, share})}) \in Nat \ {0}
    BY <2>2, <2>3, LeastOfTwo
  <2> QED BY <2>4, <1>2 DEF PageCap, share
<1> QED BY <1>1, <1>2

(* A pass fetches at least one page, no more than its walk needs, and more *)
(* than one only below the floor.                                          *)
LEMMA FetchedBounds ==
  ASSUME ScheduleTypeOK, SharesAreForTheWaiting, pc = "github", turn < NumPeers, pass \in Passes
  PROVE  /\ Fetched \in 1..left[<<Peer, pass>>]
         /\ Fetched = 1 \/ spent + Fetched <= allowance
<1> DEFINE need == left[<<Peer, pass>>]
           last == Least({need, PageCap})
           over == {k \in 1..last : FloorReached(k)}
<1>1. need \in Nat \ {0}
  <2>1. turn \in Nat /\ <<Peer, pass>> \in Turns
    BY ScheduleAssumption, PeerIsPeer DEF ScheduleAssumption, ScheduleTypeOK, Peer, Turns
  <2> QED BY <2>1 DEF ScheduleTypeOK
<1> HIDE DEF need
<1>2. last \in 1..need
  BY <1>1, PageCapPositive, LeastOfTwo
<1> HIDE DEF last
<1>3. spent \in Nat /\ allowance \in Nat
  BY ScheduleAssumption DEF ScheduleAssumption, ScheduleTypeOK
<1>4. CASE spent + last < allowance
  <2>1. over = {}
    BY <1>1, <1>2, <1>3, <1>4 DEF FloorReached
  <2>2. Least({last} \cup over) = last
    BY <1>1, <1>2, <2>1, LeastIs
  <2> QED BY <1>1, <1>2, <1>3, <1>4, <2>2 DEF Fetched, last, need
<1>5. CASE spent + last >= allowance
  <2> DEFINE m == IF allowance - spent >= 1 THEN allowance - spent ELSE 1
  <2>1. m \in 1..last /\ FloorReached(m)
    BY <1>1, <1>2, <1>3, <1>5 DEF FloorReached
  <2>2. \A y \in {last} \cup over : m <= y
    BY <1>1, <1>2, <1>3, <1>5 DEF FloorReached
  <2>3. {last} \cup over \in SUBSET Int /\ m \in {last} \cup over
    BY <1>1, <1>2, <2>1
  <2>4. m = 1 \/ spent + m <= allowance
    BY <1>3
  <2> HIDE DEF m
  <2>5. Least({last} \cup over) = m
    BY <2>2, <2>3, LeastIs
  <2>6. Fetched = m
    BY <2>5 DEF Fetched, last, need
  <2> QED BY <1>1, <1>2, <2>1, <2>4, <2>6 DEF need
<1> QED BY <1>1, <1>2, <1>3, <1>4, <1>5

-----------------------------------------------------------------------------
(* The invariant.                                                          *)

LEMMA ScheduleInitInv == ScheduleInit => ScheduleInv
<1> SUFFICES ASSUME ScheduleInit PROVE ScheduleInv
  OBVIOUS
<1>1. ScheduleTypeOK
  <2>1. NumPeers \in Nat \ {0} /\ FirstWalk \in Nat \ {0} /\ PageBudget \in Nat /\ Allowances \subseteq Nat
    BY ScheduleAssumption DEF ScheduleAssumption
  <2>2. rotation \in Peers /\ turn \in 0..NumPeers /\ notDone \in 0..NumPeers
    BY <2>1 DEF ScheduleInit, Peers
  <2>3. left \in [Turns -> Nat \ {0}]
    BY <2>1 DEF ScheduleInit
  <2>4. budget \in 0..PageBudget /\ used \in Nat /\ spent \in Nat /\ pass \in 1..4
    BY <2>1 DEF ScheduleInit
  <2>5. done \subseteq Turns /\ recent \subseteq done /\ settled \subseteq Peers /\ allowance \in Allowances
        /\ broken \in BrokenSets /\ exhausted \in BOOLEAN /\ pc \in {"idle", "github", "releases", "snapshot"}
    BY DEF ScheduleInit
  <2> QED BY <2>2, <2>3, <2>4, <2>5 DEF ScheduleTypeOK
<1> QED BY <1>1, ScheduleAssumption
       
           DEF ScheduleAssumption, ScheduleInit, ScheduleInv, SharesAreForTheWaiting, OverrunSoFar,
               LastTurnOver, OverrunBounded

(* One more pass is over, and what it fetched is within the bound.         *)
LEMMA PassOver ==
  ASSUME ScheduleInv, pc = "github", pass \in Passes, pass' = pass + 1,
         UNCHANGED <<rotation, pc, turn, settled, notDone, allowance>>,
         spent' = spent \/ (spent' = spent + Fetched)
  PROVE  SharesAreForTheWaiting' /\ OverrunSoFar' /\ LastTurnOver' /\ OverrunBounded'
<1>1. turn \in 0..(NumPeers - 1) /\ pass \in 1..3
  BY ScheduleAssumption DEF ScheduleAssumption, ScheduleInv, LastTurnOver, ScheduleTypeOK, Passes
<1>2. NumPeers \in Nat \ {0} /\ spent \in Nat /\ allowance \in Nat
  BY ScheduleAssumption DEF ScheduleAssumption, ScheduleInv, ScheduleTypeOK
<1>3. spent' \in Nat /\ (spent' <= spent + 1 \/ spent' <= allowance)
  <2>1. left[<<Peer, pass>>] \in Nat
    <3>1. turn \in Nat /\ ScheduleTypeOK
      BY <1>1, <1>2 DEF ScheduleInv
    <3>2. <<Peer, pass>> \in Turns
      BY <3>1, PeerIsPeer, ScheduleAssumption DEF Turns, Peer
    <3> QED BY <3>1, <3>2 DEF ScheduleTypeOK
  <2>2. Fetched \in 1..left[<<Peer, pass>>] /\ (Fetched = 1 \/ spent + Fetched <= allowance)
    BY <1>1, <1>2, FetchedBounds DEF ScheduleInv
  <2> QED BY <1>2, <2>1, <2>2
<1>4. OverrunSoFar'
  BY <1>1, <1>2, <1>3 DEF ScheduleInv, OverrunSoFar
<1>5. OverrunBounded'
  BY <1>1, <1>2, <1>3 DEF ScheduleInv, OverrunSoFar, OverrunBounded
<1> QED BY <1>1, <1>2, <1>4, <1>5 DEF ScheduleInv, SharesAreForTheWaiting, LastTurnOver

LEMMA ScheduleNextInv == ScheduleInv /\ [ScheduleNext]_scheduleVars => ScheduleInv'
<1> SUFFICES ASSUME ScheduleInv, [ScheduleNext]_scheduleVars PROVE ScheduleInv'
  OBVIOUS
<1> USE ScheduleAssumption
<1>0. NumPeers \in Nat \ {0} /\ PageBudget \in Nat /\ Allowances \subseteq Nat
  BY DEF ScheduleAssumption
<1>1. CASE Tick
  BY <1>1
     DEF Tick, runVars, ScheduleInv, ScheduleTypeOK, SharesAreForTheWaiting, OverrunSoFar,
         LastTurnOver, OverrunBounded
<1>2. CASE BeginRun
  <2>1. settled' \subseteq Peers /\ rotation \in Peers
    BY <1>2 DEF BeginRun, ScheduleInv, ScheduleTypeOK
  <2>2. Cardinality(Peers \ settled') \in 0..NumPeers
    <3>1. IsFiniteSet(Peers) /\ Cardinality(Peers) = NumPeers
      BY <1>0, FS_Interval DEF Peers
    <3>2. Peers \ settled' \in SUBSET Peers
      OBVIOUS
    <3>3. IsFiniteSet(Peers \ settled') /\ Cardinality(Peers \ settled') <= Cardinality(Peers)
      BY <3>1, <3>2, FS_Subset
    <3> QED BY <3>1, <3>3, FS_CardinalityType
  <2>3. ScheduleTypeOK'
    <3>1. ScheduleTypeOK /\ UNCHANGED <<rotation, left, done, recent, broken>>
      BY <1>2 DEF BeginRun, state, ScheduleInv
    <3>2. turn' \in 0..NumPeers /\ pass' \in 1..4 /\ budget' \in 0..PageBudget /\ used' \in Nat /\ spent' \in Nat
      BY <1>0, <1>2 DEF BeginRun
    <3>3. pc' = "github" /\ allowance' \in Allowances /\ exhausted' \in BOOLEAN /\ notDone' = Cardinality(Peers \ settled')
      BY <1>2 DEF BeginRun
    <3> HIDE <1>2
    <3>4. notDone' \in 0..NumPeers
      BY <2>2, <3>3
    <3> QED BY <2>1, <3>1, <3>2, <3>3, <3>4 DEF ScheduleTypeOK
  <2>4. SharesAreForTheWaiting'
    BY <1>2, <2>1, EachPeerOnce DEF BeginRun, state, SharesAreForTheWaiting
  <2>5. spent' = 0 /\ turn' = 0 /\ pass' = 1 /\ allowance' \in Nat
    BY <1>0, <1>2 DEF BeginRun
  <2>6. OverrunSoFar' /\ LastTurnOver' /\ OverrunBounded'
    <3>1. \A a \in Nat, n \in Nat \ {0} :
            0 <= a + 3 * 0 + (IF 0 < n THEN 1 - 1 ELSE 0) /\ 0 # n /\ 0 <= a + 3 * n
      OBVIOUS
    <3>2. /\ 0 <= allowance' + 3 * 0 + (IF 0 < NumPeers THEN 1 - 1 ELSE 0) /\ 0 # NumPeers
          /\ 0 <= allowance' + 3 * NumPeers
      BY <1>0, <2>5, <3>1
    <3> QED BY <2>5, <3>1, <3>2 DEF OverrunSoFar, LastTurnOver, OverrunBounded
  <2> QED BY <2>3, <2>4, <2>6 DEF ScheduleInv
<1>3. CASE SkipPass
  <2>1. ScheduleTypeOK'
    BY <1>3 DEF SkipPass, state, runVars, ScheduleInv, ScheduleTypeOK, Passes
  <2> QED BY <1>3, <2>1, PassOver DEF SkipPass, state, runVars, ScheduleInv
<1>4. ASSUME CompletePass \/ CutPass PROVE ScheduleInv'
  <2>1. pc = "github" /\ turn \in 0..(NumPeers - 1) /\ pass \in Passes /\ <<Peer, pass>> \in Turns
    BY <1>0, <1>4, PeerIsPeer
       DEF CompletePass, CutPass, ScheduleInv, LastTurnOver, ScheduleTypeOK, Passes, Turns, Peer
  <2>2. Fetched \in 1..left[<<Peer, pass>>] /\ left[<<Peer, pass>>] \in Nat \ {0}
    BY <1>0, <2>1, FetchedBounds DEF ScheduleInv, ScheduleTypeOK
  <2>3. Redo(pass) \in Nat \ {0}
    BY ScheduleAssumption DEF Redo
  <2>4. left' \in [Turns -> Nat \ {0}]
    <3>1. CASE CompletePass
      BY <2>1, <2>3, <3>1 DEF CompletePass, ScheduleInv, ScheduleTypeOK
    <3>2. CASE CutPass
      <4>1. Remainder \in Nat \ {0}
        BY <2>1, <2>2, <2>3, <3>2 DEF CutPass, Remainder
      <4> QED BY <2>1, <3>2, <4>1 DEF CutPass, ScheduleInv, ScheduleTypeOK
    <3> QED BY <1>4, <3>1, <3>2
  <2>5. ScheduleTypeOK'
    <3>1. FloorReached(Fetched) \in BOOLEAN
      BY DEF FloorReached
    <3>2. done' \subseteq Turns /\ recent' \subseteq done' /\ exhausted' \in BOOLEAN
      BY <1>4, <2>1, <3>1 DEF CompletePass, CutPass, ScheduleInv, ScheduleTypeOK
    <3>3. spent' \in Nat /\ used' \in Nat /\ pass' \in 1..4
      BY <1>4, <2>1, <2>2 DEF CompletePass, CutPass, ScheduleInv, ScheduleTypeOK, Passes
    <3>4. UNCHANGED <<rotation, pc, turn, settled, budget, notDone, allowance, broken>>
      BY <1>4 DEF CompletePass, CutPass
    <3> QED BY <2>4, <3>2, <3>3, <3>4 DEF ScheduleInv, ScheduleTypeOK
  <2> QED BY <1>4, <2>1, <2>5, PassOver DEF CompletePass, CutPass, ScheduleInv
<1>5. CASE EndTurn
  <2>1. turn \in 0..(NumPeers - 1) /\ turn' = turn + 1 /\ pass = 4 /\ pc = "github"
    BY <1>0, <1>5 DEF EndTurn, ScheduleInv, ScheduleTypeOK
  <2>2. Greatest({budget - used, 0}) \in 0..PageBudget
    BY <1>0, GreatestOfTwo DEF ScheduleInv, ScheduleTypeOK
  <2>3. Greatest({notDone - 1, 0}) = IF notDone = 0 THEN 0 ELSE notDone - 1
    BY <1>0, GreatestOfTwo DEF ScheduleInv, ScheduleTypeOK
  <2>4. ScheduleTypeOK'
    BY <1>0, <1>5, <2>1, <2>2, <2>3 DEF EndTurn, state, ScheduleInv, ScheduleTypeOK
  <2>5. notDone = Cardinality(Waiting(turn))
    BY <1>0, <2>1 DEF ScheduleInv, SharesAreForTheWaiting, Waiting
  <2>6. notDone' = Cardinality(Waiting(turn + 1))
    <3>1. IsFiniteSet(Waiting(turn))
      BY <2>1, WaitingFinite
    <3>2. Waiting(turn + 1) = Waiting(turn) \ {turn}
      BY <1>0, <2>1 DEF Waiting
    <3>3. turn \in Waiting(turn) <=> Peer \notin settled
      BY <1>0, <2>1 DEF Waiting, Peer
    <3>4. Cardinality(Waiting(turn + 1))
            = IF Peer \in settled THEN Cardinality(Waiting(turn)) ELSE Cardinality(Waiting(turn)) - 1
      BY <3>1, <3>2, <3>3, FS_RemoveElement
    <3>5. Peer \notin settled => notDone # 0
      BY <1>0, <2>1, CountedInItsTurn DEF ScheduleInv
    <3> QED BY <1>5, <2>3, <2>5, <3>4, <3>5 DEF EndTurn
  <2>7. SharesAreForTheWaiting'
    BY <1>5, <2>1, <2>6 DEF EndTurn, state, SharesAreForTheWaiting, Waiting
  <2>8. OverrunSoFar' /\ LastTurnOver' /\ OverrunBounded'
    BY <1>0, <1>5, <2>1
       DEF EndTurn, ScheduleInv, ScheduleTypeOK, OverrunSoFar, LastTurnOver, OverrunBounded
  <2> QED BY <2>4, <2>7, <2>8 DEF ScheduleInv
<1>6. CASE WriteRotation
  <2>1. rotation' \in Peers
    BY <1>0, <1>6, ModRange, rotation + 1 \in Nat DEF WriteRotation, ScheduleInv, ScheduleTypeOK, Peers
  <2> QED BY <1>0, <1>6, <2>1
         
             DEF WriteRotation, runVars, ScheduleInv, ScheduleTypeOK, SharesAreForTheWaiting,
                 OverrunSoFar, LastTurnOver, OverrunBounded
<1>7. CASE CollectReleases \/ ReleaseFailure \/ TakeSnapshots \/ EndRun
  BY <1>0, <1>7 DEF CollectReleases, ReleaseFailure, TakeSnapshots, EndRun, state, runVars,
       ScheduleInv, ScheduleTypeOK, SharesAreForTheWaiting, OverrunSoFar, LastTurnOver, OverrunBounded
<1>8. CASE UNCHANGED scheduleVars
  BY <1>8
     DEF scheduleVars, state, runVars, ScheduleInv, ScheduleTypeOK, SharesAreForTheWaiting,
         OverrunSoFar, LastTurnOver, OverrunBounded
<1> QED BY <1>1, <1>2, <1>3, <1>4, <1>5, <1>6, <1>7, <1>8 DEF ScheduleNext, Run

-----------------------------------------------------------------------------
(* Every reachable state of the schedule is well typed.                    *)
THEOREM ScheduleTypeCorrect == ScheduleSpec => []ScheduleTypeOK
<1>1. ScheduleInv => ScheduleTypeOK
  BY DEF ScheduleInv
<1> QED BY <1>1, ScheduleInitInv, ScheduleNextInv, PTL DEF ScheduleSpec

(* The share of the page budget is always divided among exactly the        *)
(* unsettled peers still waiting, for any number of peers: never by zero.  *)
THEOREM SharesAreAlwaysForTheWaiting == ScheduleSpec => []SharesAreForTheWaiting
<1>1. ScheduleInv => SharesAreForTheWaiting
  BY DEF ScheduleInv
<1> QED BY <1>1, ScheduleInitInv, ScheduleNextInv, PTL DEF ScheduleSpec

(* A run never fetches more past the rate-limit floor than one page for    *)
(* each pass of each peer, whatever the pages, the budget and the floor.   *)
THEOREM OverrunAlwaysBounded == ScheduleSpec => []OverrunBounded
<1>1. ScheduleInv => OverrunBounded
  BY DEF ScheduleInv
<1> QED BY <1>1, ScheduleInitInv, ScheduleNextInv, PTL DEF ScheduleSpec

-----------------------------------------------------------------------------
(***************************************************************************)
(* The batch classifier.                                                   *)
(***************************************************************************)
(* A text is out, or was answered, as it was sent at first or halved.      *)
FormsKnown ==
  \A m \in Messages : /\ call[m] \in {NoForm, First(m), "half"}
                      /\ answer[m] \in {NoForm, First(m), "half"}

AnswersAreCached == \A m \in Messages : answer[m] # NoForm => Cached(m, answer[m])

(* Until the run is paused or raises, no worker that had a slot is lost.   *)
Accounted ==
  (phase \in {"running", "ended"} /\ pause = "none") =>
    \A m \in Messages : m < next => call[m] # NoForm \/ answer[m] # NoForm \/ m \in skipped

AllHadASlot == phase = "ended" => next = NumMessages + 1

Bookkeeping == FormsKnown /\ AnswersAreCached /\ Accounted /\ AllHadASlot

(* Induction needs the forms and slots to follow an answer into the cache. *)
BatchInv == BatchTypeOK /\ SpendBounded /\ Bookkeeping

-----------------------------------------------------------------------------
LEMMA FirstIsAForm == \A m \in Messages : First(m) \in Forms /\ First(m) # NoForm
BY DEF First, Forms, NoForm

LEMMA InFlightFinite == IsFiniteSet(InFlight) /\ Cardinality(InFlight) \in Nat
<1>1. IsFiniteSet(Messages)
  BY FS_Interval, ClassificationAssumption DEF Messages
<1>2. IsFiniteSet(InFlight)
  BY <1>1, FS_Subset DEF InFlight
<1> QED BY <1>2, FS_CardinalityType

(* Nothing is in flight when no call is out.                               *)
LEMMA NoneInFlight ==
  ASSUME \A m \in Messages : call[m] = NoForm
  PROVE  InFlight = {} /\ Cardinality(InFlight) = 0
<1>1. InFlight = {}
  BY DEF InFlight
<1> QED BY <1>1, FS_EmptySet

(* A call that is sent takes one slot at most.                             *)
LEMMA SendTakesASlot ==
  ASSUME BatchTypeOK, NEW m \in Messages, NEW form \in Forms, call' = [call EXCEPT ![m] = form]
  PROVE  Cardinality(InFlight)' <= Cardinality(InFlight) + 1 /\ Cardinality(InFlight)' \in Nat
<1>1. InFlight' = InFlight \cup {m}
  BY DEF BatchTypeOK, InFlight, Forms, NoForm
<1>2. Cardinality(InFlight \cup {m})
        = IF m \in InFlight THEN Cardinality(InFlight) ELSE Cardinality(InFlight) + 1
  BY InFlightFinite, FS_AddElement
<1> QED BY <1>1, <1>2, InFlightFinite

(* A call that returns gives its slot back.                                *)
LEMMA ReturnGivesTheSlotBack ==
  ASSUME BatchTypeOK, NEW m \in Messages, Out(m), Returned(m)
  PROVE  /\ Cardinality(InFlight)' = Cardinality(InFlight) - 1
         /\ Cardinality(InFlight)' \in Nat
<1>1. InFlight' = InFlight \ {m} /\ m \in InFlight
  BY DEF BatchTypeOK, InFlight, Out, Returned
<1>2. Cardinality(InFlight \ {m}) = Cardinality(InFlight) - 1
  BY <1>1, InFlightFinite, FS_RemoveElement
<1>3. IsFiniteSet(InFlight \ {m})
  BY InFlightFinite, FS_Subset
<1> QED BY <1>1, <1>2, <1>3, FS_CardinalityType

(* A call that is halved keeps its slot.                                   *)
LEMMA HalvingKeepsTheSlot ==
  ASSUME BatchTypeOK, NEW m \in Messages, Out(m), call' = [call EXCEPT ![m] = "half"]
  PROVE  InFlight' = InFlight
BY DEF BatchTypeOK, InFlight, Out, Forms, NoForm

(* What was cached stays cached, and what is appended is cached.           *)
LEMMA AppendCaches ==
  ASSUME NEW m \in Messages, cache' = Append(m)
  PROVE  /\ \E r \in cache' : r.text = Text[m] /\ r.form = call[m]
         /\ cache \subseteq cache'
<1>1. CASE Cached(m, call[m])
  BY <1>1 DEF Append, Cached
<1>2. CASE ~Cached(m, call[m])
  <2>1. Record(m) \in cache' /\ Record(m).text = Text[m] /\ Record(m).form = call[m]
    BY <1>2 DEF Append, Record
  <2> QED BY <2>1, <1>2 DEF Append, Cached
<1> QED BY <1>1, <1>2

-----------------------------------------------------------------------------
LEMMA Initially == BatchInit => BatchInv
<1> SUFFICES ASSUME BatchInit PROVE BatchInv
  OBVIOUS
<1>1. InFlight = {} /\ Cardinality(InFlight) = 0
  BY NoneInFlight DEF BatchInit, Nothing
<1>2. BatchTypeOK
  BY <1>1, ClassificationAssumption DEF BatchInit, BatchTypeOK, Nothing, NoForm, Messages
<1>3. SpendBounded
  BY <1>1, ClassificationAssumption DEF BatchInit, SpendBounded
<1>4. Bookkeeping
  BY ClassificationAssumption
     DEF BatchInit, Bookkeeping, FormsKnown, AnswersAreCached, Accounted, AllHadASlot, Nothing, Messages
<1> QED BY <1>2, <1>3, <1>4 DEF BatchInv

(* Every new run starts clean, over the cache it finds.                    *)
LEMMA FreshRun ==
  ASSUME BatchInv, UNCHANGED <<faults, cache, paid>>,
         phase' \in {"idle", "running"}, next' = 1, call' = Nothing, answer' = Nothing,
         skipped' = {}, pause' = "none", spentUsd' = 0
  PROVE  BatchInv'
<1>1. InFlight' = {} /\ Cardinality(InFlight)' = 0
  <2>1. InFlight' = {}
    BY DEF InFlight, Nothing
  <2> QED BY <2>1, FS_EmptySet
<1>2. BatchTypeOK'
  BY <1>1, ClassificationAssumption DEF BatchInv, BatchTypeOK, Nothing, NoForm, Messages
<1>3. SpendBounded'
  BY <1>1, ClassificationAssumption DEF SpendBounded
<1>4. Bookkeeping'
  BY ClassificationAssumption
     DEF Bookkeeping, FormsKnown, AnswersAreCached, Accounted, AllHadASlot, Nothing, Messages
<1> QED BY <1>2, <1>3, <1>4 DEF BatchInv

(* A worker that ends without a call leaves the slots and the money alone. *)
LEMMA StartWithoutCall ==
  ASSUME BatchInv, NEW m \in Messages, GiveUp(m) \/ HitCache(m) \/ HitCap(m)
  PROVE  BatchInv'
<1>1. InFlight' = InFlight /\ next' = next + 1 /\ next = m /\ phase' = phase /\ Running
  BY DEF GiveUp, HitCache, HitCap, Starts, InFlight
<1>2. BatchTypeOK'
  <2>1. next' \in 1..(NumMessages + 1)
    BY <1>1, ClassificationAssumption DEF BatchInv, BatchTypeOK, Messages
  <2>2. answer' \in [Messages -> Forms \cup {NoForm}]
    BY FirstIsAForm DEF BatchInv, BatchTypeOK, GiveUp, HitCache, HitCap
  <2>3. pause' \in {"none", "cost_cap", "no_credits"}
    BY DEF BatchInv, BatchTypeOK, GiveUp, HitCache, HitCap
  <2> QED BY <1>1, <2>1, <2>2, <2>3 DEF BatchInv, BatchTypeOK, GiveUp, HitCache, HitCap, Running
<1>3. SpendBounded'
  BY <1>1 DEF BatchInv, SpendBounded, GiveUp, HitCache, HitCap
<1>4. FormsKnown'
  BY DEF BatchInv, BatchTypeOK, Bookkeeping, FormsKnown, GiveUp, HitCache, HitCap, First
<1>5. AnswersAreCached'
  BY DEF BatchInv, BatchTypeOK, Bookkeeping, AnswersAreCached, Cached, GiveUp, HitCache, HitCap, First
<1>6. Accounted'
  <2>1. CASE pause' # "none"
    BY <2>1 DEF Accounted
  <2>2. CASE pause' = "none"
    <3>1. HitCache(m)
      BY <2>2 DEF GiveUp, HitCap
    <3>2. answer'[m] # NoForm /\ \A n \in Messages \ {m} : answer'[n] = answer[n]
      BY <3>1, FirstIsAForm DEF HitCache, BatchInv, BatchTypeOK
    <3> QED BY <1>1, <3>1, <3>2 DEF HitCache, BatchInv, BatchTypeOK, Bookkeeping, Accounted, Messages
  <2> QED BY <2>1, <2>2
<1>7. AllHadASlot'
  BY <1>1 DEF AllHadASlot, Running
<1> QED BY <1>2, <1>3, <1>4, <1>5, <1>6, <1>7 DEF BatchInv, Bookkeeping

(* A call is sent below the cap and below the limit of the semaphore.      *)
LEMMA SendPreserves ==
  ASSUME BatchInv, NEW m \in Messages, Send(m)
  PROVE  BatchInv'
<1>1. call' = [call EXCEPT ![m] = First(m)] /\ First(m) \in Forms
  BY FirstIsAForm DEF Send
<1>2. Cardinality(InFlight)' <= Cardinality(InFlight) + 1 /\ Cardinality(InFlight)' \in Nat
  BY <1>1, SendTakesASlot DEF BatchInv
<1>3. Cardinality(InFlight) < Concurrency /\ spentUsd < Cap /\ spentUsd \in Nat
  BY ClassificationAssumption DEF BatchInv, BatchTypeOK, Send, Starts, SlotFree, Exceeded
<1>4. BatchTypeOK'
  BY <1>1, <1>2, <1>3, InFlightFinite, ClassificationAssumption
     DEF BatchInv, BatchTypeOK, Send, Starts, Running, Messages
<1>5. SpendBounded'
  BY <1>2, <1>3, InFlightFinite, ClassificationAssumption DEF SpendBounded, Send
<1>6. FormsKnown' /\ AnswersAreCached' /\ AllHadASlot'
  BY <1>1, FirstIsAForm
     DEF BatchInv, BatchTypeOK, Bookkeeping, FormsKnown, AnswersAreCached, AllHadASlot, Cached, First,
         Send, Starts, Running
<1>7. Accounted'
  BY <1>1, FirstIsAForm DEF BatchInv, BatchTypeOK, Bookkeeping, Accounted, Send, Starts, Messages
<1> QED BY <1>4, <1>5, <1>6, <1>7 DEF BatchInv, Bookkeeping

(* An answer moves its unit from the calls in flight to what is spent.     *)
LEMMA AnswerPreserves ==
  ASSUME BatchInv, NEW m \in Messages, Answer(m)
  PROVE  BatchInv'
<1>1. Out(m) /\ Returned(m) /\ cache' = Append(m) /\ answer' = [answer EXCEPT ![m] = call[m]]
  BY DEF Answer
<1>2. Cardinality(InFlight)' = Cardinality(InFlight) - 1 /\ Cardinality(InFlight)' \in Nat
  BY <1>1, ReturnGivesTheSlotBack DEF BatchInv
<1>3. call[m] \in Forms
  BY <1>1 DEF BatchInv, BatchTypeOK, Out
<1>4. cache' \subseteq Records
  <2>1. Text[m] \in Texts
    BY ClassificationAssumption
  <2>2. Record(m) \in Records
    BY <1>3, <2>1 DEF Record, Records
  <2> QED BY <1>1, <2>2 DEF BatchInv, BatchTypeOK, Append
<1>5. paid' \in [Texts -> 0..MaxPaid]
  <2>1. Text[m] \in Texts /\ paid[Text[m]] \in 0..MaxPaid
    BY ClassificationAssumption DEF BatchInv, BatchTypeOK
  <2>2. (IF paid[Text[m]] < MaxPaid THEN paid[Text[m]] + 1 ELSE paid[Text[m]]) \in 0..MaxPaid
    BY <2>1, ClassificationAssumption
  <2> QED BY <2>1, <2>2 DEF BatchInv, BatchTypeOK, Answer
<1>6. BatchTypeOK'
  BY <1>1, <1>2, <1>3, <1>4, <1>5, InFlightFinite, ClassificationAssumption
     DEF BatchInv, BatchTypeOK, Answer, Out, Returned, Running
<1>7. SpendBounded'
  BY <1>2, InFlightFinite, ClassificationAssumption DEF BatchInv, BatchTypeOK, SpendBounded, Answer
<1>8. FormsKnown' /\ AllHadASlot'
  BY <1>1
     DEF BatchInv, BatchTypeOK, Bookkeeping, FormsKnown, AllHadASlot, Answer, Out, Returned,
         Running, First
<1>9. AnswersAreCached'
  <2>1. /\ \E r \in cache' : r.text = Text[m] /\ r.form = call[m]
        /\ cache \subseteq cache'
    BY <1>1, AppendCaches
  <2> QED BY <1>1, <2>1 DEF BatchInv, BatchTypeOK, Bookkeeping, AnswersAreCached, Cached
<1>10. Accounted'
  BY <1>1 DEF BatchInv, BatchTypeOK, Bookkeeping, Accounted, Answer, Out, Returned, NoForm
<1> QED BY <1>6, <1>7, <1>8, <1>9, <1>10 DEF BatchInv, Bookkeeping

LEMMA HalvePreserves ==
  ASSUME BatchInv, NEW m \in Messages, Halve(m)
  PROVE  BatchInv'
<1>1. InFlight' = InFlight
  BY HalvingKeepsTheSlot DEF BatchInv, Halve
<1>2. BatchTypeOK' /\ SpendBounded'
  BY <1>1 DEF BatchInv, BatchTypeOK, SpendBounded, Halve, Forms
<1>3. Bookkeeping'
  BY
     DEF BatchInv, BatchTypeOK, Bookkeeping, FormsKnown, AnswersAreCached, Accounted, AllHadASlot,
         Cached,
         First, Halve, NoForm
<1> QED BY <1>2, <1>3 DEF BatchInv

(* A call that brings no answer is a skip, a pause or the end of the run.  *)
LEMMA ReturnWithoutAnswer ==
  ASSUME BatchInv, NEW m \in Messages, Skip(m) \/ OutOfCredits(m) \/ Raise(m)
  PROVE  BatchInv'
<1>1. Out(m) /\ Returned(m) /\ UNCHANGED <<faults, cache, next, answer, spentUsd, paid>>
  BY DEF Skip, OutOfCredits, Raise
<1>2. Cardinality(InFlight)' = Cardinality(InFlight) - 1 /\ Cardinality(InFlight)' \in Nat
  BY <1>1, ReturnGivesTheSlotBack DEF BatchInv
<1>3. phase' \in {"running", "aborting"}
  BY <1>1 DEF Skip, OutOfCredits, Raise, Out, Running
<1>4. BatchTypeOK'
  <2>1. call' \in [Messages -> Forms \cup {NoForm}]
    BY <1>1 DEF BatchInv, BatchTypeOK, Returned
  <2>2. Cardinality(InFlight)' <= Concurrency
    BY <1>2, InFlightFinite, ClassificationAssumption DEF BatchInv, BatchTypeOK
  <2>3. skipped' \subseteq Messages /\ pause' \in {"none", "cost_cap", "no_credits"}
    BY DEF BatchInv, BatchTypeOK, Skip, OutOfCredits, Raise
  <2> QED BY <1>1, <1>3, <2>1, <2>2, <2>3 DEF BatchInv, BatchTypeOK
<1>5. SpendBounded'
  BY <1>1, <1>2, InFlightFinite, ClassificationAssumption DEF BatchInv, BatchTypeOK, SpendBounded
<1>6. FormsKnown' /\ AnswersAreCached' /\ AllHadASlot'
  BY <1>1, <1>3
    
        DEF BatchInv, BatchTypeOK, Bookkeeping, FormsKnown, AnswersAreCached, AllHadASlot, Cached,
            First, Returned
<1>7. Accounted'
  <2>1. CASE Skip(m)
    BY <1>1, <2>1 DEF BatchInv, BatchTypeOK, Bookkeeping, Accounted, Skip, Returned
  <2>2. CASE OutOfCredits(m)
    BY <2>2 DEF Accounted, OutOfCredits
  <2>3. CASE Raise(m)
    BY <2>3 DEF Accounted, Raise
  <2> QED BY <2>1, <2>2, <2>3
<1> QED BY <1>4, <1>5, <1>6, <1>7 DEF BatchInv, Bookkeeping

LEMMA EndRunPreserves ==
  ASSUME BatchInv, EndBatch
  PROVE  BatchInv'
<1>1. InFlight' = InFlight /\ InFlight = {}
  BY DEF EndBatch, InFlight
<1>2. BatchTypeOK' /\ SpendBounded'
  BY <1>1 DEF BatchInv, BatchTypeOK, SpendBounded, EndBatch
<1>3. Bookkeeping'
  BY
     DEF BatchInv, Bookkeeping, FormsKnown, AnswersAreCached, Accounted, AllHadASlot, Cached,
         EndBatch, First
<1> QED BY <1>2, <1>3 DEF BatchInv

-----------------------------------------------------------------------------
LEMMA Inductive == BatchInv /\ [BatchNext]_batchVars => BatchInv'
<1> SUFFICES ASSUME BatchInv, [BatchNext]_batchVars PROVE BatchInv'
  OBVIOUS
<1>1. CASE BeginBatch \/ Stop
  BY <1>1, FreshRun DEF BeginBatch, Stop
<1>2. CASE EndBatch
  BY <1>2, EndRunPreserves
<1>3. ASSUME NEW m \in Messages, Worker(m) PROVE BatchInv'
  BY <1>3, StartWithoutCall, SendPreserves, AnswerPreserves, HalvePreserves, ReturnWithoutAnswer
     DEF Worker
<1>4. ASSUME NEW m \in Messages, OutOfCredits(m) \/ Raise(m) PROVE BatchInv'
  BY <1>4, ReturnWithoutAnswer
<1>5. CASE UNCHANGED batchVars
  <2>1. InFlight' = InFlight
    BY <1>5 DEF batchVars, InFlight
  <2> QED BY <1>5, <2>1
      
          DEF batchVars, BatchInv, BatchTypeOK, SpendBounded, Bookkeeping, FormsKnown,
              AnswersAreCached, Accounted,
           AllHadASlot, Cached, First
<1> QED BY <1>1, <1>2, <1>3, <1>4, <1>5 DEF BatchNext, Batch, Fault

THEOREM Invariance == BatchSpec => []BatchInv
BY Initially, Inductive, PTL DEF BatchSpec

(* Every reachable state is well typed, and never more calls are in flight *)
(* than the semaphore admits.                                              *)
THEOREM BatchTypeCorrect == BatchSpec => []BatchTypeOK
<1>1. BatchInv => BatchTypeOK
  BY DEF BatchInv
<1> QED BY <1>1, Invariance, PTL

(* A run never spends its cap and a call for every slot of the semaphore:  *)
(* run_async looks at the cap before each call, and charges it afterwards. *)
THEOREM SpendAlwaysBounded == BatchSpec => []SpendBounded
<1>1. BatchInv => SpendBounded
  BY DEF BatchInv
<1> QED BY <1>1, Invariance, PTL

(* After a completed run every message has its record or was skipped, and  *)
(* the fan-out by hash finds it again, however many messages share it.     *)
THEOREM FanOutAlwaysComplete == BatchSpec => []FanOutComplete
<1>1. BatchInv => FanOutComplete
  <2> SUFFICES ASSUME BatchInv, Completed, NEW m \in Messages \ skipped
               PROVE  /\ answer[m] # NoForm /\ Cached(m, answer[m])
                      /\ \/ answer[m] = "half"
                         \/ /\ m \in FanOut
                            /\ Text[m] \notin OverBudget => m \in BenchmarkFanOut
    BY DEF FanOutComplete
  <2>1. call[m] = NoForm
    BY DEF Completed, BatchInv, BatchTypeOK, InFlight
  <2>2. answer[m] # NoForm
    BY <2>1, ClassificationAssumption
       DEF Completed, BatchInv, Bookkeeping, Accounted, AllHadASlot, Messages
  <2>3. Cached(m, answer[m]) /\ answer[m] \in {First(m), "half"}
    BY <2>2 DEF BatchInv, Bookkeeping, AnswersAreCached, FormsKnown
  <2> QED BY <2>2, <2>3 DEF FanOut, BenchmarkFanOut, First
<1> QED BY <1>1, Invariance, PTL

-----------------------------------------------------------------------------
(* A text that fits is out or paid for once for each message that shares   *)
(* it and had a slot before the first answer was cached: from then on no   *)
(* call is sent for it.                                                    *)

Flying(t) == {m \in InFlight : Text[m] = t}

Known(t) == \E r \in cache : r.text = t /\ r.form = IF t \in OverBudget THEN "cut" ELSE "raw"

PaidWhileUnknown(t) ==
  /\ \A m \in Flying(t) : call[m] = First(m)
  /\ paid[t] > 0 => Known(t)
  /\ paid[t] + Cardinality(Flying(t)) <= Concurrency
  /\ paid[t] + Cardinality(Flying(t)) <= Cardinality(Sharing(t))

PaidInv == \A t \in Texts : Verdict[t] = "fits" => PaidWhileUnknown(t)

LEMMA Counted == ASSUME NEW S \in SUBSET Messages PROVE IsFiniteSet(S) /\ Cardinality(S) \in Nat
<1>1. IsFiniteSet(Messages)
  BY FS_Interval, ClassificationAssumption DEF Messages
<1>2. IsFiniteSet(S)
  BY <1>1, FS_Subset
<1> QED BY <1>2, FS_CardinalityType

LEMMA CountedBelow ==
  ASSUME NEW S \in SUBSET Messages, NEW R \in SUBSET S
  PROVE  Cardinality(R) <= Cardinality(S)
BY Counted, FS_Subset

(* As long as nothing is paid and no call is sent, the bounds stay.        *)
LEMMA FewerFlying ==
  ASSUME BatchTypeOK, NEW t \in Texts, PaidWhileUnknown(t), Flying(t)' \subseteq Flying(t), paid'[t] = paid[t],
         cache \subseteq cache', \A m \in Flying(t)' : call'[m] = call[m]
  PROVE  PaidWhileUnknown(t)'
<1>1. Flying(t) \in SUBSET Messages /\ Flying(t)' \in SUBSET Messages /\ Sharing(t) \in SUBSET Messages
  BY DEF Flying, InFlight, Sharing
<1>2. Cardinality(Flying(t)') <= Cardinality(Flying(t)) /\ Cardinality(Flying(t)) \in Nat
      /\ Cardinality(Flying(t)') \in Nat /\ Cardinality(Sharing(t)) \in Nat
  BY <1>1, Counted, CountedBelow
<1>3. paid[t] \in Nat /\ Concurrency \in Nat
  BY ClassificationAssumption DEF BatchTypeOK
<1>4. /\ paid'[t] + Cardinality(Flying(t)') <= Concurrency
      /\ paid'[t] + Cardinality(Flying(t)') <= Cardinality(Sharing(t))
  BY <1>2, <1>3 DEF PaidWhileUnknown
<1>5. Sharing(t)' = Sharing(t)
  BY DEF Sharing
<1>6. \A m \in Flying(t)' : call'[m] = First(m)
  BY DEF PaidWhileUnknown
<1>7. paid'[t] > 0 => Known(t)'
  BY DEF PaidWhileUnknown, Known
<1> QED BY <1>4, <1>5, <1>6, <1>7 DEF PaidWhileUnknown, First

LEMMA PaidInit == BatchInit => PaidInv
<1> SUFFICES ASSUME BatchInit, NEW t \in Texts PROVE PaidWhileUnknown(t)
  BY DEF PaidInv
<1>1. Flying(t) = {} /\ Cardinality(Flying(t)) = 0
  <2>1. Flying(t) = {}
    BY DEF BatchInit, Flying, InFlight, Nothing
  <2> QED BY <2>1, FS_EmptySet
<1>2. Cardinality(Sharing(t)) \in Nat
  BY Counted DEF Sharing
<1>3. paid[t] = 0 /\ Concurrency \in Nat
  BY ClassificationAssumption DEF BatchInit
<1> QED BY <1>1, <1>2, <1>3 DEF PaidWhileUnknown

(* A call is sent only for a text that is not known, so nothing was paid.  *)
LEMMA SendPays ==
  ASSUME BatchInv, BatchInv', NEW t \in Texts, PaidWhileUnknown(t), NEW m \in Messages, Send(m)
  PROVE  PaidWhileUnknown(t)'
<1>1. /\ call' = [call EXCEPT ![m] = First(m)] /\ call \in [Messages -> Forms \cup {NoForm}]
      /\ UNCHANGED <<cache, paid>> /\ ~Cached(m, First(m))
  BY DEF Send, BatchInv, BatchTypeOK
<1>2. CASE Text[m] # t
  <2>1. Flying(t)' \subseteq Flying(t) /\ \A n \in Flying(t)' : call'[n] = call[n]
    BY <1>1, <1>2 DEF Flying, InFlight
  <2> QED BY <1>1, <2>1, FewerFlying DEF BatchInv
<1>3. CASE Text[m] = t
  <2>1. ~Known(t)
    BY <1>1, <1>3 DEF Known, Cached, First
  <2>2. paid[t] \in Nat /\ Concurrency \in Nat
    BY ClassificationAssumption DEF BatchInv, BatchTypeOK
  <2>3. paid'[t] = 0
    BY <1>1, <2>1, <2>2 DEF PaidWhileUnknown
  <2>4. InFlight' \in SUBSET Messages /\ Flying(t)' \in SUBSET InFlight' /\ Flying(t)' \in SUBSET Sharing(t)
        /\ Sharing(t) \in SUBSET Messages
    BY DEF Flying, InFlight, Sharing
  <2>5. /\ Cardinality(Flying(t)') <= Cardinality(InFlight') /\ Cardinality(Flying(t)') <= Cardinality(Sharing(t))
        /\ Cardinality(Flying(t)') \in Nat /\ Cardinality(InFlight') \in Nat
    <3>1. Flying(t)' \in SUBSET Messages
      BY <2>4
    <3> QED BY <2>4, <3>1, Counted, CountedBelow
  <2>6. Cardinality(InFlight') <= Concurrency
    BY DEF BatchInv, BatchTypeOK
  <2>7. paid'[t] + Cardinality(Flying(t)') <= Concurrency /\ paid'[t] + Cardinality(Flying(t)') <= Cardinality(Sharing(t))
    BY <2>2, <2>3, <2>5, <2>6
  <2>8. \A n \in Flying(t)' : call'[n] = First(n)
    BY <1>1, <1>3 DEF Flying, InFlight, PaidWhileUnknown
  <2>9. Sharing(t)' = Sharing(t)
    BY DEF Sharing
  <2> QED BY <2>3, <2>7, <2>8, <2>9 DEF PaidWhileUnknown, First
<1> QED BY <1>2, <1>3

(* An answer makes the text known and turns a call in flight into a paid   *)
(* one.                                                                    *)
LEMMA AnswerPays ==
  ASSUME BatchInv, NEW t \in Texts, PaidWhileUnknown(t), NEW m \in Messages, Answer(m)
  PROVE  PaidWhileUnknown(t)'
<1>1. /\ Out(m) /\ call' = [call EXCEPT ![m] = NoForm] /\ call \in [Messages -> Forms \cup {NoForm}]
      /\ cache' = Append(m) /\ paid' = [paid EXCEPT ![Text[m]] = IF @ < MaxPaid THEN @ + 1 ELSE @]
      /\ paid \in [Texts -> 0..MaxPaid] /\ MaxPaid \in Nat /\ Concurrency \in Nat
  BY ClassificationAssumption DEF Answer, Returned, BatchInv, BatchTypeOK
<1>2. /\ \E r \in cache' : r.text = Text[m] /\ r.form = call[m]
      /\ cache \subseteq cache'
  BY <1>1, AppendCaches
<1>3. Flying(t)' = Flying(t) \ {m} /\ \A n \in Flying(t)' : call'[n] = call[n]
  BY <1>1 DEF Flying, InFlight
<1>4. CASE Text[m] # t
  <2>1. paid'[t] = paid[t]
    BY <1>1, <1>4
  <2> QED BY <1>2, <1>3, <2>1, FewerFlying DEF BatchInv
<1>5. CASE Text[m] = t
  <2>1. m \in Flying(t) /\ call[m] = First(m)
    BY <1>1, <1>5 DEF Flying, InFlight, Out, PaidWhileUnknown
  <2>2. Known(t)'
    BY <1>2, <1>5, <2>1 DEF Known, First
  <2>3. Flying(t) \in SUBSET Messages /\ Sharing(t) \in SUBSET Messages
    BY DEF Flying, InFlight, Sharing
  <2>4. Cardinality(Flying(t)') = Cardinality(Flying(t)) - 1 /\ Cardinality(Flying(t)) \in Nat
        /\ Cardinality(Sharing(t)) \in Nat
    BY <1>3, <2>1, <2>3, Counted, FS_RemoveElement
  <2>5. paid'[t] <= paid[t] + 1 /\ paid[t] \in Nat /\ paid'[t] \in Nat
    BY <1>1, <1>5
  <2>6. /\ paid'[t] + Cardinality(Flying(t)') <= Concurrency
        /\ paid'[t] + Cardinality(Flying(t)') <= Cardinality(Sharing(t))
    BY <1>1, <2>4, <2>5 DEF PaidWhileUnknown
  <2>7. Sharing(t)' = Sharing(t)
    BY DEF Sharing
  <2>8. \A n \in Flying(t)' : call'[n] = First(n)
    BY <1>3 DEF PaidWhileUnknown
  <2> QED BY <2>2, <2>6, <2>7, <2>8 DEF PaidWhileUnknown, First
<1> QED BY <1>4, <1>5

LEMMA PaidNext == BatchInv /\ BatchInv' /\ PaidInv /\ [BatchNext]_batchVars => PaidInv'
<1> SUFFICES ASSUME BatchInv, BatchInv', PaidInv, [BatchNext]_batchVars, NEW t \in Texts, Verdict[t] = "fits"
             PROVE  PaidWhileUnknown(t)'
  BY DEF PaidInv
<1>0. PaidWhileUnknown(t) /\ call \in [Messages -> Forms \cup {NoForm}]
  BY DEF PaidInv, BatchInv, BatchTypeOK
<1>1. CASE BeginBatch \/ Stop
  <2>1. Flying(t)' = {} /\ UNCHANGED <<cache, paid>>
    BY <1>1 DEF BeginBatch, Stop, Flying, InFlight, Nothing
  <2> QED BY <1>0, <2>1, FewerFlying DEF BatchInv
<1>2. ASSUME UNCHANGED <<call, cache, paid>> PROVE PaidWhileUnknown(t)'
  <2>1. Flying(t)' = Flying(t)
    BY <1>2 DEF Flying, InFlight
  <2> QED BY <1>0, <1>2, <2>1, FewerFlying DEF BatchInv
<1>3. ASSUME NEW m \in Messages, GiveUp(m) \/ HitCache(m) \/ HitCap(m) PROVE PaidWhileUnknown(t)'
  BY <1>2, <1>3 DEF GiveUp, HitCache, HitCap
<1>4. ASSUME NEW m \in Messages, Send(m) PROVE PaidWhileUnknown(t)'
  BY <1>0, <1>4, SendPays
<1>5. ASSUME NEW m \in Messages, Answer(m) PROVE PaidWhileUnknown(t)'
  BY <1>0, <1>5, AnswerPays
<1>6. ASSUME NEW m \in Messages, Halve(m) PROVE PaidWhileUnknown(t)'
  <2>1. Text[m] # t /\ call' = [call EXCEPT ![m] = "half"] /\ UNCHANGED <<cache, paid>>
    BY <1>6 DEF Halve
  <2>2. Flying(t)' \subseteq Flying(t) /\ \A n \in Flying(t)' : call'[n] = call[n]
    BY <1>0, <2>1 DEF Flying, InFlight
  <2> QED BY <1>0, <2>1, <2>2, FewerFlying DEF BatchInv
<1>7. ASSUME NEW m \in Messages, Skip(m) \/ OutOfCredits(m) \/ Raise(m) PROVE PaidWhileUnknown(t)'
  <2>1. call' = [call EXCEPT ![m] = NoForm] /\ UNCHANGED <<cache, paid>>
    BY <1>7 DEF Skip, OutOfCredits, Raise, Returned
  <2>2. Flying(t)' \subseteq Flying(t) /\ \A n \in Flying(t)' : call'[n] = call[n]
    BY <1>0, <2>1 DEF Flying, InFlight
  <2> QED BY <1>0, <2>1, <2>2, FewerFlying DEF BatchInv
<1>8. CASE EndBatch
  BY <1>2, <1>8 DEF EndBatch
<1>9. CASE UNCHANGED batchVars
  BY <1>2, <1>9 DEF batchVars
<1> QED BY <1>1, <1>3, <1>4, <1>5, <1>6, <1>7, <1>8, <1>9 DEF BatchNext, Batch, Fault, Worker

(* Whatever ends the runs, a text that fits is paid for at most once by    *)
(* each message that shares it, and by no more than can be out at once.    *)
THEOREM PaidAtMostOnce == BatchSpec => []PaidOnce
<1>1. BatchInv /\ PaidInv => PaidOnce
  <2> SUFFICES ASSUME BatchInv, PaidInv, NEW t \in Texts, Verdict[t] = "fits"
               PROVE  paid[t] <= Concurrency /\ paid[t] <= Cardinality(Sharing(t))
    BY DEF PaidOnce
  <2>1. Flying(t) \in SUBSET Messages /\ Sharing(t) \in SUBSET Messages
    BY DEF Flying, InFlight, Sharing
  <2>2. Cardinality(Flying(t)) \in Nat /\ Cardinality(Sharing(t)) \in Nat
    BY <2>1, Counted
  <2>3. paid[t] \in Nat /\ Concurrency \in Nat
    BY ClassificationAssumption DEF BatchInv, BatchTypeOK
  <2> QED BY <2>2, <2>3 DEF PaidInv, PaidWhileUnknown
<1> QED BY <1>1, Invariance, PaidInit, PaidNext, PTL DEF BatchSpec

=============================================================================
