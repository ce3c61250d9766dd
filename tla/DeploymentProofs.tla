-------------------------- MODULE DeploymentProofs --------------------------
(* What holds of the channel for any number of deployers, versions and     *)
(* artifacts.                                                              *)
EXTENDS Deployment, TLAPS

LEMMA Constants == Last \in Nat /\ Last >= 1 /\ 1 \in Version /\ Version \subseteq Nat
  BY DeploymentAssumption DEF Last, Version

(* What a run in its place relies on: what it has uploaded is still there. *)
Progress(d) ==
  /\ at[d] = "confirm" => job[d].next = 1
  /\ Effective(d) =>
       /\ at[d] = "upload" => uploaded[job[d].version] >= job[d].next - 1
       /\ at[d] \in {"latest", "manual", "verify"} => uploaded[job[d].version] = Last
InvDeployment ==
  /\ TypeOKDeployment
  /\ \A d \in Deployer : Progress(d)
  /\ uploaded[latest] = Last

LEMMA NoJobIsJob == NoJob \in Job /\ UPDATE_CERT[1] \in Cert
  BY Constants DEF NoJob, Job, Mode, Cert

LEMMA InitInv == InitDeployment => InvDeployment
<1> SUFFICES ASSUME InitDeployment PROVE InvDeployment
  OBVIOUS
<1>1. TypeOKDeployment
  <2>1. UPDATE_CERT[1] \in Cert /\ 0 \in 0..Last /\ Last \in 0..Last
    BY NoJobIsJob, Constants
  <2>3. at \in [Deployer -> {"idle", "confirm", "upload", "latest", "manual", "verify"}]
        /\ job \in [Deployer -> Job]
    BY NoJobIsJob DEF InitDeployment
  <2>4. uploaded \in [Version -> 0..Last] /\ signature \in [Version -> Cert]
    BY <2>1 DEF InitDeployment
  <2> QED
    BY <2>3, <2>4, Constants DEF InitDeployment, TypeOKDeployment
<1>2. \A d \in Deployer : Progress(d)
  BY Constants DEF InitDeployment, Progress
<1>3. uploaded[latest] = Last
  BY Constants DEF InitDeployment
<1> QED
  BY <1>1, <1>2, <1>3 DEF InvDeployment

(* A command on the bucket takes nothing away.                             *)
LEMMA PutAdds ==
  ASSUME InvDeployment, NEW d \in Deployer,
         at[d] = "upload", job[d].next <= Last, Put(d) \/ UNCHANGED <<uploaded, signature>>
  PROVE  /\ uploaded' \in [Version -> 0..Last] /\ signature' \in [Version -> Cert]
         /\ \A v \in Version : uploaded'[v] >= uploaded[v]
         /\ \A v \in Version : uploaded'[v] # uploaded[v] => v = job[d].version
         /\ Put(d) /\ Effective(d) => uploaded'[job[d].version] >= job[d].next
<1> DEFINE v == job[d].version
           i == job[d].next
<1>1. v \in Version /\ i \in 1..Last + 1 /\ i \in Nat /\ job[d].signature \in Cert
  BY Constants DEF InvDeployment, TypeOKDeployment, Job
<1>2. uploaded \in [Version -> 0..Last] /\ signature \in [Version -> Cert]
  BY DEF InvDeployment, TypeOKDeployment
<1>3. CASE UNCHANGED <<uploaded, signature>> /\ ~(Put(d) /\ Effective(d))
  BY <1>2, <1>3, Constants
<1>4. CASE Put(d) /\ Effective(d)
  <2>1. /\ uploaded' = [uploaded EXCEPT ![v] = IF i > @ THEN i ELSE @]
        /\ signature' = [signature EXCEPT
             ![v] = IF ARTIFACTS[i] = "bundle" THEN job[d].signature ELSE @]
    BY <1>4 DEF Put
  <2>3. \A w \in Version \ {v} : uploaded'[w] = uploaded[w]
    BY <1>1, <1>2, <2>1
  <2>4. uploaded'[v] = (IF i > uploaded[v] THEN i ELSE uploaded[v])
    BY <1>1, <1>2, <2>1
  <2>5. uploaded' \in [Version -> 0..Last]
    <3>1. i \in 0..Last
      BY <1>1, Constants
    <3> HIDE DEF v, i
    <3> QED
      BY <1>1, <1>2, <2>1, <3>1
  <2>6. signature' \in [Version -> Cert]
    BY <1>1, <1>2, <2>1
  <2>7. \A w \in Version : uploaded[w] \in Nat
    BY <1>2, Constants
  <2>8. uploaded'[v] >= i /\ uploaded'[v] >= uploaded[v]
    <3>1. uploaded[v] \in Nat
      BY <1>1, <2>7
    <3> HIDE DEF v, i
    <3> QED
      BY <1>1, <2>4, <3>1
  <2>9. \A w \in Version : uploaded'[w] >= uploaded[w] /\ (uploaded'[w] # uploaded[w] => w = v)
    <3> TAKE w \in Version
    <3>1. uploaded[w] \in Nat
      BY <2>7
    <3> HIDE DEF v, i
    <3> QED
      BY <2>3, <2>8, <3>1
  <2> QED
    BY <2>5, <2>6, <2>8, <2>9
<1>5. CASE Put(d) /\ ~Effective(d)
  BY <1>2, <1>5, Constants DEF Put
<1> QED
  BY <1>3, <1>4, <1>5 DEF Put

(* What a deployer has before it stays true while nothing is removed.      *)
LEMMA ProgressStays ==
  ASSUME InvDeployment, NEW e \in Deployer,
         at'[e] = at[e], job'[e] = job[e],
         uploaded' \in [Version -> 0..Last],
         \A v \in Version : uploaded'[v] >= uploaded[v]
  PROVE  Progress(e)'
<1>1. job[e].version \in Version /\ job[e].next \in 1..Last + 1
  BY DEF InvDeployment, TypeOKDeployment, Job
<1>2. uploaded[job[e].version] \in 0..Last /\ uploaded'[job[e].version] \in 0..Last
  BY <1>1 DEF InvDeployment, TypeOKDeployment
<1>3. uploaded'[job[e].version] >= uploaded[job[e].version]
  BY <1>1
<1> QED
  BY <1>1, <1>2, <1>3, Constants DEF InvDeployment, Progress, Effective

Place == {"idle", "confirm", "upload", "latest", "manual", "verify"}

LEMMA StepKeeps ==
  ASSUME InvDeployment, NEW d \in Deployer,
         at' \in [Deployer -> Place], job' \in [Deployer -> Job],
         \A e \in Deployer \ {d} : at'[e] = at[e] /\ job'[e] = job[e],
         uploaded' \in [Version -> 0..Last], signature' \in [Version -> Cert],
         \A v \in Version : uploaded'[v] >= uploaded[v],
         latest' \in Version, manual' \in Version, installed' \in Version,
         broken' \in BOOLEAN, warned' \in BOOLEAN,
         uploaded[latest'] = Last,
         Progress(d)'
  PROVE  InvDeployment'
<1>1. TypeOKDeployment'
  BY DEF TypeOKDeployment, Place
<1>2. \A e \in Deployer : Progress(e)'
  <2> TAKE e \in Deployer
  <2>1. CASE e = d
    BY <2>1
  <2>2. CASE e # d
    BY <2>2, ProgressStays
  <2> QED
    BY <2>1, <2>2
<1>3. uploaded'[latest'] = Last
  BY Constants
<1> QED
  BY <1>1, <1>2, <1>3 DEF InvDeployment

LEMMA InvStep == InvDeployment /\ [NextDeployment]_deploymentVars => InvDeployment'
<1> SUFFICES ASSUME InvDeployment, [NextDeployment]_deploymentVars PROVE InvDeployment'
  OBVIOUS
<1> USE DEF Place
<1>t. /\ at \in [Deployer -> Place] /\ job \in [Deployer -> Job]
      /\ uploaded \in [Version -> 0..Last] /\ signature \in [Version -> Cert]
      /\ latest \in Version /\ manual \in Version /\ installed \in Version
      /\ broken \in BOOLEAN /\ warned \in BOOLEAN
      /\ uploaded[latest] = Last
      /\ \A d \in Deployer : Progress(d)
  BY DEF InvDeployment, TypeOKDeployment
<1>n. \A v \in Version : uploaded[v] \in Nat /\ uploaded[v] >= uploaded[v]
  BY <1>t, Constants
<1>j. \A d \in Deployer : /\ job[d].version \in Version /\ job[d].next \in 1..Last + 1
                         /\ job[d].signature \in Cert
  BY <1>t DEF Job
<1>1. CASE UNCHANGED deploymentVars
  BY <1>1 DEF deploymentVars, bucket, historyVars, InvDeployment, TypeOKDeployment,
     Progress, Effective
<1>2. CASE Update
  BY <1>2, <1>t DEF Update, bucket, historyVars, InvDeployment, TypeOKDeployment,
     Progress, Effective
<1>3. ASSUME NEW d \in Deployer, Run(d) PROVE InvDeployment'
  <2> USE <1>3
  <2>1. CASE Sign(d)
    <3> PICK v \in Version, mode \in Mode, out \in Cert :
           job' = [job EXCEPT ![d] =
             [version |-> v, mode |-> mode, signature |-> out, next |-> 1]]
      BY <2>1 DEF Sign
    <3>2. [version |-> v, mode |-> mode, signature |-> out, next |-> 1] \in Job
      BY Constants DEF Job
    <3>3. job' \in [Deployer -> Job] /\ job'[d].next = 1
          /\ \A e \in Deployer \ {d} : job'[e] = job[e]
      BY <1>t, <3>2
    <3>4. at' \in [Deployer -> Place] /\ at'[d] = "confirm"
          /\ \A e \in Deployer \ {d} : at'[e] = at[e]
      BY <2>1, <1>t DEF Sign, Goto
    <3>5. Progress(d)'
      BY <3>3, <3>4 DEF Progress
    <3> QED
      BY <2>1, <1>t, <1>n, <3>3, <3>4, <3>5, StepKeeps DEF Sign, bucket, historyVars
  <2>7. CASE Decline(d) \/ verify(d)
    <3>1. /\ at' \in [Deployer -> Place] /\ \A e \in Deployer \ {d} : at'[e] = at[e]
          /\ at'[d] = "idle"
      BY <2>7, <1>t DEF Decline, verify, Goto
    <3>2. job' \in [Deployer -> Job] /\ \A e \in Deployer \ {d} : job'[e] = job[e]
      BY <2>7, <1>t, NoJobIsJob DEF Decline, verify, Forget
    <3>3. UNCHANGED <<bucket, installed, broken>> /\ warned' \in BOOLEAN
      BY <2>7, <1>t DEF Decline, verify, historyVars
    <3>4. Progress(d)'
      BY <3>1 DEF Progress
    <3> QED
      BY <3>1, <3>2, <3>3, <3>4, <1>t, <1>n, StepKeeps DEF bucket
  <2>2. CASE Confirm(d)
    <3>1. /\ at' \in [Deployer -> Place] /\ \A e \in Deployer \ {d} : at'[e] = at[e]
          /\ at'[d] = "upload" /\ at[d] = "confirm"
      BY <2>2, <1>t DEF Confirm, Goto
    <3>2. UNCHANGED <<job, bucket, installed, historyVars>>
      BY <2>2 DEF Confirm
    <3>3. Progress(d)'
      <4>1. job[d].next = 1
        BY <3>1, <1>t DEF Progress
      <4> QED
        BY <3>1, <3>2, <4>1, <1>t, <1>j, <1>n DEF Progress, Effective, bucket
    <3> QED
      BY <3>1, <3>2, <3>3, <1>t, <1>n, StepKeeps DEF bucket, historyVars
  <2>3. CASE Upload(d)
    <3>1. /\ job' = [job EXCEPT ![d].next = @ + 1] /\ UNCHANGED <<at, latest, manual, installed>>
          /\ UNCHANGED <<broken, warned>> /\ at[d] = "upload" /\ Put(d) /\ job[d].next <= Last
      BY <2>3 DEF Upload, historyVars
    <3>2. job[d].next + 1 \in 1..Last + 1
      BY <3>1, <1>j, Constants
    <3>3. job'[d] = [job[d] EXCEPT !.next = @ + 1] /\ job' \in [Deployer -> Job]
          /\ \A e \in Deployer \ {d} : job'[e] = job[e]
      BY <3>1, <3>2, <1>t DEF Job
    <3>4. /\ job'[d].version = job[d].version /\ job'[d].signature = job[d].signature
          /\ job'[d].mode = job[d].mode /\ job'[d].next = job[d].next + 1
      BY <3>3, <1>t DEF Job
    <3>5. Progress(d)'
      <4>1. Effective(d) => uploaded'[job[d].version] >= job[d].next
        BY <3>1, PutAdds
      <4>2. Effective(d)' = Effective(d)
        BY <3>4 DEF Effective
      <4>3. job'[d].next - 1 = job[d].next
        BY <3>4, <1>j, Constants
      <4> QED
        BY <3>1, <3>4, <4>1, <4>2, <4>3, <1>t DEF Progress
    <3> QED
      BY <3>1, <3>3, <3>5, <1>t, PutAdds, StepKeeps
  <2>4. CASE Uploaded(d)
    <3>1. /\ at' \in [Deployer -> Place] /\ \A e \in Deployer \ {d} : at'[e] = at[e]
          /\ at[d] = "upload" /\ at'[d] \in {"latest", "verify"} /\ job[d].next > Last
      BY <2>4, <1>t DEF Uploaded, Goto
    <3>2. UNCHANGED <<job, bucket, installed, historyVars>>
      BY <2>4 DEF Uploaded
    <3>3. Effective(d) => uploaded[job[d].version] = Last
      <4>1. uploaded[job[d].version] \in 0..Last
        BY <1>t, <1>j
      <4> QED
        BY <3>1, <4>1, <1>t, <1>j, Constants DEF Progress
    <3>4. Progress(d)'
      BY <3>1, <3>2, <3>3, <1>t DEF Progress, Effective, bucket
    <3> QED
      BY <3>1, <3>2, <3>4, <1>t, <1>n, StepKeeps DEF bucket, historyVars
  <2>5. CASE SetLatest(d) \/ SetManual(d)
    <3>1. /\ at' \in [Deployer -> Place] /\ \A e \in Deployer \ {d} : at'[e] = at[e]
          /\ at[d] \in {"latest", "manual"} /\ at'[d] \in {"manual", "verify"}
      BY <2>5, <1>t DEF SetLatest, SetManual, Goto
    <3>2. UNCHANGED <<job, uploaded, signature, installed>>
          /\ broken' \in BOOLEAN /\ warned' \in BOOLEAN
      BY <2>5, <1>t DEF SetLatest, SetManual, PutLatest, PutManual, Broken
    <3>3. latest' \in Version /\ manual' \in Version /\ uploaded[latest'] = Last
      BY <2>5, <1>t, <1>j, <3>1 DEF SetLatest, SetManual, PutLatest, PutManual, Progress
    <3>4. Progress(d)'
      BY <3>1, <3>2, <1>t DEF Progress, Effective
    <3> QED
      BY <3>1, <3>2, <3>3, <3>4, <1>t, <1>n, StepKeeps
  <2>6. CASE Fail(d)
    <3>1. /\ at' \in [Deployer -> Place] /\ \A e \in Deployer \ {d} : at'[e] = at[e]
          /\ at'[d] = "idle" /\ UNCHANGED installed /\ Effective(d)
          /\ job' \in [Deployer -> Job] /\ \A e \in Deployer \ {d} : job'[e] = job[e]
      BY <2>6, <1>t, NoJobIsJob DEF Fail, Forget
    <3>2. Progress(d)'
      BY <3>1, <1>t DEF Progress
    <3>3. broken' \in BOOLEAN /\ warned' \in BOOLEAN /\ manual' \in Version
      BY <2>6, <1>t, <1>j DEF Fail, PutLatest, PutManual, Broken, bucket, historyVars
    <3>4. latest' \in Version /\ uploaded[latest'] = Last
      BY <2>6, <1>t, <1>j DEF Fail, PutLatest, PutManual, Progress, bucket
    <3>5. \/ /\ at[d] = "upload" /\ job[d].next <= Last
             /\ Put(d) \/ UNCHANGED <<uploaded, signature>>
          \/ UNCHANGED <<uploaded, signature>>
      BY <2>6 DEF Fail, PutLatest, PutManual, bucket
    <3>6. CASE at[d] = "upload" /\ job[d].next <= Last /\ (Put(d) \/ UNCHANGED <<uploaded, signature>>)
      BY <3>1, <3>2, <3>3, <3>4, <3>6, <1>t, PutAdds, StepKeeps
    <3>7. CASE UNCHANGED <<uploaded, signature>>
      BY <3>1, <3>2, <3>3, <3>4, <3>7, <1>t, <1>n, StepKeeps
    <3> QED
      BY <3>5, <3>6, <3>7
  <2> QED
    BY <2>1, <2>2, <2>3, <2>4, <2>5, <2>6, <2>7 DEF Run
<1> QED
  BY <1>1, <1>2, <1>3 DEF NextDeployment

LEMMA Inductive == SpecDeployment => []InvDeployment
<1> QED
  BY InitInv, InvStep, PTL DEF SpecDeployment

(* Every variable keeps its type, for any number of deployers, versions    *)
(* and artifacts (deploy-update.py, _main).                                *)
THEOREM TypeCorrectDeployment == SpecDeployment => []TypeOKDeployment
<1>1. InvDeployment => TypeOKDeployment
  BY DEF InvDeployment
<1> QED
  BY Inductive, <1>1, PTL

(* Whoever wrote the manual last has yet to verify, or has reported the    *)
(* mismatch, or somebody was broken off.                                   *)
Accounted ==
  latest # manual =>
    \/ broken \/ warned
    \/ \E d \in Deployer : Effective(d) /\ at[d] = "manual"
    \/ \E d \in Deployer :
         job[d].mode = "release" /\ at[d] = "verify" /\ job[d].version = manual

InvReport ==
  /\ Accounted
  /\ \A d \in Deployer : at[d] \in {"latest", "manual"} => job[d].mode # "skip_latest"

(* A step of d leaves the others where they are.                           *)
LEMMA OthersStay ==
  ASSUME NEW d \in Deployer, TypeOKDeployment, Run(d)
  PROVE  /\ \A e \in Deployer \ {d} : at'[e] = at[e] /\ job'[e] = job[e]
         /\ at[d] # "idle" =>
              (UNCHANGED job \/ at'[d] = "idle" \/ job'[d].mode = job[d].mode)
<1> USE DEF TypeOKDeployment
<1>1. CASE Upload(d)
  BY <1>1 DEF Upload, Job
<1>2. CASE Sign(d)
  <2>1. at' = [at EXCEPT ![d] = "confirm"] /\ at[d] = "idle"
    BY <1>2 DEF Sign, Goto
  <2>2. \A e \in Deployer \ {d} : job'[e] = job[e]
    BY <1>2 DEF Sign
  <2> QED
    BY <2>1, <2>2
<1>3. CASE Decline(d) \/ verify(d) \/ Fail(d)
  BY <1>3 DEF Decline, verify, Fail, Goto, Forget
<1>4. CASE Confirm(d) \/ Uploaded(d) \/ SetLatest(d) \/ SetManual(d)
  BY <1>4 DEF Confirm, Uploaded, SetLatest, SetManual, Goto
<1> QED
  BY <1>1, <1>2, <1>3, <1>4 DEF Run

LEMMA ReportStep ==
  InvDeployment /\ InvReport /\ [NextDeployment]_deploymentVars => InvReport'
<1> SUFFICES ASSUME InvDeployment, InvReport, [NextDeployment]_deploymentVars
             PROVE  InvReport'
  OBVIOUS
<1>t. /\ TypeOKDeployment /\ job \in [Deployer -> Job]
      /\ at \in [Deployer -> {"idle", "confirm", "upload", "latest", "manual", "verify"}]
  BY DEF InvDeployment, TypeOKDeployment
<1>m. \A d \in Deployer : job[d].mode \in Mode
  BY <1>t DEF Job
<1>1. CASE UNCHANGED deploymentVars \/ Update
  BY <1>1 DEF deploymentVars, Update, bucket, historyVars, InvReport, Accounted, Effective
<1>2. ASSUME NEW d \in Deployer, Run(d) PROVE InvReport'
  <2> USE <1>2
  <2>o. \A e \in Deployer \ {d} : at'[e] = at[e] /\ job'[e] = job[e]
    BY <1>t, OthersStay
  <2>1. CASE Sign(d) \/ Confirm(d) \/ Decline(d) \/ Upload(d) \/ Uploaded(d)
    <3>1. UNCHANGED <<latest, manual, broken, warned>>
          /\ at[d] \in {"idle", "confirm", "upload"}
      BY <2>1 DEF Sign, Confirm, Decline, Upload, Uploaded, Goto, bucket, historyVars
    <3>2. Accounted'
      BY <2>o, <3>1 DEF InvReport, Accounted, Effective
    <3>3. at'[d] \in {"latest", "manual"} => job'[d].mode # "skip_latest"
      BY <2>1, <1>t DEF Sign, Confirm, Decline, Upload, Uploaded, Goto
    <3> QED
      BY <2>o, <3>2, <3>3 DEF InvReport
  <2>2. CASE SetLatest(d)
    <3>1. UNCHANGED <<job, manual>> /\ at'[d] = "manual" /\ at[d] = "latest"
      BY <2>2, <1>t DEF SetLatest, PutLatest, Goto
    <3>2. CASE Effective(d)
      BY <2>o, <3>1, <3>2 DEF InvReport, Accounted, Effective
    <3>3. CASE ~Effective(d)
      BY <2>2, <2>o, <3>1, <3>3 DEF SetLatest, PutLatest, Broken, InvReport, Accounted, Effective
    <3> QED
      BY <3>2, <3>3
  <2>3. CASE SetManual(d)
    <3>1. UNCHANGED <<job, latest>> /\ at'[d] = "verify" /\ at[d] = "manual"
      BY <2>3, <1>t DEF SetManual, PutManual, Goto
    <3>2. CASE Effective(d)
      <4>1. job[d].mode = "release" /\ manual' = job[d].version
        BY <2>3, <3>1, <3>2, <1>m DEF InvReport, Mode, Effective, SetManual, PutManual
      <4> QED
        BY <2>o, <3>1, <4>1 DEF InvReport, Accounted, Effective
    <3>3. CASE ~Effective(d)
      BY <2>3, <2>o, <3>1, <3>3 DEF SetManual, PutManual, Broken, InvReport, Accounted, Effective
    <3> QED
      BY <3>2, <3>3
  <2>4. CASE verify(d)
    <3>1. UNCHANGED <<latest, manual, broken>> /\ at'[d] = "idle" /\ at[d] = "verify"
      BY <2>4, <1>t DEF verify, Goto, bucket
    <3>2. warned => warned'
      BY <2>4 DEF verify
    <3>3. job[d].mode = "release" /\ latest # job[d].version => warned'
      BY <2>4 DEF verify
    <3> QED
      BY <2>o, <3>1, <3>2, <3>3 DEF InvReport, Accounted, Effective
  <2>5. CASE Fail(d)
    <3>1. at'[d] = "idle" /\ at[d] \in {"upload", "latest", "manual"}
      BY <2>5, <1>t DEF Fail
    <3>2. CASE at[d] = "upload"
      BY <2>5, <2>o, <3>1, <3>2 DEF Fail, InvReport, Accounted, Effective, historyVars
    <3>3. CASE at[d] \in {"latest", "manual"}
      <4>1. latest' # manual' => broken' \/ UNCHANGED <<latest, manual, warned, broken>>
        BY <2>5, <3>3 DEF Fail, Broken, bucket, historyVars
      <4>2. at[d] = "manual" /\ latest' # manual' => broken'
        BY <2>5 DEF Fail, Broken
      <4> QED
        BY <2>o, <3>1, <3>3, <4>1, <4>2 DEF InvReport, Accounted, Effective
    <3> QED
      BY <3>1, <3>2, <3>3
  <2> QED
    BY <2>1, <2>2, <2>3, <2>4, <2>5 DEF Run
<1> QED
  BY <1>1, <1>2 DEF NextDeployment

(* A manual that is not that of the latest version is owed to a run that   *)
(* is not finished or was broken off, or FAIL was printed for it: whoever  *)
(* overwrites the manual last verifies after that (_main, verify).         *)
THEOREM MismatchIsReported == SpecDeployment => []InconsistencyIsReported
<1>1. InitDeployment => InvReport
  BY DEF InitDeployment, InvReport, Accounted
<1>2. InvReport => InconsistencyIsReported
  BY DEF InvReport, Accounted, InconsistencyIsReported
<1> QED
  BY Inductive, ReportStep, <1>1, <1>2, PTL DEF SpecDeployment

(* The bucket implements what the machines rely on, whatever runs overlap, *)
(* fail or are repeated (_main, the order of the uploads and latest).      *)
THEOREM ImplementsReleaseServer == SpecDeployment => IsReleaseServer
<1> DEFINE available == {v \in Version : uploaded[v] = Last}
<1>1. InitDeployment => \E v \in Version : Server!InitServer(v)
  <2> SUFFICES ASSUME InitDeployment PROVE Server!InitServer(1)
    BY Constants
  <2> QED
    BY Constants DEF InitDeployment, Server!InitServer
<1>2. InvDeployment /\ [NextDeployment]_deploymentVars
        => [Server!NextServer]_<<latest, available>>
  <2> SUFFICES ASSUME InvDeployment, [NextDeployment]_deploymentVars
               PROVE  Server!NextServer \/ UNCHANGED <<latest, available>>
    OBVIOUS
  <2>1. CASE UNCHANGED deploymentVars \/ Update
    BY <2>1 DEF deploymentVars, Update, bucket
  <2>2. ASSUME NEW d \in Deployer, Run(d)
        PROVE  Server!NextServer \/ UNCHANGED <<latest, available>>
    <3> USE <2>2
    <3> DEFINE v == job[d].version
    <3>1. v \in Version /\ uploaded \in [Version -> 0..Last]
      BY DEF InvDeployment, TypeOKDeployment, Job
    <3>2. CASE UNCHANGED <<uploaded, latest>>
      BY <3>2
    <3>3. CASE at[d] = "upload" /\ job[d].next <= Last /\ UNCHANGED latest
               /\ (Put(d) \/ UNCHANGED <<uploaded, signature>>)
      <4>1. /\ uploaded' \in [Version -> 0..Last]
            /\ \A w \in Version : uploaded'[w] >= uploaded[w] /\ (uploaded'[w] # uploaded[w] => w = v)
        BY <3>3, PutAdds
      <4>2. available' = available \/ available' = available \cup {v}
        <5>1. \A w \in Version : w # v => (w \in available' <=> w \in available)
          BY <4>1
        <5>2. v \in available => v \in available'
          <6>1. uploaded[v] \in 0..Last /\ uploaded'[v] \in 0..Last /\ uploaded'[v] >= uploaded[v]
            BY <3>1, <4>1
          <6> QED
            BY <3>1, <6>1, Constants
        <5> QED
          BY <5>1, <5>2
      <4> QED
        BY <3>1, <3>3, <4>2 DEF Server!NextServer, Server!Provide
    <3>4. CASE at[d] = "latest" /\ PutLatest(d)
      <4>1. UNCHANGED available
        BY <3>4 DEF PutLatest
      <4>2. CASE Effective(d)
        BY <3>1, <3>4, <4>1, <4>2 DEF PutLatest, InvDeployment, Progress,
           Server!NextServer, Server!Release
      <4>3. CASE ~Effective(d)
        BY <3>4, <4>1, <4>3 DEF PutLatest
      <4> QED
        BY <4>2, <4>3
    <3> QED
      BY <3>2, <3>3, <3>4 DEF Run, Sign, Confirm, Decline, Upload, Uploaded, SetLatest,
         SetManual, verify, Fail, PutManual, Goto, bucket
  <2> QED
    BY <2>1, <2>2 DEF NextDeployment
<1> QED
  BY Inductive, <1>1, <1>2, PTL DEF SpecDeployment, IsReleaseServer, Server!SpecServer
=============================================================================
