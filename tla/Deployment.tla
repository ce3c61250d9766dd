----------------------------- MODULE Deployment -----------------------------
(***************************************************************************)
(* deploy-update.py, run by several people or jobs at a time, for the same *)
(* channel or again after a failure; the bucket it writes to; and a        *)
(* machine in the field that follows the channel.                          *)
(***************************************************************************)
EXTENDS Integers, Sequences

CONSTANTS
  Deployer,    \* those who run the script
  LastVersion, \* bound on the versions built, numbered in their order
  UPDATE_CERT, \* [Version -> certificate built into it]
  ARTIFACTS    \* the files of a version in the order of their upload

Version == 1..LastVersion
Cert    == {UPDATE_CERT[v] : v \in Version}

ASSUME DeploymentAssumption ==
  /\ LastVersion \in Nat \ {0}
  /\ ARTIFACTS \in Seq({"bundle", "manual", "installer", "live"}) /\ ARTIFACTS # <<>>
  /\ ARTIFACTS[1] = "bundle"

VARIABLES
  at,        \* [Deployer -> the command that the run comes to next]
  job,       \* [Deployer -> version, mode and signature of the run]
  uploaded,  \* [Version -> number of artifacts in the bucket]
  signature, \* [Version -> certificate the bundle in the bucket verifies with]
  latest,    \* content of the file latest
  manual,    \* version of manual-latest.pdf
  installed, \* version on the machine in the field
  broken,    \* history: a run ended between the two files, and none has
             \* brought them together since
  warned     \* history: FAIL was printed for latest since the two were written

bucket         == <<uploaded, signature, latest, manual>>
historyVars    == <<broken, warned>>
deploymentVars == <<at, job, bucket, installed, historyVars>>

Mode == {"release", "skip_latest", "dry_run"}
Last == Len(ARTIFACTS)
Job  == [version : Version, mode : Mode, signature : Cert, next : 1..Last + 1]
Effective(d) == job[d].mode # "dry_run"

NoJob == [version |-> 1, mode |-> "dry_run", signature |-> UPDATE_CERT[1], next |-> 1]

InitDeployment ==
  /\ at = [d \in Deployer |-> "idle"]
  /\ job = [d \in Deployer |-> NoJob]
  /\ uploaded = [v \in Version |-> IF v = 1 THEN Last ELSE 0]
  /\ signature = [v \in Version |-> UPDATE_CERT[1]]
  /\ latest = 1 /\ manual = 1 /\ installed = 1
  /\ broken = FALSE /\ warned = FALSE

Goto(d, from, to) == at[d] = from /\ at' = [at EXCEPT ![d] = to]
Forget(d) == job' = [job EXCEPT ![d] = NoJob]   \* the process is gone

------------------------------------------------------------------------------
(* The run of one deployer *)

(* rauc resign takes the key together with a certificate, and refuses one  *)
(* of another pair; keys are named by their certificate.                   *)
create_signed_rauc_bundle(key, cert, out) == key = cert /\ out = cert

(* Any key may be given, and any certificate in place of the one built in. *)
Sign(d) ==
  /\ Goto(d, "idle", "confirm")
  /\ \E v \in Version, mode \in Mode, key \in Cert, output_cert \in Cert, out \in Cert :
       /\ create_signed_rauc_bundle(key, output_cert, out)
       /\ job' = [job EXCEPT ![d] =
            [version |-> v, mode |-> mode, signature |-> out, next |-> 1]]
  /\ UNCHANGED <<bucket, installed, historyVars>>

(* A dry run does not ask. *)
Confirm(d) ==
  /\ Goto(d, "confirm", "upload")
  /\ UNCHANGED <<job, bucket, installed, historyVars>>

Decline(d) ==
  /\ Goto(d, "confirm", "idle") /\ Effective(d)
  /\ Forget(d)
  /\ UNCHANGED <<bucket, installed, historyVars>>

Put_IfAbsent(d) ==   \* mutant: an object that is there is not replaced
  LET v == job[d].version
      i == job[d].next
  IN  IF Effective(d) /\ i > uploaded[v]
      THEN /\ uploaded' = [uploaded EXCEPT ![v] = i]
           /\ signature' = [signature EXCEPT
                ![v] = IF ARTIFACTS[i] = "bundle" THEN job[d].signature ELSE @]
      ELSE UNCHANGED <<uploaded, signature>>

(* What the commands do to the bucket.  Each object is replaced as a whole.*)
Put(d) ==
  LET v == job[d].version
      i == job[d].next
  IN  IF Effective(d)
      THEN /\ uploaded' = [uploaded EXCEPT ![v] = IF i > @ THEN i ELSE @]
           /\ signature' = [signature EXCEPT
                ![v] = IF ARTIFACTS[i] = "bundle" THEN job[d].signature ELSE @]
      ELSE UNCHANGED <<uploaded, signature>>

Upload_Unchecked(d) ==   \* mutant: without check=True
  /\ at[d] = "upload" /\ job[d].next <= Last
  /\ Put(d) \/ UNCHANGED <<uploaded, signature>>
  /\ job' = [job EXCEPT ![d].next = @ + 1]
  /\ UNCHANGED <<at, latest, manual, installed, historyVars>>

Upload(d) ==
  /\ at[d] = "upload" /\ job[d].next <= Last
  /\ Put(d)
  /\ job' = [job EXCEPT ![d].next = @ + 1]
  /\ UNCHANGED <<at, latest, manual, installed, historyVars>>

Uploaded(d) ==
  /\ job[d].next > Last
  /\ IF job[d].mode = "skip_latest" THEN Goto(d, "upload", "verify")
                                    ELSE Goto(d, "upload", "latest")
  /\ UNCHANGED <<job, bucket, installed, historyVars>>

(* Writing one of the two files forgets what was printed before.           *)
PutLatest(d) ==
  /\ latest' = IF Effective(d) THEN job[d].version ELSE latest
  /\ warned' = (warned /\ ~Effective(d))
  /\ UNCHANGED <<uploaded, signature, manual>>

PutManual(d) ==
  /\ manual' = IF Effective(d) THEN job[d].version ELSE manual
  /\ warned' = (warned /\ ~Effective(d))
  /\ UNCHANGED <<uploaded, signature, latest>>

Broken(now) == broken' = (now /\ latest' # manual')

SetLatest(d) ==
  /\ Goto(d, "latest", "manual")
  /\ PutLatest(d) /\ Broken(broken)
  /\ UNCHANGED <<job, installed>>

SetManual(d) ==
  /\ Goto(d, "manual", "verify")
  /\ PutManual(d) /\ Broken(broken)
  /\ UNCHANGED <<job, installed>>

(* FAIL is printed if latest is another version or cannot be read; the     *)
(* exit code is 0 all the same.  The second check, that the bundle can be  *)
(* read, has no consequence either.                                        *)
verify_BundleOnly(d) ==   \* mutant: only the bundle is looked for
  /\ Goto(d, "verify", "idle")
  /\ Forget(d)
  /\ UNCHANGED <<bucket, installed, historyVars>>

verify(d) ==
  /\ Goto(d, "verify", "idle")
  /\ IF job[d].mode = "release"
     THEN \E readable \in BOOLEAN :
            warned' = (warned \/ ~readable \/ latest # job[d].version)
     ELSE UNCHANGED warned
  /\ Forget(d)
  /\ UNCHANGED <<bucket, installed, broken>>

(* A command fails: the script ends, and the command may have had its      *)
(* effect or not.                                                          *)
Fail(d) ==
  /\ Effective(d)
  /\ at' = [at EXCEPT ![d] = "idle"]
  /\ \/ /\ at[d] = "upload" /\ job[d].next <= Last
        /\ Put(d) \/ UNCHANGED <<uploaded, signature>>
        /\ UNCHANGED <<latest, manual, historyVars>>
     \/ at[d] = "latest" /\ PutLatest(d) /\ Broken(TRUE)
     \/ at[d] = "latest" /\ UNCHANGED <<bucket, historyVars>>
     \/ /\ at[d] = "manual"
        /\ PutManual(d) \/ UNCHANGED <<bucket, warned>>
        /\ Broken(TRUE)
  /\ Forget(d)
  /\ UNCHANGED installed

------------------------------------------------------------------------------
(* A machine installs what is newer, and what RAUC can verify with the     *)
(* certificate it has.  (update.ml, update_client.ml)                      *)
Accepts(v, w) == UPDATE_CERT[v] = signature[w]

Update ==
  /\ latest > installed /\ Accepts(installed, latest)
  /\ installed' = latest
  /\ UNCHANGED <<at, job, bucket, historyVars>>

Run(d) ==
  \/ Sign(d) \/ Confirm(d) \/ Decline(d) \/ Upload(d) \/ Uploaded(d)
  \/ SetLatest(d) \/ SetManual(d) \/ verify(d) \/ Fail(d)

NextDeployment == Update \/ \E d \in Deployer : Run(d)
SpecDeployment == InitDeployment /\ [][NextDeployment]_deploymentVars

(* A machine looks for updates again and again.  Nothing is assumed of the *)
(* deployers.                                                              *)
FairSpecDeployment == SpecDeployment /\ WF_deploymentVars(Update)

------------------------------------------------------------------------------
(* The type of every variable. *)
TypeOKDeployment ==
  /\ at \in [Deployer -> {"idle", "confirm", "upload", "latest", "manual", "verify"}]
  /\ job \in [Deployer -> Job]
  /\ uploaded \in [Version -> 0..Last]
  /\ signature \in [Version -> Cert]
  /\ latest \in Version /\ manual \in Version /\ installed \in Version
  /\ broken \in BOOLEAN /\ warned \in BOOLEAN

(* However many runs overlap, fail or are repeated: latest only names      *)
(* versions all of whose files are in the bucket.                          *)
Server == INSTANCE ReleaseServer
  WITH available <- {v \in Version : uploaded[v] = Last}
IsReleaseServer == Server!SpecServer

(* Two runs that overlap can leave a manual that is not that of the latest *)
(* version.  When all is quiet this does not go unseen: a run was broken   *)
(* off between the two files, or one has printed FAIL since.               *)
InconsistencyIsReported ==
  latest # manual =>
    broken \/ warned \/ \E d \in Deployer : at[d] \in {"manual", "verify"}

(* The manual's procedure (Readme.md, Key switch): a version is signed with*)
(* the pair that the version before it knows.  The script cannot tell, and *)
(* publishes what no machine takes.                                        *)
Key(v) == UPDATE_CERT[IF v = 1 THEN 1 ELSE v - 1]
Follows(v) ==
  \A d \in Deployer : at[d] # "idle" =>
    job[d].version = v /\ job[d].mode = "release" /\ job[d].signature = Key(v)

(* Nothing that was done to the channel before is beyond repair: wrong     *)
(* pairs, runs broken off at any command, runs that overlap.  Once there   *)
(* are only runs of one version that follow the procedure, and somebody    *)
(* begins one and ends one again and again, a machine with the version     *)
(* before gets that version.  (One further behind may have missed a switch *)
(* of pairs.)                                                              *)
Deploys(d) == []<>(at[d] = "confirm") /\ []<>(at[d] = "verify")
RepairsInTheEnd ==
  \A v \in Version :
    <>[]Follows(v) /\ (\E d \in Deployer : Deploys(d)) /\ <>(installed >= v - 1) =>
      <>(installed >= v)
=============================================================================
