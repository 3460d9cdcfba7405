----------------------------- MODULE RemotePilot ----------------------------
(***************************************************************************)
(* The host of the remote pilot: an operator creates, rotates and retires  *)
(* the temporary password (prepare_env.py), deploys a release or goes back *)
(* to the previous one (axignal-remote-deploy, remote_state.py).  Both     *)
(* read and rewrite one environment file, the deployment under a lock the  *)
(* credential commands do not take; either may be stopped between any two  *)
(* of its writes, each of which is atomic.  Compose is given the           *)
(* environment as it was when the script sourced it (compose_boundary.sh). *)
(* The environment keeps a hash of the password: here, the password it     *)
(* accepts.                                                                *)
(***************************************************************************)
EXTENDS Naturals, Sequences

CONSTANTS
    Releases,       \* commits that may be deployed, from 1
    Files,          \* password files
    MaxPasswords    \* bound on the passwords generated

Nothing == 0   \* no file, no password, no release

VARIABLES
    environment,  \* [sha, password], the environment file; password Nothing: it does not exist
    passwordIn,   \* by file, the password it holds
    metadata,     \* status in the metadata file
    command,      \* the credential command under way, or NoCommand
    deployment,   \* the deployment under way, or NoCommand
    deployState,  \* current.json: [current, previous]
    currentLink,
    running,      \* [sha, late]: the release the web service was started with, and
                  \* whether the environment named another by then (history)
    lastDeploy,   \* how the last deployment ended
    issued,       \* passwords generated so far
    given,        \* passwords whose last file a completed unlink of retire removed
    torn          \* one process wrote the environment between the other's read and write

pilotVars == <<environment, passwordIn, metadata, command, deployment, deployState, currentLink,
               running, lastDeploy, issued, given, torn>>

NoCommand == [step |-> "NONE"]

\* What the web service is when Compose starts it with a release.
Web(sha) == [sha |-> sha, late |-> sha # environment.sha]

PilotInit ==
    /\ environment = [sha |-> Nothing, password |-> Nothing]
    /\ passwordIn = [f \in Files |-> Nothing] /\ metadata = "NONE"
    /\ command = NoCommand /\ deployment = NoCommand
    /\ deployState = [current |-> Nothing, previous |-> Nothing] /\ currentLink = Nothing
    /\ running = Web(Nothing) /\ lastDeploy = "NONE"
    /\ issued = 0 /\ given = {} /\ torn = FALSE

\* The writes of a command, in the order of its code.
CreateOrder == <<"ENVIRONMENT", "PASSWORD", "METADATA">>

\* [mutant] The environment accepts the new password before a file holds it.
RotateEnvironmentFirst == <<"READ", "ENVIRONMENT", "PASSWORD", "UNLINK", "METADATA", "SOURCE", "RECREATE", "VERIFY">>

RotateOrder == <<"PASSWORD", "READ", "ENVIRONMENT", "UNLINK", "METADATA", "SOURCE", "RECREATE", "VERIFY">>

RetireOrder == <<"UNLINK", "METADATA">>

Status ==
    [CREATE |-> "TEMPORARY_CREDENTIAL_PENDING_ROTATION", ROTATE |-> "ROTATED_CREDENTIAL_PENDING_HANDOFF",
     RETIRE |-> "PLAINTEXT_CREDENTIAL_RETIRED"]

Begin(name, order, old, new, password, sha) ==
    /\ command = NoCommand
    /\ command' = [step |-> Head(order), name |-> name, todo |-> order, old |-> old, new |-> new,
                   password |-> password, sha |-> sha]

\* validate_output_path refuses what exists; the release is an argument.
BeginCreate(file, sha) ==
    /\ environment.password = Nothing /\ passwordIn[file] = Nothing /\ metadata = "NONE"
    /\ issued < MaxPasswords /\ issued' = issued + 1
    /\ Begin("CREATE", CreateOrder, file, file, issued', sha)
    /\ UNCHANGED <<environment, passwordIn, metadata, deployment, deployState, currentLink, running,
                   lastDeploy, given, torn>>

\* The script asks for a recorded release, whose Compose file it will use (its services
\* are the same here), prepare_env for the files; nothing compares the current file with
\* what the environment accepts.
BeginRotate(old, new) ==
    /\ deployState.current # Nothing
    /\ environment.password # Nothing /\ passwordIn[old] # Nothing /\ passwordIn[new] = Nothing
    /\ issued < MaxPasswords /\ issued' = issued + 1
    /\ Begin("ROTATE", RotateOrder, old, new, issued', Nothing)
    /\ UNCHANGED <<environment, passwordIn, metadata, deployment, deployState, currentLink, running,
                   lastDeploy, given, torn>>

BeginRetire(file) ==
    /\ passwordIn[file] # Nothing /\ metadata # "NONE"
    /\ Begin("RETIRE", RetireOrder, file, file, passwordIn[file], Nothing)
    /\ UNCHANGED <<environment, passwordIn, metadata, deployment, deployState, currentLink, running,
                   lastDeploy, issued, given, torn>>

-----------------------------------------------------------------------------
\* replace_environment_values and set_build_sha rewrite the lines they read.
Overwrites(other) == torn \/ other.step \in {"ENVIRONMENT", "WRITE_SHA", "WRITE_BACK"}

\* Of the values of the environment, those the two processes write.
BuildEnvironment(sha, password) == [sha |-> sha, password |-> password]

\* write_environment, for create and for rotate; rotate writes back the release it read.
WriteEnvironment ==
    /\ environment' = BuildEnvironment(command.sha, command.password)
    /\ torn' = Overwrites(deployment)
    /\ UNCHANGED <<passwordIn, metadata, running, given>>

AtomicWritePassword ==
    /\ passwordIn' = [passwordIn EXCEPT ![command.new] = command.password]
    /\ UNCHANGED <<environment, metadata, running, given, torn>>

\* The old file of a rotation, or the file retired.
Unlink ==
    /\ passwordIn' = [passwordIn EXCEPT ![command.old] = Nothing]
    /\ given' = IF command.name = "RETIRE" THEN given \cup {passwordIn[command.old]} ELSE given
    /\ UNCHANGED <<environment, metadata, running, torn>>

WriteMetadata ==
    /\ metadata' = Status[command.name]
    /\ UNCHANGED <<environment, passwordIn, running, given, torn>>

RecreateWeb ==
    /\ running' = Web(command.sha)
    /\ UNCHANGED <<environment, passwordIn, metadata, given, torn>>

\* axignal-remote-verify, and reading the environment: nothing on the disk changes.
Look == UNCHANGED <<environment, passwordIn, metadata, running, given, torn>>

StepCommand ==
    /\ command # NoCommand
    /\ CASE command.step = "ENVIRONMENT" -> WriteEnvironment
         [] command.step = "PASSWORD" -> AtomicWritePassword
         [] command.step = "UNLINK" -> Unlink
         [] command.step = "METADATA" -> WriteMetadata
         [] command.step = "RECREATE" -> RecreateWeb
         [] OTHER -> Look
    /\ command' = IF Len(command.todo) = 1 THEN NoCommand
                  ELSE [command EXCEPT !.todo = Tail(@), !.step = Head(Tail(command.todo)),
                                       !.sha = IF command.step \in {"READ", "SOURCE"} THEN environment.sha ELSE @]
    /\ UNCHANGED <<deployment, deployState, currentLink, lastDeploy, issued>>

CommandKilled ==
    /\ command # NoCommand /\ command' = NoCommand
    /\ UNCHANGED <<environment, passwordIn, metadata, deployment, deployState, currentLink, running,
                   lastDeploy, issued, given, torn>>

-----------------------------------------------------------------------------
UnchangedCredentials == UNCHANGED <<passwordIn, metadata, command, issued, given>>

\* Under the lock: the recorded release becomes the previous one.
BeginDeploy(target) ==
    /\ deployment = NoCommand /\ environment.password # Nothing
    /\ deployment' = [step |-> "READ_SHA", target |-> target, previous |-> deployState.current,
                      password |-> Nothing, sha |-> Nothing]
    /\ lastDeploy' = "UNDER_WAY"
    /\ UnchangedCredentials
    /\ UNCHANGED <<environment, deployState, currentLink, running, torn>>

\* axignal-remote-rollback: the previous release is deployed like any other.
BeginRollback == deployState.previous # Nothing /\ BeginDeploy(deployState.previous)

DeployTo(step) == deployment' = [deployment EXCEPT !.step = step, !.password = Nothing]

GetBuildSha ==
    /\ deployment.step \in {"READ_SHA", "READ_BACK"}
    /\ deployment' = [deployment EXCEPT !.step = IF @ = "READ_SHA" THEN "WRITE_SHA" ELSE "WRITE_BACK",
                                         !.password = environment.password]
    /\ UnchangedCredentials
    /\ UNCHANGED <<environment, deployState, currentLink, running, lastDeploy, torn>>

SetBuildSha ==
    /\ deployment.step \in {"WRITE_SHA", "WRITE_BACK"}
    /\ environment' = [sha |-> IF deployment.step = "WRITE_SHA" THEN deployment.target ELSE deployment.previous,
                       password |-> deployment.password]
    /\ torn' = Overwrites(command)
    /\ DeployTo(IF deployment.step = "WRITE_SHA" THEN "SOURCE" ELSE "SOURCE_BACK")
    /\ UnchangedCredentials
    /\ UNCHANGED <<deployState, currentLink, running, lastDeploy>>

\* axignal_compose_args exports the environment; --env-file does not override it.
SourceEnvironment ==
    /\ deployment.step \in {"SOURCE", "SOURCE_BACK"}
    /\ deployment' = [deployment EXCEPT !.step = IF @ = "SOURCE" THEN "CANDIDATE" ELSE "UP_BACK",
                                         !.sha = environment.sha]
    /\ UnchangedCredentials
    /\ UNCHANGED <<environment, deployState, currentLink, running, lastDeploy, torn>>

EndDeploy(how) == deployment' = NoCommand /\ lastDeploy' = how

\* The trap on ERR: the previous release, if there is one, comes back.
RollBackPrevious ==
    IF deployment.previous = Nothing THEN EndDeploy("FAILED") ELSE DeployTo("READ_BACK") /\ UNCHANGED lastDeploy

\* The candidate's checks and the backup come before the trap that rolls back.
CheckCandidate(passes) ==
    /\ deployment.step = "CANDIDATE"
    /\ IF passes THEN DeployTo("UP") /\ UNCHANGED lastDeploy ELSE EndDeploy("REFUSED")
    /\ UnchangedCredentials
    /\ UNCHANGED <<environment, deployState, currentLink, running, torn>>

\* Build, start and verify what runs against the environment.
Up(passes) ==
    /\ deployment.step = "UP" /\ running' = Web(deployment.sha)
    /\ IF passes THEN DeployTo("LINK") /\ UNCHANGED lastDeploy ELSE RollBackPrevious
    /\ UnchangedCredentials
    /\ UNCHANGED <<environment, deployState, currentLink, torn>>

\* The end of rollback_previous; whether the old release starts again is not looked at.
UpBack(starts) ==
    /\ deployment.step = "UP_BACK" /\ EndDeploy(IF starts THEN "ROLLED_BACK" ELSE "FAILED")
    /\ running' = IF starts THEN Web(deployment.sha) ELSE running
    /\ currentLink' = deployment.previous
    /\ UnchangedCredentials
    /\ UNCHANGED <<environment, deployState, torn>>

LinkRelease(works) ==
    /\ deployment.step = "LINK"
    /\ IF works THEN /\ currentLink' = deployment.target
                     /\ DeployTo("RECORD") /\ UNCHANGED lastDeploy
       ELSE RollBackPrevious /\ UNCHANGED currentLink
    /\ UnchangedCredentials
    /\ UNCHANGED <<environment, deployState, running, torn>>

WriteDeployment(works) ==
    /\ deployment.step = "RECORD"
    /\ IF works THEN /\ deployState' = [current |-> deployment.target, previous |-> deployment.previous]
                     /\ EndDeploy("DONE")
       ELSE RollBackPrevious /\ UNCHANGED deployState
    /\ UnchangedCredentials
    /\ UNCHANGED <<environment, currentLink, running, torn>>

DeployKilled ==
    /\ deployment # NoCommand /\ EndDeploy("KILLED")
    /\ UnchangedCredentials
    /\ UNCHANGED <<environment, deployState, currentLink, running, torn>>

PilotNext ==
    \/ \E f \in Files, r \in Releases : BeginCreate(f, r)
    \/ \E f, g \in Files : BeginRetire(f) \/ BeginRotate(f, g)
    \/ StepCommand \/ CommandKilled
    \/ \E r \in Releases : BeginDeploy(r)
    \/ BeginRollback \/ GetBuildSha \/ SetBuildSha \/ SourceEnvironment \/ DeployKilled
    \/ \E ok \in BOOLEAN : CheckCandidate(ok) \/ Up(ok) \/ UpBack(ok) \/ LinkRelease(ok) \/ WriteDeployment(ok)

PilotSpec == PilotInit /\ [][PilotNext]_pilotVars

-----------------------------------------------------------------------------
\* As long as the two processes did not tear the environment file: wherever a rotation is
\* stopped, some file holds the password the environment accepts, or it was handed over and
\* retired (only a create that was stopped before it wrote its file has no such password);
\* and when a deployment that was recorded is the last, the record, the link and the
\* environment name one release, and the service runs it too, unless a rotation restarted
\* the service with an environment it had read before.
PilotStateAgrees ==
    ~torn =>
        /\ \/ environment.password \in given \cup {passwordIn[f] : f \in Files}
           \/ metadata = "NONE" /\ \A f \in Files : passwordIn[f] = Nothing
        /\ deployment = NoCommand /\ lastDeploy = "DONE" =>
              /\ environment.sha = deployState.current /\ currentLink = deployState.current
              /\ running.sha = deployState.current \/ running.late

\* After a recorded deployment the service runs the release.  It does not when a rotation
\* that sourced the environment before the deployment wrote it recreates the service after.
WebRunsTheRecord ==
    ~torn /\ deployment = NoCommand /\ lastDeploy = "DONE" => running.sha = deployState.current

\* A deployment that was not killed and did not succeed leaves the environment with the
\* release that is recorded.  It does not when the candidate's checks or the backup fail:
\* the environment already names the refused release, and no trap is set yet.
FailedDeployRollsBack ==
    ~torn /\ deployment = NoCommand /\ lastDeploy \in {"REFUSED", "ROLLED_BACK"} /\ deployState.current # Nothing
        => environment.sha = deployState.current
=============================================================================
