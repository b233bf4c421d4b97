---------------------------- MODULE Applications ----------------------------
(***************************************************************************)
(* One OAuth application, its clients and their twins at the identity      *)
(* provider (ADR-0004).  An administrator's request is a sequence of       *)
(* PostgreSQL transactions and provider calls: rows are written first, the *)
(* provider is called outside any transaction, the outcome is committed    *)
(* afterwards, and what cannot be committed leaves a reconciliation trail. *)
(* A step is one transaction, query or call; requests interleave freely.   *)
(***************************************************************************)
EXTENDS Naturals, FiniteSets

CONSTANTS
  Clients,    \* OAuth clients of the application
  Initial,    \* the client created together with the application
  Requests,   \* administrator requests, one operation each
  Ops,        \* the operations they may run, a subset of AllOps
  MaxFaults   \* model bound: failed calls, lost answers and crashes

AppOps    == {"create_app", "update_app", "enable_app", "disable_app", "delete_app"}
ClientOps == {"create_client", "update_client", "update_scopes", "enable_client",
              "disable_client", "delete_client", "rotate"}
AllOps    == AppOps \cup ClientOps

ApplicationAssumption ==
  /\ Initial \in Clients /\ Ops \subseteq AllOps
  /\ "first" \notin Requests /\ "none" \notin Requests
  /\ MaxFaults \in Nat

VARIABLES
  app,       \* row of oauth_applications
  client,    \* rows of oauth_clients
  op,        \* rows of oauth_provider_operations, one per request and client
  job,       \* rows of provider_reconciliation_jobs: client and desired status
  provider,  \* the OIDC applications at the provider
  req,       \* what each request is doing and has read
  faults     \* faults that hit a request, at most MaxFaults

rows == <<app, client, op>>
vars == <<rows, job, provider, req, faults>>

-----------------------------------------------------------------------------
(* Types *)

Provisioning == {"absent", "provisioning", "provisioned", "provisioning_failed",
                 "deleting", "delete_failed"}
Statuses == {"active", "disabled"}
Writers  == Requests \cup {"first"}  \* who wrote a configuration or a secret
Kinds    == {"rejected", "lost", "store", "commit", "crash"}
Labels   == {"idle", "insert", "provision", "complete", "markFailed", "compensate",
             "update", "readClient", "listClients", "listLive", "switch", "rollback", "setStatus",
             "setApp", "arm", "remove", "erase", "markDeleteFailed",
             "deleteApp", "sync", "saveConfig", "readApp", "begin", "rotateCall",
             "saveSecret", "abort", "park", "trail", "done", "crashed"}

Row == [prov: Provisioning, deleted: BOOLEAN, status: Statuses, pid: BOOLEAN,
        version: Nat, flagged: BOOLEAN, gate: {"idle", "in_progress", "outcome_unknown"},
        gateOp: Requests \cup {"none"}, config: Writers, secret: Writers]

\* todo: clients a fan-out still has to treat; switched: those whose provider
\* state it changed; drift: those whose trail is still to be written; seen:
\* the client rows it read; lost: the provider's outcome is unknown.
Frame == [op: AllOps \cup {"none"}, c: Clients, pc: Labels, version: Nat,
          todo: SUBSET Clients, switched: SUBSET Clients, drift: SUBSET Clients,
          seen: [Clients -> Row], lost: BOOLEAN, desired: Statuses \cup {"any"}]

TypeOK ==
  /\ app \in [prov: Provisioning, deleted: BOOLEAN, status: Statuses, version: Nat]
  /\ client \in [Clients -> Row]
  /\ op \in [Requests -> [Clients -> {"none", "pending", "succeeded", "failed", "unknown"}]]
  /\ job \subseteq Clients \X (Statuses \cup {"any"})
  /\ provider \in [Clients -> [state: {"none", "active", "inactive", "removed"},
                               config: Writers, secret: Writers]]
  /\ req \in [Requests -> Frame]
  /\ faults \subseteq Requests \X Kinds

NoClient == [prov |-> "absent", deleted |-> FALSE, status |-> "active", pid |-> FALSE,
             version |-> 0, flagged |-> FALSE, gate |-> "idle", gateOp |-> "none",
             config |-> "first", secret |-> "first"]
Idle == [op |-> "none", c |-> Initial, pc |-> "idle", version |-> 0, todo |-> {},
         switched |-> {}, drift |-> {}, seen |-> [c \in Clients |-> NoClient], lost |-> FALSE,
         desired |-> "any"]

\* Nothing exists, or earlier requests created the application with some of
\* its clients, and then perhaps disabled it.
Init ==
  \E s \in Statuses, some \in SUBSET Clients :
    /\ some # {} => Initial \in some
    /\ app = [prov |-> IF some = {} THEN "absent" ELSE "provisioned", deleted |-> FALSE,
              status |-> IF some = {} THEN "active" ELSE s, version |-> IF some = {} THEN 0 ELSE 2]
    /\ client = [c \in Clients |->
                   IF c \in some THEN [NoClient EXCEPT !.prov = "provisioned", !.pid = TRUE,
                                                       !.version = 2]
                   ELSE NoClient]
    /\ provider = [c \in Clients |->
                     [state |-> IF c \notin some THEN "none"
                                ELSE IF s = "active" THEN "active" ELSE "inactive",
                      config |-> "first", secret |-> "first"]]
    /\ op = [r \in Requests |-> [c \in Clients |-> "none"]]
    /\ job = {} /\ req = [r \in Requests |-> Idle] /\ faults = {}

-----------------------------------------------------------------------------
(* Queries *)

\* GetApplication and GetClient see live, provisioned rows only; the deletion
\* paths list every row that is not deleted.
AppVisible     == app.prov = "provisioned" /\ ~app.deleted
Live(c)        == client[c].prov # "absent" /\ ~client[c].deleted
Visible(c)     == client[c].prov = "provisioned" /\ ~client[c].deleted
VisibleClients == {c \in Clients : Visible(c)}
LiveClients    == {c \in Clients : Live(c)}
Exists(c)      == provider[c].state \in {"active", "inactive"}
Running(r)     == req[r].pc \notin {"idle", "done", "crashed"}
At(r, label)   == req[r].pc = label

-----------------------------------------------------------------------------
(* Steps *)

Goto(r, label) == req' = [req EXCEPT ![r].pc = label]
NoFault        == UNCHANGED faults
Fault(r, kind) == /\ faults' = faults \cup {<<r, kind>>}
                  /\ Cardinality(faults') <= MaxFaults

\* A transaction: it commits, its guard refuses, it fails, or it commits and
\* the answer is lost.
Tx(r, guard, Write, Success, Failure) ==
  /\ \/ guard /\ Write /\ Success /\ NoFault
     \/ ~guard /\ UNCHANGED rows /\ Failure /\ NoFault
     \/ UNCHANGED rows /\ Failure /\ Fault(r, "store")
     \/ guard /\ Write /\ Failure /\ Fault(r, "commit")
  /\ UNCHANGED <<job, provider>>

\* A write whose error the caller ignores.
Attempt(r, Write, Continue) ==
  /\ \/ Write /\ NoFault
     \/ UNCHANGED rows /\ Fault(r, "store")
  /\ Continue /\ UNCHANGED <<job, provider>>

\* A provider call on an existing application: done, refused, or answered by
\* an error that does not tell whether it was done.
Call(r, c, state, Success, Refused, Lost) ==
  /\ \/ Exists(c) /\ provider' = [provider EXCEPT ![c] = state] /\ Success /\ NoFault
     \/ ~Exists(c) /\ UNCHANGED provider /\ Refused /\ NoFault
     \/ UNCHANGED provider /\ Refused /\ Fault(r, "rejected")
     \/ Exists(c) /\ provider' = [provider EXCEPT ![c] = state] /\ Lost /\ Fault(r, "lost")
     \/ UNCHANGED provider /\ Lost /\ Fault(r, "lost")
  /\ UNCHANGED <<rows, job>>

ToTrail(r, cs, desired) ==
  req' = [req EXCEPT ![r].drift = cs, ![r].desired = desired, ![r].pc = "trail"]

Enter(r, o, c, label) ==
  /\ At(r, "idle") /\ o \in Ops
  /\ req' = [req EXCEPT ![r].op = o, ![r].c = c, ![r].pc = label]
  /\ UNCHANGED <<rows, job, provider, faults>>

Read(r, label) ==
  /\ req' = [req EXCEPT ![r].seen = client, ![r].pc = label]
  /\ UNCHANGED <<rows, job, provider, faults>>

Crash(r) == /\ Running(r) /\ Fault(r, "crash") /\ Goto(r, "crashed")
            /\ UNCHANGED <<rows, job, provider>>

-----------------------------------------------------------------------------
(* Creation: rows in provisioning and a pending operation, then the provider *)

NewClient(r) == [NoClient EXCEPT !.prov = "provisioning", !.version = 1,
                                 !.config = r, !.secret = r]

StartCreateApp(r) == Enter(r, "create_app", Initial, "insert")

CreateApplicationWithInitialClient(r) ==
  /\ At(r, "insert") /\ req[r].op = "create_app"
  /\ Tx(r, app.prov = "absent",
        /\ app' = [app EXCEPT !.prov = "provisioning", !.version = 1]
        /\ client' = [client EXCEPT ![Initial] = NewClient(r)]
        /\ op' = [op EXCEPT ![r][Initial] = "pending"],
        Goto(r, "provision"), Goto(r, "done"))

\* A disabled or invisible application refuses a new client.
StartCreateClient(r, c) ==
  /\ AppVisible /\ app.status = "active"
  /\ Enter(r, "create_client", c, "insert")

CreateClientWithOperation(r) ==
  LET c == req[r].c IN
  /\ At(r, "insert") /\ req[r].op = "create_client"
  /\ Tx(r, client[c].prov = "absent",
        /\ client' = [client EXCEPT ![c] = NewClient(r)]
        /\ op' = [op EXCEPT ![r][c] = "pending"] /\ UNCHANGED app,
        Goto(r, "provision"), Goto(r, "done"))

\* The display name is unique to the client, so the pre-check finds nothing
\* and the application is added, refused, or added perhaps.
ProvisionClient(r) ==
  LET c == req[r].c
      Added == provider' = [provider EXCEPT ![c] = [state |-> "active", config |-> r,
                                                    secret |-> r]]
      Unknown == req' = [req EXCEPT ![r].lost = TRUE, ![r].pc = "markFailed"]
  IN /\ At(r, "provision")
     /\ \/ Added /\ Goto(r, "complete") /\ NoFault
        \/ UNCHANGED provider /\ Goto(r, "markFailed") /\ Fault(r, "rejected")
        \/ (Added \/ UNCHANGED provider) /\ Unknown /\ Fault(r, "lost")
     /\ UNCHANGED <<rows, job>>

\* The outcome of a provider call that the request could not learn.
Ambiguous_Never(r) == FALSE
Ambiguous(r) == req[r].lost

Fails(c) == IF client[c].prov = "provisioning" THEN "provisioning_failed" ELSE client[c].prov

\* MarkInitialProvisioningFailed and MarkClientProvisioningFailed.
MarkProvisioningFailed(r) ==
  LET c == req[r].c IN
  /\ At(r, "markFailed")
  /\ Attempt(r,
       /\ client' = [client EXCEPT ![c].prov = Fails(c)]
       /\ app' = IF req[r].op = "create_app" /\ app.prov = "provisioning"
                 THEN [app EXCEPT !.prov = "provisioning_failed"] ELSE app
       /\ op' = [op EXCEPT ![r][c] = IF Ambiguous(r) THEN "unknown" ELSE "failed"],
       IF Ambiguous(r) THEN ToTrail(r, {c}, "any") ELSE Goto(r, "done"))

\* The client turns provisioned only from provisioning; the application of an
\* initial client turns with it.
CompleteProvisioning(r) ==
  LET c == req[r].c
      first == req[r].op = "create_app"
  IN /\ At(r, "complete")
     /\ Tx(r, /\ client[c].prov = "provisioning" /\ ~client[c].deleted
              /\ first => app.prov = "provisioning" /\ ~app.deleted,
           /\ client' = [client EXCEPT ![c].prov = "provisioned", ![c].pid = TRUE,
                                       ![c].version = @ + 1]
           /\ app' = IF first THEN [app EXCEPT !.prov = "provisioned", !.version = @ + 1] ELSE app
           /\ op' = [op EXCEPT ![r][c] = "succeeded"],
           Goto(r, "done"), Goto(r, "compensate"))

\* DeleteClient at the provider: an application already removed counts as
\* success.
Remove(r, c, Success, Failure) ==
  LET Gone == provider' = [provider EXCEPT ![c].state = "removed"] IN
  /\ \/ Gone /\ Success /\ NoFault
     \/ UNCHANGED provider /\ Failure /\ Fault(r, "rejected")
     \/ (Gone \/ UNCHANGED provider) /\ Failure /\ Fault(r, "lost")
  /\ UNCHANGED <<rows, job>>

CompensateProvision(r) ==
  LET c == req[r].c
      Trail == ToTrail(r, {c}, "any")
  IN At(r, "compensate") /\ Remove(r, c, Goto(r, "done"), Trail)

-----------------------------------------------------------------------------
(* The reconciliation trail: a flag on the client and a job, errors ignored *)

RecordTrail(r) ==
  \E c \in req[r].drift :
    LET flag == client' = [client EXCEPT ![c].flagged = TRUE]
        job1 == job' = job \cup {<<c, req[r].desired>>}
    IN /\ At(r, "trail")
       /\ \/ flag /\ job1 /\ NoFault
          \/ UNCHANGED client /\ job1 /\ Fault(r, "store")
          \/ flag /\ UNCHANGED job /\ Fault(r, "store")
          \/ UNCHANGED <<client, job>> /\ Fault(r, "store")
       /\ req' = [req EXCEPT ![r].drift = @ \ {c},
                             ![r].pc = IF req[r].drift # {c} THEN "trail"
                                       ELSE IF req[r].switched # {} THEN "rollback" ELSE "done"]
       /\ UNCHANGED <<app, op, provider>>

-----------------------------------------------------------------------------
(* Updates of the application and of a client *)

StartUpdateApp(r) ==
  /\ AppVisible /\ At(r, "idle") /\ "update_app" \in Ops
  /\ req' = [req EXCEPT ![r].op = "update_app", ![r].version = app.version, ![r].pc = "update"]
  /\ UNCHANGED <<rows, job, provider, faults>>

UpdateApplication(r) ==
  /\ At(r, "update")
  /\ Tx(r, AppVisible /\ app.version = req[r].version,
        app' = [app EXCEPT !.version = @ + 1] /\ UNCHANGED <<client, op>>,
        Goto(r, "done"), Goto(r, "done"))

\* A patch of the name or the URIs is synchronised to the provider, one of
\* scopes and consent is not.
StartUpdateClient(r, c, o) ==
  /\ AppVisible /\ app.status = "active" /\ o \in {"update_client", "update_scopes"}
  /\ Enter(r, o, c, "readClient")

\* Optimistic concurrency: the row is visible and of the version read.
Current_AnyVersion(r, c) == Visible(c)
Current(r, c) == Visible(c) /\ client[c].version = req[r].seen[c].version

ReadClient(r) ==
  LET c == req[r].c
      o == req[r].op
      admitted == CASE o = "enable_client"  -> client[c].status = "disabled"
                    [] o = "disable_client" -> client[c].status = "active"
                    [] OTHER -> TRUE
      next == CASE o = "update_client" /\ client[c].pid -> "sync"
                [] o \in {"enable_client", "disable_client"} -> "switch"
                [] OTHER -> "saveConfig"
  IN /\ At(r, "readClient")
     /\ IF Visible(c) /\ admitted THEN Read(r, next)
        ELSE Goto(r, "done") /\ UNCHANGED <<rows, job, provider, faults>>

\* The provider's update is a call for the name and one for the URIs: when
\* the second is refused the first stays, which counts as a lost answer.
SyncClient(r) ==
  LET c == req[r].c
  IN At(r, "sync") /\ Call(r, c, [provider[c] EXCEPT !.config = r],
                           Goto(r, "saveConfig"), Goto(r, "done"), Goto(r, "done"))

UpdateClientConfig(r) ==
  LET c == req[r].c
      sync == req[r].op = "update_client"
  IN /\ At(r, "saveConfig")
     /\ Tx(r, Current(r, c),
           /\ client' = [client EXCEPT ![c].version = @ + 1,
                                       ![c].config = IF sync THEN r ELSE @]
           /\ UNCHANGED <<app, op>>,
           Goto(r, "done"),
           IF sync THEN ToTrail(r, {c}, "any") ELSE Goto(r, "done"))

-----------------------------------------------------------------------------
(* Enabling and disabling a client or the whole application *)

StartSetClientStatus(r, c, o) ==
  /\ AppVisible /\ o \in {"enable_client", "disable_client"}
  /\ o = "enable_client" => app.status = "active"
  /\ Enter(r, o, c, "readClient")

\* The status an enabling or disabling request is to reach.
Target_Literal(r) == IF req[r].op \in {"enable_client", "enable_app"} THEN "active" ELSE "inactive"
Target(r) == IF req[r].op \in {"enable_client", "enable_app"} THEN "active" ELSE "disabled"

Switched(c, on) == [provider[c] EXCEPT !.state = IF on THEN "active" ELSE "inactive"]

SwitchClient(r) ==
  LET c == req[r].c
  IN /\ At(r, "switch") /\ req[r].op \in {"enable_client", "disable_client"}
     /\ Call(r, c, Switched(c, Target(r) = "active"),
             Goto(r, "setStatus"), Goto(r, "done"), Goto(r, "done"))

SetClientStatus(r) ==
  LET c == req[r].c
  IN /\ At(r, "setStatus")
     /\ Tx(r, Current(r, c),
           /\ client' = [client EXCEPT ![c].version = @ + 1, ![c].status = Target(r)]
           /\ UNCHANGED <<app, op>>,
           Goto(r, "done"), ToTrail(r, {c}, Target(r)))

StartSetStatus(r, o) ==
  /\ AppVisible /\ o \in {"enable_app", "disable_app"} /\ o \in Ops /\ At(r, "idle")
  /\ app.status = IF o = "enable_app" THEN "disabled" ELSE "active"
  /\ req' = [req EXCEPT ![r].op = o, ![r].version = app.version, ![r].pc = "listClients"]
  /\ UNCHANGED <<rows, job, provider, faults>>

\* Enabling skips the clients that are individually disabled.
ListClients(r) ==
  /\ At(r, "listClients")
  /\ req' = [req EXCEPT ![r].seen = client, ![r].pc = "switch",
              ![r].todo = {c \in VisibleClients :
                 client[c].pid /\ (req[r].op = "enable_app" => client[c].status = "active")}]
  /\ UNCHANGED <<rows, job, provider, faults>>

DriftAll(r) ==
  req' = [req EXCEPT ![r].drift = req[r].switched, ![r].switched = {},
                     ![r].desired = Target(r), ![r].pc = "trail"]

Recover_NoRollback(r) ==
  IF req[r].switched = {} \/ req[r].op = "enable_app" THEN Goto(r, "done") ELSE DriftAll(r)

\* On a provider error an enable rolls back the clients it switched, and a
\* disable leaves them off and records them.
Recover(r) ==
  IF req[r].switched = {} THEN Goto(r, "done")
  ELSE IF req[r].op = "enable_app" THEN Goto(r, "rollback")
  ELSE DriftAll(r)

SwitchNext(r) ==
  /\ At(r, "switch") /\ req[r].op \in {"enable_app", "disable_app"}
  /\ \E c \in req[r].todo :
       Call(r, c, Switched(c, Target(r) = "active"),
            req' = [req EXCEPT ![r].todo = @ \ {c}, ![r].switched = @ \cup {c}],
            Recover(r), Recover(r))

SetApplicationStatus(r) ==
  /\ At(r, "switch") /\ req[r].op \in {"enable_app", "disable_app"} /\ req[r].todo = {}
  /\ Tx(r, AppVisible /\ app.version = req[r].version,
        /\ app' = [app EXCEPT !.version = @ + 1, !.status = Target(r)]
        /\ UNCHANGED <<client, op>>,
        Goto(r, "done"),
        IF req[r].switched = {} THEN Goto(r, "done") ELSE DriftAll(r))

RollBack(r) ==
  /\ At(r, "rollback")
  /\ \E c \in req[r].switched :
       LET Trail == req' = [req EXCEPT ![r].switched = @ \ {c}, ![r].drift = {c},
                                       ![r].desired = "disabled", ![r].pc = "trail"]
       IN Call(r, c, Switched(c, FALSE),
               req' = [req EXCEPT ![r].switched = @ \ {c},
                                  ![r].pc = IF req[r].switched = {c} THEN "done" ELSE "rollback"],
               Trail, Trail)

-----------------------------------------------------------------------------
(* Deletion of a client, alone or on the way to deleting the application *)

StartDeleteClient(r, c) ==
  /\ Live(c) /\ At(r, "idle") /\ "delete_client" \in Ops
  /\ req' = [req EXCEPT ![r].op = "delete_client", ![r].todo = {c}, ![r].seen = client,
                        ![r].pc = "arm"]
  /\ UNCHANGED <<rows, job, provider, faults>>

StartDeleteApp(r) ==
  /\ AppVisible /\ At(r, "idle") /\ "delete_app" \in Ops
  /\ req' = [req EXCEPT ![r].op = "delete_app", ![r].version = app.version,
                        ![r].pc = "listLive"]
  /\ UNCHANGED <<rows, job, provider, faults>>

NextDelete(r, todo) ==
  IF todo # {} THEN "arm" ELSE IF req[r].op = "delete_app" THEN "deleteApp" ELSE "done"

ListLiveClients(r) ==
  /\ At(r, "listLive")
  /\ req' = [req EXCEPT ![r].seen = client, ![r].todo = LiveClients,
                        ![r].pc = NextDelete(r, LiveClients)]
  /\ UNCHANGED <<rows, job, provider, faults>>

\* MarkClientDeleting, or MarkClientDeletingRetry for a client that was listed
\* in deleting or delete_failed.
Armable(r, c) ==
  IF req[r].seen[c].prov \in {"deleting", "delete_failed"}
  THEN client[c].prov \in {"deleting", "delete_failed"}
  ELSE client[c].prov \in {"provisioned", "provisioning", "provisioning_failed"}

\* A client listed without a provider application skips the provider.
MarkDeleting(r) ==
  \E c \in req[r].todo :
    /\ At(r, "arm")
    /\ Tx(r, ~client[c].deleted /\ Armable(r, c),
          /\ client' = [client EXCEPT ![c].prov = "deleting"]
          /\ op' = [op EXCEPT ![r][c] = "pending"] /\ UNCHANGED app,
          req' = [req EXCEPT ![r].c = c, ![r].todo = @ \ {c},
                             ![r].pc = IF req[r].seen[c].pid THEN "remove" ELSE "erase"],
          Goto(r, "done"))

RemoveAtProvider(r) ==
  At(r, "remove") /\ Remove(r, req[r].c, Goto(r, "erase"), Goto(r, "markDeleteFailed"))

\* The update does not ask whether the row is deleted already.
CompleteClientDeletion(r) ==
  LET c == req[r].c IN
  /\ At(r, "erase")
  /\ Tx(r, client[c].prov = "deleting",
        /\ client' = [client EXCEPT ![c].deleted = TRUE]
        /\ op' = [op EXCEPT ![r][c] = "succeeded"] /\ UNCHANGED app,
        Goto(r, NextDelete(r, req[r].todo)), Goto(r, "markDeleteFailed"))

Undeleted_Restored(c) == IF client[c].prov = "deleting" THEN "provisioned" ELSE client[c].prov
Undeleted(c) == IF client[c].prov = "deleting" THEN "delete_failed" ELSE client[c].prov

MarkDeleteFailed(r) ==
  LET c == req[r].c IN
  /\ At(r, "markDeleteFailed")
  /\ Attempt(r,
       /\ client' = [client EXCEPT ![c].prov = Undeleted(c)]
       /\ op' = [op EXCEPT ![r][c] = "failed"] /\ UNCHANGED app,
       ToTrail(r, {c}, "any"))

DeleteApplication(r) ==
  /\ At(r, "deleteApp")
  /\ Tx(r, AppVisible /\ app.version = req[r].version /\ LiveClients = {},
        app' = [app EXCEPT !.deleted = TRUE] /\ UNCHANGED <<client, op>>,
        Goto(r, "done"), Goto(r, "done"))

-----------------------------------------------------------------------------
(* Rotation of a client's secret behind the durable gate (ADR-0004 section 6) *)

StartRotate(r, c) ==
  /\ Visible(c) /\ At(r, "idle") /\ "rotate" \in Ops
  /\ req' = [req EXCEPT ![r].op = "rotate", ![r].c = c, ![r].seen = client,
                        ![r].pc = "readApp"]
  /\ UNCHANGED <<rows, job, provider, faults>>

ReadApplication(r) ==
  LET row == req[r].seen[req[r].c] IN
  /\ At(r, "readApp")
  /\ Goto(r, IF AppVisible /\ app.status = "active" /\ row.status = "active" /\ row.pid
             THEN "begin" ELSE "done")
  /\ UNCHANGED <<rows, job, provider, faults>>

GateFree_AnyStatus(r, c) == Visible(c) /\ client[c].version = req[r].seen[c].version
GateFree(r, c) == Current(r, c) /\ client[c].gate = "idle"

BeginSecretRotation(r) ==
  LET c == req[r].c IN
  /\ At(r, "begin")
  /\ Tx(r, GateFree(r, c),
        /\ client' = [client EXCEPT ![c].gate = "in_progress", ![c].gateOp = r,
                                    ![c].version = @ + 1]
        /\ op' = [op EXCEPT ![r][c] = "pending"] /\ UNCHANGED app,
        Goto(r, "rotateCall"), Goto(r, "done"))

RotateAtProvider(r) ==
  LET c == req[r].c
  IN At(r, "rotateCall") /\ Call(r, c, [provider[c] EXCEPT !.secret = r],
                                 Goto(r, "saveSecret"), Goto(r, "abort"), Goto(r, "park"))

Holds(r, c) == client[c].gate = "in_progress" /\ client[c].gateOp = r

CompleteSecretRotation(r) ==
  LET c == req[r].c IN
  /\ At(r, "saveSecret")
  /\ Tx(r, ~client[c].deleted /\ Holds(r, c),
        /\ client' = [client EXCEPT ![c].gate = "idle", ![c].gateOp = "none",
                                    ![c].version = @ + 1, ![c].secret = r]
        /\ op' = [op EXCEPT ![r][c] = "succeeded"] /\ UNCHANGED app,
        Goto(r, "done"), Goto(r, "park"))

Released_Never(r, c) == client[c]
Released(r, c) ==
  IF Holds(r, c) THEN [client[c] EXCEPT !.gate = "idle", !.gateOp = "none"] ELSE client[c]

AbortSecretRotation(r) ==
  LET c == req[r].c IN
  /\ At(r, "abort")
  /\ Attempt(r,
       /\ client' = [client EXCEPT ![c] = Released(r, c)]
       /\ op' = [op EXCEPT ![r][c] = "failed"] /\ UNCHANGED app,
       Goto(r, "done"))

FailSecretRotationUnknown(r) ==
  LET c == req[r].c IN
  /\ At(r, "park")
  /\ Attempt(r,
       /\ client' = IF Holds(r, c) THEN [client EXCEPT ![c].gate = "outcome_unknown"] ELSE client
       /\ op' = [op EXCEPT ![r][c] = "failed"] /\ UNCHANGED app,
       ToTrail(r, {c}, "any"))

-----------------------------------------------------------------------------
(* Specification *)

\* One definition per operation of the service: the steps it takes.
Creating(r) ==
  \/ StartCreateApp(r) \/ CreateApplicationWithInitialClient(r)
  \/ ProvisionClient(r) \/ MarkProvisioningFailed(r) \/ CompleteProvisioning(r)
  \/ CompensateProvision(r)

AddingClient(r) ==
  \/ \E c \in Clients : StartCreateClient(r, c)
  \/ CreateClientWithOperation(r)

UpdatingApplication(r) == StartUpdateApp(r) \/ UpdateApplication(r)

UpdatingClient(r) ==
  \/ \E c \in Clients, o \in {"update_client", "update_scopes"} : StartUpdateClient(r, c, o)
  \/ ReadClient(r) \/ SyncClient(r) \/ UpdateClientConfig(r)

SwitchingClient(r) ==
  \/ \E c \in Clients, o \in {"enable_client", "disable_client"} : StartSetClientStatus(r, c, o)
  \/ SwitchClient(r) \/ SetClientStatus(r)

SwitchingApplication(r) ==
  \/ \E o \in {"enable_app", "disable_app"} : StartSetStatus(r, o)
  \/ ListClients(r) \/ SwitchNext(r) \/ SetApplicationStatus(r) \/ RollBack(r)

DeletingClient(r) ==
  \/ \E c \in Clients : StartDeleteClient(r, c)
  \/ MarkDeleting(r) \/ RemoveAtProvider(r) \/ CompleteClientDeletion(r) \/ MarkDeleteFailed(r)

DeletingApplication(r) == StartDeleteApp(r) \/ ListLiveClients(r) \/ DeleteApplication(r)

RotatingSecret(r) ==
  \/ \E c \in Clients : StartRotate(r, c)
  \/ ReadApplication(r) \/ BeginSecretRotation(r) \/ RotateAtProvider(r)
  \/ CompleteSecretRotation(r) \/ AbortSecretRotation(r) \/ FailSecretRotationUnknown(r)

Next ==
  \E r \in Requests :
    \/ Creating(r) \/ AddingClient(r) \/ UpdatingApplication(r) \/ UpdatingClient(r)
    \/ SwitchingClient(r) \/ SwitchingApplication(r)
    \/ DeletingClient(r) \/ DeletingApplication(r) \/ RotatingSecret(r)
    \/ RecordTrail(r) \/ Crash(r)

Spec == Init /\ [][Next]_vars

-----------------------------------------------------------------------------
(* Properties *)

Hit(kinds)   == \E r \in Requests, k \in kinds : <<r, k>> \in faults
Quiet        == \A r \in Requests : ~Running(r)
Flagged(c)   == client[c].flagged \/ \E d \in Statuses \cup {"any"} : <<c, d>> \in job

\* RotateClientSecret: while the gate is idle, the newest local secret record
\* is the secret the provider honours, whatever failed, crashed or answered
\* late: an unconfirmed rotation never leaves the gate open.
SecretKnown ==
  \A c \in Clients : Visible(c) /\ client[c].gate = "idle" /\ Exists(c)
                       => provider[c].secret = client[c].secret

\* A live provider application that no live row owns.
Orphan(c) == Exists(c) /\ ~(Live(c) /\ client[c].pid)

Trace(c) == Flagged(c) \/ \E r \in Requests : op[r][c] \in {"pending", "unknown"}

\* A deletion whose listing saw no provider application for the client.
DeletedBlind(c) ==
  \E r \in Requests : /\ req[r].op \in {"delete_app", "delete_client"}
                      /\ op[r][c] # "none" /\ ~req[r].seen[c].pid

\* recordAmbiguousProvision and compensateProvision: a potential orphan at the
\* provider is never leaked silently: a job, a flag or an unsettled operation
\* names it.
NoSilentLeak == \A c \in Clients : Orphan(c) => Trace(c)

\* The same, but for a client provisioned while a deletion had listed it as
\* not yet having a provider application.
LeakLeavesTrace == \A c \in Clients : Orphan(c) => Trace(c) \/ DeletedBlind(c)

\* CompleteProvisioning and compensateProvision: a visible client has its
\* application at the provider, unless a commit was reported as failed.
ProvisionedIsReal ==
  \A c \in Clients : Visible(c) => Exists(c) \/ Hit({"commit"})

\* UpdateClient: once requests are over, redirect URIs at the provider that
\* differ from the local ones are flagged, however updates interleave.
DriftFlagged ==
  Quiet => \A c \in Clients :
    Visible(c) /\ Exists(c) /\ provider[c].config # client[c].config
      => Flagged(c) \/ Hit({"lost", "crash", "store", "commit"})

\* recoverPartialStatusSwitch: when only an enable ran and it failed on the
\* way, each client is off at the provider or a job asks to switch it off.
PartialEnableUndone ==
  \A r \in Requests :
    /\ Quiet /\ req[r].op = "enable_app" /\ app.status = "disabled"
    /\ \A q \in Requests \ {r} : req[q].op = "none"
    => \/ Hit({"lost", "crash", "store", "commit"})
       \/ \A c \in Clients : provider[c].state # "active" \/ <<c, "disabled">> \in job

\* RotateClientSecret and deleteClient settle: once requests are over, no
\* rotation is left in progress and no client in deleting, unless a handler
\* crashed or its own writes failed.
Settled ==
  Quiet /\ ~Hit({"crash", "store", "commit"}) =>
    \A c \in Clients : /\ client[c].gate # "in_progress"
                       /\ client[c].prov # "deleting" \/ client[c].deleted

=============================================================================
