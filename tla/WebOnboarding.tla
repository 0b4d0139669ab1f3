--------------------------- MODULE WebOnboarding ---------------------------
(***************************************************************************)
(* Trusted web hosts set up encrypted sync against one relay               *)
(* (pergamon-server/src/onboarding.rs).  A host has a database, an         *)
(* encrypted key file, a sync worker and at most one command running: the  *)
(* lock of Runtime spans the command, so a command is a sequence of steps  *)
(* (cmd[h].pc), one per durable write or relay call, between which other   *)
(* hosts act, the step fails, or the host crashes.                         *)
(*                                                                         *)
(* An operator submits the forms that templates/sync.html shows for the    *)
(* phase; a form of an older revision is refused, so the revision itself   *)
(* is left out, and so are the SAS digits: operators compare them honestly.*)
(* Content ids and root keys are numbers in the order in which they were   *)
(* generated.  A host is its own device handle, an identity its own auth   *)
(* tenant, and a recovery code is named by the host that generated it.     *)
(* Forms may be submitted any number of times.                             *)
(***************************************************************************)
EXTENDS Naturals, Sequences, SequencesExt, FiniteSets

CONSTANTS
  Host,      \* web hosts, and their device handles
  Identity,  \* relay identities, and their auth tenants
  Logins,    \* the identities that the operator of a host has a password for
  Writers,   \* hosts whose owner saves items to the library
  Legacies,  \* which sets of hosts may hold keys from before they met this relay
  MaxId,     \* content ids and root keys that may be generated
  MaxFaults  \* crashes, failed steps and failed workers

ASSUME OnboardingAssumption ==
  /\ IsFiniteSet(Host) /\ IsFiniteSet(Identity) /\ "nobody" \notin Host \cup Identity
  /\ Logins \in [Host -> SUBSET Identity]
  /\ Writers \subseteq Host
  /\ Legacies # {} /\ Legacies \subseteq SUBSET Host
  /\ MaxId \in Nat \ {0} /\ MaxFaults \in Nat

None == 0  \* no content id, no root key
Id == 1..MaxId
Nobody == "nobody"
NoSession == [tenant |-> Nobody, content |-> None]
NoBlob == [code |-> Nobody, ark |-> None]
Blob == [code : Host \cup {Nobody}, ark : Id \cup {None}]
Flow == {"create", "attach", "join"}

VARIABLES
  setup,    \* web_sync_setup: flow, phase, recovery_ack, approver
  binding,  \* remote_account_binding: state, flow, content, tenant
  local,    \* sync_state.account_id, needs_login, whether the library has items
  keys,     \* key file: device keys, ark, id, session, recovery capture, approvals
  cmd,      \* the running command and its locals
  proc,     \* Runtime: unlocked store, live worker thread; the worker state shown
  relay,    \* bound identities; roster, attestations, wraps, recovery blob and
            \* first event of every content account
  minted,   \* content ids and root keys generated so far
  faults    \* crashes and failures so far

vars == <<setup, binding, local, keys, cmd, proc, relay, minted, faults>>

Idle == [pc |-> "idle", op |-> "none", identity |-> Nobody, session |-> NoSession,
         ark |-> None, remote |-> NoBlob, device |-> Nobody]

(***************************************************************************)
(* The guards of account_flow.rs over what local_state observes.  The      *)
(* create form has the owner confirm, so content alone never refuses it.   *)
(***************************************************************************)
BelongsToAccount(h) == keys[h].ark # None \/ local[h].account # None

GuardCreateNew(h) == ~BelongsToAccount(h)

GuardAttachExisting(h) == keys[h].ark # None /\ keys[h].device

GuardJoinNewDevice(h, pending) ==
  /\ ~local[h].items
  /\ local[h].account = None
  /\ pending \/ (keys[h].ark = None /\ keys[h].id = None)

Pending(h, flow) == binding[h].state = "pending" /\ binding[h].flow = flow

\* The local refusals of authenticate.
FlowAdmits(h) ==
  CASE setup[h].flow = "create" ->
         IF Pending(h, "create")
         THEN keys[h].ark # None /\ keys[h].id # None /\ keys[h].device
         ELSE GuardCreateNew(h)
    [] setup[h].flow = "attach" -> GuardAttachExisting(h)
    [] setup[h].flow = "join" -> GuardJoinNewDevice(h, Pending(h, "join"))
    [] OTHER -> FALSE

(***************************************************************************)
(* The authority checks that several commands share.                       *)
(***************************************************************************)
Content(h) == binding[h].content

HasMaterial(h) == keys[h].device /\ keys[h].ark # None /\ keys[h].id # None

\* provider: the stored session is content authority for this very binding.
HasProvider(h) ==
  /\ keys[h].device
  /\ binding[h].state # "none"
  /\ keys[h].session = [tenant |-> binding[h].tenant, content |-> Content(h)]
  /\ keys[h].id = Content(h)

\* begin_remote_binding keeps a matching intent and refuses any other.
IntentAdmits(h, c) ==
  /\ local[h].account \in {None, c}
  /\ binding[h].state # "none" =>
       /\ Content(h) = c
       /\ binding[h].state = "pending" => binding[h].flow = setup[h].flow

BeginRemoteBinding(h, c) ==
  IF binding[h].state # "none" THEN binding
  ELSE [binding EXCEPT ![h] = [state |-> "pending", flow |-> setup[h].flow,
                               content |-> c, tenant |-> Nobody]]

\* identify_remote_binding
Identify(h, tenant) ==
  /\ binding[h].tenant \in {Nobody, tenant}
  /\ binding' = [binding EXCEPT ![h].tenant = tenant]

\* verify_existing_content: the first event is signed by a listed device and
\* opens under this root key.
HistoryOpens(c, ark) ==
  relay.events[c] # <<>> => relay.events[c][1] = ark /\ relay.events[c][2] \in relay.roster[c]

\* Nothing was ever stored under a namespace that is allocated for the first time.
NamespaceUnused(c) ==
  /\ \A i \in Identity : relay.bound[i] # c
  /\ relay.roster[c] = {} /\ relay.recovery[c] = NoBlob /\ relay.events[c] = <<>>

\* New content is not synced before its recovery code was acknowledged.
Captured(h) == setup[h].flow = "create" => setup[h].ack

(***************************************************************************)
(* Small steps.                                                            *)
(***************************************************************************)
At(h, pc) == cmd[h].pc = pc
Goto(h, pc) == cmd' = [cmd EXCEPT ![h].pc = pc]
Done(h) == cmd' = [cmd EXCEPT ![h] = Idle]
Begin(h, op, pc, i) == cmd' = [cmd EXCEPT ![h] = [Idle EXCEPT !.op = op, !.pc = pc, !.identity = i]]

\* The page of an unlocked host with no command running, in one of these phases.
Page(h, phases) == At(h, "idle") /\ proc[h].unlocked /\ setup[h].phase \in phases

Progress(h, phase) == setup' = [setup EXCEPT ![h].phase = phase]

\* stop joins the worker, whose last event reports that it stopped.
StopWorker(h) == proc' = [proc EXCEPT ![h].worker = FALSE, ![h].shown = FALSE]

(***************************************************************************)
(* Forms.  A form that is refused after it stopped the worker is a Pause.  *)
(***************************************************************************)
Unlock(h) ==
  /\ At(h, "idle") /\ ~proc[h].unlocked
  /\ proc' = [proc EXCEPT ![h] = [unlocked |-> TRUE, worker |-> FALSE, shown |-> FALSE]]
  /\ IF binding[h].state = "active" THEN Begin(h, "start", "start", Nobody) ELSE UNCHANGED cmd
  /\ UNCHANGED <<setup, binding, local, keys, relay, minted, faults>>

Select(h, flow) ==
  /\ Page(h, {""})
  /\ binding[h].state = "pending" => binding[h].flow = flow
  /\ setup' = [setup EXCEPT ![h].flow = flow, ![h].phase = "credentials"]
  /\ UNCHANGED <<binding, local, keys, cmd, proc, relay, minted, faults>>

\* Mutant: creation that is taken up again generates its account anew.
CreatedMaterialAnew(h) ==
  [keys[h] EXCEPT !.device = TRUE, !.ark = minted + 1, !.id = minted + 1]

\* The account material that create finds or generates, and the device keys
\* that join generates, are saved before anything else happens.
CreatedMaterial(h) ==
  [keys[h] EXCEPT !.device = TRUE,
                  !.ark = IF @ = None THEN minted + 1 ELSE @,
                  !.id = IF @ = None THEN minted + 1 ELSE @]

\* The credentials form is also shown whenever a pending binding needs a login.
Authenticate(h, i) ==
  /\ At(h, "idle") /\ proc[h].unlocked
  /\ \/ setup[h].phase \in {"credentials", "authenticating"}
     \/ local[h].needs_login /\ binding[h].state = "pending"
  /\ FlowAdmits(h)
  /\ StopWorker(h)
  /\ CASE setup[h].flow = "create" -> keys' = [keys EXCEPT ![h] = CreatedMaterial(h)]
       [] setup[h].flow = "join" -> keys' = [keys EXCEPT ![h].device = TRUE]
       [] OTHER -> UNCHANGED keys
  /\ minted' = IF setup[h].flow = "create" /\ ~HasMaterial(h) THEN minted + 1 ELSE minted
  /\ minted' <= MaxId
  /\ Begin(h, "authenticate", "authenticating", i)
  /\ UNCHANGED <<setup, binding, local, relay, faults>>

\* Mutant: the phase is not checked, so that an unpublished code can be acknowledged.
AcknowledgeEarly(h) ==
  /\ At(h, "idle") /\ proc[h].unlocked
  /\ ~setup[h].ack /\ HasMaterial(h) /\ keys[h].capture # NoBlob
  /\ setup' = [setup EXCEPT ![h].ack = TRUE, ![h].phase = "ready"]
  /\ Begin(h, "start", "forget", Nobody)
  /\ UNCHANGED <<binding, local, keys, proc, relay, minted, faults>>

Acknowledge(h) ==
  /\ Page(h, {"recovery"})
  /\ ~setup[h].ack /\ HasMaterial(h) /\ keys[h].capture # NoBlob
  /\ setup' = [setup EXCEPT ![h].ack = TRUE, ![h].phase = "ready"]
  /\ Begin(h, "start", "forget", Nobody)
  /\ UNCHANGED <<binding, local, keys, proc, relay, minted, faults>>

RemoveBootstrapRecovery(h) == [keys EXCEPT ![h].capture = NoBlob]

Forget(h) ==
  /\ At(h, "forget")
  /\ keys' = RemoveBootstrapRecovery(h)
  /\ Goto(h, "activate")
  /\ UNCHANGED <<setup, binding, local, proc, relay, minted, faults>>

Restart(h) ==
  /\ Page(h, {"ready", "active"})
  /\ StopWorker(h)
  /\ Begin(h, "start", "activate", Nobody)
  /\ UNCHANGED <<setup, binding, local, keys, relay, minted, faults>>

\* The page asks to sign in again.
Renew(h, i) ==
  /\ Page(h, {"ready", "active"}) /\ local[h].needs_login
  /\ binding[h].state = "active" \/ binding[h].flow = "attach"
  /\ HasMaterial(h) /\ keys[h].id = Content(h)
  /\ StopWorker(h)
  /\ Begin(h, "renew", "login", i)
  /\ UNCHANGED <<setup, binding, local, keys, relay, minted, faults>>

Pause(h) ==
  /\ At(h, "idle") /\ proc[h].unlocked
  /\ StopWorker(h)
  /\ UNCHANGED <<setup, binding, local, keys, cmd, relay, minted, faults>>

\* The operator has the code of the relay's blob, or an exported key package
\* of a host that already holds this content.
Recover(h, ark) ==
  /\ Page(h, {"keys", "enrollment"}) /\ setup[h].flow = "join"
  /\ HasProvider(h)
  /\ \/ relay.recovery[Content(h)].ark = ark
     \/ \E g \in Host : binding[g].state = "active" /\ Content(g) = Content(h) /\ keys[g].ark = ark
  /\ cmd' = [cmd EXCEPT ![h] = [Idle EXCEPT !.op = "recover", !.pc = "keys", !.ark = ark]]
  /\ UNCHANGED <<setup, binding, local, keys, proc, relay, minted, faults>>

\* The record is published even when the approver turns out to be unknown.
Enroll(h, peer) ==
  /\ Page(h, {"keys", "enrollment"}) /\ setup[h].flow = "join"
  /\ HasProvider(h)
  /\ relay' = [relay EXCEPT !.roster[Content(h)] = @ \cup {h}]
  /\ IF peer \in relay'.roster[Content(h)]
     THEN cmd' = [cmd EXCEPT ![h] = [Idle EXCEPT !.op = "enroll", !.pc = "enrolled",
                                                 !.device = peer]]
     ELSE UNCHANGED cmd
  /\ UNCHANGED <<setup, binding, local, keys, proc, minted, faults>>

Enrolled(h) ==
  /\ At(h, "enrolled")
  /\ setup' = [setup EXCEPT ![h].approver = cmd[h].device, ![h].phase = "enrollment"]
  /\ Done(h)
  /\ UNCHANGED <<binding, local, keys, proc, relay, minted, faults>>

\* The first wrap for this device, vouched for by the first truster on record.
Accept(h) ==
  LET c == Content(h)
      wraps == {k \in DOMAIN relay.wraps[c] : relay.wraps[c][k].to = h}
      trusts == {k \in DOMAIN relay.trust[c] : relay.trust[c][k][2] = h}
  IN /\ Page(h, {"enrollment"}) /\ setup[h].flow = "join"
     /\ HasProvider(h)
     /\ setup[h].approver \in relay.roster[c]
     /\ wraps # {} /\ trusts # {}
     /\ relay.trust[c][Min(trusts)][1] = setup[h].approver
     /\ cmd' = [cmd EXCEPT ![h] = [Idle EXCEPT !.op = "accept", !.pc = "keys",
                                               !.ark = relay.wraps[c][Min(wraps)].ark]]
     /\ UNCHANGED <<setup, binding, local, keys, proc, relay, minted, faults>>

\* The new device shows the SAS to compare while it waits for approval.  The
\* sealed bundle is saved before it is published, so a retry sends the same.
Approve(h, d) ==
  /\ Page(h, {"ready", "active"}) /\ binding[h].state = "active"
  /\ HasMaterial(h) /\ HasProvider(h)
  /\ d # h /\ d \in relay.roster[Content(h)] /\ setup[d].phase = "enrollment"
  /\ keys' = [keys EXCEPT ![h].approvals = @ \cup {d}]
  /\ cmd' = [cmd EXCEPT ![h] = [Idle EXCEPT !.op = "approve", !.pc = "wrap", !.device = d]]
  /\ UNCHANGED <<setup, binding, local, proc, relay, minted, faults>>

\* Mutant: the bundle is sent without looking for it on the relay.
WrapAgain(h) ==
  LET w == [from |-> h, to |-> cmd[h].device, ark |-> keys[h].ark]
  IN /\ At(h, "wrap")
     /\ relay' = [relay EXCEPT !.wraps[Content(h)] = Append(@, w)]
     /\ Goto(h, "attest")
     /\ UNCHANGED <<setup, binding, local, keys, proc, minted, faults>>

Wrap(h) ==
  LET w == [from |-> h, to |-> cmd[h].device, ark |-> keys[h].ark]
  IN /\ At(h, "wrap")
     /\ relay' = IF Contains(relay.wraps[Content(h)], w) THEN relay
                 ELSE [relay EXCEPT !.wraps[Content(h)] = Append(@, w)]
     /\ Goto(h, "attest")
     /\ UNCHANGED <<setup, binding, local, keys, proc, minted, faults>>

\* attestation_append, unless this very attestation is already on record.
AttestTrust(h, d) ==
  IF Contains(relay.trust[Content(h)], <<h, d>>) THEN relay
  ELSE [relay EXCEPT !.trust[Content(h)] = Append(@, <<h, d>>)]

Attest(h) ==
  /\ At(h, "attest")
  /\ relay' = AttestTrust(h, cmd[h].device)
  /\ Done(h)
  /\ UNCHANGED <<setup, binding, local, keys, proc, minted, faults>>

(***************************************************************************)
(* The steps of authenticate and renew.                                    *)
(***************************************************************************)
Authenticating(h) ==
  /\ At(h, "authenticating")
  /\ Progress(h, "authenticating")
  /\ Goto(h, IF setup[h].flow = "join" THEN "login"
             ELSE IF keys[h].id = None THEN "canonical" ELSE "intent")
  /\ UNCHANGED <<binding, local, keys, proc, relay, minted, faults>>

\* An account from before content ids existed is given one.
CanonicalId(h) ==
  /\ At(h, "canonical")
  /\ keys[h].session = NoSession /\ binding[h].state = "none"
  /\ minted < MaxId
  /\ minted' = minted + 1
  /\ keys' = [keys EXCEPT ![h].id = minted + 1]
  /\ Goto(h, "intent")
  /\ UNCHANGED <<setup, binding, local, proc, relay, faults>>

Intent(h) ==
  /\ At(h, "intent")
  /\ IntentAdmits(h, keys[h].id)
  /\ binding' = BeginRemoteBinding(h, keys[h].id)
  /\ Goto(h, "login")
  /\ UNCHANGED <<setup, local, keys, proc, relay, minted, faults>>

\* The session captures what the identity is bound to now; binding_status
\* confirms it.  The identity was registered before or is registered here.
LoginDevice(h) == [tenant |-> cmd[h].identity, content |-> relay.bound[cmd[h].identity]]

Login(h) ==
  LET s == LoginDevice(h)
  IN /\ At(h, "login") /\ cmd[h].op = "authenticate" /\ setup[h].flow # "join"
     /\ s.content \in {None, Content(h)}
     /\ Identify(h, s.tenant)
     /\ cmd' = [cmd EXCEPT ![h].session = s, ![h].pc = "bind"]
     /\ UNCHANGED <<setup, local, keys, proc, relay, minted, faults>>

\* An identity that is bound to no content cannot be joined.
LoginToJoin(h) ==
  LET s == LoginDevice(h)
  IN /\ At(h, "login") /\ cmd[h].op = "authenticate" /\ setup[h].flow = "join"
     /\ s.content # None
     /\ IntentAdmits(h, s.content)
     /\ binding' = BeginRemoteBinding(h, s.content)
     /\ cmd' = [cmd EXCEPT ![h].session = s, ![h].pc = "identify"]
     /\ UNCHANGED <<setup, local, keys, proc, relay, minted, faults>>

LoginToRenew(h) ==
  LET s == LoginDevice(h)
  IN /\ At(h, "login") /\ cmd[h].op = "renew"
     /\ s = [tenant |-> binding[h].tenant, content |-> Content(h)]
     /\ HistoryOpens(Content(h), keys[h].ark)
     /\ cmd' = [cmd EXCEPT ![h].session = s, ![h].pc = "session"]
     /\ UNCHANGED <<setup, binding, local, keys, proc, relay, minted, faults>>

IdentifyJoin(h) ==
  /\ At(h, "identify")
  /\ Identify(h, cmd[h].session.tenant)
  /\ Goto(h, "accountId")
  /\ UNCHANGED <<setup, local, keys, proc, relay, minted, faults>>

AccountId(h) ==
  /\ At(h, "accountId")
  /\ keys' = [keys EXCEPT ![h].id = cmd[h].session.content]
  /\ Goto(h, "session")
  /\ UNCHANGED <<setup, binding, local, proc, relay, minted, faults>>

\* Mutant: the binding read at login is trusted and replaced.
BindStale(h) ==
  LET s == cmd[h].session
  IN /\ At(h, "bind")
     /\ s.content \in {None, Content(h)}
     /\ relay' = [relay EXCEPT !.bound[s.tenant] = Content(h)]
     /\ Goto(h, "relogin")
     /\ UNCHANGED <<setup, binding, local, keys, proc, minted, faults>>

\* bind_empty_namespace: the binding must still be the one the session saw.
Bind(h) ==
  LET s == cmd[h].session
  IN /\ At(h, "bind")
     /\ relay.bound[s.tenant] = s.content
     /\ s.content = Content(h) \/ (s.content = None /\ NamespaceUnused(Content(h)))
     /\ relay' = [relay EXCEPT !.bound[s.tenant] = Content(h)]
     /\ Goto(h, "relogin")
     /\ UNCHANGED <<setup, binding, local, keys, proc, minted, faults>>

\* The second login has content scope, and history is verified before adoption.
Relogin(h) ==
  /\ At(h, "relogin")
  /\ LoginDevice(h).content = Content(h)
  /\ HistoryOpens(Content(h), keys[h].ark)
  /\ cmd' = [cmd EXCEPT ![h].session = LoginDevice(h), ![h].pc = "session"]
  /\ UNCHANGED <<setup, binding, local, keys, proc, relay, minted, faults>>

SaveSession(h) ==
  /\ At(h, "session")
  /\ keys' = [keys EXCEPT ![h].session = cmd[h].session]
  /\ Begin(h, cmd[h].op, "cleared", Nobody)
  /\ UNCHANGED <<setup, binding, local, proc, relay, minted, faults>>

ClearNeedsLogin(h) ==
  /\ At(h, "cleared")
  /\ local' = [local EXCEPT ![h].needs_login = FALSE]
  /\ HasProvider(h)
  /\ CASE cmd[h].op = "renew" -> Goto(h, "ready") /\ UNCHANGED setup
       [] cmd[h].op # "renew" /\ setup[h].flow = "join" -> Progress(h, "keys") /\ Done(h)
       [] OTHER -> Goto(h, "device") /\ UNCHANGED setup
  /\ UNCHANGED <<binding, keys, proc, relay, minted, faults>>

(***************************************************************************)
(* ensure_device and prepare_recovery.                                     *)
(***************************************************************************)
EnsureDevice(h) ==
  /\ At(h, "device")
  /\ relay' = [relay EXCEPT !.roster[Content(h)] = @ \cup {h}]
  /\ Goto(h, IF cmd[h].op = "accept" THEN "ready" ELSE "root")
  /\ UNCHANGED <<setup, binding, local, keys, proc, minted, faults>>

EnsureRoot(h) ==
  /\ At(h, "root")
  /\ relay' = AttestTrust(h, h)
  /\ Goto(h, IF cmd[h].op = "recover" THEN "ready" ELSE "recovery")
  /\ UNCHANGED <<setup, binding, local, keys, proc, minted, faults>>

\* Recovery that is already on the relay is kept when it was acknowledged
\* here, or by the devices an attached account already has.
KeepRecovery(h) ==
  /\ At(h, "recovery")
  /\ relay.recovery[Content(h)] # NoBlob
  /\ setup[h].ack \/ (keys[h].capture = NoBlob /\ setup[h].flow = "attach")
  /\ Progress(h, "ready")
  /\ Done(h)
  /\ UNCHANGED <<binding, local, keys, proc, relay, minted, faults>>

\* Otherwise the saved capture is published again, or a new one is saved.
PrepareRecovery(h) ==
  LET remote == relay.recovery[Content(h)]
  IN /\ At(h, "recovery")
     /\ ~setup[h].ack
     /\ keys[h].capture # NoBlob \/ remote = NoBlob
     /\ keys' = [keys EXCEPT ![h].capture =
                   IF @ # NoBlob THEN @ ELSE [code |-> h, ark |-> keys[h].ark]]
     /\ cmd' = [cmd EXCEPT ![h].remote = remote, ![h].pc = "publish"]
     /\ UNCHANGED <<setup, binding, local, proc, relay, minted, faults>>

\* recovery_put replaces whatever the relay has by now.
PublishRecovery(h) ==
  /\ At(h, "publish")
  /\ cmd[h].remote \in {NoBlob, keys[h].capture}
  /\ relay' = [relay EXCEPT !.recovery[Content(h)] = keys[h].capture]
  /\ Begin(h, "authenticate", "published", Nobody)
  /\ UNCHANGED <<setup, binding, local, keys, proc, minted, faults>>

RecoveryPublished(h) ==
  /\ At(h, "published")
  /\ relay.recovery[Content(h)] = keys[h].capture
  /\ Progress(h, "recovery")
  /\ Done(h)
  /\ UNCHANGED <<binding, local, keys, proc, relay, minted, faults>>

(***************************************************************************)
(* adopt_join_keys, activate and start.                                    *)
(***************************************************************************)
AdoptJoinKeys(h) ==
  /\ At(h, "keys")
  /\ GuardJoinNewDevice(h, TRUE)
  /\ HistoryOpens(Content(h), cmd[h].ark)
  /\ keys[h].ark \in {None, cmd[h].ark} /\ keys[h].id \in {None, Content(h)}
  /\ keys' = [keys EXCEPT ![h].ark = cmd[h].ark, ![h].id = Content(h)]
  /\ Begin(h, cmd[h].op, "device", Nobody)
  /\ UNCHANGED <<setup, binding, local, proc, relay, minted, faults>>

Ready(h) ==
  /\ At(h, "ready")
  /\ Progress(h, "ready")
  /\ Begin(h, "start", "activate", Nobody)
  /\ UNCHANGED <<binding, local, keys, proc, relay, minted, faults>>

Activate(h) ==
  /\ At(h, "activate")
  /\ ~local[h].needs_login
  /\ setup[h].phase \in {"ready", "active"} /\ Captured(h)
  /\ HasMaterial(h) /\ keys[h].id = Content(h) /\ HasProvider(h)
  /\ keys' = IF setup[h].ack THEN RemoveBootstrapRecovery(h) ELSE keys
  /\ Goto(h, "adopt")
  /\ UNCHANGED <<setup, binding, local, proc, relay, minted, faults>>

ActivateRemoteBinding(h) ==
  /\ At(h, "adopt")
  /\ local[h].account \in {None, Content(h)}
  /\ local' = [local EXCEPT ![h].account = Content(h)]
  /\ binding' = [binding EXCEPT ![h].state = "active"]
  /\ Goto(h, "active")
  /\ UNCHANGED <<setup, keys, proc, relay, minted, faults>>

Activated(h) ==
  /\ At(h, "active")
  /\ Progress(h, "active")
  /\ Goto(h, "start")
  /\ UNCHANGED <<binding, local, keys, proc, relay, minted, faults>>

\* The worker is shown as running before its thread exists.
Start(h) ==
  /\ At(h, "start")
  /\ ~local[h].needs_login /\ Captured(h)
  /\ HasMaterial(h) /\ HasProvider(h)
  /\ proc' = [proc EXCEPT ![h].worker = FALSE, ![h].shown = TRUE]
  /\ Goto(h, "spawn")
  /\ UNCHANGED <<setup, binding, local, keys, relay, minted, faults>>

Spawn(h) ==
  /\ At(h, "spawn")
  /\ binding[h].state = "active" /\ keys[h].id = Content(h) /\ local[h].account = Content(h)
  /\ proc' = [proc EXCEPT ![h].worker = TRUE]
  /\ Done(h)
  /\ UNCHANGED <<setup, binding, local, keys, relay, minted, faults>>

Step(h) ==
  \/ Authenticating(h) \/ CanonicalId(h) \/ Intent(h) \/ Login(h) \/ LoginToJoin(h)
  \/ LoginToRenew(h) \/ IdentifyJoin(h) \/ AccountId(h) \/ Bind(h) \/ Relogin(h)
  \/ SaveSession(h) \/ ClearNeedsLogin(h) \/ EnsureDevice(h)
  \/ EnsureRoot(h) \/ KeepRecovery(h) \/ PrepareRecovery(h) \/ PublishRecovery(h)
  \/ RecoveryPublished(h) \/ AdoptJoinKeys(h) \/ Ready(h) \/ Activate(h) \/ Forget(h)
  \/ ActivateRemoteBinding(h) \/ Activated(h) \/ Start(h) \/ Spawn(h) \/ Enrolled(h)
  \/ Wrap(h) \/ Attest(h)

(***************************************************************************)
(* What else happens to a host.                                            *)
(***************************************************************************)
\* Mutant: a worker that could not be spawned stays announced.
AbandonAnnounced(h) ==
  /\ ~At(h, "idle")
  /\ Done(h)
  /\ UNCHANGED <<setup, binding, keys, proc, relay, minted>>

\* The command ends in an error; a worker that was only announced is taken back.
Abandon(h) ==
  /\ ~At(h, "idle")
  /\ Done(h)
  /\ proc' = [proc EXCEPT ![h].shown = @ /\ ~At(h, "spawn")]
  /\ UNCHANGED <<setup, binding, keys, relay, minted>>

\* A condition of the next step does not hold.
Refuse(h) ==
  /\ ~ENABLED Step(h)
  /\ Abandon(h)
  /\ UNCHANGED <<local, faults>>

\* A write or a relay call fails, or the relay refuses the stored session, which
\* latches the need to log in.
Fail(h, login) ==
  /\ faults < MaxFaults
  /\ faults' = faults + 1
  /\ login => keys[h].session # NoSession
  /\ local' = [local EXCEPT ![h].needs_login = @ \/ login]
  /\ Abandon(h)

Crash(h) ==
  /\ proc[h].unlocked
  /\ faults < MaxFaults
  /\ faults' = faults + 1
  /\ proc' = [proc EXCEPT ![h] = [unlocked |-> FALSE, worker |-> FALSE, shown |-> FALSE]]
  /\ Done(h)
  /\ UNCHANGED <<setup, binding, local, keys, relay, minted>>

\* The worker ends on an error that is not retried, and says so.
WorkerFails(h, login) ==
  /\ proc[h].worker
  /\ faults < MaxFaults
  /\ faults' = faults + 1
  /\ proc' = [proc EXCEPT ![h].worker = FALSE, ![h].shown = FALSE]
  /\ local' = [local EXCEPT ![h].needs_login = @ \/ login]
  /\ UNCHANGED <<setup, binding, keys, cmd, relay, minted>>

\* A round pushes the baseline of a library that has items, or pulls some.
WorkerSyncs(h) ==
  LET c == Content(h)
  IN /\ proc[h].worker
     /\ relay' = IF local[h].items /\ relay.events[c] = <<>>
                 THEN [relay EXCEPT !.events[c] = <<keys[h].ark, h>>]
                 ELSE relay
     /\ local' = [local EXCEPT ![h].items = @ \/ relay.events[c] # <<>>]
     /\ UNCHANGED <<setup, binding, keys, cmd, proc, minted, faults>>

SaveItem(h) ==
  /\ h \in Writers
  /\ ~local[h].items
  /\ local' = [local EXCEPT ![h].items = TRUE]
  /\ UNCHANGED <<setup, binding, keys, cmd, proc, relay, minted, faults>>

Init ==
  /\ setup = [h \in Host |-> [flow |-> "none", phase |-> "", ack |-> FALSE, approver |-> Nobody]]
  /\ binding = [h \in Host |-> [state |-> "none", flow |-> "none", content |-> None,
                                tenant |-> Nobody]]
  /\ local = [h \in Host |-> [account |-> None, needs_login |-> FALSE, items |-> FALSE]]
  /\ \E legacy \in Legacies, id \in {None, 1} :
       /\ minted = IF legacy = {} THEN 0 ELSE 1
       /\ keys = [h \in Host |->
                    [device |-> h \in legacy, ark |-> IF h \in legacy THEN 1 ELSE None,
                     id |-> IF h \in legacy THEN id ELSE None,
                     session |-> NoSession, capture |-> NoBlob, approvals |-> {}]]
  /\ cmd = [h \in Host |-> Idle]
  /\ proc = [h \in Host |-> [unlocked |-> FALSE, worker |-> FALSE, shown |-> FALSE]]
  /\ relay = [bound |-> [i \in Identity |-> None], roster |-> [c \in Id |-> {}],
              trust |-> [c \in Id |-> <<>>], wraps |-> [c \in Id |-> <<>>],
              recovery |-> [c \in Id |-> NoBlob], events |-> [c \in Id |-> <<>>]]
  /\ faults = 0

Form(h) ==
  \/ Unlock(h) \/ Acknowledge(h) \/ Restart(h) \/ Pause(h) \/ Accept(h)
  \/ \E flow \in Flow : Select(h, flow)
  \/ \E i \in Logins[h] : Authenticate(h, i) \/ Renew(h, i)
  \/ \E ark \in Id : Recover(h, ark)
  \/ \E d \in Host : Enroll(h, d) \/ Approve(h, d)

Fault(h) ==
  \/ Crash(h)
  \/ \E login \in BOOLEAN : Fail(h, login) \/ WorkerFails(h, login)

Next ==
  \E h \in Host : \/ Form(h) \/ Step(h) \/ Refuse(h) \/ Fault(h)
                  \/ WorkerSyncs(h) \/ SaveItem(h)

Spec == Init /\ [][Next]_vars

(***************************************************************************)
(* Properties.                                                             *)
(***************************************************************************)
\* Key material is never replaced: whatever is interrupted, retried or chosen
\* next, a root key, a content id and device keys that a host holds stay, and
\* with them everything encrypted or signed so far (save_account_material, and
\* save_account_id, which does not check).
KeysKept ==
  [][\A h \in Host : /\ keys[h].ark # None => keys'[h].ark = keys[h].ark
                     /\ keys[h].id # None => keys'[h].id = keys[h].id
                     /\ keys[h].device => keys'[h].device]_vars

\* A library is adopted only under the account that the relay knows it by: the
\* identity it logged in with stays bound to its content, the key file and the
\* database name that content, and every other active host of the content has
\* the same root key (activate against a binding read calls earlier).  A device
\* that pushes is on the roster, so that its events can be verified by every
\* other device and by every later join (ensure_device before activate).
AccountAgreed ==
  \A h \in Host :
    /\ binding[h].state = "active" =>
         /\ binding[h].tenant \in Identity /\ relay.bound[binding[h].tenant] = Content(h)
         /\ keys[h].id = Content(h) /\ local[h].account = Content(h)
         /\ \A g \in Host : binding[g].state = "active" /\ Content(g) = Content(h) =>
              keys[g].ark = keys[h].ark
    /\ proc[h].worker => h \in relay.roster[Content(h)]

\* However often an approval or a setup is interrupted and retried, a device
\* gets one sealed bundle and one attestation from each device that vouches
\* for it (approve, ensure_device).
PublishedOnce ==
  \A c \in Id : IsInjective(relay.wraps[c]) /\ IsInjective(relay.trust[c])

\* The recovery code that the operator of a created account was told to keep
\* opens what the relay stores for the account, and the account does not sync
\* before that (prepare_recovery, acknowledge, start).
RecoveryCodeOpens ==
  \A h \in Host : setup[h].flow = "create" =>
    /\ setup[h].ack => relay.recovery[Content(h)] = [code |-> h, ark |-> keys[h].ark]
    /\ proc[h].worker => setup[h].ack

\* Between commands, the page says that sync runs exactly when it does (start
\* shows the worker as running before it spawns it, and takes that back).
StatusHonest ==
  \A h \in Host : At(h, "idle") => (proc[h].shown <=> proc[h].worker)

=============================================================================
