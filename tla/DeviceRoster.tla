---------------------------- MODULE DeviceRoster ----------------------------
(***************************************************************************)
(* How a user's devices come to share an account from the command line     *)
(* (device-key, sync-remote and sync-device of pergamon-cli/src/main.rs,   *)
(* the ceremonies of pergamon-sync/src/onboarding.rs, the key store, and   *)
(* the artifacts the relay keeps for an account).                          *)
(*                                                                         *)
(* A command checks its guards and then makes its writes one by one, some  *)
(* in the key store, some in the database and some at the relay; writes of *)
(* several devices interleave, and any write may be a command's last: the  *)
(* process is killed or the relay does not answer.  A command is therefore *)
(* a plan, the sequence of the writes it has left.                         *)
(*                                                                         *)
(* There is one relay and one label, so that neither can be confused with  *)
(* another; keys are unforgeable, so a signature or a sealed bundle is the *)
(* record of what went into it.                                            *)
(***************************************************************************)
EXTENDS Integers, Sequences, FiniteSets, FiniteSetsExt, Functions, Positions

CONSTANTS
    Device,
    Setups,         \* what devices and relay may hold at first, and (a bound) the commands run then
    PageLimit,      \* artifacts the relay returns of a list
    MaxMinted,      \* bound: account ids, root keys and codes made
    Kills,          \* bound: commands cut short
    None

VARIABLES
    authenticated,  \* whether the relay asks for a session
    relay,          \* what it keeps
    local,          \* key store and database of each device
    plan,           \* the writes each device's command has left
    user,           \* what the user has been told: invites, codes, key packages
    mixed,          \* accounts whose id a command has put to another root key
    carried,        \* accounts whose id was put to a device that syncs under another
    unlisted,       \* devices that came to sync by a command that publishes no record
    minted,
    ops,            \* bound: commands that may still be run
    kills

vars == <<authenticated, relay, local, plan, user, mixed, carried, unlisted, minted, ops, kills>>
history == <<mixed, carried, unlisted>>
counters == <<minted, ops, kills>>

Account == 1 .. MaxMinted
NewLocal ==
    [keys |-> FALSE, ark |-> None, id |-> None, session |-> None, capture |-> None,
     db |-> None, server |-> FALSE, epoch |-> 0, intent |-> None, content |-> FALSE]
NewRelay ==
    [records |-> [a \in Account |-> {}], wraps |-> [a \in Account |-> [d \in Device |-> <<>>]],
     attests |-> [a \in Account |-> <<>>], recovery |-> [a \in Account |-> None],
     first |-> [a \in Account |-> None], bound |-> None, live |-> {}]

\* Types.
Maybe(S) == S \cup {None}
Blobs == [ark : Nat, acct : Account, secret : Nat] \cup [ark : Nat, secret : Nat]
Intents == [flow : {"create", "join", "attach"}, acct : Account, active : BOOLEAN]
Bundles ==
    [kind : {"enrollment"}, ark : Nat, epoch : Nat] \cup [kind : {"epoch"}, ark : {None}, epoch : Nat]
Attestations == [kind : {"trust", "revoke"}, by : Device, of : Device, epoch : Nat]
Packages == [ark : Nat, id : Account]
Invites == [acct : Account, by : Device]
Locals ==
    [keys : BOOLEAN, ark : Maybe(Nat), id : Maybe(Account), session : Maybe(Account),
     capture : Maybe(Blobs), db : Maybe(Account), server : BOOLEAN, epoch : Nat,
     intent : Maybe(Intents), content : BOOLEAN]
Relays ==
    [records : [Account -> SUBSET Device], wraps : [Account -> [Device -> Seq(Bundles)]],
     attests : [Account -> Seq(Attestations)], recovery : [Account -> Maybe(Blobs)],
     first : [Account -> Maybe([by : Device, ark : Maybe(Nat)])], bound : Maybe(Account),
     live : SUBSET Device]
Users == [invites : SUBSET Invites, codes : SUBSET Nat, packages : SUBSET Packages]

\* Every root key that goes by an account's id: on devices, in sealed bundles, in the recovery
\* blob, in key packages, and under what was pushed.
RootsIn(w, a) ==
    {w.local[d].ark : d \in {e \in Device : w.local[e].id = a /\ w.local[e].ark # None}}
    \cup {b.ark : b \in UNION {{c \in Range(w.relay.wraps[a][d]) : c.kind = "enrollment"} : d \in Device}}
    \cup (IF w.relay.recovery[a] = None THEN {} ELSE {w.relay.recovery[a].ark})
    \cup {p.ark : p \in {q \in w.user.packages : q.id = a}}
    \cup (IF w.relay.first[a] = None THEN {} ELSE {w.relay.first[a].ark})

\* An epoch is attested that an attestation reaches.
Attested(attests, e) == e = 0 \/ \E i \in DOMAIN attests : attests[i].epoch >= e

\* What commands leave that ran to their end: a device that syncs is listed and names one account
\* throughout, an account has one root key, what was sealed or bound is attested.
Settled(w, d) ==
    LET l == w.local[d]
    IN  /\ l.id # None => l.keys \/ l.ark # None
        /\ l.session # None => l.intent # None /\ l.session = l.intent.acct
        /\ l.intent # None /\ l.intent.active => l.server
        /\ l.server => /\ l.keys /\ l.ark # None /\ l.db # None /\ l.id = l.db
                       /\ d \in w.relay.records[l.db] /\ Attested(w.relay.attests[l.db], l.epoch)
                       /\ l.intent # None => l.intent.acct = l.db
        /\ ~l.server => l.db = None /\ l.epoch = 0
Sensible(w) ==
    /\ w.authenticated \in BOOLEAN /\ w.relay \in Relays /\ w.local \in [Device -> Locals]
    /\ w.user \in Users /\ w.minted \in 0 .. MaxMinted
    /\ \A d \in Device : Settled(w, d)
    /\ \A a \in Account :
         /\ \A k, m \in RootsIn(w, a) : k = m
         /\ RootsIn(w, a) # {} => a <= w.minted
         /\ \A d \in Device : \A i \in DOMAIN w.relay.wraps[a][d] :
              LET b == w.relay.wraps[a][d][i]
              IN  b.kind = "enrollment" => d \in w.relay.records[a] /\ Attested(w.relay.attests[a], b.epoch)
         /\ w.relay.recovery[a] # None =>
              \/ w.relay.recovery[a].secret \in w.user.codes
              \/ \E d \in Device : w.local[d].capture = w.relay.recovery[a]

\* Device ids matter by their order alone.
ASSUME RosterAssumption ==
    /\ IsFiniteSet(Device) /\ Device = 1 .. Cardinality(Device)
    /\ MaxMinted \in Nat /\ PageLimit \in Nat
    /\ None \notin Nat \cup Blobs \cup Intents
    /\ \A w \in Setups : Sensible(w)

-----------------------------------------------------------------------------
(* The relay's lists. *)

attestations_list(a) == SubSeq(relay.attests[a], 1, Min({Len(relay.attests[a]), PageLimit}))
wraps_list(a, d) == SubSeq(relay.wraps[a][d], 1, Min({Len(relay.wraps[a][d]), PageLimit}))
roster(a) == relay.records[a]

\* current_epoch: the greatest epoch any attestation names.
current_epoch(a) == Max({0} \cup {e.epoch : e \in Range(attestations_list(a))})

\* open_token_provider: a session is used when there is one, and must be for this account;
\* without one the relay is addressed blindly, unless an intent says it may not be.
Access(d, a) ==
    LET l == local[d]
    IN  IF l.session # None
        THEN /\ l.keys /\ l.session = l.id
             /\ l.intent # None => l.intent.acct = l.id
             /\ authenticated => d \in relay.live /\ relay.bound = a
        ELSE l.intent = None /\ ~authenticated

-----------------------------------------------------------------------------
(* Guards (account_flow.rs). *)

\* What a command finds on the device; an intent is [flow, acct, active].
PendingJoin(d, a) ==
    LET i == local[d].intent IN i # None /\ i.flow = "join" /\ ~i.active /\ i.acct = a

\* guard_create_new, told to go ahead when there is content.
guard_create_new(d) ==
    LET l == local[d] IN l.ark = None /\ ~l.server /\ l.db = None

guard_join_new_device(d, bound, matching) ==
    LET l == local[d]
    IN  /\ ~l.content /\ ~bound
        /\ matching \/ (l.ark = None /\ l.id = None)

guard_cli_join(d, a) ==
    LET l == local[d] matching == PendingJoin(d, a)
    IN  /\ l.id \in {None, a} /\ l.db \in {None, a}
        /\ guard_join_new_device(d, l.server /\ ~matching, matching)

\* A device that may run what asks for keys, root key, id and a server.
Established(d) ==
    LET l == local[d] IN l.keys /\ l.ark # None /\ l.id # None /\ l.server

\* begin_remote_binding: no intent yet, or this one; never another identity.
begin_remote_binding(d, a, flow) ==
    LET l == local[d]
    IN  /\ l.db \in {None, a}
        /\ l.intent # None => l.intent.acct = a /\ (l.intent.active \/ l.intent.flow = flow)

-----------------------------------------------------------------------------
(* Writes. *)

Save(f) == [at |-> "local", set |-> f]
Record(a) == [at |-> "record", acct |-> a]
Trust(a, of, e) == [at |-> "attest", acct |-> a, kind |-> "trust", of |-> of, epoch |-> e]
Wrap(a, to, bundle) == [at |-> "wrap", acct |-> a, to |-> to, bundle |-> bundle]
Blob(a, blob) == [at |-> "recovery", acct |-> a, blob |-> blob]
Tell(what, x) == [at |-> "tell", what |-> what, is |-> x]
Sessions(of) == [at |-> "sessions", of |-> of]
Intend(a, flow) == [at |-> "begin", acct |-> a, flow |-> flow]
\* Steps that look before they write.
Step(name, a) == [at |-> name, acct |-> a]

When(cond, steps) == IF cond THEN steps ELSE <<>>

\* set_sync_identity.
Identity(a, e) == Save([db |-> a, server |-> TRUE, epoch |-> e])

\* onboarding::bootstrap: the device's record, then its trust in itself.
Rooted(d, a, e) == <<Record(a), Trust(a, d, e)>>

\* authenticated_attach, up to the saved session.
AttachSteps(d, a, flow) ==
    <<Intend(a, flow)>> \o When(local[d].id = None /\ flow # "create", <<Save([id |-> a])>>)
    \o <<Step("login", a), Step("bind", a), Step("login", a), Step("session", a)>>

\* The next id, root key or code that is made.
Fresh == minted + 1

\* onboarding::recovery_publish, under a secret the user has by then.
PublishSteps(a, ark, secret) ==
    <<Tell("codes", secret), Blob(a, [ark |-> ark, secret |-> secret])>>

\* A code kept from an earlier attempt is published again, if it still restores this root key
\* (PendingRecovery::validate).
RecoverySteps(d, a, ark, code) ==
    LET kept == local[d].capture
        blob == IF kept # None THEN kept ELSE [ark |-> ark, acct |-> a, secret |-> code]
    IN  When(kept # None, <<Step(IF kept.ark = ark /\ kept.acct = a THEN "valid" ELSE "fail", a)>>)
        \o When(kept = None, <<Save([capture |-> blob])>>)
        \o <<Blob(a, blob), Tell("codes", blob.secret)>>

\* publish_bootstrap_recovery: with --no-recovery-code, with PERGAMON_RECOVERY_PASSPHRASE set,
\* which does not look at a code that is kept, or with a code.
BootstrapRecovery(d, a, ark, secret) ==
    CASE secret = "none" -> <<>>
      [] secret = "passphrase" -> PublishSteps(a, ark, Fresh)
      [] secret = "code" -> RecoverySteps(d, a, ark, Fresh)

\* Mutant: the identity is bound before the record is published.
BootstrapStepsBound(d, a, ark, secret, auth) ==
    When(~local[d].keys, <<Save([keys |-> TRUE])>>)
    \o When(local[d].ark # ark, <<Save([ark |-> ark])>>)
    \o When(local[d].id = None, <<Save([id |-> a])>>)
    \o When(auth, AttachSteps(d, a, "create"))
    \o <<Identity(a, local[d].epoch)>> \o Rooted(d, a, local[d].epoch)
    \o BootstrapRecovery(d, a, ark, secret)
    \o <<Step("adopt", a)>>

BootstrapSteps(d, a, ark, secret, auth) ==
    When(~local[d].keys, <<Save([keys |-> TRUE])>>)
    \o When(local[d].ark # ark, <<Save([ark |-> ark])>>)
    \o When(local[d].id = None, <<Save([id |-> a])>>)
    \o When(auth, AttachSteps(d, a, "create"))
    \o Rooted(d, a, local[d].epoch)
    \o <<Identity(a, local[d].epoch)>>
    \o BootstrapRecovery(d, a, ark, secret)
    \o <<Step("adopt", a)>>

\* onboarding::approve: the sealed bundle, then the attestation.
ApproveSteps(d, a, of) ==
    <<Wrap(a, of, [kind |-> "enrollment", ark |-> local[d].ark, epoch |-> local[d].epoch]),
      Trust(a, of, local[d].epoch)>>

\* The key of the next epoch, for every record but one, whoever was revoked before; the relay
\* lists them by device id.
Rewraps(a, of, new) ==
    LET others == roster(a) \ {of}
    IN  [k \in 1 .. Cardinality(others) |->
            Wrap(a, Nth(others, k), [kind |-> "epoch", ark |-> None, epoch |-> new])]

\* Mutant: the revocation names the epoch it ends.
RevokeStepsOld(d, a, of) ==
    LET new == local[d].epoch + 1
    IN  Rewraps(a, of, new)
        \o <<[Trust(a, of, new - 1) EXCEPT !.kind = "revoke"], Save([epoch |-> new]), Sessions(of)>>

\* onboarding::revoke: the bundles, then the attestation, the local epoch, and the relay sessions.
RevokeSteps(d, a, of) ==
    LET new == local[d].epoch + 1
    IN  Rewraps(a, of, new)
        \o <<[Trust(a, of, new) EXCEPT !.kind = "revoke"], Save([epoch |-> new]), Sessions(of)>>

-----------------------------------------------------------------------------
(* Commands. *)

\* A command starts when the device has none running.
Begin(d, steps) ==
    /\ plan[d] = <<>> /\ ops > 0 /\ steps # <<>>
    /\ plan' = [plan EXCEPT ![d] = steps]
    /\ ops' = ops - 1
    /\ UNCHANGED <<authenticated, relay, local, user, kills>>

\* A command that makes no id, key or code, and puts no id to another root.
Plain(d, steps) == Begin(d, steps) /\ UNCHANGED <<history, minted>>

Mint(uses) == minted < MaxMinted /\ minted' = IF uses THEN Fresh ELSE minted
OrFresh(x) == IF x = None THEN Fresh ELSE x

DeviceKeyInit(d) ==
    /\ ~local[d].keys
    /\ Begin(d, <<Save([keys |-> TRUE])>> \o When(local[d].ark = None, <<Save([ark |-> Fresh])>>))
    /\ Mint(TRUE) /\ UNCHANGED history

ExportPackage(d) ==
    LET l == local[d] id == OrFresh(l.id)
    IN  /\ l.ark # None
        /\ Begin(d, When(l.id = None, <<Save([id |-> id])>>)
                    \o <<Tell("packages", [ark |-> l.ark, id |-> id])>>)
        /\ Mint(l.id = None) /\ UNCHANGED history

\* import_key_package_cmd looks at nothing that is there.
ImportPackage(d) ==
    \E p \in user.packages :
        /\ Begin(d, <<Save([ark |-> p.ark]), Save([id |-> p.id])>>)
        /\ mixed' = IF local[d].id \in {None, p.id} THEN mixed ELSE mixed \cup {local[d].id}
        /\ carried' = IF local[d].db \in {None, p.id} THEN carried ELSE carried \cup {p.id}
        /\ UNCHANGED <<unlisted, minted>>

\* sync_remote_enable: no record is published.
Enable(d) ==
    LET l == local[d] a == OrFresh(l.id)
    IN  /\ l.intent = None /\ l.keys /\ l.ark # None
        /\ Begin(d, When(l.id = None, <<Save([id |-> a])>>) \o <<Identity(a, l.epoch)>>)
        /\ Mint(l.id = None) /\ unlisted' = unlisted \cup {d}
        /\ UNCHANGED <<mixed, carried>>

\* Mutant: a resumed creation makes a new root key.
RootOfCreationAnew(d) == Fresh

\* sync_device_bootstrap: the root key it goes on with.
RootOfCreation(d) == OrFresh(local[d].ark)

\* sync_device_bootstrap.  An id that is there is kept, whoever made it.
Bootstrap(d, auth, secret) ==
    LET l == local[d]
        resume == auth /\ l.intent # None /\ l.intent.flow = "create" /\ ~l.intent.active
        a == OrFresh(l.id)
        ark == RootOfCreation(d)
    IN  /\ IF resume THEN l.keys /\ l.ark # None /\ l.id = l.intent.acct ELSE guard_create_new(d)
        /\ auth => authenticated
        /\ Begin(d, BootstrapSteps(d, a, ark, secret, auth))
        /\ Mint(TRUE)
        /\ mixed' = IF l.id # None /\ l.ark = None THEN mixed \cup {l.id} ELSE mixed
        /\ UNCHANGED <<carried, unlisted>>

\* sync-remote enable with a relay identity: authenticated_attach and verify_existing_relay_account.
Attach(d) ==
    LET l == local[d]
        a == IF l.id # None THEN l.id ELSE OrFresh(l.db)
    IN  /\ authenticated /\ l.keys /\ l.ark # None
        /\ ~(l.id = None /\ l.db = None /\ (l.session # None \/ l.intent # None))
        /\ Begin(d, AttachSteps(d, a, "attach") \o When(d \notin relay.records[a], Rooted(d, a, l.epoch))
                    \o <<Step("verify", a), Step("activate", a)>>)
        /\ Mint(a = Fresh) /\ UNCHANGED history

\* authenticated_login.  A join records its intent before it saves the keys the intent names.
LoginJoin(d) ==
    LET l == local[d] a == relay.bound
        matching == l.intent # None /\ l.intent.flow = "join" /\ ~l.intent.active
    IN  /\ authenticated /\ a # None
        /\ matching => l.keys /\ l.id = l.intent.acct
        /\ guard_join_new_device(d, l.server, matching)
        /\ l.id \in {None, a}
        /\ Plain(d, <<Step("login", a), Intend(a, "join"), Save([keys |-> TRUE]), Save([id |-> a]),
                      Step("session", a)>>)

\* A renewal; of an attachment that was cut short it is the rest, save for the record: only an
\* attachment without a session publishes one.
LoginRenew(d) ==
    LET l == local[d] a == l.id
    IN  /\ authenticated /\ l.ark # None /\ a # None /\ l.keys /\ l.intent # None
        /\ l.intent.acct = a /\ (l.intent.active \/ l.intent.flow = "attach")
        /\ l.db \in {None, a} /\ relay.bound = a
        /\ Begin(d, <<Step("login", a), Step("verify", a), Step("session", a), Step("activate", a)>>)
        /\ unlisted' = IF l.intent.active THEN unlisted ELSE unlisted \cup {d}
        /\ UNCHANGED <<mixed, carried, minted>>

Invite(d) ==
    /\ local[d].keys /\ local[d].id # None /\ local[d].server
    /\ Plain(d, <<Tell("invites", [acct |-> local[d].id, by |-> d])>>)

\* sync_device_enroll: the SAS, which needs the approver's record, comes after the writes.  A
\* join that is pending is gone on with, whatever root key the device has come by since.
Enroll(d) ==
    \E inv \in user.invites :
        LET l == local[d] a == inv.acct
        IN  /\ guard_join_new_device(d, l.server, PendingJoin(d, a))
            /\ ~l.keys \/ PendingJoin(d, a)
            /\ Begin(d, When(~l.keys, <<Save([keys |-> TRUE])>>) \o <<Save([id |-> a]), Record(a)>>)
            /\ mixed' = IF l.ark = None THEN mixed ELSE mixed \cup {a}
            /\ UNCHANGED <<carried, unlisted, minted>>

\* sync_device_approve, after the user has compared the SAS; nothing keeps a device from
\* approving itself.
Approve(d) ==
    /\ Established(d) /\ Access(d, local[d].id)
    /\ \E of \in roster(local[d].id) : Plain(d, ApproveSteps(d, local[d].id, of))

\* accept: of the relayed bundles, the places of those that open.
EnrollmentFor(d, a) == {k \in DOMAIN wraps_list(a, d) : wraps_list(a, d)[k].kind = "enrollment"}

Accept(d) ==
    LET l == local[d] a == l.id
    IN  /\ l.keys /\ a # None
        /\ guard_cli_join(d, a) /\ Access(d, a)
        /\ EnrollmentFor(d, a) # {}
        /\ LET b == wraps_list(a, d)[Min(EnrollmentFor(d, a))]
           IN  /\ l.ark \in {None, b.ark}
               /\ Plain(d, <<Save([ark |-> b.ark]), Save([id |-> a]), Identity(a, b.epoch), Step("adopt", a)>>)

Revoke(d) ==
    /\ Established(d) /\ Access(d, local[d].id)
    /\ \E of \in roster(local[d].id) : Plain(d, RevokeSteps(d, local[d].id, of))

\* sync_device_recovery_enable: the code is printed before its blob is published.
RecoveryEnable(d) ==
    LET l == local[d]
    IN  /\ l.ark # None /\ l.id # None /\ l.server /\ Access(d, l.id)
        /\ Begin(d, PublishSteps(l.id, l.ark, Fresh))
        /\ Mint(TRUE) /\ UNCHANGED history

\* sync_device_recover, with a code the user has.
Recover(d) ==
    \E a \in Account :
        LET l == local[d] blob == relay.recovery[a]
        IN  /\ guard_cli_join(d, a) /\ Access(d, a)
            /\ blob # None /\ blob.secret \in user.codes /\ l.ark \in {None, blob.ark}
            /\ Plain(d, When(~l.keys, <<Save([keys |-> TRUE])>>)
                        \o <<Save([ark |-> blob.ark]), Save([id |-> a]), Step("epoch", a)>>)

RevokeSession(d) ==
    /\ local[d].server /\ local[d].session # None /\ Access(d, local[d].id)
    /\ \E of \in relay.live : Plain(d, <<Sessions(of)>>)

\* open_sync_session and a push: identity and keys must agree.
Sync(d) ==
    LET l == local[d]
    IN  /\ l.intent # None => l.intent.active
        /\ Established(d) /\ l.id = l.db /\ Access(d, l.db)
        /\ Plain(d, <<Step("push", l.db)>>)

\* Content is saved without any of this.
SaveItem(d) ==
    /\ ~local[d].content /\ ops > 0 /\ ops' = ops - 1
    /\ local' = [local EXCEPT ![d].content = TRUE]
    /\ UNCHANGED <<authenticated, relay, plan, user, history, minted, kills>>

-----------------------------------------------------------------------------
(* What one write does.  A write that is refused ends its command. *)

\* verify_existing_content: the first event is by a listed device and opens.
Verified(d, a) ==
    relay.first[a] # None =>
        relay.first[a].by \in roster(a) /\ relay.first[a].ark = local[d].ark

\* activate_remote_binding sets the identity with it.
Activated(l, a) ==
    [l EXCEPT !.db = a, !.server = TRUE, !.intent = [@ EXCEPT !.active = TRUE]]

\* finish_local_adoption: nothing to do without an intent that waits.
Adoptable(d) ==
    LET l == local[d] IN l.intent # None /\ ~l.intent.active

Allowed(d, w) ==
    CASE w.at \in {"local", "tell"} -> TRUE
      [] w.at \in {"record", "attest", "wrap", "recovery", "epoch", "push"} -> Access(d, w.acct)
      [] w.at = "begin" -> begin_remote_binding(d, w.acct, w.flow)
      [] w.at \in {"login", "valid"} -> TRUE
      [] w.at = "bind" -> relay.bound \in {None, w.acct}
      [] w.at = "session" -> relay.bound = w.acct
      [] w.at = "verify" -> Verified(d, w.acct)
      [] w.at = "activate" -> local[d].db \in {None, w.acct}
      [] w.at = "adopt" -> Adoptable(d) => local[d].session = local[d].intent.acct
      [] w.at = "sessions" -> local[d].session # None => Access(d, local[d].id)
      [] w.at = "fail" -> FALSE

\* A device has one record; its latest replaces the earlier one.
device_record_put(d, a) == [relay EXCEPT !.records[a] = @ \cup {d}]
attestation_append(d, w) ==
    [relay EXCEPT !.attests[w.acct] = Append(@, [kind |-> w.kind, by |-> d, of |-> w.of, epoch |-> w.epoch])]
wrapped_bundle_put(w) == [relay EXCEPT !.wraps[w.acct][w.to] = Append(@, w.bundle)]
recovery_blob_put(w) == [relay EXCEPT !.recovery[w.acct] = w.blob]

\* revoke_relay_sessions: without a session of its own there is nothing to revoke by.
revoke_relay_sessions(d, of) ==
    IF local[d].session = None THEN relay ELSE [relay EXCEPT !.live = @ \ {of}]

RelayAfter(d, w) ==
    CASE w.at = "record" -> device_record_put(d, w.acct)
      [] w.at = "attest" -> attestation_append(d, w)
      [] w.at = "wrap" -> wrapped_bundle_put(w)
      [] w.at = "recovery" -> recovery_blob_put(w)
      [] w.at = "bind" -> [relay EXCEPT !.bound = w.acct]
      [] w.at = "login" -> [relay EXCEPT !.live = @ \cup {d}]
      [] w.at = "sessions" -> revoke_relay_sessions(d, w.of)
      [] w.at = "push" ->
           [relay EXCEPT !.first[w.acct] = IF @ = None THEN [by |-> d, ark |-> local[d].ark] ELSE @]
      [] OTHER -> relay

Overwritten(l, set) == [f \in DOMAIN l |-> IF f \in DOMAIN set THEN set[f] ELSE l[f]]

LocalAfter(d, w) ==
    CASE w.at = "local" -> Overwritten(local[d], w.set)
      [] w.at = "begin" /\ local[d].intent = None ->
           [local[d] EXCEPT !.intent = [flow |-> w.flow, acct |-> w.acct, active |-> FALSE]]
      [] w.at = "session" -> [local[d] EXCEPT !.session = w.acct]
      [] w.at = "activate" -> Activated(local[d], w.acct)
      [] w.at = "adopt" -> IF Adoptable(d) THEN Activated(local[d], w.acct) ELSE local[d]
      [] OTHER -> local[d]

\* recover reads the epoch after it has saved the keys, and goes on with it.
PlanAfter(d, w) ==
    IF w.at = "epoch"
    THEN LET e == current_epoch(w.acct)
         IN  Rooted(d, w.acct, e) \o <<Identity(w.acct, e), Step("adopt", w.acct)>>
    ELSE Tail(plan[d])

Perform(d) ==
    /\ plan[d] # <<>> /\ Allowed(d, Head(plan[d]))
    /\ LET w == Head(plan[d])
       IN  /\ relay' = RelayAfter(d, w)
           /\ local' = [local EXCEPT ![d] = LocalAfter(d, w)]
           /\ plan' = [plan EXCEPT ![d] = PlanAfter(d, w)]
           /\ user' = IF w.at = "tell" THEN [user EXCEPT ![w.what] = @ \cup {w.is}] ELSE user
    /\ UNCHANGED <<authenticated, history, counters>>

Refused(d) ==
    /\ plan[d] # <<>> /\ ~Allowed(d, Head(plan[d]))
    /\ plan' = [plan EXCEPT ![d] = <<>>]
    /\ UNCHANGED <<authenticated, relay, local, user, history, counters>>

\* Killed, or the relay did not answer.
Killed(d) ==
    /\ plan[d] # <<>> /\ kills > 0
    /\ plan' = [plan EXCEPT ![d] = <<>>] /\ kills' = kills - 1
    /\ UNCHANGED <<authenticated, relay, local, user, history, minted, ops>>

-----------------------------------------------------------------------------

Init ==
    /\ \E s \in Setups :
         /\ authenticated = s.authenticated /\ relay = s.relay /\ local = s.local
         /\ user = s.user /\ minted = s.minted /\ ops = s.commands
    /\ plan = [d \in Device |-> <<>>]
    /\ mixed = {} /\ carried = {} /\ unlisted = {}
    /\ kills = Kills

Secrets == {"none", "passphrase", "code"}

Keys(d) == DeviceKeyInit(d) \/ ExportPackage(d) \/ ImportPackage(d)
Remote(d) == Enable(d) \/ Attach(d) \/ LoginJoin(d) \/ LoginRenew(d) \/ RevokeSession(d) \/ Sync(d)
Ceremony(d) ==
    \/ \E auth \in BOOLEAN, secret \in Secrets : Bootstrap(d, auth, secret)
    \/ Invite(d) \/ Enroll(d) \/ Approve(d) \/ Accept(d) \/ Revoke(d) \/ RecoveryEnable(d) \/ Recover(d)

Next ==
    \E d \in Device :
        Keys(d) \/ Remote(d) \/ Ceremony(d) \/ SaveItem(d) \/ Perform(d) \/ Refused(d) \/ Killed(d)

Spec == Init /\ [][Next]_vars

-----------------------------------------------------------------------------
(* Properties. *)

World == [relay |-> relay, local |-> local, user |-> user]
RootsOf(a) == RootsIn(World, a)

\* An account has one root key wherever it is kept, however creations, joins and recoveries of
\* several devices are interleaved, cut short and repeated, unless a command put the id of one
\* account to the key of another; and whoever can open the recovery blob exists: the user has
\* been shown its code, or a device has kept it to show.
RootsAgree ==
    \A a \in Account :
        /\ a \notin mixed => Cardinality(RootsOf(a)) <= 1
        /\ relay.recovery[a] # None =>
              \/ relay.recovery[a].secret \in user.codes
              \/ \E d \in Device : local[d].capture = relay.recovery[a]

\* No device writes under an epoch that the attestations do not name yet, so a device that
\* recovers the account binds an epoch as new as any other's (current_epoch reads them).
EpochAttested ==
    \A d \in Device :
        local[d].server /\ local[d].db \notin mixed \cup carried =>
            local[d].epoch <= current_epoch(local[d].db)

\* A device bound by a ceremony is on the roster of its account, so others can verify what it
\* signs; and while nothing is pending, key store, intent and session name the account of the
\* database.
SignersListed ==
    \A d \in Device :
        LET l == local[d]
        IN  l.server /\ l.db \notin mixed =>
              /\ d \notin unlisted => d \in roster(l.db)
              /\ l.id = l.db /\ l.keys /\ l.ark # None
              /\ l.session \in {None, l.db}
              /\ l.intent # None => l.intent.acct = l.db

\* A device that has enrolled and for which a bundle is waiting can go on to accept it, as
\* enroll and approve tell the user; content that was saved meanwhile stands in the way.
JoinResumable ==
    \A d \in Device :
        LET l == local[d]
        IN  plan[d] = <<>> /\ l.keys /\ l.id # None /\ l.ark = None /\ ~l.content
              /\ EnrollmentFor(d, l.id) # {} => guard_cli_join(d, l.id)
=============================================================================
