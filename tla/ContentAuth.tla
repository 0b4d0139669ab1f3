----------------------------- MODULE ContentAuth -----------------------------
(***************************************************************************)
(* Who may write which namespace of the sync server in multi-tenant mode   *)
(* (crates/pergamon-sync-server/src/auth): tenants, their device tokens,   *)
(* the binding of a tenant to one content namespace, and the requests that *)
(* were admitted under a binding while it may be changing.                 *)
(*                                                                         *)
(* The auth database is behind one mutex, so each of its operations is one *)
(* step.  A request is three: the middleware validates its token, the      *)
(* store admission takes the namespace lease and looks again, and the      *)
(* write commits.  So is the commit of a binding: its token is validated   *)
(* before it waits for the leases of others.                               *)
(***************************************************************************)
EXTENDS Integers, Sequences, FiniteSets

CONSTANTS
  Tenant,     \* auth tenants, one per identity handle
  Namespace,  \* content account ids
  Device,
  OpId,       \* operation ids chosen by clients that bind
  Request,    \* content requests in flight
  Binder,     \* binding commits in flight
  Migrated,   \* tenants of a database from before bindings existed
  Prior,      \* namespaces that may already hold content then
  MaxTokens,  \* bound: token rows
  MaxChallenges, \* bound: challenges issued
  None

\* A legacy tenant's namespace has the tenant's own id.
ASSUME AuthAssumption ==
  /\ Tenant \subseteq Namespace
  /\ Migrated \subseteq Tenant
  /\ Prior \subseteq Namespace
  /\ MaxTokens \in Nat /\ MaxChallenges \in Nat
  /\ None \notin Namespace \cup OpId

VARIABLES
  registered,  \* account_map
  bindings,    \* content_bindings: [Namespace -> row or NoRow]
  tokens,      \* the token table, in order of issue
  challenges,  \* binding_challenges: a set of rows that have not expired
  issued,      \* how many challenges were ever issued
  history,     \* namespace_history: namespaces that were ever written
  request,     \* [Request -> the principal it carries and how far it is]
  finish       \* [Binder -> the /finish call it is serving]

vars == <<registered, bindings, tokens, challenges, issued, history, request, finish>>

NoRow == [state |-> "none"]
Row(t, state, version, op) ==
  [tenant |-> t, state |-> state, version |-> version, op |-> op]
Idle == [at |-> "idle"]

-----------------------------------------------------------------------------
(* Queries. *)

\* binding_for: the namespace of the tenant's one binding that is not retired.
NamespaceOf(t) ==
  LET live == {n \in Namespace : /\ bindings[n] # NoRow
                                 /\ bindings[n].tenant = t
                                 /\ bindings[n].state # "retired"}
  IN  IF live = {} THEN None ELSE CHOOSE n \in live : TRUE

VersionOf(t) == IF NamespaceOf(t) = None THEN 0 ELSE bindings[NamespaceOf(t)].version

Bound(t, state) == NamespaceOf(t) # None /\ bindings[NamespaceOf(t)].state = state
BoundBy(t, op) == NamespaceOf(t) # None /\ bindings[NamespaceOf(t)].op = op

\* insert_token_row: a token records the binding it is issued under.  Revoked and
\* expired tokens are refused alike, so a row is live or not.
Token(t, d, kind) ==
  [tenant |-> t, device |-> d, kind |-> kind, content |-> NamespaceOf(t),
   version |-> VersionOf(t), live |-> TRUE]
Pair(t, d) == <<Token(t, d, "access"), Token(t, d, "refresh")>>
Room == Len(tokens) + 2 <= MaxTokens

\* load_valid_token: live, of the right kind, and issued under the present binding.
Valid(k, kind) ==
  /\ tokens[k].live /\ tokens[k].kind = kind
  /\ tokens[k].content = NamespaceOf(tokens[k].tenant)
  /\ tokens[k].version = VersionOf(tokens[k].tenant)

Dead(ks) ==
  [k \in DOMAIN tokens |-> IF k \in ks THEN [tokens[k] EXCEPT !.live = FALSE] ELSE tokens[k]]

-----------------------------------------------------------------------------

LegacyRow(t) == Row(t, "legacy_reserved", 0, None)

Init ==
  /\ registered = Migrated
  /\ bindings = [n \in Namespace |-> IF n \in Migrated THEN LegacyRow(n) ELSE NoRow]
  /\ tokens = <<>>
  /\ challenges = {} /\ issued = 0
  /\ history \in SUBSET Prior
  /\ request = [q \in Request |-> Idle]
  /\ finish = [b \in Binder |-> Idle]

\* register_legacy: under the writer barrier, refused if the id was ever used.
RegisterLegacy(t) ==
  /\ t \notin registered /\ t \notin history /\ bindings[t] = NoRow
  /\ registered' = registered \cup {t}
  /\ bindings' = [bindings EXCEPT ![t] = LegacyRow(t)]
  /\ UNCHANGED <<tokens, challenges, issued, history, request, finish>>

RegisterUnbound(t) ==
  /\ t \notin registered
  /\ registered' = registered \cup {t}
  /\ UNCHANGED <<bindings, tokens, challenges, issued, history, request, finish>>

\* finish_login with a device proof: v1 serves legacy bindings only.
Login(t, d, v2) ==
  /\ t \in registered /\ Room
  /\ v2 \/ Bound(t, "legacy_reserved")
  /\ tokens' = tokens \o Pair(t, d)
  /\ UNCHANGED <<registered, bindings, challenges, issued, history, request, finish>>

\* token_refresh: the presented token is used up and a new pair issued, together.
Refresh(k) ==
  /\ Room /\ Valid(k, "refresh")
  /\ tokens' = Dead({k}) \o Pair(tokens[k].tenant, tokens[k].device)
  /\ UNCHANGED <<registered, bindings, challenges, issued, history, request, finish>>

\* token_revoke: every token of a device of the caller's own tenant.
Revoke(k, d) ==
  /\ Valid(k, "access")
  /\ tokens' = Dead({j \in DOMAIN tokens :
                           tokens[j].tenant = tokens[k].tenant /\ tokens[j].device = d})
  /\ UNCHANGED <<registered, bindings, challenges, issued, history, request, finish>>

Expire(k) ==
  /\ tokens[k].live
  /\ tokens' = Dead({k})
  /\ UNCHANGED <<registered, bindings, challenges, issued, history, request, finish>>

-----------------------------------------------------------------------------
(* Content requests. *)

\* require_account_auth and authorize_account: only the token's own namespace.
Authenticate(q, k) ==
  /\ request[q] = Idle
  /\ Valid(k, "access") /\ tokens[k].content # None
  /\ request' = [request EXCEPT ![q] = [at |-> "authed", token |-> k]]
  /\ UNCHANGED <<registered, bindings, tokens, challenges, issued, history, finish>>

\* principal_is_current.  Mutant: what the middleware saw is trusted.
CurrentAsSeen(k) == TRUE
Current(k) ==
  /\ tokens[k].live /\ tokens[k].kind = "access"
  /\ tokens[k].content # None
  /\ tokens[k].content = NamespaceOf(tokens[k].tenant)
  /\ tokens[k].version = VersionOf(tokens[k].tenant)

\* with_account_store: the lease, then the second look.
Admit(q) ==
  /\ request[q].at = "authed"
  /\ request' = [request EXCEPT ![q] =
                   IF Current(@.token) THEN [@ EXCEPT !.at = "leased"] ELSE Idle]
  /\ UNCHANGED <<registered, bindings, tokens, challenges, issued, history, finish>>

\* The store operation inserts a row; a trigger records the namespace.
Write(q) ==
  /\ request[q].at = "leased"
  /\ history' = history \cup {tokens[request[q].token].content}
  /\ request' = [request EXCEPT ![q] = Idle]
  /\ UNCHANGED <<registered, bindings, tokens, challenges, issued, finish>>

\* A read, an error, or no slot or connection in time: nothing is written.
Return(q) ==
  /\ request[q].at = "leased"
  /\ request' = [request EXCEPT ![q] = Idle]
  /\ UNCHANGED <<registered, bindings, tokens, challenges, issued, history, finish>>

-----------------------------------------------------------------------------
(* Binding a tenant to a namespace. *)

ChallengesOf(t, op) == {c \in challenges : c.tenant = t /\ c.op = op}

\* start, when it issues a challenge: an operation already under way with the same
\* parameters gets the challenge it has, with others it is refused.  The token is
\* validated and the database locked again later: it was valid once, as every token
\* is when it is issued, and may no longer be.
Start(k, op, n) ==
  LET t == tokens[k].tenant
  IN  /\ tokens[k].kind = "access"
      /\ issued < MaxChallenges
      /\ BoundBy(t, op) => NamespaceOf(t) = n
      /\ ChallengesOf(t, op) = {}
      /\ issued' = issued + 1
      /\ challenges' = challenges \cup
           {[id |-> issued, tenant |-> t, op |-> op, content |-> n,
             device |-> tokens[k].device, version |-> tokens[k].version]}
      /\ UNCHANGED <<registered, bindings, tokens, history, request, finish>>

ExpireChallenge(c) ==
  /\ challenges' = challenges \ {c}
  /\ UNCHANGED <<registered, bindings, tokens, issued, history, request, finish>>

\* finish: a device answers a challenge that start gave it.  The token is validated,
\* then the call waits for the write lease; the challenge may expire meanwhile.
Finish(b, k, c) ==
  /\ finish[b] = Idle
  /\ Valid(k, "access")
  /\ finish' = [finish EXCEPT ![b] =
                  [at |-> "authed", token |-> k, op |-> c.op, id |-> c.id]]
  /\ UNCHANGED <<registered, bindings, tokens, challenges, issued, history, request>>

\* Mutant: the commit does not wait for the leases of admitted requests.
NoLeasesIgnored == TRUE
NoLeases == \A q \in Request : request[q].at # "leased"

\* The proof names the stored challenge, and the token is the one it was issued to.
Proves(k, c, id) ==
  /\ c.id = id
  /\ c.device = tokens[k].device
  /\ c.version = tokens[k].version

\* Mutant: a bound tenant may move.
FixedNever(t) == FALSE

\* An established binding cannot change, nor a legacy one once it was written under.
Fixed(t) ==
  NamespaceOf(t) # None /\ (~Bound(t, "legacy_reserved") \/ NamespaceOf(t) \in history)

\* A namespace is free if it was never reserved by anyone and never written.
Free(n) == bindings[n] = NoRow /\ n \notin history

\* Every token of the tenant is revoked with the change.
RevokedAll(t) == Dead({j \in DOMAIN tokens : tokens[j].tenant = t})

\* The transaction that allocates n to t: the old row is retired, the new one active.
Allocate(t, n, op) ==
  /\ bindings' = [m \in Namespace |->
       CASE m = n -> Row(t, "active", VersionOf(t) + 1, op)
         [] m # n /\ m = NamespaceOf(t) -> [bindings[m] EXCEPT !.state = "retired"]
         [] m # n /\ m # NamespaceOf(t) -> bindings[m]]
  /\ tokens' = RevokedAll(t)
  /\ challenges' = {c \in challenges : c.tenant # t}

\* The rest of finish, under the write lease and the writer barrier: the token is
\* loaded again, a repeated operation gets its binding, and so does one that asks
\* for the namespace it has; anything refused changes nothing.
Commit(b) ==
  LET call == finish[b]
      t == tokens[call.token].tenant
  IN  /\ call.at = "authed" /\ NoLeases
      /\ finish' = [finish EXCEPT ![b] = Idle]
      /\ \/ \E c \in ChallengesOf(t, call.op) :
              /\ Valid(call.token, "access")
              /\ ~BoundBy(t, call.op)
              /\ Proves(call.token, c, call.id)
              /\ NamespaceOf(t) # c.content /\ ~Fixed(t) /\ Free(c.content)
              /\ Allocate(t, c.content, call.op)
         \/ /\ \/ ~Valid(call.token, "access")
               \/ BoundBy(t, call.op)
               \/ ~\E c \in ChallengesOf(t, call.op) :
                    /\ Proves(call.token, c, call.id)
                    /\ NamespaceOf(t) # c.content /\ ~Fixed(t) /\ Free(c.content)
            /\ UNCHANGED <<bindings, tokens, challenges>>
      /\ UNCHANGED <<registered, issued, history, request>>

-----------------------------------------------------------------------------

Next ==
  \/ \E t \in Tenant : RegisterLegacy(t) \/ RegisterUnbound(t)
  \/ \E t \in Tenant, d \in Device, v2 \in BOOLEAN : Login(t, d, v2)
  \/ \E k \in DOMAIN tokens : Refresh(k) \/ Expire(k)
  \/ \E k \in DOMAIN tokens, d \in Device : Revoke(k, d)
  \/ \E q \in Request, k \in DOMAIN tokens : Authenticate(q, k)
  \/ \E q \in Request : Admit(q) \/ Write(q) \/ Return(q)
  \/ \E k \in DOMAIN tokens, op \in OpId, n \in Namespace : Start(k, op, n)
  \/ \E c \in challenges : ExpireChallenge(c)
  \/ \E b \in Binder, k \in DOMAIN tokens, c \in challenges : Finish(b, k, c)
  \/ \E b \in Binder : Commit(b)

Spec == Init /\ [][Next]_vars

-----------------------------------------------------------------------------
(* Properties. *)

\* A request that holds the lease writes into its tenant's present namespace, under the
\* version its token was issued for: no write outlives a change of binding, and no token that
\* was not revoked survives one either.
AdmittedOwnsNamespace ==
  LET current(k) == /\ tokens[k].content = NamespaceOf(tokens[k].tenant)
                    /\ tokens[k].version = VersionOf(tokens[k].tenant)
  IN  /\ \A q \in Request : request[q].at = "leased" =>
           tokens[request[q].token].content # None /\ current(request[q].token)
      /\ \A k \in DOMAIN tokens : tokens[k].live => current(k)

\* Content is never stranded: a namespace that was written has a binding that is not
\* retired, so its tenant still reaches what it wrote; only content from before this
\* mode may be without one.
ContentReachable ==
  \A n \in history :
    IF bindings[n] = NoRow THEN n \in Prior ELSE bindings[n].state # "retired"

\* A namespace, once reserved, is never given to another tenant, and an active
\* binding never changes.
BindingForGood ==
  [][\A n \in Namespace : bindings[n] # NoRow =>
       /\ bindings'[n] # NoRow
       /\ bindings'[n].tenant = bindings[n].tenant
       /\ bindings[n].state = "active" => bindings'[n] = bindings[n]]_vars
=============================================================================
