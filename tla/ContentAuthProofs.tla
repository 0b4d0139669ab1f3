-------------------------- MODULE ContentAuthProofs --------------------------
(***************************************************************************)
(* Content authorization for any tenants, namespaces, devices and requests *)
(* and any number of tokens and challenges.                                *)
(*                                                                         *)
(* binding_for looks a tenant's binding up among all rows.  What it finds  *)
(* is only known because a tenant never has two rows that are not retired, *)
(* and none at all before it registers: the inductive invariant adds both. *)
(***************************************************************************)
EXTENDS ContentAuth, SequenceTheorems, TLAPS

State == {"legacy_reserved", "active", "retired"}
RowSet == [tenant : Tenant, state : State, version : Nat, op : OpId \cup {None}]
TokenRow ==
  [tenant : Tenant, device : Device, kind : {"access", "refresh"},
   content : Namespace \cup {None}, version : Nat, live : BOOLEAN]
ChallengeRow ==
  [id : Nat, tenant : Tenant, op : OpId, content : Namespace, device : Device,
   version : Nat]

TypeOK ==
  /\ registered \subseteq Tenant
  /\ bindings \in [Namespace -> RowSet \cup {NoRow}]
  /\ tokens \in Seq(TokenRow)
  /\ challenges \subseteq ChallengeRow
  /\ issued \in Nat
  /\ history \subseteq Namespace
  /\ request \in
       [Request -> [at : {"authed", "leased"}, token : DOMAIN tokens] \cup {Idle}]
  /\ finish \in
       [Binder -> [at : {"authed"}, token : DOMAIN tokens, op : OpId, id : Nat]
                  \cup {Idle}]

\* n is a namespace that t reaches.
Serves(n, t) ==
  bindings[n] # NoRow /\ bindings[n].tenant = t /\ bindings[n].state # "retired"

OneServing ==
  \A t \in Tenant : \A m, n \in Namespace : Serves(m, t) /\ Serves(n, t) => m = n

\* Only registered tenants have bindings and tokens.
KnownTenants ==
  /\ \A n \in Namespace : bindings[n] # NoRow => bindings[n].tenant \in registered
  /\ \A k \in DOMAIN tokens : tokens[k].tenant \in registered

\* The inductive invariant.
IInv ==
  TypeOK /\ OneServing /\ KnownTenants /\ AdmittedOwnsNamespace /\ ContentReachable

-----------------------------------------------------------------------------
(* What binding_for finds. *)

Found ==
  \A t \in Tenant :
    /\ NamespaceOf(t) \in Namespace \cup {None}
    /\ NamespaceOf(t) # None => Serves(NamespaceOf(t), t)
    /\ \A n \in Namespace : Serves(n, t) => NamespaceOf(t) = n

LEMMA FindsTheOne == OneServing => Found
<1> SUFFICES ASSUME OneServing, NEW t \in Tenant
             PROVE  /\ NamespaceOf(t) \in Namespace \cup {None}
                    /\ NamespaceOf(t) # None => Serves(NamespaceOf(t), t)
                    /\ \A n \in Namespace : Serves(n, t) => NamespaceOf(t) = n
  BY DEF Found
<1> DEFINE live == {n \in Namespace : Serves(n, t)}
<1>1. NamespaceOf(t) = IF live = {} THEN None ELSE CHOOSE n \in live : TRUE
  BY DEF NamespaceOf, Serves
<1>2. CASE live = {}
  BY <1>1, <1>2
<1>3. CASE live # {}
  <2>1. NamespaceOf(t) \in live
    BY <1>1, <1>3
  <2>2. None \notin Namespace
    BY AuthAssumption
  <2> QED BY <2>1, <2>2 DEF OneServing
<1> QED BY <1>2, <1>3

LEMMA FindsTheOneNext == OneServing' => Found'
BY FindsTheOne, PTL

LEMMA VersionTyped ==
  ASSUME TypeOK, OneServing, NEW t \in Tenant
  PROVE  VersionOf(t) \in Nat /\ NamespaceOf(t) \in Namespace \cup {None}
<1>1. /\ NamespaceOf(t) \in Namespace \cup {None}
      /\ NamespaceOf(t) # None => Serves(NamespaceOf(t), t)
  BY FindsTheOne DEF Found
<1>2. NamespaceOf(t) # None => bindings[NamespaceOf(t)] \in RowSet
  BY <1>1 DEF TypeOK, Serves
<1> QED BY <1>1, <1>2 DEF VersionOf, RowSet

\* A step that leaves the bindings alone leaves what is found alone.
LEMMA SameFound ==
  ASSUME UNCHANGED bindings
  PROVE  /\ \A t : NamespaceOf(t)' = NamespaceOf(t) /\ VersionOf(t)' = VersionOf(t)
         /\ OneServing => OneServing'
BY DEF NamespaceOf, VersionOf, OneServing, Serves

-----------------------------------------------------------------------------
(* Tokens. *)

\* The token's binding is its tenant's present one.
OnPresent(k) ==
  /\ tokens[k].content = NamespaceOf(tokens[k].tenant)
  /\ tokens[k].version = VersionOf(tokens[k].tenant)

\* AdmittedOwnsNamespace, said of each token on its own.
Admitted ==
  /\ \A q \in Request : \A k :
       request[q].at = "leased" /\ request[q].token = k =>
         tokens[k].content # None /\ OnPresent(k)
  /\ \A k \in DOMAIN tokens : tokens[k].live => OnPresent(k)

LEMMA AdmittedMeans == AdmittedOwnsNamespace <=> Admitted
BY DEF AdmittedOwnsNamespace, Admitted, OnPresent

LEMMA AdmittedMeansNext == AdmittedOwnsNamespace' <=> Admitted'
BY AdmittedMeans, PTL

\* Revoking rows changes nothing else of them.
LEMMA DeadRows ==
  ASSUME TypeOK, NEW ks
  PROVE  /\ Dead(ks) \in Seq(TokenRow) /\ DOMAIN Dead(ks) = DOMAIN tokens
         /\ \A k \in DOMAIN tokens :
              /\ Dead(ks)[k].tenant = tokens[k].tenant
              /\ Dead(ks)[k].content = tokens[k].content
              /\ Dead(ks)[k].version = tokens[k].version
              /\ Dead(ks)[k].live => tokens[k].live
              /\ k \in ks => ~Dead(ks)[k].live
<1>1. /\ tokens \in [1..Len(tokens) -> TokenRow] /\ Len(tokens) \in Nat
      /\ DOMAIN tokens = 1..Len(tokens)
  BY LenProperties DEF TypeOK
<1>2. \A k \in DOMAIN tokens : tokens[k] \in TokenRow
  BY <1>1
<1>3. \A k \in DOMAIN tokens :
        /\ Dead(ks)[k] \in TokenRow
        /\ Dead(ks)[k].tenant = tokens[k].tenant
        /\ Dead(ks)[k].content = tokens[k].content
        /\ Dead(ks)[k].version = tokens[k].version
        /\ Dead(ks)[k].live => tokens[k].live
        /\ k \in ks => ~Dead(ks)[k].live
  BY <1>2 DEF Dead, TokenRow
<1>4. Dead(ks) \in [1..Len(tokens) -> TokenRow]
  BY <1>1, <1>3 DEF Dead
<1>5. Dead(ks) \in Seq(TokenRow)
  BY <1>1, <1>4, SeqDef
<1> QED BY <1>1, <1>3, <1>4, <1>5

\* Issuing a pair adds two rows under the tenant's present binding.
LEMMA PairRows ==
  ASSUME TypeOK, OneServing, NEW old \in Seq(TokenRow), NEW t \in Tenant, NEW d \in Device
  PROVE  LET new == old \o Pair(t, d)
         IN  /\ new \in Seq(TokenRow) /\ DOMAIN old \subseteq DOMAIN new
             /\ \A k \in DOMAIN old : new[k] = old[k]
             /\ \A k \in DOMAIN new \ DOMAIN old :
                  /\ new[k].tenant = t
                  /\ new[k].content = NamespaceOf(t)
                  /\ new[k].version = VersionOf(t)
<1> DEFINE pair == Pair(t, d)
           new == old \o pair
<1>1. \A kind \in {"access", "refresh"} :
        /\ Token(t, d, kind) \in TokenRow
        /\ Token(t, d, kind).tenant = t
        /\ Token(t, d, kind).content = NamespaceOf(t)
        /\ Token(t, d, kind).version = VersionOf(t)
  BY VersionTyped DEF Token, TokenRow
<1>2. /\ pair \in Seq(TokenRow) /\ Len(pair) = 2
      /\ \A i \in 1..2 : /\ pair[i].tenant = t
                         /\ pair[i].content = NamespaceOf(t)
                         /\ pair[i].version = VersionOf(t)
  BY <1>1 DEF Pair
<1> HIDE DEF pair
<1>3. /\ new \in Seq(TokenRow) /\ Len(new) = Len(old) + 2
      /\ \A i \in 1..(Len(old) + 2) : new[i] = IF i <= Len(old) THEN old[i] ELSE pair[i - Len(old)]
  <2>1. /\ old \o pair \in Seq(TokenRow) /\ Len(old \o pair) = Len(old) + Len(pair)
        /\ \A i \in 1..Len(old) + Len(pair) :
             (old \o pair)[i] = IF i <= Len(old) THEN old[i] ELSE pair[i - Len(old)]
    BY <1>2, ConcatProperties
  <2> QED BY <1>2, <2>1
<1>4. /\ Len(old) \in Nat /\ DOMAIN old = 1..Len(old)
      /\ DOMAIN new = 1..(Len(old) + 2)
  BY <1>3, LenProperties
<1> HIDE DEF new
<1>5. \A k \in DOMAIN new \ DOMAIN old : k - Len(old) \in 1..2 /\ new[k] = pair[k - Len(old)]
  BY <1>3, <1>4
<1>6. \A k \in DOMAIN old : k \in DOMAIN new /\ new[k] = old[k]
  BY <1>3, <1>4
<1> QED BY <1>2, <1>3, <1>5, <1>6 DEF new, pair

\* Steps that only add rows on the present bindings or revoke some.
LEMMA TokensKeepIInv ==
  ASSUME IInv,
         UNCHANGED <<registered, bindings, challenges, issued, history, request, finish>>,
         tokens' \in Seq(TokenRow), DOMAIN tokens \subseteq DOMAIN tokens',
         \A k \in DOMAIN tokens : /\ tokens'[k].tenant = tokens[k].tenant
                                  /\ tokens'[k].content = tokens[k].content
                                  /\ tokens'[k].version = tokens[k].version
                                  /\ tokens'[k].live => tokens[k].live,
         \A k \in DOMAIN tokens' \ DOMAIN tokens :
           /\ tokens'[k].tenant \in registered
           /\ tokens'[k].content = NamespaceOf(tokens'[k].tenant)
           /\ tokens'[k].version = VersionOf(tokens'[k].tenant)
  PROVE  IInv'
<1>1. TypeOK'
  BY DEF IInv, TypeOK
<1>2. OneServing' /\ \A t : NamespaceOf(t)' = NamespaceOf(t) /\ VersionOf(t)' = VersionOf(t)
  BY SameFound DEF IInv
<1>3. KnownTenants'
  BY DEF IInv, KnownTenants
<1>4. ContentReachable'
  BY DEF IInv, ContentReachable
<1>5. \A k \in DOMAIN tokens : OnPresent(k)' <=> OnPresent(k)
  BY <1>2 DEF OnPresent
<1>6. \A k \in DOMAIN tokens' \ DOMAIN tokens : OnPresent(k)'
  BY <1>2 DEF OnPresent
<1>7. \A q \in Request : request[q].at = "leased" => request[q].token \in DOMAIN tokens
  BY DEF IInv, TypeOK, Idle
<1>8. Admitted'
  <2>1. \A q \in Request : \A k :
          request'[q].at = "leased" /\ request'[q].token = k =>
            tokens'[k].content # None /\ OnPresent(k)'
    BY <1>5, <1>7, AdmittedMeans DEF IInv, Admitted
  <2>2. \A k \in DOMAIN tokens' : tokens'[k].live => OnPresent(k)'
    BY <1>5, <1>6, AdmittedMeans DEF IInv, Admitted
  <2> QED BY <2>1, <2>2 DEF Admitted
<1> QED BY <1>1, <1>2, <1>3, <1>4, <1>8, AdmittedMeansNext DEF IInv

LEMMA LoginKeepsIInv ==
  ASSUME IInv, NEW t \in Tenant, NEW d \in Device, NEW v2 \in BOOLEAN, Login(t, d, v2)
  PROVE  IInv'
<1>1. /\ t \in registered /\ tokens' = tokens \o Pair(t, d)
      /\ UNCHANGED <<registered, bindings, challenges, issued, history, request, finish>>
  BY DEF Login
<1>2. tokens \in Seq(TokenRow) /\ TypeOK /\ OneServing
  BY DEF IInv, TypeOK
<1> QED BY <1>1, <1>2, PairRows, TokensKeepIInv

LEMMA RefreshKeepsIInv ==
  ASSUME IInv, NEW k \in DOMAIN tokens, Refresh(k)
  PROVE  IInv'
<1> DEFINE t == tokens[k].tenant
           d == tokens[k].device
           old == Dead({k})
<1>1. /\ tokens' = old \o Pair(t, d)
      /\ UNCHANGED <<registered, bindings, challenges, issued, history, request, finish>>
  BY DEF Refresh
<1>2. TypeOK /\ OneServing /\ t \in registered
  BY DEF IInv, KnownTenants
<1>3. t \in Tenant /\ d \in Device
  <2>1. tokens[k] \in TokenRow
    BY LenProperties DEF IInv, TypeOK
  <2> QED BY <2>1 DEF TokenRow
<1>4. /\ old \in Seq(TokenRow) /\ DOMAIN old = DOMAIN tokens
      /\ \A j \in DOMAIN tokens :
           /\ old[j].tenant = tokens[j].tenant
           /\ old[j].content = tokens[j].content
           /\ old[j].version = tokens[j].version
           /\ old[j].live => tokens[j].live
  BY <1>2, DeadRows
<1> HIDE DEF old, t, d
<1>5. /\ tokens' \in Seq(TokenRow) /\ DOMAIN old \subseteq DOMAIN tokens'
      /\ \A j \in DOMAIN old : tokens'[j] = old[j]
      /\ \A j \in DOMAIN tokens' \ DOMAIN old :
           /\ tokens'[j].tenant = t
           /\ tokens'[j].content = NamespaceOf(t)
           /\ tokens'[j].version = VersionOf(t)
  BY <1>1, <1>2, <1>3, <1>4, PairRows
<1> QED BY <1>1, <1>2, <1>4, <1>5, TokensKeepIInv

LEMMA RevokeKeepsIInv ==
  ASSUME IInv, NEW k \in DOMAIN tokens, NEW d \in Device, Revoke(k, d) \/ Expire(k)
  PROVE  IInv'
<1>1. PICK ks : tokens' = Dead(ks)
  BY DEF Revoke, Expire
<1>2. UNCHANGED <<registered, bindings, challenges, issued, history, request, finish>>
  BY DEF Revoke, Expire
<1>3. TypeOK
  BY DEF IInv
<1> QED BY <1>1, <1>2, <1>3, DeadRows, TokensKeepIInv

-----------------------------------------------------------------------------
(* Steps that leave bindings and tokens alone. *)

LEMMA NothingBound ==
  ASSUME IInv, UNCHANGED <<registered, bindings, tokens>>,
         challenges' \subseteq ChallengeRow, issued' \in Nat,
         request' \in
           [Request -> [at : {"authed", "leased"}, token : DOMAIN tokens] \cup {Idle}],
         finish' \in
           [Binder -> [at : {"authed"}, token : DOMAIN tokens, op : OpId, id : Nat]
                      \cup {Idle}],
         history' \subseteq Namespace,
         \A n \in history' \ history : bindings[n] # NoRow /\ bindings[n].state # "retired",
         \A q \in Request :
           request'[q].at = "leased" =>
             \/ request'[q] = request[q]
             \/ tokens[request'[q].token].content # None /\ OnPresent(request'[q].token)
  PROVE  IInv'
<1>1. TypeOK'
  BY DEF IInv, TypeOK
<1>2. OneServing' /\ \A t : NamespaceOf(t)' = NamespaceOf(t) /\ VersionOf(t)' = VersionOf(t)
  BY SameFound DEF IInv
<1>3. KnownTenants'
  BY DEF IInv, KnownTenants
<1>4. ContentReachable'
  BY DEF IInv, ContentReachable
<1>5. \A k : OnPresent(k)' <=> OnPresent(k)
  BY <1>2 DEF OnPresent
<1>6. Admitted'
  BY <1>5, AdmittedMeans DEF IInv, Admitted
<1> QED BY <1>1, <1>2, <1>3, <1>4, <1>6, AdmittedMeansNext DEF IInv

LEMMA AuthenticateKeepsIInv ==
  ASSUME IInv, NEW q \in Request, NEW k \in DOMAIN tokens, Authenticate(q, k)
  PROVE  IInv'
<1>1. /\ request' = [request EXCEPT ![q] = [at |-> "authed", token |-> k]]
      /\ UNCHANGED <<registered, bindings, tokens, challenges, issued, history, finish>>
  BY DEF Authenticate
<1> QED BY <1>1, NothingBound DEF IInv, TypeOK, Idle

LEMMA AdmitKeepsIInv ==
  ASSUME IInv, NEW q \in Request, Admit(q)
  PROVE  IInv'
<1> DEFINE k == request[q].token
<1>1. /\ request[q].at = "authed" /\ UNCHANGED <<registered, bindings, tokens>>
      /\ request' = [request EXCEPT ![q] =
                       IF Current(k) THEN [request[q] EXCEPT !.at = "leased"] ELSE Idle]
      /\ UNCHANGED <<challenges, issued, history, finish>>
  BY DEF Admit
<1>2. request[q] \in [at : {"authed", "leased"}, token : DOMAIN tokens]
  BY <1>1 DEF IInv, TypeOK, Idle
<1>3. CASE Current(k)
  <2>1. [request[q] EXCEPT !.at = "leased"] = [at |-> "leased", token |-> k]
    BY <1>2
  <2>2. /\ request' = [request EXCEPT ![q] = [at |-> "leased", token |-> k]]
        /\ k \in DOMAIN tokens
    BY <1>1, <1>2, <1>3, <2>1
  <2>3. tokens[k].content # None /\ OnPresent(k)
    BY <1>3 DEF Current, OnPresent
  <2> HIDE DEF k
  <2>4. /\ request' \in [Request -> [at : {"authed", "leased"}, token : DOMAIN tokens] \cup {Idle}]
        /\ request'[q] = [at |-> "leased", token |-> k]
        /\ \A r \in Request \ {q} : request'[r] = request[r]
    BY <2>2 DEF IInv, TypeOK
  <2>5. \A r \in Request : request'[r].at = "leased" =>
          \/ request'[r] = request[r]
          \/ tokens[request'[r].token].content # None /\ OnPresent(request'[r].token)
    BY <2>3, <2>4
  <2> QED BY <1>1, <2>4, <2>5, NothingBound DEF IInv, TypeOK
<1>4. CASE ~Current(k)
  BY <1>1, <1>4, NothingBound DEF IInv, TypeOK, Idle
<1> QED BY <1>3, <1>4

LEMMA WriteKeepsIInv ==
  ASSUME IInv, NEW q \in Request, Write(q) \/ Return(q)
  PROVE  IInv'
<1> DEFINE k == request[q].token
           t == tokens[k].tenant
<1>1. /\ request[q].at = "leased" /\ request' = [request EXCEPT ![q] = Idle]
      /\ UNCHANGED <<registered, bindings, tokens, challenges, issued, finish>>
      /\ history' = history \/ history' = history \cup {tokens[k].content}
  BY DEF Write, Return
<1>2. k \in DOMAIN tokens /\ tokens[k].content # None /\ OnPresent(k)
  BY <1>1, AdmittedMeans DEF IInv, Admitted, TypeOK, Idle
<1>3. t \in Tenant
  <2>1. tokens[k] \in TokenRow
    BY <1>2, LenProperties DEF IInv, TypeOK
  <2> QED BY <2>1 DEF TokenRow
<1>4. tokens[k].content \in Namespace /\ Serves(tokens[k].content, t)
  BY <1>2, <1>3, FindsTheOne DEF IInv, Found, OnPresent
<1> QED BY <1>1, <1>4, NothingBound DEF IInv, TypeOK, Serves, Idle

LEMMA ChallengeKeepsIInv ==
  ASSUME IInv, NEW k \in DOMAIN tokens, NEW op \in OpId, NEW n \in Namespace, Start(k, op, n)
  PROVE  IInv'
<1>1. tokens[k] \in TokenRow
  BY LenProperties DEF IInv, TypeOK
<1>2. /\ issued' \in Nat /\ challenges' \subseteq ChallengeRow
      /\ UNCHANGED <<registered, bindings, tokens, history, request, finish>>
  BY <1>1 DEF Start, IInv, TypeOK, ChallengeRow, TokenRow
<1> QED BY <1>2, NothingBound DEF IInv, TypeOK

LEMMA ExpireChallengeKeepsIInv ==
  ASSUME IInv, NEW c \in challenges, ExpireChallenge(c)
  PROVE  IInv'
BY NothingBound DEF ExpireChallenge, IInv, TypeOK

LEMMA FinishKeepsIInv ==
  ASSUME IInv, NEW b \in Binder, NEW k \in DOMAIN tokens, NEW c \in challenges, Finish(b, k, c)
  PROVE  IInv'
<1>1. c \in ChallengeRow
  BY DEF IInv, TypeOK
<1>2. /\ finish' = [finish EXCEPT ![b] =
                      [at |-> "authed", token |-> k, op |-> c.op, id |-> c.id]]
      /\ UNCHANGED <<registered, bindings, tokens, challenges, issued, history, request>>
  BY DEF Finish
<1>3. finish' \in [Binder -> [at : {"authed"}, token : DOMAIN tokens, op : OpId, id : Nat]
                             \cup {Idle}]
  BY <1>1, <1>2 DEF IInv, TypeOK, ChallengeRow
<1> QED BY <1>2, <1>3, NothingBound DEF IInv, TypeOK

-----------------------------------------------------------------------------
(* Steps that bind. *)

\* A tenant whose rows are left alone keeps what is found for it.
LEMMA FoundKept ==
  ASSUME OneServing, OneServing', NEW u \in Tenant,
         \A n \in Namespace : Serves(n, u)' <=> Serves(n, u),
         \A n \in Namespace : Serves(n, u) => bindings'[n] = bindings[n]
  PROVE  NamespaceOf(u)' = NamespaceOf(u) /\ VersionOf(u)' = VersionOf(u)
<1>1. /\ NamespaceOf(u) \in Namespace \cup {None}
      /\ NamespaceOf(u) # None => Serves(NamespaceOf(u), u)
      /\ \A n \in Namespace : Serves(n, u) => NamespaceOf(u) = n
  BY FindsTheOne DEF Found
<1>2. /\ NamespaceOf(u)' \in Namespace \cup {None}
      /\ \A n \in Namespace : n = NamespaceOf(u)' /\ n # None => Serves(n, u)'
      /\ \A n \in Namespace : Serves(n, u)' => NamespaceOf(u)' = n
  BY FindsTheOneNext DEF Found
<1>3. None \notin Namespace
  BY AuthAssumption
<1>4. NamespaceOf(u)' = NamespaceOf(u)
  BY <1>1, <1>2, <1>3
<1>5. NamespaceOf(u) # None => bindings'[NamespaceOf(u)] = bindings[NamespaceOf(u)]
  BY <1>1
<1> QED BY <1>4, <1>5 DEF VersionOf

\* The tokens of tenants whose binding is found as before stay on it, and so do the
\* requests that carry them.
LEMMA AdmittedKept ==
  ASSUME IInv, UNCHANGED request, DOMAIN tokens' = DOMAIN tokens,
         \A k \in DOMAIN tokens : /\ tokens'[k].tenant = tokens[k].tenant
                                  /\ tokens'[k].content = tokens[k].content
                                  /\ tokens'[k].version = tokens[k].version
                                  /\ tokens'[k].live => tokens[k].live,
         NEW kept,
         \A u \in kept : NamespaceOf(u)' = NamespaceOf(u) /\ VersionOf(u)' = VersionOf(u),
         \A k \in DOMAIN tokens :
           \/ tokens[k].tenant \in kept
           \/ ~tokens'[k].live /\ \A q \in Request : request[q].at # "leased"
  PROVE  AdmittedOwnsNamespace'
<1>1. \A k \in DOMAIN tokens : tokens[k].tenant \in kept /\ OnPresent(k) => OnPresent(k)'
  <2> SUFFICES ASSUME NEW k \in DOMAIN tokens, tokens[k].tenant \in kept, OnPresent(k),
                      NEW u, u = tokens[k].tenant
               PROVE  tokens'[k].content = NamespaceOf(u)' /\ tokens'[k].version = VersionOf(u)'
    BY DEF OnPresent
  <2> QED BY DEF OnPresent
<1>2. \A q \in Request : request[q].at = "leased" => request[q].token \in DOMAIN tokens
  BY DEF IInv, TypeOK, Idle
<1>3. Admitted'
  BY <1>1, <1>2, AdmittedMeans DEF IInv, Admitted
<1> QED BY <1>3, AdmittedMeansNext

LEMMA RegisterUnboundKeepsIInv ==
  ASSUME IInv, NEW t \in Tenant, RegisterUnbound(t)
  PROVE  IInv'
<1>1. /\ registered' = registered \cup {t}
      /\ UNCHANGED <<bindings, tokens, challenges, issued, history, request, finish>>
  BY DEF RegisterUnbound
<1>2. TypeOK'
  BY <1>1 DEF IInv, TypeOK
<1>3. OneServing' /\ \A u \in Tenant : NamespaceOf(u)' = NamespaceOf(u) /\ VersionOf(u)' = VersionOf(u)
  BY <1>1, SameFound DEF IInv
<1>4. KnownTenants'
  BY <1>1 DEF IInv, KnownTenants
<1>5. ContentReachable'
  BY <1>1 DEF IInv, ContentReachable
<1>6. \A k \in DOMAIN tokens : tokens[k].tenant \in Tenant
  BY DEF IInv, KnownTenants, TypeOK
<1>7. AdmittedOwnsNamespace'
  BY <1>1, <1>3, <1>6, AdmittedKept
<1> QED BY <1>2, <1>3, <1>4, <1>5, <1>7 DEF IInv

LEMMA RegisterLegacyKeepsIInv ==
  ASSUME IInv, NEW t \in Tenant, RegisterLegacy(t)
  PROVE  IInv'
<1>1. /\ t \notin registered /\ t \in Namespace /\ bindings[t] = NoRow
      /\ registered' = registered \cup {t}
      /\ bindings' = [bindings EXCEPT ![t] = LegacyRow(t)]
      /\ UNCHANGED <<tokens, challenges, issued, history, request, finish>>
  BY AuthAssumption DEF RegisterLegacy
<1>2. LegacyRow(t) \in RowSet /\ LegacyRow(t).tenant = t /\ LegacyRow(t) # NoRow
      /\ LegacyRow(t).state # "retired"
  BY DEF LegacyRow, Row, RowSet, State, NoRow
<1>3. /\ bindings'[t] = LegacyRow(t)
      /\ \A n \in Namespace \ {t} : bindings'[n] = bindings[n]
      /\ bindings' \in [Namespace -> RowSet \cup {NoRow}]
  BY <1>1, <1>2 DEF IInv, TypeOK
<1>4. TypeOK'
  BY <1>1, <1>3 DEF IInv, TypeOK
<1>5. \A n \in Namespace : ~Serves(n, t)
  BY <1>1 DEF IInv, KnownTenants, Serves
<1>6. /\ Serves(t, t)' /\ \A u \in Tenant \ {t} : ~Serves(t, u)' /\ ~Serves(t, u)
      /\ \A n \in Namespace \ {t} : \A u \in Tenant : Serves(n, u)' <=> Serves(n, u)
  BY <1>1, <1>2, <1>3 DEF Serves
<1>7. OneServing'
  BY <1>5, <1>6 DEF IInv, OneServing
<1>8. \A u \in Tenant \ {t} : NamespaceOf(u)' = NamespaceOf(u) /\ VersionOf(u)' = VersionOf(u)
  <2> SUFFICES ASSUME NEW u \in Tenant \ {t}
               PROVE  NamespaceOf(u)' = NamespaceOf(u) /\ VersionOf(u)' = VersionOf(u)
    OBVIOUS
  <2>1. /\ \A n \in Namespace : Serves(n, u)' <=> Serves(n, u)
        /\ \A n \in Namespace : Serves(n, u) => bindings'[n] = bindings[n]
    BY <1>3, <1>6
  <2> QED BY <1>7, <2>1, FoundKept DEF IInv
<1>9. KnownTenants'
  BY <1>1, <1>2, <1>3 DEF IInv, KnownTenants
<1>10. ContentReachable'
  BY <1>1, <1>2, <1>3 DEF IInv, ContentReachable, TypeOK
<1>11. \A k \in DOMAIN tokens : tokens[k].tenant \in Tenant \ {t}
  BY <1>1 DEF IInv, KnownTenants, TypeOK
<1>12. AdmittedOwnsNamespace'
  BY <1>1, <1>8, <1>11, AdmittedKept
<1> QED BY <1>4, <1>7, <1>9, <1>10, <1>12 DEF IInv

\* The transaction of finish, when it allocates.
LEMMA AllocateKeepsIInv ==
  ASSUME IInv, NoLeases, NEW t \in Tenant, NEW n \in Namespace, NEW op \in OpId,
         t \in registered, NamespaceOf(t) # n, ~Fixed(t), Free(n), Allocate(t, n, op),
         UNCHANGED <<registered, issued, history, request>>,
         finish' \in
           [Binder -> [at : {"authed"}, token : DOMAIN tokens, op : OpId, id : Nat]
                      \cup {Idle}]
  PROVE  IInv'
<1> PICK old : old = NamespaceOf(t)
  OBVIOUS
<1> DEFINE fresh == Row(t, "active", VersionOf(t) + 1, op)
<1>1. VersionOf(t) \in Nat /\ old \in Namespace \cup {None} /\ None \notin Namespace
  BY VersionTyped, AuthAssumption DEF IInv
<1>2. fresh \in RowSet /\ fresh.tenant = t /\ fresh.state = "active" /\ fresh # NoRow
  BY <1>1 DEF Row, RowSet, State, NoRow
<1>3. /\ old # None => Serves(old, t)
      /\ \A m \in Namespace : Serves(m, t) => old = m
  BY FindsTheOne DEF IInv, Found
<1>4. bindings[n] = NoRow /\ n \notin history
  BY DEF Free
<1>5. old # None => bindings[old].state = "legacy_reserved" /\ old \notin history
  BY DEF Fixed, Bound
<1> HIDE DEF fresh
<1>6. /\ DOMAIN bindings' = Namespace
      /\ bindings'[n] = fresh
      /\ \A m \in Namespace \ {n, old} : bindings'[m] = bindings[m]
      /\ old # None => bindings'[old] = [bindings[old] EXCEPT !.state = "retired"]
  BY <1>1 DEF Allocate, fresh
<1>7. /\ tokens' = RevokedAll(t) /\ challenges' \subseteq challenges
  BY DEF Allocate
<1>8. old # None => /\ bindings[old] \in RowSet
                    /\ bindings'[old] \in RowSet
                    /\ bindings'[old].tenant = t /\ bindings'[old].state = "retired"
                    /\ bindings'[old] # NoRow
  <2> SUFFICES ASSUME old # None
               PROVE  /\ bindings[old] \in RowSet
                      /\ bindings'[old] \in RowSet
                      /\ bindings'[old].tenant = t /\ bindings'[old].state = "retired"
                      /\ bindings'[old] # NoRow
    OBVIOUS
  <2>1. bindings[old] \in RowSet /\ bindings[old].tenant = t
    BY <1>1, <1>3 DEF IInv, TypeOK, Serves
  <2>2. bindings'[old] = [bindings[old] EXCEPT !.state = "retired"]
    BY <1>6
  <2>3. bindings'[old].state # NoRow.state
    BY <2>1, <2>2 DEF RowSet, NoRow
  <2> QED BY <2>1, <2>2, <2>3 DEF RowSet, State
<1>9. /\ tokens' \in Seq(TokenRow) /\ DOMAIN tokens' = DOMAIN tokens
      /\ \A k \in DOMAIN tokens : /\ tokens'[k].tenant = tokens[k].tenant
                                  /\ tokens'[k].content = tokens[k].content
                                  /\ tokens'[k].version = tokens[k].version
                                  /\ tokens'[k].live => tokens[k].live
                                  /\ tokens[k].tenant = t => ~tokens'[k].live
  BY <1>7, DeadRows DEF IInv, RevokedAll
<1>10. bindings' \in [Namespace -> RowSet \cup {NoRow}]
  <2>1. \A m \in Namespace : bindings'[m] \in RowSet \cup {NoRow}
    BY <1>1, <1>2, <1>6, <1>8 DEF IInv, TypeOK
  <2>2. bindings' = [m \in Namespace |-> bindings'[m]]
    BY DEF Allocate
  <2> QED BY <2>1, <2>2
<1>11. TypeOK'
  BY <1>7, <1>9, <1>10 DEF IInv, TypeOK
<1>12. /\ Serves(n, t)'
       /\ \A m \in Namespace \ {n} : ~Serves(m, t)'
       /\ \A u \in Tenant \ {t} : \A m \in Namespace : Serves(m, u)' <=> Serves(m, u)
       /\ \A u \in Tenant \ {t} : \A m \in Namespace : Serves(m, u) => m \notin {n, old}
  <2>1. Serves(n, t)' /\ \A u \in Tenant \ {t} : ~Serves(n, u)' /\ ~Serves(n, u)
    BY <1>2, <1>4, <1>6 DEF Serves
  <2>2. old # None =>
          \A u \in Tenant : ~Serves(old, u)' /\ (u # t => ~Serves(old, u))
    BY <1>3, <1>8 DEF Serves
  <2>3. \A m \in Namespace \ {n, old} : \A u \in Tenant : Serves(m, u)' <=> Serves(m, u)
    BY <1>6 DEF Serves
  <2>4. \A m \in Namespace \ {n, old} : ~Serves(m, t)
    BY <1>3
  <2> QED BY <1>1, <2>1, <2>2, <2>3, <2>4
<1>13. OneServing'
  BY <1>12 DEF IInv, OneServing
<1>14. \A u \in Tenant \ {t} : NamespaceOf(u)' = NamespaceOf(u) /\ VersionOf(u)' = VersionOf(u)
  <2> SUFFICES ASSUME NEW u \in Tenant \ {t}
               PROVE  NamespaceOf(u)' = NamespaceOf(u) /\ VersionOf(u)' = VersionOf(u)
    OBVIOUS
  <2>1. /\ \A m \in Namespace : Serves(m, u)' <=> Serves(m, u)
        /\ \A m \in Namespace : Serves(m, u) => bindings'[m] = bindings[m]
    BY <1>6, <1>12
  <2> QED BY <1>13, <2>1, FoundKept DEF IInv
<1>15. KnownTenants'
  BY <1>1, <1>2, <1>6, <1>8, <1>9 DEF IInv, KnownTenants
<1>16. ContentReachable'
  BY <1>1, <1>4, <1>5, <1>6 DEF IInv, ContentReachable, TypeOK
<1>17. AdmittedOwnsNamespace'
  <2>1. \A k \in DOMAIN tokens : tokens[k].tenant \in Tenant
    BY DEF IInv, KnownTenants, TypeOK
  <2> QED BY <1>9, <1>14, <2>1, AdmittedKept DEF NoLeases
<1> QED BY <1>11, <1>13, <1>15, <1>16, <1>17 DEF IInv

LEMMA CommitKeepsIInv ==
  ASSUME IInv, NEW b \in Binder, Commit(b)
  PROVE  IInv'
<1> DEFINE call == finish[b]
           t == tokens[call.token].tenant
<1>1. /\ call.at = "authed" /\ NoLeases /\ finish' = [finish EXCEPT ![b] = Idle]
      /\ UNCHANGED <<registered, issued, history, request>>
  BY DEF Commit
<1>2. call \in [at : {"authed"}, token : DOMAIN tokens, op : OpId, id : Nat]
  BY <1>1 DEF IInv, TypeOK, Idle
<1>3. t \in registered /\ t \in Tenant
  BY <1>2 DEF IInv, KnownTenants, TypeOK
<1>4. finish' \in
        [Binder -> [at : {"authed"}, token : DOMAIN tokens, op : OpId, id : Nat] \cup {Idle}]
  BY <1>1 DEF IInv, TypeOK
<1>5. CASE UNCHANGED <<bindings, tokens, challenges>>
  BY <1>1, <1>4, <1>5, NothingBound DEF IInv, TypeOK
<1>6. ASSUME NEW c \in ChallengesOf(t, call.op),
             NamespaceOf(t) # c.content, ~Fixed(t), Free(c.content),
             Allocate(t, c.content, call.op)
      PROVE  IInv'
  <2>1. c.content \in Namespace
    BY <1>6 DEF ChallengesOf, IInv, TypeOK, ChallengeRow
  <2> HIDE DEF t
  <2> QED BY <1>1, <1>2, <1>3, <1>4, <1>6, <2>1, AllocateKeepsIInv
<1> QED BY <1>5, <1>6 DEF Commit

-----------------------------------------------------------------------------

LEMMA InitIInv == Init => IInv
<1> SUFFICES ASSUME Init PROVE IInv
  OBVIOUS
<1>1. \A n \in Tenant : /\ LegacyRow(n) \in RowSet /\ LegacyRow(n).tenant = n
                        /\ LegacyRow(n).state # "retired"
  BY DEF LegacyRow, Row, RowSet, State
<1>2. \A n \in Namespace : bindings[n] = IF n \in Migrated THEN LegacyRow(n) ELSE NoRow
  BY DEF Init
<1>3. Migrated \subseteq Tenant /\ Tenant \subseteq Namespace
  BY AuthAssumption
<1>4. tokens = <<>> /\ DOMAIN tokens = {} /\ tokens \in Seq(TokenRow)
  BY DEF Init
<1>5. TypeOK
  BY <1>1, <1>2, <1>3, <1>4, AuthAssumption DEF Init, TypeOK
<1>6. OneServing
  BY <1>1, <1>2, <1>3 DEF OneServing, Serves
<1>7. KnownTenants
  BY <1>1, <1>2, <1>3, <1>4 DEF Init, KnownTenants
<1>8. AdmittedOwnsNamespace
  BY <1>4 DEF Init, AdmittedOwnsNamespace, Idle
<1>9. ContentReachable
  BY <1>1, <1>2, <1>3, AuthAssumption DEF Init, ContentReachable
<1> QED BY <1>5, <1>6, <1>7, <1>8, <1>9 DEF IInv

LEMMA NextKeepsIInv == IInv /\ [Next]_vars => IInv'
<1> SUFFICES ASSUME IInv, [Next]_vars PROVE IInv'
  OBVIOUS
<1>1. ASSUME NEW t \in Tenant, RegisterLegacy(t) \/ RegisterUnbound(t) PROVE IInv'
  BY <1>1, RegisterLegacyKeepsIInv, RegisterUnboundKeepsIInv
<1>2. ASSUME NEW t \in Tenant, NEW d \in Device, NEW v2 \in BOOLEAN, Login(t, d, v2)
      PROVE  IInv'
  BY <1>2, LoginKeepsIInv
<1>3. ASSUME NEW k \in DOMAIN tokens, Refresh(k) PROVE IInv'
  BY <1>3, RefreshKeepsIInv
<1>4. ASSUME NEW k \in DOMAIN tokens, NEW d \in Device, Revoke(k, d) PROVE IInv'
  BY <1>4, RevokeKeepsIInv
<1>5. ASSUME NEW k \in DOMAIN tokens, Expire(k) PROVE IInv'
  <2>1. /\ tokens' = Dead({k}) /\ TypeOK
        /\ UNCHANGED <<registered, bindings, challenges, issued, history, request, finish>>
    BY <1>5 DEF Expire, IInv
  <2> QED BY <2>1, DeadRows, TokensKeepIInv
<1>6. ASSUME NEW q \in Request, NEW k \in DOMAIN tokens, Authenticate(q, k) PROVE IInv'
  BY <1>6, AuthenticateKeepsIInv
<1>7. ASSUME NEW q \in Request, Admit(q) \/ Write(q) \/ Return(q) PROVE IInv'
  BY <1>7, AdmitKeepsIInv, WriteKeepsIInv
<1>8. ASSUME NEW k \in DOMAIN tokens, NEW op \in OpId, NEW n \in Namespace, Start(k, op, n)
      PROVE  IInv'
  BY <1>8, ChallengeKeepsIInv
<1>9. ASSUME NEW c \in challenges, ExpireChallenge(c) PROVE IInv'
  BY <1>9, ExpireChallengeKeepsIInv
<1>10. ASSUME NEW b \in Binder, NEW k \in DOMAIN tokens, NEW c \in challenges, Finish(b, k, c)
       PROVE  IInv'
  BY <1>10, FinishKeepsIInv
<1>11. ASSUME NEW b \in Binder, Commit(b) PROVE IInv'
  BY <1>11, CommitKeepsIInv
<1>12. CASE UNCHANGED vars
  BY <1>12, NothingBound DEF vars, IInv, TypeOK
<1> QED
  BY <1>1, <1>2, <1>3, <1>4, <1>5, <1>6, <1>7, <1>8, <1>9, <1>10, <1>11, <1>12 DEF Next

\* The inductive invariant holds in every reachable state of the auth store.
THEOREM AuthInvariant == Spec => []IInv
BY InitIInv, NextKeepsIInv, PTL DEF Spec

\* with_account_store looks again under the lease: what is admitted writes into the
\* tenant's present namespace, and finish leaves no live token of an older binding.
THEOREM AdmittedIsOwner == Spec => []AdmittedOwnsNamespace
<1>1. IInv => AdmittedOwnsNamespace
  BY DEF IInv
<1> QED BY <1>1, AuthInvariant, PTL

\* binding_is_fixed and the lease: a namespace that was written is never retired.
THEOREM ContentStaysReachable == Spec => []ContentReachable
<1>1. IInv => ContentReachable
  BY DEF IInv
<1> QED BY <1>1, AuthInvariant, PTL

\* content_bindings: a namespace keeps the tenant it was first reserved for, and an
\* active binding never changes again.
THEOREM BindingsAreForGood == Spec => BindingForGood
<1> DEFINE Kept ==
      \A n \in Namespace : bindings[n] # NoRow =>
        /\ bindings'[n] # NoRow
        /\ bindings'[n].tenant = bindings[n].tenant
        /\ bindings[n].state = "active" => bindings'[n] = bindings[n]
<1>1. IInv /\ [Next]_vars => [Kept]_vars
  <2> SUFFICES ASSUME IInv, [Next]_vars PROVE Kept
    OBVIOUS
  <2>1. CASE UNCHANGED bindings
    BY <2>1
  <2>2. ASSUME NEW t \in Tenant, RegisterLegacy(t) PROVE Kept
    BY <2>2 DEF RegisterLegacy, IInv, TypeOK
  <2>3. ASSUME NEW b \in Binder, Commit(b), ~UNCHANGED bindings PROVE Kept
    <3> DEFINE call == finish[b]
    <3> PICK t : t = tokens[call.token].tenant
      OBVIOUS
    <3>1. PICK c \in ChallengesOf(t, call.op) :
             ~Fixed(t) /\ Free(c.content) /\ Allocate(t, c.content, call.op)
      BY <2>3 DEF Commit
    <3>2. t \in Tenant
      <4>1. call \in [at : {"authed"}, token : DOMAIN tokens, op : OpId, id : Nat]
        BY <2>3 DEF Commit, IInv, TypeOK, Idle
      <4> QED BY <4>1 DEF IInv, KnownTenants, TypeOK
    <3>3. /\ NamespaceOf(t) # None => Serves(NamespaceOf(t), t) /\ bindings[NamespaceOf(t)].state # "active"
          /\ None \notin Namespace
      BY <3>1, <3>2, FindsTheOne, AuthAssumption DEF IInv, Found, Fixed, Bound
    <3>4. bindings[c.content] = NoRow
      BY <3>1 DEF Free
    <3>5. \A n \in Namespace \ {c.content, NamespaceOf(t)} : bindings'[n] = bindings[n]
      BY <3>1 DEF Allocate
    <3>6. ASSUME NamespaceOf(t) \in Namespace, NamespaceOf(t) # c.content
          PROVE  /\ bindings'[NamespaceOf(t)] # NoRow
                 /\ bindings'[NamespaceOf(t)].tenant = bindings[NamespaceOf(t)].tenant
                 /\ bindings[NamespaceOf(t)].state # "active"
      <4>1. bindings'[NamespaceOf(t)] = [bindings[NamespaceOf(t)] EXCEPT !.state = "retired"]
        BY <3>1, <3>6 DEF Allocate
      <4>2. bindings[NamespaceOf(t)] \in RowSet
        BY <3>3, <3>6 DEF IInv, TypeOK, Serves
      <4>3. /\ bindings'[NamespaceOf(t)].tenant = bindings[NamespaceOf(t)].tenant
            /\ bindings'[NamespaceOf(t)].state = "retired"
        BY <4>1, <4>2 DEF RowSet
      <4>4. bindings'[NamespaceOf(t)] # NoRow
        BY <4>3 DEF NoRow
      <4> QED BY <3>3, <3>6, <4>3, <4>4
    <3> QED BY <3>4, <3>5, <3>6
  <2> QED
    BY <2>1, <2>2, <2>3
    DEF Next, vars, RegisterUnbound, Login, Refresh, Expire, Revoke, Authenticate, Admit,
        Write, Return, Start, ExpireChallenge, Finish
<1> QED BY <1>1, AuthInvariant, PTL DEF Spec, BindingForGood
=============================================================================
