------------------------ MODULE WebOnboardingProofs ------------------------
(***************************************************************************)
(* The set-up of encrypted sync for any hosts, identities, operators and   *)
(* faults.                                                                 *)
(*                                                                         *)
(* A command is a sequence of steps, each of which relies on what earlier  *)
(* ones have written and on nothing else having changed it since.  The     *)
(* inductive invariant says, for each place a command can be at, what is   *)
(* written by then; and what a host that was interrupted there may rely on *)
(* when it comes back.                                                     *)
(***************************************************************************)
EXTENDS WebOnboarding, PositionProofs

Known == Id \cup {None}
Phase ==
  {"", "credentials", "authenticating", "keys", "enrollment", "recovery", "ready", "active"}
Op == {"none", "authenticate", "renew", "recover", "enroll", "accept", "approve", "start"}
Place ==
  {"idle", "authenticating", "canonical", "intent", "login", "identify", "accountId", "bind",
   "relogin", "session", "cleared", "device", "root", "recovery", "publish", "published",
   "keys", "ready", "forget", "activate", "adopt", "active", "start", "spawn", "enrolled",
   "wrap", "attest"}
Session == [tenant : Identity \cup {Nobody}, content : Known]
Envelope == [from : Host, to : Host, ark : Known]

SetupRec ==
  [flow : Flow \cup {"none"}, phase : Phase, ack : BOOLEAN, approver : Host \cup {Nobody}]
BindingRec ==
  [state : {"none", "pending", "active"}, flow : Flow \cup {"none"}, content : Known,
   tenant : Identity \cup {Nobody}]
LocalRec == [account : Known, needs_login : BOOLEAN, items : BOOLEAN]
KeysRec ==
  [device : BOOLEAN, ark : Known, id : Known, session : Session, capture : Blob,
   approvals : SUBSET Host]
CmdRec ==
  [pc : Place, op : Op, identity : Identity \cup {Nobody}, session : Session,
   ark : Known, remote : Blob, device : Host \cup {Nobody}]
ProcRec == [unlocked : BOOLEAN, worker : BOOLEAN, shown : BOOLEAN]

RelayTyped(r) ==
  /\ DOMAIN r = {"bound", "roster", "trust", "wraps", "recovery", "events"}
  /\ r.bound \in [Identity -> Known]
  /\ r.roster \in [Id -> SUBSET Host]
  /\ r.trust \in [Id -> Seq(Host \X Host)]
  /\ r.wraps \in [Id -> Seq(Envelope)]
  /\ r.recovery \in [Id -> Blob]
  /\ DOMAIN r.events = Id

TypeOK ==
  /\ setup \in [Host -> SetupRec]
  /\ binding \in [Host -> BindingRec]
  /\ local \in [Host -> LocalRec]
  /\ keys \in [Host -> KeysRec]
  /\ cmd \in [Host -> CmdRec]
  /\ proc \in [Host -> ProcRec]
  /\ \A r \in {relay} : RelayTyped(r)
  /\ minted \in Nat

-----------------------------------------------------------------------------
(* What one host h has written, by the place its command is at: its set-up s, *)
(* binding b, database l, key file k, command c and process p.                *)

Joining(s) == s.flow = "join"
Begun(b) == b.state # "none"
Material(k) == k.device /\ k.ark # None /\ k.id # None
PastRoster ==
  {"root", "recovery", "publish", "published", "ready", "forget", "activate", "adopt",
   "active", "start", "spawn"}
SetUp == {"recovery", "ready", "active"}

\* The flow is chosen once, and the binding is of that flow.
FlowFixed(s, b) ==
  /\ s.flow = "none" <=> s.phase = ""
  /\ s.flow = "none" => ~Begun(b)
  /\ IF Begun(b) THEN b.flow = s.flow /\ b.content # None
                 ELSE b.content = None /\ b.tenant = Nobody

\* Once bound, the key file is for the bound content; a device that joins has no root key
\* before it has that.
KeysFit(s, b, k, c) ==
  /\ ~Joining(s) => (k.ark = None => k.id = None)
  /\ Begun(b) /\ ~Joining(s) => Material(k) /\ k.id = b.content
  /\ Joining(s) /\ (Begun(b) \/ c.pc \in {"authenticating", "login"}) =>
       /\ k.device
       /\ k.id \in {None, b.content}
       /\ k.ark # None => k.id # None

\* The places before the binding begins, and those that log in.
LoginFits(s, b, k, c) ==
  /\ c.pc \in {"authenticating", "canonical", "intent", "login", "bind", "relogin"} =>
       c.identity \in Identity
  /\ c.pc \in {"authenticating", "canonical", "intent"} =>
       c.op = "authenticate" /\ s.flow # "none"
  /\ c.pc = "authenticating" =>
       /\ s.flow = "create" => Material(k)
       /\ s.flow = "attach" => k.ark # None /\ k.device
  /\ c.pc = "canonical" => s.flow = "attach" /\ k.id = None /\ k.ark # None /\ k.device
  /\ c.pc = "intent" => ~Joining(s) /\ Material(k)
  /\ c.pc = "login" =>
       \/ c.op = "authenticate" /\ Joining(s)
       \/ c.op \in {"authenticate", "renew"} /\ Begun(b) /\ Material(k) /\ k.id = b.content
  /\ c.pc \in {"bind", "relogin"} => c.op = "authenticate" /\ Begun(b) /\ ~Joining(s)
  /\ c.pc = "bind" => c.session.tenant \in Identity
  /\ c.pc \in {"identify", "accountId"} => c.op = "authenticate" /\ Begun(b) /\ Joining(s)
  /\ c.pc \in {"identify", "accountId", "session"} => c.session.content = b.content
  /\ c.pc \in {"session", "cleared"} =>
       Begun(b) /\ k.id = b.content /\ c.op \in {"authenticate", "renew"}

\* The places after it.
AdoptFits(s, b, l, k, c) ==
  /\ \/ c.pc \in PastRoster \cup {"device"} \/ c.op = "renew" \/ s.phase \in SetUp
     \/ b.state = "active"
     => Begun(b) /\ Material(k) /\ k.id = b.content
  /\ c.pc = "device" => c.op \in {"authenticate", "recover", "accept"}
  /\ c.pc = "root" => c.op \in {"authenticate", "recover"}
  /\ c.pc \in {"device", "root"} /\ c.op = "authenticate" => ~Joining(s)
  /\ c.pc \in {"recovery", "publish", "published"} => ~Joining(s)
  /\ c.pc = "keys" => Begun(b) /\ Joining(s) /\ k.id = b.content /\ c.op \in {"recover", "accept"}
  /\ c.pc = "adopt" => k.session = [tenant |-> b.tenant, content |-> b.content]
  /\ c.pc \in {"active", "start", "spawn", "wrap", "attest"} => b.state = "active"
  /\ c.pc = "enrolled" => Joining(s)
  /\ c.pc \in {"enrolled", "wrap", "attest"} => c.device \in Host
  /\ b.state = "active" => l.account = b.content

\* The page says what the worker does, and the worker of a created account syncs only once
\* its code was acknowledged.
WorkerFits(s, b, c, p) ==
  /\ IF c.pc = "spawn" THEN p.shown /\ ~p.worker ELSE p.shown <=> p.worker
  /\ s.flow = "create" /\ (p.worker \/ c.pc = "spawn") => s.ack
  /\ p.worker => b.state = "active"

\* A code is captured to be published.
CaptureFits(s, b, k, c, h) ==
  /\ k.capture # NoBlob => k.ark # None /\ k.capture = [code |-> h, ark |-> k.ark]
  /\ c.pc \in {"publish", "published"} => k.capture # NoBlob
  /\ s.ack => Begun(b)

Fits(h, s, b, l, k, c, p) ==
  /\ FlowFixed(s, b) /\ KeysFit(s, b, k, c) /\ LoginFits(s, b, k, c)
  /\ AdoptFits(s, b, l, k, c) /\ WorkerFits(s, b, c, p) /\ CaptureFits(s, b, k, c, h)

-----------------------------------------------------------------------------
(* What a host may rely on at the relay r. *)

\* A session is what its identity is bound to, for good.
Valid(r, x) == x.tenant \in Identity /\ x.content # None /\ r.bound[x.tenant] = x.content

\* Who syncs, or is about to, is on the roster.
Syncing(s, b, c) ==
  b.state = "active" \/ c.pc \in PastRoster \/ c.op = "renew" \/ s.phase \in SetUp

Holds(h, s, b, k, c, r) ==
  /\ k.session # NoSession => Valid(r, k.session)
  /\ c.pc \in {"identify", "accountId", "session"} => Valid(r, c.session)
  /\ b.state = "active" => b.tenant \in Identity /\ r.bound[b.tenant] = b.content
  /\ Syncing(s, b, c) => h \in r.roster[b.content]
  /\ s.flow = "create" /\ (s.ack \/ s.phase = "recovery") =>
       r.recovery[b.content] = [code |-> h, ark |-> k.ark]

HostsOK ==
  \A h \in Host :
    \A s \in {setup[h]}, b \in {binding[h]}, l \in {local[h]}, k \in {keys[h]},
       c \in {cmd[h]}, p \in {proc[h]}, r \in {relay} :
      Fits(h, s, b, l, k, c, p) /\ Holds(h, s, b, k, c, r)

\* a is the root key of content x: some host holds both.
Root(x, a) == a # None /\ \E h \in Host : keys[h].id = x /\ keys[h].ark = a

\* The relay r holds it, sealed, in recovery blob or bundle.
Stored(r, x, a) ==
  \/ r.recovery[x] # NoBlob /\ r.recovery[x].ark = a
  \/ \E i \in DOMAIN r.wraps[x] : r.wraps[x][i].ark = a

OneRoot ==
  \A g, h \in Host :
    keys[g].id = keys[h].id /\ keys[h].id # None /\ keys[g].ark # None /\ keys[h].ark # None
      => keys[g].ark = keys[h].ark
RelayRoots == \A x \in Id, a \in Known, r \in {relay} : Stored(r, x, a) => Root(x, a)
JoinRoots ==
  \A h \in Host, x \in Known, a \in Known :
    cmd[h].pc = "keys" /\ binding[h].content = x /\ cmd[h].ark = a => Root(x, a)
RootsOK == OneRoot /\ RelayRoots /\ JoinRoots

\* A created account has a content id of its own, which only those who join it share.
Making == {"authenticating", "intent"}
Created(h) == setup[h].flow = "create" /\ (binding[h].state # "none" \/ cmd[h].pc \in Making)
ContentOwned ==
  \A g, h \in Host : g # h /\ Created(h) /\ setup[g].flow # "join" => keys[g].id # keys[h].id

\* Ids and root keys are generated once.
MintedOnce ==
  /\ \A h \in Host : keys[h].id <= minted /\ keys[h].ark <= minted
  /\ \A i \in Identity : relay.bound[i] <= minted

\* The inductive invariant.
IInv == TypeOK /\ HostsOK /\ RootsOK /\ ContentOwned /\ MintedOnce /\ PublishedOnce

-----------------------------------------------------------------------------
(* Steps of one host. *)

Now(h, s, b, l, k, c, p) ==
  setup[h] = s /\ binding[h] = b /\ local[h] = l /\ keys[h] = k /\ cmd[h] = c /\ proc[h] = p

\* Host h's records become these; no other host's change.
Moved(h, s, b, l, k, c, p) ==
  /\ setup' \in [Host -> SetupRec] /\ \A g \in Host : setup'[g] = IF g = h THEN s ELSE setup[g]
  /\ binding' \in [Host -> BindingRec]
  /\ \A g \in Host : binding'[g] = IF g = h THEN b ELSE binding[g]
  /\ local' \in [Host -> LocalRec] /\ \A g \in Host : local'[g] = IF g = h THEN l ELSE local[g]
  /\ keys' \in [Host -> KeysRec] /\ \A g \in Host : keys'[g] = IF g = h THEN k ELSE keys[g]
  /\ cmd' \in [Host -> CmdRec] /\ \A g \in Host : cmd'[g] = IF g = h THEN c ELSE cmd[g]
  /\ proc' \in [Host -> ProcRec] /\ \A g \in Host : proc'[g] = IF g = h THEN p ELSE proc[g]

LEMMA Here ==
  ASSUME TypeOK, HostsOK, NEW h \in Host
  PROVE  \E s \in SetupRec, b \in BindingRec, l \in LocalRec, k \in KeysRec, c \in CmdRec,
            p \in ProcRec :
           /\ Now(h, s, b, l, k, c, p) /\ Fits(h, s, b, l, k, c, p)
           /\ Holds(h, s, b, k, c, relay)
<1> DEFINE s == setup[h]
           b == binding[h]
           l == local[h]
           k == keys[h]
           c == cmd[h]
           p == proc[h]
<1>1. /\ s \in SetupRec /\ b \in BindingRec /\ l \in LocalRec /\ k \in KeysRec /\ c \in CmdRec
      /\ p \in ProcRec
  BY DEF TypeOK
<1>2. Now(h, s, b, l, k, c, p)
  BY DEF Now
<1>3. Fits(h, s, b, l, k, c, p) /\ Holds(h, s, b, k, c, relay)
  BY DEF HostsOK
<1> QED BY <1>1, <1>2, <1>3

\* The commands a step leaves: further on, with the session of a login, a new one.
To(c, pc) == [c EXCEPT !.pc = pc]
LoggedIn(c, x, pc) == [c EXCEPT !.session = x, !.pc = pc]
Anew(op, pc, i) == [Idle EXCEPT !.op = op, !.pc = pc, !.identity = i]

LEMMA GoesTo ==
  ASSUME NEW c \in CmdRec, NEW pc
  PROVE  /\ pc \in Place => To(c, pc) \in CmdRec
         /\ To(c, pc).pc = pc /\ To(c, pc).op = c.op /\ To(c, pc).identity = c.identity
         /\ To(c, pc).session = c.session /\ To(c, pc).device = c.device
         /\ To(c, pc).ark = c.ark
BY DEF To, CmdRec

LEMMA LogsIn ==
  ASSUME NEW c \in CmdRec, NEW pc, NEW x
  PROVE  /\ pc \in Place /\ x \in Session => LoggedIn(c, x, pc) \in CmdRec
         /\ LoggedIn(c, x, pc).pc = pc /\ LoggedIn(c, x, pc).op = c.op
         /\ LoggedIn(c, x, pc).identity = c.identity /\ LoggedIn(c, x, pc).session = x
         /\ LoggedIn(c, x, pc).device = c.device /\ LoggedIn(c, x, pc).ark = c.ark
BY DEF LoggedIn, CmdRec

LEMMA Begins ==
  ASSUME NEW op, NEW pc, NEW i
  PROVE  /\ op \in Op /\ pc \in Place /\ i \in Identity \cup {Nobody} =>
              Anew(op, pc, i) \in CmdRec
         /\ Anew(op, pc, i).pc = pc /\ Anew(op, pc, i).op = op /\ Anew(op, pc, i).identity = i
<1>1. Idle \in CmdRec
  BY DEF Idle, CmdRec, Place, Op, Session, Known, Blob, NoSession, NoBlob
<1> QED BY <1>1 DEF Anew, CmdRec

LEMMA IdleTyped == Idle \in CmdRec /\ Idle.pc = "idle" /\ Idle.op = "none"
BY DEF Idle, CmdRec, Place, Op, Session, Known, Blob, NoSession, NoBlob

LEMMA MinOf == ASSUME NEW S \in SUBSET Nat, S # {} PROVE Min(S) \in S
BY LeastMember DEF Min

\* What the records must be after a step that generates nothing, with the relay r.
KeepsKeys(h, k) ==
  /\ keys[h].ark # None => k.ark = keys[h].ark
  /\ keys[h].id # None => k.id = keys[h].id
  /\ keys[h].device => k.device
SameKeys(h, k) == k.id = keys[h].id /\ k.ark = keys[h].ark /\ k.device = keys[h].device
JoinsRoot(h, b, c) ==
  c.pc = "keys" =>
    \/ cmd[h].pc = "keys" /\ c.ark = cmd[h].ark /\ b.content = binding[h].content
    \/ Root(b.content, c.ark)
Settled(h, s, b, l, k, c, p, r) ==
  /\ Fits(h, s, b, l, k, c, p) /\ Holds(h, s, b, k, c, r)
  /\ SameKeys(h, k) /\ JoinsRoot(h, b, c)
  /\ s.flow = "create" /\ (b.state # "none" \/ c.pc \in Making) => Created(h)
  /\ s.flow # "join" => setup[h].flow # "join"

\* A step that generates and publishes nothing.
Quietly(h, s, b, l, k, c, p) ==
  UNCHANGED <<relay, minted>> /\ Settled(h, s, b, l, k, c, p, relay)

QuietStep(h) ==
  \E s \in SetupRec, b \in BindingRec, l \in LocalRec, k \in KeysRec, c \in CmdRec,
     p \in ProcRec :
    Moved(h, s, b, l, k, c, p) /\ Quietly(h, s, b, l, k, c, p)

LEMMA QuietBy ==
  ASSUME NEW h \in Host, NEW s, NEW b, NEW l, NEW k, NEW c, NEW p,
         Moved(h, s, b, l, k, c, p), Quietly(h, s, b, l, k, c, p)
  PROVE  QuietStep(h)
<1>1. /\ s \in SetupRec /\ b \in BindingRec /\ l \in LocalRec /\ k \in KeysRec /\ c \in CmdRec
      /\ p \in ProcRec
  <2>1. /\ setup'[h] = s /\ binding'[h] = b /\ local'[h] = l /\ keys'[h] = k /\ cmd'[h] = c
        /\ proc'[h] = p
    BY DEF Moved
  <2> QED BY <2>1 DEF Moved
<1> QED BY <1>1 DEF QuietStep

-----------------------------------------------------------------------------
(* The actions that publish and generate nothing.  Each proof names the records that the action *)
(* leaves, and shows them typed, moved to, fit and held; an action that branches has a lemma    *)
(* for each branch.                                                                             *)

USE DEF Now, SameKeys, JoinsRoot, Joining, Begun, Making, Material, PastRoster, SetUp, FlowFixed,
  KeysFit, LoginFits, AdoptFits, WorkerFits, CaptureFits, Valid, Syncing, At, Goto, Done, Begin,
  Progress, Idle, Page, Content

LEMMA UnlockQuiet ==
  ASSUME TypeOK, HostsOK, NEW h \in Host, Unlock(h), binding[h].state = "active"
  PROVE  QuietStep(h)
<1>1. PICK s \in SetupRec, b \in BindingRec, l \in LocalRec, k \in KeysRec, c \in CmdRec,
           p \in ProcRec :
        /\ Now(h, s, b, l, k, c, p) /\ Fits(h, s, b, l, k, c, p)
        /\ Holds(h, s, b, k, c, relay)
  BY Here
<1> DEFINE p2 == [unlocked |-> TRUE, worker |-> FALSE, shown |-> FALSE]
           c2 == Anew("start", "start", Nobody)
<1>2. p2 \in ProcRec
  BY <1>1 DEF Unlock, ProcRec
<1>3. c2 \in CmdRec
  BY <1>1, Begins DEF Place, Op
<1>4. Moved(h, s, b, l, k, c2, p2)
  BY <1>1, <1>2, <1>3 DEF Moved, TypeOK, Unlock, Anew
<1>5. p2.unlocked = TRUE /\ p2.worker = FALSE /\ p2.shown = FALSE
  OBVIOUS
<1>6. c2.pc = "start" /\ c2.op = "start" /\ c2.identity = Nobody
  BY Begins
<1> HIDE DEF p2, c2
<1>7. Fits(h, s, b, l, k, c2, p2)
  BY <1>1, <1>5, <1>6 DEF Fits, Unlock
<1>8. Holds(h, s, b, k, c2, relay)
  BY <1>1, <1>5, <1>6 DEF Holds, Unlock
<1>9. Quietly(h, s, b, l, k, c2, p2)
  BY <1>1, <1>7, <1>8, <1>5, <1>6 DEF Quietly, Settled, Created, Unlock
<1> QED BY <1>4, <1>9, QuietBy

LEMMA UnlockBeforeQuiet ==
  ASSUME TypeOK, HostsOK, NEW h \in Host, Unlock(h), binding[h].state # "active"
  PROVE  QuietStep(h)
<1>1. PICK s \in SetupRec, b \in BindingRec, l \in LocalRec, k \in KeysRec, c \in CmdRec,
           p \in ProcRec :
        /\ Now(h, s, b, l, k, c, p) /\ Fits(h, s, b, l, k, c, p)
        /\ Holds(h, s, b, k, c, relay)
  BY Here
<1> DEFINE p2 == [unlocked |-> TRUE, worker |-> FALSE, shown |-> FALSE]
<1>2. p2 \in ProcRec
  BY <1>1 DEF Unlock, ProcRec
<1>3. Moved(h, s, b, l, k, c, p2)
  BY <1>1, <1>2 DEF Moved, TypeOK, Unlock
<1>4. p2.unlocked = TRUE /\ p2.worker = FALSE /\ p2.shown = FALSE
  OBVIOUS
<1> HIDE DEF p2
<1>5. Fits(h, s, b, l, k, c, p2)
  BY <1>1, <1>4 DEF Fits, Unlock
<1>6. Holds(h, s, b, k, c, relay)
  BY <1>1, <1>4 DEF Holds, Unlock
<1>7. Quietly(h, s, b, l, k, c, p2)
  BY <1>1, <1>5, <1>6, <1>4 DEF Quietly, Settled, Created, Unlock
<1> QED BY <1>3, <1>7, QuietBy

LEMMA SelectQuiet ==
  ASSUME TypeOK, HostsOK, NEW h \in Host, NEW flow \in Flow, Select(h, flow)
  PROVE  QuietStep(h)
<1>1. PICK s \in SetupRec, b \in BindingRec, l \in LocalRec, k \in KeysRec, c \in CmdRec,
           p \in ProcRec :
        /\ Now(h, s, b, l, k, c, p) /\ Fits(h, s, b, l, k, c, p)
        /\ Holds(h, s, b, k, c, relay)
  BY Here
<1> DEFINE s2 == [s EXCEPT !.flow = flow, !.phase = "credentials"]
<1>2. s2 \in SetupRec
  BY <1>1 DEF Select, SetupRec, Phase
<1>3. Moved(h, s2, b, l, k, c, p)
  BY <1>1, <1>2 DEF Moved, TypeOK, Select, Flow
<1>4. s2.flow = flow /\ s2.phase = "credentials" /\ s2.ack = s.ack /\ s2.approver = s.approver
  BY DEF SetupRec
<1> HIDE DEF s2
<1>5. Fits(h, s2, b, l, k, c, p)
  BY <1>1, <1>4 DEF Fits, Select, Flow
<1>6. Holds(h, s2, b, k, c, relay)
  BY <1>1, <1>4 DEF Holds, Fits, Select, Flow
<1>7. Quietly(h, s2, b, l, k, c, p)
  BY <1>1, <1>5, <1>6, <1>4 DEF Quietly, Settled, Created, Select, Flow, Fits
<1> QED BY <1>3, <1>7, QuietBy

LEMMA AcknowledgeQuiet ==
  ASSUME TypeOK, HostsOK, NEW h \in Host, Acknowledge(h)
  PROVE  QuietStep(h)
<1>1. PICK s \in SetupRec, b \in BindingRec, l \in LocalRec, k \in KeysRec, c \in CmdRec,
           p \in ProcRec :
        /\ Now(h, s, b, l, k, c, p) /\ Fits(h, s, b, l, k, c, p)
        /\ Holds(h, s, b, k, c, relay)
  BY Here
<1> DEFINE s2 == [s EXCEPT !.ack = TRUE, !.phase = "ready"]
           c2 == Anew("start", "forget", Nobody)
<1>2. s2 \in SetupRec
  BY <1>1 DEF Acknowledge, SetupRec, Phase
<1>3. c2 \in CmdRec
  BY <1>1, Begins DEF Place, Op
<1>4. Moved(h, s2, b, l, k, c2, p)
  BY <1>1, <1>2, <1>3 DEF Moved, TypeOK, Acknowledge, HasMaterial, Anew
<1>5. s2.flow = s.flow /\ s2.phase = "ready" /\ s2.ack = TRUE /\ s2.approver = s.approver
  BY DEF SetupRec
<1>6. c2.pc = "forget" /\ c2.op = "start" /\ c2.identity = Nobody
  BY Begins
<1> HIDE DEF s2, c2
<1>7. Fits(h, s2, b, l, k, c2, p)
  BY <1>1, <1>5, <1>6 DEF Fits, Acknowledge, HasMaterial
<1>8. Holds(h, s2, b, k, c2, relay)
  BY <1>1, <1>5, <1>6 DEF Holds, Acknowledge, HasMaterial
<1>9. Quietly(h, s2, b, l, k, c2, p)
  BY <1>1, <1>7, <1>8, <1>5, <1>6 DEF Quietly, Settled, Created, Acknowledge, HasMaterial
<1> QED BY <1>4, <1>9, QuietBy

LEMMA ForgetQuiet ==
  ASSUME TypeOK, HostsOK, NEW h \in Host, Forget(h)
  PROVE  QuietStep(h)
<1>1. PICK s \in SetupRec, b \in BindingRec, l \in LocalRec, k \in KeysRec, c \in CmdRec,
           p \in ProcRec :
        /\ Now(h, s, b, l, k, c, p) /\ Fits(h, s, b, l, k, c, p)
        /\ Holds(h, s, b, k, c, relay)
  BY Here
<1> DEFINE k2 == [k EXCEPT !.capture = NoBlob]
           c2 == To(c, "activate")
<1>2. k2 \in KeysRec
  BY <1>1 DEF Forget, KeysRec, Known, Blob, NoBlob, Session, NoSession
<1>3. c2 \in CmdRec
  BY <1>1, GoesTo DEF Place
<1>4. Moved(h, s, b, l, k2, c2, p)
  BY <1>1, <1>2, <1>3 DEF Moved, TypeOK, Forget, RemoveBootstrapRecovery, To
<1>5. /\ k2.device = k.device /\ k2.ark = k.ark /\ k2.id = k.id /\ k2.session = k.session
      /\ k2.capture = NoBlob
  BY DEF KeysRec
<1>6. /\ c2.pc = "activate" /\ c2.op = c.op /\ c2.identity = c.identity /\ c2.session = c.session
      /\ c2.device = c.device /\ c2.ark = c.ark
  BY GoesTo
<1> HIDE DEF k2, c2
<1>7. Fits(h, s, b, l, k2, c2, p)
  BY <1>1, <1>5, <1>6 DEF Fits, Forget, RemoveBootstrapRecovery
<1>8. Holds(h, s, b, k2, c2, relay)
  BY <1>1, <1>5, <1>6 DEF Holds, Forget, RemoveBootstrapRecovery
<1>9. Quietly(h, s, b, l, k2, c2, p)
  BY <1>1, <1>7, <1>8, <1>5, <1>6 DEF Quietly, Settled, Created, Forget, RemoveBootstrapRecovery
<1> QED BY <1>4, <1>9, QuietBy

LEMMA RestartQuiet ==
  ASSUME TypeOK, HostsOK, NEW h \in Host, Restart(h)
  PROVE  QuietStep(h)
<1>1. PICK s \in SetupRec, b \in BindingRec, l \in LocalRec, k \in KeysRec, c \in CmdRec,
           p \in ProcRec :
        /\ Now(h, s, b, l, k, c, p) /\ Fits(h, s, b, l, k, c, p)
        /\ Holds(h, s, b, k, c, relay)
  BY Here
<1> DEFINE p2 == [p EXCEPT !.worker = FALSE, !.shown = FALSE]
           c2 == Anew("start", "activate", Nobody)
<1>2. p2 \in ProcRec
  BY <1>1 DEF Restart, ProcRec
<1>3. c2 \in CmdRec
  BY <1>1, Begins DEF Place, Op
<1>4. Moved(h, s, b, l, k, c2, p2)
  BY <1>1, <1>2, <1>3 DEF Moved, TypeOK, Restart, StopWorker, Anew
<1>5. p2.unlocked = p.unlocked /\ p2.worker = FALSE /\ p2.shown = FALSE
  BY DEF ProcRec
<1>6. c2.pc = "activate" /\ c2.op = "start" /\ c2.identity = Nobody
  BY Begins
<1> HIDE DEF p2, c2
<1>7. Fits(h, s, b, l, k, c2, p2)
  BY <1>1, <1>5, <1>6 DEF Fits, Restart, StopWorker
<1>8. Holds(h, s, b, k, c2, relay)
  BY <1>1, <1>5, <1>6 DEF Holds, Restart, StopWorker
<1>9. Quietly(h, s, b, l, k, c2, p2)
  BY <1>1, <1>7, <1>8, <1>5, <1>6 DEF Quietly, Settled, Created, Restart, StopWorker
<1> QED BY <1>4, <1>9, QuietBy

LEMMA RenewQuiet ==
  ASSUME TypeOK, HostsOK, NEW h \in Host, NEW i \in Logins[h], Renew(h, i)
  PROVE  QuietStep(h)
<1>1. PICK s \in SetupRec, b \in BindingRec, l \in LocalRec, k \in KeysRec, c \in CmdRec,
           p \in ProcRec :
        /\ Now(h, s, b, l, k, c, p) /\ Fits(h, s, b, l, k, c, p)
        /\ Holds(h, s, b, k, c, relay)
  BY Here
<1> DEFINE p2 == [p EXCEPT !.worker = FALSE, !.shown = FALSE]
           c2 == Anew("renew", "login", i)
<1>2. p2 \in ProcRec
  BY <1>1, OnboardingAssumption DEF Renew, ProcRec
<1>3. c2 \in CmdRec
  BY <1>1, OnboardingAssumption, Begins DEF Place, Op
<1>4. Moved(h, s, b, l, k, c2, p2)
  BY <1>1, <1>2, <1>3 DEF Moved, TypeOK, Renew, StopWorker, HasMaterial, Anew
<1>5. p2.unlocked = p.unlocked /\ p2.worker = FALSE /\ p2.shown = FALSE
  BY DEF ProcRec
<1>6. c2.pc = "login" /\ c2.op = "renew" /\ c2.identity = i
  BY Begins
<1> HIDE DEF p2, c2
<1>7. Fits(h, s, b, l, k, c2, p2)
  BY <1>1, <1>5, <1>6, OnboardingAssumption DEF Fits, Renew, StopWorker, HasMaterial
<1>8. Holds(h, s, b, k, c2, relay)
  BY <1>1, <1>5, <1>6, OnboardingAssumption DEF Holds, Renew, StopWorker, HasMaterial
<1>9. Quietly(h, s, b, l, k, c2, p2)
  BY <1>1, <1>7, <1>8, <1>5, <1>6, OnboardingAssumption DEF Quietly, Settled, Created, Renew,
    StopWorker, HasMaterial
<1> QED BY <1>4, <1>9, QuietBy

LEMMA PauseQuiet ==
  ASSUME TypeOK, HostsOK, NEW h \in Host, Pause(h)
  PROVE  QuietStep(h)
<1>1. PICK s \in SetupRec, b \in BindingRec, l \in LocalRec, k \in KeysRec, c \in CmdRec,
           p \in ProcRec :
        /\ Now(h, s, b, l, k, c, p) /\ Fits(h, s, b, l, k, c, p)
        /\ Holds(h, s, b, k, c, relay)
  BY Here
<1> DEFINE p2 == [p EXCEPT !.worker = FALSE, !.shown = FALSE]
<1>2. p2 \in ProcRec
  BY <1>1 DEF Pause, ProcRec
<1>3. Moved(h, s, b, l, k, c, p2)
  BY <1>1, <1>2 DEF Moved, TypeOK, Pause, StopWorker
<1>4. p2.unlocked = p.unlocked /\ p2.worker = FALSE /\ p2.shown = FALSE
  BY DEF ProcRec
<1> HIDE DEF p2
<1>5. Fits(h, s, b, l, k, c, p2)
  BY <1>1, <1>4 DEF Fits, Pause, StopWorker
<1>6. Holds(h, s, b, k, c, relay)
  BY <1>1, <1>4 DEF Holds, Pause, StopWorker
<1>7. Quietly(h, s, b, l, k, c, p2)
  BY <1>1, <1>5, <1>6, <1>4 DEF Quietly, Settled, Created, Pause, StopWorker
<1> QED BY <1>3, <1>7, QuietBy

LEMMA EnrolledQuiet ==
  ASSUME TypeOK, HostsOK, NEW h \in Host, Enrolled(h)
  PROVE  QuietStep(h)
<1>1. PICK s \in SetupRec, b \in BindingRec, l \in LocalRec, k \in KeysRec, c \in CmdRec,
           p \in ProcRec :
        /\ Now(h, s, b, l, k, c, p) /\ Fits(h, s, b, l, k, c, p)
        /\ Holds(h, s, b, k, c, relay)
  BY Here
<1> DEFINE s2 == [s EXCEPT !.approver = c.device, !.phase = "enrollment"]
           c2 == Idle
<1>2. s2 \in SetupRec
  BY <1>1 DEF Enrolled, SetupRec, Phase, CmdRec, Fits
<1>3. c2 \in CmdRec
  BY IdleTyped
<1>4. Moved(h, s2, b, l, k, c2, p)
  BY <1>1, <1>2, <1>3 DEF Moved, TypeOK, Enrolled
<1>5. s2.flow = s.flow /\ s2.phase = "enrollment" /\ s2.ack = s.ack /\ s2.approver = c.device
  BY DEF SetupRec
<1>6. c2.pc = "idle" /\ c2.op = "none"
  BY IdleTyped
<1> HIDE DEF s2, c2
<1>7. Fits(h, s2, b, l, k, c2, p)
  BY <1>1, <1>5, <1>6 DEF Fits, Enrolled
<1>8. Holds(h, s2, b, k, c2, relay)
  BY <1>1, <1>5, <1>6 DEF Holds, Enrolled
<1>9. Quietly(h, s2, b, l, k, c2, p)
  BY <1>1, <1>7, <1>8, <1>5, <1>6 DEF Quietly, Settled, Created, Enrolled
<1> QED BY <1>4, <1>9, QuietBy

LEMMA ApproveQuiet ==
  ASSUME TypeOK, HostsOK, NEW h \in Host, NEW d \in Host, Approve(h, d)
  PROVE  QuietStep(h)
<1>1. PICK s \in SetupRec, b \in BindingRec, l \in LocalRec, k \in KeysRec, c \in CmdRec,
           p \in ProcRec :
        /\ Now(h, s, b, l, k, c, p) /\ Fits(h, s, b, l, k, c, p)
        /\ Holds(h, s, b, k, c, relay)
  BY Here
<1> DEFINE k2 == [k EXCEPT !.approvals = @ \cup {d}]
           c2 == [Idle EXCEPT !.op = "approve", !.pc = "wrap", !.device = d]
<1>2. k2 \in KeysRec
  BY <1>1 DEF Approve, KeysRec, Known, Blob, NoBlob, Session, NoSession
<1>3. c2 \in CmdRec
  BY <1>1 DEF Approve, CmdRec, Place, Op, NoSession, NoBlob, Session, Blob, Known
<1>4. Moved(h, s, b, l, k2, c2, p)
  BY <1>1, <1>2, <1>3 DEF Moved, TypeOK, Approve, HasMaterial, HasProvider
<1>5. /\ k2.device = k.device /\ k2.ark = k.ark /\ k2.id = k.id /\ k2.session = k.session
      /\ k2.capture = k.capture
  BY DEF KeysRec
<1>6. c2.op = "approve" /\ c2.pc = "wrap" /\ c2.device = d
  BY DEF CmdRec
<1> HIDE DEF k2, c2
<1>7. Fits(h, s, b, l, k2, c2, p)
  BY <1>1, <1>5, <1>6 DEF Fits, Approve, HasMaterial, HasProvider
<1>8. Holds(h, s, b, k2, c2, relay)
  BY <1>1, <1>5, <1>6 DEF Holds, Approve, HasMaterial, HasProvider
<1>9. Quietly(h, s, b, l, k2, c2, p)
  BY <1>1, <1>7, <1>8, <1>5, <1>6 DEF Quietly, Settled, Created, Approve, HasMaterial, HasProvider
<1> QED BY <1>4, <1>9, QuietBy

LEMMA AuthenticatingToJoinQuiet ==
  ASSUME TypeOK, HostsOK, NEW h \in Host, Authenticating(h), setup[h].flow = "join"
  PROVE  QuietStep(h)
<1>1. PICK s \in SetupRec, b \in BindingRec, l \in LocalRec, k \in KeysRec, c \in CmdRec,
           p \in ProcRec :
        /\ Now(h, s, b, l, k, c, p) /\ Fits(h, s, b, l, k, c, p)
        /\ Holds(h, s, b, k, c, relay)
  BY Here
<1> DEFINE s2 == [s EXCEPT !.phase = "authenticating"]
           c2 == To(c, "login")
<1>2. s2 \in SetupRec
  BY <1>1 DEF Authenticating, SetupRec, Phase
<1>3. c2 \in CmdRec
  BY <1>1, GoesTo DEF Place
<1>4. Moved(h, s2, b, l, k, c2, p)
  BY <1>1, <1>2, <1>3 DEF Moved, TypeOK, Authenticating, To
<1>5. /\ s2.flow = s.flow /\ s2.phase = "authenticating" /\ s2.ack = s.ack
      /\ s2.approver = s.approver
  BY DEF SetupRec
<1>6. /\ c2.pc = "login" /\ c2.op = c.op /\ c2.identity = c.identity /\ c2.session = c.session
      /\ c2.device = c.device /\ c2.ark = c.ark
  BY GoesTo
<1> HIDE DEF s2, c2
<1>7. Fits(h, s2, b, l, k, c2, p)
  BY <1>1, <1>5, <1>6 DEF Fits, Authenticating
<1>8. Holds(h, s2, b, k, c2, relay)
  BY <1>1, <1>5, <1>6 DEF Holds, Authenticating
<1>9. Quietly(h, s2, b, l, k, c2, p)
  BY <1>1, <1>7, <1>8, <1>5, <1>6 DEF Quietly, Settled, Created, Authenticating
<1> QED BY <1>4, <1>9, QuietBy

LEMMA AuthenticatingWithoutIdQuiet ==
  ASSUME TypeOK, HostsOK, NEW h \in Host, Authenticating(h),
         setup[h].flow # "join", keys[h].id = None
  PROVE  QuietStep(h)
<1>1. PICK s \in SetupRec, b \in BindingRec, l \in LocalRec, k \in KeysRec, c \in CmdRec,
           p \in ProcRec :
        /\ Now(h, s, b, l, k, c, p) /\ Fits(h, s, b, l, k, c, p)
        /\ Holds(h, s, b, k, c, relay)
  BY Here
<1> DEFINE s2 == [s EXCEPT !.phase = "authenticating"]
           c2 == To(c, "canonical")
<1>2. s2 \in SetupRec
  BY <1>1 DEF Authenticating, SetupRec, Phase
<1>3. c2 \in CmdRec
  BY <1>1, GoesTo DEF Place
<1>4. Moved(h, s2, b, l, k, c2, p)
  BY <1>1, <1>2, <1>3 DEF Moved, TypeOK, Authenticating, To
<1>5. /\ s2.flow = s.flow /\ s2.phase = "authenticating" /\ s2.ack = s.ack
      /\ s2.approver = s.approver
  BY DEF SetupRec
<1>6. /\ c2.pc = "canonical" /\ c2.op = c.op /\ c2.identity = c.identity /\ c2.session = c.session
      /\ c2.device = c.device /\ c2.ark = c.ark
  BY GoesTo
<1> HIDE DEF s2, c2
<1>7. Fits(h, s2, b, l, k, c2, p)
  BY <1>1, <1>5, <1>6 DEF Fits, Authenticating, SetupRec, Flow
<1>8. Holds(h, s2, b, k, c2, relay)
  BY <1>1, <1>5, <1>6 DEF Holds, SetupRec, Flow, Authenticating
<1>9. Quietly(h, s2, b, l, k, c2, p)
  BY <1>1, <1>7, <1>8, <1>5, <1>6 DEF Quietly, Settled, Created, Authenticating
<1> QED BY <1>4, <1>9, QuietBy

LEMMA AuthenticatingQuiet ==
  ASSUME TypeOK, HostsOK, NEW h \in Host, Authenticating(h),
         setup[h].flow # "join", keys[h].id # None
  PROVE  QuietStep(h)
<1>1. PICK s \in SetupRec, b \in BindingRec, l \in LocalRec, k \in KeysRec, c \in CmdRec,
           p \in ProcRec :
        /\ Now(h, s, b, l, k, c, p) /\ Fits(h, s, b, l, k, c, p)
        /\ Holds(h, s, b, k, c, relay)
  BY Here
<1> DEFINE s2 == [s EXCEPT !.phase = "authenticating"]
           c2 == To(c, "intent")
<1>2. s2 \in SetupRec
  BY <1>1 DEF Authenticating, SetupRec, Phase
<1>3. c2 \in CmdRec
  BY <1>1, GoesTo DEF Place
<1>4. Moved(h, s2, b, l, k, c2, p)
  BY <1>1, <1>2, <1>3 DEF Moved, TypeOK, Authenticating, To
<1>5. /\ s2.flow = s.flow /\ s2.phase = "authenticating" /\ s2.ack = s.ack
      /\ s2.approver = s.approver
  BY DEF SetupRec
<1>6. /\ c2.pc = "intent" /\ c2.op = c.op /\ c2.identity = c.identity /\ c2.session = c.session
      /\ c2.device = c.device /\ c2.ark = c.ark
  BY GoesTo
<1> HIDE DEF s2, c2
<1>7. Fits(h, s2, b, l, k, c2, p)
  BY <1>1, <1>5, <1>6 DEF Fits, Authenticating, SetupRec, Flow
<1>8. Holds(h, s2, b, k, c2, relay)
  BY <1>1, <1>5, <1>6 DEF Holds, SetupRec, Flow, Authenticating
<1>9. Quietly(h, s2, b, l, k, c2, p)
  BY <1>1, <1>7, <1>8, <1>5, <1>6 DEF Quietly, Settled, Created, Authenticating
<1> QED BY <1>4, <1>9, QuietBy

LEMMA IntentAgainQuiet ==
  ASSUME TypeOK, HostsOK, NEW h \in Host, Intent(h), binding[h].state # "none"
  PROVE  QuietStep(h)
<1>1. PICK s \in SetupRec, b \in BindingRec, l \in LocalRec, k \in KeysRec, c \in CmdRec,
           p \in ProcRec :
        /\ Now(h, s, b, l, k, c, p) /\ Fits(h, s, b, l, k, c, p)
        /\ Holds(h, s, b, k, c, relay)
  BY Here
<1> DEFINE c2 == To(c, "login")
<1>2. c2 \in CmdRec
  BY <1>1, GoesTo DEF Place
<1>3. Moved(h, s, b, l, k, c2, p)
  BY <1>1, <1>2 DEF Moved, TypeOK, Intent, IntentAdmits, BeginRemoteBinding, To
<1>4. /\ c2.pc = "login" /\ c2.op = c.op /\ c2.identity = c.identity /\ c2.session = c.session
      /\ c2.device = c.device /\ c2.ark = c.ark
  BY GoesTo
<1> HIDE DEF c2
<1>5. Fits(h, s, b, l, k, c2, p)
  BY <1>1, <1>4 DEF Fits, Intent, IntentAdmits, BeginRemoteBinding
<1>6. Holds(h, s, b, k, c2, relay)
  BY <1>1, <1>4 DEF Holds, Intent, IntentAdmits, BeginRemoteBinding
<1>7. Quietly(h, s, b, l, k, c2, p)
  BY <1>1, <1>5, <1>6, <1>4 DEF Quietly, Settled, Created, Intent, IntentAdmits,
    BeginRemoteBinding
<1> QED BY <1>3, <1>7, QuietBy

LEMMA IntentQuiet ==
  ASSUME TypeOK, HostsOK, NEW h \in Host, Intent(h), binding[h].state = "none"
  PROVE  QuietStep(h)
<1>1. PICK s \in SetupRec, b \in BindingRec, l \in LocalRec, k \in KeysRec, c \in CmdRec,
           p \in ProcRec :
        /\ Now(h, s, b, l, k, c, p) /\ Fits(h, s, b, l, k, c, p)
        /\ Holds(h, s, b, k, c, relay)
  BY Here
<1> DEFINE b2 == [state |-> "pending", flow |-> s.flow, content |-> k.id, tenant |-> Nobody]
           c2 == To(c, "login")
<1>2. b2 \in BindingRec
  BY <1>1 DEF Intent, BindingRec, Known, KeysRec, SetupRec
<1>3. c2 \in CmdRec
  BY <1>1, GoesTo DEF Place
<1>4. Moved(h, s, b2, l, k, c2, p)
  BY <1>1, <1>2, <1>3 DEF Moved, TypeOK, Intent, IntentAdmits, BeginRemoteBinding, To
<1>5. b2.state = "pending" /\ b2.flow = s.flow /\ b2.content = k.id /\ b2.tenant = Nobody
  OBVIOUS
<1>6. /\ c2.pc = "login" /\ c2.op = c.op /\ c2.identity = c.identity /\ c2.session = c.session
      /\ c2.device = c.device /\ c2.ark = c.ark
  BY GoesTo
<1> HIDE DEF b2, c2
<1>7. Fits(h, s, b2, l, k, c2, p)
  BY <1>1, <1>5, <1>6 DEF Fits, Intent, IntentAdmits, BeginRemoteBinding, SetupRec
<1>8. Holds(h, s, b2, k, c2, relay)
  BY <1>1, <1>5, <1>6 DEF Holds, SetupRec, Fits, Intent, IntentAdmits, BeginRemoteBinding
<1>9. Quietly(h, s, b2, l, k, c2, p)
  BY <1>1, <1>7, <1>8, <1>5, <1>6 DEF Quietly, Settled, Created, Intent, IntentAdmits,
    BeginRemoteBinding, Fits
<1> QED BY <1>4, <1>9, QuietBy

LEMMA LoginQuiet ==
  ASSUME TypeOK, HostsOK, NEW h \in Host, Login(h)
  PROVE  QuietStep(h)
<1>1. PICK s \in SetupRec, b \in BindingRec, l \in LocalRec, k \in KeysRec, c \in CmdRec,
           p \in ProcRec :
        /\ Now(h, s, b, l, k, c, p) /\ Fits(h, s, b, l, k, c, p)
        /\ Holds(h, s, b, k, c, relay)
  BY Here
<1>2. /\ c.identity \in Identity
      /\ LoginDevice(h) = [tenant |-> c.identity, content |-> relay.bound[c.identity]]
  BY <1>1 DEF Login, Fits, LoginDevice
<1>3. PICK x \in Session :
        x = LoginDevice(h) /\ x.tenant = c.identity /\ x.content = relay.bound[c.identity]
  BY <1>2 DEF Session, TypeOK, RelayTyped
<1> DEFINE b2 == [b EXCEPT !.tenant = c.identity]
           c2 == LoggedIn(c, x, "bind")
<1>4. b2 \in BindingRec
  BY <1>1, <1>2, <1>3, OnboardingAssumption DEF Login, BindingRec, Known, CmdRec, Fits
<1>5. c2 \in CmdRec
  BY <1>1, <1>2, <1>3, OnboardingAssumption, LogsIn DEF Place
<1>6. Moved(h, s, b2, l, k, c2, p)
  BY <1>1, <1>2, <1>3, <1>4, <1>5 DEF Moved, TypeOK, Login, LoginDevice, Identify, Nobody,
    LoggedIn
<1>7. /\ b2.state = b.state /\ b2.flow = b.flow /\ b2.content = b.content
      /\ b2.tenant = c.identity
  BY DEF BindingRec
<1>8. /\ c2.pc = "bind" /\ c2.op = c.op /\ c2.identity = c.identity /\ c2.session = x
      /\ c2.device = c.device /\ c2.ark = c.ark
  BY LogsIn
<1> HIDE DEF b2, c2
<1>9. Fits(h, s, b2, l, k, c2, p)
  BY ZenonT(60), <1>1, <1>2, <1>3, <1>7, <1>8, OnboardingAssumption DEF Fits, Login, LoginDevice,
    Identify, Nobody
<1>10. Holds(h, s, b2, k, c2, relay)
  BY <1>1, <1>2, <1>3, <1>7, <1>8, OnboardingAssumption DEF Holds, Login, LoginDevice, Identify,
    Nobody
<1>11. Quietly(h, s, b2, l, k, c2, p)
  BY <1>1, <1>9, <1>10, <1>2, <1>3, <1>7, <1>8, OnboardingAssumption DEF Quietly, Settled,
    Created, Login, LoginDevice, Identify, Nobody, Fits
<1> QED BY <1>6, <1>11, QuietBy

LEMMA LoginToJoinAgainQuiet ==
  ASSUME TypeOK, HostsOK, NEW h \in Host, LoginToJoin(h), binding[h].state # "none"
  PROVE  QuietStep(h)
<1>1. PICK s \in SetupRec, b \in BindingRec, l \in LocalRec, k \in KeysRec, c \in CmdRec,
           p \in ProcRec :
        /\ Now(h, s, b, l, k, c, p) /\ Fits(h, s, b, l, k, c, p)
        /\ Holds(h, s, b, k, c, relay)
  BY Here
<1>2. /\ c.identity \in Identity
      /\ LoginDevice(h) = [tenant |-> c.identity, content |-> relay.bound[c.identity]]
  BY <1>1 DEF LoginToJoin, Fits, LoginDevice
<1>3. PICK x \in Session :
        x = LoginDevice(h) /\ x.tenant = c.identity /\ x.content = relay.bound[c.identity]
  BY <1>2 DEF Session, TypeOK, RelayTyped
<1> DEFINE c2 == LoggedIn(c, x, "identify")
<1>4. c2 \in CmdRec
  BY <1>1, <1>2, <1>3, LogsIn DEF Place
<1>5. Moved(h, s, b, l, k, c2, p)
  BY <1>1, <1>2, <1>3, <1>4 DEF Moved, TypeOK, LoginToJoin, LoginDevice, IntentAdmits,
    BeginRemoteBinding, LoggedIn
<1>6. /\ c2.pc = "identify" /\ c2.op = c.op /\ c2.identity = c.identity /\ c2.session = x
      /\ c2.device = c.device /\ c2.ark = c.ark
  BY LogsIn
<1> HIDE DEF c2
<1>7. Valid(relay, x)
  BY <1>1, <1>2, <1>3 DEF LoginToJoin, LoginDevice, Fits
<1>8. Fits(h, s, b, l, k, c2, p)
  BY ZenonT(60), <1>1, <1>2, <1>3, <1>6 DEF Fits, LoginToJoin, LoginDevice, IntentAdmits,
    BeginRemoteBinding
<1>9. Holds(h, s, b, k, c2, relay)
  BY <1>1, <1>2, <1>3, <1>6, <1>7 DEF Holds, LoginDevice, IntentAdmits, BeginRemoteBinding
<1>10. Quietly(h, s, b, l, k, c2, p)
  BY <1>1, <1>8, <1>9, <1>2, <1>3, <1>6, <1>7 DEF Quietly, Settled, Created, LoginToJoin,
    LoginDevice, IntentAdmits, BeginRemoteBinding, Fits
<1> QED BY <1>5, <1>10, QuietBy

LEMMA LoginToJoinQuiet ==
  ASSUME TypeOK, HostsOK, NEW h \in Host, LoginToJoin(h), binding[h].state = "none"
  PROVE  QuietStep(h)
<1>1. PICK s \in SetupRec, b \in BindingRec, l \in LocalRec, k \in KeysRec, c \in CmdRec,
           p \in ProcRec :
        /\ Now(h, s, b, l, k, c, p) /\ Fits(h, s, b, l, k, c, p)
        /\ Holds(h, s, b, k, c, relay)
  BY Here
<1>2. /\ c.identity \in Identity
      /\ LoginDevice(h) = [tenant |-> c.identity, content |-> relay.bound[c.identity]]
  BY <1>1 DEF LoginToJoin, Fits, LoginDevice
<1>3. PICK x \in Session :
        x = LoginDevice(h) /\ x.tenant = c.identity /\ x.content = relay.bound[c.identity]
  BY <1>2 DEF Session, TypeOK, RelayTyped
<1> DEFINE b2 == [state |-> "pending", flow |-> s.flow, content |-> x.content,
                  tenant |-> Nobody]
           c2 == LoggedIn(c, x, "identify")
<1>4. b2 \in BindingRec
  BY <1>1, <1>2, <1>3 DEF LoginToJoin, BindingRec, Known, Session, SetupRec
<1>5. c2 \in CmdRec
  BY <1>1, <1>2, <1>3, LogsIn DEF Place
<1>6. Moved(h, s, b2, l, k, c2, p)
  BY <1>1, <1>2, <1>3, <1>4, <1>5 DEF Moved, TypeOK, LoginToJoin, LoginDevice, IntentAdmits,
    BeginRemoteBinding, LoggedIn
<1>7. b2.state = "pending" /\ b2.flow = s.flow /\ b2.content = x.content /\ b2.tenant = Nobody
  OBVIOUS
<1>8. /\ c2.pc = "identify" /\ c2.op = c.op /\ c2.identity = c.identity /\ c2.session = x
      /\ c2.device = c.device /\ c2.ark = c.ark
  BY LogsIn
<1> HIDE DEF b2, c2
<1>9. s.phase \notin SetUp /\ c.op = "authenticate" /\ Joining(s)
  BY <1>1 DEF LoginToJoin, Fits
<1>10. Valid(relay, x)
  BY <1>1, <1>2, <1>3 DEF LoginToJoin, LoginDevice, Fits
<1>11. Fits(h, s, b2, l, k, c2, p)
  <2>1. FlowFixed(s, b2)
    BY <1>1, <1>2, <1>3, <1>7, <1>8 DEF Fits, LoginToJoin, LoginDevice, IntentAdmits,
      BeginRemoteBinding, SetupRec
  <2>2. KeysFit(s, b2, k, c2)
    BY <1>1, <1>2, <1>3, <1>7, <1>8 DEF Fits, LoginToJoin, LoginDevice, IntentAdmits,
      BeginRemoteBinding, SetupRec
  <2>3. LoginFits(s, b2, k, c2)
    BY <1>2, <1>3, <1>7, <1>8, <1>9
  <2>4. AdoptFits(s, b2, l, k, c2)
    BY <1>1, <1>2, <1>3, <1>7, <1>8 DEF Fits, LoginToJoin, LoginDevice, IntentAdmits,
      BeginRemoteBinding, SetupRec
  <2>5. WorkerFits(s, b2, c2, p)
    BY <1>1, <1>2, <1>3, <1>7, <1>8 DEF Fits, LoginToJoin, LoginDevice, IntentAdmits,
      BeginRemoteBinding, SetupRec
  <2>6. CaptureFits(s, b2, k, c2, h)
    BY <1>1, <1>2, <1>3, <1>7, <1>8 DEF Fits, LoginToJoin, LoginDevice, IntentAdmits,
      BeginRemoteBinding, SetupRec
  <2> QED BY <2>1, <2>2, <2>3, <2>4, <2>5, <2>6 DEF Fits
<1>12. Holds(h, s, b2, k, c2, relay)
  BY <1>1, <1>2, <1>3, <1>7, <1>8, <1>9, <1>10 DEF Holds, LoginDevice, IntentAdmits,
    BeginRemoteBinding
<1>13. Quietly(h, s, b2, l, k, c2, p)
  BY <1>1, <1>11, <1>12, <1>2, <1>3, <1>7, <1>8, <1>9, <1>10 DEF Quietly, Settled, Created,
    LoginToJoin, LoginDevice, IntentAdmits, BeginRemoteBinding, Fits
<1> QED BY <1>6, <1>13, QuietBy

LEMMA LoginToRenewQuiet ==
  ASSUME TypeOK, HostsOK, NEW h \in Host, LoginToRenew(h)
  PROVE  QuietStep(h)
<1>1. PICK s \in SetupRec, b \in BindingRec, l \in LocalRec, k \in KeysRec, c \in CmdRec,
           p \in ProcRec :
        /\ Now(h, s, b, l, k, c, p) /\ Fits(h, s, b, l, k, c, p)
        /\ Holds(h, s, b, k, c, relay)
  BY Here
<1>2. /\ c.identity \in Identity
      /\ LoginDevice(h) = [tenant |-> c.identity, content |-> relay.bound[c.identity]]
  BY <1>1 DEF LoginToRenew, Fits, LoginDevice
<1>3. PICK x \in Session :
        x = LoginDevice(h) /\ x.tenant = c.identity /\ x.content = relay.bound[c.identity]
  BY <1>2 DEF Session, TypeOK, RelayTyped
<1> DEFINE c2 == LoggedIn(c, x, "session")
<1>4. c2 \in CmdRec
  BY <1>1, <1>2, <1>3, LogsIn DEF Place
<1>5. Moved(h, s, b, l, k, c2, p)
  BY <1>1, <1>2, <1>3, <1>4 DEF Moved, TypeOK, LoginToRenew, LoginDevice, LoggedIn
<1>6. /\ c2.pc = "session" /\ c2.op = c.op /\ c2.identity = c.identity /\ c2.session = x
      /\ c2.device = c.device /\ c2.ark = c.ark
  BY LogsIn
<1> HIDE DEF c2
<1>7. Valid(relay, x)
  BY <1>1, <1>2, <1>3 DEF LoginToRenew, LoginDevice, Fits
<1>8. Fits(h, s, b, l, k, c2, p)
  BY <1>1, <1>2, <1>3, <1>6 DEF Fits, LoginToRenew, LoginDevice
<1>9. Holds(h, s, b, k, c2, relay)
  BY <1>1, <1>2, <1>3, <1>6, <1>7 DEF Holds, LoginDevice
<1>10. Quietly(h, s, b, l, k, c2, p)
  BY <1>1, <1>8, <1>9, <1>2, <1>3, <1>6, <1>7 DEF Quietly, Settled, Created, LoginToRenew,
    LoginDevice, Fits
<1> QED BY <1>5, <1>10, QuietBy

LEMMA IdentifyJoinQuiet ==
  ASSUME TypeOK, HostsOK, NEW h \in Host, IdentifyJoin(h)
  PROVE  QuietStep(h)
<1>1. PICK s \in SetupRec, b \in BindingRec, l \in LocalRec, k \in KeysRec, c \in CmdRec,
           p \in ProcRec :
        /\ Now(h, s, b, l, k, c, p) /\ Fits(h, s, b, l, k, c, p)
        /\ Holds(h, s, b, k, c, relay)
  BY Here
<1> DEFINE b2 == [b EXCEPT !.tenant = c.session.tenant]
           c2 == To(c, "accountId")
<1>2. b2 \in BindingRec
  BY <1>1 DEF IdentifyJoin, BindingRec, Known, CmdRec, Session, Fits
<1>3. c2 \in CmdRec
  BY <1>1, GoesTo DEF Place
<1>4. Moved(h, s, b2, l, k, c2, p)
  BY <1>1, <1>2, <1>3 DEF Moved, TypeOK, IdentifyJoin, Identify, Nobody, To
<1>5. /\ b2.state = b.state /\ b2.flow = b.flow /\ b2.content = b.content
      /\ b2.tenant = c.session.tenant
  BY DEF BindingRec
<1>6. /\ c2.pc = "accountId" /\ c2.op = c.op /\ c2.identity = c.identity /\ c2.session = c.session
      /\ c2.device = c.device /\ c2.ark = c.ark
  BY GoesTo
<1> HIDE DEF b2, c2
<1>7. b.state = "active" => c.session.tenant = b.tenant
  BY <1>1, OnboardingAssumption DEF Holds, IdentifyJoin, Identify, Nobody
<1>8. Fits(h, s, b2, l, k, c2, p)
  <2>1. FlowFixed(s, b2)
    BY <1>1, <1>5, <1>6 DEF Fits, IdentifyJoin, Identify, Nobody
  <2>2. KeysFit(s, b2, k, c2)
    BY <1>1, <1>5, <1>6 DEF Fits, IdentifyJoin, Identify, Nobody
  <2>3. LoginFits(s, b2, k, c2)
    BY ZenonT(60), <1>1, <1>5, <1>6 DEF Fits, IdentifyJoin, Identify, Nobody
  <2>4. AdoptFits(s, b2, l, k, c2)
    BY <1>1, <1>5, <1>6 DEF Fits, IdentifyJoin, Identify, Nobody
  <2>5. WorkerFits(s, b2, c2, p)
    BY <1>1, <1>5, <1>6 DEF Fits, IdentifyJoin, Identify, Nobody
  <2>6. CaptureFits(s, b2, k, c2, h)
    BY <1>1, <1>5, <1>6 DEF Fits, IdentifyJoin, Identify, Nobody
  <2> QED BY <2>1, <2>2, <2>3, <2>4, <2>5, <2>6 DEF Fits
<1>9. Holds(h, s, b2, k, c2, relay)
  BY <1>1, <1>5, <1>6, <1>7 DEF Holds, IdentifyJoin, Identify, Nobody
<1>10. Quietly(h, s, b2, l, k, c2, p)
  BY <1>1, <1>8, <1>9, <1>5, <1>6, <1>7 DEF Quietly, Settled, Created, IdentifyJoin, Identify,
    Nobody, Fits
<1> QED BY <1>4, <1>10, QuietBy

LEMMA ReloginQuiet ==
  ASSUME TypeOK, HostsOK, NEW h \in Host, Relogin(h)
  PROVE  QuietStep(h)
<1>1. PICK s \in SetupRec, b \in BindingRec, l \in LocalRec, k \in KeysRec, c \in CmdRec,
           p \in ProcRec :
        /\ Now(h, s, b, l, k, c, p) /\ Fits(h, s, b, l, k, c, p)
        /\ Holds(h, s, b, k, c, relay)
  BY Here
<1>2. /\ c.identity \in Identity
      /\ LoginDevice(h) = [tenant |-> c.identity, content |-> relay.bound[c.identity]]
  BY <1>1 DEF Relogin, Fits, LoginDevice
<1>3. PICK x \in Session :
        x = LoginDevice(h) /\ x.tenant = c.identity /\ x.content = relay.bound[c.identity]
  BY <1>2 DEF Session, TypeOK, RelayTyped
<1> DEFINE c2 == LoggedIn(c, x, "session")
<1>4. c2 \in CmdRec
  BY <1>1, <1>2, <1>3, LogsIn DEF Place
<1>5. Moved(h, s, b, l, k, c2, p)
  BY <1>1, <1>2, <1>3, <1>4 DEF Moved, TypeOK, Relogin, LoginDevice, LoggedIn
<1>6. /\ c2.pc = "session" /\ c2.op = c.op /\ c2.identity = c.identity /\ c2.session = x
      /\ c2.device = c.device /\ c2.ark = c.ark
  BY LogsIn
<1> HIDE DEF c2
<1>7. Valid(relay, x)
  BY <1>1, <1>2, <1>3 DEF Relogin, LoginDevice, Fits
<1>8. Fits(h, s, b, l, k, c2, p)
  BY <1>1, <1>2, <1>3, <1>6 DEF Fits, Relogin, LoginDevice
<1>9. Holds(h, s, b, k, c2, relay)
  BY <1>1, <1>2, <1>3, <1>6, <1>7 DEF Holds, LoginDevice
<1>10. Quietly(h, s, b, l, k, c2, p)
  BY <1>1, <1>8, <1>9, <1>2, <1>3, <1>6, <1>7 DEF Quietly, Settled, Created, Relogin, LoginDevice,
    Fits
<1> QED BY <1>5, <1>10, QuietBy

LEMMA SaveSessionQuiet ==
  ASSUME TypeOK, HostsOK, NEW h \in Host, SaveSession(h)
  PROVE  QuietStep(h)
<1>1. PICK s \in SetupRec, b \in BindingRec, l \in LocalRec, k \in KeysRec, c \in CmdRec,
           p \in ProcRec :
        /\ Now(h, s, b, l, k, c, p) /\ Fits(h, s, b, l, k, c, p)
        /\ Holds(h, s, b, k, c, relay)
  BY Here
<1> DEFINE k2 == [k EXCEPT !.session = c.session]
           c2 == Anew(c.op, "cleared", Nobody)
<1>2. k2 \in KeysRec
  BY <1>1 DEF SaveSession, KeysRec, Known, Blob, NoBlob, Session, NoSession, CmdRec, Fits
<1>3. c2 \in CmdRec
  BY <1>1, Begins DEF Place, Op, SaveSession, Fits
<1>4. Moved(h, s, b, l, k2, c2, p)
  BY <1>1, <1>2, <1>3 DEF Moved, TypeOK, SaveSession, Anew
<1>5. /\ k2.device = k.device /\ k2.ark = k.ark /\ k2.id = k.id /\ k2.session = c.session
      /\ k2.capture = k.capture
  BY DEF KeysRec
<1>6. c2.pc = "cleared" /\ c2.op = c.op /\ c2.identity = Nobody
  BY Begins
<1> HIDE DEF k2, c2
<1>7. Fits(h, s, b, l, k2, c2, p)
  BY <1>1, <1>5, <1>6 DEF Fits, SaveSession
<1>8. Holds(h, s, b, k2, c2, relay)
  BY <1>1, <1>5, <1>6 DEF Holds, SaveSession
<1>9. Quietly(h, s, b, l, k2, c2, p)
  BY <1>1, <1>7, <1>8, <1>5, <1>6 DEF Quietly, Settled, Created, SaveSession
<1> QED BY <1>4, <1>9, QuietBy

LEMMA ClearToRenewQuiet ==
  ASSUME TypeOK, HostsOK, NEW h \in Host, ClearNeedsLogin(h), cmd[h].op = "renew"
  PROVE  QuietStep(h)
<1>1. PICK s \in SetupRec, b \in BindingRec, l \in LocalRec, k \in KeysRec, c \in CmdRec,
           p \in ProcRec :
        /\ Now(h, s, b, l, k, c, p) /\ Fits(h, s, b, l, k, c, p)
        /\ Holds(h, s, b, k, c, relay)
  BY Here
<1> DEFINE l2 == [l EXCEPT !.needs_login = FALSE]
           c2 == To(c, "ready")
<1>2. l2 \in LocalRec
  BY <1>1 DEF ClearNeedsLogin, LocalRec, Known
<1>3. c2 \in CmdRec
  BY <1>1, GoesTo DEF Place
<1>4. Moved(h, s, b, l2, k, c2, p)
  BY <1>1, <1>2, <1>3 DEF Moved, TypeOK, ClearNeedsLogin, HasProvider, To
<1>5. l2.account = l.account /\ l2.needs_login = FALSE /\ l2.items = l.items
  BY DEF LocalRec
<1>6. /\ c2.pc = "ready" /\ c2.op = c.op /\ c2.identity = c.identity /\ c2.session = c.session
      /\ c2.device = c.device /\ c2.ark = c.ark
  BY GoesTo
<1> HIDE DEF l2, c2
<1>7. Fits(h, s, b, l2, k, c2, p)
  BY <1>1, <1>5, <1>6 DEF Fits, ClearNeedsLogin, HasProvider
<1>8. Holds(h, s, b, k, c2, relay)
  BY <1>1, <1>5, <1>6 DEF Holds, ClearNeedsLogin, HasProvider
<1>9. Quietly(h, s, b, l2, k, c2, p)
  BY <1>1, <1>7, <1>8, <1>5, <1>6 DEF Quietly, Settled, Created, ClearNeedsLogin, HasProvider
<1> QED BY <1>4, <1>9, QuietBy

LEMMA ClearToJoinQuiet ==
  ASSUME TypeOK, HostsOK, NEW h \in Host, ClearNeedsLogin(h),
         cmd[h].op # "renew", setup[h].flow = "join"
  PROVE  QuietStep(h)
<1>1. PICK s \in SetupRec, b \in BindingRec, l \in LocalRec, k \in KeysRec, c \in CmdRec,
           p \in ProcRec :
        /\ Now(h, s, b, l, k, c, p) /\ Fits(h, s, b, l, k, c, p)
        /\ Holds(h, s, b, k, c, relay)
  BY Here
<1> DEFINE l2 == [l EXCEPT !.needs_login = FALSE]
           s2 == [s EXCEPT !.phase = "keys"]
           c2 == Idle
<1>2. l2 \in LocalRec
  BY <1>1 DEF ClearNeedsLogin, LocalRec, Known
<1>3. s2 \in SetupRec
  BY <1>1 DEF ClearNeedsLogin, SetupRec, Phase
<1>4. c2 \in CmdRec
  BY IdleTyped
<1>5. Moved(h, s2, b, l2, k, c2, p)
  BY <1>1, <1>2, <1>3, <1>4 DEF Moved, TypeOK, ClearNeedsLogin, HasProvider
<1>6. l2.account = l.account /\ l2.needs_login = FALSE /\ l2.items = l.items
  BY DEF LocalRec
<1>7. s2.flow = s.flow /\ s2.phase = "keys" /\ s2.ack = s.ack /\ s2.approver = s.approver
  BY DEF SetupRec
<1>8. c2.pc = "idle" /\ c2.op = "none"
  BY IdleTyped
<1> HIDE DEF l2, s2, c2
<1>9. Fits(h, s2, b, l2, k, c2, p)
  BY <1>1, <1>6, <1>7, <1>8 DEF Fits, ClearNeedsLogin, HasProvider
<1>10. Holds(h, s2, b, k, c2, relay)
  BY <1>1, <1>6, <1>7, <1>8 DEF Holds, ClearNeedsLogin, HasProvider
<1>11. Quietly(h, s2, b, l2, k, c2, p)
  BY <1>1, <1>9, <1>10, <1>6, <1>7, <1>8 DEF Quietly, Settled, Created, ClearNeedsLogin,
    HasProvider
<1> QED BY <1>5, <1>11, QuietBy

LEMMA ClearNeedsLoginQuiet ==
  ASSUME TypeOK, HostsOK, NEW h \in Host, ClearNeedsLogin(h),
         cmd[h].op # "renew", setup[h].flow # "join"
  PROVE  QuietStep(h)
<1>1. PICK s \in SetupRec, b \in BindingRec, l \in LocalRec, k \in KeysRec, c \in CmdRec,
           p \in ProcRec :
        /\ Now(h, s, b, l, k, c, p) /\ Fits(h, s, b, l, k, c, p)
        /\ Holds(h, s, b, k, c, relay)
  BY Here
<1> DEFINE l2 == [l EXCEPT !.needs_login = FALSE]
           c2 == To(c, "device")
<1>2. l2 \in LocalRec
  BY <1>1 DEF ClearNeedsLogin, LocalRec, Known
<1>3. c2 \in CmdRec
  BY <1>1, GoesTo DEF Place
<1>4. Moved(h, s, b, l2, k, c2, p)
  BY <1>1, <1>2, <1>3 DEF Moved, TypeOK, ClearNeedsLogin, HasProvider, To
<1>5. l2.account = l.account /\ l2.needs_login = FALSE /\ l2.items = l.items
  BY DEF LocalRec
<1>6. /\ c2.pc = "device" /\ c2.op = c.op /\ c2.identity = c.identity /\ c2.session = c.session
      /\ c2.device = c.device /\ c2.ark = c.ark
  BY GoesTo
<1> HIDE DEF l2, c2
<1>7. Fits(h, s, b, l2, k, c2, p)
  BY <1>1, <1>5, <1>6 DEF Fits, ClearNeedsLogin, HasProvider
<1>8. Holds(h, s, b, k, c2, relay)
  BY <1>1, <1>5, <1>6 DEF Holds, ClearNeedsLogin, HasProvider
<1>9. Quietly(h, s, b, l2, k, c2, p)
  BY <1>1, <1>7, <1>8, <1>5, <1>6 DEF Quietly, Settled, Created, ClearNeedsLogin, HasProvider
<1> QED BY <1>4, <1>9, QuietBy

LEMMA KeepRecoveryQuiet ==
  ASSUME TypeOK, HostsOK, NEW h \in Host, KeepRecovery(h)
  PROVE  QuietStep(h)
<1>1. PICK s \in SetupRec, b \in BindingRec, l \in LocalRec, k \in KeysRec, c \in CmdRec,
           p \in ProcRec :
        /\ Now(h, s, b, l, k, c, p) /\ Fits(h, s, b, l, k, c, p)
        /\ Holds(h, s, b, k, c, relay)
  BY Here
<1> DEFINE s2 == [s EXCEPT !.phase = "ready"]
           c2 == Idle
<1>2. s2 \in SetupRec
  BY <1>1 DEF KeepRecovery, SetupRec, Phase
<1>3. c2 \in CmdRec
  BY IdleTyped
<1>4. Moved(h, s2, b, l, k, c2, p)
  BY <1>1, <1>2, <1>3 DEF Moved, TypeOK, KeepRecovery
<1>5. s2.flow = s.flow /\ s2.phase = "ready" /\ s2.ack = s.ack /\ s2.approver = s.approver
  BY DEF SetupRec
<1>6. c2.pc = "idle" /\ c2.op = "none"
  BY IdleTyped
<1> HIDE DEF s2, c2
<1>7. Fits(h, s2, b, l, k, c2, p)
  BY <1>1, <1>5, <1>6 DEF Fits, KeepRecovery
<1>8. Holds(h, s2, b, k, c2, relay)
  BY <1>1, <1>5, <1>6 DEF Holds, KeepRecovery
<1>9. Quietly(h, s2, b, l, k, c2, p)
  BY <1>1, <1>7, <1>8, <1>5, <1>6 DEF Quietly, Settled, Created, KeepRecovery
<1> QED BY <1>4, <1>9, QuietBy

LEMMA PrepareRecoveryAgainQuiet ==
  ASSUME TypeOK, HostsOK, NEW h \in Host, PrepareRecovery(h), keys[h].capture # NoBlob
  PROVE  QuietStep(h)
<1>1. PICK s \in SetupRec, b \in BindingRec, l \in LocalRec, k \in KeysRec, c \in CmdRec,
           p \in ProcRec :
        /\ Now(h, s, b, l, k, c, p) /\ Fits(h, s, b, l, k, c, p)
        /\ Holds(h, s, b, k, c, relay)
  BY Here
<1>2. PICK m \in Blob : relay.recovery[b.content] = m
  BY <1>1 DEF PrepareRecovery, Fits, TypeOK, RelayTyped, BindingRec, Known
<1> DEFINE c2 == [c EXCEPT !.remote = m, !.pc = "publish"]
<1>3. c2 \in CmdRec
  BY <1>1, <1>2 DEF PrepareRecovery, CmdRec, Place, Op, NoSession, NoBlob, Session, Blob, Known
<1>4. Moved(h, s, b, l, k, c2, p)
  BY <1>1, <1>2, <1>3 DEF Moved, TypeOK, PrepareRecovery, KeysRec
<1>5. /\ c2.pc = "publish" /\ c2.op = c.op /\ c2.identity = c.identity /\ c2.session = c.session
      /\ c2.device = c.device /\ c2.ark = c.ark /\ c2.remote = m
  BY DEF CmdRec
<1> HIDE DEF c2
<1>6. Fits(h, s, b, l, k, c2, p)
  BY <1>1, <1>2, <1>5 DEF Fits, PrepareRecovery, KeysRec
<1>7. Holds(h, s, b, k, c2, relay)
  BY <1>1, <1>2, <1>5 DEF Holds, Fits, KeysRec, PrepareRecovery
<1>8. Quietly(h, s, b, l, k, c2, p)
  BY <1>1, <1>6, <1>7, <1>2, <1>5 DEF Quietly, Settled, Created, PrepareRecovery, Fits
<1> QED BY <1>4, <1>8, QuietBy

LEMMA PrepareRecoveryQuiet ==
  ASSUME TypeOK, HostsOK, NEW h \in Host, PrepareRecovery(h), keys[h].capture = NoBlob
  PROVE  QuietStep(h)
<1>1. PICK s \in SetupRec, b \in BindingRec, l \in LocalRec, k \in KeysRec, c \in CmdRec,
           p \in ProcRec :
        /\ Now(h, s, b, l, k, c, p) /\ Fits(h, s, b, l, k, c, p)
        /\ Holds(h, s, b, k, c, relay)
  BY Here
<1>2. PICK m \in Blob : relay.recovery[b.content] = m
  BY <1>1 DEF PrepareRecovery, Fits, TypeOK, RelayTyped, BindingRec, Known
<1> DEFINE k2 == [k EXCEPT !.capture = [code |-> h, ark |-> k.ark]]
           c2 == [c EXCEPT !.remote = m, !.pc = "publish"]
<1>3. k2 \in KeysRec
  BY <1>1, <1>2 DEF PrepareRecovery, KeysRec, Known, Blob, NoBlob, Session, NoSession
<1>4. c2 \in CmdRec
  BY <1>1, <1>2 DEF PrepareRecovery, CmdRec, Place, Op, NoSession, NoBlob, Session, Blob, Known
<1>5. Moved(h, s, b, l, k2, c2, p)
  BY <1>1, <1>2, <1>3, <1>4 DEF Moved, TypeOK, PrepareRecovery, NoBlob
<1>6. /\ k2.device = k.device /\ k2.ark = k.ark /\ k2.id = k.id /\ k2.session = k.session
      /\ k2.capture = [code |-> h, ark |-> k.ark]
  BY DEF KeysRec
<1>7. /\ c2.pc = "publish" /\ c2.op = c.op /\ c2.identity = c.identity /\ c2.session = c.session
      /\ c2.device = c.device /\ c2.ark = c.ark /\ c2.remote = m
  BY DEF CmdRec
<1> HIDE DEF k2, c2
<1>8. Fits(h, s, b, l, k2, c2, p)
  <2>1. FlowFixed(s, b)
    BY <1>1, <1>2, <1>6, <1>7 DEF Fits, PrepareRecovery, NoBlob
  <2>2. KeysFit(s, b, k2, c2)
    BY <1>1, <1>2, <1>6, <1>7 DEF Fits, PrepareRecovery, NoBlob
  <2>3. LoginFits(s, b, k2, c2)
    BY <1>1, <1>2, <1>6, <1>7 DEF Fits, PrepareRecovery, NoBlob
  <2>4. AdoptFits(s, b, l, k2, c2)
    BY <1>1, <1>2, <1>6, <1>7 DEF Fits, PrepareRecovery, NoBlob
  <2>5. WorkerFits(s, b, c2, p)
    BY <1>1, <1>2, <1>6, <1>7 DEF Fits, PrepareRecovery, NoBlob
  <2>6. CaptureFits(s, b, k2, c2, h)
    <3>1. k.ark # None
      BY <1>1 DEF Fits, PrepareRecovery
    <3>2. k2.capture # NoBlob
      BY <3>1, <1>6 DEF NoBlob
    <3> QED BY <1>1, <1>6, <1>7, <3>1, <3>2 DEF Fits
  <2> QED BY <2>1, <2>2, <2>3, <2>4, <2>5, <2>6 DEF Fits
<1>9. Holds(h, s, b, k2, c2, relay)
  BY <1>1, <1>2, <1>6, <1>7 DEF Holds, Fits, PrepareRecovery, NoBlob
<1>10. Quietly(h, s, b, l, k2, c2, p)
  BY <1>1, <1>8, <1>9, <1>2, <1>6, <1>7 DEF Quietly, Settled, Created, PrepareRecovery, NoBlob,
    Fits
<1> QED BY <1>5, <1>10, QuietBy

LEMMA RecoveryPublishedQuiet ==
  ASSUME TypeOK, HostsOK, NEW h \in Host, RecoveryPublished(h)
  PROVE  QuietStep(h)
<1>1. PICK s \in SetupRec, b \in BindingRec, l \in LocalRec, k \in KeysRec, c \in CmdRec,
           p \in ProcRec :
        /\ Now(h, s, b, l, k, c, p) /\ Fits(h, s, b, l, k, c, p)
        /\ Holds(h, s, b, k, c, relay)
  BY Here
<1> DEFINE s2 == [s EXCEPT !.phase = "recovery"]
           c2 == Idle
<1>2. s2 \in SetupRec
  BY <1>1 DEF RecoveryPublished, SetupRec, Phase
<1>3. c2 \in CmdRec
  BY IdleTyped
<1>4. Moved(h, s2, b, l, k, c2, p)
  BY <1>1, <1>2, <1>3 DEF Moved, TypeOK, RecoveryPublished
<1>5. s2.flow = s.flow /\ s2.phase = "recovery" /\ s2.ack = s.ack /\ s2.approver = s.approver
  BY DEF SetupRec
<1>6. c2.pc = "idle" /\ c2.op = "none"
  BY IdleTyped
<1> HIDE DEF s2, c2
<1>7. Fits(h, s2, b, l, k, c2, p)
  BY <1>1, <1>5, <1>6 DEF Fits, RecoveryPublished
<1>8. Holds(h, s2, b, k, c2, relay)
  BY ZenonT(60), <1>1, <1>5, <1>6 DEF Holds, Fits, RecoveryPublished
<1>9. Quietly(h, s2, b, l, k, c2, p)
  BY <1>1, <1>7, <1>8, <1>5, <1>6 DEF Quietly, Settled, Created, RecoveryPublished, Fits
<1> QED BY <1>4, <1>9, QuietBy

LEMMA ReadyQuiet ==
  ASSUME TypeOK, HostsOK, NEW h \in Host, Ready(h)
  PROVE  QuietStep(h)
<1>1. PICK s \in SetupRec, b \in BindingRec, l \in LocalRec, k \in KeysRec, c \in CmdRec,
           p \in ProcRec :
        /\ Now(h, s, b, l, k, c, p) /\ Fits(h, s, b, l, k, c, p)
        /\ Holds(h, s, b, k, c, relay)
  BY Here
<1> DEFINE s2 == [s EXCEPT !.phase = "ready"]
           c2 == Anew("start", "activate", Nobody)
<1>2. s2 \in SetupRec
  BY <1>1 DEF Ready, SetupRec, Phase
<1>3. c2 \in CmdRec
  BY <1>1, Begins DEF Place, Op
<1>4. Moved(h, s2, b, l, k, c2, p)
  BY <1>1, <1>2, <1>3 DEF Moved, TypeOK, Ready, Anew
<1>5. s2.flow = s.flow /\ s2.phase = "ready" /\ s2.ack = s.ack /\ s2.approver = s.approver
  BY DEF SetupRec
<1>6. c2.pc = "activate" /\ c2.op = "start" /\ c2.identity = Nobody
  BY Begins
<1> HIDE DEF s2, c2
<1>7. Fits(h, s2, b, l, k, c2, p)
  BY <1>1, <1>5, <1>6 DEF Fits, Ready
<1>8. Holds(h, s2, b, k, c2, relay)
  BY <1>1, <1>5, <1>6 DEF Holds, Ready
<1>9. Quietly(h, s2, b, l, k, c2, p)
  BY <1>1, <1>7, <1>8, <1>5, <1>6 DEF Quietly, Settled, Created, Ready
<1> QED BY <1>4, <1>9, QuietBy

LEMMA ActivateAcknowledgedQuiet ==
  ASSUME TypeOK, HostsOK, NEW h \in Host, Activate(h), setup[h].ack
  PROVE  QuietStep(h)
<1>1. PICK s \in SetupRec, b \in BindingRec, l \in LocalRec, k \in KeysRec, c \in CmdRec,
           p \in ProcRec :
        /\ Now(h, s, b, l, k, c, p) /\ Fits(h, s, b, l, k, c, p)
        /\ Holds(h, s, b, k, c, relay)
  BY Here
<1> DEFINE k2 == [k EXCEPT !.capture = NoBlob]
           c2 == To(c, "adopt")
<1>2. k2 \in KeysRec
  BY <1>1 DEF Activate, KeysRec, Known, Blob, NoBlob, Session, NoSession
<1>3. c2 \in CmdRec
  BY <1>1, GoesTo DEF Place
<1>4. Moved(h, s, b, l, k2, c2, p)
  BY <1>1, <1>2, <1>3 DEF Moved, TypeOK, Activate, HasProvider, HasMaterial,
    RemoveBootstrapRecovery, To
<1>5. /\ k2.device = k.device /\ k2.ark = k.ark /\ k2.id = k.id /\ k2.session = k.session
      /\ k2.capture = NoBlob
  BY DEF KeysRec
<1>6. /\ c2.pc = "adopt" /\ c2.op = c.op /\ c2.identity = c.identity /\ c2.session = c.session
      /\ c2.device = c.device /\ c2.ark = c.ark
  BY GoesTo
<1> HIDE DEF k2, c2
<1>7. Fits(h, s, b, l, k2, c2, p)
  <2>1. FlowFixed(s, b)
    BY <1>1, <1>5, <1>6 DEF Fits, Activate, HasProvider, HasMaterial, RemoveBootstrapRecovery
  <2>2. KeysFit(s, b, k2, c2)
    BY <1>1, <1>5, <1>6 DEF Fits, Activate, HasProvider, HasMaterial, RemoveBootstrapRecovery
  <2>3. LoginFits(s, b, k2, c2)
    BY <1>1, <1>5, <1>6 DEF Fits, Activate, HasProvider, HasMaterial, RemoveBootstrapRecovery
  <2>4. AdoptFits(s, b, l, k2, c2)
    BY <1>1, <1>5, <1>6 DEF Fits, Activate, HasProvider, HasMaterial, RemoveBootstrapRecovery
  <2>5. WorkerFits(s, b, c2, p)
    BY <1>1, <1>5, <1>6 DEF Fits, Activate, HasProvider, HasMaterial, RemoveBootstrapRecovery
  <2>6. CaptureFits(s, b, k2, c2, h)
    BY <1>1, <1>5, <1>6 DEF Fits, Activate, HasProvider, HasMaterial, RemoveBootstrapRecovery
  <2> QED BY <2>1, <2>2, <2>3, <2>4, <2>5, <2>6 DEF Fits
<1>8. Holds(h, s, b, k2, c2, relay)
  BY <1>1, <1>5, <1>6 DEF Holds, Activate, HasProvider, HasMaterial, RemoveBootstrapRecovery
<1>9. Quietly(h, s, b, l, k2, c2, p)
  BY <1>1, <1>7, <1>8, <1>5, <1>6 DEF Quietly, Settled, Created, Activate, HasProvider,
    HasMaterial, RemoveBootstrapRecovery
<1> QED BY <1>4, <1>9, QuietBy

LEMMA ActivateQuiet ==
  ASSUME TypeOK, HostsOK, NEW h \in Host, Activate(h), ~setup[h].ack
  PROVE  QuietStep(h)
<1>1. PICK s \in SetupRec, b \in BindingRec, l \in LocalRec, k \in KeysRec, c \in CmdRec,
           p \in ProcRec :
        /\ Now(h, s, b, l, k, c, p) /\ Fits(h, s, b, l, k, c, p)
        /\ Holds(h, s, b, k, c, relay)
  BY Here
<1> DEFINE c2 == To(c, "adopt")
<1>2. c2 \in CmdRec
  BY <1>1, GoesTo DEF Place
<1>3. Moved(h, s, b, l, k, c2, p)
  BY <1>1, <1>2 DEF Moved, TypeOK, Activate, HasProvider, HasMaterial, Captured, To
<1>4. /\ c2.pc = "adopt" /\ c2.op = c.op /\ c2.identity = c.identity /\ c2.session = c.session
      /\ c2.device = c.device /\ c2.ark = c.ark
  BY GoesTo
<1> HIDE DEF c2
<1>5. Fits(h, s, b, l, k, c2, p)
  BY <1>1, <1>4 DEF Fits, Activate, HasProvider, HasMaterial, Captured
<1>6. Holds(h, s, b, k, c2, relay)
  BY <1>1, <1>4 DEF Holds, Activate, HasProvider, HasMaterial, Captured
<1>7. Quietly(h, s, b, l, k, c2, p)
  BY <1>1, <1>5, <1>6, <1>4 DEF Quietly, Settled, Created, Activate, HasProvider, HasMaterial,
    Captured
<1> QED BY <1>3, <1>7, QuietBy

LEMMA ActivateRemoteBindingQuiet ==
  ASSUME TypeOK, HostsOK, NEW h \in Host, ActivateRemoteBinding(h)
  PROVE  QuietStep(h)
<1>1. PICK s \in SetupRec, b \in BindingRec, l \in LocalRec, k \in KeysRec, c \in CmdRec,
           p \in ProcRec :
        /\ Now(h, s, b, l, k, c, p) /\ Fits(h, s, b, l, k, c, p)
        /\ Holds(h, s, b, k, c, relay)
  BY Here
<1> DEFINE b2 == [b EXCEPT !.state = "active"]
           l2 == [l EXCEPT !.account = b.content]
           c2 == To(c, "active")
<1>2. b2 \in BindingRec
  BY <1>1 DEF ActivateRemoteBinding, BindingRec, Known
<1>3. l2 \in LocalRec
  BY <1>1 DEF ActivateRemoteBinding, LocalRec, Known, BindingRec
<1>4. c2 \in CmdRec
  BY <1>1, GoesTo DEF Place
<1>5. Moved(h, s, b2, l2, k, c2, p)
  BY <1>1, <1>2, <1>3, <1>4 DEF Moved, TypeOK, ActivateRemoteBinding, To
<1>6. b2.state = "active" /\ b2.flow = b.flow /\ b2.content = b.content /\ b2.tenant = b.tenant
  BY DEF BindingRec
<1>7. l2.account = b.content /\ l2.needs_login = l.needs_login /\ l2.items = l.items
  BY DEF LocalRec
<1>8. /\ c2.pc = "active" /\ c2.op = c.op /\ c2.identity = c.identity /\ c2.session = c.session
      /\ c2.device = c.device /\ c2.ark = c.ark
  BY GoesTo
<1> HIDE DEF b2, l2, c2
<1>9. b.state # "none" /\ b.content # None
  BY <1>1 DEF ActivateRemoteBinding, Fits
<1>10. k.session = [tenant |-> b.tenant, content |-> b.content]
  BY <1>1 DEF ActivateRemoteBinding, Fits
<1>11. k.session # NoSession
  BY <1>9, <1>10 DEF NoSession
<1>12. h \in relay.roster[b.content]
  BY <1>1 DEF ActivateRemoteBinding, Holds
<1>13. Fits(h, s, b2, l2, k, c2, p)
  BY <1>1, <1>6, <1>7, <1>8 DEF Fits, ActivateRemoteBinding
<1>14. Holds(h, s, b2, k, c2, relay)
  BY <1>1, <1>6, <1>7, <1>8, <1>9, <1>10, <1>11, <1>12 DEF Holds
<1>15. Quietly(h, s, b2, l2, k, c2, p)
  BY <1>1, <1>13, <1>14, <1>6, <1>7, <1>8, <1>9, <1>10, <1>11, <1>12 DEF Quietly, Settled,
    Created, ActivateRemoteBinding, Fits
<1> QED BY <1>5, <1>15, QuietBy

LEMMA ActivatedQuiet ==
  ASSUME TypeOK, HostsOK, NEW h \in Host, Activated(h)
  PROVE  QuietStep(h)
<1>1. PICK s \in SetupRec, b \in BindingRec, l \in LocalRec, k \in KeysRec, c \in CmdRec,
           p \in ProcRec :
        /\ Now(h, s, b, l, k, c, p) /\ Fits(h, s, b, l, k, c, p)
        /\ Holds(h, s, b, k, c, relay)
  BY Here
<1> DEFINE s2 == [s EXCEPT !.phase = "active"]
           c2 == To(c, "start")
<1>2. s2 \in SetupRec
  BY <1>1 DEF Activated, SetupRec, Phase
<1>3. c2 \in CmdRec
  BY <1>1, GoesTo DEF Place
<1>4. Moved(h, s2, b, l, k, c2, p)
  BY <1>1, <1>2, <1>3 DEF Moved, TypeOK, Activated, To
<1>5. s2.flow = s.flow /\ s2.phase = "active" /\ s2.ack = s.ack /\ s2.approver = s.approver
  BY DEF SetupRec
<1>6. /\ c2.pc = "start" /\ c2.op = c.op /\ c2.identity = c.identity /\ c2.session = c.session
      /\ c2.device = c.device /\ c2.ark = c.ark
  BY GoesTo
<1> HIDE DEF s2, c2
<1>7. Fits(h, s2, b, l, k, c2, p)
  BY <1>1, <1>5, <1>6 DEF Fits, Activated
<1>8. Holds(h, s2, b, k, c2, relay)
  BY <1>1, <1>5, <1>6 DEF Holds, Activated
<1>9. Quietly(h, s2, b, l, k, c2, p)
  BY <1>1, <1>7, <1>8, <1>5, <1>6 DEF Quietly, Settled, Created, Activated
<1> QED BY <1>4, <1>9, QuietBy

LEMMA StartQuiet ==
  ASSUME TypeOK, HostsOK, NEW h \in Host, Start(h)
  PROVE  QuietStep(h)
<1>1. PICK s \in SetupRec, b \in BindingRec, l \in LocalRec, k \in KeysRec, c \in CmdRec,
           p \in ProcRec :
        /\ Now(h, s, b, l, k, c, p) /\ Fits(h, s, b, l, k, c, p)
        /\ Holds(h, s, b, k, c, relay)
  BY Here
<1> DEFINE p2 == [p EXCEPT !.worker = FALSE, !.shown = TRUE]
           c2 == To(c, "spawn")
<1>2. p2 \in ProcRec
  BY <1>1 DEF Start, ProcRec
<1>3. c2 \in CmdRec
  BY <1>1, GoesTo DEF Place
<1>4. Moved(h, s, b, l, k, c2, p2)
  BY <1>1, <1>2, <1>3 DEF Moved, TypeOK, Start, Captured, To
<1>5. p2.unlocked = p.unlocked /\ p2.worker = FALSE /\ p2.shown = TRUE
  BY DEF ProcRec
<1>6. /\ c2.pc = "spawn" /\ c2.op = c.op /\ c2.identity = c.identity /\ c2.session = c.session
      /\ c2.device = c.device /\ c2.ark = c.ark
  BY GoesTo
<1> HIDE DEF p2, c2
<1>7. Fits(h, s, b, l, k, c2, p2)
  BY <1>1, <1>5, <1>6 DEF Fits, Start, Captured
<1>8. Holds(h, s, b, k, c2, relay)
  BY <1>1, <1>5, <1>6 DEF Holds, Start, Captured
<1>9. Quietly(h, s, b, l, k, c2, p2)
  BY <1>1, <1>7, <1>8, <1>5, <1>6 DEF Quietly, Settled, Created, Start, Captured
<1> QED BY <1>4, <1>9, QuietBy

LEMMA SpawnQuiet ==
  ASSUME TypeOK, HostsOK, NEW h \in Host, Spawn(h)
  PROVE  QuietStep(h)
<1>1. PICK s \in SetupRec, b \in BindingRec, l \in LocalRec, k \in KeysRec, c \in CmdRec,
           p \in ProcRec :
        /\ Now(h, s, b, l, k, c, p) /\ Fits(h, s, b, l, k, c, p)
        /\ Holds(h, s, b, k, c, relay)
  BY Here
<1> DEFINE p2 == [p EXCEPT !.worker = TRUE]
           c2 == Idle
<1>2. p2 \in ProcRec
  BY <1>1 DEF Spawn, ProcRec
<1>3. c2 \in CmdRec
  BY IdleTyped
<1>4. Moved(h, s, b, l, k, c2, p2)
  BY <1>1, <1>2, <1>3 DEF Moved, TypeOK, Spawn
<1>5. p2.unlocked = p.unlocked /\ p2.worker = TRUE /\ p2.shown = p.shown
  BY DEF ProcRec
<1>6. c2.pc = "idle" /\ c2.op = "none"
  BY IdleTyped
<1> HIDE DEF p2, c2
<1>7. Fits(h, s, b, l, k, c2, p2)
  BY <1>1, <1>5, <1>6 DEF Fits, Spawn
<1>8. Holds(h, s, b, k, c2, relay)
  BY <1>1, <1>5, <1>6 DEF Holds, Spawn
<1>9. Quietly(h, s, b, l, k, c2, p2)
  BY <1>1, <1>7, <1>8, <1>5, <1>6 DEF Quietly, Settled, Created, Spawn
<1> QED BY <1>4, <1>9, QuietBy

LEMMA CrashQuiet ==
  ASSUME TypeOK, HostsOK, NEW h \in Host, Crash(h)
  PROVE  QuietStep(h)
<1>1. PICK s \in SetupRec, b \in BindingRec, l \in LocalRec, k \in KeysRec, c \in CmdRec,
           p \in ProcRec :
        /\ Now(h, s, b, l, k, c, p) /\ Fits(h, s, b, l, k, c, p)
        /\ Holds(h, s, b, k, c, relay)
  BY Here
<1> DEFINE p2 == [unlocked |-> FALSE, worker |-> FALSE, shown |-> FALSE]
           c2 == Idle
<1>2. p2 \in ProcRec
  BY <1>1 DEF Crash, ProcRec
<1>3. c2 \in CmdRec
  BY IdleTyped
<1>4. Moved(h, s, b, l, k, c2, p2)
  BY <1>1, <1>2, <1>3 DEF Moved, TypeOK, Crash
<1>5. p2.unlocked = FALSE /\ p2.worker = FALSE /\ p2.shown = FALSE
  OBVIOUS
<1>6. c2.pc = "idle" /\ c2.op = "none"
  BY IdleTyped
<1> HIDE DEF p2, c2
<1>7. Fits(h, s, b, l, k, c2, p2)
  BY <1>1, <1>5, <1>6 DEF Fits, Crash
<1>8. Holds(h, s, b, k, c2, relay)
  BY <1>1, <1>5, <1>6 DEF Holds, Crash
<1>9. Quietly(h, s, b, l, k, c2, p2)
  BY <1>1, <1>7, <1>8, <1>5, <1>6 DEF Quietly, Settled, Created, Crash
<1> QED BY <1>4, <1>9, QuietBy

LEMMA WorkerFailsQuiet ==
  ASSUME TypeOK, HostsOK, NEW h \in Host, NEW login \in BOOLEAN, WorkerFails(h, login)
  PROVE  QuietStep(h)
<1>1. PICK s \in SetupRec, b \in BindingRec, l \in LocalRec, k \in KeysRec, c \in CmdRec,
           p \in ProcRec :
        /\ Now(h, s, b, l, k, c, p) /\ Fits(h, s, b, l, k, c, p)
        /\ Holds(h, s, b, k, c, relay)
  BY Here
<1>2. p.worker
  BY <1>1 DEF WorkerFails
<1> DEFINE p2 == [p EXCEPT !.worker = FALSE, !.shown = FALSE]
           l2 == [l EXCEPT !.needs_login = @ \/ login]
<1>3. p2 \in ProcRec
  BY <1>1, <1>2 DEF WorkerFails, ProcRec
<1>4. l2 \in LocalRec
  BY <1>1, <1>2 DEF WorkerFails, LocalRec, Known
<1>5. Moved(h, s, b, l2, k, c, p2)
  BY <1>1, <1>2, <1>3, <1>4 DEF Moved, TypeOK, WorkerFails
<1>6. p2.unlocked = p.unlocked /\ p2.worker = FALSE /\ p2.shown = FALSE
  BY DEF ProcRec
<1>7. l2.account = l.account /\ l2.needs_login = (l.needs_login \/ login) /\ l2.items = l.items
  BY DEF LocalRec
<1> HIDE DEF p2, l2
<1>8. Fits(h, s, b, l2, k, c, p2)
  BY <1>1, <1>2, <1>6, <1>7 DEF Fits
<1>9. Holds(h, s, b, k, c, relay)
  BY <1>1, <1>2, <1>6, <1>7 DEF Holds, WorkerFails
<1>10. Quietly(h, s, b, l2, k, c, p2)
  BY <1>1, <1>8, <1>9, <1>2, <1>6, <1>7 DEF Quietly, Settled, Created, WorkerFails
<1> QED BY <1>5, <1>10, QuietBy

LEMMA SaveItemQuiet ==
  ASSUME TypeOK, HostsOK, NEW h \in Host, SaveItem(h)
  PROVE  QuietStep(h)
<1>1. PICK s \in SetupRec, b \in BindingRec, l \in LocalRec, k \in KeysRec, c \in CmdRec,
           p \in ProcRec :
        /\ Now(h, s, b, l, k, c, p) /\ Fits(h, s, b, l, k, c, p)
        /\ Holds(h, s, b, k, c, relay)
  BY Here
<1> DEFINE l2 == [l EXCEPT !.items = TRUE]
<1>2. l2 \in LocalRec
  BY <1>1 DEF SaveItem, LocalRec, Known
<1>3. Moved(h, s, b, l2, k, c, p)
  BY <1>1, <1>2 DEF Moved, TypeOK, SaveItem
<1>4. l2.account = l.account /\ l2.needs_login = l.needs_login /\ l2.items = TRUE
  BY DEF LocalRec
<1> HIDE DEF l2
<1>5. Fits(h, s, b, l2, k, c, p)
  BY <1>1, <1>4 DEF Fits
<1>6. Holds(h, s, b, k, c, relay)
  BY <1>1, <1>4 DEF Holds, SaveItem
<1>7. Quietly(h, s, b, l2, k, c, p)
  BY <1>1, <1>5, <1>6, <1>4 DEF Quietly, Settled, Created, SaveItem
<1> QED BY <1>3, <1>7, QuietBy

LEMMA RefuseQuiet ==
  ASSUME TypeOK, HostsOK, NEW h \in Host, Refuse(h)
  PROVE  QuietStep(h)
<1>1. PICK s \in SetupRec, b \in BindingRec, l \in LocalRec, k \in KeysRec, c \in CmdRec,
           p \in ProcRec :
        /\ Now(h, s, b, l, k, c, p) /\ Fits(h, s, b, l, k, c, p)
        /\ Holds(h, s, b, k, c, relay)
  BY Here
<1>2. Abandon(h) /\ UNCHANGED <<local, faults>>
  BY DEF Refuse
<1> DEFINE c2 == Idle
           p2 == [p EXCEPT !.shown = p.shown /\ c.pc # "spawn"]
<1>3. c2 \in CmdRec
  BY IdleTyped
<1>4. p2 \in ProcRec
  BY <1>1, <1>2 DEF Abandon, ProcRec, CmdRec, Fits
<1>5. Moved(h, s, b, l, k, c2, p2)
  BY <1>1, <1>2, <1>3, <1>4 DEF Moved, TypeOK, Abandon
<1>6. c2.pc = "idle" /\ c2.op = "none"
  BY IdleTyped
<1>7. /\ p2.unlocked = p.unlocked /\ p2.worker = p.worker
      /\ p2.shown = (p.shown /\ c.pc # "spawn")
  BY DEF ProcRec
<1> HIDE DEF c2, p2
<1>8. Fits(h, s, b, l, k, c2, p2)
  BY <1>1, <1>2, <1>6, <1>7 DEF Fits, Abandon
<1>9. Holds(h, s, b, k, c2, relay)
  BY <1>1, <1>2, <1>6, <1>7 DEF Holds, Abandon
<1>10. Quietly(h, s, b, l, k, c2, p2)
  BY <1>1, <1>8, <1>9, <1>2, <1>6, <1>7 DEF Quietly, Settled, Created, Abandon
<1> QED BY <1>5, <1>10, QuietBy

LEMMA FailQuiet ==
  ASSUME TypeOK, HostsOK, NEW h \in Host, NEW login \in BOOLEAN, Fail(h, login)
  PROVE  QuietStep(h)
<1>1. PICK s \in SetupRec, b \in BindingRec, l \in LocalRec, k \in KeysRec, c \in CmdRec,
           p \in ProcRec :
        /\ Now(h, s, b, l, k, c, p) /\ Fits(h, s, b, l, k, c, p)
        /\ Holds(h, s, b, k, c, relay)
  BY Here
<1> DEFINE c2 == Idle
           p2 == [p EXCEPT !.shown = p.shown /\ c.pc # "spawn"]
           l2 == [l EXCEPT !.needs_login = @ \/ login]
<1>2. c2 \in CmdRec
  BY IdleTyped
<1>3. p2 \in ProcRec
  BY <1>1 DEF Fail, ProcRec, CmdRec, Fits
<1>4. l2 \in LocalRec
  BY <1>1 DEF Fail, LocalRec, Known
<1>5. Moved(h, s, b, l2, k, c2, p2)
  BY <1>1, <1>2, <1>3, <1>4 DEF Moved, TypeOK, Fail, Abandon
<1>6. c2.pc = "idle" /\ c2.op = "none"
  BY IdleTyped
<1>7. /\ p2.unlocked = p.unlocked /\ p2.worker = p.worker
      /\ p2.shown = (p.shown /\ c.pc # "spawn")
  BY DEF ProcRec
<1>8. l2.account = l.account /\ l2.needs_login = (l.needs_login \/ login) /\ l2.items = l.items
  BY DEF LocalRec
<1> HIDE DEF c2, p2, l2
<1>9. Fits(h, s, b, l2, k, c2, p2)
  BY <1>1, <1>6, <1>7, <1>8 DEF Fits, Fail, Abandon
<1>10. Holds(h, s, b, k, c2, relay)
  BY <1>1, <1>6, <1>7, <1>8 DEF Holds, Fail, Abandon
<1>11. Quietly(h, s, b, l2, k, c2, p2)
  BY <1>1, <1>9, <1>10, <1>6, <1>7, <1>8 DEF Quietly, Settled, Created, Fail, Abandon
<1> QED BY <1>5, <1>11, QuietBy

LEMMA RecoverQuiet ==
  ASSUME TypeOK, HostsOK, NEW h \in Host, NEW ark \in Id, Recover(h, ark), RootsOK
  PROVE  QuietStep(h)
<1>1. PICK s \in SetupRec, b \in BindingRec, l \in LocalRec, k \in KeysRec, c \in CmdRec,
           p \in ProcRec :
        /\ Now(h, s, b, l, k, c, p) /\ Fits(h, s, b, l, k, c, p)
        /\ Holds(h, s, b, k, c, relay)
  BY Here
<1> DEFINE c2 == [Idle EXCEPT !.op = "recover", !.pc = "keys", !.ark = ark]
<1>2. c2 \in CmdRec
  BY <1>1 DEF Recover, CmdRec, Place, Op, NoSession, NoBlob, Session, Blob, Known
<1>3. Moved(h, s, b, l, k, c2, p)
  BY <1>1, <1>2 DEF Moved, TypeOK, Recover, HasProvider
<1>4. c2.op = "recover" /\ c2.pc = "keys" /\ c2.ark = ark
  BY DEF CmdRec
<1> HIDE DEF c2
<1>5. Fits(h, s, b, l, k, c2, p)
  <2>1. FlowFixed(s, b)
    BY <1>1, <1>4 DEF Fits, Recover, HasProvider
  <2>2. KeysFit(s, b, k, c2)
    BY <1>1, <1>4 DEF Fits, Recover, HasProvider
  <2>3. LoginFits(s, b, k, c2)
    BY <1>1, <1>4 DEF Fits, Recover, HasProvider
  <2>4. AdoptFits(s, b, l, k, c2)
    BY <1>1, <1>4 DEF Fits, Recover, HasProvider
  <2>5. WorkerFits(s, b, c2, p)
    BY <1>1, <1>4 DEF Fits, Recover, HasProvider
  <2>6. CaptureFits(s, b, k, c2, h)
    BY <1>1, <1>4 DEF Fits, Recover, HasProvider
  <2> QED BY <2>1, <2>2, <2>3, <2>4, <2>5, <2>6 DEF Fits
<1>6. Holds(h, s, b, k, c2, relay)
  BY <1>1, <1>4 DEF Holds, Recover, HasProvider
<1>7. Root(b.content, c2.ark)
  <2>0. ark # None
    BY DEF Id, None
  <2>1. b.content \in Id
    BY <1>1 DEF Recover, HasProvider, Fits, BindingRec, Known
  <2>2. CASE relay.recovery[b.content].ark = ark
    BY <1>4, <2>0, <2>1, <2>2 DEF RootsOK, RelayRoots, Stored, Known, NoBlob
  <2>3. CASE \E g \in Host :
               binding[g].state = "active" /\ binding[g].content = b.content /\ keys[g].ark = ark
    <3>1. PICK g \in Host :
            binding[g].state = "active" /\ binding[g].content = b.content /\ keys[g].ark = ark
      BY <2>3
    <3>2. PICK sg \in SetupRec, bg \in BindingRec, lg \in LocalRec, kg \in KeysRec, cg \in CmdRec,
               pg \in ProcRec :
            Now(g, sg, bg, lg, kg, cg, pg) /\ Fits(g, sg, bg, lg, kg, cg, pg)
      BY Here
    <3>3. keys[g].id = b.content
      BY <3>1, <3>2 DEF Fits
    <3> QED BY <1>4, <2>0, <3>1, <3>3 DEF Root
  <2> QED BY <1>1, <2>2, <2>3 DEF Recover
<1>8. Quietly(h, s, b, l, k, c2, p)
  BY <1>1, <1>5, <1>6, <1>7, <1>4 DEF Quietly, Settled, Created, Recover, HasProvider
<1> QED BY <1>3, <1>8, QuietBy

LEMMA AcceptQuiet ==
  ASSUME TypeOK, HostsOK, NEW h \in Host, Accept(h), RootsOK
  PROVE  QuietStep(h)
<1>1. PICK s \in SetupRec, b \in BindingRec, l \in LocalRec, k \in KeysRec, c \in CmdRec,
           p \in ProcRec :
        /\ Now(h, s, b, l, k, c, p) /\ Fits(h, s, b, l, k, c, p)
        /\ Holds(h, s, b, k, c, relay)
  BY Here
<1>2. PICK a \in Known :
        /\ cmd' = [cmd EXCEPT ![h] = [Idle EXCEPT !.op = "accept", !.pc = "keys", !.ark = a]]
        /\ Root(b.content, a)
  <2>1. b.content \in Id
    BY <1>1 DEF Accept, HasProvider, Fits, BindingRec, Known
  <2>2. /\ relay.wraps[b.content] \in [1..Len(relay.wraps[b.content]) -> Envelope]
        /\ Len(relay.wraps[b.content]) \in Nat
    BY <2>1 DEF TypeOK, RelayTyped
  <2> DEFINE ks == {k1 \in DOMAIN relay.wraps[b.content] : relay.wraps[b.content][k1].to = h}
  <2>3. ks \in SUBSET Nat
    BY <2>2
  <2>8. ks # {}
    BY <1>1 DEF Accept
  <2>4. Min(ks) \in DOMAIN relay.wraps[b.content]
    BY <2>3, <2>8, MinOf
  <2> DEFINE a == relay.wraps[b.content][Min(ks)].ark
  <2>5. a \in Known
    BY <2>2, <2>4 DEF Envelope
  <2>6. Root(b.content, a)
    BY <2>1, <2>4, <2>5 DEF RootsOK, RelayRoots, Stored
  <2>7. cmd' = [cmd EXCEPT ![h] = [Idle EXCEPT !.op = "accept", !.pc = "keys", !.ark = a]]
    BY <1>1 DEF Accept
  <2> QED BY <2>5, <2>6, <2>7
<1> DEFINE c2 == [Idle EXCEPT !.op = "accept", !.pc = "keys", !.ark = a]
<1>3. c2 \in CmdRec
  BY <1>1, <1>2 DEF Accept, CmdRec, Place, Op, NoSession, NoBlob, Session, Blob, Known
<1>4. Moved(h, s, b, l, k, c2, p)
  BY ZenonT(60), <1>1, <1>2, <1>3 DEF Moved, TypeOK, Accept, HasProvider
<1>5. c2.op = "accept" /\ c2.pc = "keys" /\ c2.ark = a
  BY DEF CmdRec
<1> HIDE DEF c2
<1>6. Fits(h, s, b, l, k, c2, p)
  <2>1. FlowFixed(s, b)
    BY <1>1, <1>2, <1>5 DEF Fits, Accept, HasProvider
  <2>2. KeysFit(s, b, k, c2)
    BY <1>1, <1>2, <1>5 DEF Fits, Accept, HasProvider
  <2>3. LoginFits(s, b, k, c2)
    BY <1>1, <1>2, <1>5 DEF Fits, Accept, HasProvider
  <2>4. AdoptFits(s, b, l, k, c2)
    BY <1>1, <1>2, <1>5 DEF Fits, Accept, HasProvider
  <2>5. WorkerFits(s, b, c2, p)
    BY <1>1, <1>2, <1>5 DEF Fits, Accept, HasProvider
  <2>6. CaptureFits(s, b, k, c2, h)
    BY <1>1, <1>2, <1>5 DEF Fits, Accept, HasProvider
  <2> QED BY <2>1, <2>2, <2>3, <2>4, <2>5, <2>6 DEF Fits
<1>7. Holds(h, s, b, k, c2, relay)
  BY <1>1, <1>2, <1>5 DEF Holds, Accept, HasProvider
<1>8. Root(b.content, c2.ark)
  BY <1>2, <1>5
<1>9. Quietly(h, s, b, l, k, c2, p)
  BY <1>1, <1>6, <1>7, <1>8, <1>2, <1>5 DEF Quietly, Settled, Created, Accept, HasProvider
<1> QED BY <1>4, <1>9, QuietBy

LEMMA AuthenticateToAttachQuiet ==
  ASSUME TypeOK, HostsOK, NEW h \in Host, NEW i \in Logins[h], Authenticate(h, i),
         setup[h].flow = "attach"
  PROVE  QuietStep(h)
<1>1. PICK s \in SetupRec, b \in BindingRec, l \in LocalRec, k \in KeysRec, c \in CmdRec,
           p \in ProcRec :
        /\ Now(h, s, b, l, k, c, p) /\ Fits(h, s, b, l, k, c, p)
        /\ Holds(h, s, b, k, c, relay)
  BY Here
<1> DEFINE p2 == [p EXCEPT !.worker = FALSE, !.shown = FALSE]
           c2 == Anew("authenticate", "authenticating", i)
<1>2. p2 \in ProcRec
  BY <1>1, OnboardingAssumption DEF Authenticate, ProcRec
<1>3. c2 \in CmdRec
  BY <1>1, OnboardingAssumption, Begins DEF Place, Op
<1>4. Moved(h, s, b, l, k, c2, p2)
  BY <1>1, <1>2, <1>3 DEF Moved, TypeOK, Authenticate, StopWorker, FlowAdmits,
    GuardAttachExisting, Anew
<1>5. p2.unlocked = p.unlocked /\ p2.worker = FALSE /\ p2.shown = FALSE
  BY DEF ProcRec
<1>6. c2.pc = "authenticating" /\ c2.op = "authenticate" /\ c2.identity = i
  BY Begins
<1> HIDE DEF p2, c2
<1>7. Fits(h, s, b, l, k, c2, p2)
  BY <1>1, <1>5, <1>6, OnboardingAssumption DEF Fits, Authenticate, StopWorker, FlowAdmits,
    GuardAttachExisting
<1>8. Holds(h, s, b, k, c2, relay)
  BY <1>1, <1>5, <1>6, OnboardingAssumption DEF Holds, Authenticate, StopWorker, FlowAdmits,
    GuardAttachExisting
<1>9. Quietly(h, s, b, l, k, c2, p2)
  BY <1>1, <1>7, <1>8, <1>5, <1>6, OnboardingAssumption DEF Quietly, Settled, Created,
    Authenticate, StopWorker, FlowAdmits, GuardAttachExisting
<1> QED BY <1>4, <1>9, QuietBy

LEMMA AuthenticateAgainQuiet ==
  ASSUME TypeOK, HostsOK, NEW h \in Host, NEW i \in Logins[h], Authenticate(h, i),
         setup[h].flow = "create", keys[h].ark # None
  PROVE  QuietStep(h)
<1>1. PICK s \in SetupRec, b \in BindingRec, l \in LocalRec, k \in KeysRec, c \in CmdRec,
           p \in ProcRec :
        /\ Now(h, s, b, l, k, c, p) /\ Fits(h, s, b, l, k, c, p)
        /\ Holds(h, s, b, k, c, relay)
  BY Here
<1>2. CreatedMaterial(h) = k
  BY <1>1 DEF Authenticate, FlowAdmits, GuardCreateNew, BelongsToAccount, Pending,
    CreatedMaterial, KeysRec
<1> DEFINE p2 == [p EXCEPT !.worker = FALSE, !.shown = FALSE]
           c2 == Anew("authenticate", "authenticating", i)
<1>3. p2 \in ProcRec
  BY <1>1, <1>2, OnboardingAssumption DEF Authenticate, ProcRec
<1>4. c2 \in CmdRec
  BY <1>1, <1>2, OnboardingAssumption, Begins DEF Place, Op
<1>5. Moved(h, s, b, l, k, c2, p2)
  BY <1>1, <1>2, <1>3, <1>4 DEF Moved, TypeOK, Authenticate, StopWorker, FlowAdmits,
    GuardCreateNew, BelongsToAccount, HasMaterial, Pending, Anew
<1>6. p2.unlocked = p.unlocked /\ p2.worker = FALSE /\ p2.shown = FALSE
  BY DEF ProcRec
<1>7. c2.pc = "authenticating" /\ c2.op = "authenticate" /\ c2.identity = i
  BY Begins
<1> HIDE DEF p2, c2
<1>8. Fits(h, s, b, l, k, c2, p2)
  BY <1>1, <1>2, <1>6, <1>7, OnboardingAssumption DEF Fits, Authenticate, StopWorker, FlowAdmits,
    GuardCreateNew, BelongsToAccount, HasMaterial, Pending
<1>9. Holds(h, s, b, k, c2, relay)
  BY <1>1, <1>2, <1>6, <1>7, OnboardingAssumption DEF Holds, Authenticate, StopWorker, FlowAdmits,
    GuardCreateNew, BelongsToAccount, HasMaterial, Pending
<1>10. Quietly(h, s, b, l, k, c2, p2)
  BY <1>1, <1>8, <1>9, <1>2, <1>6, <1>7, OnboardingAssumption DEF Quietly, Settled, Created,
    Authenticate, StopWorker, FlowAdmits, GuardCreateNew, BelongsToAccount, HasMaterial, Pending
<1> QED BY <1>5, <1>10, QuietBy

-----------------------------------------------------------------------------
(* What a step of one host leaves of the invariant. *)

\* Nothing that other hosts rely on leaves the relay, and what is new there is sound.
Publishes(h, r) ==
  /\ RelayTyped(r)
  /\ \A i \in Identity : relay.bound[i] # None => r.bound[i] = relay.bound[i]
  /\ \A i \in Identity : r.bound[i] <= minted
  /\ \A x \in Id : relay.roster[x] \subseteq r.roster[x]
  /\ \A g \in Host \ {h} :
       setup[g].flow = "create" /\ (setup[g].ack \/ setup[g].phase = "recovery") =>
         r.recovery[binding[g].content] = relay.recovery[binding[g].content]
  /\ \A x \in Id, a \in Known : Stored(r, x, a) => Stored(relay, x, a) \/ Root(x, a)
  /\ \A x \in Id : IsInjective(r.wraps[x]) /\ IsInjective(r.trust[x])

\* KeysKept, of one step.
KeysStay ==
  \A h \in Host : /\ keys[h].ark # None => keys'[h].ark = keys[h].ark
                  /\ keys[h].id # None => keys'[h].id = keys[h].id
                  /\ keys[h].device => keys'[h].device

LEMMA TypesKept ==
  ASSUME TypeOK, NEW h \in Host, NEW s, NEW b, NEW l, NEW k, NEW c, NEW p, NEW r, relay' = r,
         Moved(h, s, b, l, k, c, p), RelayTyped(r), minted' \in Nat
  PROVE  TypeOK'
BY DEF TypeOK, Moved

LEMMA HostsKept ==
  ASSUME TypeOK, HostsOK, NEW h \in Host, NEW s, NEW b, NEW l, NEW k, NEW c, NEW p, NEW r,
         relay' = r, Moved(h, s, b, l, k, c, p), Publishes(h, r),
         Fits(h, s, b, l, k, c, p), Holds(h, s, b, k, c, r)
  PROVE  HostsOK'
<1> SUFFICES ASSUME NEW g \in Host, NEW sg, NEW bg, NEW lg, NEW kg, NEW cg, NEW pg,
                    setup'[g] = sg, binding'[g] = bg, local'[g] = lg, keys'[g] = kg,
                    cmd'[g] = cg, proc'[g] = pg
             PROVE  Fits(g, sg, bg, lg, kg, cg, pg) /\ Holds(g, sg, bg, kg, cg, r)
  BY DEF HostsOK
<1>1. CASE g = h
  BY <1>1 DEF Moved
<1>2. CASE g # h
  <2>1. /\ sg = setup[g] /\ bg = binding[g] /\ lg = local[g] /\ kg = keys[g] /\ cg = cmd[g]
        /\ pg = proc[g]
    BY <1>2 DEF Moved
  <2>2. PICK s0 \in SetupRec, b0 \in BindingRec, l0 \in LocalRec, k0 \in KeysRec,
             c0 \in CmdRec, p0 \in ProcRec :
          /\ Now(g, s0, b0, l0, k0, c0, p0) /\ Fits(g, s0, b0, l0, k0, c0, p0)
          /\ Holds(g, s0, b0, k0, c0, relay)
    BY Here
  <2>3. sg = s0 /\ bg = b0 /\ lg = l0 /\ kg = k0 /\ cg = c0 /\ pg = p0
    BY <2>1, <2>2
  <2>4. Syncing(s0, b0, c0) => b0.content \in Id
    BY <2>2 DEF Fits, BindingRec, Known
  <2>5. \A x : Valid(relay, x) => Valid(r, x)
    BY DEF Publishes
  <2>6. b0.state = "active" => b0.content # None
    BY <2>2 DEF Fits
  <2>7. /\ s0.flow = "create" /\ (s0.ack \/ s0.phase = "recovery") =>
             r.recovery[b0.content] = relay.recovery[b0.content]
        /\ Syncing(s0, b0, c0) => g \in r.roster[b0.content]
    BY <1>2, <2>2, <2>4 DEF Publishes, Holds
  <2>8. Holds(g, s0, b0, k0, c0, r)
    BY <2>2, <2>5, <2>6, <2>7 DEF Holds, Publishes
  <2> QED BY <2>2, <2>3, <2>8
<1> QED BY <1>1, <1>2

LEMMA KeysStayed ==
  ASSUME NEW h \in Host, NEW s, NEW b, NEW l, NEW k, NEW c, NEW p,
         Moved(h, s, b, l, k, c, p), KeepsKeys(h, k)
  PROVE  KeysStay
BY DEF KeysStay, KeepsKeys, Moved

LEMMA RootStays ==
  ASSUME KeysStay, NEW x \in Id, NEW a, Root(x, a)
  PROVE  Root(x, a)'
BY DEF KeysStay, Root, Id, None

LEMMA RelayRootsKept ==
  ASSUME RelayRoots, KeysStay, NEW h, NEW r, relay' = r, Publishes(h, r)
  PROVE  RelayRoots'
<1> SUFFICES ASSUME NEW x \in Id, NEW a \in Known, Stored(r, x, a)
             PROVE  Root(x, a)'
  BY DEF RelayRoots
<1>1. Root(x, a)
  BY DEF RelayRoots, Publishes
<1> QED BY <1>1, RootStays

LEMMA JoinRootsKept ==
  ASSUME TypeOK, HostsOK, JoinRoots, KeysStay, NEW h \in Host, NEW s, NEW b, NEW l, NEW k,
         NEW c, NEW p, Moved(h, s, b, l, k, c, p), JoinsRoot(h, b, c), 
         Fits(h, s, b, l, k, c, p)
  PROVE  JoinRoots'
<1> SUFFICES ASSUME NEW g \in Host, NEW x \in Known, NEW a \in Known,
                    cmd'[g].pc = "keys", binding'[g].content = x, cmd'[g].ark = a
             PROVE  Root(x, a)'
  BY DEF JoinRoots
<1>1. CASE g = h
  <2>1. c.pc = "keys" /\ b.content = x /\ c.ark = a
    BY <1>1 DEF Moved
  <2>2. x \in Id
    BY <2>1 DEF Fits, Known
  <2>3. Root(x, a)
    BY <2>1 DEF JoinsRoot, JoinRoots
  <2> QED BY <2>2, <2>3, RootStays
<1>2. CASE g # h
  <2>1. cmd[g].pc = "keys" /\ binding[g].content = x /\ cmd[g].ark = a
    BY <1>2 DEF Moved
  <2>2. PICK s0 \in SetupRec, b0 \in BindingRec, l0 \in LocalRec, k0 \in KeysRec,
             c0 \in CmdRec, p0 \in ProcRec :
          Now(g, s0, b0, l0, k0, c0, p0) /\ Fits(g, s0, b0, l0, k0, c0, p0)
    BY Here
  <2>4. x \in Id
    BY <2>1, <2>2 DEF Fits, Known
  <2>3. Root(x, a)
    BY <2>1 DEF JoinRoots
  <2> QED BY <2>3, <2>4, RootStays
<1> QED BY <1>1, <1>2

LEMMA SameKeysKept ==
  ASSUME IInv, NEW h \in Host, NEW s, NEW b, NEW l, NEW k, NEW c, NEW p, NEW r,
         Moved(h, s, b, l, k, c, p), Settled(h, s, b, l, k, c, p, r),
         relay' = r, UNCHANGED minted, Publishes(h, r)
  PROVE  OneRoot' /\ ContentOwned' /\ MintedOnce'
<1>1. \A g \in Host : keys'[g].id = keys[g].id /\ keys'[g].ark = keys[g].ark
  BY DEF Moved, Settled
<1>2. \A g \in Host : /\ Created(g)' => Created(g)
                      /\ setup'[g].flow # "join" => setup[g].flow # "join"
  BY DEF Moved, Created, Settled
<1>3. OneRoot'
  BY <1>1 DEF OneRoot, IInv, RootsOK
<1>4. ContentOwned'
  BY <1>1, <1>2 DEF ContentOwned, IInv
<1>5. MintedOnce'
  BY <1>1 DEF MintedOnce, Publishes, IInv
<1> QED BY <1>3, <1>4, <1>5

LEMMA StepKept ==
  ASSUME IInv, NEW h \in Host, NEW s, NEW b, NEW l, NEW k, NEW c, NEW p, NEW r,
         Moved(h, s, b, l, k, c, p), Settled(h, s, b, l, k, c, p, r),
         relay' = r, UNCHANGED minted, Publishes(h, r)
  PROVE  IInv' /\ KeysStay
<1>1. TypeOK'
  BY TypesKept DEF IInv, Publishes, TypeOK
<1>2. HostsOK'
  BY HostsKept DEF IInv, Settled
<1>3. KeysStay
  BY KeysStayed DEF Settled, KeepsKeys
<1>4. RelayRoots'
  BY <1>3, RelayRootsKept DEF IInv, RootsOK
<1>5. JoinRoots'
  BY <1>3, JoinRootsKept DEF IInv, RootsOK, Settled
<1>6. OneRoot' /\ ContentOwned' /\ MintedOnce'
  BY SameKeysKept
<1>7. PublishedOnce'
  BY DEF Publishes, PublishedOnce, IsInjective
<1> QED BY <1>1, <1>2, <1>3, <1>4, <1>5, <1>6, <1>7 DEF IInv, RootsOK

LEMMA NothingNew ==
  ASSUME IInv, NEW h \in Host
  PROVE  Publishes(h, relay)
BY DEF IInv, TypeOK, MintedOnce, PublishedOnce, Publishes

LEMMA QuietKept ==
  ASSUME IInv, NEW h \in Host, QuietStep(h)
  PROVE  IInv' /\ KeysStay
<1>1. PICK s \in SetupRec, b \in BindingRec, l \in LocalRec, k \in KeysRec, c \in CmdRec,
           p \in ProcRec :
        Moved(h, s, b, l, k, c, p) /\ Quietly(h, s, b, l, k, c, p)
  BY DEF QuietStep
<1> QED BY <1>1, NothingNew, StepKept DEF Quietly

-----------------------------------------------------------------------------
(* The actions that publish. *)

\* What a host holds, it holds at a relay that has only more.
LEMMA HoldsOn ==
  ASSUME IInv, NEW h \in Host, NEW s \in SetupRec, NEW b \in BindingRec, NEW l, NEW k, NEW c,
         NEW p, NEW r, Publishes(h, r), r.recovery = relay.recovery,
         Fits(h, s, b, l, k, c, p), Holds(h, s, b, k, c, relay)
  PROVE  Holds(h, s, b, k, c, r)
<1>1. Syncing(s, b, c) => b.content \in Id
  BY DEF Fits, BindingRec, Known
<1>2. b.state = "active" => b.content # None
  BY DEF Fits
<1>3. \A x : Valid(relay, x) => Valid(r, x)
  BY DEF Publishes
<1>4. Syncing(s, b, c) => h \in r.roster[b.content]
  BY <1>1 DEF Publishes, Holds
<1> QED BY <1>2, <1>3, <1>4 DEF Holds, Publishes

LEMMA RosterGrows ==
  ASSUME IInv, NEW h \in Host, NEW x \in Id, NEW r, r = [relay EXCEPT !.roster[x] = @ \cup {h}]
  PROVE  /\ Publishes(h, r) /\ r.recovery = relay.recovery /\ r.bound = relay.bound
         /\ h \in r.roster[x]
<1>1. RelayTyped(relay)
  BY DEF IInv, TypeOK
<1>2. /\ r.bound = relay.bound /\ r.trust = relay.trust /\ r.wraps = relay.wraps
      /\ r.recovery = relay.recovery /\ r.events = relay.events
      /\ r.roster = [relay.roster EXCEPT ![x] = @ \cup {h}]
      /\ DOMAIN r = {"bound", "roster", "trust", "wraps", "recovery", "events"}
  BY <1>1 DEF RelayTyped
<1>3. RelayTyped(r) /\ h \in r.roster[x] /\ \A y \in Id : relay.roster[y] \subseteq r.roster[y]
  BY <1>1, <1>2 DEF RelayTyped
<1>4. Publishes(h, r)
  BY <1>2, <1>3, NothingNew DEF Publishes, Stored
<1> QED BY <1>2, <1>3, <1>4

\* An entry that is not on record yet can be appended.
LEMMA AppendedOnce ==
  ASSUME NEW S, NEW q \in Seq(S), NEW e \in S, IsInjective(q), ~Contains(q, e)
  PROVE  /\ Append(q, e) \in Seq(S) /\ IsInjective(Append(q, e))
         /\ \A i \in DOMAIN Append(q, e) :
              Append(q, e)[i] = e \/ \E j \in DOMAIN q : Append(q, e)[i] = q[j]
<1>1. /\ Append(q, e) \in Seq(S) /\ DOMAIN Append(q, e) = 1..Len(q) + 1 /\ Len(q) \in Nat
      /\ DOMAIN q = 1..Len(q) /\ Append(q, e)[Len(q) + 1] = e
      /\ \A i \in 1..Len(q) : Append(q, e)[i] = q[i]
  OBVIOUS
<1>2. \A i \in 1..Len(q) : q[i] # e
  BY DEF Contains
<1>3. \A i, j \in 1..Len(q) : q[i] = q[j] => i = j
  BY <1>1 DEF IsInjective
<1>4. \A i, j \in 1..Len(q) + 1 : Append(q, e)[i] = Append(q, e)[j] => i = j
  <2> SUFFICES ASSUME NEW i \in 1..Len(q) + 1, NEW j \in 1..Len(q) + 1,
                      Append(q, e)[i] = Append(q, e)[j]
               PROVE  i = j
    OBVIOUS
  <2>1. (i \in 1..Len(q) \/ i = Len(q) + 1) /\ (j \in 1..Len(q) \/ j = Len(q) + 1)
    BY <1>1
  <2> QED BY <1>1, <1>2, <1>3, <2>1
<1>5. \A i \in 1..Len(q) + 1 : i \in 1..Len(q) \/ i = Len(q) + 1
  BY <1>1
<1> QED BY <1>1, <1>4, <1>5 DEF IsInjective

LEMMA Attests ==
  ASSUME IInv, NEW h \in Host, NEW d \in Host, NEW x \in Id, binding[h].content = x,
         NEW r, r = AttestTrust(h, d)
  PROVE  Publishes(h, r) /\ r.recovery = relay.recovery
<1>1. RelayTyped(relay)
  BY DEF IInv, TypeOK
<1>2. CASE Contains(relay.trust[x], <<h, d>>)
  BY <1>2, NothingNew DEF AttestTrust
<1>3. CASE ~Contains(relay.trust[x], <<h, d>>)
  <2>1. r = [relay EXCEPT !.trust[x] = Append(@, <<h, d>>)]
    BY <1>3 DEF AttestTrust
  <2>2. /\ r.bound = relay.bound /\ r.roster = relay.roster /\ r.wraps = relay.wraps
        /\ r.recovery = relay.recovery /\ r.events = relay.events
        /\ r.trust = [relay.trust EXCEPT ![x] = Append(@, <<h, d>>)]
        /\ DOMAIN r = {"bound", "roster", "trust", "wraps", "recovery", "events"}
    BY <1>1, <2>1 DEF RelayTyped
  <2>3. relay.trust[x] \in Seq(Host \X Host) /\ IsInjective(relay.trust[x])
    BY <1>1 DEF RelayTyped, IInv, PublishedOnce
  <2>4. /\ Append(relay.trust[x], <<h, d>>) \in Seq(Host \X Host)
        /\ IsInjective(Append(relay.trust[x], <<h, d>>))
    BY <1>3, <2>3, AppendedOnce
  <2>5. RelayTyped(r)
    BY <1>1, <2>2, <2>4 DEF RelayTyped
  <2>6. \A y \in Id : IsInjective(r.trust[y])
    BY <1>1, <2>2, <2>4 DEF RelayTyped, IInv, PublishedOnce
  <2>7. Publishes(h, r)
    BY <2>2, <2>5, <2>6, NothingNew DEF Publishes, Stored
  <2> QED BY <2>2, <2>7
<1> QED BY <1>2, <1>3

LEMMA Wraps ==
  ASSUME IInv, NEW h \in Host, NEW x \in Id, NEW w \in Envelope, Root(x, w.ark), NEW r,
         r = IF Contains(relay.wraps[x], w) THEN relay
             ELSE [relay EXCEPT !.wraps[x] = Append(@, w)]
  PROVE  Publishes(h, r) /\ r.recovery = relay.recovery
<1>1. RelayTyped(relay)
  BY DEF IInv, TypeOK
<1>2. CASE Contains(relay.wraps[x], w)
  BY <1>2, NothingNew
<1>3. CASE ~Contains(relay.wraps[x], w)
  <2>1. r = [relay EXCEPT !.wraps[x] = Append(@, w)]
    BY <1>3
  <2>2. /\ r.bound = relay.bound /\ r.roster = relay.roster /\ r.trust = relay.trust
        /\ r.recovery = relay.recovery /\ r.events = relay.events
        /\ r.wraps = [relay.wraps EXCEPT ![x] = Append(@, w)]
        /\ DOMAIN r = {"bound", "roster", "trust", "wraps", "recovery", "events"}
    BY <1>1, <2>1 DEF RelayTyped
  <2>3. relay.wraps[x] \in Seq(Envelope) /\ IsInjective(relay.wraps[x])
    BY <1>1 DEF RelayTyped, IInv, PublishedOnce
  <2> DEFINE q == Append(relay.wraps[x], w)
  <2>4. /\ q \in Seq(Envelope) /\ IsInjective(q)
        /\ \A i \in DOMAIN q :
             q[i] = w \/ \E j \in DOMAIN relay.wraps[x] : q[i] = relay.wraps[x][j]
    BY <1>3, <2>3, AppendedOnce
  <2>5. r.wraps[x] = q /\ \A y \in Id : y # x => r.wraps[y] = relay.wraps[y]
    BY <1>1, <2>2 DEF RelayTyped
  <2> HIDE DEF q
  <2>6. RelayTyped(r)
    <3>1. r.wraps \in [Id -> Seq(Envelope)]
      BY <1>1, <2>2, <2>4 DEF RelayTyped, q
    <3> QED BY <1>1, <2>2, <3>1 DEF RelayTyped
  <2>7. \A y \in Id : IsInjective(r.wraps[y])
    BY <2>4, <2>5 DEF IInv, PublishedOnce
  <2>8. \A y \in Id, a \in Known : Stored(r, y, a) => Stored(relay, y, a) \/ Root(y, a)
    BY <2>2, <2>4, <2>5 DEF Stored
  <2>9. Publishes(h, r)
    BY <2>2, <2>6, <2>7, <2>8, NothingNew DEF Publishes
  <2> QED BY <2>2, <2>9
<1> QED BY <1>2, <1>3

LEMMA Binds ==
  ASSUME IInv, NEW h \in Host, NEW t \in Identity, NEW x \in Id, relay.bound[t] \in {None, x},
         x <= minted, NEW r, r = [relay EXCEPT !.bound[t] = x]
  PROVE  Publishes(h, r) /\ r.recovery = relay.recovery
<1>1. RelayTyped(relay)
  BY DEF IInv, TypeOK
<1>2. /\ r.roster = relay.roster /\ r.trust = relay.trust /\ r.wraps = relay.wraps
      /\ r.recovery = relay.recovery /\ r.events = relay.events
      /\ r.bound = [relay.bound EXCEPT ![t] = x]
      /\ DOMAIN r = {"bound", "roster", "trust", "wraps", "recovery", "events"}
  BY <1>1 DEF RelayTyped
<1>3. /\ \A i \in Identity : i # t => r.bound[i] = relay.bound[i]
      /\ r.bound[t] = x
  BY <1>1, <1>2 DEF RelayTyped
<1>4. RelayTyped(r)
  BY <1>1, <1>2 DEF RelayTyped, Known
<1>5. \A i \in Identity : /\ r.bound[i] <= minted
                          /\ relay.bound[i] # None => r.bound[i] = relay.bound[i]
  BY <1>3 DEF IInv, MintedOnce
<1>6. Publishes(h, r)
  BY <1>2, <1>4, <1>5, NothingNew DEF Publishes, Stored
<1> QED BY <1>2, <1>6

LEMMA Pushes ==
  ASSUME IInv, NEW h \in Host, NEW x \in Id, NEW e, NEW r,
         r = relay \/ r = [relay EXCEPT !.events[x] = e]
  PROVE  Publishes(h, r) /\ r.recovery = relay.recovery
<1>1. RelayTyped(relay)
  BY DEF IInv, TypeOK
<1>2. CASE r = relay
  BY <1>2, NothingNew
<1>3. CASE r = [relay EXCEPT !.events[x] = e]
  <2>1. r = [relay EXCEPT !.events[x] = e]
    BY <1>3
  <2>2. /\ r.roster = relay.roster /\ r.trust = relay.trust /\ r.wraps = relay.wraps
        /\ r.recovery = relay.recovery /\ r.bound = relay.bound
        /\ DOMAIN r.events = DOMAIN relay.events
        /\ DOMAIN r = {"bound", "roster", "trust", "wraps", "recovery", "events"}
    BY <1>1, <2>1 DEF RelayTyped
  <2>3. RelayTyped(r)
    BY <1>1, <2>2 DEF RelayTyped
  <2>4. Publishes(h, r)
    BY <2>2, <2>3, NothingNew DEF Publishes, Stored
  <2> QED BY <2>2, <2>4
<1> QED BY <1>2, <1>3

\* Nobody else relies on the recovery blob of a content id that h holds.
Replaces(h, x, blob, r) ==
  /\ keys[h].id = x /\ setup[h].flow # "join" /\ Root(x, blob.ark)
  /\ r = [relay EXCEPT !.recovery[x] = blob]

LEMMA RecoveryReplaced ==
  ASSUME IInv, NEW h \in Host, NEW x \in Id, NEW blob \in Blob, NEW r, Replaces(h, x, blob, r)
  PROVE  /\ Publishes(h, r) /\ r.bound = relay.bound /\ r.roster = relay.roster
         /\ r.recovery[x] = blob
<1>1. RelayTyped(relay)
  BY DEF IInv, TypeOK
<1>2. /\ r.roster = relay.roster /\ r.trust = relay.trust /\ r.wraps = relay.wraps
      /\ r.bound = relay.bound /\ r.events = relay.events
      /\ r.recovery = [relay.recovery EXCEPT ![x] = blob]
      /\ DOMAIN r = {"bound", "roster", "trust", "wraps", "recovery", "events"}
  BY <1>1 DEF RelayTyped, Replaces
<1>3. r.recovery[x] = blob /\ \A y : y # x => r.recovery[y] = relay.recovery[y]
  BY <1>1, <1>2 DEF RelayTyped
<1>4. RelayTyped(r)
  BY <1>1, <1>2 DEF RelayTyped
<1>5. ASSUME NEW g \in Host \ {h}, setup[g].flow = "create",
             setup[g].ack \/ setup[g].phase = "recovery"
      PROVE  r.recovery[binding[g].content] = relay.recovery[binding[g].content]
  <2>1. PICK s \in SetupRec, b \in BindingRec, l \in LocalRec, k \in KeysRec, c \in CmdRec,
             p \in ProcRec :
          /\ Now(g, s, b, l, k, c, p) /\ Fits(g, s, b, l, k, c, p)
    BY Here DEF IInv
  <2>2. b.state # "none" /\ k.id = b.content
    BY <1>5, <2>1 DEF Fits
  <2>3. keys[h].id # keys[g].id
    BY <1>5, <2>1, <2>2 DEF IInv, ContentOwned, Created, Replaces
  <2> QED BY <1>3, <2>1, <2>2, <2>3 DEF Replaces
<1>6. \A y \in Id, a \in Known : Stored(r, y, a) => Stored(relay, y, a) \/ Root(y, a)
  BY <1>2, <1>3 DEF Stored, Replaces
<1>7. Publishes(h, r)
  BY <1>2, <1>4, <1>5, <1>6, NothingNew DEF Publishes
<1> QED BY <1>2, <1>3, <1>7

LEMMA EnrollUnknownKept ==
  ASSUME IInv, NEW h \in Host, NEW peer \in Host, Enroll(h, peer),
         peer \notin relay'.roster[Content(h)]
  PROVE  IInv' /\ KeysStay
<1>1. PICK s \in SetupRec, b \in BindingRec, l \in LocalRec, k \in KeysRec, c \in CmdRec,
           p \in ProcRec :
        /\ Now(h, s, b, l, k, c, p) /\ Fits(h, s, b, l, k, c, p)
        /\ Holds(h, s, b, k, c, relay)
  BY Here DEF IInv
<1>2. b.content \in Id
  BY <1>1 DEF Enroll, Fits, BindingRec, Known, HasProvider
<1>3. Moved(h, s, b, l, k, c, p)
  BY <1>1, <1>2 DEF Moved, IInv, TypeOK, Enroll, HasProvider
<1>4. Fits(h, s, b, l, k, c, p)
  BY <1>1, <1>2 DEF Fits, Enroll, HasProvider
<1>5. PICK r : r = [relay EXCEPT !.roster[b.content] = @ \cup {h}]
  OBVIOUS
<1>6. relay' = r /\ UNCHANGED minted
  BY <1>1, <1>5, <1>2 DEF Enroll, HasProvider
<1>7. Publishes(h, r) /\ r.recovery = relay.recovery /\ h \in r.roster[b.content]
  BY <1>2, <1>5, RosterGrows
<1>8. Holds(h, s, b, k, c, r)
  BY <1>1, <1>7, HoldsOn
<1>9. Holds(h, s, b, k, c, r)
  BY <1>1, <1>7, <1>8, <1>2 DEF Holds, Enroll, HasProvider
<1>10. Settled(h, s, b, l, k, c, p, r)
  BY <1>1, <1>4, <1>9, <1>2 DEF Settled, Created, Enroll, HasProvider
<1> QED BY <1>3, <1>6, <1>7, <1>10, StepKept

LEMMA EnrollKept ==
  ASSUME IInv, NEW h \in Host, NEW peer \in Host, Enroll(h, peer),
         peer \in relay'.roster[Content(h)]
  PROVE  IInv' /\ KeysStay
<1>1. PICK s \in SetupRec, b \in BindingRec, l \in LocalRec, k \in KeysRec, c \in CmdRec,
           p \in ProcRec :
        /\ Now(h, s, b, l, k, c, p) /\ Fits(h, s, b, l, k, c, p)
        /\ Holds(h, s, b, k, c, relay)
  BY Here DEF IInv
<1>2. b.content \in Id
  BY <1>1 DEF Enroll, Fits, BindingRec, Known, HasProvider
<1> DEFINE c2 == [Idle EXCEPT !.op = "enroll", !.pc = "enrolled", !.device = peer]
<1>3. c2 \in CmdRec
  BY <1>1, <1>2 DEF Enroll, CmdRec, Place, Op, NoSession, NoBlob, Session, Blob, Known
<1>4. Moved(h, s, b, l, k, c2, p)
  BY <1>1, <1>2, <1>3 DEF Moved, IInv, TypeOK, Enroll, HasProvider
<1>5. c2.op = "enroll" /\ c2.pc = "enrolled" /\ c2.device = peer
  BY DEF CmdRec
<1> HIDE DEF c2
<1>6. Fits(h, s, b, l, k, c2, p)
  BY <1>1, <1>2, <1>5 DEF Fits, Enroll, HasProvider
<1>7. PICK r : r = [relay EXCEPT !.roster[b.content] = @ \cup {h}]
  OBVIOUS
<1>8. relay' = r /\ UNCHANGED minted
  BY <1>1, <1>7, <1>2 DEF Enroll, HasProvider
<1>9. Publishes(h, r) /\ r.recovery = relay.recovery /\ h \in r.roster[b.content]
  BY <1>2, <1>7, RosterGrows
<1>10. Holds(h, s, b, k, c, r)
  BY <1>1, <1>9, HoldsOn
<1>11. Holds(h, s, b, k, c2, r)
  BY <1>1, <1>9, <1>10, <1>2, <1>5 DEF Holds, Enroll, HasProvider
<1>12. Settled(h, s, b, l, k, c2, p, r)
  BY <1>1, <1>6, <1>11, <1>2, <1>5 DEF Settled, Created, Enroll, HasProvider
<1> QED BY <1>4, <1>8, <1>9, <1>12, StepKept

LEMMA EnsureDeviceKept ==
  ASSUME IInv, NEW h \in Host, EnsureDevice(h)
  PROVE  IInv' /\ KeysStay
<1>1. PICK s \in SetupRec, b \in BindingRec, l \in LocalRec, k \in KeysRec, c \in CmdRec,
           p \in ProcRec :
        /\ Now(h, s, b, l, k, c, p) /\ Fits(h, s, b, l, k, c, p)
        /\ Holds(h, s, b, k, c, relay)
  BY Here DEF IInv
<1>2. b.content \in Id
  BY <1>1 DEF EnsureDevice, Fits, BindingRec, Known
<1> DEFINE c2 == To(c, IF c.op = "accept" THEN "ready" ELSE "root")
<1>3. c2 \in CmdRec
  BY <1>1, <1>2, GoesTo DEF Place, EnsureDevice, Fits
<1>4. Moved(h, s, b, l, k, c2, p)
  BY <1>1, <1>2, <1>3 DEF Moved, IInv, TypeOK, EnsureDevice, To
<1>5. /\ c2.pc = (IF c.op = "accept" THEN "ready" ELSE "root") /\ c2.op = c.op
      /\ c2.identity = c.identity /\ c2.session = c.session /\ c2.device = c.device
      /\ c2.ark = c.ark
  BY GoesTo
<1> HIDE DEF c2
<1>6. Fits(h, s, b, l, k, c2, p)
  BY <1>1, <1>2, <1>5 DEF Fits, EnsureDevice
<1>7. PICK r : r = [relay EXCEPT !.roster[b.content] = @ \cup {h}]
  OBVIOUS
<1>8. relay' = r /\ UNCHANGED minted
  BY <1>1, <1>7, <1>2 DEF EnsureDevice
<1>9. Publishes(h, r) /\ r.recovery = relay.recovery /\ h \in r.roster[b.content]
  BY <1>2, <1>7, RosterGrows
<1>10. Holds(h, s, b, k, c, r)
  BY <1>1, <1>9, HoldsOn
<1>11. Holds(h, s, b, k, c2, r)
  BY <1>1, <1>9, <1>10, <1>2, <1>5 DEF Holds, EnsureDevice
<1>12. Settled(h, s, b, l, k, c2, p, r)
  BY <1>1, <1>6, <1>11, <1>2, <1>5 DEF Settled, Created, EnsureDevice
<1> QED BY <1>4, <1>8, <1>9, <1>12, StepKept

LEMMA EnsureRootKept ==
  ASSUME IInv, NEW h \in Host, EnsureRoot(h)
  PROVE  IInv' /\ KeysStay
<1>1. PICK s \in SetupRec, b \in BindingRec, l \in LocalRec, k \in KeysRec, c \in CmdRec,
           p \in ProcRec :
        /\ Now(h, s, b, l, k, c, p) /\ Fits(h, s, b, l, k, c, p)
        /\ Holds(h, s, b, k, c, relay)
  BY Here DEF IInv
<1>2. b.content \in Id
  BY <1>1 DEF EnsureRoot, Fits, BindingRec, Known
<1> DEFINE c2 == To(c, IF c.op = "recover" THEN "ready" ELSE "recovery")
<1>3. c2 \in CmdRec
  BY <1>1, <1>2, GoesTo DEF Place, EnsureRoot, Fits
<1>4. Moved(h, s, b, l, k, c2, p)
  BY <1>1, <1>2, <1>3 DEF Moved, IInv, TypeOK, EnsureRoot, To
<1>5. /\ c2.pc = (IF c.op = "recover" THEN "ready" ELSE "recovery") /\ c2.op = c.op
      /\ c2.identity = c.identity /\ c2.session = c.session /\ c2.device = c.device
      /\ c2.ark = c.ark
  BY GoesTo
<1> HIDE DEF c2
<1>6. Fits(h, s, b, l, k, c2, p)
  BY <1>1, <1>2, <1>5 DEF Fits, EnsureRoot
<1>7. PICK r : r = AttestTrust(h, h)
  OBVIOUS
<1>8. relay' = r /\ UNCHANGED minted
  BY <1>1, <1>7, <1>2 DEF EnsureRoot
<1>9. Publishes(h, r) /\ r.recovery = relay.recovery
  BY <1>1, <1>2, <1>7, Attests
<1>10. Holds(h, s, b, k, c, r)
  BY <1>1, <1>9, HoldsOn
<1>11. Holds(h, s, b, k, c2, r)
  BY <1>1, <1>9, <1>10, <1>2, <1>5 DEF Holds, EnsureRoot
<1>12. Settled(h, s, b, l, k, c2, p, r)
  BY <1>1, <1>6, <1>11, <1>2, <1>5 DEF Settled, Created, EnsureRoot
<1> QED BY <1>4, <1>8, <1>9, <1>12, StepKept

LEMMA WrapKept ==
  ASSUME IInv, NEW h \in Host, Wrap(h)
  PROVE  IInv' /\ KeysStay
<1>1. PICK s \in SetupRec, b \in BindingRec, l \in LocalRec, k \in KeysRec, c \in CmdRec,
           p \in ProcRec :
        /\ Now(h, s, b, l, k, c, p) /\ Fits(h, s, b, l, k, c, p)
        /\ Holds(h, s, b, k, c, relay)
  BY Here DEF IInv
<1>2. b.content \in Id
  BY <1>1 DEF Wrap, Fits, BindingRec, Known
<1>3. PICK w \in Envelope : w = [from |-> h, to |-> c.device, ark |-> k.ark]
  BY <1>1 DEF Wrap, Fits, Envelope, KeysRec
<1>4. Root(b.content, w.ark)
  BY <1>1, <1>3 DEF Wrap, Fits, Root
<1> DEFINE c2 == To(c, "attest")
<1>5. c2 \in CmdRec
  BY <1>1, <1>2, <1>3, <1>4, GoesTo DEF Place
<1>6. Moved(h, s, b, l, k, c2, p)
  BY <1>1, <1>2, <1>3, <1>4, <1>5 DEF Moved, IInv, TypeOK, Wrap, To
<1>7. /\ c2.pc = "attest" /\ c2.op = c.op /\ c2.identity = c.identity /\ c2.session = c.session
      /\ c2.device = c.device /\ c2.ark = c.ark
  BY GoesTo
<1> HIDE DEF c2
<1>8. Fits(h, s, b, l, k, c2, p)
  BY <1>1, <1>2, <1>3, <1>4, <1>7 DEF Fits, Wrap
<1>9. PICK r : r = IF Contains(relay.wraps[b.content], w) THEN relay
               ELSE [relay EXCEPT !.wraps[b.content] = Append(@, w)]
  OBVIOUS
<1>10. relay' = r /\ UNCHANGED minted
  BY <1>1, <1>9, <1>2, <1>3, <1>4 DEF Wrap
<1>11. Publishes(h, r) /\ r.recovery = relay.recovery
  BY <1>2, <1>3, <1>4, <1>9, Wraps
<1>12. Holds(h, s, b, k, c, r)
  BY <1>1, <1>11, HoldsOn
<1>13. Holds(h, s, b, k, c2, r)
  BY <1>1, <1>11, <1>12, <1>2, <1>3, <1>4, <1>7 DEF Holds, Wrap
<1>14. Settled(h, s, b, l, k, c2, p, r)
  BY <1>1, <1>8, <1>13, <1>2, <1>3, <1>4, <1>7 DEF Settled, Created, Wrap
<1> QED BY <1>6, <1>10, <1>11, <1>14, StepKept

LEMMA AttestKept ==
  ASSUME IInv, NEW h \in Host, Attest(h)
  PROVE  IInv' /\ KeysStay
<1>1. PICK s \in SetupRec, b \in BindingRec, l \in LocalRec, k \in KeysRec, c \in CmdRec,
           p \in ProcRec :
        /\ Now(h, s, b, l, k, c, p) /\ Fits(h, s, b, l, k, c, p)
        /\ Holds(h, s, b, k, c, relay)
  BY Here DEF IInv
<1>2. b.content \in Id
  BY <1>1 DEF Attest, Fits, BindingRec, Known
<1>3. c.device \in Host
  BY <1>1 DEF Attest, Fits
<1> DEFINE c2 == Idle
<1>4. c2 \in CmdRec
  BY IdleTyped
<1>5. Moved(h, s, b, l, k, c2, p)
  BY <1>1, <1>2, <1>3, <1>4 DEF Moved, IInv, TypeOK, Attest
<1>6. c2.pc = "idle" /\ c2.op = "none"
  BY IdleTyped
<1> HIDE DEF c2
<1>7. Fits(h, s, b, l, k, c2, p)
  BY <1>1, <1>2, <1>3, <1>6 DEF Fits, Attest
<1>8. PICK r : r = AttestTrust(h, c.device)
  OBVIOUS
<1>9. relay' = r /\ UNCHANGED minted
  BY <1>1, <1>8, <1>2, <1>3 DEF Attest
<1>10. Publishes(h, r) /\ r.recovery = relay.recovery
  BY <1>1, <1>2, <1>3, <1>8, Attests
<1>11. Holds(h, s, b, k, c, r)
  BY <1>1, <1>10, HoldsOn
<1>12. Holds(h, s, b, k, c2, r)
  BY <1>1, <1>10, <1>11, <1>2, <1>3, <1>6 DEF Holds, Attest
<1>13. Settled(h, s, b, l, k, c2, p, r)
  BY <1>1, <1>7, <1>12, <1>2, <1>3, <1>6 DEF Settled, Created, Attest
<1> QED BY <1>5, <1>9, <1>10, <1>13, StepKept

LEMMA BindKept ==
  ASSUME IInv, NEW h \in Host, Bind(h)
  PROVE  IInv' /\ KeysStay
<1>1. PICK s \in SetupRec, b \in BindingRec, l \in LocalRec, k \in KeysRec, c \in CmdRec,
           p \in ProcRec :
        /\ Now(h, s, b, l, k, c, p) /\ Fits(h, s, b, l, k, c, p)
        /\ Holds(h, s, b, k, c, relay)
  BY Here DEF IInv
<1>2. b.content \in Id
  BY <1>1 DEF Bind, Fits, BindingRec, Known
<1>3. c.session.tenant \in Identity /\ relay.bound[c.session.tenant] \in {None, b.content}
  BY <1>1 DEF Bind, Fits
<1>4. b.content <= minted
  BY <1>1 DEF Bind, Fits, IInv, MintedOnce
<1> DEFINE c2 == To(c, "relogin")
<1>5. c2 \in CmdRec
  BY <1>1, <1>2, <1>3, <1>4, GoesTo DEF Place
<1>6. Moved(h, s, b, l, k, c2, p)
  BY <1>1, <1>2, <1>3, <1>4, <1>5 DEF Moved, IInv, TypeOK, Bind, To
<1>7. /\ c2.pc = "relogin" /\ c2.op = c.op /\ c2.identity = c.identity /\ c2.session = c.session
      /\ c2.device = c.device /\ c2.ark = c.ark
  BY GoesTo
<1> HIDE DEF c2
<1>8. Fits(h, s, b, l, k, c2, p)
  BY <1>1, <1>2, <1>3, <1>4, <1>7 DEF Fits, Bind
<1>9. PICK r : r = [relay EXCEPT !.bound[c.session.tenant] = b.content]
  OBVIOUS
<1>10. relay' = r /\ UNCHANGED minted
  BY <1>1, <1>9, <1>2, <1>3, <1>4 DEF Bind
<1>11. Publishes(h, r) /\ r.recovery = relay.recovery
  BY <1>2, <1>3, <1>4, <1>9, Binds
<1>12. Holds(h, s, b, k, c, r)
  BY <1>1, <1>11, HoldsOn
<1>13. Holds(h, s, b, k, c2, r)
  BY <1>1, <1>11, <1>12, <1>2, <1>3, <1>4, <1>7 DEF Holds, Bind
<1>14. Settled(h, s, b, l, k, c2, p, r)
  BY <1>1, <1>8, <1>13, <1>2, <1>3, <1>4, <1>7 DEF Settled, Created, Bind
<1> QED BY <1>6, <1>10, <1>11, <1>14, StepKept

LEMMA WorkerSyncsKept ==
  ASSUME IInv, NEW h \in Host, WorkerSyncs(h)
  PROVE  IInv' /\ KeysStay
<1>1. PICK s \in SetupRec, b \in BindingRec, l \in LocalRec, k \in KeysRec, c \in CmdRec,
           p \in ProcRec :
        /\ Now(h, s, b, l, k, c, p) /\ Fits(h, s, b, l, k, c, p)
        /\ Holds(h, s, b, k, c, relay)
  BY Here DEF IInv
<1>2. b.content \in Id
  BY <1>1 DEF WorkerSyncs, Fits, BindingRec, Known
<1> DEFINE l2 == [l EXCEPT !.items = l.items \/ relay.events[b.content] # <<>>]
<1>3. l2 \in LocalRec
  BY <1>1, <1>2 DEF WorkerSyncs, LocalRec, Known, BindingRec
<1>4. Moved(h, s, b, l2, k, c, p)
  BY <1>1, <1>2, <1>3 DEF Moved, IInv, TypeOK, WorkerSyncs
<1>5. /\ l2.account = l.account /\ l2.needs_login = l.needs_login
      /\ l2.items = (l.items \/ relay.events[b.content] # <<>>)
  BY DEF LocalRec
<1> HIDE DEF l2
<1>6. Fits(h, s, b, l2, k, c, p)
  BY <1>1, <1>2, <1>5 DEF Fits, WorkerSyncs
<1>7. PICK r : r = IF l.items /\ relay.events[b.content] = <<>>
               THEN [relay EXCEPT !.events[b.content] = <<k.ark, h>>] ELSE relay
  OBVIOUS
<1>8. relay' = r /\ UNCHANGED minted
  BY <1>1, <1>7, <1>2 DEF WorkerSyncs
<1>9. Publishes(h, r) /\ r.recovery = relay.recovery
  BY <1>2, <1>7, Pushes
<1>10. Holds(h, s, b, k, c, r)
  BY <1>1, <1>9, HoldsOn
<1>11. Holds(h, s, b, k, c, r)
  BY <1>1, <1>9, <1>10, <1>2, <1>5 DEF Holds, WorkerSyncs
<1>12. Settled(h, s, b, l2, k, c, p, r)
  BY <1>1, <1>6, <1>11, <1>2, <1>5 DEF Settled, Created, WorkerSyncs
<1> QED BY <1>4, <1>8, <1>9, <1>12, StepKept

LEMMA PublishRecoveryKept ==
  ASSUME IInv, NEW h \in Host, PublishRecovery(h)
  PROVE  IInv' /\ KeysStay
<1>1. PICK s \in SetupRec, b \in BindingRec, l \in LocalRec, k \in KeysRec, c \in CmdRec,
           p \in ProcRec :
        /\ Now(h, s, b, l, k, c, p) /\ Fits(h, s, b, l, k, c, p)
        /\ Holds(h, s, b, k, c, relay)
  BY Here DEF IInv
<1>2. /\ b.content \in Id /\ k.id = b.content /\ s.flow # "join" /\ k.ark # None
      /\ k.capture = [code |-> h, ark |-> k.ark]
  BY <1>1 DEF PublishRecovery, Fits, BindingRec, Known
<1>3. PICK x \in Id, blob \in Blob : x = b.content /\ blob = k.capture /\ blob.ark = k.ark
  BY <1>2 DEF KeysRec
<1> DEFINE c2 == Anew("authenticate", "published", Nobody)
<1>4. c2 \in CmdRec
  BY Begins DEF Place, Op
<1>5. Moved(h, s, b, l, k, c2, p)
  BY <1>1, <1>4 DEF Moved, IInv, TypeOK, PublishRecovery, Anew
<1>6. c2.pc = "published" /\ c2.op = "authenticate" /\ c2.identity = Nobody
  BY Begins
<1> HIDE DEF c2
<1>7. Fits(h, s, b, l, k, c2, p)
  BY <1>1, <1>6 DEF Fits, PublishRecovery
<1>8. PICK r : r = [relay EXCEPT !.recovery[x] = blob]
  OBVIOUS
<1>9. relay' = r /\ UNCHANGED minted
  BY <1>1, <1>3, <1>8 DEF PublishRecovery
<1>10. /\ Publishes(h, r) /\ r.bound = relay.bound /\ r.roster = relay.roster
       /\ r.recovery[x] = blob
  <2>1. Replaces(h, x, blob, r)
    BY <1>1, <1>2, <1>3, <1>8 DEF Replaces, Root
  <2> QED BY <2>1, RecoveryReplaced
<1>11. Holds(h, s, b, k, c2, r)
  BY <1>1, <1>2, <1>3, <1>6, <1>10 DEF Holds, PublishRecovery
<1>12. Settled(h, s, b, l, k, c2, p, r)
  BY <1>1, <1>6, <1>7, <1>11 DEF Settled, Created, PublishRecovery
<1> QED BY <1>5, <1>9, <1>10, <1>12, StepKept

-----------------------------------------------------------------------------
(* The steps that generate or take over keys. *)

\* The records are sound with what every other host holds.
Sound(h, s, b, k, c) ==
  \A g \in Host \ {h} :
    /\ keys[g].id = k.id /\ k.id # None /\ keys[g].ark # None /\ k.ark # None =>
         keys[g].ark = k.ark
    /\ \/ Created(g) /\ s.flow # "join"
       \/ s.flow = "create" /\ (b.state # "none" \/ c.pc \in Making) /\ setup[g].flow # "join"
       => keys[g].id # k.id

Minting(h, k) ==
  /\ UNCHANGED relay /\ minted' \in Nat /\ minted <= minted'
  /\ k.id <= minted' /\ k.ark <= minted'

Keyed(h, s, b, l, k, c, p) ==
  /\ Minting(h, k) /\ Sound(h, s, b, k, c) /\ KeepsKeys(h, k) /\ JoinsRoot(h, b, c)
  /\ Fits(h, s, b, l, k, c, p) /\ Holds(h, s, b, k, c, relay)

LEMMA KeyedKept ==
  ASSUME IInv, NEW h \in Host, NEW s, NEW b, NEW l, NEW k, NEW c, NEW p,
         Moved(h, s, b, l, k, c, p), Keyed(h, s, b, l, k, c, p)
  PROVE  IInv' /\ KeysStay
<1>1. PICK r : r = relay /\ relay' = r
  BY DEF Keyed, Minting
<1>2. Publishes(h, r)
  BY <1>1, NothingNew
<1>3. TypeOK'
  BY <1>1, <1>2, TypesKept DEF IInv, Publishes, Keyed, Minting
<1>4. HostsOK'
  <2>1. Fits(h, s, b, l, k, c, p) /\ Holds(h, s, b, k, c, r)
    BY <1>1 DEF Keyed
  <2> QED BY <1>1, <1>2, <2>1, HostsKept DEF IInv
<1>5. KeysStay
  BY KeysStayed DEF Keyed
<1>6. RelayRoots'
  BY <1>1, <1>2, <1>5, RelayRootsKept DEF IInv, RootsOK
<1>7. JoinRoots'
  BY <1>5, JoinRootsKept DEF IInv, RootsOK, Keyed
<1>8. \A g \in Host : keys'[g] = IF g = h THEN k ELSE keys[g]
  BY DEF Moved
<1>9. OneRoot'
  BY <1>8 DEF OneRoot, IInv, RootsOK, Keyed, Sound
<1>10. ContentOwned'
  <2>1. SUFFICES ASSUME NEW f \in Host, NEW g \in Host, f # g, Created(g)',
                        setup'[f].flow # "join"
                 PROVE  keys'[f].id # keys'[g].id
    BY DEF ContentOwned
  <2>2. \A e \in Host : e # h => setup'[e] = setup[e] /\ (Created(e)' <=> Created(e))
    BY DEF Moved, Created
  <2>3. /\ setup'[h] = s
        /\ Created(h)' <=> s.flow = "create" /\ (b.state # "none" \/ c.pc \in Making)
    BY DEF Moved, Created
  <2>4. CASE f # h /\ g # h
    BY <1>8, <2>1, <2>2, <2>4 DEF IInv, ContentOwned
  <2>5. CASE f = h /\ g # h
    BY <1>8, <2>1, <2>2, <2>3, <2>5 DEF Keyed, Sound
  <2>6. CASE f # h /\ g = h
    BY <1>8, <2>1, <2>2, <2>3, <2>6 DEF Keyed, Sound
  <2> QED BY <2>1, <2>4, <2>5, <2>6
<1>11. MintedOnce'
  <2>1. \A g \in Host : keys[g].id \in Nat /\ keys[g].ark \in Nat
    BY DEF IInv, TypeOK, KeysRec, Known, Id, None
  <2>2. \A i \in Identity : relay.bound[i] \in Nat
    BY DEF IInv, TypeOK, RelayTyped, Known, Id, None
  <2>3. minted \in Nat /\ minted' \in Nat /\ minted <= minted'
    BY DEF IInv, TypeOK, Keyed, Minting
  <2> QED BY <1>1, <1>8, <2>1, <2>2, <2>3 DEF MintedOnce, IInv, Keyed, Minting
<1>12. PublishedOnce'
  BY <1>1 DEF PublishedOnce, IInv, IsInjective
<1> QED BY <1>3, <1>4, <1>5, <1>6, <1>7, <1>9, <1>10, <1>11, <1>12 DEF IInv, RootsOK

\* What was generated so far is numbered up to minted.
LEMMA Numbers ==
  ASSUME IInv
  PROVE  /\ minted \in Nat
         /\ \A g \in Host : keys[g].id \in Nat /\ keys[g].ark \in Nat /\ keys[g].id <= minted
BY DEF IInv, TypeOK, MintedOnce, KeysRec, Known, Id, None

LEMMA AuthenticateToCreateKept ==
  ASSUME IInv, NEW h \in Host, NEW i \in Logins[h], Authenticate(h, i),
         setup[h].flow = "create", keys[h].ark = None
  PROVE  IInv' /\ KeysStay
<1>1. PICK s \in SetupRec, b \in BindingRec, l \in LocalRec, k \in KeysRec, c \in CmdRec,
           p \in ProcRec :
        /\ Now(h, s, b, l, k, c, p) /\ Fits(h, s, b, l, k, c, p)
        /\ Holds(h, s, b, k, c, relay)
  BY Here DEF IInv
<1>2. k.id = None /\ k.capture = NoBlob /\ ~Begun(b) /\ ~s.ack /\ s.phase \notin SetUp
  BY <1>1 DEF Authenticate, Fits
<1>3. minted' = minted + 1 /\ minted + 1 \in Id /\ minted + 1 # None
  BY <1>1 DEF Authenticate, HasMaterial, IInv, TypeOK, Id, None
<1>4. CreatedMaterial(h) = [k EXCEPT !.device = TRUE, !.ark = minted + 1, !.id = minted + 1]
  BY <1>1, <1>2 DEF CreatedMaterial
<1>5. \A g \in Host : keys[g].id \in Nat /\ keys[g].ark \in Nat /\ keys[g].id <= minted
  BY Numbers
<1> DEFINE p2 == [p EXCEPT !.worker = FALSE, !.shown = FALSE]
           c2 == Anew("authenticate", "authenticating", i)
           k2 == [k EXCEPT !.device = TRUE, !.ark = minted + 1, !.id = minted + 1]
<1>6. p2 \in ProcRec
  BY <1>1, <1>2, <1>3, <1>4, <1>5, OnboardingAssumption DEF Authenticate, ProcRec
<1>7. c2 \in CmdRec
  BY <1>1, <1>2, <1>3, <1>4, <1>5, OnboardingAssumption, Begins DEF Place, Op
<1>8. k2 \in KeysRec
  BY <1>1, <1>2, <1>3, <1>4, <1>5, OnboardingAssumption DEF Authenticate, KeysRec, Known, Blob,
    NoBlob, Session, NoSession
<1>9. Moved(h, s, b, l, k2, c2, p2)
  BY <1>1, <1>2, <1>3, <1>4, <1>5, <1>6, <1>7, <1>8 DEF Moved, IInv, TypeOK, Authenticate,
    StopWorker, Anew
<1>10. p2.unlocked = p.unlocked /\ p2.worker = FALSE /\ p2.shown = FALSE
  BY DEF ProcRec
<1>11. c2.pc = "authenticating" /\ c2.op = "authenticate" /\ c2.identity = i
  BY Begins
<1>12. /\ k2.device = TRUE /\ k2.ark = minted + 1 /\ k2.id = minted + 1 /\ k2.session = k.session
       /\ k2.capture = k.capture
  BY DEF KeysRec
<1> HIDE DEF p2, c2, k2
<1>13. Fits(h, s, b, l, k2, c2, p2)
  BY <1>1, <1>2, <1>3, <1>4, <1>5, <1>10, <1>11, <1>12, OnboardingAssumption DEF Fits,
    Authenticate, StopWorker
<1>14. Holds(h, s, b, k2, c2, relay)
  BY <1>1, <1>2, <1>3, <1>4, <1>5, <1>10, <1>11, <1>12, OnboardingAssumption DEF Holds,
    Authenticate, StopWorker
<1>15. Minting(h, k2)
  BY <1>1, <1>2, <1>3, <1>4, <1>5, <1>10, <1>11, <1>12, OnboardingAssumption, Numbers DEF
    Minting, Authenticate, Id
<1>16. Sound(h, s, b, k2, c2)
  BY <1>1, <1>2, <1>3, <1>4, <1>5, <1>10, <1>11, <1>12, OnboardingAssumption, Numbers DEF Sound
<1>17. Keyed(h, s, b, l, k2, c2, p2)
  BY <1>1, <1>13, <1>14, <1>15, <1>16, <1>2, <1>3, <1>4, <1>5, <1>10, <1>11, <1>12,
    OnboardingAssumption DEF
    Keyed, KeepsKeys, Authenticate, StopWorker
<1> QED BY <1>9, <1>17, KeyedKept

LEMMA AuthenticateToJoinKept ==
  ASSUME IInv, NEW h \in Host, NEW i \in Logins[h], Authenticate(h, i),
         setup[h].flow = "join"
  PROVE  IInv' /\ KeysStay
<1>1. PICK s \in SetupRec, b \in BindingRec, l \in LocalRec, k \in KeysRec, c \in CmdRec,
           p \in ProcRec :
        /\ Now(h, s, b, l, k, c, p) /\ Fits(h, s, b, l, k, c, p)
        /\ Holds(h, s, b, k, c, relay)
  BY Here DEF IInv
<1>2. \A g \in Host : keys[g].id \in Nat /\ keys[g].ark \in Nat /\ keys[g].id <= minted
  BY Numbers
<1>3. k.ark <= minted
  BY <1>1 DEF IInv, MintedOnce
<1> DEFINE p2 == [p EXCEPT !.worker = FALSE, !.shown = FALSE]
           c2 == Anew("authenticate", "authenticating", i)
           k2 == [k EXCEPT !.device = TRUE]
<1>4. p2 \in ProcRec
  BY <1>1, <1>2, <1>3, OnboardingAssumption DEF Authenticate, ProcRec
<1>5. c2 \in CmdRec
  BY <1>1, <1>2, <1>3, OnboardingAssumption, Begins DEF Place, Op
<1>6. k2 \in KeysRec
  BY <1>1, <1>2, <1>3, OnboardingAssumption DEF Authenticate, KeysRec, Known, Blob, NoBlob,
    Session, NoSession
<1>7. Moved(h, s, b, l, k2, c2, p2)
  BY <1>1, <1>2, <1>3, <1>4, <1>5, <1>6 DEF Moved, IInv, TypeOK, Authenticate, StopWorker,
    FlowAdmits, GuardJoinNewDevice, HasMaterial, Pending, Anew
<1>8. p2.unlocked = p.unlocked /\ p2.worker = FALSE /\ p2.shown = FALSE
  BY DEF ProcRec
<1>9. c2.pc = "authenticating" /\ c2.op = "authenticate" /\ c2.identity = i
  BY Begins
<1>10. /\ k2.device = TRUE /\ k2.ark = k.ark /\ k2.id = k.id /\ k2.session = k.session
       /\ k2.capture = k.capture
  BY DEF KeysRec
<1> HIDE DEF p2, c2, k2
<1>11. Fits(h, s, b, l, k2, c2, p2)
  <2>1. s.flow = "join" /\ i \in Identity /\ Fits(h, s, b, l, k, c, p)
    BY <1>1, OnboardingAssumption
  <2>2. Begun(b) \/ (k.ark = None /\ k.id = None)
    BY <1>1, <2>1 DEF Authenticate, FlowAdmits, GuardJoinNewDevice, Pending
  <2>3. FlowFixed(s, b)
    BY <2>1 DEF Fits
  <2>4. KeysFit(s, b, k2, c2)
    BY <2>1, <2>2, <1>9, <1>10 DEF Fits
  <2>5. LoginFits(s, b, k2, c2)
    BY <2>1, <1>9, <1>10
  <2>6. AdoptFits(s, b, l, k2, c2)
    BY <2>1, <1>9, <1>10 DEF Fits
  <2>7. WorkerFits(s, b, c2, p2)
    BY <2>1, <1>8, <1>9
  <2>8. CaptureFits(s, b, k2, c2, h)
    BY <2>1, <1>9, <1>10 DEF Fits
  <2> QED BY <2>3, <2>4, <2>5, <2>6, <2>7, <2>8 DEF Fits
<1>12. Holds(h, s, b, k2, c2, relay)
  BY <1>1, <1>2, <1>3, <1>8, <1>9, <1>10, OnboardingAssumption DEF Holds, Authenticate,
    StopWorker, FlowAdmits, GuardJoinNewDevice, HasMaterial, Pending
<1>13. Minting(h, k2)
  BY <1>1, <1>2, <1>3, <1>8, <1>9, <1>10, OnboardingAssumption, Numbers DEF Minting, Authenticate
<1>14. Sound(h, s, b, k2, c2)
  BY <1>1, <1>2, <1>3, <1>8, <1>9, <1>10, OnboardingAssumption DEF Sound, IInv, RootsOK, OneRoot
<1>15. Keyed(h, s, b, l, k2, c2, p2)
  BY <1>1, <1>11, <1>12, <1>13, <1>14, <1>2, <1>3, <1>8, <1>9, <1>10, OnboardingAssumption DEF
    Keyed, KeepsKeys, Authenticate, StopWorker, FlowAdmits, GuardJoinNewDevice, HasMaterial,
    Pending
<1> QED BY <1>7, <1>15, KeyedKept

LEMMA CanonicalIdKept ==
  ASSUME IInv, NEW h \in Host, CanonicalId(h)
  PROVE  IInv' /\ KeysStay
<1>1. PICK s \in SetupRec, b \in BindingRec, l \in LocalRec, k \in KeysRec, c \in CmdRec,
           p \in ProcRec :
        /\ Now(h, s, b, l, k, c, p) /\ Fits(h, s, b, l, k, c, p)
        /\ Holds(h, s, b, k, c, relay)
  BY Here DEF IInv
<1>2. s.flow = "attach" /\ ~Begun(b) /\ k.id = None
  BY <1>1 DEF CanonicalId, Fits
<1>3. minted + 1 \in Id /\ minted + 1 # None
  BY OnboardingAssumption DEF CanonicalId, IInv, TypeOK, Id, None
<1>4. \A g \in Host : keys[g].id \in Nat /\ keys[g].ark \in Nat /\ keys[g].id <= minted
  BY Numbers
<1>5. k.ark <= minted
  BY <1>1 DEF IInv, MintedOnce
<1> DEFINE k2 == [k EXCEPT !.id = minted + 1]
           c2 == To(c, "intent")
<1>6. k2 \in KeysRec
  BY <1>1, <1>2, <1>3, <1>4, <1>5 DEF CanonicalId, KeysRec, Known, Blob, NoBlob, Session,
    NoSession
<1>7. c2 \in CmdRec
  BY <1>1, <1>2, <1>3, <1>4, <1>5, GoesTo DEF Place
<1>8. Moved(h, s, b, l, k2, c2, p)
  BY <1>1, <1>2, <1>3, <1>4, <1>5, <1>6, <1>7 DEF Moved, IInv, TypeOK, CanonicalId, To
<1>9. /\ k2.device = k.device /\ k2.ark = k.ark /\ k2.id = minted + 1 /\ k2.session = k.session
      /\ k2.capture = k.capture
  BY DEF KeysRec
<1>10. /\ c2.pc = "intent" /\ c2.op = c.op /\ c2.identity = c.identity /\ c2.session = c.session
       /\ c2.device = c.device /\ c2.ark = c.ark
  BY GoesTo
<1> HIDE DEF k2, c2
<1>11. Fits(h, s, b, l, k2, c2, p)
  BY <1>1, <1>2, <1>3, <1>4, <1>5, <1>9, <1>10 DEF Fits, CanonicalId
<1>12. Holds(h, s, b, k2, c2, relay)
  BY <1>1, <1>2, <1>3, <1>4, <1>5, <1>9, <1>10 DEF Holds, CanonicalId
<1>13. Minting(h, k2)
  BY <1>1, <1>2, <1>3, <1>4, <1>5, <1>9, <1>10, Numbers DEF Minting, CanonicalId, Id, KeysRec,
    Known, None
<1>14. Sound(h, s, b, k2, c2)
  BY <1>1, <1>2, <1>3, <1>4, <1>5, <1>9, <1>10, Numbers DEF Sound
<1>15. Keyed(h, s, b, l, k2, c2, p)
  BY <1>1, <1>11, <1>12, <1>13, <1>14, <1>2, <1>3, <1>4, <1>5, <1>9, <1>10 DEF Keyed, KeepsKeys,
    CanonicalId
<1> QED BY <1>8, <1>15, KeyedKept

LEMMA AccountIdKept ==
  ASSUME IInv, NEW h \in Host, AccountId(h)
  PROVE  IInv' /\ KeysStay
<1>1. PICK s \in SetupRec, b \in BindingRec, l \in LocalRec, k \in KeysRec, c \in CmdRec,
           p \in ProcRec :
        /\ Now(h, s, b, l, k, c, p) /\ Fits(h, s, b, l, k, c, p)
        /\ Holds(h, s, b, k, c, relay)
  BY Here DEF IInv
<1>2. /\ c.session.content = b.content /\ Valid(relay, c.session) /\ s.flow = "join"
      /\ k.id \in {None, b.content} /\ (k.ark # None => k.id # None)
  BY <1>1 DEF AccountId, Fits, Holds
<1>3. \A g \in Host : keys[g].id \in Nat /\ keys[g].ark \in Nat /\ keys[g].id <= minted
  BY Numbers
<1>4. k.ark <= minted /\ b.content <= minted
  BY <1>1, <1>2 DEF IInv, MintedOnce
<1> DEFINE k2 == [k EXCEPT !.id = c.session.content]
           c2 == To(c, "session")
<1>5. k2 \in KeysRec
  BY <1>1, <1>2, <1>3, <1>4 DEF AccountId, KeysRec, Known, Blob, NoBlob, Session, NoSession,
    CmdRec, Fits
<1>6. c2 \in CmdRec
  BY <1>1, <1>2, <1>3, <1>4, GoesTo DEF Place
<1>7. Moved(h, s, b, l, k2, c2, p)
  BY <1>1, <1>2, <1>3, <1>4, <1>5, <1>6 DEF Moved, IInv, TypeOK, AccountId, To
<1>8. /\ k2.device = k.device /\ k2.ark = k.ark /\ k2.id = c.session.content
      /\ k2.session = k.session /\ k2.capture = k.capture
  BY DEF KeysRec
<1>9. /\ c2.pc = "session" /\ c2.op = c.op /\ c2.identity = c.identity /\ c2.session = c.session
      /\ c2.device = c.device /\ c2.ark = c.ark
  BY GoesTo
<1> HIDE DEF k2, c2
<1>10. Fits(h, s, b, l, k2, c2, p)
  BY ZenonT(60), <1>1, <1>2, <1>3, <1>4, <1>8, <1>9 DEF Fits, AccountId
<1>11. Holds(h, s, b, k2, c2, relay)
  BY <1>1, <1>2, <1>3, <1>4, <1>8, <1>9 DEF Holds, AccountId
<1>12. Minting(h, k2)
  BY <1>1, <1>2, <1>3, <1>4, <1>8, <1>9, Numbers DEF Minting, AccountId
<1>13. Sound(h, s, b, k2, c2)
  BY <1>1, <1>2, <1>3, <1>4, <1>8, <1>9 DEF Sound, IInv, RootsOK, OneRoot
<1>14. Keyed(h, s, b, l, k2, c2, p)
  BY <1>1, <1>10, <1>11, <1>12, <1>13, <1>2, <1>3, <1>4, <1>8, <1>9 DEF Keyed, KeepsKeys,
    AccountId
<1> QED BY <1>7, <1>14, KeyedKept

LEMMA AdoptJoinKeysKept ==
  ASSUME IInv, NEW h \in Host, AdoptJoinKeys(h)
  PROVE  IInv' /\ KeysStay
<1>1. PICK s \in SetupRec, b \in BindingRec, l \in LocalRec, k \in KeysRec, c \in CmdRec,
           p \in ProcRec :
        /\ Now(h, s, b, l, k, c, p) /\ Fits(h, s, b, l, k, c, p)
        /\ Holds(h, s, b, k, c, relay)
  BY Here DEF IInv
<1>2. /\ k.id = b.content /\ s.flow = "join" /\ Root(b.content, c.ark) /\ Begun(b)
      /\ k.ark \in {None, c.ark}
  BY <1>1 DEF AdoptJoinKeys, Fits, IInv, RootsOK, JoinRoots, BindingRec, CmdRec
<1>3. \A g \in Host : keys[g].id \in Nat /\ keys[g].ark \in Nat /\ keys[g].id <= minted
  BY Numbers
<1>4. PICK f \in Host : keys[f].id = b.content /\ keys[f].ark = c.ark /\ c.ark # None
  BY <1>2 DEF Root
<1>5. c.op \in {"recover", "accept"} /\ c.pc = "keys"
  BY <1>1 DEF AdoptJoinKeys, Fits
<1>6. k.id <= minted /\ c.ark <= minted
  BY <1>1, <1>4 DEF IInv, MintedOnce
<1> DEFINE k2 == [k EXCEPT !.ark = c.ark, !.id = b.content]
           c2 == Anew(c.op, "device", Nobody)
<1>7. k2 \in KeysRec
  BY <1>1, <1>2, <1>3, <1>4, <1>5, <1>6 DEF AdoptJoinKeys, KeysRec, Known, Blob, NoBlob, Session,
    NoSession, CmdRec, BindingRec, Fits
<1>8. c2 \in CmdRec
  BY <1>1, <1>2, <1>3, <1>4, <1>5, <1>6, Begins DEF Place, Op, AdoptJoinKeys, Fits
<1>9. Moved(h, s, b, l, k2, c2, p)
  BY <1>1, <1>2, <1>3, <1>4, <1>5, <1>6, <1>7, <1>8 DEF Moved, IInv, TypeOK, AdoptJoinKeys, Anew
<1>10. /\ k2.device = k.device /\ k2.ark = c.ark /\ k2.id = b.content /\ k2.session = k.session
       /\ k2.capture = k.capture
  BY DEF KeysRec
<1>11. c2.pc = "device" /\ c2.op = c.op /\ c2.identity = Nobody
  BY Begins
<1> HIDE DEF k2, c2
<1>12. Fits(h, s, b, l, k2, c2, p)
  <2>1. FlowFixed(s, b)
    BY <1>1, <1>2, <1>3, <1>4, <1>5, <1>6, <1>10, <1>11 DEF Fits
  <2>2. KeysFit(s, b, k2, c2)
    BY <1>1, <1>2, <1>3, <1>4, <1>5, <1>6, <1>10, <1>11 DEF Fits
  <2>3. LoginFits(s, b, k2, c2)
    BY <1>1, <1>2, <1>3, <1>4, <1>5, <1>6, <1>10, <1>11 DEF Fits
  <2>4. AdoptFits(s, b, l, k2, c2)
    BY ZenonT(60), <1>1, <1>2, <1>3, <1>4, <1>5, <1>6, <1>10, <1>11 DEF Fits
  <2>5. WorkerFits(s, b, c2, p)
    BY <1>1, <1>2, <1>3, <1>4, <1>5, <1>6, <1>10, <1>11 DEF Fits
  <2>6. CaptureFits(s, b, k2, c2, h)
    BY ZenonT(60), <1>1, <1>2, <1>3, <1>4, <1>5, <1>6, <1>10, <1>11 DEF Fits
  <2> QED BY <2>1, <2>2, <2>3, <2>4, <2>5, <2>6 DEF Fits
<1>13. Holds(h, s, b, k2, c2, relay)
  BY <1>1, <1>2, <1>3, <1>4, <1>5, <1>6, <1>10, <1>11 DEF Holds, AdoptJoinKeys
<1>14. Minting(h, k2)
  BY <1>1, <1>2, <1>3, <1>4, <1>5, <1>6, <1>10, <1>11, Numbers DEF Minting, AdoptJoinKeys
<1>15. Sound(h, s, b, k2, c2)
  BY <1>1, <1>2, <1>3, <1>4, <1>5, <1>6, <1>10, <1>11 DEF Sound, IInv, RootsOK, OneRoot
<1>16. Keyed(h, s, b, l, k2, c2, p)
  BY <1>1, <1>12, <1>13, <1>14, <1>15, <1>2, <1>3, <1>4, <1>5, <1>6, <1>10, <1>11 DEF Keyed,
    KeepsKeys, AdoptJoinKeys
<1> QED BY <1>9, <1>16, KeyedKept

-----------------------------------------------------------------------------
(* Every step. *)

LEMMA AuthenticateKept ==
  ASSUME IInv, NEW h \in Host, NEW i \in Logins[h], Authenticate(h, i)
  PROVE  IInv' /\ KeysStay
<1>1. CASE setup[h].flow = "create" /\ keys[h].ark = None
  BY <1>1, AuthenticateToCreateKept
<1>2. CASE setup[h].flow = "create" /\ keys[h].ark # None
  BY <1>2, AuthenticateAgainQuiet, QuietKept DEF IInv
<1>3. CASE setup[h].flow = "attach"
  BY <1>3, AuthenticateToAttachQuiet, QuietKept DEF IInv
<1>4. CASE setup[h].flow = "join"
  BY <1>4, AuthenticateToJoinKept
<1>5. setup[h].flow \in {"create", "attach", "join"}
  BY DEF Authenticate, FlowAdmits
<1> QED BY <1>1, <1>2, <1>3, <1>4, <1>5

LEMMA FormKept ==
  ASSUME IInv, NEW h \in Host, Form(h)
  PROVE  IInv' /\ KeysStay
<1> TypeOK /\ HostsOK /\ RootsOK
  BY DEF IInv
<1>1. CASE Unlock(h)
  BY <1>1, UnlockQuiet, UnlockBeforeQuiet, QuietKept
<1>2. CASE Acknowledge(h)
  BY <1>2, AcknowledgeQuiet, QuietKept
<1>3. CASE Restart(h)
  BY <1>3, RestartQuiet, QuietKept
<1>4. CASE Pause(h)
  BY <1>4, PauseQuiet, QuietKept
<1>5. CASE Accept(h)
  BY <1>5, AcceptQuiet, QuietKept
<1>6. CASE \E flow \in Flow : Select(h, flow)
  BY <1>6, SelectQuiet, QuietKept
<1>7. CASE \E i \in Logins[h] : Authenticate(h, i) \/ Renew(h, i)
  BY <1>7, AuthenticateKept, RenewQuiet, QuietKept
<1>8. CASE \E ark \in Id : Recover(h, ark)
  BY <1>8, RecoverQuiet, QuietKept
<1>9. CASE \E d \in Host : Enroll(h, d) \/ Approve(h, d)
  <2>1. PICK d \in Host : Enroll(h, d) \/ Approve(h, d)
    BY <1>9
  <2>2. CASE Approve(h, d)
    BY <2>2, ApproveQuiet, QuietKept
  <2>3. CASE Enroll(h, d) /\ d \in relay'.roster[Content(h)]
    BY <2>3, EnrollKept
  <2>4. CASE Enroll(h, d) /\ d \notin relay'.roster[Content(h)]
    BY <2>4, EnrollUnknownKept
  <2> QED BY <2>1, <2>2, <2>3, <2>4
<1> QED BY <1>1, <1>2, <1>3, <1>4, <1>5, <1>6, <1>7, <1>8, <1>9 DEF Form

\* The steps that log in and bind.
SignIn(h) ==
  \/ Authenticating(h) \/ CanonicalId(h) \/ Intent(h) \/ Login(h) \/ LoginToJoin(h)
  \/ LoginToRenew(h) \/ IdentifyJoin(h) \/ AccountId(h) \/ Bind(h) \/ Relogin(h)
  \/ SaveSession(h) \/ ClearNeedsLogin(h)

LEMMA SignInKept ==
  ASSUME IInv, NEW h \in Host, SignIn(h)
  PROVE  IInv' /\ KeysStay
<1> TypeOK /\ HostsOK
  BY DEF IInv
<1>1. CASE Authenticating(h)
  BY <1>1, AuthenticatingToJoinQuiet, AuthenticatingWithoutIdQuiet, AuthenticatingQuiet, QuietKept
<1>2. CASE CanonicalId(h)
  BY <1>2, CanonicalIdKept
<1>3. CASE Intent(h)
  BY <1>3, IntentAgainQuiet, IntentQuiet, QuietKept
<1>4. CASE Login(h)
  BY <1>4, LoginQuiet, QuietKept
<1>5. CASE LoginToJoin(h)
  BY <1>5, LoginToJoinAgainQuiet, LoginToJoinQuiet, QuietKept
<1>6. CASE LoginToRenew(h)
  BY <1>6, LoginToRenewQuiet, QuietKept
<1>7. CASE IdentifyJoin(h)
  BY <1>7, IdentifyJoinQuiet, QuietKept
<1>8. CASE AccountId(h)
  BY <1>8, AccountIdKept
<1>9. CASE Bind(h)
  BY <1>9, BindKept
<1>10. CASE Relogin(h)
  BY <1>10, ReloginQuiet, QuietKept
<1>11. CASE SaveSession(h)
  BY <1>11, SaveSessionQuiet, QuietKept
<1>12. CASE ClearNeedsLogin(h)
  BY <1>12, ClearToRenewQuiet, ClearToJoinQuiet, ClearNeedsLoginQuiet, QuietKept
<1> QED
  BY <1>1, <1>2, <1>3, <1>4, <1>5, <1>6, <1>7, <1>8, <1>9, <1>10, <1>11, <1>12 DEF SignIn

LEMMA StepOfCommandKept ==
  ASSUME IInv, NEW h \in Host, Step(h)
  PROVE  IInv' /\ KeysStay
<1> TypeOK /\ HostsOK
  BY DEF IInv
<1>1. CASE SignIn(h)
  BY <1>1, SignInKept
<1>2. CASE EnsureDevice(h)
  BY <1>2, EnsureDeviceKept
<1>3. CASE EnsureRoot(h)
  BY <1>3, EnsureRootKept
<1>4. CASE KeepRecovery(h)
  BY <1>4, KeepRecoveryQuiet, QuietKept
<1>5. CASE PrepareRecovery(h)
  BY <1>5, PrepareRecoveryAgainQuiet, PrepareRecoveryQuiet, QuietKept
<1>6. CASE PublishRecovery(h)
  BY <1>6, PublishRecoveryKept
<1>7. CASE RecoveryPublished(h)
  BY <1>7, RecoveryPublishedQuiet, QuietKept
<1>8. CASE AdoptJoinKeys(h)
  BY <1>8, AdoptJoinKeysKept
<1>9. CASE Ready(h)
  BY <1>9, ReadyQuiet, QuietKept
<1>10. CASE Activate(h)
  BY <1>10, ActivateAcknowledgedQuiet, ActivateQuiet, QuietKept
<1>11. CASE Forget(h)
  BY <1>11, ForgetQuiet, QuietKept
<1>12. CASE ActivateRemoteBinding(h)
  BY <1>12, ActivateRemoteBindingQuiet, QuietKept
<1>13. CASE Activated(h)
  BY <1>13, ActivatedQuiet, QuietKept
<1>14. CASE Start(h)
  BY <1>14, StartQuiet, QuietKept
<1>15. CASE Spawn(h)
  BY <1>15, SpawnQuiet, QuietKept
<1>16. CASE Enrolled(h)
  BY <1>16, EnrolledQuiet, QuietKept
<1>17. CASE Wrap(h)
  BY <1>17, WrapKept
<1>18. CASE Attest(h)
  BY <1>18, AttestKept
<1> QED
  BY <1>1, <1>2, <1>3, <1>4, <1>5, <1>6, <1>7, <1>8, <1>9, <1>10, <1>11, <1>12, <1>13, <1>14,
    <1>15, <1>16, <1>17, <1>18 DEF Step, SignIn

LEMMA FaultKept ==
  ASSUME IInv, NEW h \in Host, Fault(h)
  PROVE  IInv' /\ KeysStay
<1> TypeOK /\ HostsOK
  BY DEF IInv
<1>1. CASE Crash(h)
  BY <1>1, CrashQuiet, QuietKept
<1>2. CASE \E login \in BOOLEAN : Fail(h, login) \/ WorkerFails(h, login)
  <2>1. PICK login \in BOOLEAN : Fail(h, login) \/ WorkerFails(h, login)
    BY <1>2
  <2> QED BY <2>1, FailQuiet, WorkerFailsQuiet, QuietKept
<1> QED BY <1>1, <1>2 DEF Fault

LEMMA StutterKept ==
  ASSUME IInv, UNCHANGED vars
  PROVE  IInv' /\ KeysStay
<1> /\ setup' = setup /\ binding' = binding /\ local' = local /\ keys' = keys /\ cmd' = cmd
    /\ proc' = proc /\ relay' = relay /\ minted' = minted
  BY DEF vars
<1>1. TypeOK' /\ HostsOK'
  BY DEF IInv, TypeOK, HostsOK
<1>2. RootsOK'
  BY DEF IInv, RootsOK, OneRoot, RelayRoots, JoinRoots, Root
<1>3. ContentOwned' /\ MintedOnce' /\ PublishedOnce'
  BY DEF IInv, ContentOwned, Created, MintedOnce, PublishedOnce
<1>4. KeysStay
  BY DEF KeysStay
<1> QED BY <1>1, <1>2, <1>3, <1>4 DEF IInv

LEMMA NextKept ==
  ASSUME IInv, [Next]_vars
  PROVE  IInv' /\ KeysStay
<1>1. CASE Next
  <2>1. PICK h \in Host : \/ Form(h) \/ Step(h) \/ Refuse(h) \/ Fault(h)
                          \/ WorkerSyncs(h) \/ SaveItem(h)
    BY <1>1 DEF Next
  <2>2. CASE Form(h)
    BY <2>2, FormKept
  <2>3. CASE Step(h)
    BY <2>3, StepOfCommandKept
  <2>4. CASE Refuse(h)
    BY <2>4, RefuseQuiet, QuietKept DEF IInv
  <2>5. CASE Fault(h)
    BY <2>5, FaultKept
  <2>6. CASE WorkerSyncs(h)
    BY <2>6, WorkerSyncsKept
  <2>7. CASE SaveItem(h)
    BY <2>7, SaveItemQuiet, QuietKept DEF IInv
  <2> QED BY <2>1, <2>2, <2>3, <2>4, <2>5, <2>6, <2>7
<1>2. CASE UNCHANGED vars
  BY <1>2, StutterKept
<1> QED BY <1>1, <1>2

LEMMA InitOK == Init => IInv
<1> SUFFICES ASSUME Init PROVE IInv
  OBVIOUS
<1> USE DEF None
<1>1. PICK legacy \in Legacies, id \in {None, 1} :
        /\ minted = IF legacy = {} THEN 0 ELSE 1
        /\ keys = [h \in Host |->
                     [device |-> h \in legacy, ark |-> IF h \in legacy THEN 1 ELSE None,
                      id |-> IF h \in legacy THEN id ELSE None,
                      session |-> NoSession, capture |-> NoBlob, approvals |-> {}]]
  BY DEF Init
<1>2. 1 \in Id /\ MaxId \in Nat
  BY OnboardingAssumption DEF Id
<1>3. TypeOK
  <2>1. setup \in [Host -> SetupRec]
    BY DEF Init, SetupRec, Phase
  <2>2. binding \in [Host -> BindingRec] /\ local \in [Host -> LocalRec]
    BY DEF Init, BindingRec, LocalRec, Known
  <2>3. keys \in [Host -> KeysRec]
    BY <1>1, <1>2 DEF KeysRec, Known, Session, NoSession, Blob, NoBlob
  <2>4. cmd \in [Host -> CmdRec] /\ proc \in [Host -> ProcRec]
    BY IdleTyped DEF Init, ProcRec
  <2>5. RelayTyped(relay)
    <3>1. <<>> \in Seq(Host \X Host) /\ <<>> \in Seq(Envelope)
      OBVIOUS
    <3>2. None \in Known /\ NoBlob \in Blob
      BY DEF Known, Blob, NoBlob
    <3>3. /\ relay.bound = [i \in Identity |-> None] /\ relay.roster = [x \in Id |-> {}]
          /\ relay.trust = [x \in Id |-> <<>>] /\ relay.wraps = [x \in Id |-> <<>>]
          /\ relay.recovery = [x \in Id |-> NoBlob] /\ relay.events = [x \in Id |-> <<>>]
          /\ DOMAIN relay = {"bound", "roster", "trust", "wraps", "recovery", "events"}
      BY DEF Init
    <3> QED BY <3>1, <3>2, <3>3 DEF RelayTyped
  <2>6. minted \in Nat
    BY <1>1
  <2> QED BY <2>1, <2>2, <2>3, <2>4, <2>5, <2>6 DEF TypeOK
<1>4. \A h \in Host : keys[h].session = NoSession /\ keys[h].capture = NoBlob
  BY <1>1
<1>5. \A h \in Host : keys[h].ark \in {None, 1} /\ keys[h].id \in {None, 1}
                      /\ (keys[h].ark = None => keys[h].id = None) /\ keys[h].ark <= minted
                      /\ keys[h].id <= minted
  BY <1>1
<1>6. HostsOK
  <2> SUFFICES ASSUME NEW h \in Host, NEW s, NEW b, NEW l, NEW k, NEW c, NEW p,
                      s = setup[h], b = binding[h], l = local[h], k = keys[h], c = cmd[h],
                      p = proc[h]
               PROVE  Fits(h, s, b, l, k, c, p) /\ Holds(h, s, b, k, c, relay)
    BY DEF HostsOK
  <2>1. /\ s.flow = "none" /\ s.phase = "" /\ ~s.ack /\ b.state = "none" /\ b.content = None
        /\ b.tenant = Nobody /\ c.pc = "idle" /\ c.op = "none" /\ ~p.worker /\ ~p.shown
    BY DEF Init
  <2>2. k.session = NoSession /\ k.capture = NoBlob /\ (k.ark = None => k.id = None)
    BY <1>4, <1>5
  <2>3. Fits(h, s, b, l, k, c, p)
    BY <2>1, <2>2 DEF Fits
  <2> QED BY <2>1, <2>2, <2>3 DEF Holds
<1>7. \A x \in Id : relay.recovery[x] = NoBlob /\ relay.wraps[x] = <<>> /\ relay.trust[x] = <<>>
  BY DEF Init
<1>8. RootsOK
  <2>1. OneRoot
    BY <1>5 DEF OneRoot
  <2>2. RelayRoots
    <3>1. DOMAIN <<>> = {}
      OBVIOUS
    <3> QED BY <1>7, <3>1 DEF RelayRoots, Stored
  <2>3. JoinRoots
    BY DEF JoinRoots, Init
  <2> QED BY <2>1, <2>2, <2>3 DEF RootsOK
<1>9. ContentOwned
  BY DEF ContentOwned, Created, Init
<1>10. MintedOnce
  <2>1. \A i \in Identity : relay.bound[i] = None
    BY DEF Init
  <2> QED BY <1>5, <1>3, <2>1 DEF MintedOnce, TypeOK
<1>11. PublishedOnce
  <2>1. DOMAIN <<>> = {}
    OBVIOUS
  <2> QED BY <1>7, <2>1 DEF PublishedOnce, IsInjective
<1> QED BY <1>3, <1>6, <1>8, <1>9, <1>10, <1>11 DEF IInv

-----------------------------------------------------------------------------
(* The theorems. *)

\* Wherever a command of onboarding.rs is, interrupted or not, its host has written what the
\* steps before it write, and what it relies on at the relay still holds.
THEOREM OnboardingInvariant == Spec => []IInv
<1>1. IInv /\ [Next]_vars => IInv'
  BY NextKept
<1> QED BY InitOK, <1>1, PTL DEF Spec

\* A root key, a content id and device keys that a host holds stay (save_account_material,
\* save_account_id, adopt_join_keys).
THEOREM KeysAreKept == Spec => KeysKept
<1>1. IInv /\ [Next]_vars => [KeysStay]_vars
  BY NextKept
<1>2. Spec => [][KeysStay]_vars
  BY <1>1, OnboardingInvariant, PTL DEF Spec
<1> QED BY <1>2 DEF KeysKept, KeysStay

\* An adopted library has the account, the binding and the root key that the relay and the
\* other active hosts know it by, and who pushes is on the roster (activate, ensure_device).
THEOREM AccountsAgree == Spec => []AccountAgreed
<1>1. ASSUME IInv PROVE AccountAgreed
  <2>1. ASSUME NEW h \in Host, binding[h].state = "active"
        PROVE  /\ binding[h].tenant \in Identity
               /\ relay.bound[binding[h].tenant] = binding[h].content
               /\ keys[h].id = binding[h].content /\ local[h].account = binding[h].content
               /\ keys[h].id # None /\ keys[h].ark # None
               /\ h \in relay.roster[binding[h].content]
    <3>1. PICK s \in SetupRec, b \in BindingRec, l \in LocalRec, k \in KeysRec, c \in CmdRec,
               p \in ProcRec :
            /\ Now(h, s, b, l, k, c, p) /\ Fits(h, s, b, l, k, c, p)
            /\ Holds(h, s, b, k, c, relay)
      BY <1>1, Here DEF IInv
    <3>2. /\ b.tenant \in Identity /\ relay.bound[b.tenant] = b.content
          /\ h \in relay.roster[b.content]
      BY <2>1, <3>1 DEF Holds
    <3>3. k.id = b.content /\ l.account = b.content /\ k.id # None /\ k.ark # None
      BY <2>1, <3>1 DEF Fits
    <3> QED BY <3>1, <3>2, <3>3
  <2>2. ASSUME NEW h \in Host, proc[h].worker PROVE binding[h].state = "active"
    <3>1. PICK s \in SetupRec, b \in BindingRec, l \in LocalRec, k \in KeysRec, c \in CmdRec,
               p \in ProcRec :
            Now(h, s, b, l, k, c, p) /\ Fits(h, s, b, l, k, c, p)
      BY <1>1, Here DEF IInv
    <3> QED BY <2>2, <3>1 DEF Fits
  <2> QED BY <1>1, <2>1, <2>2 DEF AccountAgreed, IInv, RootsOK, OneRoot
<1> QED BY <1>1, OnboardingInvariant, PTL

\* A device gets one sealed bundle and one attestation from each that vouches for it, however
\* often an approval or a setup is retried (approve, ensure_device, ensure_root).
THEOREM PublishedAtMostOnce == Spec => []PublishedOnce
<1>1. IInv => PublishedOnce
  BY DEF IInv
<1> QED BY <1>1, OnboardingInvariant, PTL

\* The code that an operator acknowledged opens what the relay stores for the created account,
\* which does not sync before that (prepare_recovery, acknowledge, start).
THEOREM CodesOpen == Spec => []RecoveryCodeOpens
<1>1. ASSUME IInv PROVE RecoveryCodeOpens
  <2> SUFFICES ASSUME NEW h \in Host, setup[h].flow = "create"
               PROVE  /\ setup[h].ack =>
                           relay.recovery[Content(h)] = [code |-> h, ark |-> keys[h].ark]
                      /\ proc[h].worker => setup[h].ack
    BY DEF RecoveryCodeOpens
  <2>1. PICK s \in SetupRec, b \in BindingRec, l \in LocalRec, k \in KeysRec, c \in CmdRec,
             p \in ProcRec :
          /\ Now(h, s, b, l, k, c, p) /\ Fits(h, s, b, l, k, c, p)
          /\ Holds(h, s, b, k, c, relay)
    BY <1>1, Here DEF IInv
  <2> QED BY <2>1 DEF Fits, Holds
<1> QED BY <1>1, OnboardingInvariant, PTL

\* Between commands, the page says that sync runs exactly when it does (start, finish).
THEOREM StatusIsHonest == Spec => []StatusHonest
<1>1. ASSUME IInv PROVE StatusHonest
  <2> SUFFICES ASSUME NEW h \in Host, cmd[h].pc = "idle"
               PROVE  proc[h].shown <=> proc[h].worker
    BY DEF StatusHonest
  <2>1. PICK s \in SetupRec, b \in BindingRec, l \in LocalRec, k \in KeysRec, c \in CmdRec,
             p \in ProcRec :
          Now(h, s, b, l, k, c, p) /\ Fits(h, s, b, l, k, c, p)
    BY <1>1, Here DEF IInv
  <2> QED BY <2>1 DEF Fits
<1> QED BY <1>1, OnboardingInvariant, PTL

=============================================================================
