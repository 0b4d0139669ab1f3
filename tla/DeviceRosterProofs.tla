------------------------ MODULE DeviceRosterProofs ------------------------
(***************************************************************************)
(* The roster for any devices, setups, bounds and interleavings.           *)
(*                                                                         *)
(* A command is a plan, the sequence of the writes it has left, and any    *)
(* suffix of it may be all that is done.  The inductive invariant says of  *)
(* every write of every plan what it relies on: each condition holds on    *)
(* the device now, or is brought about by a write that comes before it.    *)
(***************************************************************************)
EXTENDS DeviceRoster, PositionProofs

-----------------------------------------------------------------------------
(* What a write relies on.  g is what other devices may add to meanwhile, l what the device *)
(* holds, E the writes that come first.                                                      *)

Steps == {"login", "bind", "session", "valid", "fail", "adopt", "verify", "activate", "epoch", "push"}
KeysSave == Save([keys |-> TRUE])
LocalWrites ==
  {KeysSave} \cup {Save([ark |-> k]) : k \in Nat} \cup {Save([id |-> a]) : a \in Account}
  \cup {Save([capture |-> b]) : b \in Blobs} \cup {Save([epoch |-> e]) : e \in Nat}
  \cup {Identity(a, e) : a \in Account, e \in Nat}
RelayWrites ==
  {Record(a) : a \in Account}
  \cup [at : {"attest"}, acct : Account, kind : {"trust", "revoke"}, of : Device, epoch : Nat]
  \cup {Wrap(a, to, b) : a \in Account, to \in Device, b \in Bundles}
  \cup {Blob(a, b) : a \in Account, b \in Blobs} \cup {Sessions(of) : of \in Device}
UserWrites ==
  {Tell("codes", c) : c \in Nat} \cup {Tell("packages", p) : p \in Packages}
  \cup {Tell("invites", i) : i \in Invites}
OtherWrites ==
  {Intend(a, f) : a \in Account, f \in {"create", "join", "attach"}} \cup {Step(n, a) : n \in Steps, a \in Account}
Writes == LocalWrites \cup RelayWrites \cup UserWrites \cup OtherWrites

Excused(g, a) == a \in g.mixed \/ a \in g.carried
Covered(g, a, e) == Attested(g.attests[a], e) \/ Excused(g, a)

BindsTo(w, a) ==
  \/ w = Step("activate", a) \/ w = Step("adopt", a)
  \/ \E e \in Nat : w = Identity(a, e)
\* Once done, the device holds this account's id, keys and a root key, and no intent for another.
HasId(l, a, E) ==
  /\ l.id = a \/ Save([id |-> a]) \in E
  /\ \A b \in Account : Save([id |-> b]) \in E => b = a
HasKeys(l, E) == l.keys \/ Save([keys |-> TRUE]) \in E
HasRoot(l, E) == l.ark # None \/ \E k \in Nat : Save([ark |-> k]) \in E
Intent(l, a, E) ==
  \/ l.intent # None /\ l.intent.acct = a
  \/ \E f \in {"create", "join", "attach"} : Intend(a, f) \in E
Intended(l, a, E) ==
  /\ l.intent = None \/ Intent(l, a, E) \/ Record(a) \in E
  /\ \A b \in Account, f \in {"create", "join", "attach"} : Intend(b, f) \in E => b = a
Listed(g, d, a, E) == a \in g.mixed \/ d \in g.unlisted \/ d \in g.records[a] \/ Record(a) \in E
Attesting(g, a, e, E) ==
  \/ Covered(g, a, e)
  \/ \E u \in E : u.at = "attest" /\ u.acct = a /\ u.epoch >= e

IdFits(g, l, w, E) ==
  \A a \in Account : w = Save([id |-> a]) =>
    /\ \A u \in E, b \in Account : ~BindsTo(u, b)
    /\ HasKeys(l, E) \/ HasRoot(l, E)
    /\ l.server => (l.db = a \/ l.db \in g.mixed) /\ (l.db = a \/ a \in g.carried)
\* The writes that bind the identity, and the one that goes on to.
BindingFits(l, w, E) ==
  \A a \in Account : w = Step("activate", a) \/ w = Step("epoch", a) \/ (\E e \in Nat : w = Identity(a, e)) =>
    HasId(l, a, E) /\ HasKeys(l, E) /\ HasRoot(l, E) /\ Intended(l, a, E)
ListedFits(g, d, w, E) ==
  \A a \in Account : w = Step("activate", a) \/ (\E e \in Nat : w = Identity(a, e)) => Listed(g, d, a, E)
EpochFits(g, l, w, E) ==
  /\ \A a \in Account, e \in Nat : w = Identity(a, e) => Attesting(g, a, e, E)
  /\ \A e \in Nat : w = Save([epoch |-> e]) =>
       /\ l.server /\ l.db # None /\ Attesting(g, l.db, e, E)
       /\ \A u \in E : u.at \in {"wrap", "attest"}
AdoptFits(l, w, E) ==
  \A a \in Account : w = Step("adopt", a) =>
    /\ (l.server /\ l.db = a) \/ \E e \in Nat : Identity(a, e) \in E
    /\ \A u \in E, b \in Account : BindsTo(u, b) => b = a
IntentFits(l, w, E) ==
  \A a \in Account : w = Step("activate", a) \/ w = Step("session", a) => Intent(l, a, E)
RecordFits(l, w, E) == \A a \in Account : w = Record(a) => HasId(l, a, E)
\* A sealed root key is for a listed device, and its epoch is attested.
Deliverable(g, a, to, b) == b.kind = "enrollment" => to \in g.records[a] /\ Covered(g, a, b.epoch)
BundleFits(g, w) == w.at = "wrap" => Deliverable(g, w.acct, w.to, w.bundle)

Fits(g, d, l, w, E) ==
  /\ IdFits(g, l, w, E) /\ BindingFits(l, w, E) /\ ListedFits(g, d, w, E) /\ EpochFits(g, l, w, E)
  /\ AdoptFits(l, w, E) /\ IntentFits(l, w, E) /\ RecordFits(l, w, E) /\ BundleFits(g, w)

Before(p, i) == {p[j] : j \in 1..(i - 1)}
AllFit(g, d, l, p, E) == \A i \in 1..Len(p) : Fits(g, d, l, p[i], E \cup Before(p, i))

\* What a device holds, whatever its command was doing.
Holds(g, d, l) ==
  /\ l.server <=> l.db # None
  /\ ~l.server => l.epoch = 0
  /\ l.id # None => l.keys \/ l.ark # None
  /\ l.session # None => l.intent # None /\ l.session = l.intent.acct
  /\ l.intent # None => /\ l.intent.active => l.server
                        /\ l.server => l.intent.acct = l.db
  /\ l.server => /\ l.keys /\ l.ark # None /\ l.id # None
                 /\ l.db \notin g.mixed => l.id = l.db /\ (d \in g.unlisted \/ d \in g.records[l.db])
                 /\ l.id # l.db => Excused(g, l.id)
                 /\ Covered(g, l.db, l.epoch)

Shared == [records |-> relay.records, attests |-> relay.attests,
           mixed |-> mixed, carried |-> carried, unlisted |-> unlisted]

TypeOK ==
  /\ authenticated \in BOOLEAN /\ relay \in Relays /\ local \in [Device -> Locals]
  /\ user \in Users /\ minted \in 0..MaxMinted /\ plan \in [Device -> Seq(Writes)]
  /\ mixed \in SUBSET Account /\ carried \in SUBSET Account /\ unlisted \in SUBSET Device

Goes(g, d, l, p) == l \in Locals /\ Holds(g, d, l) /\ AllFit(g, d, l, p, {})
DevicesFit ==
  \A g : g = Shared =>
    \A d \in Device : \A l, p : l = local[d] /\ p = plan[d] => Goes(g, d, l, p)
BundlesFit ==
  \A g : g = Shared =>
    \A a \in Account, d \in Device : \A s : s = relay.wraps[a][d] =>
      \A i \in DOMAIN s : Deliverable(g, a, d, s[i])

Inv == TypeOK /\ DevicesFit /\ BundlesFit

LEMMA Constants ==
  /\ \A a \in Account : a # None
  /\ \A k \in Nat : k # None
  /\ \A b \in Blobs : b # None
  /\ \A i \in Intents : i # None
BY RosterAssumption DEF Account

USE DEF Account
-----------------------------------------------------------------------------
(* Doing the first write. *)

\* The writes of a kind.
LEMMA WrapWrites ==
  ASSUME NEW w \in Writes, w.at = "wrap"
  PROVE  w.acct \in Account /\ w.to \in Device /\ w.bundle \in Bundles
<1>1. \E a \in Account, to \in Device, b \in Bundles : w = Wrap(a, to, b)
  BY DEF Writes, LocalWrites, RelayWrites, UserWrites, OtherWrites, KeysSave, Save, Identity, Record, Wrap, Blob, Tell, Sessions, Intend, Step, Steps
<1> QED BY <1>1 DEF Wrap


\* What is relied on of a write v is one of these.
Apart(v) ==
  /\ v # Save([keys |-> TRUE])
  /\ \A k : v # Save([id |-> k]) /\ v # Save([ark |-> k]) /\ v # Record(k)
  /\ \A a, e : v # Identity(a, e)
  /\ \A a, f : v # Intend(a, f)
  /\ v.at # "attest"

\* What a write relies on of the device.
LEMMA SameFits ==
  ASSUME NEW g, NEW d, NEW l, NEW m, NEW w, NEW E,
         m.id = l.id, m.keys = l.keys, m.ark = l.ark, m.db = l.db, m.server = l.server, m.intent = l.intent,
         Fits(g, d, l, w, E)
  PROVE  Fits(g, d, m, w, E)
BY DEF Fits, IdFits, BindingFits, EpochFits, AdoptFits, IntentFits, RecordFits, HasId, HasKeys, HasRoot, Intended, Intent

\* A write that no other one relies on.
LEMMA DropApart ==
  ASSUME NEW g, NEW d, NEW l, NEW w, NEW E, NEW v,
         Apart(v),
         Fits(g, d, l, w, {v} \cup E)
  PROVE  Fits(g, d, l, w, E)
<1>0. Apart(v)
  OBVIOUS
<1>1. IdFits(g, l, w, E)
  BY <1>0 DEF Fits, IdFits, HasKeys, HasRoot, BindsTo, Apart
<1>2. BindingFits(l, w, E)
  <2> SUFFICES ASSUME NEW b \in Account, w = Step("activate", b) \/ w = Step("epoch", b) \/ (\E k \in Nat : w = Identity(b, k))
               PROVE  HasId(l, b, E) /\ HasKeys(l, E) /\ HasRoot(l, E) /\ Intended(l, b, E)
    BY DEF BindingFits
  <2>1. HasId(l, b, {v} \cup E) /\ HasKeys(l, {v} \cup E) /\ HasRoot(l, {v} \cup E) /\ Intended(l, b, {v} \cup E)
    BY DEF Fits, BindingFits
  <2>2. HasId(l, b, E)
    BY <1>0, <2>1 DEF HasId, Apart
  <2>3. HasKeys(l, E)
    BY <1>0, <2>1 DEF HasKeys, Apart
  <2>4. HasRoot(l, E)
    BY <1>0, <2>1 DEF HasRoot, Apart
  <2>5. Intended(l, b, E)
    BY <1>0, <2>1 DEF Intended, Intent, Apart
  <2> QED BY <2>2, <2>3, <2>4, <2>5
<1>3. ListedFits(g, d, w, E)
  BY <1>0 DEF Fits, ListedFits, Listed, Apart
<1>4. EpochFits(g, l, w, E)
  BY <1>0 DEF Fits, EpochFits, Attesting, Apart
<1>5. AdoptFits(l, w, E)
  BY <1>0 DEF Fits, AdoptFits, BindsTo, Apart
<1>6. IntentFits(l, w, E)
  BY <1>0 DEF Fits, IntentFits, Intent, Apart
<1>7. RecordFits(l, w, E)
  BY <1>0 DEF Fits, RecordFits, HasId, Apart
<1> QED BY <1>1, <1>2, <1>3, <1>4, <1>5, <1>6, <1>7 DEF Fits

LEMMA AfterKeysSave ==
  ASSUME NEW g, NEW d, NEW l \in Locals, NEW w, NEW E,
         Fits(g, d, l, Save([keys |-> TRUE]), {}), Fits(g, d, l, w, {Save([keys |-> TRUE])} \cup E)
  PROVE  Fits(g, d, [l EXCEPT !.keys = TRUE], w, E)
<1> DEFINE v == Save([keys |-> TRUE])
           m == [l EXCEPT !.keys = TRUE]
<1>0. /\ (\A k : v # Save([id |-> k]))
      /\ (\A k : v # Save([ark |-> k]))
      /\ (\A k : v # Record(k))
      /\ (\A b, k : v # Identity(b, k))
      /\ (\A b, k : v # Intend(b, k))
      /\ (\A b : v # Step("activate", b) /\ v # Step("adopt", b))
      /\ (v.at # "attest")
      /\ (v.at # "wrap")
  BY DEF Save, Identity, Record, Intend, Step
<1>8. m.id = l.id /\ m.keys = TRUE /\ m.ark = l.ark /\ m.db = l.db /\ m.server = l.server /\ m.intent = l.intent
  BY Constants DEF Locals
<1>9. Fits(g, d, l, w, {v} \cup E) /\ Fits(g, d, l, v, {})
  OBVIOUS
<1> HIDE DEF v, m
<1>1. IdFits(g, m, w, E)
  BY <1>0, <1>8, <1>9 DEF Fits, IdFits, HasKeys, HasRoot, BindsTo
<1>2. BindingFits(m, w, E)
  <2> SUFFICES ASSUME NEW b \in Account, w = Step("activate", b) \/ w = Step("epoch", b) \/ (\E k \in Nat : w = Identity(b, k))
               PROVE  HasId(m, b, E) /\ HasKeys(m, E) /\ HasRoot(m, E) /\ Intended(m, b, E)
    BY DEF BindingFits
  <2>1. HasId(l, b, {v} \cup E) /\ HasKeys(l, {v} \cup E) /\ HasRoot(l, {v} \cup E) /\ Intended(l, b, {v} \cup E)
    BY <1>9 DEF Fits, BindingFits
  <2>2. HasId(m, b, E)
    BY <1>0, <2>1, <1>8, <1>9 DEF HasId
  <2>3. HasKeys(m, E)
    BY <1>0, <2>1, <1>8, <1>9 DEF HasKeys
  <2>4. HasRoot(m, E)
    BY <1>0, <2>1, <1>8, <1>9 DEF HasRoot
  <2>5. Intended(m, b, E)
    BY <1>0, <2>1, <1>8, <1>9 DEF Intended, Intent
  <2> QED BY <2>2, <2>3, <2>4, <2>5
<1>3. ListedFits(g, d, w, E)
  BY <1>0, <1>8, <1>9 DEF Fits, ListedFits, Listed
<1>4. EpochFits(g, m, w, E)
  BY <1>0, <1>8, <1>9 DEF Fits, EpochFits, Attesting
<1>5. AdoptFits(m, w, E)
  BY <1>0, <1>8, <1>9 DEF Fits, AdoptFits, BindsTo
<1>6. IntentFits(m, w, E)
  BY <1>0, <1>8, <1>9 DEF Fits, IntentFits, Intent
<1>7. RecordFits(m, w, E)
  BY <1>0, <1>8, <1>9 DEF Fits, RecordFits, HasId
<1> QED BY <1>1, <1>2, <1>3, <1>4, <1>5, <1>6, <1>7, <1>9 DEF Fits, m

LEMMA AfterRootSave ==
  ASSUME NEW g, NEW d, NEW l \in Locals, NEW w, NEW E, NEW r \in Nat,
         Fits(g, d, l, Save([ark |-> r]), {}), Fits(g, d, l, w, {Save([ark |-> r])} \cup E)
  PROVE  Fits(g, d, [l EXCEPT !.ark = r], w, E)
<1> DEFINE v == Save([ark |-> r])
           m == [l EXCEPT !.ark = r]
<1>0. /\ (v # Save([keys |-> TRUE]))
      /\ (\A k : v # Save([id |-> k]))
      /\ (\A k : v # Record(k))
      /\ (\A b, k : v # Identity(b, k))
      /\ (\A b, k : v # Intend(b, k))
      /\ (\A b : v # Step("activate", b) /\ v # Step("adopt", b))
      /\ (v.at # "attest")
      /\ (v.at # "wrap")
  BY DEF Save, Identity, Record, Intend, Step
<1>8. m.id = l.id /\ m.keys = l.keys /\ m.ark = r /\ m.db = l.db /\ m.server = l.server /\ m.intent = l.intent /\ m.ark # None
  BY Constants DEF Locals
<1>9. Fits(g, d, l, w, {v} \cup E) /\ Fits(g, d, l, v, {})
  OBVIOUS
<1> HIDE DEF v, m
<1>1. IdFits(g, m, w, E)
  BY <1>0, <1>8, <1>9 DEF Fits, IdFits, HasKeys, HasRoot, BindsTo
<1>2. BindingFits(m, w, E)
  <2> SUFFICES ASSUME NEW b \in Account, w = Step("activate", b) \/ w = Step("epoch", b) \/ (\E k \in Nat : w = Identity(b, k))
               PROVE  HasId(m, b, E) /\ HasKeys(m, E) /\ HasRoot(m, E) /\ Intended(m, b, E)
    BY DEF BindingFits
  <2>1. HasId(l, b, {v} \cup E) /\ HasKeys(l, {v} \cup E) /\ HasRoot(l, {v} \cup E) /\ Intended(l, b, {v} \cup E)
    BY <1>9 DEF Fits, BindingFits
  <2>2. HasId(m, b, E)
    BY <1>0, <2>1, <1>8, <1>9 DEF HasId
  <2>3. HasKeys(m, E)
    BY <1>0, <2>1, <1>8, <1>9 DEF HasKeys
  <2>4. HasRoot(m, E)
    BY <1>0, <2>1, <1>8, <1>9 DEF HasRoot
  <2>5. Intended(m, b, E)
    BY <1>0, <2>1, <1>8, <1>9 DEF Intended, Intent
  <2> QED BY <2>2, <2>3, <2>4, <2>5
<1>3. ListedFits(g, d, w, E)
  BY <1>0, <1>8, <1>9 DEF Fits, ListedFits, Listed
<1>4. EpochFits(g, m, w, E)
  BY <1>0, <1>8, <1>9 DEF Fits, EpochFits, Attesting
<1>5. AdoptFits(m, w, E)
  BY <1>0, <1>8, <1>9 DEF Fits, AdoptFits, BindsTo
<1>6. IntentFits(m, w, E)
  BY <1>0, <1>8, <1>9 DEF Fits, IntentFits, Intent
<1>7. RecordFits(m, w, E)
  BY <1>0, <1>8, <1>9 DEF Fits, RecordFits, HasId
<1> QED BY <1>1, <1>2, <1>3, <1>4, <1>5, <1>6, <1>7, <1>9 DEF Fits, m

LEMMA AfterIdSave ==
  ASSUME NEW g, NEW d, NEW l \in Locals, NEW w, NEW E, NEW a \in Account,
         Fits(g, d, l, Save([id |-> a]), {}), Fits(g, d, l, w, {Save([id |-> a])} \cup E)
  PROVE  Fits(g, d, [l EXCEPT !.id = a], w, E)
<1> DEFINE v == Save([id |-> a])
           m == [l EXCEPT !.id = a]
<1>0. /\ (v # Save([keys |-> TRUE]))
      /\ (v = Save([id |-> a]) /\ \A k : v = Save([id |-> k]) => k = a)
      /\ (\A k : v # Save([ark |-> k]))
      /\ (\A k : v # Record(k))
      /\ (\A b, k : v # Identity(b, k))
      /\ (\A b, k : v # Intend(b, k))
      /\ (\A b : v # Step("activate", b) /\ v # Step("adopt", b))
      /\ (v.at # "attest")
      /\ (v.at # "wrap")
  BY DEF Save, Identity, Record, Intend, Step
<1>8. m.id = a /\ m.keys = l.keys /\ m.ark = l.ark /\ m.db = l.db /\ m.server = l.server /\ m.intent = l.intent
  BY Constants DEF Locals
<1>9. Fits(g, d, l, w, {v} \cup E) /\ Fits(g, d, l, v, {})
  OBVIOUS
<1> HIDE DEF v, m
<1>1. IdFits(g, m, w, E)
  BY <1>0, <1>8, <1>9 DEF Fits, IdFits, HasKeys, HasRoot, BindsTo
<1>2. BindingFits(m, w, E)
  <2> SUFFICES ASSUME NEW b \in Account, w = Step("activate", b) \/ w = Step("epoch", b) \/ (\E k \in Nat : w = Identity(b, k))
               PROVE  HasId(m, b, E) /\ HasKeys(m, E) /\ HasRoot(m, E) /\ Intended(m, b, E)
    BY DEF BindingFits
  <2>1. HasId(l, b, {v} \cup E) /\ HasKeys(l, {v} \cup E) /\ HasRoot(l, {v} \cup E) /\ Intended(l, b, {v} \cup E)
    BY <1>9 DEF Fits, BindingFits
  <2>2. HasId(m, b, E)
    BY <1>0, <2>1, <1>8, <1>9 DEF HasId
  <2>3. HasKeys(m, E)
    BY <1>0, <2>1, <1>8, <1>9 DEF HasKeys
  <2>4. HasRoot(m, E)
    BY <1>0, <2>1, <1>8, <1>9 DEF HasRoot
  <2>5. Intended(m, b, E)
    BY <1>0, <2>1, <1>8, <1>9 DEF Intended, Intent
  <2> QED BY <2>2, <2>3, <2>4, <2>5
<1>3. ListedFits(g, d, w, E)
  BY <1>0, <1>8, <1>9 DEF Fits, ListedFits, Listed
<1>4. EpochFits(g, m, w, E)
  BY <1>0, <1>8, <1>9 DEF Fits, EpochFits, Attesting
<1>5. AdoptFits(m, w, E)
  BY <1>0, <1>8, <1>9 DEF Fits, AdoptFits, BindsTo
<1>6. IntentFits(m, w, E)
  BY <1>0, <1>8, <1>9 DEF Fits, IntentFits, Intent
<1>7. RecordFits(m, w, E)
  BY <1>0, <1>8, <1>9 DEF Fits, RecordFits, HasId
<1> QED BY <1>1, <1>2, <1>3, <1>4, <1>5, <1>6, <1>7, <1>9 DEF Fits, m

LEMMA AfterIdentity ==
  ASSUME NEW g, NEW d, NEW l \in Locals, NEW w, NEW E, NEW a \in Account, NEW e \in Nat,
         Fits(g, d, l, Identity(a, e), {}), Fits(g, d, l, w, {Identity(a, e)} \cup E)
  PROVE  Fits(g, d, [l EXCEPT !.db = a, !.server = TRUE, !.epoch = e], w, E)
<1> DEFINE v == Identity(a, e)
           m == [l EXCEPT !.db = a, !.server = TRUE, !.epoch = e]
<1>0. /\ (v # Save([keys |-> TRUE]))
      /\ (\A k : v # Save([id |-> k]))
      /\ (\A k : v # Save([ark |-> k]))
      /\ (\A k : v # Record(k))
      /\ (\A b, k : v = Identity(b, k) => b = a)
      /\ (\A b, k : v # Intend(b, k))
      /\ (\A b : v # Step("activate", b) /\ v # Step("adopt", b))
      /\ (v.at # "attest")
      /\ (v.at # "wrap")
  BY DEF Save, Identity, Record, Intend, Step
<1>8. m.id = l.id /\ m.keys = l.keys /\ m.ark = l.ark /\ m.db = a /\ m.server = TRUE /\ m.intent = l.intent
  BY Constants DEF Locals
<1>9. Fits(g, d, l, w, {v} \cup E) /\ Fits(g, d, l, v, {})
  OBVIOUS
<1> HIDE DEF v, m
<1>1. IdFits(g, m, w, E)
  BY <1>0, <1>8, <1>9 DEF Fits, IdFits, HasKeys, HasRoot, BindsTo
<1>2. BindingFits(m, w, E)
  <2> SUFFICES ASSUME NEW b \in Account, w = Step("activate", b) \/ w = Step("epoch", b) \/ (\E k \in Nat : w = Identity(b, k))
               PROVE  HasId(m, b, E) /\ HasKeys(m, E) /\ HasRoot(m, E) /\ Intended(m, b, E)
    BY DEF BindingFits
  <2>1. HasId(l, b, {v} \cup E) /\ HasKeys(l, {v} \cup E) /\ HasRoot(l, {v} \cup E) /\ Intended(l, b, {v} \cup E)
    BY <1>9 DEF Fits, BindingFits
  <2>2. HasId(m, b, E)
    BY <1>0, <2>1, <1>8, <1>9 DEF HasId
  <2>3. HasKeys(m, E)
    BY <1>0, <2>1, <1>8, <1>9 DEF HasKeys
  <2>4. HasRoot(m, E)
    BY <1>0, <2>1, <1>8, <1>9 DEF HasRoot
  <2>5. Intended(m, b, E)
    BY <1>0, <2>1, <1>8, <1>9 DEF Intended, Intent
  <2> QED BY <2>2, <2>3, <2>4, <2>5
<1>3. ListedFits(g, d, w, E)
  BY <1>0, <1>8, <1>9 DEF Fits, ListedFits, Listed
<1>4. EpochFits(g, m, w, E)
  BY <1>0, <1>8, <1>9 DEF Fits, EpochFits, Attesting
<1>5. AdoptFits(m, w, E)
  BY <1>0, <1>8, <1>9 DEF Fits, AdoptFits, BindsTo
<1>6. IntentFits(m, w, E)
  BY <1>0, <1>8, <1>9 DEF Fits, IntentFits, Intent
<1>7. RecordFits(m, w, E)
  BY <1>0, <1>8, <1>9 DEF Fits, RecordFits, HasId
<1> QED BY <1>1, <1>2, <1>3, <1>4, <1>5, <1>6, <1>7, <1>9 DEF Fits, m

LEMMA AfterRecord ==
  ASSUME NEW g, NEW d, NEW l, NEW w, NEW E, NEW a \in Account,
         d \in g.records[a], l.id = a, l.intent = None \/ l.intent.acct = a,
         Fits(g, d, l, w, {Record(a)} \cup E)
  PROVE  Fits(g, d, l, w, E)
<1> DEFINE v == Record(a)
<1>0. /\ (v # Save([keys |-> TRUE]))
      /\ (\A k : v # Save([id |-> k]))
      /\ (\A k : v # Save([ark |-> k]))
      /\ (\A k : v = Record(k) => k = a)
      /\ (\A b, k : v # Identity(b, k))
      /\ (\A b, k : v # Intend(b, k))
      /\ (\A b : v # Step("activate", b) /\ v # Step("adopt", b))
      /\ (v.at # "attest")
      /\ (v.at # "wrap")
  BY DEF Save, Identity, Record, Intend, Step
<1>9. Fits(g, d, l, w, {v} \cup E)
  OBVIOUS
<1> HIDE DEF v
<1>1. IdFits(g, l, w, E)
  BY <1>0, <1>9 DEF Fits, IdFits, HasKeys, HasRoot, BindsTo
<1>2. BindingFits(l, w, E)
  <2> SUFFICES ASSUME NEW b \in Account, w = Step("activate", b) \/ w = Step("epoch", b) \/ (\E k \in Nat : w = Identity(b, k))
               PROVE  HasId(l, b, E) /\ HasKeys(l, E) /\ HasRoot(l, E) /\ Intended(l, b, E)
    BY DEF BindingFits
  <2>1. HasId(l, b, {v} \cup E) /\ HasKeys(l, {v} \cup E) /\ HasRoot(l, {v} \cup E) /\ Intended(l, b, {v} \cup E)
    BY <1>9 DEF Fits, BindingFits
  <2>2. HasId(l, b, E)
    BY <1>0, <2>1, <1>9 DEF HasId
  <2>3. HasKeys(l, E)
    BY <1>0, <2>1, <1>9 DEF HasKeys
  <2>4. HasRoot(l, E)
    BY <1>0, <2>1, <1>9 DEF HasRoot
  <2>5. Intended(l, b, E)
    BY <1>0, <2>1, <1>9 DEF Intended, Intent
  <2> QED BY <2>2, <2>3, <2>4, <2>5
<1>3. ListedFits(g, d, w, E)
  BY <1>0, <1>9 DEF Fits, ListedFits, Listed
<1>4. EpochFits(g, l, w, E)
  BY <1>0, <1>9 DEF Fits, EpochFits, Attesting
<1>5. AdoptFits(l, w, E)
  BY <1>0, <1>9 DEF Fits, AdoptFits, BindsTo
<1>6. IntentFits(l, w, E)
  BY <1>0, <1>9 DEF Fits, IntentFits, Intent
<1>7. RecordFits(l, w, E)
  BY <1>0, <1>9 DEF Fits, RecordFits, HasId
<1> QED BY <1>1, <1>2, <1>3, <1>4, <1>5, <1>6, <1>7, <1>9 DEF Fits

LEMMA AfterAttest ==
  ASSUME NEW g, NEW d, NEW l, NEW w, NEW E, NEW v,
         v.at = "attest", v.acct \in Account, v.epoch \in Nat,
         \E j \in DOMAIN g.attests[v.acct] : g.attests[v.acct][j].epoch \in Nat /\ g.attests[v.acct][j].epoch >= v.epoch,
         Fits(g, d, l, w, {v} \cup E)
  PROVE  Fits(g, d, l, w, E)
<1>0. /\ (v # Save([keys |-> TRUE]))
      /\ (\A k : v # Save([id |-> k]))
      /\ (\A k : v # Save([ark |-> k]))
      /\ (\A k : v # Record(k))
      /\ (\A b, k : v # Identity(b, k))
      /\ (\A b, k : v # Intend(b, k))
      /\ (\A b : v # Step("activate", b) /\ v # Step("adopt", b))
      /\ (v.at = "attest")
  <2>1. /\ \A x : Save(x).at = "local"
        /\ \A b : Record(b).at = "record"
        /\ \A b, k : Identity(b, k).at = "local" /\ Intend(b, k).at = "begin" /\ Step(k, b).at = k
    BY DEF Save, Identity, Record, Intend, Step
  <2> QED BY <2>1
<1>1. IdFits(g, l, w, E)
  BY <1>0 DEF Fits, IdFits, HasKeys, HasRoot, BindsTo
<1>2. BindingFits(l, w, E)
  <2> SUFFICES ASSUME NEW b \in Account, w = Step("activate", b) \/ w = Step("epoch", b) \/ (\E k \in Nat : w = Identity(b, k))
               PROVE  HasId(l, b, E) /\ HasKeys(l, E) /\ HasRoot(l, E) /\ Intended(l, b, E)
    BY DEF BindingFits
  <2>1. HasId(l, b, {v} \cup E) /\ HasKeys(l, {v} \cup E) /\ HasRoot(l, {v} \cup E) /\ Intended(l, b, {v} \cup E)
    BY DEF Fits, BindingFits
  <2>2. HasId(l, b, E)
    BY <1>0, <2>1 DEF HasId
  <2>3. HasKeys(l, E)
    BY <1>0, <2>1 DEF HasKeys
  <2>4. HasRoot(l, E)
    BY <1>0, <2>1 DEF HasRoot
  <2>5. Intended(l, b, E)
    BY <1>0, <2>1 DEF Intended, Intent
  <2> QED BY <2>2, <2>3, <2>4, <2>5
<1>3. ListedFits(g, d, w, E)
  BY <1>0 DEF Fits, ListedFits, Listed
<1>4. EpochFits(g, l, w, E)
  <2>1. \A b, e : e \in Nat /\ Attesting(g, b, e, {v} \cup E) => Attesting(g, b, e, E)
    BY <1>0 DEF Attesting, Covered, Attested
  <2>2. v.at # "local"
    BY <1>0
  <2> QED BY <2>1 DEF Fits, EpochFits
<1>5. AdoptFits(l, w, E)
  BY <1>0 DEF Fits, AdoptFits, BindsTo
<1>6. IntentFits(l, w, E)
  BY <1>0 DEF Fits, IntentFits, Intent
<1>7. RecordFits(l, w, E)
  BY <1>0 DEF Fits, RecordFits, HasId
<1> QED BY <1>1, <1>2, <1>3, <1>4, <1>5, <1>6, <1>7 DEF Fits

LEMMA AfterBegin ==
  ASSUME NEW g, NEW d, NEW l \in Locals, NEW w, NEW E, NEW a \in Account, NEW f \in {"create", "join", "attach"},
         NEW i, i # None, i.acct = a, l.intent # None => l.intent.acct = a,
         Fits(g, d, l, w, {Intend(a, f)} \cup E)
  PROVE  Fits(g, d, [l EXCEPT !.intent = i], w, E)
<1> DEFINE v == Intend(a, f)
           m == [l EXCEPT !.intent = i]
<1>0. /\ (v # Save([keys |-> TRUE]))
      /\ (\A k : v # Save([id |-> k]))
      /\ (\A k : v # Save([ark |-> k]))
      /\ (\A k : v # Record(k))
      /\ (\A b, k : v # Identity(b, k))
      /\ (v = Intend(a, f) /\ \A b, k : v = Intend(b, k) => b = a)
      /\ (\A b : v # Step("activate", b) /\ v # Step("adopt", b))
      /\ (v.at # "attest")
      /\ (v.at # "wrap")
  BY DEF Save, Identity, Record, Intend, Step
<1>8. m.id = l.id /\ m.keys = l.keys /\ m.ark = l.ark /\ m.db = l.db /\ m.server = l.server /\ m.intent = i
  BY Constants DEF Locals
<1>9. Fits(g, d, l, w, {v} \cup E)
  OBVIOUS
<1> HIDE DEF v, m
<1>1. IdFits(g, m, w, E)
  BY <1>0, <1>8, <1>9 DEF Fits, IdFits, HasKeys, HasRoot, BindsTo
<1>2. BindingFits(m, w, E)
  <2> SUFFICES ASSUME NEW b \in Account, w = Step("activate", b) \/ w = Step("epoch", b) \/ (\E k \in Nat : w = Identity(b, k))
               PROVE  HasId(m, b, E) /\ HasKeys(m, E) /\ HasRoot(m, E) /\ Intended(m, b, E)
    BY DEF BindingFits
  <2>1. HasId(l, b, {v} \cup E) /\ HasKeys(l, {v} \cup E) /\ HasRoot(l, {v} \cup E) /\ Intended(l, b, {v} \cup E)
    BY <1>9 DEF Fits, BindingFits
  <2>2. HasId(m, b, E)
    BY <1>0, <2>1, <1>8, <1>9 DEF HasId
  <2>3. HasKeys(m, E)
    BY <1>0, <2>1, <1>8, <1>9 DEF HasKeys
  <2>4. HasRoot(m, E)
    BY <1>0, <2>1, <1>8, <1>9 DEF HasRoot
  <2>5. Intended(m, b, E)
    BY <1>0, <2>1, <1>8, <1>9 DEF Intended, Intent
  <2> QED BY <2>2, <2>3, <2>4, <2>5
<1>3. ListedFits(g, d, w, E)
  BY <1>0, <1>8, <1>9 DEF Fits, ListedFits, Listed
<1>4. EpochFits(g, m, w, E)
  BY <1>0, <1>8, <1>9 DEF Fits, EpochFits, Attesting
<1>5. AdoptFits(m, w, E)
  BY <1>0, <1>8, <1>9 DEF Fits, AdoptFits, BindsTo
<1>6. IntentFits(m, w, E)
  BY <1>0, <1>8, <1>9 DEF Fits, IntentFits, Intent
<1>7. RecordFits(m, w, E)
  BY <1>0, <1>8, <1>9 DEF Fits, RecordFits, HasId
<1> QED BY <1>1, <1>2, <1>3, <1>4, <1>5, <1>6, <1>7, <1>9 DEF Fits, m

LEMMA AfterActivate ==
  ASSUME NEW g, NEW d, NEW l \in Locals, NEW w, NEW E, NEW a \in Account, NEW n \in {"activate", "adopt"},
         NEW i, i = None <=> l.intent = None, i.acct = l.intent.acct,
         Fits(g, d, l, Step(n, a), {}), Fits(g, d, l, w, {Step(n, a)} \cup E)
  PROVE  Fits(g, d, [l EXCEPT !.db = a, !.server = TRUE, !.intent = i], w, E)
<1> DEFINE v == Step(n, a)
           m == [l EXCEPT !.db = a, !.server = TRUE, !.intent = i]
<1>0. /\ (v # Save([keys |-> TRUE]))
      /\ (\A k : v # Save([id |-> k]))
      /\ (\A k : v # Save([ark |-> k]))
      /\ (\A k : v # Record(k))
      /\ (\A b, k : v # Identity(b, k))
      /\ (\A b, k : v # Intend(b, k))
      /\ (\A b : v = Step("activate", b) \/ v = Step("adopt", b) => b = a)
      /\ (v.at # "attest")
      /\ (v.at # "wrap")
  BY DEF Save, Identity, Record, Intend, Step
<1>8. m.id = l.id /\ m.keys = l.keys /\ m.ark = l.ark /\ m.db = a /\ m.server = TRUE /\ m.intent = i
  BY Constants DEF Locals
<1>9. Fits(g, d, l, w, {v} \cup E) /\ Fits(g, d, l, v, {})
  OBVIOUS
<1> HIDE DEF v, m
<1>1. IdFits(g, m, w, E)
  BY <1>0, <1>8, <1>9 DEF Fits, IdFits, HasKeys, HasRoot, BindsTo
<1>2. BindingFits(m, w, E)
  <2> SUFFICES ASSUME NEW b \in Account, w = Step("activate", b) \/ w = Step("epoch", b) \/ (\E k \in Nat : w = Identity(b, k))
               PROVE  HasId(m, b, E) /\ HasKeys(m, E) /\ HasRoot(m, E) /\ Intended(m, b, E)
    BY DEF BindingFits
  <2>1. HasId(l, b, {v} \cup E) /\ HasKeys(l, {v} \cup E) /\ HasRoot(l, {v} \cup E) /\ Intended(l, b, {v} \cup E)
    BY <1>9 DEF Fits, BindingFits
  <2>2. HasId(m, b, E)
    BY <1>0, <2>1, <1>8, <1>9 DEF HasId
  <2>3. HasKeys(m, E)
    BY <1>0, <2>1, <1>8, <1>9 DEF HasKeys
  <2>4. HasRoot(m, E)
    BY <1>0, <2>1, <1>8, <1>9 DEF HasRoot
  <2>5. Intended(m, b, E)
    BY <1>0, <2>1, <1>8, <1>9 DEF Intended, Intent
  <2> QED BY <2>2, <2>3, <2>4, <2>5
<1>3. ListedFits(g, d, w, E)
  BY <1>0, <1>8, <1>9 DEF Fits, ListedFits, Listed
<1>4. EpochFits(g, m, w, E)
  BY <1>0, <1>8, <1>9 DEF Fits, EpochFits, Attesting
<1>5. AdoptFits(m, w, E)
  BY <1>0, <1>8, <1>9 DEF Fits, AdoptFits, BindsTo
<1>6. IntentFits(m, w, E)
  BY <1>0, <1>8, <1>9 DEF Fits, IntentFits, Intent
<1>7. RecordFits(m, w, E)
  BY <1>0, <1>8, <1>9 DEF Fits, RecordFits, HasId
<1> QED BY <1>1, <1>2, <1>3, <1>4, <1>5, <1>6, <1>7, <1>9 DEF Fits, m


-----------------------------------------------------------------------------
(* What the device holds after its first write. *)

LEMMA HoldsKeysSave ==
  ASSUME NEW g, NEW d, NEW l \in Locals, Holds(g, d, l)
  PROVE  Holds(g, d, [l EXCEPT !.keys = TRUE])
<1> DEFINE m == [l EXCEPT !.keys = TRUE]
<1>1. m.keys = TRUE /\ m.ark = l.ark /\ m.id = l.id /\ m.session = l.session /\ m.db = l.db /\ m.server = l.server /\ m.epoch = l.epoch /\ m.intent = l.intent
  BY Constants DEF Locals
<1>2. TRUE OBVIOUS
<1> HIDE DEF m
<1>3. Holds(g, d, m)
  BY <1>1, <1>2, Constants DEF Holds, Excused, Covered
<1> QED BY <1>3 DEF m

LEMMA HoldsRootSave ==
  ASSUME NEW g, NEW d, NEW l \in Locals, NEW r \in Nat, Holds(g, d, l)
  PROVE  Holds(g, d, [l EXCEPT !.ark = r])
<1> DEFINE m == [l EXCEPT !.ark = r]
<1>1. m.keys = l.keys /\ m.ark = r /\ m.id = l.id /\ m.session = l.session /\ m.db = l.db /\ m.server = l.server /\ m.epoch = l.epoch /\ m.intent = l.intent /\ m.ark # None
  BY Constants DEF Locals
<1>2. TRUE OBVIOUS
<1> HIDE DEF m
<1>3. Holds(g, d, m)
  BY <1>1, <1>2, Constants DEF Holds, Excused, Covered
<1> QED BY <1>3 DEF m

LEMMA HoldsIdSave ==
  ASSUME NEW g, NEW d, NEW l \in Locals, NEW a \in Account, Holds(g, d, l), Fits(g, d, l, Save([id |-> a]), {})
  PROVE  Holds(g, d, [l EXCEPT !.id = a])
<1> DEFINE m == [l EXCEPT !.id = a]
<1>1. m.keys = l.keys /\ m.ark = l.ark /\ m.id = a /\ m.session = l.session /\ m.db = l.db /\ m.server = l.server /\ m.epoch = l.epoch /\ m.intent = l.intent /\ a # None
  BY Constants DEF Locals
<1>2. /\ l.keys \/ l.ark # None
      /\ l.server => (l.db = a \/ l.db \in g.mixed) /\ (l.db = a \/ a \in g.carried)
  BY DEF Fits, IdFits, HasKeys, HasRoot
<1> HIDE DEF m
<1>3. Holds(g, d, m)
  BY <1>1, <1>2, Constants DEF Holds, Excused, Covered
<1> QED BY <1>3 DEF m

LEMMA HoldsIdentity ==
  ASSUME NEW g, NEW d, NEW l \in Locals, NEW a \in Account, NEW e \in Nat, Holds(g, d, l), Fits(g, d, l, Identity(a, e), {})
  PROVE  Holds(g, d, [l EXCEPT !.db = a, !.server = TRUE, !.epoch = e])
<1> DEFINE m == [l EXCEPT !.db = a, !.server = TRUE, !.epoch = e]
<1>1. m.keys = l.keys /\ m.ark = l.ark /\ m.id = l.id /\ m.session = l.session /\ m.db = a /\ m.server = TRUE /\ m.epoch = e /\ m.intent = l.intent /\ a # None
  BY Constants DEF Locals
<1>2. /\ l.id = a /\ l.keys /\ l.ark # None
      /\ l.intent = None \/ l.intent.acct = a
      /\ a \in g.mixed \/ d \in g.unlisted \/ d \in g.records[a]
      /\ Covered(g, a, e)
  <2>1. BindingFits(l, Identity(a, e), {}) /\ ListedFits(g, d, Identity(a, e), {}) /\ EpochFits(g, l, Identity(a, e), {})
    BY DEF Fits
  <2>2. HasId(l, a, {}) /\ HasKeys(l, {}) /\ HasRoot(l, {}) /\ Intended(l, a, {})
    BY <2>1 DEF BindingFits
  <2>3. Listed(g, d, a, {}) /\ Attesting(g, a, e, {})
    BY <2>1 DEF ListedFits, EpochFits
  <2> QED BY <2>2, <2>3 DEF HasId, HasKeys, HasRoot, Intended, Intent, Listed, Attesting
<1> HIDE DEF m
<1>3. Holds(g, d, m)
  BY <1>1, <1>2, Constants DEF Holds, Excused, Covered
<1> QED BY <1>3 DEF m

LEMMA HoldsEpochSave ==
  ASSUME NEW g, NEW d, NEW l \in Locals, NEW e \in Nat, Holds(g, d, l), Fits(g, d, l, Save([epoch |-> e]), {})
  PROVE  Holds(g, d, [l EXCEPT !.epoch = e])
<1> DEFINE m == [l EXCEPT !.epoch = e]
<1>1. m.keys = l.keys /\ m.ark = l.ark /\ m.id = l.id /\ m.session = l.session /\ m.db = l.db /\ m.server = l.server /\ m.epoch = e /\ m.intent = l.intent
  BY Constants DEF Locals
<1>2. l.server /\ Covered(g, l.db, e)
  BY DEF Fits, EpochFits, Attesting
<1> HIDE DEF m
<1>3. Holds(g, d, m)
  BY <1>1, <1>2, Constants DEF Holds, Excused, Covered
<1> QED BY <1>3 DEF m

LEMMA HoldsBegin ==
  ASSUME NEW g, NEW d, NEW l \in Locals, NEW a \in Account, NEW i, Holds(g, d, l), l.intent = None, l.db \in {None, a},
         i # None, i.acct = a, ~i.active
  PROVE  Holds(g, d, [l EXCEPT !.intent = i])
<1> DEFINE m == [l EXCEPT !.intent = i]
<1>1. m.keys = l.keys /\ m.ark = l.ark /\ m.id = l.id /\ m.session = l.session /\ m.db = l.db /\ m.server = l.server /\ m.epoch = l.epoch /\ m.intent = i
  BY Constants DEF Locals
<1>2. i # None /\ i.acct = a /\ ~i.active /\ l.intent = None /\ l.db \in {None, a}
  OBVIOUS
<1> HIDE DEF m
<1>3. Holds(g, d, m)
  BY <1>1, <1>2, Constants DEF Holds, Excused, Covered
<1> QED BY <1>3 DEF m

LEMMA HoldsSession ==
  ASSUME NEW g, NEW d, NEW l \in Locals, NEW a \in Account, Holds(g, d, l), Fits(g, d, l, Step("session", a), {})
  PROVE  Holds(g, d, [l EXCEPT !.session = a])
<1> DEFINE m == [l EXCEPT !.session = a]
<1>1. m.keys = l.keys /\ m.ark = l.ark /\ m.id = l.id /\ m.session = a /\ m.db = l.db /\ m.server = l.server /\ m.epoch = l.epoch /\ m.intent = l.intent
  BY Constants DEF Locals
<1>2. l.intent # None /\ l.intent.acct = a
  BY DEF Fits, IntentFits, Intent
<1> HIDE DEF m
<1>3. Holds(g, d, m)
  BY <1>1, <1>2, Constants DEF Holds, Excused, Covered
<1> QED BY <1>3 DEF m

LEMMA HoldsActivate ==
  ASSUME NEW g, NEW d, NEW l \in Locals, NEW a \in Account, NEW i, Holds(g, d, l), Fits(g, d, l, Step("activate", a), {}),
         l.db \in {None, a}, i # None, i.acct = l.intent.acct
  PROVE  Holds(g, d, [l EXCEPT !.db = a, !.server = TRUE, !.intent = i])
<1> DEFINE m == [l EXCEPT !.db = a, !.server = TRUE, !.intent = i]
<1>1. m.keys = l.keys /\ m.ark = l.ark /\ m.id = l.id /\ m.session = l.session /\ m.db = a /\ m.server = TRUE /\ m.epoch = l.epoch /\ m.intent = i /\ a # None
  BY Constants DEF Locals
<1>2. /\ l.id = a /\ l.keys /\ l.ark # None
      /\ l.intent # None /\ l.intent.acct = a /\ i.acct = a /\ i # None
      /\ a \in g.mixed \/ d \in g.unlisted \/ d \in g.records[a]
      /\ l.db \in {None, a} /\ (~l.server => Attested(g.attests[a], l.epoch))
  <2>1. BindingFits(l, Step("activate", a), {}) /\ ListedFits(g, d, Step("activate", a), {}) /\ IntentFits(l, Step("activate", a), {})
    BY DEF Fits
  <2>2. HasId(l, a, {}) /\ HasKeys(l, {}) /\ HasRoot(l, {}) /\ Intent(l, a, {})
    BY <2>1 DEF BindingFits, IntentFits
  <2>3. Listed(g, d, a, {})
    BY <2>1 DEF ListedFits
  <2>4. ~l.server => Attested(g.attests[a], l.epoch)
    BY DEF Holds, Attested
  <2> QED BY <2>2, <2>3, <2>4 DEF HasId, HasKeys, HasRoot, Intent, Listed
<1> HIDE DEF m
<1>3. Holds(g, d, m)
  BY <1>1, <1>2, Constants DEF Holds, Excused, Covered
<1> QED BY <1>3 DEF m

LEMMA HoldsAdopt ==
  ASSUME NEW g, NEW d, NEW l \in Locals, NEW a \in Account, NEW i, Holds(g, d, l), Fits(g, d, l, Step("adopt", a), {}),
         l.intent # None, i # None, i.acct = l.intent.acct
  PROVE  Holds(g, d, [l EXCEPT !.db = a, !.server = TRUE, !.intent = i])
<1> DEFINE m == [l EXCEPT !.db = a, !.server = TRUE, !.intent = i]
<1>1. m.keys = l.keys /\ m.ark = l.ark /\ m.id = l.id /\ m.session = l.session /\ m.db = a /\ m.server = TRUE /\ m.epoch = l.epoch /\ m.intent = i /\ a # None
  BY Constants DEF Locals
<1>2. l.server /\ l.db = a /\ i.acct = l.intent.acct /\ i # None /\ l.intent # None
  BY DEF Fits, AdoptFits
<1> HIDE DEF m
<1>3. Holds(g, d, m)
  BY <1>1, <1>2, Constants DEF Holds, Excused, Covered
<1> QED BY <1>3 DEF m

LEMMA HoldsSame ==
  ASSUME NEW g, NEW d, NEW l, NEW m, Holds(g, d, l),
         m.id = l.id, m.keys = l.keys, m.ark = l.ark, m.session = l.session, m.db = l.db, m.server = l.server,
         m.epoch = l.epoch, m.intent = l.intent
  PROVE  Holds(g, d, m)
BY DEF Holds

-----------------------------------------------------------------------------
(* What others do takes nothing away. *)

Grows(g, h) ==
  /\ \A a \in Account : g.records[a] \subseteq h.records[a]
  /\ \A a \in Account : \A e \in Nat : Attested(g.attests[a], e) => Attested(h.attests[a], e)
  /\ g.mixed \subseteq h.mixed /\ g.carried \subseteq h.carried /\ g.unlisted \subseteq h.unlisted

LEMMA GrowsFit ==
  ASSUME NEW g, NEW h, Grows(g, h), NEW d, NEW l \in Locals, NEW w \in Writes, NEW E, Fits(g, d, l, w, E)
  PROVE  Fits(h, d, l, w, E)
<1>1. \A a \in Account, e \in Nat : Covered(g, a, e) => Covered(h, a, e)
  BY DEF Grows, Covered, Excused
<1>2. \A a \in Account, e \in Nat : Attesting(g, a, e, E) => Attesting(h, a, e, E)
  BY <1>1 DEF Attesting
<1>3. IdFits(h, l, w, E)
  BY DEF Fits, IdFits, Grows
<1>4. ListedFits(h, d, w, E)
  BY DEF Fits, ListedFits, Listed, Grows
<1>5. EpochFits(h, l, w, E)
  <2>1. l.db # None => l.db \in Account
    BY DEF Locals, Maybe
  <2> QED BY <1>2, <2>1 DEF Fits, EpochFits
<1>6. BundleFits(h, w)
  <2>1. \A b \in Bundles : b.kind = "enrollment" => b.epoch \in Nat
    BY DEF Bundles
  <2> QED BY <1>1, <2>1, WrapWrites DEF Fits, BundleFits, Deliverable, Grows
<1> QED BY <1>3, <1>4, <1>5, <1>6 DEF Fits

LEMMA GrowsHolds ==
  ASSUME NEW g, NEW h, Grows(g, h), NEW d, NEW l \in Locals, Holds(g, d, l)
  PROVE  Holds(h, d, l)
<1>1. \A a \in Account, e \in Nat : Covered(g, a, e) => Covered(h, a, e)
  BY DEF Grows, Covered, Excused
<1>2. l.id # None => l.id \in Account
  BY DEF Locals, Maybe
<1>3. l.db # None => l.db \in Account
  BY DEF Locals, Maybe
<1>4. l.epoch \in Nat
  BY DEF Locals
<1> QED BY <1>1, <1>2, <1>3, <1>4 DEF Holds, Grows, Excused

-----------------------------------------------------------------------------
(* Plans. *)

LEMMA GrowsAllFit ==
  ASSUME NEW g, NEW h, Grows(g, h), NEW d, NEW l \in Locals, NEW p \in Seq(Writes), NEW E, AllFit(g, d, l, p, E)
  PROVE  AllFit(h, d, l, p, E)
<1> SUFFICES ASSUME NEW i \in 1..Len(p)
             PROVE  Fits(h, d, l, p[i], E \cup Before(p, i))
  BY DEF AllFit
<1>1. p[i] \in Writes
  OBVIOUS
<1>2. Fits(g, d, l, p[i], E \cup Before(p, i))
  BY DEF AllFit
<1> QED BY <1>1, <1>2, GrowsFit

LEMMA HeadFits ==
  ASSUME NEW g, NEW d, NEW l, NEW p \in Seq(Writes), p # <<>>, AllFit(g, d, l, p, {})
  PROVE  Head(p) \in Writes /\ Fits(g, d, l, Head(p), {})
<1>1. 1 \in 1..Len(p) /\ Head(p) = p[1]
  OBVIOUS
<1>2. Before(p, 1) = {}
  BY DEF Before
<1> QED BY <1>1, <1>2 DEF AllFit

LEMMA TailFits ==
  ASSUME NEW g, NEW d, NEW l, NEW m, NEW p \in Seq(Writes), p # <<>>, AllFit(g, d, l, p, {}),
         \A w \in Writes, E \in SUBSET Writes : Fits(g, d, l, w, {Head(p)} \cup E) => Fits(g, d, m, w, E)
  PROVE  AllFit(g, d, m, Tail(p), {})
<1> DEFINE t == Tail(p)
<1>1. t \in Seq(Writes) /\ Len(t) = Len(p) - 1 /\ Len(p) \in Nat
  OBVIOUS
<1>2. \A i \in 1..Len(t) : t[i] = p[i + 1] /\ t[i] \in Writes
  OBVIOUS
<1>3. Head(p) = p[1]
  OBVIOUS
<1> HIDE DEF t
<1> SUFFICES ASSUME NEW i \in 1..Len(t)
             PROVE  Fits(g, d, m, t[i], {} \cup Before(t, i))
  BY DEF AllFit, t
<1>4. Before(t, i) \in SUBSET Writes
  BY <1>1, <1>2 DEF Before
<1>5. Before(p, i + 1) = {Head(p)} \cup Before(t, i)
  <2>1. \A u : u \in Before(p, i + 1) => u \in {Head(p)} \cup Before(t, i)
    <3> SUFFICES ASSUME NEW j \in 1..i PROVE p[j] \in {Head(p)} \cup Before(t, i)
      BY <1>1 DEF Before
    <3>1. CASE j = 1
      BY <3>1, <1>3
    <3>2. CASE j # 1
      <4>1. j - 1 \in 1..(i - 1) /\ t[j - 1] = p[j]
        BY <3>2, <1>1, <1>2
      <4> QED BY <4>1 DEF Before
    <3> QED BY <3>1, <3>2
  <2>2. \A u : u \in {Head(p)} \cup Before(t, i) => u \in Before(p, i + 1)
    <3>1. Head(p) \in Before(p, i + 1)
      BY <1>1, <1>3 DEF Before
    <3>2. ASSUME NEW j \in 1..(i - 1) PROVE t[j] \in Before(p, i + 1)
      BY <1>1, <1>2 DEF Before
    <3> QED BY <3>1, <3>2 DEF Before
  <2> QED BY <2>1, <2>2
<1>6. Fits(g, d, l, p[i + 1], {} \cup Before(p, i + 1))
  BY <1>1 DEF AllFit
<1>7. Fits(g, d, l, t[i], {Head(p)} \cup Before(t, i))
  BY <1>2, <1>5, <1>6
<1> QED BY <1>2, <1>4, <1>7


-----------------------------------------------------------------------------
(* One write. *)

LEMMA DoKeysSave ==
  ASSUME NEW g, NEW d, NEW l, NEW p \in Seq(Writes), p # <<>>, Goes(g, d, l, p),
         Head(p) = Save([keys |-> TRUE])
  PROVE  Goes(g, d, [l EXCEPT !.keys = TRUE], Tail(p))
<1>1. Head(p) \in Writes /\ Fits(g, d, l, Save([keys |-> TRUE]), {}) /\ l \in Locals /\ Holds(g, d, l) /\ AllFit(g, d, l, p, {})
  BY HeadFits DEF Goes
<1>2. \A w \in Writes, E \in SUBSET Writes : Fits(g, d, l, w, {Head(p)} \cup E) => Fits(g, d, [l EXCEPT !.keys = TRUE], w, E)
  BY <1>1, AfterKeysSave
<1>3. AllFit(g, d, [l EXCEPT !.keys = TRUE], Tail(p), {})
  BY <1>1, <1>2, TailFits
<1>4. Holds(g, d, [l EXCEPT !.keys = TRUE])
  BY <1>1, HoldsKeysSave
<1>5. [l EXCEPT !.keys = TRUE] \in Locals
  BY <1>1 DEF Locals, Maybe
<1> QED BY <1>3, <1>4, <1>5 DEF Goes

LEMMA DoRootSave ==
  ASSUME NEW g, NEW d, NEW l, NEW p \in Seq(Writes), p # <<>>, Goes(g, d, l, p), NEW r \in Nat,
         Head(p) = Save([ark |-> r])
  PROVE  Goes(g, d, [l EXCEPT !.ark = r], Tail(p))
<1>1. Head(p) \in Writes /\ Fits(g, d, l, Save([ark |-> r]), {}) /\ l \in Locals /\ Holds(g, d, l) /\ AllFit(g, d, l, p, {})
  BY HeadFits DEF Goes
<1>2. \A w \in Writes, E \in SUBSET Writes : Fits(g, d, l, w, {Head(p)} \cup E) => Fits(g, d, [l EXCEPT !.ark = r], w, E)
  BY <1>1, AfterRootSave
<1>3. AllFit(g, d, [l EXCEPT !.ark = r], Tail(p), {})
  BY <1>1, <1>2, TailFits
<1>4. Holds(g, d, [l EXCEPT !.ark = r])
  BY <1>1, HoldsRootSave
<1>5. [l EXCEPT !.ark = r] \in Locals
  BY <1>1 DEF Locals, Maybe
<1> QED BY <1>3, <1>4, <1>5 DEF Goes

LEMMA DoIdSave ==
  ASSUME NEW g, NEW d, NEW l, NEW p \in Seq(Writes), p # <<>>, Goes(g, d, l, p), NEW a \in Account,
         Head(p) = Save([id |-> a])
  PROVE  Goes(g, d, [l EXCEPT !.id = a], Tail(p))
<1>1. Head(p) \in Writes /\ Fits(g, d, l, Save([id |-> a]), {}) /\ l \in Locals /\ Holds(g, d, l) /\ AllFit(g, d, l, p, {})
  BY HeadFits DEF Goes
<1>2. \A w \in Writes, E \in SUBSET Writes : Fits(g, d, l, w, {Head(p)} \cup E) => Fits(g, d, [l EXCEPT !.id = a], w, E)
  BY <1>1, AfterIdSave
<1>3. AllFit(g, d, [l EXCEPT !.id = a], Tail(p), {})
  BY <1>1, <1>2, TailFits
<1>4. Holds(g, d, [l EXCEPT !.id = a])
  BY <1>1, HoldsIdSave
<1>5. [l EXCEPT !.id = a] \in Locals
  BY <1>1 DEF Locals, Maybe
<1> QED BY <1>3, <1>4, <1>5 DEF Goes

LEMMA DoIdentity ==
  ASSUME NEW g, NEW d, NEW l, NEW p \in Seq(Writes), p # <<>>, Goes(g, d, l, p), NEW a \in Account, NEW e \in Nat,
         Head(p) = Identity(a, e)
  PROVE  Goes(g, d, [l EXCEPT !.db = a, !.server = TRUE, !.epoch = e], Tail(p))
<1>1. Head(p) \in Writes /\ Fits(g, d, l, Identity(a, e), {}) /\ l \in Locals /\ Holds(g, d, l) /\ AllFit(g, d, l, p, {})
  BY HeadFits DEF Goes
<1>2. \A w \in Writes, E \in SUBSET Writes : Fits(g, d, l, w, {Head(p)} \cup E) => Fits(g, d, [l EXCEPT !.db = a, !.server = TRUE, !.epoch = e], w, E)
  BY <1>1, AfterIdentity
<1>3. AllFit(g, d, [l EXCEPT !.db = a, !.server = TRUE, !.epoch = e], Tail(p), {})
  BY <1>1, <1>2, TailFits
<1>4. Holds(g, d, [l EXCEPT !.db = a, !.server = TRUE, !.epoch = e])
  BY <1>1, HoldsIdentity
<1>5. [l EXCEPT !.db = a, !.server = TRUE, !.epoch = e] \in Locals
  BY <1>1 DEF Locals, Maybe
<1> QED BY <1>3, <1>4, <1>5 DEF Goes

LEMMA DoCaptureSave ==
  ASSUME NEW g, NEW d, NEW l, NEW p \in Seq(Writes), p # <<>>, Goes(g, d, l, p), NEW b \in Blobs,
         Head(p) = Save([capture |-> b])
  PROVE  Goes(g, d, [l EXCEPT !.capture = b], Tail(p))
<1>1. Head(p) \in Writes /\ Fits(g, d, l, Save([capture |-> b]), {}) /\ l \in Locals /\ Holds(g, d, l) /\ AllFit(g, d, l, p, {})
  BY HeadFits DEF Goes
<1>6. Apart(Save([capture |-> b]))
  BY DEF Apart, Save, Identity, Record, Intend, Step
<1>7. [l EXCEPT !.capture = b].id = l.id /\ [l EXCEPT !.capture = b].keys = l.keys /\ [l EXCEPT !.capture = b].ark = l.ark /\ [l EXCEPT !.capture = b].db = l.db /\ [l EXCEPT !.capture = b].server = l.server /\ [l EXCEPT !.capture = b].intent = l.intent /\ [l EXCEPT !.capture = b].session = l.session /\ [l EXCEPT !.capture = b].epoch = l.epoch
  BY <1>1 DEF Locals
<1>2. \A w \in Writes, E \in SUBSET Writes : Fits(g, d, l, w, {Head(p)} \cup E) => Fits(g, d, [l EXCEPT !.capture = b], w, E)
  BY <1>1, <1>6, <1>7, DropApart, SameFits
<1>3. AllFit(g, d, [l EXCEPT !.capture = b], Tail(p), {})
  BY <1>1, <1>2, TailFits
<1>4. Holds(g, d, [l EXCEPT !.capture = b])
  BY <1>1, <1>7, HoldsSame
<1>5. [l EXCEPT !.capture = b] \in Locals
  BY <1>1 DEF Locals, Maybe
<1> QED BY <1>3, <1>4, <1>5 DEF Goes

LEMMA DoEpochSave ==
  ASSUME NEW g, NEW d, NEW l, NEW p \in Seq(Writes), p # <<>>, Goes(g, d, l, p), NEW e \in Nat,
         Head(p) = Save([epoch |-> e])
  PROVE  Goes(g, d, [l EXCEPT !.epoch = e], Tail(p))
<1>1. Head(p) \in Writes /\ Fits(g, d, l, Save([epoch |-> e]), {}) /\ l \in Locals /\ Holds(g, d, l) /\ AllFit(g, d, l, p, {})
  BY HeadFits DEF Goes
<1>6. Apart(Save([epoch |-> e]))
  BY DEF Apart, Save, Identity, Record, Intend, Step
<1>7. [l EXCEPT !.epoch = e].id = l.id /\ [l EXCEPT !.epoch = e].keys = l.keys /\ [l EXCEPT !.epoch = e].ark = l.ark /\ [l EXCEPT !.epoch = e].db = l.db /\ [l EXCEPT !.epoch = e].server = l.server /\ [l EXCEPT !.epoch = e].intent = l.intent /\ [l EXCEPT !.epoch = e].session = l.session
  BY <1>1 DEF Locals
<1>2. \A w \in Writes, E \in SUBSET Writes : Fits(g, d, l, w, {Head(p)} \cup E) => Fits(g, d, [l EXCEPT !.epoch = e], w, E)
  BY <1>1, <1>6, <1>7, DropApart, SameFits
<1>3. AllFit(g, d, [l EXCEPT !.epoch = e], Tail(p), {})
  BY <1>1, <1>2, TailFits
<1>4. Holds(g, d, [l EXCEPT !.epoch = e])
  BY <1>1, <1>7, HoldsEpochSave
<1>5. [l EXCEPT !.epoch = e] \in Locals
  BY <1>1 DEF Locals, Maybe
<1> QED BY <1>3, <1>4, <1>5 DEF Goes

LEMMA DoSession ==
  ASSUME NEW g, NEW d, NEW l, NEW p \in Seq(Writes), p # <<>>, Goes(g, d, l, p), NEW a \in Account,
         Head(p) = Step("session", a)
  PROVE  Goes(g, d, [l EXCEPT !.session = a], Tail(p))
<1>1. Head(p) \in Writes /\ Fits(g, d, l, Step("session", a), {}) /\ l \in Locals /\ Holds(g, d, l) /\ AllFit(g, d, l, p, {})
  BY HeadFits DEF Goes
<1>6. Apart(Step("session", a))
  BY DEF Apart, Save, Identity, Record, Intend, Step
<1>7. [l EXCEPT !.session = a].id = l.id /\ [l EXCEPT !.session = a].keys = l.keys /\ [l EXCEPT !.session = a].ark = l.ark /\ [l EXCEPT !.session = a].db = l.db /\ [l EXCEPT !.session = a].server = l.server /\ [l EXCEPT !.session = a].intent = l.intent /\ [l EXCEPT !.session = a].epoch = l.epoch
  BY <1>1 DEF Locals
<1>2. \A w \in Writes, E \in SUBSET Writes : Fits(g, d, l, w, {Head(p)} \cup E) => Fits(g, d, [l EXCEPT !.session = a], w, E)
  BY <1>1, <1>6, <1>7, DropApart, SameFits
<1>3. AllFit(g, d, [l EXCEPT !.session = a], Tail(p), {})
  BY <1>1, <1>2, TailFits
<1>4. Holds(g, d, [l EXCEPT !.session = a])
  BY <1>1, <1>7, HoldsSession
<1>5. [l EXCEPT !.session = a] \in Locals
  BY <1>1 DEF Locals, Maybe
<1> QED BY <1>3, <1>4, <1>5 DEF Goes

LEMMA DoRecord ==
  ASSUME NEW g, NEW d, NEW l, NEW p \in Seq(Writes), p # <<>>, Goes(g, d, l, p), NEW a \in Account,
         Head(p) = Record(a),
         d \in g.records[a], l.intent = None \/ l.intent.acct = l.id
  PROVE  Goes(g, d, l, Tail(p))
<1>1. Head(p) \in Writes /\ Fits(g, d, l, Record(a), {}) /\ l \in Locals /\ Holds(g, d, l) /\ AllFit(g, d, l, p, {})
  BY HeadFits DEF Goes
<1>6. l.id = a
  BY <1>1 DEF Fits, RecordFits, HasId
<1>2. \A w \in Writes, E \in SUBSET Writes : Fits(g, d, l, w, {Head(p)} \cup E) => Fits(g, d, l, w, E)
  BY <1>1, <1>6, AfterRecord
<1>3. AllFit(g, d, l, Tail(p), {})
  BY <1>1, <1>2, TailFits
<1>4. Holds(g, d, l)
  BY <1>1
<1>5. l \in Locals
  BY <1>1 DEF Locals, Maybe
<1> QED BY <1>3, <1>4, <1>5 DEF Goes

LEMMA DoAttest ==
  ASSUME NEW g, NEW d, NEW l, NEW p \in Seq(Writes), p # <<>>, Goes(g, d, l, p), NEW v,
         Head(p) = v,
         v.at = "attest", v.acct \in Account, v.epoch \in Nat,
         \E j \in DOMAIN g.attests[v.acct] : g.attests[v.acct][j].epoch \in Nat /\ g.attests[v.acct][j].epoch >= v.epoch
  PROVE  Goes(g, d, l, Tail(p))
<1>1. Head(p) \in Writes /\ Fits(g, d, l, v, {}) /\ l \in Locals /\ Holds(g, d, l) /\ AllFit(g, d, l, p, {})
  BY HeadFits DEF Goes
<1>2. \A w \in Writes, E \in SUBSET Writes : Fits(g, d, l, w, {Head(p)} \cup E) => Fits(g, d, l, w, E)
  BY <1>1, AfterAttest
<1>3. AllFit(g, d, l, Tail(p), {})
  BY <1>1, <1>2, TailFits
<1>4. Holds(g, d, l)
  BY <1>1
<1>5. l \in Locals
  BY <1>1 DEF Locals, Maybe
<1> QED BY <1>3, <1>4, <1>5 DEF Goes

LEMMA DoNothing ==
  ASSUME NEW g, NEW d, NEW l, NEW p \in Seq(Writes), p # <<>>, Goes(g, d, l, p), NEW v,
         Head(p) = v, Apart(v)
  PROVE  Goes(g, d, l, Tail(p))
<1>1. Head(p) \in Writes /\ Fits(g, d, l, v, {}) /\ l \in Locals /\ Holds(g, d, l) /\ AllFit(g, d, l, p, {})
  BY HeadFits DEF Goes
<1>2. \A w \in Writes, E \in SUBSET Writes : Fits(g, d, l, w, {Head(p)} \cup E) => Fits(g, d, l, w, E)
  BY <1>1, DropApart
<1>3. AllFit(g, d, l, Tail(p), {})
  BY <1>1, <1>2, TailFits
<1>4. Holds(g, d, l)
  BY <1>1
<1>5. l \in Locals
  BY <1>1 DEF Locals, Maybe
<1> QED BY <1>3, <1>4, <1>5 DEF Goes

LEMMA DoBegin ==
  ASSUME NEW g, NEW d, NEW l, NEW p \in Seq(Writes), p # <<>>, Goes(g, d, l, p), NEW a \in Account, NEW f \in {"create", "join", "attach"}, NEW i \in Intents,
         Head(p) = Intend(a, f),
         l.db \in {None, a}, l.intent = None, i.acct = a, ~i.active
  PROVE  Goes(g, d, [l EXCEPT !.intent = i], Tail(p))
<1>1. Head(p) \in Writes /\ Fits(g, d, l, Intend(a, f), {}) /\ l \in Locals /\ Holds(g, d, l) /\ AllFit(g, d, l, p, {})
  BY HeadFits DEF Goes
<1>6. i # None
  BY Constants
<1>2. \A w \in Writes, E \in SUBSET Writes : Fits(g, d, l, w, {Head(p)} \cup E) => Fits(g, d, [l EXCEPT !.intent = i], w, E)
  BY <1>1, <1>6, AfterBegin
<1>3. AllFit(g, d, [l EXCEPT !.intent = i], Tail(p), {})
  BY <1>1, <1>2, TailFits
<1>4. Holds(g, d, [l EXCEPT !.intent = i])
  BY <1>1, <1>6, HoldsBegin
<1>5. [l EXCEPT !.intent = i] \in Locals
  BY <1>1 DEF Locals, Maybe
<1> QED BY <1>3, <1>4, <1>5 DEF Goes

LEMMA DoBeginAgain ==
  ASSUME NEW g, NEW d, NEW l, NEW p \in Seq(Writes), p # <<>>, Goes(g, d, l, p), NEW a \in Account, NEW f \in {"create", "join", "attach"},
         Head(p) = Intend(a, f),
         l.intent # None, l.intent.acct = a
  PROVE  Goes(g, d, l, Tail(p))
<1>1. Head(p) \in Writes /\ Fits(g, d, l, Intend(a, f), {}) /\ l \in Locals /\ Holds(g, d, l) /\ AllFit(g, d, l, p, {})
  BY HeadFits DEF Goes
<1>6. [l EXCEPT !.intent = l.intent] = l
  BY <1>1 DEF Locals
<1>2. \A w \in Writes, E \in SUBSET Writes : Fits(g, d, l, w, {Head(p)} \cup E) => Fits(g, d, l, w, E)
  <2>1. \A w \in Writes, E \in SUBSET Writes : Fits(g, d, l, w, {Head(p)} \cup E) => Fits(g, d, [l EXCEPT !.intent = l.intent], w, E)
    BY <1>1, <1>6, AfterBegin
  <2> QED BY <2>1, <1>6
<1>3. AllFit(g, d, l, Tail(p), {})
  BY <1>1, <1>2, TailFits
<1>4. Holds(g, d, l)
  BY <1>1
<1>5. l \in Locals
  BY <1>1 DEF Locals, Maybe
<1> QED BY <1>3, <1>4, <1>5 DEF Goes

LEMMA DoActivate ==
  ASSUME NEW g, NEW d, NEW l, NEW p \in Seq(Writes), p # <<>>, Goes(g, d, l, p), NEW a \in Account, NEW i \in Intents,
         Head(p) = Step("activate", a), l.db \in {None, a}, i.acct = l.intent.acct
  PROVE  Goes(g, d, [l EXCEPT !.db = a, !.server = TRUE, !.intent = i], Tail(p))
<1>1. Head(p) \in Writes /\ Fits(g, d, l, Step("activate", a), {}) /\ l \in Locals /\ Holds(g, d, l) /\ AllFit(g, d, l, p, {})
  BY HeadFits DEF Goes
<1>6. i # None /\ l.intent # None
  BY <1>1, Constants DEF Fits, IntentFits, Intent
<1>2. \A w \in Writes, E \in SUBSET Writes : Fits(g, d, l, w, {Head(p)} \cup E) => Fits(g, d, [l EXCEPT !.db = a, !.server = TRUE, !.intent = i], w, E)
  BY <1>1, <1>6, AfterActivate
<1>3. AllFit(g, d, [l EXCEPT !.db = a, !.server = TRUE, !.intent = i], Tail(p), {})
  BY <1>1, <1>2, TailFits
<1>4. Holds(g, d, [l EXCEPT !.db = a, !.server = TRUE, !.intent = i])
  BY <1>1, <1>6, HoldsActivate
<1>5. [l EXCEPT !.db = a, !.server = TRUE, !.intent = i] \in Locals
  BY <1>1 DEF Locals, Maybe
<1> QED BY <1>3, <1>4, <1>5 DEF Goes

LEMMA DoAdopt ==
  ASSUME NEW g, NEW d, NEW l, NEW p \in Seq(Writes), p # <<>>, Goes(g, d, l, p), NEW a \in Account, NEW i \in Intents,
         Head(p) = Step("adopt", a), l.intent # None, i.acct = l.intent.acct
  PROVE  Goes(g, d, [l EXCEPT !.db = a, !.server = TRUE, !.intent = i], Tail(p))
<1>1. Head(p) \in Writes /\ Fits(g, d, l, Step("adopt", a), {}) /\ l \in Locals /\ Holds(g, d, l) /\ AllFit(g, d, l, p, {})
  BY HeadFits DEF Goes
<1>6. i # None /\ l.intent # None
  BY <1>1, Constants DEF Fits, IntentFits, Intent
<1>2. \A w \in Writes, E \in SUBSET Writes : Fits(g, d, l, w, {Head(p)} \cup E) => Fits(g, d, [l EXCEPT !.db = a, !.server = TRUE, !.intent = i], w, E)
  BY <1>1, <1>6, AfterActivate
<1>3. AllFit(g, d, [l EXCEPT !.db = a, !.server = TRUE, !.intent = i], Tail(p), {})
  BY <1>1, <1>2, TailFits
<1>4. Holds(g, d, [l EXCEPT !.db = a, !.server = TRUE, !.intent = i])
  BY <1>1, <1>6, HoldsAdopt
<1>5. [l EXCEPT !.db = a, !.server = TRUE, !.intent = i] \in Locals
  BY <1>1 DEF Locals, Maybe
<1> QED BY <1>3, <1>4, <1>5 DEF Goes

LEMMA DoAdoptNothing ==
  ASSUME NEW g, NEW d, NEW l, NEW p \in Seq(Writes), p # <<>>, Goes(g, d, l, p), NEW a \in Account,
         Head(p) = Step("adopt", a)
  PROVE  Goes(g, d, l, Tail(p))
<1>1. Head(p) \in Writes /\ Fits(g, d, l, Step("adopt", a), {}) /\ l \in Locals /\ Holds(g, d, l) /\ AllFit(g, d, l, p, {})
  BY HeadFits DEF Goes
<1>6. l.server /\ l.db = a
  BY <1>1 DEF Fits, AdoptFits
<1>7. [l EXCEPT !.db = a, !.server = TRUE, !.intent = l.intent] = l
  BY <1>1, <1>6 DEF Locals
<1>2. \A w \in Writes, E \in SUBSET Writes : Fits(g, d, l, w, {Head(p)} \cup E) => Fits(g, d, l, w, E)
  <2>1. \A w \in Writes, E \in SUBSET Writes : Fits(g, d, l, w, {Head(p)} \cup E) => Fits(g, d, [l EXCEPT !.db = a, !.server = TRUE, !.intent = l.intent], w, E)
    BY <1>1, AfterActivate
  <2> QED BY <2>1, <1>7
<1>3. AllFit(g, d, l, Tail(p), {})
  BY <1>1, <1>2, TailFits
<1>4. Holds(g, d, l)
  BY <1>1
<1>5. l \in Locals
  BY <1>1 DEF Locals, Maybe
<1> QED BY <1>3, <1>4, <1>5 DEF Goes


-----------------------------------------------------------------------------
(* How plans are put together. *)

Elems(p) == {p[i] : i \in 1..Len(p)}

LEMMA FitsNil == ASSUME NEW g, NEW d, NEW l, NEW E PROVE AllFit(g, d, l, <<>>, E) /\ Elems(<<>>) = {}
BY DEF AllFit, Elems

LEMMA FitsOne ==
  ASSUME NEW g, NEW d, NEW l, NEW E, NEW w1 \in Writes,
         Fits(g, d, l, w1, E)
  PROVE  AllFit(g, d, l, <<w1>>, E) /\ Elems(<<w1>>) = {w1}
<1> DEFINE p == <<w1>>
<1>1. Len(p) = 1 /\ p[1] = w1
  OBVIOUS
<1> HIDE DEF p
<1>2. Before(p, 1) = {}
  BY DEF Before
<1>3. AllFit(g, d, l, p, E)
  <2> SUFFICES ASSUME NEW i \in 1..1 PROVE Fits(g, d, l, p[i], E \cup Before(p, i))
    BY <1>1 DEF AllFit
  <2>1. Fits(g, d, l, p[1], E \cup Before(p, 1))
    BY <1>1, <1>2
  <2> QED BY <2>1
<1>4. Elems(p) = {w1}
  BY <1>1 DEF Elems
<1> QED BY <1>3, <1>4 DEF p

LEMMA FitsTwo ==
  ASSUME NEW g, NEW d, NEW l, NEW E, NEW w1 \in Writes, NEW w2 \in Writes,
         Fits(g, d, l, w1, E),
         Fits(g, d, l, w2, E \cup {w1})
  PROVE  AllFit(g, d, l, <<w1, w2>>, E) /\ Elems(<<w1, w2>>) = {w1, w2}
<1> DEFINE p == <<w1, w2>>
<1>1. Len(p) = 2 /\ p[1] = w1 /\ p[2] = w2
  OBVIOUS
<1> HIDE DEF p
<1>2. Before(p, 1) = {}
  BY DEF Before
<1>3. Before(p, 2) = {w1}
  BY <1>1 DEF Before
<1>4. AllFit(g, d, l, p, E)
  <2> SUFFICES ASSUME NEW i \in 1..2 PROVE Fits(g, d, l, p[i], E \cup Before(p, i))
    BY <1>1 DEF AllFit
  <2>1. Fits(g, d, l, p[1], E \cup Before(p, 1))
    BY <1>1, <1>2
  <2>2. Fits(g, d, l, p[2], E \cup Before(p, 2))
    BY <1>1, <1>3
  <2> QED BY <2>1, <2>2
<1>5. Elems(p) = {w1, w2}
  BY <1>1 DEF Elems
<1> QED BY <1>4, <1>5 DEF p

LEMMA FitsThree ==
  ASSUME NEW g, NEW d, NEW l, NEW E, NEW w1 \in Writes, NEW w2 \in Writes, NEW w3 \in Writes,
         Fits(g, d, l, w1, E),
         Fits(g, d, l, w2, E \cup {w1}),
         Fits(g, d, l, w3, E \cup {w1, w2})
  PROVE  AllFit(g, d, l, <<w1, w2, w3>>, E) /\ Elems(<<w1, w2, w3>>) = {w1, w2, w3}
<1> DEFINE p == <<w1, w2, w3>>
<1>1. Len(p) = 3 /\ p[1] = w1 /\ p[2] = w2 /\ p[3] = w3
  OBVIOUS
<1> HIDE DEF p
<1>2. Before(p, 1) = {}
  BY DEF Before
<1>3. Before(p, 2) = {w1}
  BY <1>1 DEF Before
<1>4. Before(p, 3) = {w1, w2}
  BY <1>1 DEF Before
<1>5. AllFit(g, d, l, p, E)
  <2> SUFFICES ASSUME NEW i \in 1..3 PROVE Fits(g, d, l, p[i], E \cup Before(p, i))
    BY <1>1 DEF AllFit
  <2>1. Fits(g, d, l, p[1], E \cup Before(p, 1))
    BY <1>1, <1>2
  <2>2. Fits(g, d, l, p[2], E \cup Before(p, 2))
    BY <1>1, <1>3
  <2>3. Fits(g, d, l, p[3], E \cup Before(p, 3))
    BY <1>1, <1>4
  <2> QED BY <2>1, <2>2, <2>3
<1>6. Elems(p) = {w1, w2, w3}
  BY <1>1 DEF Elems
<1> QED BY <1>5, <1>6 DEF p

LEMMA FitsFour ==
  ASSUME NEW g, NEW d, NEW l, NEW E, NEW w1 \in Writes, NEW w2 \in Writes, NEW w3 \in Writes, NEW w4 \in Writes,
         Fits(g, d, l, w1, E),
         Fits(g, d, l, w2, E \cup {w1}),
         Fits(g, d, l, w3, E \cup {w1, w2}),
         Fits(g, d, l, w4, E \cup {w1, w2, w3})
  PROVE  AllFit(g, d, l, <<w1, w2, w3, w4>>, E) /\ Elems(<<w1, w2, w3, w4>>) = {w1, w2, w3, w4}
<1> DEFINE p == <<w1, w2, w3, w4>>
<1>1. Len(p) = 4 /\ p[1] = w1 /\ p[2] = w2 /\ p[3] = w3 /\ p[4] = w4
  OBVIOUS
<1> HIDE DEF p
<1>2. Before(p, 1) = {}
  BY DEF Before
<1>3. Before(p, 2) = {w1}
  BY <1>1 DEF Before
<1>4. Before(p, 3) = {w1, w2}
  BY <1>1 DEF Before
<1>5. Before(p, 4) = {w1, w2, w3}
  BY <1>1 DEF Before
<1>6. AllFit(g, d, l, p, E)
  <2> SUFFICES ASSUME NEW i \in 1..4 PROVE Fits(g, d, l, p[i], E \cup Before(p, i))
    BY <1>1 DEF AllFit
  <2>1. Fits(g, d, l, p[1], E \cup Before(p, 1))
    BY <1>1, <1>2
  <2>2. Fits(g, d, l, p[2], E \cup Before(p, 2))
    BY <1>1, <1>3
  <2>3. Fits(g, d, l, p[3], E \cup Before(p, 3))
    BY <1>1, <1>4
  <2>4. Fits(g, d, l, p[4], E \cup Before(p, 4))
    BY <1>1, <1>5
  <2> QED BY <2>1, <2>2, <2>3, <2>4
<1>7. Elems(p) = {w1, w2, w3, w4}
  BY <1>1 DEF Elems
<1> QED BY <1>6, <1>7 DEF p

LEMMA FitsFive ==
  ASSUME NEW g, NEW d, NEW l, NEW E, NEW w1 \in Writes, NEW w2 \in Writes, NEW w3 \in Writes, NEW w4 \in Writes, NEW w5 \in Writes,
         Fits(g, d, l, w1, E),
         Fits(g, d, l, w2, E \cup {w1}),
         Fits(g, d, l, w3, E \cup {w1, w2}),
         Fits(g, d, l, w4, E \cup {w1, w2, w3}),
         Fits(g, d, l, w5, E \cup {w1, w2, w3, w4})
  PROVE  AllFit(g, d, l, <<w1, w2, w3, w4, w5>>, E) /\ Elems(<<w1, w2, w3, w4, w5>>) = {w1, w2, w3, w4, w5}
<1> DEFINE p == <<w1, w2, w3, w4, w5>>
<1>1. Len(p) = 5 /\ p[1] = w1 /\ p[2] = w2 /\ p[3] = w3 /\ p[4] = w4 /\ p[5] = w5
  OBVIOUS
<1> HIDE DEF p
<1>2. Before(p, 1) = {}
  BY DEF Before
<1>3. Before(p, 2) = {w1}
  BY <1>1 DEF Before
<1>4. Before(p, 3) = {w1, w2}
  BY <1>1 DEF Before
<1>5. Before(p, 4) = {w1, w2, w3}
  BY <1>1 DEF Before
<1>6. Before(p, 5) = {w1, w2, w3, w4}
  BY <1>1 DEF Before
<1>7. AllFit(g, d, l, p, E)
  <2> SUFFICES ASSUME NEW i \in 1..5 PROVE Fits(g, d, l, p[i], E \cup Before(p, i))
    BY <1>1 DEF AllFit
  <2>1. Fits(g, d, l, p[1], E \cup Before(p, 1))
    BY <1>1, <1>2
  <2>2. Fits(g, d, l, p[2], E \cup Before(p, 2))
    BY <1>1, <1>3
  <2>3. Fits(g, d, l, p[3], E \cup Before(p, 3))
    BY <1>1, <1>4
  <2>4. Fits(g, d, l, p[4], E \cup Before(p, 4))
    BY <1>1, <1>5
  <2>5. Fits(g, d, l, p[5], E \cup Before(p, 5))
    BY <1>1, <1>6
  <2> QED BY <2>1, <2>2, <2>3, <2>4, <2>5
<1>8. Elems(p) = {w1, w2, w3, w4, w5}
  BY <1>1 DEF Elems
<1> QED BY <1>7, <1>8 DEF p

LEMMA FitsConcat ==
  ASSUME NEW g, NEW d, NEW l, NEW E, NEW p \in Seq(Writes), NEW q \in Seq(Writes),
         AllFit(g, d, l, p, E), AllFit(g, d, l, q, E \cup Elems(p))
  PROVE  AllFit(g, d, l, p \o q, E) /\ Elems(p \o q) = Elems(p) \cup Elems(q) /\ p \o q \in Seq(Writes)
<1> DEFINE s == p \o q
<1>1. Len(s) = Len(p) + Len(q) /\ Len(p) \in Nat /\ Len(q) \in Nat /\ s \in Seq(Writes)
  OBVIOUS
<1>2. \A i \in 1..Len(p) : s[i] = p[i]
  OBVIOUS
<1>3. \A i \in 1..Len(q) : s[Len(p) + i] = q[i]
  OBVIOUS
<1> HIDE DEF s
<1>4. \A i \in 1..Len(p) : Before(s, i) = Before(p, i)
  BY <1>1, <1>2 DEF Before
<1>5. ASSUME NEW i \in 1..Len(q) PROVE Before(s, Len(p) + i) = Elems(p) \cup Before(q, i)
  <2>1. ASSUME NEW j \in 1..(Len(p) + i - 1) PROVE s[j] \in Elems(p) \cup Before(q, i)
    <3>1. CASE j <= Len(p)
      BY <3>1, <1>1, <1>2 DEF Elems
    <3>2. CASE j > Len(p)
      <4>1. j - Len(p) \in 1..(i - 1) /\ j - Len(p) \in 1..Len(q) /\ Len(p) + (j - Len(p)) = j
        BY <3>2, <1>1
      <4>2. s[j] = q[j - Len(p)]
        BY <4>1, <1>3
      <4> QED BY <4>1, <4>2 DEF Before
    <3> QED BY <1>1, <3>1, <3>2
  <2>2. ASSUME NEW j \in 1..Len(p) PROVE p[j] \in Before(s, Len(p) + i)
    BY <1>1, <1>2 DEF Before
  <2>3. ASSUME NEW j \in 1..(i - 1) PROVE q[j] \in Before(s, Len(p) + i)
    <3>1. Len(p) + j \in 1..(Len(p) + i - 1) /\ s[Len(p) + j] = q[j]
      BY <1>1, <1>3
    <3> QED BY <3>1 DEF Before
  <2>4. \A u : u \in Before(s, Len(p) + i) => u \in Elems(p) \cup Before(q, i)
    BY <2>1 DEF Before
  <2>5. \A u : u \in Elems(p) => u \in Before(s, Len(p) + i)
    BY <2>2 DEF Elems
  <2>6. \A u : u \in Before(q, i) => u \in Before(s, Len(p) + i)
    BY <2>3 DEF Before
  <2> QED BY <2>4, <2>5, <2>6
<1>6. ASSUME NEW i \in 1..Len(s) PROVE Fits(g, d, l, s[i], E \cup Before(s, i))
  <2>1. CASE i <= Len(p)
    <3>1. i \in 1..Len(p)
      BY <2>1, <1>1
    <3>2. Fits(g, d, l, p[i], E \cup Before(p, i))
      BY <3>1 DEF AllFit
    <3>3. s[i] = p[i] /\ Before(s, i) = Before(p, i)
      BY <3>1, <1>2, <1>4
    <3> QED BY <3>2, <3>3
  <2>2. CASE i > Len(p)
    <3> DEFINE j == i - Len(p)
    <3>1. j \in 1..Len(q) /\ i = Len(p) + j
      BY <2>2, <1>1
    <3>2. Fits(g, d, l, q[j], (E \cup Elems(p)) \cup Before(q, j))
      BY <3>1 DEF AllFit
    <3>3. s[i] = q[j] /\ (E \cup Elems(p)) \cup Before(q, j) = E \cup Before(s, i)
      BY <3>1, <1>3, <1>5
    <3> QED BY <3>2, <3>3
  <2> QED BY <1>1, <2>1, <2>2
<1>7. Elems(s) = Elems(p) \cup Elems(q)
  <2>1. ASSUME NEW i \in 1..Len(s) PROVE s[i] \in Elems(p) \cup Elems(q)
    <3>1. CASE i <= Len(p)
      BY <3>1, <1>1, <1>2 DEF Elems
    <3>2. CASE i > Len(p)
      <4>1. i - Len(p) \in 1..Len(q) /\ Len(p) + (i - Len(p)) = i
        BY <3>2, <1>1
      <4> QED BY <4>1, <1>3 DEF Elems
    <3> QED BY <1>1, <3>1, <3>2
  <2>2. ASSUME NEW i \in 1..Len(p) PROVE p[i] \in Elems(s)
    BY <1>1, <1>2 DEF Elems
  <2>3. ASSUME NEW i \in 1..Len(q) PROVE q[i] \in Elems(s)
    <3>1. Len(p) + i \in 1..Len(s)
      BY <1>1
    <3> QED BY <3>1, <1>3 DEF Elems
  <2> QED BY <2>1, <2>2, <2>3 DEF Elems
<1> QED BY <1>1, <1>6, <1>7 DEF AllFit, s

\* Writes that rely on nothing.
LEMMA FitsPlain ==
  ASSUME NEW g, NEW d, NEW l, NEW w, NEW E,
         \/ w.at \in {"attest", "recovery", "tell", "sessions", "begin", "login", "bind", "valid", "fail", "verify", "push"}
         \/ w = Save([keys |-> TRUE])
         \/ \E k \in Nat : w = Save([ark |-> k])
         \/ \E b \in Blobs : w = Save([capture |-> b])
  PROVE  Fits(g, d, l, w, E)
<1>1. /\ \A a : w # Save([id |-> a]) /\ w # Record(a)
      /\ \A a, e : w # Identity(a, e)
      /\ \A e : w # Save([epoch |-> e])
      /\ \A a : w # Step("activate", a) /\ w # Step("epoch", a) /\ w # Step("adopt", a) /\ w # Step("session", a)
      /\ w.at # "wrap"
  BY DEF Save, Identity, Record, Step
<1> QED BY <1>1 DEF Fits, IdFits, BindingFits, ListedFits, EpochFits, AdoptFits, IntentFits, RecordFits, BundleFits

LEMMA FitsIdSave ==
  ASSUME NEW g, NEW d, NEW l, NEW E, NEW a \in Account,
         \A u \in E, b \in Account : ~BindsTo(u, b), HasKeys(l, E) \/ HasRoot(l, E),
         l.server => (l.db = a \/ l.db \in g.mixed) /\ (l.db = a \/ a \in g.carried)
  PROVE  Fits(g, d, l, Save([id |-> a]), E)
<1> DEFINE v == Save([id |-> a])
<1>1. /\ (\A b : v = Save([id |-> b]) => b = a)
      /\ (\A b : v # Record(b))
      /\ (\A b, k : v # Identity(b, k))
      /\ (\A k : v # Save([epoch |-> k]))
      /\ (\A b : v # Step("activate", b))
      /\ (\A b : v # Step("epoch", b))
      /\ (\A b : v # Step("adopt", b))
      /\ (\A b : v # Step("session", b))
      /\ (v.at # "wrap")
  BY DEF Save, Identity, Record, Step
<1> HIDE DEF v
<1>2. Fits(g, d, l, v, E)
  BY <1>1 DEF Fits, IdFits, BindingFits, ListedFits, EpochFits, AdoptFits, IntentFits, RecordFits, BundleFits
<1> QED BY <1>2 DEF v

LEMMA FitsIdentity ==
  ASSUME NEW g, NEW d, NEW l, NEW E, NEW a \in Account, NEW e \in Nat,
         HasId(l, a, E), HasKeys(l, E), HasRoot(l, E), Intended(l, a, E),
         Listed(g, d, a, E), Attesting(g, a, e, E)
  PROVE  Fits(g, d, l, Identity(a, e), E)
<1> DEFINE v == Identity(a, e)
<1>1. /\ (\A b : v # Save([id |-> b]))
      /\ (\A b : v # Record(b))
      /\ (\A b, k : v = Identity(b, k) => b = a /\ k = e)
      /\ (\A k : v # Save([epoch |-> k]))
      /\ (\A b : v # Step("activate", b))
      /\ (\A b : v # Step("epoch", b))
      /\ (\A b : v # Step("adopt", b))
      /\ (\A b : v # Step("session", b))
      /\ (v.at # "wrap")
  BY DEF Save, Identity, Record, Step
<1> HIDE DEF v
<1>2. Fits(g, d, l, v, E)
  BY <1>1 DEF Fits, IdFits, BindingFits, ListedFits, EpochFits, AdoptFits, IntentFits, RecordFits, BundleFits
<1> QED BY <1>2 DEF v

LEMMA FitsEpochSave ==
  ASSUME NEW g, NEW d, NEW l, NEW E, NEW e \in Nat,
         l.server, l.db # None, Attesting(g, l.db, e, E), \A u \in E : u.at \in {"wrap", "attest"}
  PROVE  Fits(g, d, l, Save([epoch |-> e]), E)
<1> DEFINE v == Save([epoch |-> e])
<1>1. /\ (\A b : v # Save([id |-> b]))
      /\ (\A b : v # Record(b))
      /\ (\A b, k : v # Identity(b, k))
      /\ (\A k : v = Save([epoch |-> k]) => k = e)
      /\ (\A b : v # Step("activate", b))
      /\ (\A b : v # Step("epoch", b))
      /\ (\A b : v # Step("adopt", b))
      /\ (\A b : v # Step("session", b))
      /\ (v.at # "wrap")
  BY DEF Save, Identity, Record, Step
<1> HIDE DEF v
<1>2. Fits(g, d, l, v, E)
  BY <1>1 DEF Fits, IdFits, BindingFits, ListedFits, EpochFits, AdoptFits, IntentFits, RecordFits, BundleFits
<1> QED BY <1>2 DEF v

LEMMA FitsActivate ==
  ASSUME NEW g, NEW d, NEW l, NEW E, NEW a \in Account,
         HasId(l, a, E), HasKeys(l, E), HasRoot(l, E), Intended(l, a, E),
         Listed(g, d, a, E), Intent(l, a, E)
  PROVE  Fits(g, d, l, Step("activate", a), E)
<1> DEFINE v == Step("activate", a)
<1>1. /\ (\A b : v # Save([id |-> b]))
      /\ (\A b : v # Record(b))
      /\ (\A b, k : v # Identity(b, k))
      /\ (\A k : v # Save([epoch |-> k]))
      /\ (\A b : v = Step("activate", b) => b = a)
      /\ (\A b : v # Step("epoch", b))
      /\ (\A b : v # Step("adopt", b))
      /\ (\A b : v # Step("session", b))
      /\ (v.at # "wrap")
  BY DEF Save, Identity, Record, Step
<1> HIDE DEF v
<1>2. Fits(g, d, l, v, E)
  BY <1>1 DEF Fits, IdFits, BindingFits, ListedFits, EpochFits, AdoptFits, IntentFits, RecordFits, BundleFits
<1> QED BY <1>2 DEF v

LEMMA FitsEpoch ==
  ASSUME NEW g, NEW d, NEW l, NEW E, NEW a \in Account,
         HasId(l, a, E), HasKeys(l, E), HasRoot(l, E), Intended(l, a, E)
  PROVE  Fits(g, d, l, Step("epoch", a), E)
<1> DEFINE v == Step("epoch", a)
<1>1. /\ (\A b : v # Save([id |-> b]))
      /\ (\A b : v # Record(b))
      /\ (\A b, k : v # Identity(b, k))
      /\ (\A k : v # Save([epoch |-> k]))
      /\ (\A b : v # Step("activate", b))
      /\ (\A b : v = Step("epoch", b) => b = a)
      /\ (\A b : v # Step("adopt", b))
      /\ (\A b : v # Step("session", b))
      /\ (v.at # "wrap")
  BY DEF Save, Identity, Record, Step
<1> HIDE DEF v
<1>2. Fits(g, d, l, v, E)
  BY <1>1 DEF Fits, IdFits, BindingFits, ListedFits, EpochFits, AdoptFits, IntentFits, RecordFits, BundleFits
<1> QED BY <1>2 DEF v

LEMMA FitsAdopt ==
  ASSUME NEW g, NEW d, NEW l, NEW E, NEW a \in Account,
         (l.server /\ l.db = a) \/ \E e \in Nat : Identity(a, e) \in E,
         \A u \in E, b \in Account : BindsTo(u, b) => b = a
  PROVE  Fits(g, d, l, Step("adopt", a), E)
<1> DEFINE v == Step("adopt", a)
<1>1. /\ (\A b : v # Save([id |-> b]))
      /\ (\A b : v # Record(b))
      /\ (\A b, k : v # Identity(b, k))
      /\ (\A k : v # Save([epoch |-> k]))
      /\ (\A b : v # Step("activate", b))
      /\ (\A b : v # Step("epoch", b))
      /\ (\A b : v = Step("adopt", b) => b = a)
      /\ (\A b : v # Step("session", b))
      /\ (v.at # "wrap")
  BY DEF Save, Identity, Record, Step
<1> HIDE DEF v
<1>2. Fits(g, d, l, v, E)
  BY <1>1 DEF Fits, IdFits, BindingFits, ListedFits, EpochFits, AdoptFits, IntentFits, RecordFits, BundleFits
<1> QED BY <1>2 DEF v

LEMMA FitsSession ==
  ASSUME NEW g, NEW d, NEW l, NEW E, NEW a \in Account,
         Intent(l, a, E)
  PROVE  Fits(g, d, l, Step("session", a), E)
<1> DEFINE v == Step("session", a)
<1>1. /\ (\A b : v # Save([id |-> b]))
      /\ (\A b : v # Record(b))
      /\ (\A b, k : v # Identity(b, k))
      /\ (\A k : v # Save([epoch |-> k]))
      /\ (\A b : v # Step("activate", b))
      /\ (\A b : v # Step("epoch", b))
      /\ (\A b : v # Step("adopt", b))
      /\ (\A b : v = Step("session", b) => b = a)
      /\ (v.at # "wrap")
  BY DEF Save, Identity, Record, Step
<1> HIDE DEF v
<1>2. Fits(g, d, l, v, E)
  BY <1>1 DEF Fits, IdFits, BindingFits, ListedFits, EpochFits, AdoptFits, IntentFits, RecordFits, BundleFits
<1> QED BY <1>2 DEF v

LEMMA FitsRecord ==
  ASSUME NEW g, NEW d, NEW l, NEW E, NEW a \in Account,
         HasId(l, a, E)
  PROVE  Fits(g, d, l, Record(a), E)
<1> DEFINE v == Record(a)
<1>1. /\ (\A b : v # Save([id |-> b]))
      /\ (\A b : v = Record(b) => b = a)
      /\ (\A b, k : v # Identity(b, k))
      /\ (\A k : v # Save([epoch |-> k]))
      /\ (\A b : v # Step("activate", b))
      /\ (\A b : v # Step("epoch", b))
      /\ (\A b : v # Step("adopt", b))
      /\ (\A b : v # Step("session", b))
      /\ (v.at # "wrap")
  BY DEF Save, Identity, Record, Step
<1> HIDE DEF v
<1>2. Fits(g, d, l, v, E)
  BY <1>1 DEF Fits, IdFits, BindingFits, ListedFits, EpochFits, AdoptFits, IntentFits, RecordFits, BundleFits
<1> QED BY <1>2 DEF v

LEMMA FitsWrap ==
  ASSUME NEW g, NEW d, NEW l, NEW E, NEW a \in Account, NEW to \in Device, NEW b \in Bundles,
         Deliverable(g, a, to, b)
  PROVE  Fits(g, d, l, Wrap(a, to, b), E)
<1> DEFINE v == Wrap(a, to, b)
<1>1. /\ (\A c : v # Save([id |-> c]))
      /\ (\A c : v # Record(c))
      /\ (\A c, k : v # Identity(c, k))
      /\ (\A k : v # Save([epoch |-> k]))
      /\ (\A c : v # Step("activate", c))
      /\ (\A c : v # Step("epoch", c))
      /\ (\A c : v # Step("adopt", c))
      /\ (\A c : v # Step("session", c))
      /\ (v.at = "wrap" /\ v.acct = a /\ v.to = to /\ v.bundle = b)
  BY DEF Wrap, Save, Identity, Record, Step
<1> HIDE DEF v
<1>2. Fits(g, d, l, v, E)
  BY <1>1 DEF Fits, IdFits, BindingFits, ListedFits, EpochFits, AdoptFits, IntentFits, RecordFits, BundleFits
<1> QED BY <1>2 DEF v


-----------------------------------------------------------------------------
(* The greatest epoch. *)

UpTo(f, k) == {0} \cup {f[i] : i \in 1..k}
HasGreatest(S) == \E m \in S : \A x \in S : m >= x

LEMMA GreatestOf ==
  ASSUME NEW n \in Nat, NEW f \in [1..n -> Nat]
  PROVE  HasGreatest(UpTo(f, n))
<1> DEFINE bad == {k \in 0..n : ~HasGreatest(UpTo(f, k))}
<1>0. bad \in SUBSET Nat /\ \A k : k \in bad <=> k \in 0..n /\ ~HasGreatest(UpTo(f, k))
  OBVIOUS
<1> HIDE DEF bad
<1> SUFFICES ASSUME bad # {} PROVE FALSE
  BY <1>0
<1>1. PICK k \in bad : \A j \in bad : k <= j
  BY <1>0, LeastMember
<1>2. k # 0
  <2>1. UpTo(f, 0) = {0}
    BY DEF UpTo
  <2> QED BY <2>1, <1>0 DEF HasGreatest
<1>3. k - 1 \in 0..n /\ k - 1 \notin bad /\ k \in 1..n
  BY <1>0, <1>1, <1>2
<1>4. PICK m \in UpTo(f, k - 1) : \A x \in UpTo(f, k - 1) : m >= x
  BY <1>0, <1>3 DEF HasGreatest
<1>5. UpTo(f, k) = UpTo(f, k - 1) \cup {f[k]}
  BY <1>3 DEF UpTo
<1>6. f[k] \in Nat /\ m \in Nat /\ \A x \in UpTo(f, k - 1) : x \in Nat
  BY <1>3 DEF UpTo
<1>7. HasGreatest(UpTo(f, k))
  <2>2. CASE m >= f[k]
    BY <2>2, <1>4, <1>5 DEF HasGreatest
  <2>3. CASE ~(m >= f[k])
    <3>1. \A x \in UpTo(f, k) : f[k] >= x
      BY <2>3, <1>4, <1>5, <1>6
    <3> QED BY <3>1, <1>5 DEF HasGreatest
  <2> QED BY <2>2, <2>3
<1> QED BY <1>0, <1>1, <1>7

LEMMA GreatestEpoch ==
  ASSUME TypeOK, NEW a \in Account
  PROVE  /\ current_epoch(a) \in Nat
         /\ Attested(relay.attests[a], current_epoch(a))
         /\ Len(relay.attests[a]) <= PageLimit =>
              \A i \in DOMAIN relay.attests[a] : relay.attests[a][i].epoch <= current_epoch(a)
<1> DEFINE s == relay.attests[a]
           n == Min({Len(s), PageLimit})
           p == attestations_list(a)
           f == [i \in 1..n |-> s[i].epoch]
           S == UpTo(f, n)
<1>1. s \in Seq(Attestations) /\ Len(s) \in Nat /\ PageLimit \in Nat
  BY RosterAssumption DEF TypeOK, Relays
<1>2. n \in {Len(s), PageLimit} /\ n <= Len(s) /\ (Len(s) <= PageLimit => n = Len(s))
  <2>1. {Len(s), PageLimit} \in SUBSET Nat /\ {Len(s), PageLimit} # {}
    BY <1>1
  <2>2. \E x \in {Len(s), PageLimit} : \A y \in {Len(s), PageLimit} : x <= y
    BY <2>1, LeastMember
  <2>3. n \in {Len(s), PageLimit} /\ \A y \in {Len(s), PageLimit} : n <= y
    BY <2>2 DEF Min
  <2> QED BY <2>3, <1>1
<1>3. n \in Nat /\ \A i \in 1..n : s[i] \in Attestations /\ s[i].epoch \in Nat
  <2>1. n \in Nat
    BY <1>1, <1>2
  <2>4. 1..n \subseteq 1..Len(s)
    <3> HIDE DEF n
    <3> QED BY <2>1, <1>1, <1>2
  <2>2. \A i \in 1..Len(s) : s[i] \in Attestations
    BY <1>1
  <2>3. \A x \in Attestations : x.epoch \in Nat
    BY DEF Attestations
  <2> QED BY <2>1, <2>2, <2>3, <2>4
<1>4. p = [i \in 1..n |-> s[i]]
  BY <1>1, <1>2, <1>3 DEF attestations_list
<1> HIDE DEF n, p
<1>5. {e.epoch : e \in Range(p)} = {f[i] : i \in 1..n}
  BY <1>3, <1>4 DEF Range
<1>6. f \in [1..n -> Nat]
  BY <1>3
<1>7. \E m \in S : \A x \in S : m >= x
  BY <1>3, <1>6, GreatestOf DEF HasGreatest
<1> DEFINE c == Max(S)
<1>8. c \in S /\ \A x \in S : c >= x
  BY <1>7 DEF Max
<1>9. current_epoch(a) = c
  BY <1>5 DEF current_epoch, p, UpTo
<1> HIDE DEF c
<1>10. c \in Nat
  BY <1>6, <1>8 DEF UpTo
<1>11. Attested(s, c)
  <2>1. CASE c = 0
    BY <2>1 DEF Attested
  <2>2. CASE c # 0
    <3>1. PICK i \in 1..n : c = s[i].epoch
      BY <2>2, <1>8 DEF UpTo
    <3>2. i \in DOMAIN s /\ s[i].epoch >= c
      BY <3>1, <1>1, <1>2, <1>10
    <3> QED BY <3>2 DEF Attested
  <2> QED BY <2>1, <2>2
<1>12. ASSUME Len(s) <= PageLimit, NEW i \in DOMAIN s PROVE s[i].epoch <= c
  <2>1. i \in 1..n
    BY <1>1, <1>2, <1>12
  <2>2. s[i].epoch \in S
    BY <2>1 DEF UpTo
  <2> QED BY <2>1, <2>2, <1>3, <1>8, <1>10
<1> QED BY <1>9, <1>10, <1>11, <1>12

-----------------------------------------------------------------------------
(* What performing a write does. *)

LEMMA LocalKinds ==
  ASSUME NEW w \in LocalWrites
  PROVE  \/ w = Save([keys |-> TRUE])
         \/ \E k \in Nat : w = Save([ark |-> k])
         \/ \E a \in Account : w = Save([id |-> a])
         \/ \E b \in Blobs : w = Save([capture |-> b])
         \/ \E e \in Nat : w = Save([epoch |-> e])
         \/ \E a \in Account, e \in Nat : w = Identity(a, e)
<1>1. \/ w = KeysSave
      \/ \E k \in Nat : w = Save([ark |-> k])
      \/ \E a \in Account : w = Save([id |-> a])
      \/ \E b \in Blobs : w = Save([capture |-> b])
      \/ \E e \in Nat : w = Save([epoch |-> e])
      \/ \E a \in Account, e \in Nat : w = Identity(a, e)
  BY DEF LocalWrites
<1>2. KeysSave = Save([keys |-> TRUE])
  BY DEF KeysSave
<1> QED BY <1>1, <1>2

LEMMA RelayKinds ==
  ASSUME NEW w \in RelayWrites
  PROVE  \/ \E a \in Account : w = Record(a)
         \/ w \in [at : {"attest"}, acct : Account, kind : {"trust", "revoke"}, of : Device, epoch : Nat]
         \/ \E a \in Account, to \in Device, b \in Bundles : w = Wrap(a, to, b)
         \/ \E a \in Account, b \in Blobs : w = Blob(a, b)
         \/ \E of \in Device : w = Sessions(of)
BY DEF RelayWrites

LEMMA UserKinds ==
  ASSUME NEW w \in UserWrites
  PROVE  \/ \E c \in Nat : w = Tell("codes", c)
         \/ \E q \in Packages : w = Tell("packages", q)
         \/ \E i \in Invites : w = Tell("invites", i)
BY DEF UserWrites

LEMMA OtherKinds ==
  ASSUME NEW w \in OtherWrites
  PROVE  \/ \E a \in Account, f \in {"create", "join", "attach"} : w = Intend(a, f)
         \/ \E n \in Steps, a \in Account : w = Step(n, a)
BY DEF OtherWrites

LEMMA Overwriting ==
  ASSUME NEW l \in Locals
  PROVE  /\ Overwritten(l, [keys |-> TRUE]) = [l EXCEPT !.keys = TRUE]
         /\ \A k : Overwritten(l, [ark |-> k]) = [l EXCEPT !.ark = k]
         /\ \A k : Overwritten(l, [id |-> k]) = [l EXCEPT !.id = k]
         /\ \A k : Overwritten(l, [capture |-> k]) = [l EXCEPT !.capture = k]
         /\ \A k : Overwritten(l, [epoch |-> k]) = [l EXCEPT !.epoch = k]
         /\ \A a, e : Overwritten(l, [db |-> a, server |-> TRUE, epoch |-> e])
                        = [l EXCEPT !.db = a, !.server = TRUE, !.epoch = e]
<1>1. Overwritten(l, [keys |-> TRUE]) = [l EXCEPT !.keys = TRUE]
  <2> DEFINE x == Overwritten(l, [keys |-> TRUE])
             y == [l EXCEPT !.keys = TRUE]
  <2>1. x = [f \in DOMAIN l |-> x[f]] /\ y = [f \in DOMAIN l |-> y[f]]
    BY DEF Overwritten, Locals
  <2>2. \A f \in DOMAIN l : x[f] = y[f]
    <3>1. x.keys = TRUE
      BY DEF Overwritten, Locals
    <3>2. y.keys = TRUE
      BY DEF Locals
    <3>3. \A f \in DOMAIN l \ {"keys"} : x[f] = y[f]
      BY DEF Overwritten, Locals
    <3> QED BY <3>1, <3>2, <3>3, Zenon
  <2> HIDE DEF x, y
  <2>3. x = y
    BY <2>1, <2>2, Zenon
  <2> QED BY <2>3 DEF x, y
<1>2. ASSUME NEW k PROVE Overwritten(l, [ark |-> k]) = [l EXCEPT !.ark = k]
  <2> DEFINE x == Overwritten(l, [ark |-> k])
             y == [l EXCEPT !.ark = k]
  <2>1. x = [f \in DOMAIN l |-> x[f]] /\ y = [f \in DOMAIN l |-> y[f]]
    BY DEF Overwritten, Locals
  <2>2. \A f \in DOMAIN l : x[f] = y[f]
    BY DEF Overwritten, Locals
  <2> HIDE DEF x, y
  <2>3. x = y
    BY <2>1, <2>2, Zenon
  <2> QED BY <2>3 DEF x, y
<1>3. ASSUME NEW k PROVE Overwritten(l, [id |-> k]) = [l EXCEPT !.id = k]
  <2> DEFINE x == Overwritten(l, [id |-> k])
             y == [l EXCEPT !.id = k]
  <2>1. x = [f \in DOMAIN l |-> x[f]] /\ y = [f \in DOMAIN l |-> y[f]]
    BY DEF Overwritten, Locals
  <2>2. \A f \in DOMAIN l : x[f] = y[f]
    BY DEF Overwritten, Locals
  <2> HIDE DEF x, y
  <2>3. x = y
    BY <2>1, <2>2, Zenon
  <2> QED BY <2>3 DEF x, y
<1>4. ASSUME NEW k PROVE Overwritten(l, [capture |-> k]) = [l EXCEPT !.capture = k]
  <2> DEFINE x == Overwritten(l, [capture |-> k])
             y == [l EXCEPT !.capture = k]
  <2>1. x = [f \in DOMAIN l |-> x[f]] /\ y = [f \in DOMAIN l |-> y[f]]
    BY DEF Overwritten, Locals
  <2>2. \A f \in DOMAIN l : x[f] = y[f]
    BY DEF Overwritten, Locals
  <2> HIDE DEF x, y
  <2>3. x = y
    BY <2>1, <2>2, Zenon
  <2> QED BY <2>3 DEF x, y
<1>5. ASSUME NEW k PROVE Overwritten(l, [epoch |-> k]) = [l EXCEPT !.epoch = k]
  <2> DEFINE x == Overwritten(l, [epoch |-> k])
             y == [l EXCEPT !.epoch = k]
  <2>1. x = [f \in DOMAIN l |-> x[f]] /\ y = [f \in DOMAIN l |-> y[f]]
    BY DEF Overwritten, Locals
  <2>2. \A f \in DOMAIN l : x[f] = y[f]
    BY DEF Overwritten, Locals
  <2> HIDE DEF x, y
  <2>3. x = y
    BY <2>1, <2>2, Zenon
  <2> QED BY <2>3 DEF x, y
<1>6. ASSUME NEW k, NEW e PROVE Overwritten(l, [db |-> k, server |-> TRUE, epoch |-> e]) = [l EXCEPT !.db = k, !.server = TRUE, !.epoch = e]
  <2> DEFINE x == Overwritten(l, [db |-> k, server |-> TRUE, epoch |-> e])
             y == [l EXCEPT !.db = k, !.server = TRUE, !.epoch = e]
  <2>1. x = [f \in DOMAIN l |-> x[f]] /\ y = [f \in DOMAIN l |-> y[f]]
    BY DEF Overwritten, Locals
  <2>2. \A f \in DOMAIN l : x[f] = y[f]
    <3>1. x.server = TRUE
      BY DEF Overwritten, Locals
    <3>2. y.server = TRUE
      BY DEF Locals
    <3>3. x.db = k /\ y.db = k /\ x.epoch = e /\ y.epoch = e
      BY DEF Overwritten, Locals
    <3>4. \A f \in DOMAIN l \ {"server", "db", "epoch"} : x[f] = l[f] /\ y[f] = l[f]
      BY DEF Overwritten, Locals
    <3> QED BY <3>1, <3>2, <3>3, <3>4, Zenon
  <2> HIDE DEF x, y
  <2>3. x = y
    BY <2>1, <2>2, Zenon
  <2> QED BY <2>3 DEF x, y
<1> QED BY <1>1, <1>2, <1>3, <1>4, <1>5, <1>6

LEMMA RelayEffects ==
  ASSUME NEW d
  PROVE  /\ \A f : RelayAfter(d, Save(f)) = relay
         /\ \A a, e : RelayAfter(d, Identity(a, e)) = relay
         /\ \A a : RelayAfter(d, Record(a)) = device_record_put(d, a)
         /\ \A a, to, b : RelayAfter(d, Wrap(a, to, b)) = wrapped_bundle_put(Wrap(a, to, b))
         /\ \A a, b : RelayAfter(d, Blob(a, b)) = recovery_blob_put(Blob(a, b))
         /\ \A of : RelayAfter(d, Sessions(of)) = revoke_relay_sessions(d, of)
         /\ \A x, y : RelayAfter(d, Tell(x, y)) = relay
         /\ \A a, f : RelayAfter(d, Intend(a, f)) = relay
         /\ \A a : RelayAfter(d, Step("bind", a)) = [relay EXCEPT !.bound = a]
         /\ \A a : RelayAfter(d, Step("login", a)) = [relay EXCEPT !.live = @ \cup {d}]
         /\ \A a : RelayAfter(d, Step("push", a)) = [relay EXCEPT !.first[a] = IF @ = None THEN [by |-> d, ark |-> local[d].ark] ELSE @]
         /\ \A n \in Steps : \A a : (n \notin {"bind", "login", "push"} => RelayAfter(d, Step(n, a)) = relay)
         /\ \A w : (w.at = "attest" => RelayAfter(d, w) = attestation_append(d, w))
<1>1. \A f : RelayAfter(d, Save(f)) = relay
  BY DEF RelayAfter, Save
<1>2. \A a, e : RelayAfter(d, Identity(a, e)) = relay
  BY DEF RelayAfter, Identity, Save
<1>3. \A a : RelayAfter(d, Record(a)) = device_record_put(d, a)
  BY DEF RelayAfter, Record
<1>4. \A a, to, b : RelayAfter(d, Wrap(a, to, b)) = wrapped_bundle_put(Wrap(a, to, b))
  BY DEF RelayAfter, Wrap
<1>5. \A a, b : RelayAfter(d, Blob(a, b)) = recovery_blob_put(Blob(a, b))
  BY DEF RelayAfter, Blob
<1>6. \A of : RelayAfter(d, Sessions(of)) = revoke_relay_sessions(d, of)
  BY DEF RelayAfter, Sessions
<1>7. \A x, y : RelayAfter(d, Tell(x, y)) = relay
  BY DEF RelayAfter, Tell
<1>8. \A a, f : RelayAfter(d, Intend(a, f)) = relay
  BY DEF RelayAfter, Intend
<1>9. \A a : RelayAfter(d, Step("bind", a)) = [relay EXCEPT !.bound = a]
  BY DEF RelayAfter, Step
<1>10. \A a : RelayAfter(d, Step("login", a)) = [relay EXCEPT !.live = @ \cup {d}]
  BY DEF RelayAfter, Step
<1>11. \A a : RelayAfter(d, Step("push", a)) = [relay EXCEPT !.first[a] = IF @ = None THEN [by |-> d, ark |-> local[d].ark] ELSE @]
  BY DEF RelayAfter, Step
<1>12. \A n \in Steps : \A a : (n \notin {"bind", "login", "push"} => RelayAfter(d, Step(n, a)) = relay)
  BY DEF RelayAfter, Step, Steps
<1>13. \A w : (w.at = "attest" => RelayAfter(d, w) = attestation_append(d, w))
  BY DEF RelayAfter
<1> QED BY <1>1, <1>2, <1>3, <1>4, <1>5, <1>6, <1>7, <1>8, <1>9, <1>10, <1>11, <1>12, <1>13

LEMMA LocalEffects ==
  ASSUME NEW d
  PROVE  /\ \A f : LocalAfter(d, Save(f)) = Overwritten(local[d], f)
         /\ \A a, e : LocalAfter(d, Identity(a, e)) = Overwritten(local[d], [db |-> a, server |-> TRUE, epoch |-> e])
         /\ \A a : LocalAfter(d, Record(a)) = local[d]
         /\ \A a, to, b : LocalAfter(d, Wrap(a, to, b)) = local[d]
         /\ \A a, b : LocalAfter(d, Blob(a, b)) = local[d]
         /\ \A of : LocalAfter(d, Sessions(of)) = local[d]
         /\ \A x, y : LocalAfter(d, Tell(x, y)) = local[d]
         /\ \A w : (w.at = "attest" => LocalAfter(d, w) = local[d])
         /\ \A a, f : (local[d].intent = None => LocalAfter(d, Intend(a, f)) = [local[d] EXCEPT !.intent = [flow |-> f, acct |-> a, active |-> FALSE]])
         /\ \A a, f : (local[d].intent # None => LocalAfter(d, Intend(a, f)) = local[d])
         /\ \A a : LocalAfter(d, Step("session", a)) = [local[d] EXCEPT !.session = a]
         /\ \A a : LocalAfter(d, Step("activate", a)) = Activated(local[d], a)
         /\ \A a : LocalAfter(d, Step("adopt", a)) = (IF Adoptable(d) THEN Activated(local[d], a) ELSE local[d])
         /\ \A n \in Steps : \A a : (n \notin {"session", "activate", "adopt"} => LocalAfter(d, Step(n, a)) = local[d])
<1>1. \A f : LocalAfter(d, Save(f)) = Overwritten(local[d], f)
  BY DEF LocalAfter, Save
<1>2. \A a, e : LocalAfter(d, Identity(a, e)) = Overwritten(local[d], [db |-> a, server |-> TRUE, epoch |-> e])
  BY DEF LocalAfter, Identity, Save
<1>3. \A a : LocalAfter(d, Record(a)) = local[d]
  BY DEF LocalAfter, Record
<1>4. \A a, to, b : LocalAfter(d, Wrap(a, to, b)) = local[d]
  BY DEF LocalAfter, Wrap
<1>5. \A a, b : LocalAfter(d, Blob(a, b)) = local[d]
  BY DEF LocalAfter, Blob
<1>6. \A of : LocalAfter(d, Sessions(of)) = local[d]
  BY DEF LocalAfter, Sessions
<1>7. \A x, y : LocalAfter(d, Tell(x, y)) = local[d]
  BY DEF LocalAfter, Tell
<1>8. \A w : (w.at = "attest" => LocalAfter(d, w) = local[d])
  BY DEF LocalAfter
<1>9. \A a, f : (local[d].intent = None => LocalAfter(d, Intend(a, f)) = [local[d] EXCEPT !.intent = [flow |-> f, acct |-> a, active |-> FALSE]])
  BY DEF LocalAfter, Intend
<1>10. \A a, f : (local[d].intent # None => LocalAfter(d, Intend(a, f)) = local[d])
  BY DEF LocalAfter, Intend
<1>11. \A a : LocalAfter(d, Step("session", a)) = [local[d] EXCEPT !.session = a]
  BY DEF LocalAfter, Step
<1>12. \A a : LocalAfter(d, Step("activate", a)) = Activated(local[d], a)
  BY DEF LocalAfter, Step
<1>13. \A a : LocalAfter(d, Step("adopt", a)) = (IF Adoptable(d) THEN Activated(local[d], a) ELSE local[d])
  BY DEF LocalAfter, Step
<1>14. \A n \in Steps : \A a : (n \notin {"session", "activate", "adopt"} => LocalAfter(d, Step(n, a)) = local[d])
  BY DEF LocalAfter, Step, Steps
<1> QED BY <1>1, <1>2, <1>3, <1>4, <1>5, <1>6, <1>7, <1>8, <1>9, <1>10, <1>11, <1>12, <1>13, <1>14

LEMMA RelayTypes ==
  ASSUME NEW r \in Relays
  PROVE  /\ r.records \in [Account -> SUBSET Device]
         /\ r.wraps \in [Account -> [Device -> Seq(Bundles)]]
         /\ r.attests \in [Account -> Seq(Attestations)]
         /\ r.recovery \in [Account -> Maybe(Blobs)]
         /\ r.first \in [Account -> Maybe([by : Device, ark : Maybe(Nat)])]
         /\ r.bound \in Maybe(Account)
         /\ r.live \in SUBSET Device
BY DEF Relays

LEMMA RelaySet ==
  ASSUME NEW r \in Relays
  PROVE  /\ \A x \in [Account -> SUBSET Device] : [r EXCEPT !.records = x] \in Relays /\ [r EXCEPT !.records = x].records = x
              /\ [r EXCEPT !.records = x].wraps = r.wraps /\ [r EXCEPT !.records = x].attests = r.attests /\ [r EXCEPT !.records = x].recovery = r.recovery /\ [r EXCEPT !.records = x].first = r.first /\ [r EXCEPT !.records = x].bound = r.bound /\ [r EXCEPT !.records = x].live = r.live
         /\ \A x \in [Account -> [Device -> Seq(Bundles)]] : [r EXCEPT !.wraps = x] \in Relays /\ [r EXCEPT !.wraps = x].wraps = x
              /\ [r EXCEPT !.wraps = x].records = r.records /\ [r EXCEPT !.wraps = x].attests = r.attests /\ [r EXCEPT !.wraps = x].recovery = r.recovery /\ [r EXCEPT !.wraps = x].first = r.first /\ [r EXCEPT !.wraps = x].bound = r.bound /\ [r EXCEPT !.wraps = x].live = r.live
         /\ \A x \in [Account -> Seq(Attestations)] : [r EXCEPT !.attests = x] \in Relays /\ [r EXCEPT !.attests = x].attests = x
              /\ [r EXCEPT !.attests = x].records = r.records /\ [r EXCEPT !.attests = x].wraps = r.wraps /\ [r EXCEPT !.attests = x].recovery = r.recovery /\ [r EXCEPT !.attests = x].first = r.first /\ [r EXCEPT !.attests = x].bound = r.bound /\ [r EXCEPT !.attests = x].live = r.live
         /\ \A x \in [Account -> Maybe(Blobs)] : [r EXCEPT !.recovery = x] \in Relays /\ [r EXCEPT !.recovery = x].recovery = x
              /\ [r EXCEPT !.recovery = x].records = r.records /\ [r EXCEPT !.recovery = x].wraps = r.wraps /\ [r EXCEPT !.recovery = x].attests = r.attests /\ [r EXCEPT !.recovery = x].first = r.first /\ [r EXCEPT !.recovery = x].bound = r.bound /\ [r EXCEPT !.recovery = x].live = r.live
         /\ \A x \in [Account -> Maybe([by : Device, ark : Maybe(Nat)])] : [r EXCEPT !.first = x] \in Relays /\ [r EXCEPT !.first = x].first = x
              /\ [r EXCEPT !.first = x].records = r.records /\ [r EXCEPT !.first = x].wraps = r.wraps /\ [r EXCEPT !.first = x].attests = r.attests /\ [r EXCEPT !.first = x].recovery = r.recovery /\ [r EXCEPT !.first = x].bound = r.bound /\ [r EXCEPT !.first = x].live = r.live
         /\ \A x \in Maybe(Account) : [r EXCEPT !.bound = x] \in Relays /\ [r EXCEPT !.bound = x].bound = x
              /\ [r EXCEPT !.bound = x].records = r.records /\ [r EXCEPT !.bound = x].wraps = r.wraps /\ [r EXCEPT !.bound = x].attests = r.attests /\ [r EXCEPT !.bound = x].recovery = r.recovery /\ [r EXCEPT !.bound = x].first = r.first /\ [r EXCEPT !.bound = x].live = r.live
         /\ \A x \in SUBSET Device : [r EXCEPT !.live = x] \in Relays /\ [r EXCEPT !.live = x].live = x
              /\ [r EXCEPT !.live = x].records = r.records /\ [r EXCEPT !.live = x].wraps = r.wraps /\ [r EXCEPT !.live = x].attests = r.attests /\ [r EXCEPT !.live = x].recovery = r.recovery /\ [r EXCEPT !.live = x].first = r.first /\ [r EXCEPT !.live = x].bound = r.bound
<1>1. \A x \in [Account -> SUBSET Device] : [r EXCEPT !.records = x] \in Relays /\ [r EXCEPT !.records = x].records = x /\ [r EXCEPT !.records = x].wraps = r.wraps /\ [r EXCEPT !.records = x].attests = r.attests /\ [r EXCEPT !.records = x].recovery = r.recovery /\ [r EXCEPT !.records = x].first = r.first /\ [r EXCEPT !.records = x].bound = r.bound /\ [r EXCEPT !.records = x].live = r.live
  BY DEF Relays
<1>2. \A x \in [Account -> [Device -> Seq(Bundles)]] : [r EXCEPT !.wraps = x] \in Relays /\ [r EXCEPT !.wraps = x].wraps = x /\ [r EXCEPT !.wraps = x].records = r.records /\ [r EXCEPT !.wraps = x].attests = r.attests /\ [r EXCEPT !.wraps = x].recovery = r.recovery /\ [r EXCEPT !.wraps = x].first = r.first /\ [r EXCEPT !.wraps = x].bound = r.bound /\ [r EXCEPT !.wraps = x].live = r.live
  BY DEF Relays
<1>3. \A x \in [Account -> Seq(Attestations)] : [r EXCEPT !.attests = x] \in Relays /\ [r EXCEPT !.attests = x].attests = x /\ [r EXCEPT !.attests = x].records = r.records /\ [r EXCEPT !.attests = x].wraps = r.wraps /\ [r EXCEPT !.attests = x].recovery = r.recovery /\ [r EXCEPT !.attests = x].first = r.first /\ [r EXCEPT !.attests = x].bound = r.bound /\ [r EXCEPT !.attests = x].live = r.live
  BY DEF Relays
<1>4. \A x \in [Account -> Maybe(Blobs)] : [r EXCEPT !.recovery = x] \in Relays /\ [r EXCEPT !.recovery = x].recovery = x /\ [r EXCEPT !.recovery = x].records = r.records /\ [r EXCEPT !.recovery = x].wraps = r.wraps /\ [r EXCEPT !.recovery = x].attests = r.attests /\ [r EXCEPT !.recovery = x].first = r.first /\ [r EXCEPT !.recovery = x].bound = r.bound /\ [r EXCEPT !.recovery = x].live = r.live
  BY DEF Relays
<1>5. \A x \in [Account -> Maybe([by : Device, ark : Maybe(Nat)])] : [r EXCEPT !.first = x] \in Relays /\ [r EXCEPT !.first = x].first = x /\ [r EXCEPT !.first = x].records = r.records /\ [r EXCEPT !.first = x].wraps = r.wraps /\ [r EXCEPT !.first = x].attests = r.attests /\ [r EXCEPT !.first = x].recovery = r.recovery /\ [r EXCEPT !.first = x].bound = r.bound /\ [r EXCEPT !.first = x].live = r.live
  BY DEF Relays
<1>6. \A x \in Maybe(Account) : [r EXCEPT !.bound = x] \in Relays /\ [r EXCEPT !.bound = x].bound = x /\ [r EXCEPT !.bound = x].records = r.records /\ [r EXCEPT !.bound = x].wraps = r.wraps /\ [r EXCEPT !.bound = x].attests = r.attests /\ [r EXCEPT !.bound = x].recovery = r.recovery /\ [r EXCEPT !.bound = x].first = r.first /\ [r EXCEPT !.bound = x].live = r.live
  BY DEF Relays
<1>7. \A x \in SUBSET Device : [r EXCEPT !.live = x] \in Relays /\ [r EXCEPT !.live = x].live = x /\ [r EXCEPT !.live = x].records = r.records /\ [r EXCEPT !.live = x].wraps = r.wraps /\ [r EXCEPT !.live = x].attests = r.attests /\ [r EXCEPT !.live = x].recovery = r.recovery /\ [r EXCEPT !.live = x].first = r.first /\ [r EXCEPT !.live = x].bound = r.bound
  BY DEF Relays
<1> QED BY <1>1, <1>2, <1>3, <1>4, <1>5, <1>6, <1>7

\* The lists of the relay only grow, and by what is written.
RelayGrows(r, q, w) ==
  /\ \A a \in Account : r.records[a] \subseteq q.records[a]
  /\ \A a \in Account : \A i \in DOMAIN r.attests[a] :
       i \in DOMAIN q.attests[a] /\ q.attests[a][i] = r.attests[a][i]
  /\ \A a \in Account, e \in Device : \A i \in DOMAIN q.wraps[a][e] :
       \/ i \in DOMAIN r.wraps[a][e] /\ q.wraps[a][e][i] = r.wraps[a][e][i]
       \/ w.at = "wrap" /\ w.acct = a /\ w.to = e /\ w.bundle = q.wraps[a][e][i]

LEMMA RelayRest ==
  ASSUME NEW r \in Relays, NEW q, NEW w, q.records = r.records, q.attests = r.attests, q.wraps = r.wraps
  PROVE  RelayGrows(r, q, w)
BY DEF RelayGrows

LEMMA RelayByRecord ==
  ASSUME relay \in Relays, NEW d \in Device, NEW a \in Account
  PROVE  LET q == device_record_put(d, a) IN
           /\ q \in Relays /\ d \in q.records[a] /\ q.attests = relay.attests /\ q.wraps = relay.wraps
           /\ \A b \in Account : relay.records[b] \subseteq q.records[b]
<1> DEFINE x == [relay.records EXCEPT ![a] = @ \cup {d}]
           q == device_record_put(d, a)
<1>1. q = [relay EXCEPT !.records = x]
  BY DEF device_record_put
<1>2. relay.records \in [Account -> SUBSET Device]
  BY RelayTypes
<1>3. x \in [Account -> SUBSET Device] /\ d \in x[a] /\ \A b \in Account : relay.records[b] \subseteq x[b]
  BY <1>2
<1> HIDE DEF x, q
<1>4. q \in Relays /\ q.records = x /\ q.attests = relay.attests /\ q.wraps = relay.wraps
  BY <1>1, <1>3, RelaySet
<1> QED BY <1>3, <1>4 DEF q

LEMMA RelayByAttest ==
  ASSUME relay \in Relays, NEW d \in Device,
         NEW w \in [at : {"attest"}, acct : Account, kind : {"trust", "revoke"}, of : Device, epoch : Nat]
  PROVE  LET q == attestation_append(d, w) IN
           /\ q \in Relays /\ q.records = relay.records /\ q.wraps = relay.wraps
           /\ \A b \in Account : \A i \in DOMAIN relay.attests[b] :
                i \in DOMAIN q.attests[b] /\ q.attests[b][i] = relay.attests[b][i]
           /\ \E j \in DOMAIN q.attests[w.acct] :
                q.attests[w.acct][j].epoch \in Nat /\ q.attests[w.acct][j].epoch >= w.epoch
<1> DEFINE v == [kind |-> w.kind, by |-> d, of |-> w.of, epoch |-> w.epoch]
           a == w.acct
           s == relay.attests[a]
           t == Append(s, v)
           x == [relay.attests EXCEPT ![a] = t]
           q == attestation_append(d, w)
<1>1. q = [relay EXCEPT !.attests = x]
  BY DEF attestation_append
<1>2. v \in Attestations /\ a \in Account /\ v.epoch = w.epoch /\ w.epoch \in Nat
  BY DEF Attestations
<1>3. relay.attests \in [Account -> Seq(Attestations)]
  BY RelayTypes
<1> HIDE DEF v, q, a
<1>4. s \in Seq(Attestations)
  BY <1>2, <1>3
<1> HIDE DEF s
<1>5. t \in Seq(Attestations) /\ Len(t) = Len(s) + 1 /\ t[Len(t)] = v /\ Len(s) \in Nat /\ \A i \in 1..Len(s) : t[i] = s[i]
  BY <1>2, <1>4
<1>6. Len(t) \in DOMAIN t /\ (\A i \in DOMAIN s : i \in DOMAIN t /\ t[i] = s[i])
  BY <1>4, <1>5
<1> HIDE DEF t
<1>7. x \in [Account -> Seq(Attestations)] /\ x[a] = t /\ \A b \in Account : b # a => x[b] = relay.attests[b]
  BY <1>2, <1>3, <1>5
<1> HIDE DEF x
<1>8. q \in Relays /\ q.attests = x /\ q.records = relay.records /\ q.wraps = relay.wraps
  BY <1>1, <1>7, RelaySet
<1>9. \A b \in Account : \A i \in DOMAIN relay.attests[b] : i \in DOMAIN x[b] /\ x[b][i] = relay.attests[b][i]
  BY <1>6, <1>7 DEF s
<1>10. Len(t) \in DOMAIN x[a] /\ x[a][Len(t)].epoch \in Nat /\ x[a][Len(t)].epoch >= w.epoch
  BY <1>2, <1>5, <1>6, <1>7
<1> QED BY <1>8, <1>9, <1>10 DEF q, a

LEMMA RelayByWrap ==
  ASSUME relay \in Relays, NEW a \in Account, NEW to \in Device, NEW b \in Bundles
  PROVE  LET q == wrapped_bundle_put(Wrap(a, to, b)) IN
           /\ q \in Relays /\ q.records = relay.records /\ q.attests = relay.attests
           /\ \A c \in Account, e \in Device : \A i \in DOMAIN q.wraps[c][e] :
                \/ i \in DOMAIN relay.wraps[c][e] /\ q.wraps[c][e][i] = relay.wraps[c][e][i]
                \/ c = a /\ e = to /\ q.wraps[c][e][i] = b
<1> DEFINE s == relay.wraps[a][to]
           t == Append(s, b)
           x == [relay.wraps EXCEPT ![a] = [relay.wraps[a] EXCEPT ![to] = t]]
           q == wrapped_bundle_put(Wrap(a, to, b))
<1>1. q = [relay EXCEPT !.wraps = x]
  BY DEF wrapped_bundle_put, Wrap
<1>2. relay.wraps \in [Account -> [Device -> Seq(Bundles)]]
  BY RelayTypes
<1> HIDE DEF q
<1>3. s \in Seq(Bundles)
  BY <1>2
<1> HIDE DEF s
<1>4. t \in Seq(Bundles) /\ \A i \in DOMAIN t : (i \in DOMAIN s /\ t[i] = s[i]) \/ t[i] = b
  BY <1>3
<1> HIDE DEF t
<1>5. x \in [Account -> [Device -> Seq(Bundles)]] /\ x[a][to] = t
      /\ \A c \in Account, e \in Device : c # a \/ e # to => x[c][e] = relay.wraps[c][e]
  BY <1>2, <1>4
<1> HIDE DEF x
<1>6. q \in Relays /\ q.wraps = x /\ q.records = relay.records /\ q.attests = relay.attests
  BY <1>1, <1>5, RelaySet
<1>7. ASSUME NEW c \in Account, NEW e \in Device, NEW i \in DOMAIN x[c][e]
      PROVE  \/ i \in DOMAIN relay.wraps[c][e] /\ x[c][e][i] = relay.wraps[c][e][i]
             \/ c = a /\ e = to /\ x[c][e][i] = b
  <2>1. CASE c = a /\ e = to
    BY <2>1, <1>4, <1>5, <1>7 DEF s
  <2>2. CASE ~(c = a /\ e = to)
    BY <2>2, <1>5, <1>7
  <2> QED BY <2>1, <2>2
<1> QED BY <1>6, <1>7 DEF q

RelayPlain(q) == q \in Relays /\ q.records = relay.records /\ q.attests = relay.attests /\ q.wraps = relay.wraps

LEMMA RelayByOthers ==
  ASSUME relay \in Relays, NEW d \in Device, local[d].ark \in Maybe(Nat)
  PROVE  /\ RelayPlain(relay)
         /\ \A a \in Account, b \in Blobs : RelayPlain(recovery_blob_put(Blob(a, b)))
         /\ \A of \in Device : RelayPlain(revoke_relay_sessions(d, of))
         /\ \A a \in Account : RelayPlain([relay EXCEPT !.bound = a])
         /\ RelayPlain([relay EXCEPT !.live = @ \cup {d}])
         /\ \A a \in Account : RelayPlain([relay EXCEPT !.first[a] = IF @ = None THEN [by |-> d, ark |-> local[d].ark] ELSE @])
<1>0. RelayPlain(relay)
  BY DEF RelayPlain
<1>1. ASSUME NEW a \in Account, NEW b \in Blobs PROVE RelayPlain(recovery_blob_put(Blob(a, b)))
  <2> DEFINE x == [relay.recovery EXCEPT ![a] = b]
             q == recovery_blob_put(Blob(a, b))
  <2>1. q = [relay EXCEPT !.recovery = x]
    BY DEF recovery_blob_put, Blob
  <2>2. relay.recovery \in [Account -> Maybe(Blobs)] /\ b \in Maybe(Blobs)
    BY RelayTypes DEF Maybe
  <2>3. x \in [Account -> Maybe(Blobs)]
    BY <2>2
  <2> HIDE DEF x, q
  <2>4. RelayPlain(q)
    BY <2>1, <2>3, RelaySet DEF RelayPlain
  <2> QED BY <2>4 DEF q
<1>2. ASSUME NEW x \in SUBSET Device PROVE RelayPlain([relay EXCEPT !.live = x])
  BY <1>2, RelaySet DEF RelayPlain
<1>3. relay.live \in SUBSET Device
  BY RelayTypes
<1>4. ASSUME NEW of \in Device PROVE RelayPlain(revoke_relay_sessions(d, of))
  <2>1. relay.live \ {of} \in SUBSET Device
    BY <1>3
  <2>2. RelayPlain([relay EXCEPT !.live = @ \ {of}])
    BY <2>1, <1>2
  <2> QED BY <2>2, <1>0 DEF revoke_relay_sessions
<1>5. RelayPlain([relay EXCEPT !.live = @ \cup {d}])
  <2>1. relay.live \cup {d} \in SUBSET Device
    BY <1>3
  <2> QED BY <2>1, <1>2
<1>6. ASSUME NEW a \in Account PROVE RelayPlain([relay EXCEPT !.bound = a])
  <2>1. a \in Maybe(Account)
    BY DEF Maybe
  <2> QED BY <2>1, RelaySet DEF RelayPlain
<1>7. ASSUME NEW a \in Account PROVE RelayPlain([relay EXCEPT !.first[a] = IF @ = None THEN [by |-> d, ark |-> local[d].ark] ELSE @])
  <2> DEFINE v == IF relay.first[a] = None THEN [by |-> d, ark |-> local[d].ark] ELSE relay.first[a]
             x == [relay.first EXCEPT ![a] = v]
  <2>1. relay.first \in [Account -> Maybe([by : Device, ark : Maybe(Nat)])]
    BY RelayTypes
  <2>2. v \in Maybe([by : Device, ark : Maybe(Nat)])
    <3>1. [by |-> d, ark |-> local[d].ark] \in [by : Device, ark : Maybe(Nat)]
      OBVIOUS
    <3> QED BY <2>1, <3>1 DEF Maybe
  <2> HIDE DEF v
  <2>3. x \in [Account -> Maybe([by : Device, ark : Maybe(Nat)])]
    BY <2>1, <2>2
  <2> HIDE DEF x
  <2>4. RelayPlain([relay EXCEPT !.first = x])
    BY <2>3, RelaySet DEF RelayPlain
  <2> QED BY <2>4 DEF x, v
<1> QED BY <1>0, <1>1, <1>4, <1>5, <1>6, <1>7

LEMMA RelayKept ==
  ASSUME TypeOK, NEW d \in Device, NEW w \in Writes
  PROVE  /\ RelayAfter(d, w) \in Relays /\ RelayGrows(relay, RelayAfter(d, w), w)
         /\ \A a \in Account : w = Record(a) => d \in RelayAfter(d, w).records[a]
         /\ w.at = "attest" =>
              \E j \in DOMAIN RelayAfter(d, w).attests[w.acct] :
                /\ RelayAfter(d, w).attests[w.acct][j].epoch \in Nat
                /\ RelayAfter(d, w).attests[w.acct][j].epoch >= w.epoch
<1> DEFINE q == RelayAfter(d, w)
<1>r. relay \in Relays /\ local[d].ark \in Maybe(Nat)
  BY DEF TypeOK, Locals
<1>0. ASSUME RelayPlain(q), w.at # "record", w.at # "attest"
      PROVE  /\ q \in Relays /\ RelayGrows(relay, q, w)
             /\ \A a \in Account : w # Record(a)
  BY <1>0, <1>r, RelayRest DEF Record, RelayPlain
<1>1. CASE w \in LocalWrites
  <2>1. w.at = "local"
    BY <1>1, LocalKinds DEF Save, Identity
  <2>2. q = relay
    BY <2>1 DEF RelayAfter
  <2> HIDE DEF q
  <2>3. RelayPlain(q)
    BY <2>2, <1>r, RelayByOthers
  <2> QED BY <1>0, <2>1, <2>3 DEF q
<1>2. CASE w \in UserWrites
  <2>1. w.at = "tell"
    BY <1>2, UserKinds DEF Tell
  <2>2. q = relay
    BY <2>1 DEF RelayAfter
  <2> HIDE DEF q
  <2>3. RelayPlain(q)
    BY <2>2, <1>r, RelayByOthers
  <2> QED BY <1>0, <2>1, <2>3 DEF q
<1>3. ASSUME NEW a \in Account, w = Record(a)
      PROVE  q \in Relays /\ RelayGrows(relay, q, w) /\ d \in q.records[a] /\ w.at # "attest"
             /\ \A b \in Account : w = Record(b) => b = a
  <2>1. q = device_record_put(d, a)
    BY <1>3, RelayEffects
  <2>2. w.at = "record" /\ \A b \in Account : w = Record(b) => b = a
    BY <1>3 DEF Record
  <2>3. /\ q \in Relays /\ d \in q.records[a] /\ q.attests = relay.attests /\ q.wraps = relay.wraps
        /\ \A b \in Account : relay.records[b] \subseteq q.records[b]
    BY <2>1, <1>r, RelayByRecord
  <2> HIDE DEF q
  <2> QED BY <2>2, <2>3 DEF RelayGrows
<1>4. ASSUME w \in [at : {"attest"}, acct : Account, kind : {"trust", "revoke"}, of : Device, epoch : Nat]
      PROVE  /\ q \in Relays /\ RelayGrows(relay, q, w) /\ \A a \in Account : w # Record(a)
             /\ \E j \in DOMAIN q.attests[w.acct] : q.attests[w.acct][j].epoch \in Nat /\ q.attests[w.acct][j].epoch >= w.epoch
  <2>1. w.at = "attest"
    BY <1>4
  <2>2. q = attestation_append(d, w)
    BY <2>1, RelayEffects
  <2>3. \A a \in Account : w # Record(a)
    BY <2>1 DEF Record
  <2>4. /\ q \in Relays /\ q.records = relay.records /\ q.wraps = relay.wraps
        /\ \A b \in Account : \A i \in DOMAIN relay.attests[b] :
             i \in DOMAIN q.attests[b] /\ q.attests[b][i] = relay.attests[b][i]
        /\ \E j \in DOMAIN q.attests[w.acct] :
             q.attests[w.acct][j].epoch \in Nat /\ q.attests[w.acct][j].epoch >= w.epoch
    BY <2>2, <1>4, <1>r, RelayByAttest
  <2> HIDE DEF q
  <2>5. RelayGrows(relay, q, w)
    BY <2>4 DEF RelayGrows
  <2> QED BY <2>3, <2>4, <2>5
<1>5. ASSUME NEW a \in Account, NEW to \in Device, NEW b \in Bundles, w = Wrap(a, to, b)
      PROVE  q \in Relays /\ RelayGrows(relay, q, w) /\ w.at = "wrap"
  <2>4. \A x, y, z : RelayAfter(d, Wrap(x, y, z)) = wrapped_bundle_put(Wrap(x, y, z))
    BY DEF RelayAfter, Wrap
  <2>1. q = wrapped_bundle_put(Wrap(a, to, b))
    BY <1>5, <2>4, Zenon
  <2>2. w.at = "wrap" /\ w.acct = a /\ w.to = to /\ w.bundle = b
    BY <1>5 DEF Wrap
  <2>3. /\ q \in Relays /\ q.records = relay.records /\ q.attests = relay.attests
        /\ \A c \in Account, e \in Device : \A i \in DOMAIN q.wraps[c][e] :
             \/ i \in DOMAIN relay.wraps[c][e] /\ q.wraps[c][e][i] = relay.wraps[c][e][i]
             \/ c = a /\ e = to /\ q.wraps[c][e][i] = b
    BY <2>1, <1>r, RelayByWrap
  <2> HIDE DEF q
  <2> QED BY <2>2, <2>3 DEF RelayGrows
<1>6. ASSUME NEW n \in Steps, NEW a \in Account, w = Step(n, a)
      PROVE  RelayPlain(q) /\ w.at # "record" /\ w.at # "attest"
  <2>1. w.at = n /\ n # "record" /\ n # "attest"
    BY <1>6 DEF Step, Steps
  <2>2. CASE n = "bind"
    <3>1. q = [relay EXCEPT !.bound = a]
      BY <1>6, <2>2, RelayEffects
    <3> HIDE DEF q
    <3> QED BY <3>1, <2>1, <1>r, RelayByOthers
  <2>3. CASE n = "login"
    <3>1. q = [relay EXCEPT !.live = @ \cup {d}]
      BY <1>6, <2>3, RelayEffects
    <3> HIDE DEF q
    <3> QED BY <3>1, <2>1, <1>r, RelayByOthers
  <2>4. CASE n = "push"
    <3>2. \A x : RelayAfter(d, Step("push", x)) = [relay EXCEPT !.first[x] = IF @ = None THEN [by |-> d, ark |-> local[d].ark] ELSE @]
      BY RelayEffects
    <3>1. q = [relay EXCEPT !.first[a] = IF @ = None THEN [by |-> d, ark |-> local[d].ark] ELSE @]
      BY <1>6, <2>4, <3>2, Zenon
    <3> HIDE DEF q
    <3> QED BY <3>1, <2>1, <1>r, RelayByOthers
  <2>5. CASE n \notin {"bind", "login", "push"}
    <3>2. \A m \in Steps : \A x : (m \notin {"bind", "login", "push"} => RelayAfter(d, Step(m, x)) = relay)
      BY RelayEffects
    <3>1. q = relay
      BY <1>6, <2>5, <3>2, Zenon
    <3> HIDE DEF q
    <3> QED BY <3>1, <2>1, <1>r, RelayByOthers
  <2> QED BY <2>2, <2>3, <2>4, <2>5
<1>7. ASSUME NEW a \in Account, NEW b \in Blobs, w = Blob(a, b)
      PROVE  RelayPlain(q) /\ w.at # "record" /\ w.at # "attest"
  <2>0. w.at = "recovery"
    BY <1>7 DEF Blob
  <2>2. \A x, y : RelayAfter(d, Blob(x, y)) = recovery_blob_put(Blob(x, y))
    BY RelayEffects
  <2>1. q = recovery_blob_put(Blob(a, b))
    BY <1>7, <2>2, Zenon
  <2> HIDE DEF q
  <2> QED BY <2>0, <2>1, <1>r, RelayByOthers
<1>8. ASSUME NEW of \in Device, w = Sessions(of)
      PROVE  RelayPlain(q) /\ w.at # "record" /\ w.at # "attest"
  <2>1. q = revoke_relay_sessions(d, of) /\ w.at = "sessions"
    BY <1>8, RelayEffects DEF Sessions
  <2> HIDE DEF q
  <2> QED BY <2>1, <1>r, RelayByOthers
<1>9. ASSUME NEW a \in Account, NEW f, w = Intend(a, f)
      PROVE  RelayPlain(q) /\ w.at # "record" /\ w.at # "attest"
  <2>1. q = relay /\ w.at = "begin"
    BY <1>9, RelayEffects DEF Intend
  <2> HIDE DEF q
  <2> QED BY <2>1, <1>r, RelayByOthers
<1> DEFINE Good == /\ q \in Relays /\ RelayGrows(relay, q, w)
                   /\ \A a \in Account : w = Record(a) => d \in q.records[a]
                   /\ w.at = "attest" => \E j \in DOMAIN q.attests[w.acct] :
                        q.attests[w.acct][j].epoch \in Nat /\ q.attests[w.acct][j].epoch >= w.epoch
<1> HIDE DEF q
<1>10. RelayPlain(q) /\ w.at # "record" /\ w.at # "attest" => Good
  BY <1>0 DEF q
<1>11. CASE w \in RelayWrites
  <2>1. CASE w \in [at : {"attest"}, acct : Account, kind : {"trust", "revoke"}, of : Device, epoch : Nat]
    BY <2>1, <1>4 DEF q
  <2>2. ASSUME NEW a \in Account, w = Record(a) PROVE Good
    BY <2>2, <1>3 DEF q
  <2>3. ASSUME NEW a \in Account, NEW to \in Device, NEW b \in Bundles, w = Wrap(a, to, b) PROVE Good
    <3>1. q \in Relays /\ RelayGrows(relay, q, w) /\ w.at = "wrap"
      BY <2>3, <1>5 DEF q
    <3> QED BY <3>1 DEF Record
  <2>4. ASSUME NEW a \in Account, NEW b \in Blobs, w = Blob(a, b) PROVE Good
    BY <2>4, <1>7, <1>10 DEF q
  <2>5. ASSUME NEW of \in Device, w = Sessions(of) PROVE Good
    BY <2>5, <1>8, <1>10 DEF q
  <2> HIDE DEF Good
  <2>6. ASSUME w \notin [at : {"attest"}, acct : Account, kind : {"trust", "revoke"}, of : Device, epoch : Nat]
        PROVE  Good
    BY <2>6, <1>11, RelayKinds, <2>2, <2>3, <2>4, <2>5
  <2> USE DEF Good, q
  <2> QED BY <2>1, <2>6, Zenon
<1>12. CASE w \in OtherWrites
  <2>1. ASSUME NEW n \in Steps, NEW a \in Account, w = Step(n, a) PROVE Good
    BY <2>1, <1>6, <1>10 DEF q
  <2>2. ASSUME NEW a \in Account, NEW f, w = Intend(a, f) PROVE Good
    BY <2>2, <1>9, <1>10 DEF q
  <2> HIDE DEF Good
  <2>3. Good
    BY <1>12, OtherKinds, <2>1, <2>2
  <2> USE DEF Good, q
  <2> QED BY <2>3, Zenon
<1>13. w \in LocalWrites \cup RelayWrites \cup UserWrites \cup OtherWrites
  BY DEF Writes
<1>14. \/ w \in LocalWrites \/ w \in RelayWrites \/ w \in UserWrites \/ w \in OtherWrites
  BY <1>13
<1> HIDE DEF Good
<1> QED BY <1>1, <1>2, <1>11, <1>12, <1>14, Zenon

LEMMA Join22 == ASSUME NEW a, NEW b, NEW c, NEW d PROVE <<a, b>> \o <<c, d>> = <<a, b, c, d>>
<1> DEFINE s == <<a, b>> \o <<c, d>>
           t == <<a, b, c, d>>
<1>1. s \in Seq({a, b, c, d}) /\ Len(s) = 4 /\ s[1] = a /\ s[2] = b /\ s[3] = c /\ s[4] = d
  OBVIOUS
<1>2. t \in Seq({a, b, c, d}) /\ Len(t) = 4 /\ t[1] = a /\ t[2] = b /\ t[3] = c /\ t[4] = d
  OBVIOUS
<1> HIDE DEF s, t
<1>3. \A i \in 1..4 : s[i] = t[i]
  BY <1>1, <1>2
<1>4. s = t
  BY <1>1, <1>2, <1>3
<1> QED BY <1>4 DEF s, t

Bound(l, a, e) == [l EXCEPT !.db = a, !.server = TRUE, !.epoch = e]

LEMMA LocalSaves ==
  ASSUME NEW d, local[d] \in Locals
  PROVE  /\ LocalAfter(d, Save([keys |-> TRUE])) = [local[d] EXCEPT !.keys = TRUE]
         /\ \A k : LocalAfter(d, Save([ark |-> k])) = [local[d] EXCEPT !.ark = k]
         /\ \A k : LocalAfter(d, Save([id |-> k])) = [local[d] EXCEPT !.id = k]
         /\ \A k : LocalAfter(d, Save([capture |-> k])) = [local[d] EXCEPT !.capture = k]
         /\ \A k : LocalAfter(d, Save([epoch |-> k])) = [local[d] EXCEPT !.epoch = k]
         /\ \A a, e : LocalAfter(d, Identity(a, e)) = Bound(local[d], a, e)
<1>1. \A f : LocalAfter(d, Save(f)) = Overwritten(local[d], f)
  BY LocalEffects
<1>2. \A a, e : LocalAfter(d, Identity(a, e)) = Overwritten(local[d], [db |-> a, server |-> TRUE, epoch |-> e])
  BY LocalEffects
<1> DEFINE l == local[d]
<1>3. l \in Locals
  OBVIOUS
<1> HIDE DEF l
<1>4. Overwritten(l, [keys |-> TRUE]) = [l EXCEPT !.keys = TRUE]
  BY <1>3, Overwriting, Zenon
<1>5. \A k : Overwritten(l, [ark |-> k]) = [l EXCEPT !.ark = k]
  BY <1>3, Overwriting, Zenon
<1>6. \A k : Overwritten(l, [id |-> k]) = [l EXCEPT !.id = k]
  BY <1>3, Overwriting, Zenon
<1>7. \A k : Overwritten(l, [capture |-> k]) = [l EXCEPT !.capture = k]
  BY <1>3, Overwriting, Zenon
<1>8. \A k : Overwritten(l, [epoch |-> k]) = [l EXCEPT !.epoch = k]
  BY <1>3, Overwriting, Zenon
<1> USE DEF l
<1>10. LocalAfter(d, Save([keys |-> TRUE])) = [local[d] EXCEPT !.keys = TRUE]
  BY <1>1, <1>4, Zenon
<1>11. \A k : LocalAfter(d, Save([ark |-> k])) = [local[d] EXCEPT !.ark = k]
  BY <1>1, <1>5, Zenon
<1>12. \A k : LocalAfter(d, Save([id |-> k])) = [local[d] EXCEPT !.id = k]
  BY <1>1, <1>6, Zenon
<1>13. \A k : LocalAfter(d, Save([capture |-> k])) = [local[d] EXCEPT !.capture = k]
  BY <1>1, <1>7, Zenon
<1>14. \A k : LocalAfter(d, Save([epoch |-> k])) = [local[d] EXCEPT !.epoch = k]
  BY <1>1, <1>8, Zenon
<1>15. \A a, e : LocalAfter(d, Identity(a, e)) = Bound(local[d], a, e)
  <2>1. \A x, y : Overwritten(l, [db |-> x, server |-> TRUE, epoch |-> y]) = [l EXCEPT !.db = x, !.server = TRUE, !.epoch = y]
    BY <1>3, Overwriting, Zenon
  <2>2. \A x, y : Overwritten(l, [db |-> x, server |-> TRUE, epoch |-> y]) = Bound(l, x, y)
    BY <2>1, Zenon DEF Bound
  <2> QED BY <1>2, <2>2
<1> QED BY <1>10, <1>11, <1>12, <1>13, <1>14, <1>15

-----------------------------------------------------------------------------
(* A write leaves a device that holds what it should, and a plan that fits. *)

LEMMA ActivatedIs ==
  ASSUME NEW l \in Locals, NEW a
  PROVE  /\ Activated(l, a) = [l EXCEPT !.db = a, !.server = TRUE, !.intent = [l.intent EXCEPT !.active = TRUE]]
         /\ l.intent # None => /\ l.intent \in Intents /\ [l.intent EXCEPT !.active = TRUE] \in Intents
                               /\ [l.intent EXCEPT !.active = TRUE].acct = l.intent.acct
<1>1. Activated(l, a) = [l EXCEPT !.db = a, !.server = TRUE, !.intent = [l.intent EXCEPT !.active = TRUE]]
  BY DEF Activated
<1>2. ASSUME l.intent # None
      PROVE  /\ l.intent \in Intents /\ [l.intent EXCEPT !.active = TRUE] \in Intents
             /\ [l.intent EXCEPT !.active = TRUE].acct = l.intent.acct
  <2>1. l.intent \in Intents
    BY <1>2 DEF Locals, Maybe
  <2>2. \A i \in Intents : [i EXCEPT !.active = TRUE] \in Intents /\ [i EXCEPT !.active = TRUE].acct = i.acct
    BY DEF Intents
  <2> QED BY <2>1, <2>2
<1> QED BY <1>1, <1>2

LEMMA EpochGoes ==
  ASSUME NEW h, NEW d \in Device, NEW l \in Locals, Holds(h, d, l), NEW a \in Account, NEW e \in Nat,
         Fits(h, d, l, Step("epoch", a), {})
  PROVE  LET p == Rooted(d, a, e) \o <<Identity(a, e), Step("adopt", a)>>
         IN  p \in Seq(Writes) /\ Goes(h, d, l, p)
<1> DEFINE w1 == Record(a)
           w2 == Trust(a, d, e)
           w3 == Identity(a, e)
           w4 == Step("adopt", a)
<1>1. Rooted(d, a, e) \o <<w3, w4>> = <<w1, w2, w3, w4>>
  <2> HIDE DEF w3, w4
  <2>1. <<w1, w2>> \o <<w3, w4>> = <<w1, w2, w3, w4>>
    BY Join22
  <2> QED BY <2>1 DEF Rooted
<1>2. w1 \in Writes /\ w2 \in Writes /\ w3 \in Writes /\ w4 \in Writes
  <2>1. w1 \in RelayWrites
    BY DEF RelayWrites
  <2>2. w2 \in RelayWrites
    BY DEF RelayWrites, Trust
  <2>3. w3 \in LocalWrites
    BY DEF LocalWrites
  <2>4. w4 \in OtherWrites
    BY DEF OtherWrites, Steps
  <2> QED BY <2>1, <2>2, <2>3, <2>4 DEF Writes
<1>3. HasId(l, a, {}) /\ HasKeys(l, {}) /\ HasRoot(l, {}) /\ Intended(l, a, {})
  BY DEF Fits, BindingFits
<1>4. w2.at = "attest" /\ w2.acct = a /\ w2.epoch = e
  BY DEF Trust
<1>5. \A b : /\ Save([id |-> b]) # w1 /\ Save([id |-> b]) # w2
             /\ \A f : Intend(b, f) # w1 /\ Intend(b, f) # w2
  BY DEF Save, Record, Trust, Intend
<1>6. \A b : ~BindsTo(w1, b) /\ ~BindsTo(w2, b) /\ (b \in Account /\ BindsTo(w3, b) => b = a)
  BY DEF BindsTo, Step, Identity, Save, Record, Trust
<1> HIDE DEF w1, w2, w3, w4
<1>7. Fits(h, d, l, w1, {})
  BY <1>3, FitsRecord DEF w1
<1>8. Fits(h, d, l, w2, {} \cup {w1})
  BY <1>4, FitsPlain
<1>9. Fits(h, d, l, w3, {} \cup {w1, w2})
  <2>1. HasId(l, a, {w1, w2}) /\ HasKeys(l, {w1, w2}) /\ HasRoot(l, {w1, w2})
    BY <1>3, <1>5 DEF HasId, HasKeys, HasRoot
  <2>2. Intended(l, a, {w1, w2})
    BY <1>3, <1>5 DEF Intended, Intent
  <2>3. Listed(h, d, a, {w1, w2})
    BY DEF Listed, w1
  <2>4. Attesting(h, a, e, {w1, w2})
    BY <1>4 DEF Attesting
  <2>5. Fits(h, d, l, w3, {w1, w2})
    BY <2>1, <2>2, <2>3, <2>4, FitsIdentity DEF w3
  <2> QED BY <2>5
<1>10. Fits(h, d, l, w4, {} \cup {w1, w2, w3})
  <2>1. \E k \in Nat : Identity(a, k) \in {w1, w2, w3}
    BY DEF w3
  <2>2. Fits(h, d, l, w4, {w1, w2, w3})
    BY <2>1, <1>6, FitsAdopt DEF w4
  <2> QED BY <2>2
<1>11. AllFit(h, d, l, <<w1, w2, w3, w4>>, {})
  BY <1>2, <1>7, <1>8, <1>9, <1>10, FitsFour
<1>12. <<w1, w2, w3, w4>> \in Seq(Writes)
  BY <1>2
<1> QED BY <1>1, <1>11, <1>12 DEF Goes, w1, w2, w3, w4

LEMMA ApartWrites ==
  /\ \A a, to, b : Apart(Wrap(a, to, b))
  /\ \A a, b : Apart(Blob(a, b))
  /\ \A of : Apart(Sessions(of))
  /\ \A x, y : Apart(Tell(x, y))
  /\ \A n \in Steps : \A a : Apart(Step(n, a))
<1>1. \A a, to, b : Apart(Wrap(a, to, b))
  BY DEF Apart, Save, Identity, Record, Intend, Wrap
<1>2. \A a, b : Apart(Blob(a, b))
  BY DEF Apart, Save, Identity, Record, Intend, Blob
<1>3. \A of : Apart(Sessions(of))
  BY DEF Apart, Save, Identity, Record, Intend, Sessions
<1>4. \A x, y : Apart(Tell(x, y))
  BY DEF Apart, Save, Identity, Record, Intend, Tell
<1>5. \A n \in Steps : \A a : Apart(Step(n, a))
  BY DEF Apart, Save, Identity, Record, Intend, Step, Steps
<1> QED BY <1>1, <1>2, <1>3, <1>4, <1>5

\* h is what is shared once the write is done.
Done(h, d, w) ==
  /\ \A a \in Account : w = Record(a) => d \in h.records[a]
  /\ w.at = "attest" =>
       \E j \in DOMAIN h.attests[w.acct] :
         h.attests[w.acct][j].epoch \in Nat /\ h.attests[w.acct][j].epoch >= w.epoch

LEMMA PerformGoes ==
  ASSUME TypeOK, NEW d \in Device, plan[d] # <<>>, NEW h, NEW w, w = Head(plan[d]),
         Goes(h, d, local[d], plan[d]), Done(h, d, w), Allowed(d, w)
  PROVE  /\ PlanAfter(d, w) \in Seq(Writes)
         /\ Goes(h, d, LocalAfter(d, w), PlanAfter(d, w))
<1> DEFINE l == local[d]
           p == plan[d]
           t == Tail(p)
           m == LocalAfter(d, w)
<1>1. p \in Seq(Writes) /\ p # <<>> /\ l \in Locals /\ Goes(h, d, l, p) /\ Head(p) = w
  BY DEF TypeOK
<1>2. w \in Writes /\ Fits(h, d, l, w, {}) /\ Holds(h, d, l) /\ t \in Seq(Writes)
  BY <1>1, HeadFits DEF Goes
<1>3. w.at # "epoch" => PlanAfter(d, w) = t
  BY DEF PlanAfter
<1> HIDE DEF p, t
<1>4. ASSUME w \in LocalWrites PROVE w.at # "epoch" /\ Goes(h, d, m, t)
  <2>0. w.at = "local"
    BY <1>4, LocalKinds DEF Save, Identity
  <2>1. ASSUME w = Save([keys |-> TRUE]) PROVE Goes(h, d, m, t)
    <3>1. m = [l EXCEPT !.keys = TRUE]
      BY <2>1, <1>1, LocalSaves
    <3> HIDE DEF m
    <3> QED BY <3>1, <2>1, <1>1, DoKeysSave DEF t
  <2>2. ASSUME NEW k \in Nat, w = Save([ark |-> k]) PROVE Goes(h, d, m, t)
    <3>2. \A x : LocalAfter(d, Save([ark |-> x])) = [local[d] EXCEPT !.ark = x]
      BY <1>1, LocalSaves
    <3>1. m = [l EXCEPT !.ark = k]
      BY <2>2, <3>2, Zenon
    <3> HIDE DEF m
    <3> QED BY <3>1, <2>2, <1>1, DoRootSave DEF t
  <2>3. ASSUME NEW a \in Account, w = Save([id |-> a]) PROVE Goes(h, d, m, t)
    <3>2. \A x : LocalAfter(d, Save([id |-> x])) = [local[d] EXCEPT !.id = x]
      BY <1>1, LocalSaves
    <3>1. m = [l EXCEPT !.id = a]
      BY <2>3, <3>2, Zenon
    <3> HIDE DEF m
    <3> QED BY <3>1, <2>3, <1>1, DoIdSave DEF t
  <2>4. ASSUME NEW b \in Blobs, w = Save([capture |-> b]) PROVE Goes(h, d, m, t)
    <3>2. \A x : LocalAfter(d, Save([capture |-> x])) = [local[d] EXCEPT !.capture = x]
      BY <1>1, LocalSaves
    <3>1. m = [l EXCEPT !.capture = b]
      BY <2>4, <3>2, Zenon
    <3> HIDE DEF m
    <3> QED BY <3>1, <2>4, <1>1, DoCaptureSave DEF t
  <2>5. ASSUME NEW e \in Nat, w = Save([epoch |-> e]) PROVE Goes(h, d, m, t)
    <3>2. \A x : LocalAfter(d, Save([epoch |-> x])) = [local[d] EXCEPT !.epoch = x]
      BY <1>1, LocalSaves
    <3>1. m = [l EXCEPT !.epoch = e]
      BY <2>5, <3>2, Zenon
    <3> HIDE DEF m
    <3> QED BY <3>1, <2>5, <1>1, DoEpochSave DEF t
  <2>6. ASSUME NEW a \in Account, NEW e \in Nat, w = Identity(a, e) PROVE Goes(h, d, m, t)
    <3>3. \A x, y : LocalAfter(d, Identity(x, y)) = Bound(local[d], x, y)
      BY <1>1, LocalSaves
    <3>1. m = Bound(l, a, e)
      BY <2>6, <3>3, Zenon
    <3> HIDE DEF m
    <3>2. Goes(h, d, Bound(l, a, e), t)
      BY <2>6, <1>1, DoIdentity DEF t, Bound
    <3> QED BY <3>1, <3>2
  <2> HIDE DEF m
  <2> QED BY <1>4, <2>0, LocalKinds, <2>1, <2>2, <2>3, <2>4, <2>5, <2>6
<1>5. ASSUME Apart(w), m = l PROVE Goes(h, d, m, t)
  BY <1>1, <1>5, DoNothing DEF t
<1>6. ASSUME w \in UserWrites PROVE w.at # "epoch" /\ Goes(h, d, m, t)
  <2>1. PICK x, y : w = Tell(x, y)
    BY <1>6, UserKinds
  <2>2. Apart(w) /\ m = l /\ w.at = "tell"
    BY <2>1, ApartWrites, LocalEffects DEF Tell
  <2> QED BY <2>2, <1>5
<1>7. ASSUME w \in RelayWrites PROVE w.at # "epoch" /\ Goes(h, d, m, t)
  <2>1. ASSUME NEW a \in Account, w = Record(a) PROVE w.at # "epoch" /\ Goes(h, d, m, t)
    <3>1. w.at = "record" /\ w.acct = a
      BY <2>1 DEF Record
    <3>2. Access(d, a)
      BY <3>1 DEF Allowed
    <3>3. l.intent = None \/ l.intent.acct = l.id
      BY <3>2 DEF Access
    <3>4. m = l
      BY <2>1, LocalEffects
    <3>5. d \in h.records[a]
      BY <2>1 DEF Done
    <3> HIDE DEF m
    <3> QED BY <3>1, <3>3, <3>4, <3>5, <2>1, <1>1, DoRecord DEF t
  <2>2. ASSUME w \in [at : {"attest"}, acct : Account, kind : {"trust", "revoke"}, of : Device, epoch : Nat]
        PROVE  w.at # "epoch" /\ Goes(h, d, m, t)
    <3>1. w.at = "attest" /\ w.acct \in Account /\ w.epoch \in Nat
      BY <2>2
    <3>2. m = l
      BY <3>1, LocalEffects
    <3>3. \E j \in DOMAIN h.attests[w.acct] : h.attests[w.acct][j].epoch \in Nat /\ h.attests[w.acct][j].epoch >= w.epoch
      BY <3>1 DEF Done
    <3> HIDE DEF m
    <3> QED BY <3>1, <3>2, <3>3, <1>1, DoAttest DEF t
  <2>3. ASSUME NEW a \in Account, NEW to \in Device, NEW b \in Bundles, w = Wrap(a, to, b) PROVE w.at # "epoch" /\ Goes(h, d, m, t)
    <3>1. Apart(w) /\ m = l /\ w.at = "wrap"
      BY <2>3, ApartWrites, LocalEffects DEF Wrap
    <3> QED BY <3>1, <1>5
  <2>4. ASSUME NEW a \in Account, NEW b \in Blobs, w = Blob(a, b) PROVE w.at # "epoch" /\ Goes(h, d, m, t)
    <3>1. Apart(w) /\ m = l /\ w.at = "recovery"
      BY <2>4, ApartWrites, LocalEffects DEF Blob
    <3> QED BY <3>1, <1>5
  <2>5. ASSUME NEW of \in Device, w = Sessions(of) PROVE w.at # "epoch" /\ Goes(h, d, m, t)
    <3>1. Apart(w) /\ m = l /\ w.at = "sessions"
      BY <2>5, ApartWrites, LocalEffects DEF Sessions
    <3> QED BY <3>1, <1>5
  <2> HIDE DEF m
  <2> QED BY <1>7, RelayKinds, <2>1, <2>2, <2>3, <2>4, <2>5
<1>8. ASSUME NEW a \in Account, NEW f \in {"create", "join", "attach"}, w = Intend(a, f)
      PROVE  w.at # "epoch" /\ Goes(h, d, m, t)
  <2>1. w.at = "begin" /\ w.acct = a /\ w.flow = f
    BY <1>8 DEF Intend
  <2>2. begin_remote_binding(d, a, f)
    BY <2>1 DEF Allowed
  <2>3. l.db \in {None, a} /\ (l.intent # None => l.intent.acct = a)
    BY <2>2 DEF begin_remote_binding
  <2>4. CASE l.intent = None
    <3> DEFINE i == [flow |-> f, acct |-> a, active |-> FALSE]
    <3>1. i \in Intents /\ i.acct = a /\ ~i.active
      BY DEF Intents
    <3>3. \A x, y : local[d].intent = None => LocalAfter(d, Intend(x, y)) = [local[d] EXCEPT !.intent = [flow |-> y, acct |-> x, active |-> FALSE]]
      BY LocalEffects
    <3>2. m = [l EXCEPT !.intent = i]
      BY <1>8, <2>4, <3>3, Zenon
    <3> HIDE DEF m, i
    <3> QED BY <3>1, <3>2, <2>1, <2>3, <2>4, <1>8, <1>1, DoBegin DEF t
  <2>5. CASE l.intent # None
    <3>1. m = l
      BY <1>8, <2>5, LocalEffects
    <3> HIDE DEF m
    <3> QED BY <3>1, <2>1, <2>3, <2>5, <1>8, <1>1, DoBeginAgain DEF t
  <2> QED BY <2>4, <2>5
<1>9. ASSUME NEW n \in Steps, NEW a \in Account, w = Step(n, a), n # "epoch"
      PROVE  w.at # "epoch" /\ Goes(h, d, m, t)
  <2>1. w.at = n /\ w.acct = a
    BY <1>9 DEF Step
  <2>2. CASE n = "session"
    <3>1. m = [l EXCEPT !.session = a]
      BY <1>9, <2>2, LocalEffects
    <3> HIDE DEF m
    <3> QED BY <3>1, <2>1, <2>2, <1>9, <1>1, DoSession DEF t
  <2>3. CASE n = "activate"
    <3>1. m = Activated(l, a)
      BY <1>9, <2>3, LocalEffects
    <3>2. l.db \in {None, a}
      BY <2>1, <2>3 DEF Allowed
    <3>3. l.intent # None
      BY <1>2, <1>9, <2>3 DEF Fits, IntentFits, Intent
    <3> DEFINE i == [l.intent EXCEPT !.active = TRUE]
    <3>4. i \in Intents /\ i.acct = l.intent.acct /\ m = [l EXCEPT !.db = a, !.server = TRUE, !.intent = i]
      BY <3>1, <3>3, <1>1, ActivatedIs
    <3> HIDE DEF m, i
    <3> QED BY <3>2, <3>4, <2>1, <2>3, <1>9, <1>1, DoActivate DEF t
  <2>4. CASE n = "adopt"
    <3>1. m = IF Adoptable(d) THEN Activated(l, a) ELSE l
      BY <1>9, <2>4, LocalEffects
    <3>2. CASE Adoptable(d)
      <4>1. l.intent # None
        BY <3>2 DEF Adoptable
      <4> DEFINE i == [l.intent EXCEPT !.active = TRUE]
      <4>2. i \in Intents /\ i.acct = l.intent.acct /\ m = [l EXCEPT !.db = a, !.server = TRUE, !.intent = i]
        BY <3>1, <3>2, <4>1, <1>1, ActivatedIs
      <4> HIDE DEF m, i
      <4> QED BY <4>1, <4>2, <2>1, <2>4, <1>9, <1>1, DoAdopt DEF t
    <3>3. CASE ~Adoptable(d)
      <4>1. m = l
        BY <3>1, <3>3
      <4> HIDE DEF m
      <4> QED BY <4>1, <2>1, <2>4, <1>9, <1>1, DoAdoptNothing DEF t
    <3> QED BY <3>2, <3>3
  <2>5. CASE n \notin {"session", "activate", "adopt"}
    <3>1. \A o \in Steps : \A x : (o \notin {"session", "activate", "adopt"} => LocalAfter(d, Step(o, x)) = local[d])
      BY LocalEffects
    <3>2. m = l
      BY <1>9, <2>5, <3>1, Zenon
    <3>3. Apart(w)
      BY <1>9, ApartWrites
    <3> QED BY <3>2, <3>3, <2>1, <1>9, <1>5
  <2> QED BY <2>2, <2>3, <2>4, <2>5
<1>10. ASSUME NEW a \in Account, w = Step("epoch", a)
       PROVE  /\ PlanAfter(d, w) \in Seq(Writes)
              /\ Goes(h, d, m, PlanAfter(d, w))
  <2> DEFINE e == current_epoch(a)
  <2>1. w.at = "epoch" /\ w.acct = a
    BY <1>10 DEF Step
  <2>2. PlanAfter(d, w) = Rooted(d, a, e) \o <<Identity(a, e), Step("adopt", a)>>
    BY <2>1 DEF PlanAfter
  <2>3. m = l
    <3>1. "epoch" \in Steps /\ "epoch" \notin {"session", "activate", "adopt"}
      BY DEF Steps
    <3> QED BY <1>10, <3>1, LocalEffects
  <2>4. e \in Nat
    BY GreatestEpoch
  <2> HIDE DEF e, m
  <2> QED BY <2>2, <2>3, <2>4, <1>1, <1>2, <1>10, EpochGoes
<1> HIDE DEF m
<1>11. ASSUME w.at # "epoch", Goes(h, d, m, t)
       PROVE  PlanAfter(d, w) \in Seq(Writes) /\ Goes(h, d, m, PlanAfter(d, w))
  BY <1>2, <1>3, <1>11
<1>12. ASSUME w \in OtherWrites
       PROVE  PlanAfter(d, w) \in Seq(Writes) /\ Goes(h, d, m, PlanAfter(d, w))
  BY <1>12, OtherKinds, <1>8, <1>9, <1>10, <1>11
<1>13. \/ w \in LocalWrites \/ w \in RelayWrites \/ w \in UserWrites \/ w \in OtherWrites
  BY <1>2 DEF Writes
<1> QED BY <1>4, <1>6, <1>7, <1>11, <1>12, <1>13 DEF m

-----------------------------------------------------------------------------
(* Steps. *)

LEMMA GrowsGoes ==
  ASSUME NEW g, NEW h, Grows(g, h), NEW d, NEW l \in Locals, NEW p \in Seq(Writes), Goes(g, d, l, p)
  PROVE  Goes(h, d, l, p)
BY GrowsHolds, GrowsAllFit DEF Goes

LEMMA GoesEmpty ==
  ASSUME NEW g, NEW d, NEW l \in Locals, Holds(g, d, l)
  PROVE  Goes(g, d, l, <<>>)
BY FitsNil DEF Goes

\* What a step of device d has to show.
LEMMA StepKeeps ==
  ASSUME Inv, TypeOK', NEW d \in Device, NEW g, NEW h, g = Shared, h = Shared', Grows(g, h),
         \A e \in Device \ {d} : local'[e] = local[e] /\ plan'[e] = plan[e],
         NEW m, NEW q, m = local'[d], q = plan'[d], Goes(h, d, m, q),
         \A a \in Account, e \in Device : \A i \in DOMAIN relay'.wraps[a][e] :
           \/ i \in DOMAIN relay.wraps[a][e] /\ relay'.wraps[a][e][i] = relay.wraps[a][e][i]
           \/ Deliverable(h, a, e, relay'.wraps[a][e][i])
  PROVE  Inv'
<1>1. \A e \in Device : \A l, p : l = local'[e] /\ p = plan'[e] => Goes(h, e, l, p)
  <2> SUFFICES ASSUME NEW e \in Device, NEW l, NEW p, l = local'[e], p = plan'[e] PROVE Goes(h, e, l, p)
    OBVIOUS
  <2>1. CASE e = d
    BY <2>1
  <2>2. CASE e # d
    <3>1. l = local[e] /\ p = plan[e]
      BY <2>2
    <3>2. Goes(g, e, l, p) /\ l \in Locals /\ p \in Seq(Writes)
      BY <3>1 DEF Inv, DevicesFit, TypeOK
    <3> QED BY <3>2, GrowsGoes
  <2> QED BY <2>1, <2>2
<1>2. DevicesFit'
  BY <1>1 DEF DevicesFit
<1>3. \A a \in Account, e \in Device : \A s : s = relay'.wraps[a][e] => \A i \in DOMAIN s : Deliverable(h, a, e, s[i])
  <2> SUFFICES ASSUME NEW a \in Account, NEW e \in Device, NEW s, s = relay'.wraps[a][e], NEW i \in DOMAIN s
               PROVE  Deliverable(h, a, e, s[i])
    OBVIOUS
  <2>1. CASE i \in DOMAIN relay.wraps[a][e] /\ s[i] = relay.wraps[a][e][i]
    <3> DEFINE b == relay.wraps[a][e][i]
    <3>0. relay.wraps \in [Account -> [Device -> Seq(Bundles)]]
      BY RelayTypes DEF Inv, TypeOK
    <3>1. relay.wraps[a][e] \in Seq(Bundles)
      BY <3>0
    <3>2. b \in Bundles
      BY <2>1, <3>1
    <3>3. Deliverable(g, a, e, b)
      BY <2>1 DEF Inv, BundlesFit
    <3>4. b.kind = "enrollment" => b.epoch \in Nat
      BY <3>2 DEF Bundles
    <3> HIDE DEF b
    <3>5. Deliverable(h, a, e, b)
      BY <3>3, <3>4 DEF Deliverable, Covered, Excused, Grows
    <3> QED BY <2>1, <3>5 DEF b
  <2>2. CASE Deliverable(h, a, e, s[i])
    BY <2>2
  <2> QED BY <2>1, <2>2
<1>4. BundlesFit'
  BY <1>3 DEF BundlesFit
<1> QED BY <1>2, <1>4 DEF Inv

\* A step of d by which the relay and the devices stay as they are.
LEMMA PlanChanges ==
  ASSUME Inv, NEW d \in Device, NEW h, h = Shared', NEW q, NEW l, l = local[d],
         UNCHANGED <<authenticated, relay, local, user>>, plan' = [plan EXCEPT ![d] = q], q \in Seq(Writes),
         minted' \in 0..MaxMinted, mixed' \in SUBSET Account, carried' \in SUBSET Account, unlisted' \in SUBSET Device,
         mixed \subseteq mixed', carried \subseteq carried', unlisted \subseteq unlisted',
         Holds(h, d, l) => AllFit(h, d, l, q, {})
  PROVE  Inv'
<1>1. TypeOK'
  BY DEF Inv, TypeOK
<1> DEFINE g == Shared
<1>2. Grows(g, h)
  BY DEF Grows, Shared
<1> HIDE DEF g
<1>3. l \in Locals /\ Goes(g, d, l, plan[d])
  BY DEF Inv, DevicesFit, TypeOK, g
<1>4. Holds(h, d, l)
  BY <1>2, <1>3, GrowsHolds DEF Goes
<1>5. Goes(h, d, l, q)
  BY <1>3, <1>4 DEF Goes
<1>6. plan \in [Device -> Seq(Writes)]
  BY DEF Inv, TypeOK
<1>7. l = local'[d] /\ q = plan'[d] /\ \A e \in Device \ {d} : local'[e] = local[e] /\ plan'[e] = plan[e]
  BY <1>6
<1>8. \A a \in Account, e \in Device : \A i \in DOMAIN relay'.wraps[a][e] :
        i \in DOMAIN relay.wraps[a][e] /\ relay'.wraps[a][e][i] = relay.wraps[a][e][i]
  OBVIOUS
<1> QED BY <1>1, <1>2, <1>5, <1>7, <1>8, StepKeeps DEF g

LEMMA PlanDropped ==
  ASSUME Inv, NEW d \in Device, Refused(d) \/ Killed(d)
  PROVE  Inv'
<1>1. PICK h : h = Shared'
  OBVIOUS
<1>2. PICK l : l = local[d]
  OBVIOUS
<1>3. plan' = [plan EXCEPT ![d] = <<>>] /\ UNCHANGED <<authenticated, relay, local, user, mixed, carried, unlisted, minted>>
  BY DEF Refused, Killed, history, counters
<1>4. <<>> \in Seq(Writes) /\ AllFit(h, d, l, <<>>, {})
  BY FitsNil
<1>5. minted' \in 0..MaxMinted /\ mixed' \in SUBSET Account /\ carried' \in SUBSET Account /\ unlisted' \in SUBSET Device
  BY <1>3 DEF Inv, TypeOK
<1> QED BY <1>1, <1>2, <1>3, <1>4, <1>5, PlanChanges

LEMMA ContentSaved ==
  ASSUME Inv, NEW d \in Device, SaveItem(d)
  PROVE  Inv'
<1> DEFINE l == local[d]
           m == [l EXCEPT !.content = TRUE]
           g == Shared
           p == plan[d]
<1>1. /\ local' = [local EXCEPT ![d] = m]
      /\ UNCHANGED <<authenticated, relay, plan, user, mixed, carried, unlisted, minted>>
  BY DEF SaveItem, history
<1>2. l \in Locals /\ p \in Seq(Writes) /\ local \in [Device -> Locals]
  BY DEF Inv, TypeOK
<1>3. Goes(g, d, l, p)
  BY DEF Inv, DevicesFit
<1> HIDE DEF l, g, p
<1>4. /\ m \in Locals /\ m.id = l.id /\ m.keys = l.keys /\ m.ark = l.ark /\ m.session = l.session /\ m.db = l.db
      /\ m.server = l.server /\ m.epoch = l.epoch /\ m.intent = l.intent
  BY <1>2 DEF Locals
<1> HIDE DEF m
<1>5. Holds(g, d, m)
  BY <1>3, <1>4, HoldsSame DEF Goes
<1>6. AllFit(g, d, m, p, {})
  BY <1>3, <1>4, SameFits DEF Goes, AllFit
<1>7. Goes(g, d, m, p)
  BY <1>4, <1>5, <1>6 DEF Goes
<1>8. TypeOK'
  BY <1>1, <1>2, <1>4 DEF Inv, TypeOK
<1>9. g = Shared' /\ Grows(g, g)
  BY <1>1 DEF g, Shared, Grows
<1>10. m = local'[d] /\ p = plan'[d] /\ \A e \in Device \ {d} : local'[e] = local[e] /\ plan'[e] = plan[e]
  BY <1>1, <1>2 DEF p
<1>11. \A a \in Account, e \in Device : \A i \in DOMAIN relay'.wraps[a][e] :
        i \in DOMAIN relay.wraps[a][e] /\ relay'.wraps[a][e][i] = relay.wraps[a][e][i]
  BY <1>1
<1>12. g = Shared
  BY DEF g
<1> QED BY <1>7, <1>8, <1>9, <1>10, <1>11, <1>12, StepKeeps

LEMMA WriteDone ==
  ASSUME Inv, NEW d \in Device, Perform(d)
  PROVE  Inv'
<1> DEFINE w == Head(plan[d])
           r == RelayAfter(d, w)
           m == LocalAfter(d, w)
           q == PlanAfter(d, w)
           g == Shared
           h == [records |-> r.records, attests |-> r.attests, mixed |-> mixed, carried |-> carried, unlisted |-> unlisted]
           l == local[d]
           p == plan[d]
<1>1. /\ p # <<>> /\ Allowed(d, w) /\ relay' = r /\ local' = [local EXCEPT ![d] = m] /\ plan' = [plan EXCEPT ![d] = q]
      /\ user' = IF w.at = "tell" THEN [user EXCEPT ![w.what] = @ \cup {w.is}] ELSE user
      /\ UNCHANGED <<authenticated, mixed, carried, unlisted, minted>>
  BY DEF Perform, history, counters
<1>2. TypeOK /\ local \in [Device -> Locals] /\ plan \in [Device -> Seq(Writes)] /\ p \in Seq(Writes) /\ l \in Locals
  BY DEF Inv, TypeOK
<1>3. w \in Writes
  BY <1>1, <1>2
<1>4. Goes(g, d, l, p)
  BY DEF Inv, DevicesFit
<1>5. g.records = relay.records /\ g.attests = relay.attests /\ g.mixed = mixed /\ g.carried = carried /\ g.unlisted = unlisted
  BY DEF Shared
<1>6. /\ h.records = r.records /\ h.attests = r.attests /\ h.mixed = mixed /\ h.carried = carried /\ h.unlisted = unlisted
      /\ h = [records |-> r.records, attests |-> r.attests, mixed |-> mixed, carried |-> carried, unlisted |-> unlisted]
  BY DEF Shared
<1>7. h = Shared'
  BY <1>1, <1>6 DEF Shared
<1>8. g = Shared
  OBVIOUS
<1> HIDE DEF g, h
<1>9. r \in Relays /\ RelayGrows(relay, r, w) /\ Done(h, d, w)
  BY <1>2, <1>3, <1>6, RelayKept DEF Done
<1>10. Grows(g, h)
  <2>1. \A a \in Account : g.records[a] \subseteq h.records[a]
    BY <1>5, <1>6, <1>9 DEF RelayGrows
  <2>2. \A a \in Account : \A e \in Nat : Attested(g.attests[a], e) => Attested(h.attests[a], e)
    BY <1>5, <1>6, <1>9 DEF RelayGrows, Attested
  <2> QED BY <2>1, <2>2, <1>5, <1>6 DEF Grows
<1>11. Goes(h, d, l, p)
  BY <1>2, <1>4, <1>10, GrowsGoes
<1>12. q \in Seq(Writes) /\ Goes(h, d, m, q)
  BY <1>1, <1>2, <1>9, <1>11, PerformGoes
<1>13. Deliverable(h, w.acct, w.to, w.bundle) \/ w.at # "wrap"
  <2>1. Fits(h, d, l, w, {})
    BY <1>1, <1>2, <1>11, HeadFits DEF Goes
  <2> QED BY <2>1 DEF Fits, BundleFits
<1> HIDE DEF r, m, q, p, l
<1>14. \A a \in Account, e \in Device : \A i \in DOMAIN r.wraps[a][e] :
           \/ i \in DOMAIN relay.wraps[a][e] /\ r.wraps[a][e][i] = relay.wraps[a][e][i]
           \/ Deliverable(h, a, e, r.wraps[a][e][i])
  BY <1>9, <1>13 DEF RelayGrows
<1>15. user' \in Users
  <2>1. user \in Users
    BY <1>2 DEF TypeOK
  <2>2. CASE w.at = "tell"
    <3>1. \/ w.what = "codes" /\ w.is \in Nat
          \/ w.what = "packages" /\ w.is \in Packages
          \/ w.what = "invites" /\ w.is \in Invites
      <4>1. w \notin LocalWrites
        BY <2>2, LocalKinds DEF Save, Identity
      <4>2. w \notin RelayWrites
        <5>1. \A v \in [at : {"attest"}, acct : Account, kind : {"trust", "revoke"}, of : Device, epoch : Nat] : v.at = "attest"
          OBVIOUS
        <5> QED BY <2>2, <5>1, RelayKinds DEF Record, Wrap, Blob, Sessions
      <4>3. w \notin OtherWrites
        BY <2>2, OtherKinds DEF Intend, Step, Steps
      <4>4. w \in UserWrites
        BY <1>3, <4>1, <4>2, <4>3 DEF Writes
      <4> QED BY <4>4, UserKinds DEF Tell
    <3>2. user' = [user EXCEPT ![w.what] = @ \cup {w.is}]
      BY <1>1, <2>2
    <3> HIDE DEF w
    <3>3. ASSUME w.what = "codes", w.is \in Nat PROVE user' \in Users
      BY <2>1, <3>2, <3>3 DEF Users
    <3>4. ASSUME w.what = "packages", w.is \in Packages PROVE user' \in Users
      BY <2>1, <3>2, <3>4 DEF Users
    <3>5. ASSUME w.what = "invites", w.is \in Invites PROVE user' \in Users
      BY <2>1, <3>2, <3>5 DEF Users
    <3> QED BY <3>1, <3>3, <3>4, <3>5
  <2>3. CASE w.at # "tell"
    BY <1>1, <2>1, <2>3
  <2> QED BY <2>2, <2>3
<1>16. TypeOK'
  <2>1. m \in Locals
    BY <1>12 DEF Goes
  <2>2. local' \in [Device -> Locals] /\ plan' \in [Device -> Seq(Writes)]
    BY <1>1, <1>2, <1>12, <2>1
  <2> QED BY <1>1, <1>2, <1>9, <1>15, <2>2 DEF TypeOK
<1>17. m = local'[d] /\ q = plan'[d] /\ \A e \in Device \ {d} : local'[e] = local[e] /\ plan'[e] = plan[e]
  BY <1>1, <1>2
<1> QED BY <1>1, <1>7, <1>8, <1>10, <1>12, <1>14, <1>16, <1>17, StepKeeps

-----------------------------------------------------------------------------
(* The plans commands start with. *)

Flows == {"create", "join", "attach"}

\* A write of a command for account a names no other.
Own(w, a) ==
  /\ \A b \in Account : w = Save([id |-> b]) => b = a
  /\ \A b \in Account : BindsTo(w, b) => b = a
  /\ \A b \in Account, f \in Flows : w = Intend(b, f) => b = a
\* What the writes that bind the identity rely on.
Ready(l, a, E) == HasId(l, a, E) /\ HasKeys(l, E) /\ HasRoot(l, E) /\ \A u \in E : Own(u, a)

\* A part of a plan, after the writes in E: its writes are those in F.
Part(g, d, l, p, E, F) == p \in Seq(Writes) /\ AllFit(g, d, l, p, E) /\ Elems(p) = F

LEMMA OwnWrites ==
  /\ \A a : Own(KeysSave, a)
  /\ \A a, k : Own(Save([ark |-> k]), a) /\ Own(Save([capture |-> k]), a) /\ Own(Save([epoch |-> k]), a)
  /\ \A a : Own(Save([id |-> a]), a)
  /\ \A a, e : Own(Identity(a, e), a)
  /\ \A a, b : Own(Record(b), a)
  /\ \A w, a : w.at = "attest" => Own(w, a)
  /\ \A a, b, to, c : Own(Wrap(b, to, c), a) /\ Own(Blob(b, c), a) /\ Own(Tell(b, c), a) /\ Own(Sessions(c), a)
  /\ \A a, f : Own(Intend(a, f), a)
  /\ \A a, n : n # "local" /\ n # "begin" => Own(Step(n, a), a)
<1> USE DEF Own, BindsTo
<1>1. \A a : Own(KeysSave, a)
  BY DEF KeysSave, Save, Identity, Step, Intend
<1>2. \A a, k : Own(Save([ark |-> k]), a) /\ Own(Save([capture |-> k]), a) /\ Own(Save([epoch |-> k]), a)
  BY DEF Save, Identity, Step, Intend
<1>3. \A a : Own(Save([id |-> a]), a)
  BY DEF Save, Identity, Step, Intend
<1>4. \A a, e : Own(Identity(a, e), a)
  BY DEF Save, Identity, Step, Intend
<1>5. \A a, b : Own(Record(b), a)
  BY DEF Save, Identity, Step, Intend, Record
<1>6. \A w, a : w.at = "attest" => Own(w, a)
  BY DEF Save, Identity, Step, Intend
<1>7. \A a, b, to, c : Own(Wrap(b, to, c), a) /\ Own(Blob(b, c), a) /\ Own(Tell(b, c), a) /\ Own(Sessions(c), a)
  <2>1. \A a, b, to, c : Own(Wrap(b, to, c), a)
    BY DEF Save, Identity, Step, Intend, Wrap
  <2>2. \A a, b, c : Own(Blob(b, c), a)
    BY DEF Save, Identity, Step, Intend, Blob
  <2>3. \A a, b, c : Own(Tell(b, c), a)
    BY DEF Save, Identity, Step, Intend, Tell
  <2>4. \A a, c : Own(Sessions(c), a)
    BY DEF Save, Identity, Step, Intend, Sessions
  <2> HIDE DEF Own, BindsTo
  <2> QED BY <2>1, <2>2, <2>3, <2>4
<1>8. \A a, f : Own(Intend(a, f), a)
  BY DEF Save, Identity, Step, Intend
<1>9. \A a, n : n # "local" /\ n # "begin" => Own(Step(n, a), a)
  BY DEF Save, Identity, Step, Intend
<1> HIDE DEF Own, BindsTo
<1> QED BY <1>1, <1>2, <1>3, <1>4, <1>5, <1>6, <1>7, <1>8, <1>9

LEMMA WriteTypes ==
  /\ KeysSave \in Writes /\ KeysSave = Save([keys |-> TRUE])
  /\ \A k \in Nat : Save([ark |-> k]) \in Writes /\ Save([epoch |-> k]) \in Writes
  /\ \A a \in Account : Save([id |-> a]) \in Writes /\ Record(a) \in Writes
  /\ \A b \in Blobs : Save([capture |-> b]) \in Writes
  /\ \A a \in Account, e \in Nat : Identity(a, e) \in Writes
  /\ \A a \in Account, of \in Device, e \in Nat : Trust(a, of, e) \in Writes
  /\ \A a \in Account, to \in Device, b \in Bundles : Wrap(a, to, b) \in Writes
  /\ \A a \in Account, b \in Blobs : Blob(a, b) \in Writes
  /\ \A of \in Device : Sessions(of) \in Writes
  /\ \A c \in Nat : Tell("codes", c) \in Writes
  /\ \A p \in Packages : Tell("packages", p) \in Writes
  /\ \A i \in Invites : Tell("invites", i) \in Writes
  /\ \A a \in Account, f \in Flows : Intend(a, f) \in Writes
  /\ \A n \in Steps, a \in Account : Step(n, a) \in Writes
<1>1. \A w : w \in LocalWrites \/ w \in RelayWrites \/ w \in UserWrites \/ w \in OtherWrites => w \in Writes
  BY DEF Writes
<1>2. KeysSave \in LocalWrites /\ KeysSave = Save([keys |-> TRUE])
  BY DEF LocalWrites, KeysSave
<1>3. /\ \A k \in Nat : Save([ark |-> k]) \in LocalWrites /\ Save([epoch |-> k]) \in LocalWrites
      /\ \A a \in Account : Save([id |-> a]) \in LocalWrites
      /\ \A b \in Blobs : Save([capture |-> b]) \in LocalWrites
      /\ \A a \in Account, e \in Nat : Identity(a, e) \in LocalWrites
  <2> DEFINE S1 == {Save([ark |-> k]) : k \in Nat}
             S2 == {Save([id |-> a]) : a \in Account}
             S3 == {Save([capture |-> b]) : b \in Blobs}
             S4 == {Save([epoch |-> e]) : e \in Nat}
             S5 == {Identity(a, e) : a \in Account, e \in Nat}
  <2>1. LocalWrites = {KeysSave} \cup S1 \cup S2 \cup S3 \cup S4 \cup S5
    BY DEF LocalWrites
  <2>2. \A k \in Nat : Save([ark |-> k]) \in S1 /\ Save([epoch |-> k]) \in S4
    BY Zenon
  <2>3. \A a \in Account : Save([id |-> a]) \in S2
    BY Zenon
  <2>4. \A b \in Blobs : Save([capture |-> b]) \in S3
    BY Zenon
  <2>5. \A a \in Account, e \in Nat : Identity(a, e) \in S5
    OBVIOUS
  <2> HIDE DEF S1, S2, S3, S4, S5
  <2>6. \A x : x \in S1 \/ x \in S2 \/ x \in S3 \/ x \in S4 \/ x \in S5 => x \in LocalWrites
    BY <2>1
  <2> QED BY <2>2, <2>3, <2>4, <2>5, <2>6, Zenon
<1>4. /\ \A a \in Account : Record(a) \in RelayWrites
      /\ \A a \in Account, to \in Device, b \in Bundles : Wrap(a, to, b) \in RelayWrites
      /\ \A a \in Account, b \in Blobs : Blob(a, b) \in RelayWrites
      /\ \A of \in Device : Sessions(of) \in RelayWrites
  BY DEF RelayWrites
<1>5. \A a \in Account, of \in Device, e \in Nat : Trust(a, of, e) \in RelayWrites
  BY DEF RelayWrites, Trust
<1>6. /\ \A c \in Nat : Tell("codes", c) \in UserWrites
      /\ \A p \in Packages : Tell("packages", p) \in UserWrites
      /\ \A i \in Invites : Tell("invites", i) \in UserWrites
  BY DEF UserWrites
<1>7. /\ \A a \in Account, f \in Flows : Intend(a, f) \in OtherWrites
      /\ \A n \in Steps, a \in Account : Step(n, a) \in OtherWrites
  BY DEF OtherWrites, Flows
<1> QED BY <1>1, <1>2, <1>3, <1>4, <1>5, <1>6, <1>7

LEMMA ReadyMore ==
  ASSUME NEW l, NEW a \in Account, NEW E, NEW F, Ready(l, a, E), \A u \in F : Own(u, a)
  PROVE  Ready(l, a, E \cup F)
BY DEF Ready, HasId, HasKeys, HasRoot, Own

LEMMA PartConcat ==
  ASSUME NEW g, NEW d, NEW l, NEW p, NEW q, NEW E, NEW F, NEW G, Part(g, d, l, p, E, F), Part(g, d, l, q, E \cup F, G)
  PROVE  Part(g, d, l, p \o q, E, F \cup G)
<1>1. p \in Seq(Writes) /\ q \in Seq(Writes) /\ AllFit(g, d, l, p, E) /\ AllFit(g, d, l, q, E \cup Elems(p)) /\ Elems(p) = F /\ Elems(q) = G
  BY DEF Part
<1>2. AllFit(g, d, l, p \o q, E) /\ Elems(p \o q) = Elems(p) \cup Elems(q) /\ p \o q \in Seq(Writes)
  BY <1>1, FitsConcat
<1> QED BY <1>1, <1>2 DEF Part

LEMMA PartNone ==
  ASSUME NEW g, NEW d, NEW l, NEW E PROVE Part(g, d, l, <<>>, E, {})
BY FitsNil DEF Part

LEMMA PartWhen ==
  ASSUME NEW g, NEW d, NEW l, NEW s, NEW E, NEW F, NEW c \in BOOLEAN, c => Part(g, d, l, s, E, F)
  PROVE  Part(g, d, l, When(c, s), E, IF c THEN F ELSE {})
<1>1. CASE c
  BY <1>1 DEF When
<1>2. CASE ~c
  BY <1>2, PartNone DEF When
<1> QED BY <1>1, <1>2

LEMMA PartOne ==
  ASSUME NEW g, NEW d, NEW l, NEW E, NEW u \in Writes, Fits(g, d, l, u, E)
  PROVE  Part(g, d, l, <<u>>, E, {u})
BY FitsOne DEF Part

LEMMA PartTwo ==
  ASSUME NEW g, NEW d, NEW l, NEW E, NEW u \in Writes, NEW v \in Writes,
         Fits(g, d, l, u, E), Fits(g, d, l, v, E \cup {u})
  PROVE  Part(g, d, l, <<u, v>>, E, {u, v})
BY FitsTwo DEF Part

LEMMA PartThree ==
  ASSUME NEW g, NEW d, NEW l, NEW E, NEW u \in Writes, NEW v \in Writes, NEW w \in Writes,
         Fits(g, d, l, u, E), Fits(g, d, l, v, E \cup {u}), Fits(g, d, l, w, E \cup {u, v})
  PROVE  Part(g, d, l, <<u, v, w>>, E, {u, v, w})
BY FitsThree DEF Part

LEMMA PartFour ==
  ASSUME NEW g, NEW d, NEW l, NEW E, NEW u \in Writes, NEW v \in Writes, NEW w \in Writes, NEW x \in Writes,
         Fits(g, d, l, u, E), Fits(g, d, l, v, E \cup {u}), Fits(g, d, l, w, E \cup {u, v}), Fits(g, d, l, x, E \cup {u, v, w})
  PROVE  Part(g, d, l, <<u, v, w, x>>, E, {u, v, w, x})
BY FitsFour DEF Part

LEMMA PartFive ==
  ASSUME NEW g, NEW d, NEW l, NEW E, NEW u \in Writes, NEW v \in Writes, NEW w \in Writes, NEW x \in Writes, NEW y \in Writes,
         Fits(g, d, l, u, E), Fits(g, d, l, v, E \cup {u}), Fits(g, d, l, w, E \cup {u, v}), Fits(g, d, l, x, E \cup {u, v, w}),
         Fits(g, d, l, y, E \cup {u, v, w, x})
  PROVE  Part(g, d, l, <<u, v, w, x, y>>, E, {u, v, w, x, y})
BY FitsFive DEF Part

\* The first lines of a proof about a command.
LEMMA LocalTypes ==
  ASSUME NEW l \in Locals
  PROVE  /\ l.keys \in BOOLEAN /\ l.server \in BOOLEAN /\ l.content \in BOOLEAN /\ l.epoch \in Nat
         /\ l.ark # None => l.ark \in Nat
         /\ l.id # None => l.id \in Account
         /\ l.db # None => l.db \in Account
         /\ l.session # None => l.session \in Account
         /\ l.capture # None => l.capture \in Blobs
         /\ l.intent # None => l.intent \in Intents
BY DEF Locals, Maybe

LEMMA MintTypes ==
  ASSUME Inv
  PROVE  /\ Fresh \in Nat
         /\ \A u : Mint(u) => minted' \in 0..MaxMinted /\ Fresh \in Account
         /\ minted' = minted => minted' \in 0..MaxMinted
BY RosterAssumption DEF Inv, TypeOK, Mint, Fresh

\* What a command may change of what is known of accounts.
HistoryGrows ==
  /\ relay' = relay
  /\ mixed' \in SUBSET Account /\ carried' \in SUBSET Account /\ unlisted' \in SUBSET Device
  /\ mixed \subseteq mixed' /\ carried \subseteq carried' /\ unlisted \subseteq unlisted'

LEMMA HistorySame ==
  ASSUME Inv, UNCHANGED <<relay, mixed, carried, unlisted>>
  PROVE  HistoryGrows /\ Shared' = Shared
BY DEF Inv, TypeOK, HistoryGrows, Shared

\* What a command starts from.
LEMMA Starts ==
  ASSUME Inv, NEW d \in Device, HistoryGrows
  PROVE  /\ local[d] \in Locals
         /\ \E h : /\ h = Shared' /\ Holds(h, d, local[d])
                   /\ h.records = relay.records /\ h.attests = relay.attests
                   /\ h.mixed = mixed' /\ h.carried = carried' /\ h.unlisted = unlisted'
<1> DEFINE g == Shared
           h == Shared'
           l == local[d]
<1>1. l \in Locals /\ g = Shared
  BY DEF Inv, TypeOK
<1>2. Holds(g, d, l)
  BY <1>1 DEF Inv, DevicesFit, Goes
<1>3. Grows(g, h)
  BY DEF Grows, Shared, HistoryGrows
<1>4. /\ h.records = relay.records /\ h.attests = relay.attests
      /\ h.mixed = mixed' /\ h.carried = carried' /\ h.unlisted = unlisted'
  BY DEF Shared, HistoryGrows
<1> HIDE DEF g, l
<1>5. PICK k : k = h
  OBVIOUS
<1> HIDE DEF h
<1>6. Holds(k, d, l)
  BY <1>1, <1>2, <1>3, <1>5, GrowsHolds
<1> QED BY <1>1, <1>4, <1>5, <1>6 DEF h, l

\* What a command has to show.
LEMMA Started ==
  ASSUME Inv, NEW d \in Device, NEW steps, Begin(d, steps), minted' \in 0..MaxMinted, HistoryGrows,
         NEW h, h = Shared', NEW l, l = local[d], NEW F, Part(h, d, l, steps, {}, F)
  PROVE  Inv'
<1>1. plan' = [plan EXCEPT ![d] = steps] /\ UNCHANGED <<authenticated, relay, local, user>>
  BY DEF Begin
<1>2. steps \in Seq(Writes) /\ AllFit(h, d, l, steps, {})
  BY DEF Part
<1> QED BY <1>1, <1>2, PlanChanges DEF HistoryGrows

-----------------------------------------------------------------------------
(* The commands. *)

LEMMA DeviceKeyInitKeeps ==
  ASSUME Inv, NEW d \in Device, DeviceKeyInit(d)
  PROVE  Inv'
<1>1. HistoryGrows /\ minted' \in 0..MaxMinted /\ Fresh \in Nat
  BY HistorySame, MintTypes DEF DeviceKeyInit, Begin, history
<1>2. PICK l, h : /\ l = local[d] /\ l \in Locals /\ h = Shared'
  BY <1>1, Starts
<1>3. Part(h, d, l, <<KeysSave>>, {}, {KeysSave})
  BY FitsPlain, WriteTypes, PartOne
<1>4. Part(h, d, l, <<Save([ark |-> Fresh])>>, {} \cup {KeysSave}, {Save([ark |-> Fresh])})
  BY <1>1, FitsPlain, WriteTypes, PartOne
<1>5. \E F : Part(h, d, l, <<KeysSave>> \o When(l.ark = None, <<Save([ark |-> Fresh])>>), {}, F)
  BY <1>3, <1>4, PartWhen, PartConcat
<1>6. Begin(d, <<KeysSave>> \o When(l.ark = None, <<Save([ark |-> Fresh])>>))
  BY <1>2 DEF DeviceKeyInit, KeysSave
<1> QED BY <1>1, <1>2, <1>5, <1>6, Started

LEMMA ExportPackageKeeps ==
  ASSUME Inv, NEW d \in Device, ExportPackage(d)
  PROVE  Inv'
<1>1. HistoryGrows
  BY HistorySame DEF ExportPackage, Begin, history
<1>2. PICK l, h : l = local[d] /\ l \in Locals /\ h = Shared' /\ Holds(h, d, l)
  BY <1>1, Starts
<1> DEFINE id == OrFresh(l.id)
           c == l.id = None
           u == Save([id |-> id])
           v == Tell("packages", [ark |-> l.ark, id |-> id])
<1>3. l.ark # None /\ Begin(d, When(c, <<u>>) \o <<v>>) /\ Mint(c)
  BY <1>2 DEF ExportPackage
<1>4. minted' \in 0..MaxMinted /\ Fresh \in Account
  BY <1>3, MintTypes
<1>5. id \in Account /\ (c => ~l.server) /\ l.ark \in Nat
  BY <1>2, <1>3, <1>4, LocalTypes DEF Holds, OrFresh
<1> HIDE DEF id
<1>6. u \in Writes /\ v \in Writes
  <2>1. [ark |-> l.ark, id |-> id] \in Packages
    BY <1>5 DEF Packages
  <2> QED BY <1>5, <2>1, WriteTypes
<1>7. c => Fits(h, d, l, u, {})
  BY <1>3, <1>5, FitsIdSave DEF HasRoot
<1>8. \A E : Fits(h, d, l, v, E)
  BY FitsPlain DEF Tell
<1> HIDE DEF u, v, c
<1>9. c \in BOOLEAN
  BY DEF c
<1>10. Part(h, d, l, When(c, <<u>>), {}, IF c THEN {u} ELSE {})
  BY <1>6, <1>7, <1>9, PartOne, PartWhen
<1>11. \E F : Part(h, d, l, When(c, <<u>>) \o <<v>>, {}, F)
  BY <1>6, <1>8, <1>10, PartOne, PartConcat
<1> QED BY <1>1, <1>2, <1>3, <1>4, <1>11, Started

LEMMA ImportPackageKeeps ==
  ASSUME Inv, NEW d \in Device, ImportPackage(d)
  PROVE  Inv'
<1>1. PICK p \in user.packages :
        /\ Begin(d, <<Save([ark |-> p.ark]), Save([id |-> p.id])>>)
        /\ mixed' = IF local[d].id \in {None, p.id} THEN mixed ELSE mixed \cup {local[d].id}
        /\ carried' = IF local[d].db \in {None, p.id} THEN carried ELSE carried \cup {p.id}
        /\ unlisted' = unlisted /\ minted' = minted
  BY DEF ImportPackage
<1>2. p.ark \in Nat /\ p.id \in Account /\ local[d] \in Locals
  BY DEF Inv, TypeOK, Users, Packages
<1>3. HistoryGrows /\ minted' \in 0..MaxMinted
  <2>1. relay' = relay /\ mixed \in SUBSET Account /\ carried \in SUBSET Account /\ unlisted \in SUBSET Device
    BY <1>1 DEF Inv, TypeOK, Begin
  <2>2. local[d].id \notin {None, p.id} => local[d].id \in Account
    BY <1>2, LocalTypes
  <2> QED BY <1>1, <1>2, <2>1, <2>2, MintTypes DEF HistoryGrows
<1>4. PICK l, h : l = local[d] /\ l \in Locals /\ h = Shared' /\ Holds(h, d, l) /\ h.mixed = mixed' /\ h.carried = carried'
  BY <1>3, Starts
<1> DEFINE u == Save([ark |-> p.ark])
           v == Save([id |-> p.id])
<1>5. u \in Writes /\ v \in Writes
  BY <1>2, WriteTypes
<1>6. Fits(h, d, l, u, {})
  BY <1>2, FitsPlain
<1>7. Fits(h, d, l, v, {} \cup {u})
  <2>1. HasRoot(l, {u})
    BY <1>2 DEF HasRoot
  <2>2. \A b : ~BindsTo(u, b)
    BY DEF BindsTo, Save, Step, Identity
  <2>3. l.server => (l.db = p.id \/ l.db \in h.mixed) /\ (l.db = p.id \/ p.id \in h.carried)
    <3>1. l.server => l.db # None /\ l.id # None /\ (l.db \notin h.mixed => l.id = l.db)
      BY <1>4 DEF Holds
    <3>2. ASSUME l.server, l.db # p.id PROVE p.id \in h.carried
      BY <3>1, <3>2, <1>1, <1>4
    <3>3. ASSUME l.server, l.db # p.id PROVE l.db \in h.mixed
      BY <3>1, <3>3, <1>1, <1>4
    <3> QED BY <3>2, <3>3
  <2> HIDE DEF u
  <2>4. Fits(h, d, l, v, {u})
    BY <1>2, <2>1, <2>2, <2>3, FitsIdSave
  <2> QED BY <2>4
<1> HIDE DEF u, v
<1>8. Part(h, d, l, <<u, v>>, {}, {u, v})
  BY <1>5, <1>6, <1>7, PartTwo
<1> QED BY <1>1, <1>3, <1>4, <1>8, Started DEF u, v

LEMMA EnableKeeps ==
  ASSUME Inv, NEW d \in Device, Enable(d)
  PROVE  Inv'
<1>1. relay' = relay /\ mixed' = mixed /\ carried' = carried /\ unlisted' = unlisted \cup {d}
  BY DEF Enable, Begin
<1>2. HistoryGrows
  BY <1>1 DEF HistoryGrows, Inv, TypeOK
<1>3. PICK l, h : l = local[d] /\ l \in Locals /\ h = Shared' /\ Holds(h, d, l) /\ h.unlisted = unlisted'
  BY <1>2, Starts
<1> DEFINE a == OrFresh(l.id)
           c == l.id = None
           u == Save([id |-> a])
           v == Identity(a, l.epoch)
           F == IF c THEN {u} ELSE {}
<1>4. l.intent = None /\ l.keys /\ l.ark # None /\ Begin(d, When(c, <<u>>) \o <<v>>) /\ Mint(c)
  BY <1>3 DEF Enable
<1>5. minted' \in 0..MaxMinted /\ Fresh \in Account
  BY <1>4, MintTypes
<1>6. a \in Account /\ (c => ~l.server) /\ l.epoch \in Nat /\ (~c => a = l.id)
  BY <1>3, <1>5, LocalTypes DEF Holds, OrFresh
<1>7. Covered(h, a, l.epoch)
  <2>1. CASE l.server
    BY <1>3, <1>6, <2>1 DEF Holds, Covered
  <2>2. CASE ~l.server
    BY <1>3, <2>2 DEF Holds, Covered, Attested
  <2> QED BY <2>1, <2>2
<1> HIDE DEF a
<1>8. c => Fits(h, d, l, u, {})
  BY <1>4, <1>6, FitsIdSave DEF HasRoot
<1>9. u \in Writes /\ v \in Writes
  BY <1>6, WriteTypes
<1>10. HasId(l, a, F) /\ \A b, f : Intend(b, f) \notin F
  <2>1. \A b \in Account : Save([id |-> b]) \in F => b = a
    BY DEF Save
  <2>2. \A b, f : Intend(b, f) # u
    BY DEF Save, Intend
  <2> QED BY <1>6, <2>1, <2>2 DEF HasId
<1>11. Fits(h, d, l, v, F)
  <2>1. HasKeys(l, F) /\ HasRoot(l, F) /\ Intended(l, a, F) /\ Listed(h, d, a, F) /\ Attesting(h, a, l.epoch, F)
    BY <1>1, <1>3, <1>4, <1>7, <1>10 DEF HasKeys, HasRoot, Intended, Listed, Attesting
  <2> HIDE DEF F
  <2> QED BY <1>6, <1>10, <2>1, FitsIdentity
<1> HIDE DEF u, v, c
<1>12. c \in BOOLEAN
  BY DEF c
<1>13. Part(h, d, l, When(c, <<u>>), {}, F)
  BY <1>8, <1>9, <1>12, PartOne, PartWhen
<1>14. \E G : Part(h, d, l, When(c, <<u>>) \o <<v>>, {}, G)
  <2>1. Part(h, d, l, <<v>>, {} \cup F, {v})
    BY <1>9, <1>11, PartOne
  <2> QED BY <1>13, <2>1, PartConcat
<1> QED BY <1>2, <1>3, <1>4, <1>5, <1>14, Started

\* A command of plain writes.
LEMMA PlainStarted ==
  ASSUME Inv, NEW d \in Device, NEW steps, Plain(d, steps)
  PROVE  /\ HistoryGrows /\ minted' \in 0..MaxMinted /\ Begin(d, steps)
         /\ \E l, h : l = local[d] /\ l \in Locals /\ h = Shared' /\ h = Shared /\ Holds(h, d, l)
<1>1. HistoryGrows /\ Shared' = Shared /\ minted' \in 0..MaxMinted /\ Begin(d, steps)
  BY HistorySame, MintTypes DEF Plain, Begin, history
<1>2. PICK l, h : l = local[d] /\ l \in Locals /\ h = Shared' /\ Holds(h, d, l)
  BY <1>1, Starts
<1> QED BY <1>1, <1>2

LEMMA OneStepKeeps ==
  ASSUME Inv, NEW d \in Device, NEW u \in Writes, Plain(d, <<u>>), \A g, l, E : Fits(g, d, l, u, E)
  PROVE  Inv'
<1>1. /\ HistoryGrows /\ minted' \in 0..MaxMinted /\ Begin(d, <<u>>)
      /\ \E l, h : l = local[d] /\ l \in Locals /\ h = Shared' /\ h = Shared /\ Holds(h, d, l)
  BY PlainStarted
<1>2. PICK l, h : l = local[d] /\ h = Shared'
  BY <1>1
<1>3. Part(h, d, l, <<u>>, {}, {u})
  BY PartOne
<1> QED BY <1>1, <1>2, <1>3, Started

LEMMA InviteKeeps ==
  ASSUME Inv, NEW d \in Device, Invite(d)
  PROVE  Inv'
<1> DEFINE u == Tell("invites", [acct |-> local[d].id, by |-> d])
<1>1. Plain(d, <<u>>) /\ local[d].id \in Account
  BY LocalTypes DEF Invite, Inv, TypeOK
<1>2. u \in Writes
  <2>1. [acct |-> local[d].id, by |-> d] \in Invites
    BY <1>1 DEF Invites
  <2> QED BY <2>1, WriteTypes
<1>3. \A g, l, E : Fits(g, d, l, u, E)
  BY FitsPlain DEF Tell
<1> QED BY <1>1, <1>2, <1>3, OneStepKeeps

LEMMA RevokeSessionKeeps ==
  ASSUME Inv, NEW d \in Device, RevokeSession(d)
  PROVE  Inv'
<1>1. PICK of \in relay.live : Plain(d, <<Sessions(of)>>)
  BY DEF RevokeSession
<1>2. of \in Device
  BY RelayTypes DEF Inv, TypeOK
<1>3. Sessions(of) \in Writes /\ \A g, l, E : Fits(g, d, l, Sessions(of), E)
  BY <1>2, WriteTypes, FitsPlain DEF Sessions
<1> QED BY <1>1, <1>3, OneStepKeeps

LEMMA SyncKeeps ==
  ASSUME Inv, NEW d \in Device, Sync(d)
  PROVE  Inv'
<1>1. Plain(d, <<Step("push", local[d].db)>>) /\ local[d].id = local[d].db /\ local[d].id \in Account
  BY LocalTypes DEF Sync, Established, Inv, TypeOK
<1>2. Step("push", local[d].db) \in Writes
  <2>1. "push" \in Steps
    BY DEF Steps
  <2> QED BY <1>1, <2>1, WriteTypes
<1>3. \A g, l, E : Fits(g, d, l, Step("push", local[d].db), E)
  BY FitsPlain DEF Step
<1> QED BY <1>1, <1>2, <1>3, OneStepKeeps

LEMMA RecoveryEnableKeeps ==
  ASSUME Inv, NEW d \in Device, RecoveryEnable(d)
  PROVE  Inv'
<1> DEFINE blob == [ark |-> local[d].ark, secret |-> Fresh]
           u == Tell("codes", Fresh)
           v == Blob(local[d].id, blob)
<1>1. HistoryGrows /\ minted' \in 0..MaxMinted /\ Fresh \in Nat /\ Begin(d, <<u, v>>)
  BY HistorySame, MintTypes DEF RecoveryEnable, PublishSteps, Begin, history
<1>2. PICK l, h : l = local[d] /\ l \in Locals /\ h = Shared'
  BY <1>1, Starts
<1>3. local[d].ark \in Nat /\ local[d].id \in Account
  BY <1>2, LocalTypes DEF RecoveryEnable
<1>4. u \in Writes /\ v \in Writes
  <2>1. blob \in Blobs
    BY <1>1, <1>3 DEF Blobs
  <2> QED BY <1>1, <1>3, <2>1, WriteTypes
<1>5. \A E : Fits(h, d, l, u, E) /\ Fits(h, d, l, v, E)
  BY FitsPlain DEF Tell, Blob
<1> HIDE DEF u, v
<1>6. Part(h, d, l, <<u, v>>, {}, {u, v})
  BY <1>4, <1>5, PartTwo
<1> QED BY <1>1, <1>2, <1>6, Started

\* The epoch a device that syncs seals under is attested for the account whose id it holds.
LEMMA HeldEpoch ==
  ASSUME NEW g, NEW d, NEW l \in Locals, Holds(g, d, l), l.server
  PROVE  Covered(g, l.id, l.epoch) /\ Covered(g, l.db, l.epoch) /\ (l.id # l.db => Excused(g, l.db))
BY DEF Holds, Covered, Excused

LEMMA ApproveKeeps ==
  ASSUME Inv, NEW d \in Device, Approve(d)
  PROVE  Inv'
<1>1. PICK of \in roster(local[d].id) : Plain(d, ApproveSteps(d, local[d].id, of))
  BY DEF Approve
<1>2. /\ HistoryGrows /\ minted' \in 0..MaxMinted /\ Begin(d, ApproveSteps(d, local[d].id, of))
      /\ \E l, h : l = local[d] /\ l \in Locals /\ h = Shared' /\ h = Shared /\ Holds(h, d, l)
  BY <1>1, PlainStarted
<1>3. PICK l, h : l = local[d] /\ l \in Locals /\ h = Shared' /\ h = Shared /\ Holds(h, d, l)
  BY <1>2
<1> DEFINE a == l.id
           b == [kind |-> "enrollment", ark |-> l.ark, epoch |-> l.epoch]
           u == Wrap(a, of, b)
           v == Trust(a, of, l.epoch)
<1>4. l.server /\ l.ark \in Nat /\ a \in Account /\ l.epoch \in Nat
  BY <1>3, LocalTypes DEF Approve, Established
<1>5. of \in Device /\ of \in h.records[a]
  <2>1. of \in relay.records[a] /\ h.records = relay.records
    BY <1>1, <1>3 DEF roster, Shared
  <2>2. relay.records \in [Account -> SUBSET Device]
    BY RelayTypes DEF Inv, TypeOK
  <2> QED BY <2>1, <2>2, <1>4
<1>6. b \in Bundles /\ Deliverable(h, a, of, b)
  <2>1. Covered(h, a, l.epoch)
    BY <1>3, <1>4, HeldEpoch
  <2> QED BY <1>4, <1>5, <2>1 DEF Bundles, Deliverable
<1>7. u \in Writes /\ v \in Writes
  BY <1>4, <1>5, <1>6, WriteTypes
<1>8. \A E : Fits(h, d, l, u, E) /\ Fits(h, d, l, v, E)
  <2>1. \A E : Fits(h, d, l, u, E)
    BY <1>4, <1>5, <1>6, FitsWrap
  <2>2. \A E : Fits(h, d, l, v, E)
    BY FitsPlain DEF Trust
  <2> QED BY <2>1, <2>2
<1>9. ApproveSteps(d, local[d].id, of) = <<u, v>>
  BY <1>3 DEF ApproveSteps
<1> HIDE DEF u, v
<1>10. Part(h, d, l, <<u, v>>, {}, {u, v})
  BY <1>7, <1>8, PartTwo
<1> QED BY <1>2, <1>3, <1>9, <1>10, Started

LEMMA LoginJoinKeeps ==
  ASSUME Inv, NEW d \in Device, LoginJoin(d)
  PROVE  Inv'
<1> DEFINE a == relay.bound
           u == Step("login", a)
           v == Intend(a, "join")
           w == KeysSave
           x == Save([id |-> a])
           y == Step("session", a)
<1>1. a # None /\ guard_join_new_device(d, local[d].server,
         local[d].intent # None /\ local[d].intent.flow = "join" /\ ~local[d].intent.active)
  BY DEF LoginJoin
<1>2. Plain(d, <<u, v, w, x, y>>)
  BY DEF LoginJoin, KeysSave
<1>3. /\ HistoryGrows /\ minted' \in 0..MaxMinted /\ Begin(d, <<u, v, w, x, y>>)
      /\ \E l, h : l = local[d] /\ l \in Locals /\ h = Shared' /\ h = Shared /\ Holds(h, d, l)
  BY <1>2, PlainStarted
<1>4. PICK l, h : l = local[d] /\ l \in Locals /\ h = Shared' /\ Holds(h, d, l)
  BY <1>3
<1>5. a \in Account
  BY <1>1, RelayTypes DEF Inv, TypeOK, Maybe
<1> HIDE DEF a
<1>6. u \in Writes /\ v \in Writes /\ w \in Writes /\ x \in Writes /\ y \in Writes
  BY <1>5, WriteTypes DEF Steps, Flows
<1>7. \A E : Fits(h, d, l, u, E) /\ Fits(h, d, l, v, E) /\ Fits(h, d, l, w, E)
  BY FitsPlain, WriteTypes DEF Step, Intend
<1>8. Fits(h, d, l, x, {u, v, w})
  <2>1. \A z \in {u, v, w}, b \in Account : ~BindsTo(z, b)
    BY DEF BindsTo, Step, Intend, KeysSave, Save, Identity
  <2>2. HasKeys(l, {u, v, w})
    BY WriteTypes DEF HasKeys
  <2>3. ~l.server
    BY <1>1, <1>4 DEF guard_join_new_device
  <2> HIDE DEF u, v, w
  <2> QED BY <1>5, <2>1, <2>2, <2>3, FitsIdSave
<1>9. Fits(h, d, l, y, {u, v, w, x})
  <2>1. Intent(l, a, {u, v, w, x})
    BY DEF Intent
  <2> HIDE DEF u, v, w, x
  <2> QED BY <1>5, <2>1, FitsSession
<1> HIDE DEF u, v, w, x, y
<1>10. Part(h, d, l, <<u, v, w, x, y>>, {}, {u, v, w, x, y})
  BY <1>6, <1>7, <1>8, <1>9, PartFive
<1> QED BY <1>3, <1>4, <1>10, Started

LEMMA LoginRenewKeeps ==
  ASSUME Inv, NEW d \in Device, LoginRenew(d)
  PROVE  Inv'
<1> DEFINE a == local[d].id
           u == Step("login", a)
           v == Step("verify", a)
           w == Step("session", a)
           x == Step("activate", a)
<1>1. Begin(d, <<u, v, w, x>>) /\ UNCHANGED <<mixed, carried, minted>> /\ relay' = relay
      /\ unlisted' = IF local[d].intent.active THEN unlisted ELSE unlisted \cup {d}
  BY DEF LoginRenew, Begin
<1>2. HistoryGrows /\ minted' \in 0..MaxMinted
  BY <1>1, MintTypes DEF HistoryGrows, Inv, TypeOK
<1>3. PICK l, h : /\ l = local[d] /\ l \in Locals /\ h = Shared' /\ Holds(h, d, l)
                  /\ h.unlisted = unlisted' /\ h.mixed = mixed' /\ h.records = relay.records
  BY <1>2, Starts
<1>4. l.ark # None /\ a \in Account /\ l.keys /\ l.intent # None /\ l.intent.acct = a /\ l.id = a
  BY <1>3, LocalTypes DEF LoginRenew
<1>5. l.intent.active \/ d \in h.unlisted
  BY <1>1, <1>3
<1> HIDE DEF a
<1>6. u \in Writes /\ v \in Writes /\ w \in Writes /\ x \in Writes
  BY <1>4, WriteTypes DEF Steps
<1>7. \A E : Fits(h, d, l, u, E) /\ Fits(h, d, l, v, E)
  BY FitsPlain DEF Step
<1>8. \A E : Intent(l, a, E)
  BY <1>4 DEF Intent
<1>9. \A E : Fits(h, d, l, w, E)
  BY <1>4, <1>8, FitsSession
<1>10. Fits(h, d, l, x, {u, v, w})
  <2>1. HasId(l, a, {u, v, w}) /\ \A b, f : Intend(b, f) \notin {u, v, w}
    BY <1>4 DEF HasId, Step, Save, Intend
  <2>2. Listed(h, d, a, {u, v, w})
    BY <1>3, <1>4, <1>5 DEF Listed, Holds
  <2> HIDE DEF u, v, w
  <2>3. HasKeys(l, {u, v, w}) /\ HasRoot(l, {u, v, w}) /\ Intended(l, a, {u, v, w})
    BY <1>4, <1>8, <2>1 DEF HasKeys, HasRoot, Intended
  <2> QED BY <1>4, <1>8, <2>1, <2>2, <2>3, FitsActivate
<1> HIDE DEF u, v, w, x
<1>11. Part(h, d, l, <<u, v, w, x>>, {}, {u, v, w, x})
  BY <1>6, <1>7, <1>9, <1>10, PartFour
<1> QED BY <1>1, <1>2, <1>3, <1>11, Started

LEMMA EnrollKeeps ==
  ASSUME Inv, NEW d \in Device, Enroll(d)
  PROVE  Inv'
<1>1. PICK inv \in user.invites :
        /\ guard_join_new_device(d, local[d].server, PendingJoin(d, inv.acct))
        /\ Begin(d, When(~local[d].keys, <<Save([keys |-> TRUE])>>) \o <<Save([id |-> inv.acct]), Record(inv.acct)>>)
        /\ mixed' = IF local[d].ark = None THEN mixed ELSE mixed \cup {inv.acct}
        /\ UNCHANGED <<carried, unlisted, minted>>
  BY DEF Enroll
<1> DEFINE a == inv.acct
           u == Save([id |-> a])
           v == Record(a)
<1>2. a \in Account
  BY DEF Inv, TypeOK, Users, Invites
<1>3. HistoryGrows /\ minted' \in 0..MaxMinted
  <2>1. relay' = relay
    BY <1>1 DEF Begin
  <2>2. mixed' \in SUBSET Account /\ mixed \subseteq mixed'
    BY <1>1, <1>2 DEF Inv, TypeOK
  <2> QED BY <1>1, <2>1, <2>2, MintTypes DEF HistoryGrows, Inv, TypeOK
<1>4. PICK l, h : l = local[d] /\ l \in Locals /\ h = Shared' /\ Holds(h, d, l)
  BY <1>3, Starts
<1> DEFINE c == ~l.keys
           F == IF c THEN {KeysSave} ELSE {}
<1>5. Begin(d, When(c, <<KeysSave>>) \o <<u, v>>) /\ ~l.server
  BY <1>1, <1>4 DEF KeysSave, guard_join_new_device
<1> HIDE DEF a
<1>6. u \in Writes /\ v \in Writes /\ KeysSave \in Writes
  BY <1>2, WriteTypes
<1>7. Fits(h, d, l, KeysSave, {})
  BY FitsPlain, WriteTypes
<1>8. Fits(h, d, l, u, F)
  <2>1. \A z \in F, b \in Account : ~BindsTo(z, b)
    BY DEF BindsTo, Step, KeysSave, Save, Identity
  <2>2. HasKeys(l, F)
    BY <1>4, LocalTypes, WriteTypes DEF HasKeys
  <2> HIDE DEF F
  <2> QED BY <1>2, <1>5, <2>1, <2>2, FitsIdSave
<1>9. Fits(h, d, l, v, F \cup {u})
  <2>1. \A b \in Account : Save([id |-> b]) \in F \cup {u} => b = a
    BY DEF Save, KeysSave
  <2>2. HasId(l, a, F \cup {u})
    BY <2>1 DEF HasId
  <2> HIDE DEF F, u
  <2> QED BY <1>2, <2>2, FitsRecord
<1>10. c \in BOOLEAN
  BY <1>4, LocalTypes
<1> HIDE DEF u, v, c
<1>11. Part(h, d, l, When(c, <<KeysSave>>), {}, F)
  BY <1>6, <1>7, <1>10, PartOne, PartWhen
<1> HIDE DEF F
<1>12. \E G : Part(h, d, l, When(c, <<KeysSave>>) \o <<u, v>>, {}, G)
  <2>1. Part(h, d, l, <<u, v>>, {} \cup F, {u, v})
    BY <1>6, <1>8, <1>9, PartTwo
  <2> QED BY <1>11, <2>1, PartConcat
<1> QED BY <1>3, <1>4, <1>5, <1>12, Started

\* A device that may address the relay has no intent for another account than its id.
LEMMA AccessIntent ==
  ASSUME NEW d, NEW a \in Account, Access(d, a), local[d].id \in {None, a}, NEW E,
         \A b, f : Intend(b, f) \notin E
  PROVE  Intended(local[d], a, E)
BY Constants DEF Access, Intended, Intent

\* The bundle a device opens is one that waits for it at the relay.
LEMMA OpenedBundle ==
  ASSUME Inv, NEW d \in Device, NEW a \in Account, EnrollmentFor(d, a) # {},
         NEW b, b = wraps_list(a, d)[Min(EnrollmentFor(d, a))]
  PROVE  \E s, i : /\ s = relay.wraps[a][d] /\ i \in DOMAIN s /\ b = s[i]
                   /\ b \in Bundles /\ b.kind = "enrollment"
<1> DEFINE s == relay.wraps[a][d]
           n == Min({Len(s), PageLimit})
           at == EnrollmentFor(d, a)
           k == Min(at)
<1>1. s \in Seq(Bundles) /\ PageLimit \in Nat /\ Len(s) \in Nat
  <2>1. relay.wraps \in [Account -> [Device -> Seq(Bundles)]] /\ PageLimit \in Nat
    BY RelayTypes, RosterAssumption DEF Inv, TypeOK
  <2>2. \A y \in Account : relay.wraps[y][d] \in Seq(Bundles)
    BY <2>1
  <2>3. s \in Seq(Bundles)
    BY <2>2, Zenon
  <2> HIDE DEF s
  <2> QED BY <2>1, <2>3
<1>2. n \in {Len(s), PageLimit} /\ n <= Len(s)
  <2>1. {Len(s), PageLimit} \in SUBSET Nat /\ {Len(s), PageLimit} # {}
    BY <1>1
  <2>2. \E y \in {Len(s), PageLimit} : \A z \in {Len(s), PageLimit} : y <= z
    BY <2>1, LeastMember
  <2> QED BY <2>2 DEF Min
<1>3. wraps_list(a, d) = SubSeq(s, 1, n)
  BY DEF wraps_list
<1> HIDE DEF n, s
<1>4. n \in Nat /\ DOMAIN wraps_list(a, d) = 1..n /\ \A i \in 1..n : wraps_list(a, d)[i] = s[i] /\ i \in DOMAIN s
  BY <1>1, <1>2, <1>3
<1>5. at \in SUBSET Nat /\ \A i \in at : i \in 1..n /\ wraps_list(a, d)[i].kind = "enrollment"
  BY <1>4 DEF EnrollmentFor
<1>6. k \in at
  <2>1. \E y \in at : \A z \in at : y <= z
    BY <1>5, LeastMember
  <2> HIDE DEF at
  <2> QED BY <2>1 DEF Min
<1>7. k \in DOMAIN s /\ b = s[k] /\ b.kind = "enrollment"
  BY <1>4, <1>5, <1>6
<1> HIDE DEF k, at
<1>8. b \in Bundles
  BY <1>1, <1>7
<1>9. s = relay.wraps[a][d]
  BY DEF s
<1> QED BY <1>7, <1>8, <1>9

LEMMA AcceptKeeps ==
  ASSUME Inv, NEW d \in Device, Accept(d)
  PROVE  Inv'
<1> DEFINE a == local[d].id
           at == EnrollmentFor(d, a)
           k == Min(at)
           b == wraps_list(a, d)[k]
           u == Save([ark |-> b.ark])
           v == Save([id |-> a])
           w == Identity(a, b.epoch)
           x == Step("adopt", a)
<1>1. /\ local[d].keys /\ a # None /\ guard_cli_join(d, a) /\ Access(d, a) /\ at # {}
      /\ Plain(d, <<u, v, w, x>>)
  BY DEF Accept
<1>2. /\ HistoryGrows /\ minted' \in 0..MaxMinted /\ Begin(d, <<u, v, w, x>>)
      /\ \E l, h : l = local[d] /\ l \in Locals /\ h = Shared' /\ h = Shared /\ Holds(h, d, l)
  BY <1>1, PlainStarted
<1>3. PICK l, h : l = local[d] /\ l \in Locals /\ h = Shared' /\ h = Shared /\ Holds(h, d, l)
  BY <1>2
<1>4. a \in Account /\ l.id = a /\ l.keys
  BY <1>1, <1>3, LocalTypes
<1> HIDE DEF k, b
<1>5. b \in Bundles /\ b.kind = "enrollment" /\ Deliverable(h, a, d, b)
  <2>1. PICK s, i : s = relay.wraps[a][d] /\ i \in DOMAIN s /\ b = s[i] /\ b \in Bundles /\ b.kind = "enrollment"
    BY <1>1, <1>4, OpenedBundle DEF b, k
  <2>2. Deliverable(h, a, d, s[i])
    BY <1>3, <1>4, <2>1 DEF Inv, BundlesFit
  <2> QED BY <2>1, <2>2
<1>6. b.ark \in Nat /\ b.epoch \in Nat /\ d \in h.records[a] /\ Covered(h, a, b.epoch)
  BY <1>5 DEF Bundles, Deliverable
<1>7. u \in Writes /\ v \in Writes /\ w \in Writes /\ x \in Writes
  BY <1>4, <1>6, WriteTypes DEF Steps
<1>8. Intended(l, a, {u, v})
  <2>1. \A c, f : Intend(c, f) \notin {u, v}
    BY DEF Intend, Save
  <2> HIDE DEF u, v
  <2> QED BY <1>1, <1>3, <1>4, <2>1, AccessIntent
<1>9. \A c : ~BindsTo(u, c) /\ ~BindsTo(v, c) /\ (c \in Account /\ BindsTo(w, c) => c = a)
  BY DEF BindsTo, Save, Step, Identity
<1>10. \A c \in Account : Save([id |-> c]) \in {u, v} => c = a
  BY DEF Save
<1>11. \E r \in Nat : Save([ark |-> r]) \in {u, v}
  BY <1>6
<1>12. \E e \in Nat : Identity(a, e) \in {u, v, w}
  BY <1>6
<1> HIDE DEF a
<1>13. Fits(h, d, l, u, {})
  BY <1>6, FitsPlain
<1>14. Fits(h, d, l, v, {u})
  <2>1. l.server => l.db = a
    BY <1>1, <1>3 DEF guard_cli_join, Holds, a
  <2>2. HasKeys(l, {u})
    BY <1>4 DEF HasKeys
  <2> HIDE DEF u
  <2> QED BY <1>4, <1>9, <2>1, <2>2, FitsIdSave
<1> HIDE DEF u, v
<1>15. Fits(h, d, l, w, {u, v})
  <2>1. HasId(l, a, {u, v}) /\ HasKeys(l, {u, v}) /\ HasRoot(l, {u, v})
    BY <1>4, <1>10, <1>11 DEF HasId, HasKeys, HasRoot
  <2>2. Listed(h, d, a, {u, v}) /\ Attesting(h, a, b.epoch, {u, v})
    BY <1>6 DEF Listed, Attesting
  <2> QED BY <1>4, <1>6, <1>8, <2>1, <2>2, FitsIdentity
<1> HIDE DEF w
<1>16. Fits(h, d, l, x, {u, v, w})
  BY <1>4, <1>9, <1>12, FitsAdopt
<1> HIDE DEF x
<1>17. Part(h, d, l, <<u, v, w, x>>, {}, {u, v, w, x})
  BY <1>7, <1>13, <1>14, <1>15, <1>16, PartFour
<1> QED BY <1>2, <1>3, <1>17, Started

LEMMA RecoverKeeps ==
  ASSUME Inv, NEW d \in Device, Recover(d)
  PROVE  Inv'
<1>1. PICK a \in Account :
        /\ guard_cli_join(d, a) /\ Access(d, a) /\ relay.recovery[a] # None
        /\ Plain(d, When(~local[d].keys, <<Save([keys |-> TRUE])>>)
                    \o <<Save([ark |-> relay.recovery[a].ark]), Save([id |-> a]), Step("epoch", a)>>)
  BY DEF Recover
<1> DEFINE c == ~local[d].keys
           k == relay.recovery[a].ark
           u == Save([ark |-> k])
           v == Save([id |-> a])
           w == Step("epoch", a)
           F == IF c THEN {KeysSave} ELSE {}
           p == When(c, <<KeysSave>>) \o <<u, v, w>>
<1>2. Plain(d, p)
  BY <1>1 DEF KeysSave
<1>3. /\ HistoryGrows /\ minted' \in 0..MaxMinted /\ Begin(d, p)
      /\ \E l, h : l = local[d] /\ l \in Locals /\ h = Shared' /\ h = Shared /\ Holds(h, d, l)
  BY <1>2, PlainStarted
<1>4. PICK l, h : l = local[d] /\ l \in Locals /\ h = Shared' /\ Holds(h, d, l)
  BY <1>3
<1>5. k \in Nat
  <2>1. relay.recovery \in [Account -> Maybe(Blobs)]
    BY RelayTypes DEF Inv, TypeOK
  <2> QED BY <1>1, <2>1 DEF Maybe, Blobs
<1> HIDE DEF k
<1>6. u \in Writes /\ v \in Writes /\ w \in Writes /\ KeysSave \in Writes
  BY <1>5, WriteTypes DEF Steps
<1>7. c \in BOOLEAN /\ (~c => l.keys)
  BY <1>4, LocalTypes
<1>8. \A b, f : Intend(b, f) \notin F \cup {u, v}
  BY DEF KeysSave, Save, Intend
<1>9. \A z \in F \cup {u} : \A b : ~BindsTo(z, b)
  BY DEF BindsTo, KeysSave, Save, Step, Identity
<1>10. \A b \in Account : Save([id |-> b]) \in F \cup {u, v} => b = a
  BY DEF KeysSave, Save
<1>11. \E r \in Nat : Save([ark |-> r]) \in F \cup {u, v}
  BY <1>5
<1>12. \A E : HasKeys(l, F \cup E)
  BY <1>7, WriteTypes DEF HasKeys
<1>13. Fits(h, d, l, KeysSave, {}) /\ Fits(h, d, l, u, F)
  BY <1>5, FitsPlain, WriteTypes
<1> HIDE DEF c, F
<1>14. Fits(h, d, l, v, F \cup {u})
  <2>1. l.server => l.db = a
    BY <1>1, <1>4 DEF guard_cli_join, Holds
  <2> HIDE DEF u
  <2> QED BY <1>9, <1>12, <2>1, FitsIdSave
<1>15. Fits(h, d, l, w, F \cup {u, v})
  <2>1. HasId(l, a, F \cup {u, v})
    BY <1>10 DEF HasId
  <2>2. HasRoot(l, F \cup {u, v})
    BY <1>11 DEF HasRoot
  <2>3. Intended(l, a, F \cup {u, v})
    BY <1>1, <1>4, <1>8, AccessIntent DEF guard_cli_join
  <2> HIDE DEF u, v
  <2> QED BY <1>12, <2>1, <2>2, <2>3, FitsEpoch
<1> HIDE DEF u, v, w
<1>16. Part(h, d, l, When(c, <<KeysSave>>), {}, F)
  BY <1>6, <1>7, <1>13, PartOne, PartWhen DEF F
<1>17. \E G : Part(h, d, l, p, {}, G)
  <2>1. Part(h, d, l, <<u, v, w>>, {} \cup F, {u, v, w})
    BY <1>6, <1>13, <1>14, <1>15, PartThree
  <2> QED BY <1>16, <2>1, PartConcat
<1> QED BY <1>3, <1>4, <1>17, Started

\* The bundles of the next epoch, to all devices but one.
LEMMA RewrapsPart ==
  ASSUME Inv, NEW a \in Account, NEW of, NEW e \in Nat, NEW g, NEW d, NEW l, NEW E
  PROVE  /\ Part(g, d, l, Rewraps(a, of, e), E, Elems(Rewraps(a, of, e)))
         /\ \A u \in Elems(Rewraps(a, of, e)) : u.at = "wrap"
<1> DEFINE others == roster(a) \ {of}
           n == Cardinality(others)
           b == [kind |-> "epoch", ark |-> None, epoch |-> e]
           W(k) == Wrap(a, Nth(others, k), b)
           p == [k \in 1..n |-> W(k)]
<1>1. others \in SUBSET Device
  <2>1. relay.records \in [Account -> SUBSET Device]
    BY RelayTypes DEF Inv, TypeOK
  <2> QED BY <2>1 DEF roster
<1>2. IsFiniteSet(Device) /\ Device = 1..Cardinality(Device) /\ Cardinality(Device) \in Nat
  BY RosterAssumption, FS_CardinalityType
<1> HIDE DEF others
<1>3. n \in Nat /\ Ranked(others)
  <2>1. IsFiniteSet(others)
    BY <1>1, <1>2, FS_Subset
  <2>2. n \in Nat
    BY <2>1, FS_CardinalityType
  <2>3. \A m \in Nat : Device = 1..m => Ranked(others)
    BY <1>1, PositionsRanked
  <2> QED BY <2>2, <2>3, <1>2
<1> HIDE DEF n
<1>4. \A k \in 1..n : Nth(others, k) \in Device
  BY <1>1, <1>3, NthInRanked DEF n
<1>5. b \in Bundles /\ b.kind = "epoch"
  BY DEF Bundles
<1> HIDE DEF b
<1>6. ASSUME NEW k \in 1..n, NEW F PROVE W(k) \in Writes /\ W(k).at = "wrap" /\ Fits(g, d, l, W(k), F)
  <2>1. Nth(others, k) \in Device
    BY <1>4
  <2>2. W(k) \in Writes
    BY <2>1, <1>5, WriteTypes
  <2>3. Deliverable(g, a, Nth(others, k), b)
    BY <1>5 DEF Deliverable
  <2> QED BY <2>1, <2>2, <2>3, <1>5, FitsWrap DEF Wrap
<1> HIDE DEF W
<1>7. p \in Seq(Writes) /\ Len(p) = n /\ \A k \in 1..n : p[k] = W(k)
  BY <1>3, <1>6
<1>8. Rewraps(a, of, e) = p
  BY DEF Rewraps, others, n, b, W
<1> HIDE DEF p
<1>9. AllFit(g, d, l, p, E)
  BY <1>6, <1>7 DEF AllFit
<1>10. \A u \in Elems(p) : u.at = "wrap"
  BY <1>6, <1>7 DEF Elems
<1> QED BY <1>7, <1>8, <1>9, <1>10 DEF Part

LEMMA RevokeKeeps ==
  ASSUME Inv, NEW d \in Device, Revoke(d)
  PROVE  Inv'
<1>1. PICK of \in roster(local[d].id) : Plain(d, RevokeSteps(d, local[d].id, of))
  BY DEF Revoke
<1>2. /\ HistoryGrows /\ minted' \in 0..MaxMinted /\ Begin(d, RevokeSteps(d, local[d].id, of))
      /\ \E l, h : l = local[d] /\ l \in Locals /\ h = Shared' /\ h = Shared /\ Holds(h, d, l)
  BY <1>1, PlainStarted
<1>3. PICK l, h : l = local[d] /\ l \in Locals /\ h = Shared' /\ Holds(h, d, l)
  BY <1>2
<1> DEFINE a == l.id
           new == l.epoch + 1
           p == Rewraps(a, of, new)
           u == [Trust(a, of, new) EXCEPT !.kind = "revoke"]
           v == Save([epoch |-> new])
           w == Sessions(of)
<1>4. l.server /\ a \in Account /\ l.epoch \in Nat /\ new \in Nat
  BY <1>3, LocalTypes DEF Revoke, Established
<1>5. of \in Device
  <2>1. relay.records \in [Account -> SUBSET Device] /\ of \in relay.records[a]
    BY <1>1, <1>3, RelayTypes DEF roster, Inv, TypeOK
  <2> QED BY <2>1, <1>4
<1>6. RevokeSteps(d, local[d].id, of) = p \o <<u, v, w>>
  BY <1>3 DEF RevokeSteps
<1> HIDE DEF new
<1>7. u.at = "attest" /\ u.acct = a /\ u.epoch = new /\ u \in Writes
  <2>1. u = [at |-> "attest", acct |-> a, kind |-> "revoke", of |-> of, epoch |-> new]
    BY DEF Trust
  <2>2. u \in RelayWrites
    BY <2>1, <1>4, <1>5 DEF RelayWrites
  <2> QED BY <2>1, <2>2 DEF Writes
<1>8. v \in Writes /\ w \in Writes
  BY <1>4, <1>5, WriteTypes
<1>9. Part(h, d, l, p, {}, Elems(p)) /\ \A z \in Elems(p) : z.at = "wrap"
  BY <1>4, RewrapsPart
<1> HIDE DEF p, u
<1>10. \A E : Fits(h, d, l, u, E) /\ Fits(h, d, l, w, E)
  BY <1>7, FitsPlain DEF Sessions
<1>11. Fits(h, d, l, v, Elems(p) \cup {u})
  <2>1. l.db # None
    BY <1>3, <1>4 DEF Holds
  <2>2. l.id # l.db => Excused(h, l.db)
    BY <1>3, <1>4, HeldEpoch
  <2>3. Attesting(h, l.db, new, Elems(p) \cup {u})
    <3>1. CASE l.id = l.db
      BY <3>1, <1>4, <1>7 DEF Attesting
    <3>2. CASE l.id # l.db
      BY <3>2, <2>2 DEF Attesting, Covered
    <3> QED BY <3>1, <3>2
  <2>4. \A z \in Elems(p) \cup {u} : z.at \in {"wrap", "attest"}
    BY <1>7, <1>9
  <2> QED BY <1>4, <2>1, <2>3, <2>4, FitsEpochSave
<1> HIDE DEF v, w
<1>12. \E G : Part(h, d, l, p \o <<u, v, w>>, {}, G)
  <2>1. Part(h, d, l, <<u, v, w>>, {} \cup Elems(p), {u, v, w})
    BY <1>7, <1>8, <1>10, <1>11, PartThree
  <2> QED BY <1>9, <2>1, PartConcat
<1> QED BY <1>2, <1>3, <1>6, <1>12, Started

\* What authenticated_attach leaves to rely on.
LEMMA AttachPart ==
  ASSUME NEW g, NEW d, NEW l, l = local[d], NEW a \in Account, NEW flow \in {"create", "attach"}, NEW E,
         NEW c, c = (l.id = None /\ flow # "create"),
         c => (\A u \in E, b \in Account : ~BindsTo(u, b)) /\ l.keys /\ ~l.server
  PROVE  \E F : /\ Part(g, d, l, AttachSteps(d, a, flow), E, F)
                /\ \A u \in F : Own(u, a)
                /\ Intend(a, flow) \in F /\ (c => Save([id |-> a]) \in F)
<1> DEFINE u == Intend(a, flow)
           v == Save([id |-> a])
           w == Step("login", a)
           x == Step("bind", a)
           y == Step("session", a)
           F == IF c THEN {v} ELSE {}
<1>1. u \in Writes /\ v \in Writes /\ w \in Writes /\ x \in Writes /\ y \in Writes
  BY WriteTypes DEF Flows, Steps
<1>2. Own(u, a) /\ Own(v, a) /\ Own(w, a) /\ Own(x, a) /\ Own(y, a)
  BY OwnWrites
<1>3. \A G : Fits(g, d, l, u, G) /\ Fits(g, d, l, w, G) /\ Fits(g, d, l, x, G)
  BY FitsPlain DEF Intend, Step
<1>4. c => Fits(g, d, l, v, E \cup {u})
  <2> SUFFICES ASSUME c PROVE Fits(g, d, l, v, E \cup {u})
    OBVIOUS
  <2>1. \A z \in E \cup {u}, b \in Account : ~BindsTo(z, b)
    BY DEF BindsTo, Intend, Step, Identity, Save
  <2>2. HasKeys(l, E \cup {u})
    BY DEF HasKeys
  <2> HIDE DEF u
  <2> QED BY <2>1, <2>2, FitsIdSave
<1>5. \A G : u \in G => Fits(g, d, l, y, G)
  <2>1. \A G : u \in G => Intent(l, a, G)
    BY DEF Intent
  <2> HIDE DEF u
  <2> QED BY <2>1, FitsSession
<1>6. AttachSteps(d, a, flow) = <<u>> \o When(c, <<v>>) \o <<w, x, w, y>>
  BY DEF AttachSteps
<1>7. c \in BOOLEAN
  OBVIOUS
<1>8. u = Intend(a, flow) /\ v = Save([id |-> a])
  OBVIOUS
<1> HIDE DEF u, v, w, x, y
<1>9. Part(g, d, l, <<u>>, E, {u})
  BY <1>1, <1>3, PartOne
<1>10. Part(g, d, l, When(c, <<v>>), E \cup {u}, F)
  BY <1>1, <1>4, <1>7, PartOne, PartWhen
<1>11. Part(g, d, l, <<w, x, w, y>>, E \cup ({u} \cup F), {w, x, w, y})
  BY <1>1, <1>3, <1>5, PartFour
<1>12. Part(g, d, l, <<u>> \o When(c, <<v>>), E, {u} \cup F)
  BY <1>9, <1>10, PartConcat
<1>13. Part(g, d, l, <<u>> \o When(c, <<v>>) \o <<w, x, w, y>>, E, ({u} \cup F) \cup {w, x, w, y})
  BY <1>11, <1>12, PartConcat
<1> DEFINE G == ({u} \cup F) \cup {w, x, w, y}
<1>14. \A z \in G : Own(z, a)
  BY <1>2
<1>15. u \in G /\ (c => v \in G)
  OBVIOUS
<1>16. Part(g, d, l, AttachSteps(d, a, flow), E, G)
  BY <1>6, <1>13
<1> HIDE DEF G
<1> QED BY <1>8, <1>14, <1>15, <1>16

LEMMA RootedPart ==
  ASSUME NEW g, NEW d \in Device, NEW l, NEW a \in Account, NEW e \in Nat, NEW E, HasId(l, a, E)
  PROVE  /\ Part(g, d, l, Rooted(d, a, e), E, {Record(a), Trust(a, d, e)})
         /\ \A u \in {Record(a), Trust(a, d, e)} : Own(u, a)
<1> DEFINE u == Record(a)
           v == Trust(a, d, e)
<1>1. u \in Writes /\ v \in Writes /\ v.at = "attest"
  BY WriteTypes DEF Trust
<1>2. Own(u, a) /\ Own(v, a)
  BY <1>1, OwnWrites
<1>3. Fits(g, d, l, u, E)
  BY FitsRecord
<1>4. Rooted(d, a, e) = <<u, v>>
  BY DEF Rooted
<1> HIDE DEF u, v
<1>5. Part(g, d, l, <<u, v>>, E, {u, v})
  BY <1>1, <1>3, FitsPlain, PartTwo
<1> QED BY <1>2, <1>4, <1>5 DEF u, v

LEMMA AttachKeeps ==
  ASSUME Inv, NEW d \in Device, Attach(d)
  PROVE  Inv'
<1>1. HistoryGrows
  BY HistorySame DEF Attach, Begin, history
<1>2. PICK l, h : l = local[d] /\ l \in Locals /\ h = Shared' /\ Holds(h, d, l) /\ h.records = relay.records
  BY <1>1, Starts
<1> DEFINE a == IF l.id # None THEN l.id ELSE OrFresh(l.db)
           c == l.id = None
           s1 == AttachSteps(d, a, "attach")
           c2 == d \notin relay.records[a]
           s2 == When(c2, Rooted(d, a, l.epoch))
           u == Step("verify", a)
           v == Step("activate", a)
<1>3. l.keys /\ l.ark # None /\ Begin(d, s1 \o s2 \o <<u, v>>) /\ Mint(a = Fresh)
  BY <1>2 DEF Attach
<1>4. minted' \in 0..MaxMinted /\ Fresh \in Account
  BY <1>3, MintTypes
<1>5. a \in Account /\ l.epoch \in Nat /\ (c => ~l.server) /\ (~c => l.id = a)
  BY <1>2, <1>4, LocalTypes DEF OrFresh, Holds
<1> HIDE DEF a
<1>6. u \in Writes /\ v \in Writes
  BY <1>5, WriteTypes DEF Steps
<1>7. PICK F : /\ Part(h, d, l, s1, {}, F) /\ \A z \in F : Own(z, a)
               /\ Intend(a, "attach") \in F /\ (c => Save([id |-> a]) \in F)
  <2>1. c = (l.id = None /\ "attach" # "create")
    OBVIOUS
  <2>2. c \in BOOLEAN
    OBVIOUS
  <2> HIDE DEF c
  <2>3. c => (\A z \in {}, b \in Account : ~BindsTo(z, b)) /\ l.keys /\ ~l.server
    BY <1>3, <1>5
  <2> QED BY <2>1, <2>3, <1>2, <1>5, AttachPart
<1> HIDE DEF s1
<1>8. Ready(l, a, F)
  BY <1>3, <1>5, <1>7 DEF Ready, HasId, HasKeys, HasRoot, Own
<1> DEFINE G == IF c2 THEN {Record(a), Trust(a, d, l.epoch)} ELSE {}
<1>9. Part(h, d, l, s2, F, G) /\ \A z \in G : Own(z, a)
  <2>1. HasId(l, a, F)
    BY <1>8 DEF Ready
  <2>2. Part(h, d, l, Rooted(d, a, l.epoch), F, {Record(a), Trust(a, d, l.epoch)})
        /\ \A z \in {Record(a), Trust(a, d, l.epoch)} : Own(z, a)
    BY <1>5, <2>1, RootedPart
  <2> QED BY <2>2, PartWhen
<1> HIDE DEF s2
<1>10. Ready(l, a, F \cup G)
  BY <1>5, <1>8, <1>9, ReadyMore
<1>11. Listed(h, d, a, F \cup G)
  BY <1>2 DEF Listed
<1> HIDE DEF G
<1>12. Intended(l, a, F \cup G) /\ Intent(l, a, F \cup G)
  BY <1>7, <1>10 DEF Intended, Intent, Ready, Own, Flows
<1>13. Fits(h, d, l, u, F \cup G)
  BY FitsPlain DEF Step
<1>14. Fits(h, d, l, v, (F \cup G) \cup {u})
  <2>1. Own(u, a)
    BY OwnWrites
  <2>2. Ready(l, a, (F \cup G) \cup {u})
    BY <1>5, <1>10, <2>1, ReadyMore
  <2>3. Listed(h, d, a, (F \cup G) \cup {u})
    BY <1>11 DEF Listed
  <2>4. Intended(l, a, (F \cup G) \cup {u}) /\ Intent(l, a, (F \cup G) \cup {u})
    BY <1>12, <2>1 DEF Intended, Intent, Own, Flows
  <2> HIDE DEF u
  <2> QED BY <1>5, <2>2, <2>3, <2>4, FitsActivate DEF Ready
<1> HIDE DEF u, v
<1>15. Part(h, d, l, s1 \o s2, {}, F \cup G)
  BY <1>7, <1>9, PartConcat
<1>16. Part(h, d, l, <<u, v>>, {} \cup (F \cup G), {u, v})
  BY <1>6, <1>13, <1>14, PartTwo
<1>17. Part(h, d, l, s1 \o s2 \o <<u, v>>, {}, (F \cup G) \cup {u, v})
  BY <1>15, <1>16, PartConcat
<1> QED BY <1>1, <1>2, <1>3, <1>4, <1>17, Started


-----------------------------------------------------------------------------

\* A recovery blob, made or kept, and the code that opens it.
LEMMA RecoveryPart ==
  ASSUME NEW g, NEW d, NEW l \in Locals, l = local[d], NEW a \in Account, NEW ark \in Nat, NEW code \in Nat, NEW E
  PROVE  \E F : Part(g, d, l, RecoverySteps(d, a, ark, code), E, F) /\ \A u \in F : Own(u, a)
<1> DEFINE kept == l.capture
           blob == IF kept # None THEN kept ELSE [ark |-> ark, acct |-> a, secret |-> code]
           c == kept # None
           c2 == kept = None
           n == IF kept.ark = ark /\ kept.acct = a THEN "valid" ELSE "fail"
           u == Step(n, a)
           v == Save([capture |-> blob])
           w == Blob(a, blob)
           x == Tell("codes", blob.secret)
<1>1. blob \in Blobs /\ blob.secret \in Nat
  <2>1. CASE c
    BY <2>1, LocalTypes DEF Blobs
  <2>2. CASE ~c
    BY <2>2 DEF Blobs
  <2> QED BY <2>1, <2>2
<1>2. n \in Steps /\ n \in {"valid", "fail"}
  BY DEF Steps
<1>3. c \in BOOLEAN /\ c2 \in BOOLEAN
  OBVIOUS
<1>4. RecoverySteps(d, a, ark, code) = When(c, <<u>>) \o When(c2, <<v>>) \o <<w, x>>
  BY DEF RecoverySteps
<1> HIDE DEF n, blob, c, c2
<1>5. u \in Writes /\ v \in Writes /\ w \in Writes /\ x \in Writes
  BY <1>1, <1>2, WriteTypes
<1>6. Own(u, a) /\ Own(v, a) /\ Own(w, a) /\ Own(x, a)
  BY <1>2, OwnWrites
<1>7. \A G : Fits(g, d, l, u, G) /\ Fits(g, d, l, w, G) /\ Fits(g, d, l, x, G)
  BY <1>2, FitsPlain DEF Step, Blob, Tell
<1>8. \A G : Fits(g, d, l, v, G)
  BY <1>1, FitsPlain
<1> HIDE DEF u, v, w, x
<1> DEFINE F1 == IF c THEN {u} ELSE {}
           F2 == IF c2 THEN {v} ELSE {}
           G == (F1 \cup F2) \cup {w, x}
<1>9. Part(g, d, l, When(c, <<u>>), E, F1)
  BY <1>3, <1>5, <1>7, PartOne, PartWhen
<1>10. Part(g, d, l, When(c2, <<v>>), E \cup F1, F2)
  BY <1>3, <1>5, <1>8, PartOne, PartWhen
<1>11. Part(g, d, l, <<w, x>>, E \cup (F1 \cup F2), {w, x})
  BY <1>5, <1>7, PartTwo
<1>12. \A z \in G : Own(z, a)
  BY <1>6
<1> HIDE DEF F1, F2
<1>13. Part(g, d, l, When(c, <<u>>) \o When(c2, <<v>>), E, F1 \cup F2)
  BY <1>9, <1>10, PartConcat
<1>14. Part(g, d, l, When(c, <<u>>) \o When(c2, <<v>>) \o <<w, x>>, E, G)
  BY <1>11, <1>13, PartConcat
<1> HIDE DEF G
<1> QED BY <1>4, <1>12, <1>14

\* The keys, root key and id that a creation saves where the device lacks them.
LEMMA FoundingPart ==
  ASSUME NEW g, NEW d, NEW l \in Locals, Holds(g, d, l), NEW a \in Account, NEW ark \in Nat,
         l.id # None => a = l.id, l.ark # None => ark = l.ark
  PROVE  \E F : /\ Part(g, d, l, When(~l.keys, <<KeysSave>>) \o When(l.ark # ark, <<Save([ark |-> ark])>>)
                                 \o When(l.id = None, <<Save([id |-> a])>>), {}, F)
                /\ Ready(l, a, F)
<1> DEFINE c1 == ~l.keys
           c2 == l.ark # ark
           c3 == l.id = None
           u == KeysSave
           v == Save([ark |-> ark])
           w == Save([id |-> a])
           F1 == IF c1 THEN {u} ELSE {}
           F2 == IF c2 THEN {v} ELSE {}
           F3 == IF c3 THEN {w} ELSE {}
           G == (F1 \cup F2) \cup F3
           p == When(c1, <<u>>) \o When(c2, <<v>>) \o When(c3, <<w>>)
<1>1. c1 \in BOOLEAN /\ c2 \in BOOLEAN /\ c3 \in BOOLEAN /\ (~c1 => l.keys) /\ (c3 => ~l.server)
  BY LocalTypes DEF Holds
<1>2. u \in Writes /\ v \in Writes /\ w \in Writes
  BY WriteTypes
<1>3. Own(u, a) /\ Own(v, a) /\ Own(w, a)
  BY OwnWrites
<1>4. \A E : Fits(g, d, l, u, E) /\ Fits(g, d, l, v, E)
  BY FitsPlain, WriteTypes
<1>5. \A b : ~BindsTo(u, b) /\ ~BindsTo(v, b)
  BY DEF BindsTo, KeysSave, Save, Step, Identity
<1>6. \A E : HasKeys(l, F1 \cup E)
  BY <1>1, WriteTypes DEF HasKeys
<1>7. HasRoot(l, G)
  BY Constants DEF HasRoot
<1>8. l.id = a \/ Save([id |-> a]) \in G
  BY DEF G
<1>9. \A z \in G : Own(z, a)
  BY <1>3
<1>10. Ready(l, a, G)
  <2>1. HasKeys(l, G)
    <3>1. G = F1 \cup (F2 \cup F3)
      OBVIOUS
    <3> HIDE DEF G, F1, F2, F3
    <3> QED BY <1>6, <3>1
  <2> HIDE DEF G
  <2>2. HasId(l, a, G)
    BY <1>8, <1>9 DEF HasId, Own
  <2> QED BY <1>7, <1>9, <2>1, <2>2 DEF Ready
<1>11. c3 => Fits(g, d, l, w, F1 \cup F2)
  <2> SUFFICES ASSUME c3 PROVE Fits(g, d, l, w, F1 \cup F2)
    OBVIOUS
  <2>1. \A z \in F1 \cup F2, b \in Account : ~BindsTo(z, b)
    BY <1>5
  <2>2. HasKeys(l, F1 \cup F2)
    BY <1>6
  <2> HIDE DEF F1, F2
  <2> QED BY <1>1, <2>1, <2>2, FitsIdSave
<1> HIDE DEF u, v, w, c1, c2, c3
<1>12. Part(g, d, l, When(c1, <<u>>), {}, F1)
  BY <1>1, <1>2, <1>4, PartOne, PartWhen
<1>13. Part(g, d, l, When(c2, <<v>>), {} \cup F1, F2)
  BY <1>1, <1>2, <1>4, PartOne, PartWhen
<1>14. Part(g, d, l, When(c3, <<w>>), {} \cup (F1 \cup F2), F3)
  BY <1>1, <1>2, <1>11, PartOne, PartWhen
<1> HIDE DEF F1, F2, F3
<1>15. Part(g, d, l, When(c1, <<u>>) \o When(c2, <<v>>), {}, F1 \cup F2)
  BY <1>12, <1>13, PartConcat
<1>16. Part(g, d, l, p, {}, G)
  BY <1>14, <1>15, PartConcat
<1> HIDE DEF G
<1> QED BY <1>10, <1>16 DEF u, v, w, c1, c2, c3

\* Nothing, the passphrase's blob, or a code and its blob.
LEMMA BootstrapRecoveryPart ==
  ASSUME NEW g, NEW d, NEW l \in Locals, l = local[d], NEW a \in Account, NEW ark \in Nat, Fresh \in Nat, NEW E,
         NEW secret \in Secrets
  PROVE  \E F : Part(g, d, l, BootstrapRecovery(d, a, ark, secret), E, F) /\ \A u \in F : Own(u, a)
<1> DEFINE p == BootstrapRecovery(d, a, ark, secret)
<1>1. CASE secret = "none"
  <2>1. p = <<>>
    BY <1>1 DEF BootstrapRecovery
  <2> HIDE DEF p
  <2>2. Part(g, d, l, p, E, {})
    BY <2>1, PartNone
  <2> QED BY <2>2 DEF p
<1>2. CASE secret = "passphrase"
  <2> DEFINE blob == [ark |-> ark, secret |-> Fresh]
             u == Tell("codes", Fresh)
             v == Blob(a, blob)
  <2>1. p = <<u, v>>
    BY <1>2 DEF BootstrapRecovery, PublishSteps
  <2>2. u \in Writes /\ v \in Writes
    <3>1. blob \in Blobs
      BY DEF Blobs
    <3> QED BY <3>1, WriteTypes
  <2>3. Own(u, a) /\ Own(v, a)
    BY OwnWrites
  <2>4. \A G : Fits(g, d, l, u, G) /\ Fits(g, d, l, v, G)
    BY FitsPlain DEF Tell, Blob
  <2> HIDE DEF u, v, p
  <2>5. Part(g, d, l, <<u, v>>, E, {u, v})
    BY <2>2, <2>4, PartTwo
  <2>6. \A z \in {u, v} : Own(z, a)
    BY <2>3
  <2> QED BY <2>1, <2>5, <2>6 DEF p
<1>3. CASE secret = "code"
  <2>1. p = RecoverySteps(d, a, ark, Fresh)
    BY <1>3 DEF BootstrapRecovery
  <2> HIDE DEF p
  <2>2. \E F : Part(g, d, l, RecoverySteps(d, a, ark, Fresh), E, F) /\ \A u \in F : Own(u, a)
    BY RecoveryPart
  <2> QED BY <2>1, <2>2 DEF p
<1> QED BY <1>1, <1>2, <1>3 DEF Secrets

LEMMA BootstrapKeeps ==
  ASSUME Inv, NEW d \in Device, NEW auth \in BOOLEAN, NEW secret \in Secrets, Bootstrap(d, auth, secret)
  PROVE  Inv'
<1> DEFINE a == OrFresh(local[d].id)
           ark == RootOfCreation(d)
<1>1. /\ Begin(d, BootstrapSteps(d, a, ark, secret, auth)) /\ Mint(TRUE)
      /\ mixed' = IF local[d].id # None /\ local[d].ark = None THEN mixed \cup {local[d].id} ELSE mixed
      /\ UNCHANGED <<carried, unlisted>>
  BY DEF Bootstrap
<1>2. minted' \in 0..MaxMinted /\ Fresh \in Account /\ Fresh \in Nat
  BY <1>1, MintTypes
<1>3. HistoryGrows
  <2>1. relay' = relay
    BY <1>1 DEF Begin
  <2>2. local[d].id # None => local[d].id \in Account
    BY LocalTypes DEF Inv, TypeOK
  <2>3. mixed' \in SUBSET Account /\ mixed \subseteq mixed'
    BY <1>1, <2>2 DEF Inv, TypeOK
  <2> QED BY <1>1, <2>1, <2>3 DEF HistoryGrows, Inv, TypeOK
<1>4. PICK l, h : l = local[d] /\ l \in Locals /\ h = Shared' /\ Holds(h, d, l)
  BY <1>3, Starts
<1>5. a \in Account /\ (l.id # None => a = l.id)
  BY <1>2, <1>4, LocalTypes DEF OrFresh
<1>6. ark \in Nat /\ (l.ark # None => ark = l.ark)
  BY <1>2, <1>4, LocalTypes DEF RootOfCreation, OrFresh
<1> HIDE DEF a, ark
<1> DEFINE e == l.epoch
           p1 == When(~l.keys, <<KeysSave>>) \o When(l.ark # ark, <<Save([ark |-> ark])>>)
                 \o When(l.id = None, <<Save([id |-> a])>>)
           p2 == When(auth, AttachSteps(d, a, "create"))
           p3 == Rooted(d, a, e)
           p4 == BootstrapRecovery(d, a, ark, secret)
           u == Identity(a, e)
           v == Step("adopt", a)
           R == {Record(a), Trust(a, d, e)}
<1>8. BootstrapSteps(d, a, ark, secret, auth) = p1 \o p2 \o p3 \o <<u>> \o p4 \o <<v>>
  BY <1>4, WriteTypes DEF BootstrapSteps
<1>9. e \in Nat
  BY <1>4, LocalTypes
<1>10. u \in Writes /\ v \in Writes /\ Own(u, a) /\ Own(v, a)
  BY <1>5, <1>9, WriteTypes, OwnWrites DEF Steps
<1>11. PICK F : Part(h, d, l, p1, {}, F) /\ Ready(l, a, F)
  BY <1>4, <1>5, <1>6, FoundingPart
<1> HIDE DEF p1
<1>12. PICK G : Part(h, d, l, p2, F, G) /\ \A z \in G : Own(z, a)
  <2>1. PICK H : Part(h, d, l, AttachSteps(d, a, "create"), F, H) /\ \A z \in H : Own(z, a)
    <3>1. FALSE = (l.id = None /\ "create" # "create")
      OBVIOUS
    <3> QED BY <3>1, <1>4, <1>5, AttachPart
  <2>2. Part(h, d, l, p2, F, IF auth THEN H ELSE {})
    BY <2>1, PartWhen
  <2>3. \A z \in (IF auth THEN H ELSE {}) : Own(z, a)
    BY <2>1
  <2> QED BY <2>2, <2>3
<1> HIDE DEF p2
<1>13. Part(h, d, l, p1 \o p2, {}, F \cup G) /\ Ready(l, a, F \cup G)
  <2>1. Part(h, d, l, p2, {} \cup F, G)
    BY <1>12
  <2>2. Part(h, d, l, p1 \o p2, {}, F \cup G)
    BY <1>11, <2>1, PartConcat
  <2> QED BY <1>5, <1>11, <1>12, <2>2, ReadyMore
<1>14. PICK X : X = F \cup G
  OBVIOUS
<1>15. Part(h, d, l, p3, X, R) /\ \A z \in R : Own(z, a)
  <2>1. HasId(l, a, X)
    BY <1>13, <1>14 DEF Ready
  <2> QED BY <1>5, <1>9, <2>1, RootedPart
<1> HIDE DEF p3
<1>16. PICK Y : Y = X \cup R
  OBVIOUS
<1>17. Part(h, d, l, p1 \o p2 \o p3, {}, Y) /\ Ready(l, a, Y)
  <2>1. Part(h, d, l, p3, {} \cup X, R) /\ Part(h, d, l, p1 \o p2, {}, X) /\ Ready(l, a, X)
    BY <1>13, <1>14, <1>15
  <2>2. Part(h, d, l, p1 \o p2 \o p3, {}, X \cup R)
    BY <2>1, PartConcat
  <2>3. Ready(l, a, X \cup R)
    BY <1>5, <1>15, <2>1, ReadyMore
  <2> QED BY <1>16, <2>2, <2>3
<1>18. Fits(h, d, l, u, Y)
  <2>1. Record(a) \in Y
    BY <1>16
  <2>2. Attesting(h, a, e, Y)
    <3>1. Trust(a, d, e) \in Y
      BY <1>16
    <3>2. Trust(a, d, e).at = "attest" /\ Trust(a, d, e).acct = a /\ Trust(a, d, e).epoch = e
      BY DEF Trust
    <3> QED BY <1>9, <3>1, <3>2 DEF Attesting
  <2>3. Intended(l, a, Y)
    BY <1>17, <2>1 DEF Intended, Ready, Own, Flows
  <2>4. Listed(h, d, a, Y)
    BY <2>1 DEF Listed
  <2> QED BY <1>5, <1>9, <1>17, <2>2, <2>3, <2>4, FitsIdentity DEF Ready
<1>19. Identity(a, e) \in {u}
  OBVIOUS
<1> HIDE DEF u, R
<1>20. Part(h, d, l, p1 \o p2 \o p3 \o <<u>>, {}, Y \cup {u}) /\ Ready(l, a, Y \cup {u})
  <2>1. Part(h, d, l, <<u>>, {} \cup Y, {u})
    BY <1>10, <1>18, PartOne
  <2> QED BY <1>5, <1>10, <1>17, <2>1, PartConcat, ReadyMore
<1>21. PICK Z : Z = Y \cup {u}
  OBVIOUS
<1>22. PICK H : Part(h, d, l, p4, Z, H) /\ \A z \in H : Own(z, a)
  BY <1>2, <1>4, <1>5, <1>6, BootstrapRecoveryPart
<1> HIDE DEF p4
<1>23. PICK W : W = Z \cup H
  OBVIOUS
<1>24. Part(h, d, l, p1 \o p2 \o p3 \o <<u>> \o p4, {}, W) /\ Ready(l, a, W)
  <2>1. Part(h, d, l, p4, {} \cup Z, H) /\ Part(h, d, l, p1 \o p2 \o p3 \o <<u>>, {}, Z) /\ Ready(l, a, Z)
    BY <1>20, <1>21, <1>22
  <2>2. Part(h, d, l, p1 \o p2 \o p3 \o <<u>> \o p4, {}, Z \cup H)
    BY <2>1, PartConcat
  <2>3. Ready(l, a, Z \cup H)
    BY <1>5, <1>22, <2>1, ReadyMore
  <2> QED BY <1>23, <2>2, <2>3
<1>25. Fits(h, d, l, v, W)
  <2>1. Identity(a, e) \in W
    BY <1>19, <1>21, <1>23
  <2>2. \A z \in W, b \in Account : BindsTo(z, b) => b = a
    BY <1>24 DEF Ready, Own
  <2> QED BY <1>5, <1>9, <2>1, <2>2, FitsAdopt
<1> HIDE DEF v
<1>26. Part(h, d, l, p1 \o p2 \o p3 \o <<u>> \o p4 \o <<v>>, {}, W \cup {v})
  <2>1. Part(h, d, l, <<v>>, {} \cup W, {v})
    BY <1>10, <1>25, PartOne
  <2> QED BY <1>24, <2>1, PartConcat
<1> QED BY <1>1, <1>2, <1>3, <1>4, <1>8, <1>26, Started

-----------------------------------------------------------------------------

LEMMA InitInv == Init => Inv
<1> SUFFICES ASSUME Init PROVE Inv
  OBVIOUS
<1>1. PICK s \in Setups :
        /\ authenticated = s.authenticated /\ relay = s.relay /\ local = s.local
        /\ user = s.user /\ minted = s.minted
  BY DEF Init
<1>2. plan = [d \in Device |-> <<>>] /\ mixed = {} /\ carried = {} /\ unlisted = {}
  BY DEF Init
<1>3. Sensible(s)
  BY RosterAssumption
<1>4. TypeOK
  <2>1. <<>> \in Seq(Writes)
    OBVIOUS
  <2>2. plan \in [Device -> Seq(Writes)]
    BY <1>2, <2>1
  <2>3. authenticated \in BOOLEAN /\ relay \in Relays /\ local \in [Device -> Locals] /\ user \in Users /\ minted \in 0..MaxMinted
    BY <1>1, <1>3 DEF Sensible
  <2> QED BY <1>2, <2>2, <2>3 DEF TypeOK
<1>5. \A g : g = Shared => g.records = relay.records /\ g.attests = relay.attests /\ g.mixed = {} /\ g.carried = {}
  BY <1>2 DEF Shared
<1>6. DevicesFit
  <2> SUFFICES ASSUME NEW g, g = Shared, NEW d \in Device, NEW l, NEW p, l = local[d], p = plan[d]
               PROVE  Goes(g, d, l, p)
    BY DEF DevicesFit
  <2>1. l \in Locals /\ p = <<>>
    BY <1>2, <1>4 DEF TypeOK
  <2>2. Settled(s, d)
    BY <1>3 DEF Sensible
  <2>3. /\ l.id # None => l.keys \/ l.ark # None
        /\ l.session # None => l.intent # None /\ l.session = l.intent.acct
        /\ l.intent # None /\ l.intent.active => l.server
        /\ l.server => /\ l.keys /\ l.ark # None /\ l.db # None /\ l.id = l.db
                       /\ d \in g.records[l.db] /\ Attested(g.attests[l.db], l.epoch)
                       /\ l.intent # None => l.intent.acct = l.db
        /\ ~l.server => l.db = None /\ l.epoch = 0
    BY <1>1, <1>5, <2>2 DEF Settled
  <2>4. Holds(g, d, l)
    BY <2>1, <2>3 DEF Holds, Covered
  <2> QED BY <2>1, <2>4, GoesEmpty
<1>7. BundlesFit
  <2> SUFFICES ASSUME NEW g, g = Shared, NEW a \in Account, NEW d \in Device, NEW q, q = relay.wraps[a][d], NEW i \in DOMAIN q
               PROVE  Deliverable(g, a, d, q[i])
    BY DEF BundlesFit
  <2>1. q[i].kind = "enrollment" => d \in s.relay.records[a] /\ Attested(s.relay.attests[a], q[i].epoch)
    BY <1>1, <1>3 DEF Sensible
  <2> QED BY <1>1, <1>5, <2>1 DEF Deliverable, Covered
<1> QED BY <1>4, <1>6, <1>7 DEF Inv

\* Every step keeps the invariant.
LEMMA NextKeeps == Inv /\ [Next]_vars => Inv'
<1> SUFFICES ASSUME Inv, [Next]_vars PROVE Inv'
  OBVIOUS
<1>1. CASE UNCHANGED vars
  <2>1. UNCHANGED <<authenticated, relay, local, plan, user, mixed, carried, unlisted, minted>>
    BY <1>1 DEF vars
  <2>2. TypeOK'
    BY <2>1 DEF Inv, TypeOK
  <2>3. DevicesFit'
    BY <2>1 DEF Inv, DevicesFit, Shared
  <2>4. BundlesFit'
    BY <2>1 DEF Inv, BundlesFit, Shared
  <2> QED BY <2>2, <2>3, <2>4 DEF Inv
<1>2. CASE Next
  <2>1. PICK d \in Device :
          Keys(d) \/ Remote(d) \/ Ceremony(d) \/ SaveItem(d) \/ Perform(d) \/ Refused(d) \/ Killed(d)
    BY <1>2 DEF Next
  <2>2. CASE Keys(d)
    BY <2>2, DeviceKeyInitKeeps, ExportPackageKeeps, ImportPackageKeeps DEF Keys
  <2>3. CASE Remote(d)
    BY <2>3, EnableKeeps, AttachKeeps, LoginJoinKeeps, LoginRenewKeeps, RevokeSessionKeeps, SyncKeeps DEF Remote
  <2>4. CASE Ceremony(d)
    <3>1. CASE \E auth \in BOOLEAN, secret \in Secrets : Bootstrap(d, auth, secret)
      BY <3>1, BootstrapKeeps
    <3>2. CASE Invite(d) \/ Enroll(d) \/ Approve(d) \/ Accept(d) \/ Revoke(d) \/ RecoveryEnable(d) \/ Recover(d)
      BY <3>2, InviteKeeps, EnrollKeeps, ApproveKeeps, AcceptKeeps, RevokeKeeps, RecoveryEnableKeeps, RecoverKeeps
    <3> QED BY <2>4, <3>1, <3>2 DEF Ceremony
  <2>5. CASE SaveItem(d)
    BY <2>5, ContentSaved
  <2>6. CASE Perform(d)
    BY <2>6, WriteDone
  <2>7. CASE Refused(d) \/ Killed(d)
    BY <2>7, PlanDropped
  <2> QED BY <2>1, <2>2, <2>3, <2>4, <2>5, <2>6, <2>7
<1> QED BY <1>1, <1>2

\* Every write of every command finds what it relies on: ids, keys, root and intent on the device,
\* the record and the attestation at the relay, however commands are interleaved and cut short.
THEOREM PlansFit == Spec => []Inv
<1>1. Init => Inv
  BY InitInv
<1>2. Inv /\ [Next]_vars => Inv'
  BY NextKeeps
<1> QED BY <1>1, <1>2, PTL DEF Spec

\* Relay, devices, plans and what the user was told stay of their types.
THEOREM TypeCorrect == Spec => []TypeOK
<1>1. Inv => TypeOK
  BY DEF Inv
<1> QED BY <1>1, PlansFit, PTL

\* What a device holds, by name.
LEMMA DeviceHolds ==
  ASSUME Inv, NEW d \in Device
  PROVE  \E g, l : /\ g = Shared /\ l = local[d] /\ l \in Locals /\ Holds(g, d, l)
                   /\ g.records = relay.records /\ g.attests = relay.attests
                   /\ g.mixed = mixed /\ g.carried = carried /\ g.unlisted = unlisted
<1>1. PICK g : g = Shared
  OBVIOUS
<1>2. PICK l : l = local[d]
  OBVIOUS
<1>3. l \in Locals /\ Holds(g, d, l)
  BY <1>1, <1>2 DEF Inv, TypeOK, DevicesFit, Goes
<1>4. /\ g.records = relay.records /\ g.attests = relay.attests
      /\ g.mixed = mixed /\ g.carried = carried /\ g.unlisted = unlisted
  BY <1>1 DEF Shared
<1> QED BY <1>1, <1>2, <1>3, <1>4

\* A bound device is on its account's roster, unless its command publishes no record or the id was
\* put to another key; key store, intent and session name the account of the database.
THEOREM BoundAreListed == Spec => []SignersListed
<1>1. Inv => SignersListed
  <2> SUFFICES ASSUME Inv, NEW d \in Device PROVE
         LET l == local[d]
         IN  l.server /\ l.db \notin mixed =>
               /\ d \notin unlisted => d \in roster(l.db)
               /\ l.id = l.db /\ l.keys /\ l.ark # None
               /\ l.session \in {None, l.db}
               /\ l.intent # None => l.intent.acct = l.db
    BY DEF SignersListed
  <2>1. PICK g, l : /\ l = local[d] /\ l \in Locals /\ Holds(g, d, l)
                    /\ g.records = relay.records /\ g.mixed = mixed /\ g.unlisted = unlisted
    BY DeviceHolds
  <2>2. l.server /\ l.db \notin mixed =>
               /\ d \notin unlisted => d \in roster(l.db)
               /\ l.id = l.db /\ l.keys /\ l.ark # None
               /\ l.session \in {None, l.db}
               /\ l.intent # None => l.intent.acct = l.db
    BY <2>1 DEF Holds, roster
  <2> QED BY <2>1, <2>2
<1> QED BY <1>1, PlansFit, PTL

\* While no account has more attestations than the relay lists at once, none of its devices is at
\* an epoch newer than the one a device that recovers it would read.
THEOREM EpochsAreAttested ==
  Spec => []((\A a \in Account : Len(relay.attests[a]) <= PageLimit) => EpochAttested)
<1>1. Inv => ((\A a \in Account : Len(relay.attests[a]) <= PageLimit) => EpochAttested)
  <2> SUFFICES ASSUME Inv, \A a \in Account : Len(relay.attests[a]) <= PageLimit, NEW d \in Device,
                      local[d].server, local[d].db \notin mixed \cup carried
               PROVE  local[d].epoch <= current_epoch(local[d].db)
    BY DEF EpochAttested
  <2>1. PICK g, l : /\ l = local[d] /\ l \in Locals /\ Holds(g, d, l)
                    /\ g.attests = relay.attests /\ g.mixed = mixed /\ g.carried = carried
    BY DeviceHolds
  <2>2. l.db \in Account /\ l.epoch \in Nat
    BY <2>1, LocalTypes DEF Holds
  <2>3. Attested(relay.attests[l.db], l.epoch)
    BY <2>1 DEF Holds, Covered, Excused
  <2>4. PICK c : c = current_epoch(l.db)
    OBVIOUS
  <2>5. c \in Nat /\ \A i \in DOMAIN relay.attests[l.db] : relay.attests[l.db][i].epoch <= c
    BY <2>2, <2>4, GreatestEpoch DEF Inv
  <2>6. CASE l.epoch = 0
    BY <2>1, <2>4, <2>5, <2>6
  <2>7. CASE \E i \in DOMAIN relay.attests[l.db] : relay.attests[l.db][i].epoch >= l.epoch
    <3>1. PICK i \in DOMAIN relay.attests[l.db] : relay.attests[l.db][i].epoch >= l.epoch
      BY <2>7
    <3>2. relay.attests[l.db][i].epoch \in Nat
      <4>1. relay.attests \in [Account -> Seq(Attestations)]
        BY RelayTypes DEF Inv, TypeOK
      <4>2. relay.attests[l.db] \in Seq(Attestations)
        BY <2>2, <4>1
      <4>3. relay.attests[l.db][i] \in Attestations
        BY <3>1, <4>2
      <4> QED BY <4>3 DEF Attestations
    <3> QED BY <2>1, <2>2, <2>4, <2>5, <3>1, <3>2
  <2> QED BY <2>3, <2>6, <2>7 DEF Attested
<1> QED BY <1>1, PlansFit, PTL

-----------------------------------------------------------------------------
(* One root key for an account.                                                                *)
(*                                                                                             *)
(* A root key is tied to an account's id where they are kept together, and where a write of a  *)
(* plan is still to bring them together.  What a write leaves tied was tied before; a command   *)
(* ties a fresh id, or an id to the key it goes by, or it puts the id to another key and says so. *)

\* The writes that give a root key away under an account's id.
Gives(w, a, k) ==
  \/ w.at = "wrap" /\ w.acct = a /\ w.bundle.kind = "enrollment" /\ w.bundle.ark = k
  \/ w.at = "recovery" /\ w.acct = a /\ w.blob.ark = k
  \/ w.at = "tell" /\ w.what = "packages" /\ w.is.id = a /\ w.is.ark = k
Fails(E) == \E w \in E : w.at = "fail"
SavesRoot(E) == \E k : Save([ark |-> k]) \in E

\* Roots that a device and its plan tie to an id; what comes after a failure is never done.
Ties(l, p, a, k) ==
  \/ (l.id = a \/ Save([id |-> a]) \in Elems(p)) /\ Save([ark |-> k]) \in Elems(p)
  \/ l.id = a /\ l.ark = k /\ k # None
  \/ l.ark = k /\ k # None /\ \E i \in 1..Len(p) : p[i] = Save([id |-> a]) /\ ~SavesRoot(Before(p, i))
  \/ \E i \in 1..Len(p) : Gives(p[i], a, k) /\ ~Fails(Before(p, i))
  \/ Step("push", a) \in Elems(p) /\ (l.ark = k \/ Save([ark |-> k]) \in Elems(p))

\* Roots kept under an id by the relay and by the user.
Kept(r, u, a, k) ==
  \/ \E d \in Device : \E i \in DOMAIN r.wraps[a][d] : r.wraps[a][d][i].kind = "enrollment" /\ r.wraps[a][d][i].ark = k
  \/ r.recovery[a] # None /\ r.recovery[a].ark = k
  \/ \E q \in u.packages : q.id = a /\ q.ark = k
  \/ r.first[a] # None /\ r.first[a].ark = k

Tied(a, k) ==
  \/ \E r, u : r = relay /\ u = user /\ Kept(r, u, a, k)
  \/ \E d \in Device : \E l, p : l = local[d] /\ p = plan[d] /\ Ties(l, p, a, k)

RootsFit ==
  \A a \in Account : \A k : Tied(a, k) =>
    /\ a \in mixed \/ a <= minted
    /\ \A m : Tied(a, m) => k = m \/ a \in mixed

\* Before a blob is published its code is told or kept, and what is kept is not replaced.
Shows(l, p, codes) ==
  /\ \A i \in 1..Len(p) : p[i].at = "recovery" =>
       \/ p[i].blob.secret \in codes \/ l.capture = p[i].blob
       \/ Save([capture |-> p[i].blob]) \in Before(p, i) \/ Tell("codes", p[i].blob.secret) \in Before(p, i)
  /\ \A i \in 1..Len(p) : \A b : p[i] = Save([capture |-> b]) =>
       l.capture = None /\ \A c : Save([capture |-> c]) \notin Before(p, i)

CodesFit ==
  /\ \A d \in Device : \A l, p, c : l = local[d] /\ p = plan[d] /\ c = user.codes => Shows(l, p, c)
  /\ \A a \in Account : \A b : b = relay.recovery[a] /\ b # None =>
       b.secret \in user.codes \/ \E d \in Device : local[d].capture = b

-----------------------------------------------------------------------------
(* Doing a write. *)

\* w is first in plan p, and t is the rest.
Parted(p, w, t) ==
  /\ w \in Writes /\ w \in Elems(p) /\ t \in Seq(Writes)
  /\ \A u : u \in Elems(t) => u \in Elems(p)
  /\ 1 \in 1..Len(p) /\ p[1] = w /\ Before(p, 1) = {}
  /\ \A i \in 1..Len(t) : /\ i + 1 \in 1..Len(p) /\ p[i + 1] = t[i]
                          /\ \A u : u \in Before(p, i + 1) <=> u = w \/ u \in Before(t, i)

LEMMA TailOrder ==
  ASSUME NEW p \in Seq(Writes), p # <<>>, NEW t, t = Tail(p), NEW w, w = Head(p)
  PROVE  Parted(p, w, t)
<1>1. t \in Seq(Writes) /\ Len(t) = Len(p) - 1 /\ Len(p) \in Nat /\ Len(p) > 0
  OBVIOUS
<1>2. \A i \in 1..Len(t) : t[i] = p[i + 1] /\ t[i] \in Writes
  OBVIOUS
<1>3. w = p[1] /\ w \in Writes
  OBVIOUS
<1>4. \A u : u \in Elems(t) => u \in Elems(p)
  <2> SUFFICES ASSUME NEW i \in 1..Len(t) PROVE t[i] \in Elems(p)
    BY DEF Elems
  <2>1. i + 1 \in 1..Len(p) /\ t[i] = p[i + 1]
    BY <1>1, <1>2
  <2> QED BY <2>1 DEF Elems
<1>5. w \in Elems(p)
  BY <1>1, <1>3 DEF Elems
<1>6. Before(p, 1) = {}
  BY DEF Before
<1>7. ASSUME NEW i \in 1..Len(t)
      PROVE  /\ i + 1 \in 1..Len(p) /\ p[i + 1] = t[i]
             /\ \A u : u \in Before(p, i + 1) <=> u = w \/ u \in Before(t, i)
  <2>1. i + 1 \in 1..Len(p) /\ p[i + 1] = t[i]
    BY <1>1, <1>2
  <2>2. \A u : u \in Before(p, i + 1) => u = w \/ u \in Before(t, i)
    <3> SUFFICES ASSUME NEW j \in 1..i PROVE p[j] = w \/ p[j] \in Before(t, i)
      BY <1>1 DEF Before
    <3>1. CASE j = 1
      BY <3>1, <1>3
    <3>2. CASE j # 1
      <4>1. j - 1 \in 1..(i - 1) /\ t[j - 1] = p[j]
        BY <3>2, <1>1, <1>2
      <4> QED BY <4>1 DEF Before
    <3> QED BY <3>1, <3>2
  <2>3. \A u : u = w \/ u \in Before(t, i) => u \in Before(p, i + 1)
    <3>1. w \in Before(p, i + 1)
      BY <1>1, <1>3 DEF Before
    <3>2. ASSUME NEW j \in 1..(i - 1) PROVE t[j] \in Before(p, i + 1)
      BY <1>1, <1>2 DEF Before
    <3> QED BY <3>1, <3>2 DEF Before
  <2> QED BY <2>1, <2>2, <2>3
<1> QED BY <1>1, <1>3, <1>4, <1>5, <1>6, <1>7 DEF Parted

\* A write that is done and saves no root key.
Rootless(w) == w.at # "fail" /\ \A x : w # Save([ark |-> x])

\* A write that saves neither id nor root key.
LEMMA TiesSame ==
  ASSUME NEW p \in Seq(Writes), p # <<>>, NEW t, t = Tail(p), NEW w, w = Head(p), NEW l, NEW m,
         m.id = l.id, m.ark = l.ark, Rootless(w),
         NEW a, NEW k, Ties(m, t, a, k)
  PROVE  Ties(l, p, a, k)
<1>0. Parted(p, w, t)
  BY TailOrder
<1>1. /\ \A u : u \in Elems(t) => u \in Elems(p)
      /\ \A i \in 1..Len(t) : /\ i + 1 \in 1..Len(p) /\ p[i + 1] = t[i]
                              /\ \A u : u \in Before(p, i + 1) <=> u = w \/ u \in Before(t, i)
  BY <1>0 DEF Parted
<1> HIDE DEF Elems
<1>2. CASE (m.id = a \/ Save([id |-> a]) \in Elems(t)) /\ Save([ark |-> k]) \in Elems(t)
  BY <1>1, <1>2 DEF Ties
<1>3. CASE m.id = a /\ m.ark = k /\ k # None
  BY <1>3 DEF Ties
<1>4. CASE m.ark = k /\ k # None /\ \E i \in 1..Len(t) : t[i] = Save([id |-> a]) /\ ~SavesRoot(Before(t, i))
  <2>1. PICK i \in 1..Len(t) : t[i] = Save([id |-> a]) /\ ~SavesRoot(Before(t, i))
    BY <1>4
  <2>2. ~SavesRoot(Before(p, i + 1))
    BY <1>1, <2>1 DEF SavesRoot, Rootless
  <2> QED BY <1>1, <1>4, <2>1, <2>2 DEF Ties
<1>5. CASE \E i \in 1..Len(t) : Gives(t[i], a, k) /\ ~Fails(Before(t, i))
  <2>1. PICK i \in 1..Len(t) : Gives(t[i], a, k) /\ ~Fails(Before(t, i))
    BY <1>5
  <2>2. ~Fails(Before(p, i + 1))
    BY <1>1, <2>1 DEF Fails, Rootless
  <2>3. i + 1 \in 1..Len(p) /\ Gives(p[i + 1], a, k)
    BY <1>1, <2>1
  <2> QED BY <2>2, <2>3 DEF Ties
<1>6. CASE Step("push", a) \in Elems(t) /\ (m.ark = k \/ Save([ark |-> k]) \in Elems(t))
  BY <1>1, <1>6 DEF Ties
<1> QED BY <1>2, <1>3, <1>4, <1>5, <1>6 DEF Ties

LEMMA TiesRootSave ==
  ASSUME NEW p \in Seq(Writes), p # <<>>, NEW t, t = Tail(p), NEW l, NEW m, NEW x, Head(p) = Save([ark |-> x]),
         m.id = l.id, m.ark = x,
         NEW a, NEW k, Ties(m, t, a, k)
  PROVE  Ties(l, p, a, k)
<1>1. PICK w : w = Head(p) /\ w = Save([ark |-> x])
  OBVIOUS
<1>0. Parted(p, w, t)
  BY <1>1, TailOrder
<1>2. /\ w \in Elems(p) /\ \A u : u \in Elems(t) => u \in Elems(p)
      /\ \A i \in 1..Len(t) : /\ i + 1 \in 1..Len(p) /\ p[i + 1] = t[i]
                              /\ \A u : u \in Before(p, i + 1) <=> u = w \/ u \in Before(t, i)
  BY <1>0 DEF Parted
<1>3. w.at # "fail"
  BY <1>1 DEF Save
<1>4. CASE (m.id = a \/ Save([id |-> a]) \in Elems(t)) /\ Save([ark |-> k]) \in Elems(t)
  BY <1>2, <1>4 DEF Ties
<1>5. CASE m.id = a /\ m.ark = k /\ k # None
  BY <1>1, <1>2, <1>5 DEF Ties
<1>6. CASE m.ark = k /\ k # None /\ \E i \in 1..Len(t) : t[i] = Save([id |-> a]) /\ ~SavesRoot(Before(t, i))
  <2>1. Save([id |-> a]) \in Elems(t)
    BY <1>6 DEF Elems
  <2> QED BY <1>1, <1>2, <1>6, <2>1 DEF Ties
<1>7. CASE \E i \in 1..Len(t) : Gives(t[i], a, k) /\ ~Fails(Before(t, i))
  <2>1. PICK i \in 1..Len(t) : Gives(t[i], a, k) /\ ~Fails(Before(t, i))
    BY <1>7
  <2>2. ~Fails(Before(p, i + 1))
    BY <1>2, <1>3, <2>1 DEF Fails
  <2>3. i + 1 \in 1..Len(p) /\ Gives(p[i + 1], a, k)
    BY <1>2, <2>1
  <2> QED BY <2>2, <2>3 DEF Ties
<1>8. CASE Step("push", a) \in Elems(t) /\ (m.ark = k \/ Save([ark |-> k]) \in Elems(t))
  BY <1>1, <1>2, <1>8 DEF Ties
<1> QED BY <1>4, <1>5, <1>6, <1>7, <1>8 DEF Ties

LEMMA TiesIdSave ==
  ASSUME NEW p \in Seq(Writes), p # <<>>, NEW t, t = Tail(p), NEW l, NEW m, NEW x, Head(p) = Save([id |-> x]),
         m.id = x, m.ark = l.ark,
         NEW a, NEW k, Ties(m, t, a, k)
  PROVE  Ties(l, p, a, k)
<1>1. PICK w : w = Head(p) /\ w = Save([id |-> x])
  OBVIOUS
<1>0. Parted(p, w, t)
  BY <1>1, TailOrder
<1>2. /\ w \in Elems(p) /\ \A u : u \in Elems(t) => u \in Elems(p)
      /\ 1 \in 1..Len(p) /\ p[1] = w /\ Before(p, 1) = {}
      /\ \A i \in 1..Len(t) : /\ i + 1 \in 1..Len(p) /\ p[i + 1] = t[i]
                              /\ \A u : u \in Before(p, i + 1) <=> u = w \/ u \in Before(t, i)
  BY <1>0 DEF Parted
<1>3. w.at # "fail" /\ \A y : w # Save([ark |-> y])
  <2>1. \A y : Save([id |-> x]) # Save([ark |-> y])
    BY DEF Save
  <2>2. w.at # "fail"
    BY <1>1 DEF Save
  <2> QED BY <1>1, <2>1, <2>2
<1>4. CASE (m.id = a \/ Save([id |-> a]) \in Elems(t)) /\ Save([ark |-> k]) \in Elems(t)
  BY <1>1, <1>2, <1>4 DEF Ties
<1>5. CASE m.id = a /\ m.ark = k /\ k # None
  <2>1. ~SavesRoot(Before(p, 1))
    BY <1>2 DEF SavesRoot
  <2> QED BY <1>1, <1>2, <1>5, <2>1 DEF Ties
<1>6. CASE m.ark = k /\ k # None /\ \E i \in 1..Len(t) : t[i] = Save([id |-> a]) /\ ~SavesRoot(Before(t, i))
  <2>1. PICK i \in 1..Len(t) : t[i] = Save([id |-> a]) /\ ~SavesRoot(Before(t, i))
    BY <1>6
  <2>2. ~SavesRoot(Before(p, i + 1))
    BY <1>2, <1>3, <2>1 DEF SavesRoot
  <2> QED BY <1>2, <1>6, <2>1, <2>2 DEF Ties
<1>7. CASE \E i \in 1..Len(t) : Gives(t[i], a, k) /\ ~Fails(Before(t, i))
  <2>1. PICK i \in 1..Len(t) : Gives(t[i], a, k) /\ ~Fails(Before(t, i))
    BY <1>7
  <2>2. ~Fails(Before(p, i + 1))
    BY <1>2, <1>3, <2>1 DEF Fails
  <2>3. i + 1 \in 1..Len(p) /\ Gives(p[i + 1], a, k)
    BY <1>2, <2>1
  <2> QED BY <2>2, <2>3 DEF Ties
<1>8. CASE Step("push", a) \in Elems(t) /\ (m.ark = k \/ Save([ark |-> k]) \in Elems(t))
  BY <1>2, <1>8 DEF Ties
<1> QED BY <1>4, <1>5, <1>6, <1>7, <1>8 DEF Ties

\* A write that saves no id or root key and gives none away.
Quiet(u) ==
  /\ \A x : u # Save([ark |-> x]) /\ u # Save([id |-> x])
  /\ \A a, k : ~Gives(u, a, k)
  /\ u.at # "push"

LEMMA QuietTies ==
  ASSUME NEW l, NEW p, \A u \in Elems(p) : Quiet(u), NEW a, NEW k, Ties(l, p, a, k)
  PROVE  l.id = a /\ l.ark = k /\ k # None
<1>1. Save([ark |-> k]) \notin Elems(p)
  BY DEF Quiet
<1>2. \A i \in 1..Len(p) : p[i] # Save([id |-> a]) /\ ~Gives(p[i], a, k)
  BY DEF Quiet, Elems
<1>3. Step("push", a) \notin Elems(p)
  BY DEF Quiet, Step
<1> QED BY <1>1, <1>2, <1>3 DEF Ties

LEMMA QuietWrites ==
  /\ Quiet(KeysSave)
  /\ \A x : Quiet(Save([capture |-> x])) /\ Quiet(Save([epoch |-> x]))
  /\ \A x, e : Quiet(Identity(x, e))
  /\ \A x : Quiet(Record(x)) /\ Quiet(Sessions(x))
  /\ \A u : u.at = "attest" => Quiet(u)
  /\ \A x, f : Quiet(Intend(x, f))
  /\ \A x, y : x # "packages" => Quiet(Tell(x, y))
  /\ \A x, n : n \notin {"local", "push", "wrap", "recovery", "tell"} => Quiet(Step(n, x))
<1> USE DEF Quiet, Gives
<1>1. Quiet(KeysSave)
  BY DEF KeysSave, Save
<1>2. \A x : Quiet(Save([capture |-> x])) /\ Quiet(Save([epoch |-> x]))
  BY DEF Save
<1>3. \A x, e : Quiet(Identity(x, e))
  BY DEF Identity, Save
<1>4. \A x : Quiet(Record(x)) /\ Quiet(Sessions(x))
  BY DEF Record, Sessions, Save
<1>5. \A u : u.at = "attest" => Quiet(u)
  BY DEF Save
<1>6. \A x, f : Quiet(Intend(x, f))
  BY DEF Intend, Save
<1>7. \A x, y : x # "packages" => Quiet(Tell(x, y))
  BY DEF Tell, Save
<1>8. \A x, n : n \notin {"local", "push", "wrap", "recovery", "tell"} => Quiet(Step(n, x))
  BY DEF Step, Save
<1> HIDE DEF Quiet, Gives
<1> QED BY <1>1, <1>2, <1>3, <1>4, <1>5, <1>6, <1>7, <1>8

\* What a write does to the id, the root key and the code that a device keeps.
Changes(w, l, m) ==
  \/ \E k : w = Save([ark |-> k]) /\ m.id = l.id /\ m.ark = k /\ m.capture = l.capture
  \/ \E a : w = Save([id |-> a]) /\ m.id = a /\ m.ark = l.ark /\ m.capture = l.capture
  \/ \E b : w = Save([capture |-> b]) /\ m.id = l.id /\ m.ark = l.ark /\ m.capture = b
  \/ /\ m.id = l.id /\ m.ark = l.ark /\ m.capture = l.capture
     /\ \A x : w # Save([ark |-> x]) /\ w # Save([capture |-> x])

LEMMA LocalFields ==
  ASSUME NEW d, NEW l, l = local[d], l \in Locals, NEW w \in Writes, NEW m, m = LocalAfter(d, w)
  PROVE  Changes(w, l, m)
<1> DEFINE Same == /\ m.id = l.id /\ m.ark = l.ark /\ m.capture = l.capture
                   /\ \A x : w # Save([ark |-> x]) /\ w # Save([capture |-> x])
<1>1. ASSUME w.at # "local", m.id = l.id /\ m.ark = l.ark /\ m.capture = l.capture PROVE Same
  BY <1>1 DEF Save
<1>2. ASSUME w \in LocalWrites
      PROVE  \/ \E k : w = Save([ark |-> k]) /\ m.id = l.id /\ m.ark = k /\ m.capture = l.capture
             \/ \E a : w = Save([id |-> a]) /\ m.id = a /\ m.ark = l.ark /\ m.capture = l.capture
             \/ \E b : w = Save([capture |-> b]) /\ m.id = l.id /\ m.ark = l.ark /\ m.capture = b
             \/ Same
  <2>0. /\ LocalAfter(d, Save([keys |-> TRUE])) = [local[d] EXCEPT !.keys = TRUE]
        /\ \A k : LocalAfter(d, Save([ark |-> k])) = [local[d] EXCEPT !.ark = k]
        /\ \A k : LocalAfter(d, Save([id |-> k])) = [local[d] EXCEPT !.id = k]
        /\ \A k : LocalAfter(d, Save([capture |-> k])) = [local[d] EXCEPT !.capture = k]
        /\ \A k : LocalAfter(d, Save([epoch |-> k])) = [local[d] EXCEPT !.epoch = k]
        /\ \A a, e : LocalAfter(d, Identity(a, e)) = Bound(local[d], a, e)
    BY LocalSaves
  <2>1. CASE w = Save([keys |-> TRUE])
    <3>1. m = [l EXCEPT !.keys = TRUE]
      BY <2>0, <2>1, Zenon
    <3>2. \A x : w # Save([ark |-> x]) /\ w # Save([capture |-> x])
      BY <2>1 DEF Save
    <3>3. m.id = l.id /\ m.ark = l.ark /\ m.capture = l.capture
      BY <3>1 DEF Locals
    <3> QED BY <3>2, <3>3
  <2>2. ASSUME NEW k \in Nat, w = Save([ark |-> k]) PROVE m.id = l.id /\ m.ark = k /\ m.capture = l.capture
    <3>1. m = [l EXCEPT !.ark = k]
      BY <2>0, <2>2, Zenon
    <3> QED BY <3>1 DEF Locals
  <2>3. ASSUME NEW a \in Account, w = Save([id |-> a]) PROVE m.id = a /\ m.ark = l.ark /\ m.capture = l.capture
    <3>1. m = [l EXCEPT !.id = a]
      BY <2>0, <2>3, Zenon
    <3> QED BY <3>1 DEF Locals
  <2>4. ASSUME NEW b \in Blobs, w = Save([capture |-> b]) PROVE m.id = l.id /\ m.ark = l.ark /\ m.capture = b
    <3>1. m = [l EXCEPT !.capture = b]
      BY <2>0, <2>4, Zenon
    <3> QED BY <3>1 DEF Locals
  <2>5. ASSUME NEW e \in Nat, w = Save([epoch |-> e]) PROVE Same
    <3>1. m = [l EXCEPT !.epoch = e]
      BY <2>0, <2>5, Zenon
    <3>2. \A x : w # Save([ark |-> x]) /\ w # Save([capture |-> x])
      BY <2>5 DEF Save
    <3>3. m.id = l.id /\ m.ark = l.ark /\ m.capture = l.capture
      BY <3>1 DEF Locals
    <3> QED BY <3>2, <3>3
  <2>6. ASSUME NEW a \in Account, NEW e \in Nat, w = Identity(a, e) PROVE Same
    <3>1. m = Bound(l, a, e)
      BY <2>0, <2>6, Zenon
    <3>2. \A x : w # Save([ark |-> x]) /\ w # Save([capture |-> x])
      BY <2>6 DEF Save, Identity
    <3>3. m.id = l.id /\ m.ark = l.ark /\ m.capture = l.capture
      BY <3>1 DEF Locals, Bound
    <3> QED BY <3>2, <3>3
  <2> HIDE DEF Same
  <2> QED BY <1>2, LocalKinds, <2>1, <2>2, <2>3, <2>4, <2>5, <2>6
<1>3. ASSUME w \in RelayWrites PROVE w.at # "local" /\ m = l
  <2>1. ASSUME NEW a \in Account, w = Record(a) PROVE w.at # "local" /\ m = l
    BY <2>1, LocalEffects DEF Record
  <2>2. ASSUME w.at = "attest" PROVE w.at # "local" /\ m = l
    BY <2>2, LocalEffects
  <2>3. ASSUME NEW a \in Account, NEW to \in Device, NEW b \in Bundles, w = Wrap(a, to, b) PROVE w.at # "local" /\ m = l
    BY <2>3, LocalEffects DEF Wrap
  <2>4. ASSUME NEW a \in Account, NEW b \in Blobs, w = Blob(a, b) PROVE w.at # "local" /\ m = l
    BY <2>4, LocalEffects DEF Blob
  <2>5. ASSUME NEW of \in Device, w = Sessions(of) PROVE w.at # "local" /\ m = l
    BY <2>5, LocalEffects DEF Sessions
  <2>6. \A v \in [at : {"attest"}, acct : Account, kind : {"trust", "revoke"}, of : Device, epoch : Nat] : v.at = "attest"
    OBVIOUS
  <2> QED BY <1>3, RelayKinds, <2>1, <2>2, <2>3, <2>4, <2>5, <2>6
<1>4. ASSUME w \in UserWrites PROVE w.at # "local" /\ m = l
  <2>1. PICK x, y : w = Tell(x, y)
    BY <1>4, UserKinds
  <2> QED BY <2>1, LocalEffects DEF Tell
<1>5. ASSUME w \in OtherWrites PROVE w.at # "local" /\ m.id = l.id /\ m.ark = l.ark /\ m.capture = l.capture
  <2>1. ASSUME NEW a \in Account, NEW f \in {"create", "join", "attach"}, w = Intend(a, f)
        PROVE  w.at # "local" /\ m.id = l.id /\ m.ark = l.ark /\ m.capture = l.capture
    <3>1. CASE l.intent = None
      <4>1. \A x, y : local[d].intent = None => LocalAfter(d, Intend(x, y)) = [local[d] EXCEPT !.intent = [flow |-> y, acct |-> x, active |-> FALSE]]
        BY LocalEffects
      <4>2. m = [l EXCEPT !.intent = [flow |-> f, acct |-> a, active |-> FALSE]]
        BY <2>1, <3>1, <4>1, Zenon
      <4> QED BY <2>1, <4>2 DEF Locals, Intend
    <3>2. CASE l.intent # None
      BY <2>1, <3>2, LocalEffects DEF Intend
    <3> QED BY <3>1, <3>2
  <2>2. ASSUME NEW n \in Steps, NEW a \in Account, w = Step(n, a)
        PROVE  w.at # "local" /\ m.id = l.id /\ m.ark = l.ark /\ m.capture = l.capture
    <3>0. w.at # "local"
      BY <2>2 DEF Step, Steps
    <3>1. \A x : Activated(l, x).id = l.id /\ Activated(l, x).ark = l.ark /\ Activated(l, x).capture = l.capture
      BY DEF Activated, Locals
    <3>2. CASE n = "session"
      <4>1. m = [l EXCEPT !.session = a]
        BY <2>2, <3>2, LocalEffects
      <4> QED BY <3>0, <4>1 DEF Locals
    <3>3. CASE n = "activate"
      BY <2>2, <3>0, <3>1, <3>3, LocalEffects
    <3>4. CASE n = "adopt"
      <4>1. m = Activated(l, a) \/ m = l
        BY <2>2, <3>4, LocalEffects
      <4> QED BY <3>0, <3>1, <4>1
    <3>5. CASE n \notin {"session", "activate", "adopt"}
      <4>1. \A o \in Steps : \A x : (o \notin {"session", "activate", "adopt"} => LocalAfter(d, Step(o, x)) = local[d])
        BY LocalEffects
      <4>2. m = l
        BY <2>2, <3>5, <4>1, Zenon
      <4> QED BY <3>0, <4>2
    <3> QED BY <3>2, <3>3, <3>4, <3>5
  <2> QED BY <1>5, OtherKinds, <2>1, <2>2
<1> HIDE DEF Same
<1>6. w \in LocalWrites \/ Same
  BY <1>1, <1>3, <1>4, <1>5 DEF Writes
<1> QED BY <1>2, <1>6 DEF Same, Changes

\* What a write does to the recovery blobs and to what was pushed first.
LEMMA RelayFields ==
  ASSUME relay \in Relays, NEW d \in Device, NEW w \in Writes, NEW r, r = RelayAfter(d, w), NEW a \in Account
  PROVE  /\ \/ r.recovery[a] = relay.recovery[a]
            \/ w.at = "recovery" /\ w.acct = a /\ r.recovery[a] = w.blob
         /\ \/ r.first[a] = relay.first[a]
            \/ w = Step("push", a) /\ r.first[a].ark = local[d].ark
<1> DEFINE Same == r.recovery = relay.recovery /\ r.first = relay.first
<1>1. ASSUME w.at = "record" PROVE Same
  <2>1. r = [relay EXCEPT !.records[w.acct] = @ \cup {d}]
    BY <1>1 DEF RelayAfter, device_record_put
  <2> QED BY <2>1 DEF Relays
<1>2. ASSUME w.at = "attest" PROVE Same
  <2>1. r = [relay EXCEPT !.attests[w.acct] = Append(@, [kind |-> w.kind, by |-> d, of |-> w.of, epoch |-> w.epoch])]
    BY <1>2 DEF RelayAfter, attestation_append
  <2> QED BY <2>1 DEF Relays
<1>3. ASSUME w.at = "wrap" PROVE Same
  <2>1. r = wrapped_bundle_put(w)
    BY <1>3 DEF RelayAfter
  <2>2. r = [relay EXCEPT !.wraps[w.acct][w.to] = Append(@, w.bundle)]
    BY <2>1 DEF wrapped_bundle_put
  <2>3. \A x : [relay EXCEPT !.wraps = x].recovery = relay.recovery /\ [relay EXCEPT !.wraps = x].first = relay.first
    BY DEF Relays
  <2> QED BY <2>2, <2>3
<1>4. ASSUME w.at = "bind" PROVE Same
  <2>1. r = [relay EXCEPT !.bound = w.acct]
    BY <1>4 DEF RelayAfter
  <2> QED BY <2>1 DEF Relays
<1>5. ASSUME w.at = "login" PROVE Same
  <2>1. r = [relay EXCEPT !.live = @ \cup {d}]
    BY <1>5 DEF RelayAfter
  <2> QED BY <2>1 DEF Relays
<1>6. ASSUME w.at = "sessions" PROVE Same
  <2>1. r = revoke_relay_sessions(d, w.of)
    BY <1>6 DEF RelayAfter
  <2>2. r = relay \/ r = [relay EXCEPT !.live = @ \ {w.of}]
    BY <2>1 DEF revoke_relay_sessions
  <2> QED BY <2>2 DEF Relays
<1>7. ASSUME w.at \notin {"record", "attest", "wrap", "recovery", "bind", "login", "sessions", "push"} PROVE Same
  <2>1. r = relay
    BY <1>7 DEF RelayAfter
  <2> QED BY <2>1
<1>8. ASSUME w.at = "recovery"
      PROVE  r.first = relay.first /\ (r.recovery[a] = relay.recovery[a] \/ (w.acct = a /\ r.recovery[a] = w.blob))
  <2>1. r = [relay EXCEPT !.recovery[w.acct] = w.blob]
    BY <1>8 DEF RelayAfter, recovery_blob_put
  <2>2. r.first = relay.first
    BY <2>1 DEF Relays
  <2>3. r.recovery = [relay.recovery EXCEPT ![w.acct] = w.blob]
    BY <2>1 DEF Relays
  <2>4. relay.recovery \in [Account -> Maybe(Blobs)]
    BY RelayTypes
  <2>5. r.recovery[a] = relay.recovery[a] \/ (w.acct = a /\ r.recovery[a] = w.blob)
    BY <2>3, <2>4
  <2> QED BY <2>2, <2>5
<1>9. ASSUME w.at = "push"
      PROVE  /\ r.recovery = relay.recovery
             /\ r.first[a] = relay.first[a] \/ (w = Step("push", a) /\ r.first[a].ark = local[d].ark)
  <2> DEFINE b == w.acct
  <2>1. w = Step("push", b)
    <3>1. w \notin LocalWrites /\ w \notin UserWrites
      BY <1>9, LocalKinds, UserKinds DEF Save, Identity, Tell
    <3>2. w \notin RelayWrites
      <4>1. \A v \in [at : {"attest"}, acct : Account, kind : {"trust", "revoke"}, of : Device, epoch : Nat] : v.at = "attest"
        OBVIOUS
      <4> QED BY <1>9, <4>1, RelayKinds DEF Record, Wrap, Blob, Sessions
    <3>3. w \in OtherWrites
      BY <3>1, <3>2 DEF Writes
    <3> QED BY <1>9, <3>3, OtherKinds DEF Intend, Step
  <2> DEFINE v == IF relay.first[b] = None THEN [by |-> d, ark |-> local[d].ark] ELSE relay.first[b]
  <2>2. r = [relay EXCEPT !.first[b] = IF @ = None THEN [by |-> d, ark |-> local[d].ark] ELSE @]
    BY <1>9 DEF RelayAfter
  <2>3. r = [relay EXCEPT !.first[b] = v]
    BY <2>2
  <2>4. v = relay.first[b] \/ v.ark = local[d].ark
    OBVIOUS
  <2> HIDE DEF v
  <2>5. r.recovery = relay.recovery /\ r.first = [relay.first EXCEPT ![b] = v]
    BY <2>3 DEF Relays
  <2>6. relay.first \in [Account -> Maybe([by : Device, ark : Maybe(Nat)])]
    BY RelayTypes
  <2> HIDE DEF b
  <2>7. r.first[a] = relay.first[a] \/ (b = a /\ r.first[a].ark = local[d].ark)
    BY <2>4, <2>5, <2>6
  <2> QED BY <2>1, <2>5, <2>7
<1>10. Same \/ w.at = "recovery" \/ w.at = "push"
  BY <1>1, <1>2, <1>3, <1>4, <1>5, <1>6, <1>7
<1> QED BY <1>8, <1>9, <1>10

\* The writes of short plans.
LEMMA ElemsNil == Elems(<<>>) = {}
BY DEF Elems
LEMMA ElemsOne == ASSUME NEW u PROVE Elems(<<u>>) = {u}
BY DEF Elems
LEMMA ElemsTwo == ASSUME NEW u, NEW v PROVE Elems(<<u, v>>) = {u, v}
BY DEF Elems
LEMMA ElemsThree == ASSUME NEW u, NEW v, NEW w PROVE Elems(<<u, v, w>>) = {u, v, w}
BY DEF Elems
LEMMA ElemsFour == ASSUME NEW u, NEW v, NEW w, NEW x PROVE Elems(<<u, v, w, x>>) = {u, v, w, x}
BY DEF Elems
LEMMA ElemsFive == ASSUME NEW u, NEW v, NEW w, NEW x, NEW y PROVE Elems(<<u, v, w, x, y>>) = {u, v, w, x, y}
BY DEF Elems

\* What the epoch a device has read goes on with.
LEMMA EpochQuiet ==
  ASSUME NEW d, NEW a, NEW e, NEW p, p = Rooted(d, a, e) \o <<Identity(a, e), Step("adopt", a)>>
  PROVE  \A u \in Elems(p) : Quiet(u) /\ u.at # "recovery" /\ \A b : u # Save([capture |-> b])
<1> DEFINE w1 == Record(a)
           w2 == Trust(a, d, e)
           w3 == Identity(a, e)
           w4 == Step("adopt", a)
<1>1. p = <<w1, w2, w3, w4>>
  BY Join22 DEF Rooted
<1>2. w2.at = "attest"
  BY DEF Trust
<1>3. Quiet(w1) /\ Quiet(w2) /\ Quiet(w3) /\ Quiet(w4)
  BY <1>2, QuietWrites
<1>4. w1.at # "recovery" /\ w2.at # "recovery" /\ w3.at # "recovery" /\ w4.at # "recovery"
  BY <1>2 DEF Record, Identity, Step, Save
<1>6. \A b : w1 # Save([capture |-> b]) /\ w2 # Save([capture |-> b]) /\ w3 # Save([capture |-> b]) /\ w4 # Save([capture |-> b])
  <2>1. \A b : w1 # Save([capture |-> b])
    BY DEF Record, Save
  <2>2. \A b : w2 # Save([capture |-> b])
    BY <1>2 DEF Save
  <2>3. \A b : w3 # Save([capture |-> b])
    BY DEF Identity, Save
  <2>4. \A b : w4 # Save([capture |-> b])
    BY DEF Step, Save
  <2> QED BY <2>1, <2>2, <2>3, <2>4
<1> HIDE DEF w1, w2, w3, w4
<1>5. Elems(p) = {w1, w2, w3, w4}
  <2>1. Elems(<<w1, w2, w3, w4>>) = {w1, w2, w3, w4}
    BY ElemsFour
  <2> QED BY <1>1, <2>1, Zenon
<1> QED BY <1>3, <1>4, <1>5, <1>6

LEMMA PerformTies ==
  ASSUME TypeOK, NEW d \in Device, NEW l, l = local[d], NEW p, p = plan[d], p # <<>>, NEW w, w = Head(p), Allowed(d, w),
         NEW m, m = LocalAfter(d, w), NEW q, q = PlanAfter(d, w), NEW a, NEW k, Ties(m, q, a, k)
  PROVE  Ties(l, p, a, k)
<1>1. l \in Locals /\ p \in Seq(Writes)
  BY DEF TypeOK
<1>2. w \in Writes
  BY <1>1, TailOrder DEF Parted
<1>3. w.at # "fail"
  BY DEF Allowed
<1>4. PICK t : t = Tail(p)
  OBVIOUS
<1>5. CASE w.at = "epoch"
  <2>1. q = Rooted(d, w.acct, current_epoch(w.acct)) \o <<Identity(w.acct, current_epoch(w.acct)), Step("adopt", w.acct)>>
    BY <1>5 DEF PlanAfter
  <2>2. \A u \in Elems(q) : Quiet(u)
    BY <2>1, EpochQuiet
  <2>3. m.id = a /\ m.ark = k /\ k # None
    BY <2>2, QuietTies
  <2>4. m.id = l.id /\ m.ark = l.ark
    <3>1. Changes(w, l, m)
      BY <1>1, <1>2, LocalFields
    <3>2. \A f : Save(f).at = "local"
      BY DEF Save
    <3>3. \A f : w # Save(f)
      BY <1>5, <3>2
    <3> QED BY <3>1, <3>3 DEF Changes
  <2> QED BY <2>3, <2>4 DEF Ties
<1>6. CASE w.at # "epoch"
  <2>1. q = t
    BY <1>4, <1>6 DEF PlanAfter
  <2>2. Ties(m, t, a, k)
    BY <2>1
  <2>3. ASSUME NEW x, w = Save([ark |-> x]), m.id = l.id, m.ark = x PROVE Ties(l, p, a, k)
    <3>1. Head(p) = Save([ark |-> x])
      BY <2>3
    <3> QED BY <3>1, <1>1, <1>4, <2>2, <2>3, TiesRootSave
  <2>4. ASSUME NEW x, w = Save([id |-> x]), m.id = x, m.ark = l.ark PROVE Ties(l, p, a, k)
    <3>1. Head(p) = Save([id |-> x])
      BY <2>4
    <3> QED BY <3>1, <1>1, <1>4, <2>2, <2>4, TiesIdSave
  <2>5. ASSUME m.id = l.id, m.ark = l.ark, \A x : w # Save([ark |-> x]) PROVE Ties(l, p, a, k)
    <3>1. Rootless(w)
      BY <1>3, <2>5 DEF Rootless
    <3> QED BY <3>1, <1>1, <1>4, <2>2, <2>5, TiesSame
  <2>6. ASSUME NEW b, w = Save([capture |-> b]), m.id = l.id, m.ark = l.ark PROVE Ties(l, p, a, k)
    <3>1. \A x : w # Save([ark |-> x])
      <4>1. \A x : Save([capture |-> b]) # Save([ark |-> x])
        BY DEF Save
      <4> QED BY <2>6, <4>1
    <3> QED BY <3>1, <2>5, <2>6
  <2>7. Changes(w, l, m)
    BY <1>1, <1>2, LocalFields
  <2> QED BY <2>3, <2>4, <2>5, <2>6, <2>7 DEF Changes
<1> QED BY <1>5, <1>6

\* What a write leaves tied was tied before.
LEMMA WriteTies ==
  ASSUME Inv, NEW d \in Device, Perform(d), NEW a \in Account, NEW k, Tied(a, k)'
  PROVE  Tied(a, k)
<1>1. PICK w : w = Head(plan[d])
  OBVIOUS
<1>2. PICK r : r = RelayAfter(d, w)
  OBVIOUS
<1>3. PICK m : m = LocalAfter(d, w)
  OBVIOUS
<1>4. PICK q : q = PlanAfter(d, w)
  OBVIOUS
<1>5. PICK l : l = local[d]
  OBVIOUS
<1>6. PICK p : p = plan[d]
  OBVIOUS
<1>7. /\ p # <<>> /\ Allowed(d, w) /\ relay' = r /\ local' = [local EXCEPT ![d] = m] /\ plan' = [plan EXCEPT ![d] = q]
      /\ user' = IF w.at = "tell" THEN [user EXCEPT ![w.what] = @ \cup {w.is}] ELSE user
  BY <1>1, <1>2, <1>3, <1>4, <1>6 DEF Perform
<1>8. /\ relay \in Relays /\ user \in Users /\ local \in [Device -> Locals] /\ plan \in [Device -> Seq(Writes)]
      /\ l \in Locals /\ p \in Seq(Writes) /\ TypeOK
  BY <1>5, <1>6 DEF Inv, TypeOK
<1>9. Parted(p, w, Tail(p))
  BY <1>1, <1>6, <1>7, <1>8, TailOrder
<1>10. w \in Writes /\ w \in Elems(p) /\ 1 \in 1..Len(p) /\ p[1] = w /\ Before(p, 1) = {}
  BY <1>9 DEF Parted
<1>11. Gives(w, a, k) => Ties(l, p, a, k)
  <2>1. ~Fails(Before(p, 1))
    BY <1>10 DEF Fails
  <2> QED BY <2>1, <1>10 DEF Ties
<1>12. w = Step("push", a) /\ l.ark = k => Ties(l, p, a, k)
  BY <1>10 DEF Ties
<1>13. Ties(l, p, a, k) => Tied(a, k)
  BY <1>5, <1>6 DEF Tied
<1>14. ASSUME NEW s, NEW u, s = relay', u = user', Kept(s, u, a, k)
       PROVE  Tied(a, k)
  <2>0. \A v, x : v = relay /\ x = user /\ Kept(v, x, a, k) => Tied(a, k)
    BY DEF Tied
  <2>1. PICK v, x : v = relay /\ x = user
    OBVIOUS
  <2>2. Kept(v, x, a, k) => Tied(a, k)
    BY <2>0, <2>1
  <2>3. /\ s.recovery[a] = v.recovery[a] \/ (w.at = "recovery" /\ w.acct = a /\ s.recovery[a] = w.blob)
        /\ s.first[a] = v.first[a] \/ (w = Step("push", a) /\ s.first[a].ark = l.ark)
    BY <1>2, <1>5, <1>7, <1>8, <1>10, <1>14, <2>1, RelayFields
  <2>4. RelayGrows(v, s, w)
    BY <1>2, <1>7, <1>8, <1>10, <1>14, <2>1, RelayKept
  <2>5. CASE \E e \in Device : \E i \in DOMAIN s.wraps[a][e] : s.wraps[a][e][i].kind = "enrollment" /\ s.wraps[a][e][i].ark = k
    <3>0. PICK e \in Device : \E i \in DOMAIN s.wraps[a][e] : s.wraps[a][e][i].kind = "enrollment" /\ s.wraps[a][e][i].ark = k
      BY <2>5
    <3>1. PICK i \in DOMAIN s.wraps[a][e] : s.wraps[a][e][i].kind = "enrollment" /\ s.wraps[a][e][i].ark = k
      BY <3>0
    <3>2. \/ i \in DOMAIN v.wraps[a][e] /\ s.wraps[a][e][i] = v.wraps[a][e][i]
          \/ w.at = "wrap" /\ w.acct = a /\ w.to = e /\ w.bundle = s.wraps[a][e][i]
      BY <2>4, <3>1 DEF RelayGrows
    <3>3. Kept(v, x, a, k) \/ Gives(w, a, k)
      BY <3>1, <3>2 DEF Kept, Gives
    <3> QED BY <3>3, <2>2, <1>11, <1>13
  <2>6. CASE s.recovery[a] # None /\ s.recovery[a].ark = k
    <3>1. Kept(v, x, a, k) \/ Gives(w, a, k)
      BY <2>3, <2>6 DEF Kept, Gives
    <3> QED BY <3>1, <2>2, <1>11, <1>13
  <2>7. CASE \E y \in u.packages : y.id = a /\ y.ark = k
    <3>1. PICK y \in u.packages : y.id = a /\ y.ark = k
      BY <2>7
    <3>2. y \in x.packages \/ (w.at = "tell" /\ w.what = "packages" /\ w.is = y)
      <4>1. CASE w.at = "tell"
        <5>1. u = [x EXCEPT ![w.what] = @ \cup {w.is}] /\ x \in Users
          BY <4>1, <1>7, <1>8, <1>14, <2>1
        <5>2. w.what = "packages" \/ u.packages = x.packages
          BY <5>1 DEF Users
        <5>3. w.what = "packages" => u.packages = x.packages \cup {w.is}
          BY <5>1 DEF Users
        <5> QED BY <3>1, <4>1, <5>2, <5>3
      <4>2. CASE w.at # "tell"
        BY <4>2, <1>7, <1>14, <2>1, <3>1
      <4> QED BY <4>1, <4>2
    <3>3. Kept(v, x, a, k) \/ Gives(w, a, k)
      BY <3>1, <3>2 DEF Kept, Gives
    <3> QED BY <3>3, <2>2, <1>11, <1>13
  <2>8. CASE s.first[a] # None /\ s.first[a].ark = k
    <3>1. Kept(v, x, a, k) \/ (w = Step("push", a) /\ l.ark = k)
      BY <2>3, <2>8 DEF Kept
    <3> QED BY <3>1, <2>2, <1>12, <1>13
  <2> QED BY <1>14, <2>5, <2>6, <2>7, <2>8 DEF Kept
<1>15. ASSUME NEW e \in Device, NEW n, NEW o, n = local'[e], o = plan'[e], Ties(n, o, a, k)
       PROVE  Tied(a, k)
  <2>1. CASE e = d
    <3>1. n = m /\ o = q
      BY <2>1, <1>7, <1>8, <1>15
    <3>2. Ties(m, q, a, k)
      BY <3>1, <1>15
    <3>3. Ties(l, p, a, k)
      BY <3>2, <1>1, <1>3, <1>4, <1>5, <1>6, <1>7, <1>8, PerformTies
    <3> QED BY <3>3, <1>13
  <2>2. CASE e # d
    <3>1. n = local[e] /\ o = plan[e]
      BY <2>2, <1>7, <1>8, <1>15
    <3> QED BY <3>1, <1>15 DEF Tied
  <2> QED BY <2>1, <2>2
<1>16. \/ \E s, u : s = relay' /\ u = user' /\ Kept(s, u, a, k)
       \/ \E e \in Device : \E n, o : n = local'[e] /\ o = plan'[e] /\ Ties(n, o, a, k)
  BY DEF Tied
<1> QED BY <1>14, <1>15, <1>16

LEMMA RootsSame ==
  ASSUME RootsFit, UNCHANGED <<mixed, minted>>, \A a \in Account : \A k : Tied(a, k)' => Tied(a, k)
  PROVE  RootsFit'
BY DEF RootsFit

\* What a command has to show: it ties a fresh id to a key, or an id to the key it goes by, or the
\* id is marked.
LEMMA RootsStarted ==
  ASSUME Inv, RootsFit, NEW d \in Device, NEW steps, Begin(d, steps), NEW l, l = local[d], NEW x,
         mixed \subseteq mixed', minted' = minted \/ minted' = Fresh,
         \A a \in Account : \A k : Ties(l, steps, a, k) =>
           Tied(a, k) \/ a \in mixed' \/ (a = Fresh /\ k = x /\ minted' = Fresh)
  PROVE  RootsFit'
<1>1. plan' = [plan EXCEPT ![d] = steps] /\ UNCHANGED <<relay, local, user>>
  BY DEF Begin
<1>2. plan \in [Device -> Seq(Writes)] /\ minted \in Nat
  BY RosterAssumption DEF Inv, TypeOK
<1>3. ASSUME NEW a \in Account, NEW k, Tied(a, k)'
      PROVE  Tied(a, k) \/ a \in mixed' \/ (a = Fresh /\ k = x /\ minted' = Fresh)
  <2>1. \/ \E s, u : s = relay' /\ u = user' /\ Kept(s, u, a, k)
        \/ \E e \in Device : \E n, o : n = local'[e] /\ o = plan'[e] /\ Ties(n, o, a, k)
    BY <1>3 DEF Tied
  <2>2. CASE \E s, u : s = relay' /\ u = user' /\ Kept(s, u, a, k)
    BY <1>1, <2>2 DEF Tied
  <2>3. ASSUME NEW e \in Device, NEW n, NEW o, n = local'[e], o = plan'[e], Ties(n, o, a, k)
        PROVE  Tied(a, k) \/ a \in mixed' \/ (a = Fresh /\ k = x /\ minted' = Fresh)
    <3>1. CASE e = d
      <4>1. n = l /\ o = steps
        BY <1>1, <1>2, <2>3, <3>1
      <4> QED BY <4>1, <2>3
    <3>2. CASE e # d
      <4>1. n = local[e] /\ o = plan[e]
        BY <1>1, <1>2, <2>3, <3>2
      <4> QED BY <4>1, <2>3 DEF Tied
    <3> QED BY <3>1, <3>2
  <2> QED BY <2>1, <2>2, <2>3
<1>4. \A a \in Account : \A k : Tied(a, k) => a # Fresh \/ a \in mixed
  BY <1>2 DEF RootsFit, Fresh
<1>5. ASSUME NEW a \in Account, NEW k, Tied(a, k)', a \notin mixed'
      PROVE  a <= minted' /\ \A m : Tied(a, m)' => k = m
  <2>1. a \notin mixed
    BY <1>5
  <2>2. CASE a = Fresh
    <3>1. \A m : ~Tied(a, m)
      BY <1>4, <2>1, <2>2
    <3>2. k = x /\ minted' = Fresh
      BY <1>3, <1>5, <3>1
    <3>3. \A m : Tied(a, m)' => m = x
      BY <1>3, <1>5, <3>1
    <3>4. a <= minted'
      BY <1>2, <2>2, <3>2 DEF Fresh
    <3> QED BY <3>2, <3>3, <3>4
  <2>3. CASE a # Fresh
    <3>1. \A m : Tied(a, m)' => Tied(a, m)
      BY <1>3, <1>5, <2>3
    <3>2. a <= minted
      BY <1>5, <2>1, <3>1 DEF RootsFit
    <3>3. \A m : Tied(a, m)' => k = m
      BY <1>5, <2>1, <3>1 DEF RootsFit
    <3>4. a <= minted'
      <4>1. a \in Nat /\ minted \in Nat
        BY <1>2
      <4>2. CASE minted' = minted
        BY <3>2, <4>2
      <4>3. CASE minted' = Fresh
        BY <3>2, <4>1, <4>3 DEF Fresh
      <4> QED BY <4>2, <4>3
    <3> QED BY <3>3, <3>4
  <2> QED BY <2>2, <2>3
<1> QED BY <1>5 DEF RootsFit

-----------------------------------------------------------------------------
(* What commands tie. *)

SavesId(E) == \E x : Save([id |-> x]) \in E
\* A write of a command for account a and root key k.
Only(u, a, k) ==
  /\ \A b : u = Save([id |-> b]) => b = a
  /\ \A m : u = Save([ark |-> m]) => m = k
  /\ \A b, m : Gives(u, b, m) => b = a /\ m = k
  /\ u.at # "push"
\* Writes that touch neither blob nor captured code.
Silent(u) == u.at # "recovery" /\ \A b : u # Save([capture |-> b])

\* The pairs such writes may bring about.
Pairs(l, F, a, k, b, m) ==
  \/ l.id = b /\ l.ark = m /\ m # None
  \/ (l.id = b \/ (b = a /\ SavesId(F))) /\ m = k /\ SavesRoot(F)
  \/ b = a /\ SavesId(F) /\ l.ark = m /\ m # None
  \/ b = a /\ m = k /\ \E u \in F : Gives(u, a, k)

LEMMA OnlyPairs ==
  ASSUME NEW l, NEW F, NEW p \in Seq(F), NEW a, NEW k, \A u \in F : Only(u, a, k), NEW b, NEW m, Ties(l, p, b, m)
  PROVE  Pairs(l, F, a, k, b, m)
<1>1. \A u \in Elems(p) : u \in F
  BY DEF Elems
<1>2. \A i \in 1..Len(p) : p[i] \in F
  OBVIOUS
<1>3. \A x : Save([id |-> x]) \in F => x = a /\ SavesId(F)
  BY DEF Only, SavesId
<1>4. \A x : Save([ark |-> x]) \in F => x = k /\ SavesRoot(F)
  BY DEF Only, SavesRoot
<1>5. \A x : Step("push", x) \notin F
  BY DEF Only, Step
<1>6. CASE (l.id = b \/ Save([id |-> b]) \in Elems(p)) /\ Save([ark |-> m]) \in Elems(p)
  BY <1>1, <1>3, <1>4, <1>6 DEF Pairs
<1>7. CASE l.id = b /\ l.ark = m /\ m # None
  BY <1>7 DEF Pairs
<1>8. CASE l.ark = m /\ m # None /\ \E i \in 1..Len(p) : p[i] = Save([id |-> b]) /\ ~SavesRoot(Before(p, i))
  BY <1>2, <1>3, <1>8 DEF Pairs
<1>9. CASE \E i \in 1..Len(p) : Gives(p[i], b, m) /\ ~Fails(Before(p, i))
  <2>1. PICK u \in F : Gives(u, b, m)
    BY <1>2, <1>9
  <2>2. b = a /\ m = k
    BY <2>1 DEF Only
  <2> QED BY <2>1, <2>2 DEF Pairs
<1>10. CASE Step("push", b) \in Elems(p) /\ (l.ark = m \/ Save([ark |-> m]) \in Elems(p))
  BY <1>1, <1>5, <1>10
<1> QED BY <1>6, <1>7, <1>8, <1>9, <1>10 DEF Ties

LEMMA QuietOnly == ASSUME NEW u, Quiet(u), NEW a, NEW k PROVE Only(u, a, k)
BY DEF Quiet, Only

LEMMA OnlySaves ==
  /\ \A a, k : Only(Save([ark |-> k]), a, k) /\ Silent(Save([ark |-> k]))
  /\ \A a, k : Only(Save([id |-> a]), a, k) /\ Silent(Save([id |-> a]))
<1>1. \A a, k : Only(Save([ark |-> k]), a, k)
  BY DEF Only, Save, Gives
<1>2. \A a, k : Only(Save([id |-> a]), a, k)
  BY DEF Only, Save, Gives
<1>3. \A k : Silent(Save([ark |-> k])) /\ Silent(Save([id |-> k]))
  BY DEF Silent, Save
<1> QED BY <1>1, <1>2, <1>3

LEMMA OnlyGiven ==
  /\ \A a, k : Only(Tell("packages", [ark |-> k, id |-> a]), a, k)
  /\ \A a, k, to, e : Only(Wrap(a, to, [kind |-> "enrollment", ark |-> k, epoch |-> e]), a, k)
  /\ \A a, b : Only(Blob(a, b), a, b.ark)
<1>1. \A a, k : Only(Tell("packages", [ark |-> k, id |-> a]), a, k)
  BY DEF Only, Save, Gives, Tell
<1>2. \A a, k, to, e : Only(Wrap(a, to, [kind |-> "enrollment", ark |-> k, epoch |-> e]), a, k)
  BY DEF Only, Save, Gives, Wrap
<1>3. \A a, b : Only(Blob(a, b), a, b.ark)
  BY DEF Only, Save, Gives, Blob
<1> QED BY <1>1, <1>2, <1>3

LEMMA SilentWrites ==
  /\ Silent(KeysSave)
  /\ \A x : Silent(Save([epoch |-> x])) /\ Silent(Record(x)) /\ Silent(Sessions(x))
  /\ \A x, e : Silent(Identity(x, e)) /\ Silent(Intend(x, e)) /\ Silent(Tell(x, e))
  /\ \A u : u.at = "attest" => Silent(u)
  /\ \A x, y, z : Silent(Wrap(x, y, z))
  /\ \A x, n : n \notin {"local", "recovery"} => Silent(Step(n, x))
<1> USE DEF Silent
<1>1. Silent(KeysSave)
  BY DEF KeysSave, Save
<1>2. \A x : Silent(Save([epoch |-> x])) /\ Silent(Record(x)) /\ Silent(Sessions(x))
  BY DEF Save, Record, Sessions
<1>3. \A x, e : Silent(Identity(x, e)) /\ Silent(Intend(x, e)) /\ Silent(Tell(x, e))
  <2>1. \A x, e : Silent(Identity(x, e))
    BY DEF Identity, Save
  <2>2. \A x, e : Silent(Intend(x, e)) /\ Silent(Tell(x, e))
    BY DEF Save, Intend, Tell
  <2> HIDE DEF Silent
  <2> QED BY <2>1, <2>2
<1>4. \A u : u.at = "attest" => Silent(u)
  BY DEF Save
<1>5. \A x, y, z : Silent(Wrap(x, y, z))
  BY DEF Wrap, Save
<1>6. \A x, n : n \notin {"local", "recovery"} => Silent(Step(n, x))
  BY DEF Step, Save
<1> HIDE DEF Silent
<1> QED BY <1>1, <1>2, <1>3, <1>4, <1>5, <1>6

LEMMA SilentShows ==
  ASSUME NEW F, NEW p \in Seq(F), \A u \in F : Silent(u), NEW l, NEW c PROVE Shows(l, p, c)
<1>1. \A i \in 1..Len(p) : p[i] \in F
  OBVIOUS
<1> QED BY <1>1 DEF Shows, Silent

LEMMA WhenSeq == ASSUME NEW F, NEW c \in BOOLEAN, NEW s, c => s \in Seq(F) PROVE When(c, s) \in Seq(F)
<1>1. <<>> \in Seq(F)
  OBVIOUS
<1> QED BY <1>1 DEF When

Joined(p, q, s) ==
  /\ Len(p) \in Nat /\ Len(q) \in Nat /\ Len(s) = Len(p) + Len(q)
  /\ \A i \in 1..Len(p) : s[i] = p[i]
  /\ \A i \in 1..Len(q) : s[Len(p) + i] = q[i]

LEMMA Joining ==
  ASSUME NEW S, NEW p \in Seq(S), NEW q \in Seq(S), NEW s, s = p \o q
  PROVE  Joined(p, q, s) /\ s \in Seq(S)
<1>1. Len(p) \in Nat /\ Len(q) \in Nat /\ Len(s) = Len(p) + Len(q) /\ s \in Seq(S)
  OBVIOUS
<1>2. \A i \in 1..Len(p) : s[i] = p[i]
  OBVIOUS
<1>3. \A i \in 1..Len(q) : s[Len(p) + i] = q[i]
  OBVIOUS
<1> QED BY <1>1, <1>2, <1>3 DEF Joined

\* A write between two runs of others.
Placed(s, i, q, F) ==
  \/ s[i] \in F
  \/ \E j \in 1..Len(q) : /\ s[i] = q[j]
                          /\ \A u : u \in Before(q, j) => u \in Before(s, i)
                          /\ \A u : u \in Before(s, i) => u \in Before(q, j) \/ u \in F

LEMMA Around ==
  ASSUME NEW S, NEW F \in SUBSET S, NEW p \in Seq(F), NEW r \in Seq(F), NEW q \in Seq(S), NEW s, s = p \o q \o r
  PROVE  \A i \in 1..Len(s) : Placed(s, i, q, F)
<1> SUFFICES ASSUME NEW i \in 1..Len(s) PROVE Placed(s, i, q, F)
  OBVIOUS
<1> USE DEF Placed
<1>1. /\ Len(p) \in Nat /\ Len(q) \in Nat /\ Len(r) \in Nat /\ Len(s) = Len(p) + Len(q) + Len(r)
      /\ \A j \in 1..Len(p) : s[j] = p[j]
      /\ \A j \in 1..Len(q) : s[Len(p) + j] = q[j]
      /\ \A j \in 1..Len(r) : s[Len(p) + Len(q) + j] = r[j]
  <2>1. PICK t : t = p \o q
    OBVIOUS
  <2>2. p \in Seq(S) /\ r \in Seq(S)
    OBVIOUS
  <2>3. Joined(p, q, t) /\ t \in Seq(S)
    BY <2>1, <2>2, Joining
  <2>4. Joined(t, r, s)
    BY <2>1, <2>2, <2>3, Joining
  <2> QED BY <2>3, <2>4 DEF Joined
<1>2. \A j \in 1..Len(p) : p[j] \in F
  OBVIOUS
<1>3. \A j \in 1..Len(r) : r[j] \in F
  OBVIOUS
<1>4. CASE i <= Len(p)
  BY <1>1, <1>2, <1>4
<1>5. CASE i > Len(p) + Len(q)
  <2>1. PICK j \in 1..Len(r) : i = Len(p) + Len(q) + j
    <3>1. i - (Len(p) + Len(q)) \in 1..Len(r) /\ i = Len(p) + Len(q) + (i - (Len(p) + Len(q)))
      BY <1>1, <1>5
    <3> QED BY <3>1
  <2>2. s[i] = r[j]
    BY <1>1, <2>1
  <2> QED BY <1>3, <2>2
<1>6. CASE i > Len(p) /\ i <= Len(p) + Len(q)
  <2>1. PICK j \in 1..Len(q) : i = Len(p) + j
    <3>1. i - Len(p) \in 1..Len(q) /\ i = Len(p) + (i - Len(p))
      BY <1>1, <1>6
    <3> QED BY <3>1
  <2>2. s[i] = q[j]
    BY <1>1, <2>1
  <2>3. \A u : u \in Before(q, j) => u \in Before(s, i)
    <3> SUFFICES ASSUME NEW h \in 1..(j - 1) PROVE q[h] \in Before(s, i)
      BY DEF Before
    <3>1. Len(p) + h \in 1..(i - 1) /\ s[Len(p) + h] = q[h]
      BY <1>1, <2>1
    <3> QED BY <3>1 DEF Before
  <2>4. \A u : u \in Before(s, i) => u \in Before(q, j) \/ u \in F
    <3> SUFFICES ASSUME NEW h \in 1..(i - 1) PROVE s[h] \in Before(q, j) \/ s[h] \in F
      BY DEF Before
    <3>1. CASE h <= Len(p)
      BY <1>1, <1>2, <3>1
    <3>2. CASE h > Len(p)
      <4>1. h - Len(p) \in 1..(j - 1) /\ h - Len(p) \in 1..Len(q) /\ h = Len(p) + (h - Len(p))
        BY <1>1, <2>1, <3>2
      <4>2. s[h] = q[h - Len(p)]
        BY <1>1, <4>1
      <4> QED BY <4>1, <4>2 DEF Before
    <3> QED BY <3>1, <3>2
  <2> QED BY <2>2, <2>3, <2>4
<1>7. i <= Len(p) \/ i > Len(p) + Len(q) \/ (i > Len(p) /\ i <= Len(p) + Len(q))
  BY <1>1
<1> QED BY <1>4, <1>5, <1>6, <1>7

\* What is on a device, and what relay and user keep, is tied.
LEMMA TiedHere ==
  ASSUME NEW d \in Device, NEW l, l = local[d], NEW a, NEW k, l.id = a, l.ark = k, k # None
  PROVE  Tied(a, k)
<1>1. PICK p : p = plan[d]
  OBVIOUS
<1>2. Ties(l, p, a, k)
  BY DEF Ties
<1> QED BY <1>1, <1>2 DEF Tied

LEMMA TiedThere ==
  ASSUME NEW r, NEW u, r = relay, u = user, NEW a, NEW k, Kept(r, u, a, k)
  PROVE  Tied(a, k)
BY DEF Tied

LEMMA CodesStarted ==
  ASSUME Inv, CodesFit, NEW d \in Device, NEW steps, Begin(d, steps),
         \A l, c : l = local[d] /\ c = user.codes => Shows(l, steps, c)
  PROVE  CodesFit'
<1>1. plan' = [plan EXCEPT ![d] = steps] /\ UNCHANGED <<relay, local, user>>
  BY DEF Begin
<1>2. plan \in [Device -> Seq(Writes)]
  BY DEF Inv, TypeOK
<1>3. ASSUME NEW e \in Device, NEW l, NEW p, NEW c, l = local'[e], p = plan'[e], c = user'.codes
      PROVE  Shows(l, p, c)
  <2>1. l = local[e] /\ c = user.codes
    BY <1>1, <1>3
  <2>2. CASE e = d
    <3>1. p = steps
      BY <1>1, <1>2, <1>3, <2>2
    <3> QED BY <2>1, <2>2, <3>1
  <2>3. CASE e # d
    <3>1. p = plan[e]
      BY <1>1, <1>2, <1>3, <2>3
    <3> QED BY <2>1, <3>1 DEF CodesFit
  <2> QED BY <2>2, <2>3
<1>4. ASSUME NEW a \in Account, NEW b, b = relay'.recovery[a], b # None
      PROVE  b.secret \in user'.codes \/ \E e \in Device : local'[e].capture = b
  BY <1>1, <1>4 DEF CodesFit
<1> QED BY <1>3, <1>4 DEF CodesFit

\* What a command for account a and root key k has to show.
Whole(F, a, k) == \A u \in F : Only(u, a, k) /\ Silent(u)
Accounted(l, F, a, k) ==
  \A b \in Account : \A m : Pairs(l, F, a, k, b, m) =>
    Tied(b, m) \/ b \in mixed' \/ (b = Fresh /\ m = k /\ minted' = Fresh)

LEMMA AgreeStarted ==
  ASSUME Inv, RootsFit, CodesFit, NEW d \in Device, NEW steps, Begin(d, steps), NEW l, l = local[d],
         mixed \subseteq mixed', minted' = minted \/ minted' = Fresh,
         NEW F, steps \in Seq(F), NEW a, NEW k, Whole(F, a, k), Accounted(l, F, a, k)
  PROVE  RootsFit' /\ CodesFit'
<1>1. ASSUME NEW b \in Account, NEW m, Ties(l, steps, b, m)
      PROVE  Tied(b, m) \/ b \in mixed' \/ (b = Fresh /\ m = k /\ minted' = Fresh)
  <2>1. Pairs(l, F, a, k, b, m)
    BY <1>1, OnlyPairs DEF Whole
  <2> QED BY <2>1 DEF Accounted
<1>2. RootsFit'
  BY <1>1, RootsStarted
<1>3. \A n, c : Shows(n, steps, c)
  BY SilentShows DEF Whole
<1>4. CodesFit'
  BY <1>3, CodesStarted
<1> QED BY <1>2, <1>4

\* A command of quiet writes.
LEMMA QuietStarted ==
  ASSUME Inv, RootsFit, CodesFit, NEW d \in Device, NEW steps, Begin(d, steps),
         mixed \subseteq mixed', minted' = minted \/ minted' = Fresh,
         NEW F, steps \in Seq(F), \A u \in F : Quiet(u) /\ Silent(u)
  PROVE  RootsFit' /\ CodesFit'
<1>1. PICK l : l = local[d]
  OBVIOUS
<1>2. Whole(F, None, None)
  BY QuietOnly DEF Whole
<1>3. ASSUME NEW b \in Account, NEW m, Pairs(l, F, None, None, b, m) PROVE Tied(b, m)
  <2>1. ~SavesId(F) /\ ~SavesRoot(F) /\ \A u \in F : ~Gives(u, None, None)
    BY DEF Quiet, SavesId, SavesRoot
  <2>2. l.id = b /\ l.ark = m /\ m # None
    BY <1>3, <2>1 DEF Pairs
  <2> QED BY <1>1, <2>2, TiedHere
<1>4. Accounted(l, F, None, None)
  BY <1>3 DEF Accounted
<1> QED BY <1>1, <1>2, <1>4, AgreeStarted

\* A plan that is given up.
LEMMA DroppedAgrees ==
  ASSUME Inv, RootsFit, CodesFit, NEW d \in Device, plan' = [plan EXCEPT ![d] = <<>>],
         UNCHANGED <<relay, local, user, mixed, minted>>
  PROVE  RootsFit' /\ CodesFit'
<1>0. plan \in [Device -> Seq(Writes)]
  BY DEF Inv, TypeOK
<1>1. ASSUME NEW a \in Account, NEW k, Tied(a, k)' PROVE Tied(a, k)
  <2>1. \/ \E s, u : s = relay' /\ u = user' /\ Kept(s, u, a, k)
        \/ \E e \in Device : \E n, o : n = local'[e] /\ o = plan'[e] /\ Ties(n, o, a, k)
    BY <1>1 DEF Tied
  <2>2. CASE \E s, u : s = relay' /\ u = user' /\ Kept(s, u, a, k)
    BY <2>2 DEF Tied
  <2>3. ASSUME NEW e \in Device, NEW n, NEW o, n = local'[e], o = plan'[e], Ties(n, o, a, k) PROVE Tied(a, k)
    <3>1. CASE e = d
      <4>1. o = <<>>
        BY <1>0, <2>3, <3>1
      <4>2. Elems(o) = {}
        BY <4>1, ElemsNil
      <4>3. n.id = a /\ n.ark = k /\ k # None
        BY <2>3, <4>2, QuietTies
      <4> QED BY <2>3, <4>3, TiedHere
    <3>2. CASE e # d
      <4>1. n = local[e] /\ o = plan[e]
        BY <1>0, <2>3, <3>2
      <4> QED BY <2>3, <4>1 DEF Tied
    <3> QED BY <3>1, <3>2
  <2> QED BY <2>1, <2>2, <2>3
<1>2. ASSUME NEW e \in Device, NEW l, NEW p, NEW c, l = local'[e], p = plan'[e], c = user'.codes
      PROVE  Shows(l, p, c)
  <2>1. CASE e = d
    <3>1. p = <<>>
      BY <1>0, <1>2, <2>1
    <3>2. p \in Seq({})
      BY <3>1
    <3> QED BY <3>2, SilentShows
  <2>2. CASE e # d
    <3>1. l = local[e] /\ p = plan[e] /\ c = user.codes
      BY <1>0, <1>2, <2>2
    <3> QED BY <3>1 DEF CodesFit
  <2> QED BY <2>1, <2>2
<1>3. RootsFit'
  BY <1>1, RootsSame
<1>4. ASSUME NEW a \in Account, NEW b, b = relay'.recovery[a], b # None
      PROVE  b.secret \in user'.codes \/ \E e \in Device : local'[e].capture = b
  BY <1>4 DEF CodesFit
<1>5. CodesFit'
  BY <1>2, <1>4 DEF CodesFit
<1> QED BY <1>3, <1>5

LEMMA SavedAgrees ==
  ASSUME Inv, RootsFit, CodesFit, NEW d \in Device, SaveItem(d)
  PROVE  RootsFit' /\ CodesFit'
<1>0. /\ local' = [local EXCEPT ![d].content = TRUE] /\ UNCHANGED <<relay, plan, user, mixed, minted>>
      /\ local \in [Device -> Locals]
  BY DEF SaveItem, history, Inv, TypeOK
<1>1. ASSUME NEW e \in Device, NEW n, n = local'[e]
      PROVE  \E l : l = local[e] /\ n.id = l.id /\ n.ark = l.ark /\ n.capture = l.capture
  <2>1. PICK l : l = local[e]
    OBVIOUS
  <2>2. l \in Locals
    BY <1>0, <2>1
  <2>3. n = l \/ n = [l EXCEPT !.content = TRUE]
    BY <1>0, <1>1, <2>1
  <2>4. [l EXCEPT !.content = TRUE].id = l.id /\ [l EXCEPT !.content = TRUE].ark = l.ark
        /\ [l EXCEPT !.content = TRUE].capture = l.capture
    BY <2>2 DEF Locals
  <2> QED BY <2>1, <2>3, <2>4
<1>2. ASSUME NEW a \in Account, NEW k, Tied(a, k)' PROVE Tied(a, k)
  <2>1. \/ \E s, u : s = relay' /\ u = user' /\ Kept(s, u, a, k)
        \/ \E e \in Device : \E n, o : n = local'[e] /\ o = plan'[e] /\ Ties(n, o, a, k)
    BY <1>2 DEF Tied
  <2>2. CASE \E s, u : s = relay' /\ u = user' /\ Kept(s, u, a, k)
    BY <1>0, <2>2 DEF Tied
  <2>3. ASSUME NEW e \in Device, NEW n, NEW o, n = local'[e], o = plan'[e], Ties(n, o, a, k) PROVE Tied(a, k)
    <3>1. PICK l : l = local[e] /\ n.id = l.id /\ n.ark = l.ark
      BY <1>1, <2>3
    <3>2. o = plan[e]
      BY <1>0, <2>3
    <3>3. Ties(l, o, a, k)
      BY <2>3, <3>1 DEF Ties
    <3> QED BY <3>1, <3>2, <3>3 DEF Tied
  <2> QED BY <2>1, <2>2, <2>3
<1>3. RootsFit'
  BY <1>0, <1>2, RootsSame
<1>4. ASSUME NEW e \in Device, NEW n, NEW p, NEW c, n = local'[e], p = plan'[e], c = user'.codes
      PROVE  Shows(n, p, c)
  <2>1. PICK l : l = local[e] /\ n.capture = l.capture
    BY <1>1, <1>4
  <2>2. Shows(l, p, c)
    BY <1>0, <1>4, <2>1 DEF CodesFit
  <2> QED BY <2>1, <2>2 DEF Shows
<1>5. ASSUME NEW a \in Account, NEW b, b = relay'.recovery[a], b # None
      PROVE  b.secret \in user'.codes \/ \E e \in Device : local'[e].capture = b
  <2>1. b.secret \in user.codes \/ \E e \in Device : local[e].capture = b
    BY <1>0, <1>5 DEF CodesFit
  <2>2. \A e \in Device : local'[e].capture = local[e].capture
    BY <1>1
  <2> QED BY <1>0, <2>1, <2>2
<1>6. CodesFit'
  BY <1>4, <1>5 DEF CodesFit
<1> QED BY <1>3, <1>6

LEMMA InviteAgrees ==
  ASSUME Inv, RootsFit, CodesFit, NEW d \in Device, Invite(d) PROVE RootsFit' /\ CodesFit'
<1> DEFINE u == Tell("invites", [acct |-> local[d].id, by |-> d])
<1>1. Begin(d, <<u>>) /\ mixed' = mixed /\ minted' = minted
  BY DEF Invite, Plain, history
<1>2. Quiet(u) /\ Silent(u)
  BY QuietWrites, SilentWrites
<1> HIDE DEF u
<1>3. <<u>> \in Seq({u}) /\ \A v \in {u} : Quiet(v) /\ Silent(v)
  BY <1>2
<1> QED BY <1>1, <1>3, QuietStarted

LEMMA RevokeSessionAgrees ==
  ASSUME Inv, RootsFit, CodesFit, NEW d \in Device, RevokeSession(d) PROVE RootsFit' /\ CodesFit'
<1>1. PICK of \in relay.live : Begin(d, <<Sessions(of)>>) /\ mixed' = mixed /\ minted' = minted
  BY DEF RevokeSession, Plain, history
<1> DEFINE u == Sessions(of)
<1>2. Quiet(u) /\ Silent(u)
  BY QuietWrites, SilentWrites
<1> HIDE DEF u
<1>3. <<u>> \in Seq({u}) /\ \A v \in {u} : Quiet(v) /\ Silent(v)
  BY <1>2
<1>4. Begin(d, <<u>>)
  BY <1>1 DEF u
<1> QED BY <1>1, <1>3, <1>4, QuietStarted

LEMMA LoginRenewAgrees ==
  ASSUME Inv, RootsFit, CodesFit, NEW d \in Device, LoginRenew(d) PROVE RootsFit' /\ CodesFit'
<1> DEFINE a == local[d].id
           u == Step("login", a)
           v == Step("verify", a)
           w == Step("session", a)
           x == Step("activate", a)
<1>1. Begin(d, <<u, v, w, x>>) /\ mixed' = mixed /\ minted' = minted
  BY DEF LoginRenew
<1>2. Quiet(u) /\ Quiet(v) /\ Quiet(w) /\ Quiet(x)
  BY QuietWrites
<1>3. Silent(u) /\ Silent(v) /\ Silent(w) /\ Silent(x)
  BY SilentWrites
<1> HIDE DEF u, v, w, x
<1>4. <<u, v, w, x>> \in Seq({u, v, w, x}) /\ \A y \in {u, v, w, x} : Quiet(y) /\ Silent(y)
  BY <1>2, <1>3
<1> QED BY <1>1, <1>4, QuietStarted

LEMMA RevokeAgrees ==
  ASSUME Inv, RootsFit, CodesFit, NEW d \in Device, Revoke(d) PROVE RootsFit' /\ CodesFit'
<1>1. PICK of \in roster(local[d].id) :
        Begin(d, RevokeSteps(d, local[d].id, of)) /\ mixed' = mixed /\ minted' = minted
  BY DEF Revoke, Plain, history
<1> DEFINE a == local[d].id
           new == local[d].epoch + 1
           p == Rewraps(a, of, new)
           u == [Trust(a, of, new) EXCEPT !.kind = "revoke"]
           v == Save([epoch |-> new])
           w == Sessions(of)
           F == {z \in UNION {Elems(p), {u, v, w}} : Quiet(z) /\ Silent(z)}
<1>2. a \in Account /\ new \in Nat
  BY LocalTypes DEF Revoke, Established, Inv, TypeOK
<1>3. u.at = "attest"
  BY DEF Trust
<1>4. Quiet(u) /\ Quiet(v) /\ Quiet(w) /\ Silent(u) /\ Silent(v) /\ Silent(w)
  BY <1>3, QuietWrites, SilentWrites
<1>5. p \in Seq(Writes)
  BY <1>2, RewrapsPart DEF Part
<1> DEFINE B(i) == Wrap(a, Nth(roster(a) \ {of}, i), [kind |-> "epoch", ark |-> None, epoch |-> new])
<1>6. \A i \in 1..Len(p) : p[i] = B(i)
  <2>1. p = [i \in 1 .. Cardinality(roster(a) \ {of}) |-> B(i)]
    BY DEF Rewraps
  <2>2. DOMAIN p = 1..Len(p)
    BY <1>5
  <2> HIDE DEF p, B
  <2> QED BY <2>1, <2>2
<1>7. \A i : Quiet(B(i)) /\ Silent(B(i))
  <2>1. \A i : B(i).at = "wrap" /\ B(i).bundle.kind = "epoch"
    BY DEF Wrap
  <2>2. \A i : Silent(B(i))
    BY SilentWrites
  <2>3. \A z : z.at = "wrap" /\ z.bundle.kind = "epoch" => Quiet(z)
    BY DEF Quiet, Gives, Save
  <2> HIDE DEF B
  <2> QED BY <2>1, <2>2, <2>3
<1>8. Begin(d, p \o <<u, v, w>>)
  BY <1>1 DEF RevokeSteps
<1> HIDE DEF p, u, v, w, B
<1>9. p \in Seq(F)
  <2>1. \A i \in 1..Len(p) : p[i] \in Elems(p) /\ p[i] \in F
    BY <1>6, <1>7 DEF Elems
  <2> HIDE DEF F
  <2> QED BY <1>5, <2>1
<1>10. u \in F /\ v \in F /\ w \in F
  BY <1>4
<1>11. \A z \in F : Quiet(z) /\ Silent(z)
  OBVIOUS
<1> HIDE DEF F
<1>12. p \o <<u, v, w>> \in Seq(F)
  BY <1>9, <1>10
<1> QED BY <1>1, <1>8, <1>11, <1>12, QuietStarted

LEMMA DeviceKeyInitAgrees ==
  ASSUME Inv, RootsFit, CodesFit, NEW d \in Device, DeviceKeyInit(d) PROVE RootsFit' /\ CodesFit'
<1>1. PICK g, l : l = local[d] /\ l \in Locals /\ Holds(g, d, l)
  BY DeviceHolds
<1> DEFINE u == KeysSave
           v == Save([ark |-> Fresh])
           c == l.ark = None
           F == {u} \cup (IF c THEN {v} ELSE {})
           a == l.id
<1>2. Begin(d, <<u>> \o When(c, <<v>>)) /\ ~l.keys /\ mixed' = mixed /\ minted' = Fresh
  BY <1>1 DEF DeviceKeyInit, KeysSave, history, Mint
<1>3. c => a = None
  BY <1>1, <1>2 DEF Holds
<1>4. Only(u, a, Fresh) /\ Only(v, a, Fresh) /\ Silent(u) /\ Silent(v) /\ Quiet(u)
  BY QuietOnly, QuietWrites, OnlySaves, SilentWrites
<1>5. \A x : v # Save([id |-> x])
  BY DEF Save
<1> HIDE DEF u, v
<1>6. <<u>> \o When(c, <<v>>) \in Seq(F)
  <2>1. c => <<v>> \in Seq(F)
    OBVIOUS
  <2>2. c \in BOOLEAN /\ <<u>> \in Seq(F)
    OBVIOUS
  <2> HIDE DEF c, F
  <2>3. When(c, <<v>>) \in Seq(F)
    BY <2>1, <2>2, WhenSeq
  <2> QED BY <2>2, <2>3
<1>7. Whole(F, a, Fresh)
  BY <1>4 DEF Whole
<1>8. Accounted(l, F, a, Fresh)
  <2> SUFFICES ASSUME NEW b \in Account, NEW m, Pairs(l, F, a, Fresh, b, m) PROVE Tied(b, m)
    BY DEF Accounted
  <2>1. ~SavesId(F) /\ (SavesRoot(F) => c) /\ \A z \in F : Gives(z, a, Fresh) => c
    BY <1>4, <1>5 DEF SavesId, SavesRoot, Quiet
  <2>2. l.id = b /\ l.ark = m /\ m # None
    BY <1>3, <2>1, Constants DEF Pairs
  <2> QED BY <1>1, <2>2, TiedHere
<1> HIDE DEF F, c, a
<1> QED BY <1>1, <1>2, <1>6, <1>7, <1>8, AgreeStarted

\* A command that ties its root key to the id the device has, or to a fresh one.
LEMMA OwnRootAccounted ==
  ASSUME Inv, NEW d \in Device, NEW l, l = local[d], l.ark # None, NEW a \in Account, NEW F,
         l.id = a \/ (l.id = None /\ a = Fresh /\ minted' = Fresh), ~SavesRoot(F)
  PROVE  Accounted(l, F, a, l.ark)
<1> SUFFICES ASSUME NEW b \in Account, NEW m, Pairs(l, F, a, l.ark, b, m)
             PROVE  Tied(b, m) \/ b \in mixed' \/ (b = Fresh /\ m = l.ark /\ minted' = Fresh)
  BY DEF Accounted
<1>1. m = l.ark /\ (l.id = b \/ b = a)
  BY DEF Pairs
<1>2. CASE l.id = b
  BY <1>1, <1>2, TiedHere
<1>3. CASE l.id # b
  BY <1>1, <1>3
<1> QED BY <1>2, <1>3

LEMMA ExportPackageAgrees ==
  ASSUME Inv, RootsFit, CodesFit, NEW d \in Device, ExportPackage(d) PROVE RootsFit' /\ CodesFit'
<1>1. PICK g, l : l = local[d] /\ l \in Locals /\ Holds(g, d, l)
  BY DeviceHolds
<1> DEFINE a == OrFresh(l.id)
           k == l.ark
           c == l.id = None
           u == Save([id |-> a])
           v == Tell("packages", [ark |-> k, id |-> a])
           F == {u, v}
<1>2. k # None /\ Begin(d, When(c, <<u>>) \o <<v>>) /\ mixed' = mixed /\ Mint(c)
  BY <1>1 DEF ExportPackage, history
<1>3. a \in Account /\ (l.id = a \/ (l.id = None /\ a = Fresh /\ minted' = Fresh)) /\ (minted' = minted \/ minted' = Fresh)
  BY <1>1, <1>2, LocalTypes, MintTypes DEF OrFresh, Mint
<1> HIDE DEF a
<1>4. Only(u, a, k) /\ Silent(u) /\ Only(v, a, k) /\ Silent(v)
  BY OnlySaves, OnlyGiven, SilentWrites
<1>5. ~SavesRoot(F)
  BY DEF SavesRoot, Save, Tell
<1> HIDE DEF u, v
<1>6. Whole(F, a, k)
  BY <1>4 DEF Whole
<1>7. When(c, <<u>>) \o <<v>> \in Seq(F)
  <2>1. <<u>> \in Seq(F) /\ <<v>> \in Seq(F) /\ c \in BOOLEAN
    OBVIOUS
  <2> HIDE DEF F, c
  <2>2. When(c, <<u>>) \in Seq(F)
    BY <2>1, WhenSeq
  <2> QED BY <2>1, <2>2
<1>8. Accounted(l, F, a, k)
  BY <1>1, <1>2, <1>3, <1>5, OwnRootAccounted
<1> HIDE DEF F, c, k
<1> QED BY <1>1, <1>2, <1>3, <1>6, <1>7, <1>8, AgreeStarted

LEMMA EnableAgrees ==
  ASSUME Inv, RootsFit, CodesFit, NEW d \in Device, Enable(d) PROVE RootsFit' /\ CodesFit'
<1>1. PICK g, l : l = local[d] /\ l \in Locals /\ Holds(g, d, l)
  BY DeviceHolds
<1> DEFINE a == OrFresh(l.id)
           k == l.ark
           c == l.id = None
           u == Save([id |-> a])
           v == Identity(a, l.epoch)
           F == {u, v}
<1>2. k # None /\ Begin(d, When(c, <<u>>) \o <<v>>) /\ mixed' = mixed /\ Mint(c)
  BY <1>1 DEF Enable
<1>3. a \in Account /\ (l.id = a \/ (l.id = None /\ a = Fresh /\ minted' = Fresh)) /\ (minted' = minted \/ minted' = Fresh)
  BY <1>1, <1>2, LocalTypes, MintTypes DEF OrFresh, Mint
<1> HIDE DEF a
<1>4. Only(u, a, k) /\ Silent(u) /\ Only(v, a, k) /\ Silent(v)
  BY OnlySaves, QuietOnly, QuietWrites, SilentWrites
<1>5. ~SavesRoot(F)
  BY DEF SavesRoot, Save, Identity
<1> HIDE DEF u, v
<1>6. Whole(F, a, k)
  BY <1>4 DEF Whole
<1>7. When(c, <<u>>) \o <<v>> \in Seq(F)
  <2>1. <<u>> \in Seq(F) /\ <<v>> \in Seq(F) /\ c \in BOOLEAN
    OBVIOUS
  <2> HIDE DEF F, c
  <2>2. When(c, <<u>>) \in Seq(F)
    BY <2>1, WhenSeq
  <2> QED BY <2>1, <2>2
<1>8. Accounted(l, F, a, k)
  BY <1>1, <1>2, <1>3, <1>5, OwnRootAccounted
<1> HIDE DEF F, c, k
<1> QED BY <1>1, <1>2, <1>3, <1>6, <1>7, <1>8, AgreeStarted

\* The writes of an attachment.
LEMMA AttachSeq ==
  ASSUME NEW d, NEW a, NEW flow, NEW F, NEW k,
         Intend(a, flow) \in F, local[d].id = None /\ flow # "create" => Save([id |-> a]) \in F,
         Step("login", a) \in F, Step("bind", a) \in F, Step("session", a) \in F
  PROVE  AttachSteps(d, a, flow) \in Seq(F)
<1> DEFINE c == local[d].id = None /\ flow # "create"
           u == Intend(a, flow)
           v == Save([id |-> a])
           w == Step("login", a)
           x == Step("bind", a)
           y == Step("session", a)
<1>1. AttachSteps(d, a, flow) = <<u>> \o When(c, <<v>>) \o <<w, x, w, y>>
  BY DEF AttachSteps
<1>2. c \in BOOLEAN /\ (c => v \in F) /\ u \in F /\ w \in F /\ x \in F /\ y \in F
  OBVIOUS
<1> HIDE DEF c, u, v, w, x, y
<1>3. <<u>> \in Seq(F) /\ (c => <<v>> \in Seq(F)) /\ <<w, x, w, y>> \in Seq(F)
  BY <1>2
<1>4. When(c, <<v>>) \in Seq(F)
  BY <1>2, <1>3, WhenSeq
<1> QED BY <1>1, <1>3, <1>4

\* Those that bind the device but save no keys.
BindingWrites(d, a, flow, e) ==
  {Intend(a, flow), Step("login", a), Step("bind", a), Step("session", a), Record(a), Trust(a, d, e),
   Identity(a, e), Step("verify", a), Step("activate", a), Step("adopt", a)}
LEMMA BindingQuiet ==
  ASSUME NEW d, NEW a, NEW flow, NEW e PROVE \A u \in BindingWrites(d, a, flow, e) : Quiet(u) /\ Silent(u)
<1> DEFINE w1 == Intend(a, flow)
           w2 == Step("login", a)
           w3 == Step("bind", a)
           w4 == Step("session", a)
           w5 == Record(a)
           w6 == Trust(a, d, e)
           w7 == Identity(a, e)
           w8 == Step("verify", a)
           w9 == Step("activate", a)
           w10 == Step("adopt", a)
<1>1. w6.at = "attest"
  BY DEF Trust
<1>2. Quiet(w1) /\ Quiet(w2) /\ Quiet(w3) /\ Quiet(w4) /\ Quiet(w5) /\ Quiet(w6) /\ Quiet(w7) /\ Quiet(w8) /\ Quiet(w9) /\ Quiet(w10)
  BY <1>1, QuietWrites
<1>3. Silent(w1) /\ Silent(w2) /\ Silent(w3) /\ Silent(w4) /\ Silent(w5) /\ Silent(w6) /\ Silent(w7) /\ Silent(w8) /\ Silent(w9) /\ Silent(w10)
  BY <1>1, SilentWrites
<1>4. BindingWrites(d, a, flow, e) = {w1, w2, w3, w4, w5, w6, w7, w8, w9, w10}
  BY DEF BindingWrites
<1> HIDE DEF w1, w2, w3, w4, w5, w6, w7, w8, w9, w10
<1> QED BY <1>2, <1>3, <1>4

LEMMA AttachAgrees ==
  ASSUME Inv, RootsFit, CodesFit, NEW d \in Device, Attach(d) PROVE RootsFit' /\ CodesFit'
<1>1. PICK g, l : l = local[d] /\ l \in Locals /\ Holds(g, d, l)
  BY DeviceHolds
<1> DEFINE a == IF l.id # None THEN l.id ELSE OrFresh(l.db)
           k == l.ark
           v == Save([id |-> a])
           B == BindingWrites(d, a, "attach", l.epoch)
           F == B \cup {v}
           s1 == AttachSteps(d, a, "attach")
           c2 == d \notin relay.records[a]
           r == Rooted(d, a, l.epoch)
           s3 == <<Step("verify", a), Step("activate", a)>>
<1>2. k # None /\ Begin(d, s1 \o When(c2, r) \o s3) /\ mixed' = mixed /\ Mint(a = Fresh)
  BY <1>1 DEF Attach, history
<1>3. a \in Account /\ (l.id = a \/ (l.id = None /\ a = Fresh /\ minted' = Fresh)) /\ (minted' = minted \/ minted' = Fresh)
  BY <1>1, <1>2, LocalTypes, MintTypes DEF OrFresh, Mint, Holds
<1> HIDE DEF a
<1>4. Only(v, a, k) /\ Silent(v) /\ \A u \in B : Only(u, a, k) /\ Silent(u)
  BY OnlySaves, QuietOnly, BindingQuiet
<1>5. ~SavesRoot(F)
  <2>1. \A u \in B : \A x : u # Save([ark |-> x])
    BY BindingQuiet DEF Quiet
  <2>2. \A x : v # Save([ark |-> x])
    BY DEF Save
  <2> HIDE DEF v, B
  <2> QED BY <2>1, <2>2 DEF SavesRoot
<1>6. s1 \in Seq(F) /\ When(c2, r) \in Seq(F) /\ s3 \in Seq(F)
  <2>1. s1 \in Seq(F)
    BY AttachSeq DEF BindingWrites
  <2>2. When(c2, r) \in Seq(F)
    <3> DEFINE x == Record(a)
               y == Trust(a, d, l.epoch)
    <3>1. r = <<x, y>> /\ x \in F /\ y \in F /\ c2 \in BOOLEAN
      BY DEF Rooted, BindingWrites
    <3> HIDE DEF x, y, r, F, c2
    <3>2. r \in Seq(F)
      BY <3>1
    <3> QED BY <3>1, <3>2, WhenSeq
  <2>3. s3 \in Seq(F)
    <3> DEFINE x == Step("verify", a)
               y == Step("activate", a)
    <3>1. s3 = <<x, y>> /\ x \in F /\ y \in F
      BY DEF BindingWrites
    <3> HIDE DEF x, y, s3, F
    <3> QED BY <3>1
  <2> QED BY <2>1, <2>2, <2>3
<1> HIDE DEF v, B
<1>7. Whole(F, a, k)
  BY <1>4 DEF Whole
<1>8. Accounted(l, F, a, k)
  BY <1>1, <1>2, <1>3, <1>5, OwnRootAccounted
<1> HIDE DEF s1, c2, r, s3, F
<1>9. s1 \o When(c2, r) \o s3 \in Seq(F)
  BY <1>6
<1> HIDE DEF k
<1> QED BY <1>1, <1>2, <1>3, <1>7, <1>8, <1>9, AgreeStarted

LEMMA LoginJoinAgrees ==
  ASSUME Inv, RootsFit, CodesFit, NEW d \in Device, LoginJoin(d) PROVE RootsFit' /\ CodesFit'
<1>1. PICK g, l : l = local[d] /\ l \in Locals /\ Holds(g, d, l)
  BY DeviceHolds
<1> DEFINE a == relay.bound
           u == Step("login", a)
           v == Intend(a, "join")
           w == KeysSave
           x == Save([id |-> a])
           y == Step("session", a)
           F == {u, v, w, x, y}
<1>2. /\ a # None /\ l.id \in {None, a}
      /\ l.ark # None => l.id # None /\ l.id = l.intent.acct
      /\ mixed' = mixed /\ minted' = minted
  <2>1. a # None /\ l.id \in {None, a} /\ mixed' = mixed /\ minted' = minted
    BY <1>1 DEF LoginJoin, Plain, history
  <2>2. l.ark # None => l.id # None /\ l.id = l.intent.acct
    <3>1. ASSUME l.ark # None PROVE l.intent # None /\ l.id = l.intent.acct
      BY <1>1, <3>1 DEF LoginJoin, guard_join_new_device
    <3>2. l.intent # None => l.intent.acct \in Account
      BY <1>1, LocalTypes DEF Intents
    <3> QED BY <3>1, <3>2, Constants
  <2> QED BY <2>1, <2>2
<1>3. Begin(d, <<u, v, w, x, y>>)
  BY DEF LoginJoin, Plain, KeysSave
<1>4. Quiet(u) /\ Quiet(v) /\ Quiet(w) /\ Quiet(y) /\ Silent(u) /\ Silent(v) /\ Silent(w) /\ Silent(y)
  BY QuietWrites, SilentWrites
<1>5. Only(x, a, l.ark) /\ Silent(x) /\ \A b, m : ~Gives(x, b, m)
  <2>1. \A b, m : ~Gives(x, b, m)
    BY DEF Gives, Save
  <2> QED BY <2>1, OnlySaves
<1>6. \A m : x # Save([ark |-> m])
  BY DEF Save
<1> HIDE DEF u, v, w, x, y
<1>7. <<u, v, w, x, y>> \in Seq(F)
  OBVIOUS
<1>8. Whole(F, a, l.ark)
  BY <1>4, <1>5, QuietOnly DEF Whole
<1>9. ~SavesRoot(F) /\ \A z \in F : ~Gives(z, a, l.ark)
  BY <1>4, <1>5, <1>6 DEF SavesRoot, Quiet
<1> HIDE DEF F
<1>10. Accounted(l, F, a, l.ark)
  <2> SUFFICES ASSUME NEW b \in Account, NEW m, Pairs(l, F, a, l.ark, b, m) PROVE Tied(b, m)
    BY DEF Accounted
  <2>1. l.ark = m /\ m # None /\ (l.id = b \/ b = a)
    BY <1>9 DEF Pairs
  <2>2. l.id = b
    BY <1>2, <2>1
  <2> QED BY <1>1, <2>1, <2>2, TiedHere
<1> QED BY <1>1, <1>2, <1>3, <1>7, <1>8, <1>10, AgreeStarted

LEMMA EnrollAgrees ==
  ASSUME Inv, RootsFit, CodesFit, NEW d \in Device, Enroll(d) PROVE RootsFit' /\ CodesFit'
<1>1. PICK g, l : l = local[d] /\ l \in Locals /\ Holds(g, d, l)
  BY DeviceHolds
<1>2. PICK inv \in user.invites :
        /\ Begin(d, When(~l.keys, <<Save([keys |-> TRUE])>>) \o <<Save([id |-> inv.acct]), Record(inv.acct)>>)
        /\ mixed' = IF l.ark = None THEN mixed ELSE mixed \cup {inv.acct}
        /\ minted' = minted
  BY <1>1 DEF Enroll
<1> DEFINE a == inv.acct
           c == ~l.keys
           u == KeysSave
           v == Save([id |-> a])
           w == Record(a)
           F == {u, v, w}
<1>3. Begin(d, When(c, <<u>>) \o <<v, w>>) /\ mixed \subseteq mixed'
  BY <1>2 DEF KeysSave
<1>4. Quiet(u) /\ Quiet(w) /\ Silent(u) /\ Silent(w)
  BY QuietWrites, SilentWrites
<1>5. Only(v, a, l.ark) /\ Silent(v) /\ \A b, m : ~Gives(v, b, m)
  <2>1. \A b, m : ~Gives(v, b, m)
    BY DEF Gives, Save
  <2> QED BY <2>1, OnlySaves
<1>6. \A m : v # Save([ark |-> m])
  BY DEF Save
<1>7. c \in BOOLEAN
  OBVIOUS
<1> HIDE DEF u, v, w, c
<1>8. When(c, <<u>>) \o <<v, w>> \in Seq(F)
  <2>1. <<u>> \in Seq(F) /\ <<v, w>> \in Seq(F)
    OBVIOUS
  <2> HIDE DEF F
  <2>2. When(c, <<u>>) \in Seq(F)
    BY <1>7, <2>1, WhenSeq
  <2> QED BY <2>1, <2>2
<1>9. Whole(F, a, l.ark)
  BY <1>4, <1>5, QuietOnly DEF Whole
<1>10. ~SavesRoot(F) /\ \A z \in F : ~Gives(z, a, l.ark)
  BY <1>4, <1>5, <1>6 DEF SavesRoot, Quiet
<1> HIDE DEF F
<1>11. Accounted(l, F, a, l.ark)
  <2> SUFFICES ASSUME NEW b \in Account, NEW m, Pairs(l, F, a, l.ark, b, m) PROVE Tied(b, m) \/ b \in mixed'
    BY DEF Accounted
  <2>1. l.ark = m /\ m # None /\ (l.id = b \/ b = a)
    BY <1>10 DEF Pairs
  <2>2. CASE l.id = b
    BY <1>1, <2>1, <2>2, TiedHere
  <2>3. CASE b = a
    BY <1>2, <2>1, <2>3
  <2> QED BY <2>1, <2>2, <2>3
<1> QED BY <1>1, <1>2, <1>3, <1>8, <1>9, <1>11, AgreeStarted

LEMMA ApproveAgrees ==
  ASSUME Inv, RootsFit, CodesFit, NEW d \in Device, Approve(d) PROVE RootsFit' /\ CodesFit'
<1>1. PICK g, l : l = local[d] /\ l \in Locals /\ Holds(g, d, l)
  BY DeviceHolds
<1>2. PICK of \in roster(l.id) : Begin(d, ApproveSteps(d, l.id, of)) /\ mixed' = mixed /\ minted' = minted
  BY <1>1 DEF Approve, Plain, history
<1> DEFINE a == l.id
           u == Wrap(a, of, [kind |-> "enrollment", ark |-> l.ark, epoch |-> l.epoch])
           v == Trust(a, of, l.epoch)
           F == {u, v}
<1>3. a \in Account /\ l.ark # None
  BY <1>1, LocalTypes DEF Approve, Established
<1>4. Begin(d, <<u, v>>)
  BY <1>1, <1>2 DEF ApproveSteps
<1>5. Only(u, a, l.ark) /\ Silent(u) /\ Quiet(v) /\ Silent(v)
  <2>1. v.at = "attest"
    BY DEF Trust
  <2> QED BY <2>1, OnlyGiven, SilentWrites, QuietWrites
<1>6. \A x : u # Save([ark |-> x])
  BY DEF Save, Wrap
<1> HIDE DEF u, v
<1>7. <<u, v>> \in Seq(F) /\ Whole(F, a, l.ark)
  BY <1>5, QuietOnly DEF Whole
<1>8. ~SavesRoot(F)
  BY <1>5, <1>6 DEF SavesRoot, Quiet
<1> HIDE DEF F
<1>9. Accounted(l, F, a, l.ark)
  BY <1>1, <1>3, <1>8, OwnRootAccounted
<1> HIDE DEF a
<1> QED BY <1>1, <1>2, <1>4, <1>7, <1>9, AgreeStarted

LEMMA SyncAgrees ==
  ASSUME Inv, RootsFit, CodesFit, NEW d \in Device, Sync(d) PROVE RootsFit' /\ CodesFit'
<1>1. PICK g, l : l = local[d] /\ l \in Locals /\ Holds(g, d, l)
  BY DeviceHolds
<1> DEFINE u == Step("push", l.db)
<1>2. Begin(d, <<u>>) /\ mixed' = mixed /\ minted' = minted /\ l.id = l.db /\ l.ark # None
  BY <1>1 DEF Sync, Plain, Established, history
<1>3. ASSUME NEW b \in Account, NEW m, Ties(l, <<u>>, b, m) PROVE Tied(b, m)
  <2>1. Elems(<<u>>) = {u}
    BY ElemsOne
  <2>2. \A x : u # Save([ark |-> x]) /\ u # Save([id |-> x])
    BY DEF Save, Step
  <2>3. \A x, y : ~Gives(u, x, y)
    BY DEF Gives, Step
  <2>4. \A x : u = Step("push", x) => x = l.db
    BY DEF Step
  <2> HIDE DEF u
  <2>5. \A i \in 1..Len(<<u>>) : <<u>>[i] = u
    OBVIOUS
  <2>6. l.id = b /\ l.ark = m
    BY <1>2, <1>3, <2>1, <2>2, <2>3, <2>4, <2>5 DEF Ties
  <2> QED BY <1>1, <1>2, <2>6, TiedHere
<1>4. RootsFit'
  BY <1>1, <1>2, <1>3, RootsStarted
<1>5. Silent(u)
  BY SilentWrites
<1> HIDE DEF u
<1>6. PICK F : F = {u}
  OBVIOUS
<1>7. \A n, c : Shows(n, <<u>>, c)
  <2>1. <<u>> \in Seq(F) /\ \A v \in F : Silent(v)
    BY <1>5, <1>6
  <2> QED BY <2>1, SilentShows
<1>8. CodesFit'
  BY <1>2, <1>7, CodesStarted
<1> QED BY <1>4, <1>8

LEMMA AcceptAgrees ==
  ASSUME Inv, RootsFit, CodesFit, NEW d \in Device, Accept(d) PROVE RootsFit' /\ CodesFit'
<1>1. PICK g, l : l = local[d] /\ l \in Locals /\ Holds(g, d, l)
  BY DeviceHolds
<1> DEFINE a == l.id
           b == wraps_list(a, d)[Min(EnrollmentFor(d, a))]
           k == b.ark
           u == Save([ark |-> k])
           v == Save([id |-> a])
           w == Identity(a, b.epoch)
           x == Step("adopt", a)
           F == {u, v, w, x}
<1>2. /\ Begin(d, <<u, v, w, x>>) /\ mixed' = mixed /\ minted' = minted
      /\ a # None /\ EnrollmentFor(d, a) # {} /\ l.ark \in {None, k}
  BY <1>1 DEF Accept, Plain, history
<1>3. a \in Account
  BY <1>1, <1>2, LocalTypes
<1>4. PICK s, i : s = relay.wraps[a][d] /\ i \in DOMAIN s /\ b = s[i] /\ b \in Bundles /\ b.kind = "enrollment"
  BY <1>2, <1>3, OpenedBundle
<1> HIDE DEF b
<1>5. Tied(a, k)
  <2>1. PICK r, y : r = relay /\ y = user
    OBVIOUS
  <2>2. Kept(r, y, a, k)
    BY <1>4, <2>1 DEF Kept
  <2> QED BY <2>1, <2>2, TiedThere
<1>6. Only(u, a, k) /\ Silent(u) /\ Only(v, a, k) /\ Silent(v) /\ Quiet(w) /\ Silent(w) /\ Quiet(x) /\ Silent(x)
  BY OnlySaves, QuietWrites, SilentWrites
<1> HIDE DEF u, v, w, x
<1>7. <<u, v, w, x>> \in Seq(F) /\ Whole(F, a, k)
  BY <1>6, QuietOnly DEF Whole
<1> HIDE DEF F
<1>8. Accounted(l, F, a, k)
  <2> SUFFICES ASSUME NEW c \in Account, NEW m, Pairs(l, F, a, k, c, m) PROVE Tied(c, m)
    BY DEF Accounted
  <2>1. c = a /\ (m = k \/ (l.ark = m /\ m # None))
    BY DEF Pairs
  <2>2. m = k
    BY <1>2, <2>1
  <2> QED BY <1>5, <2>1, <2>2
<1> HIDE DEF a, k
<1> QED BY <1>1, <1>2, <1>7, <1>8, AgreeStarted

LEMMA RecoverAgrees ==
  ASSUME Inv, RootsFit, CodesFit, NEW d \in Device, Recover(d) PROVE RootsFit' /\ CodesFit'
<1>1. PICK g, l : l = local[d] /\ l \in Locals /\ Holds(g, d, l)
  BY DeviceHolds
<1>2. PICK a \in Account :
        /\ guard_cli_join(d, a) /\ relay.recovery[a] # None /\ l.ark \in {None, relay.recovery[a].ark}
        /\ Begin(d, When(~l.keys, <<Save([keys |-> TRUE])>>)
                    \o <<Save([ark |-> relay.recovery[a].ark]), Save([id |-> a]), Step("epoch", a)>>)
        /\ mixed' = mixed /\ minted' = minted
  BY <1>1 DEF Recover, Plain, history
<1> DEFINE k == relay.recovery[a].ark
           c == ~l.keys
           u == KeysSave
           v == Save([ark |-> k])
           w == Save([id |-> a])
           x == Step("epoch", a)
           F == {u, v, w, x}
<1>3. Begin(d, When(c, <<u>>) \o <<v, w, x>>) /\ l.id \in {None, a}
  BY <1>1, <1>2 DEF KeysSave, guard_cli_join
<1>4. Tied(a, k)
  <2>1. PICK r, y : r = relay /\ y = user
    OBVIOUS
  <2>2. Kept(r, y, a, k)
    BY <1>2, <2>1 DEF Kept
  <2> QED BY <2>1, <2>2, TiedThere
<1>5. l.ark \in {None, k}
  BY <1>2
<1> HIDE DEF k
<1>6. Quiet(u) /\ Silent(u) /\ Only(v, a, k) /\ Silent(v) /\ Only(w, a, k) /\ Silent(w) /\ Quiet(x) /\ Silent(x)
  BY OnlySaves, QuietWrites, SilentWrites
<1>7. c \in BOOLEAN
  OBVIOUS
<1> HIDE DEF c, u, v, w, x
<1>8. When(c, <<u>>) \o <<v, w, x>> \in Seq(F)
  <2>1. <<u>> \in Seq(F) /\ <<v, w, x>> \in Seq(F)
    OBVIOUS
  <2> HIDE DEF F
  <2>2. When(c, <<u>>) \in Seq(F)
    BY <1>7, <2>1, WhenSeq
  <2> QED BY <2>1, <2>2
<1>9. Whole(F, a, k)
  BY <1>6, QuietOnly DEF Whole
<1> HIDE DEF F
<1>10. Accounted(l, F, a, k)
  <2> SUFFICES ASSUME NEW b \in Account, NEW m, Pairs(l, F, a, k, b, m) PROVE Tied(b, m)
    BY DEF Accounted
  <2>1. (b = a \/ l.id = b) /\ (m = k \/ (l.ark = m /\ m # None))
    BY DEF Pairs
  <2>2. m = k
    BY <1>5, <2>1
  <2>3. b = a
    BY <1>3, <2>1, Constants
  <2> QED BY <1>4, <2>2, <2>3
<1> QED BY <1>1, <1>2, <1>3, <1>8, <1>9, <1>10, AgreeStarted

LEMMA RecoveryEnableAgrees ==
  ASSUME Inv, RootsFit, CodesFit, NEW d \in Device, RecoveryEnable(d) PROVE RootsFit' /\ CodesFit'
<1>1. PICK g, l : l = local[d] /\ l \in Locals /\ Holds(g, d, l)
  BY DeviceHolds
<1> DEFINE blob == [ark |-> l.ark, secret |-> Fresh]
           u == Tell("codes", Fresh)
           v == Blob(l.id, blob)
           p == <<u, v>>
           F == {u, v}
<1>2. Begin(d, p) /\ mixed' = mixed /\ minted' = Fresh /\ l.id # None /\ l.ark # None
  BY <1>1 DEF RecoveryEnable, PublishSteps, history, Mint
<1>3. l.id \in Account
  BY <1>1, <1>2, LocalTypes
<1>4. Quiet(u) /\ Only(v, l.id, l.ark)
  <2>1. Only(v, l.id, blob.ark)
    BY OnlyGiven
  <2>2. blob.ark = l.ark
    OBVIOUS
  <2> HIDE DEF v, blob
  <2> QED BY <2>1, <2>2, QuietWrites
<1>5. /\ u = Tell("codes", v.blob.secret) /\ \A b : u # Save([capture |-> b]) /\ v # Save([capture |-> b])
      /\ u.at # "recovery"
  BY DEF Tell, Blob, Save
<1>6. \A x : v # Save([ark |-> x]) /\ v # Save([id |-> x])
  BY DEF Blob, Save
<1> HIDE DEF u, v
<1>7. Len(p) = 2 /\ p[1] = u /\ p[2] = v /\ p \in Seq(F)
  OBVIOUS
<1> HIDE DEF p
<1>8. ASSUME NEW n, NEW c PROVE Shows(n, p, c)
  <2>1. ASSUME NEW i \in 1..Len(p), p[i].at = "recovery"
        PROVE  Tell("codes", p[i].blob.secret) \in Before(p, i)
    <3>1. i = 2
      BY <1>5, <1>7, <2>1
    <3>2. u \in Before(p, 2)
      BY <1>7 DEF Before
    <3> QED BY <1>5, <1>7, <3>1, <3>2
  <2>2. \A i \in 1..Len(p) : \A b : p[i] # Save([capture |-> b])
    <3>1. \A i \in 1..Len(p) : p[i] = u \/ p[i] = v
      BY <1>7
    <3> QED BY <1>5, <3>1
  <2> QED BY <2>1, <2>2 DEF Shows
<1>9. CodesFit'
  BY <1>2, <1>8, CodesStarted
<1>10. \A z \in F : Only(z, l.id, l.ark)
  BY <1>4, QuietOnly
<1>11. ~SavesRoot(F) /\ ~SavesId(F)
  BY <1>4, <1>6 DEF SavesRoot, SavesId, Quiet
<1> HIDE DEF F
<1>12. ASSUME NEW b \in Account, NEW m, Ties(l, p, b, m) PROVE Tied(b, m)
  <2>1. Pairs(l, F, l.id, l.ark, b, m)
    BY <1>7, <1>10, <1>12, OnlyPairs
  <2>2. l.id = b /\ l.ark = m /\ m # None
    BY <1>2, <1>11, <2>1 DEF Pairs
  <2> QED BY <1>1, <2>2, TiedHere
<1>13. RootsFit'
  BY <1>1, <1>2, <1>12, RootsStarted
<1> QED BY <1>9, <1>13

LEMMA ImportPackageAgrees ==
  ASSUME Inv, RootsFit, CodesFit, NEW d \in Device, ImportPackage(d) PROVE RootsFit' /\ CodesFit'
<1>1. PICK g, l : l = local[d] /\ l \in Locals /\ Holds(g, d, l)
  BY DeviceHolds
<1>2. PICK q \in user.packages :
        /\ Begin(d, <<Save([ark |-> q.ark]), Save([id |-> q.id])>>)
        /\ mixed' = IF l.id \in {None, q.id} THEN mixed ELSE mixed \cup {l.id}
        /\ minted' = minted
  BY <1>1 DEF ImportPackage
<1> DEFINE u == Save([ark |-> q.ark])
           v == Save([id |-> q.id])
           p == <<u, v>>
<1>3. Tied(q.id, q.ark)
  <2>1. PICK r, y : r = relay /\ y = user
    OBVIOUS
  <2>2. Kept(r, y, q.id, q.ark)
    BY <1>2, <2>1 DEF Kept
  <2> QED BY <2>1, <2>2, TiedThere
<1>4. Silent(u) /\ Silent(v)
  BY OnlySaves
<1>5. /\ \A x : u = Save([ark |-> x]) => x = q.ark
      /\ \A x : v = Save([id |-> x]) => x = q.id
      /\ \A x : u # Save([id |-> x]) /\ v # Save([ark |-> x])
      /\ \A x, y : ~Gives(u, x, y) /\ ~Gives(v, x, y)
      /\ \A x : u # Step("push", x) /\ v # Step("push", x)
  <2>1. \A x : u = Save([ark |-> x]) => x = q.ark
    BY DEF Save
  <2>2. \A x : v = Save([id |-> x]) => x = q.id
    BY DEF Save
  <2>3. \A x : u # Save([id |-> x]) /\ v # Save([ark |-> x])
    BY DEF Save
  <2>4. \A x, y : ~Gives(u, x, y) /\ ~Gives(v, x, y)
    BY DEF Save, Gives
  <2>5. \A x : u # Step("push", x) /\ v # Step("push", x)
    BY DEF Save, Step
  <2> QED BY <2>1, <2>2, <2>3, <2>4, <2>5
<1>6. Begin(d, p) /\ mixed \subseteq mixed'
  BY <1>2
<1>7. u = Save([ark |-> q.ark])
  OBVIOUS
<1> HIDE DEF u, v
<1>8. p \in Seq({u, v}) /\ Len(p) = 2 /\ p[1] = u /\ p[2] = v
  OBVIOUS
<1>9. Elems(p) = {u, v}
  BY ElemsTwo
<1> HIDE DEF p
<1>10. SavesRoot(Before(p, 2))
  <2>1. u \in Before(p, 2)
    BY <1>8 DEF Before
  <2> QED BY <1>7, <2>1 DEF SavesRoot
<1>11. ASSUME NEW b \in Account, NEW m, Ties(l, p, b, m) PROVE Tied(b, m) \/ b \in mixed'
  <2>1. CASE (l.id = b \/ Save([id |-> b]) \in Elems(p)) /\ Save([ark |-> m]) \in Elems(p)
    <3>1. m = q.ark /\ (l.id = b \/ b = q.id)
      BY <1>5, <1>9, <2>1
    <3>2. CASE b = q.id
      BY <1>3, <3>1, <3>2
    <3>3. CASE b # q.id
      BY <1>2, <3>1, <3>3, Constants
    <3> QED BY <3>2, <3>3
  <2>2. CASE l.id = b /\ l.ark = m /\ m # None
    BY <1>1, <2>2, TiedHere
  <2>3. CASE \E i \in 1..Len(p) : p[i] = Save([id |-> b]) /\ ~SavesRoot(Before(p, i))
    <3>1. PICK i \in 1..Len(p) : p[i] = Save([id |-> b]) /\ ~SavesRoot(Before(p, i))
      BY <2>3
    <3>2. i = 1 \/ i = 2
      BY <1>8
    <3>3. p[1] # Save([id |-> b])
      BY <1>5, <1>8
    <3>4. i = 2
      BY <3>1, <3>2, <3>3
    <3> QED BY <1>10, <3>1, <3>4
  <2>4. ~\E i \in 1..Len(p) : Gives(p[i], b, m)
    BY <1>5, <1>8
  <2>5. Step("push", b) \notin Elems(p)
    BY <1>5, <1>9
  <2> QED BY <1>11, <2>1, <2>2, <2>3, <2>4, <2>5 DEF Ties
<1>12. RootsFit'
  BY <1>1, <1>2, <1>6, <1>11, RootsStarted
<1>13. PICK F : F = {u, v}
  OBVIOUS
<1>14. \A n, c : Shows(n, p, c)
  <2>1. p \in Seq(F) /\ \A w \in F : Silent(w)
    BY <1>4, <1>8, <1>13
  <2> QED BY <2>1, SilentShows
<1>15. CodesFit'
  BY <1>6, <1>14, CodesStarted
<1> QED BY <1>12, <1>15

LEMMA Join12 == ASSUME NEW a, NEW b, NEW c PROVE <<a>> \o <<b, c>> = <<a, b, c>>
<1> DEFINE s == <<a>> \o <<b, c>>
           t == <<a, b, c>>
<1>1. s \in Seq({a, b, c}) /\ Len(s) = 3 /\ s[1] = a /\ s[2] = b /\ s[3] = c
  OBVIOUS
<1>2. t \in Seq({a, b, c}) /\ Len(t) = 3 /\ t[1] = a /\ t[2] = b /\ t[3] = c
  OBVIOUS
<1> HIDE DEF s, t
<1>3. \A i \in 1..3 : s[i] = t[i]
  BY <1>1, <1>2
<1>4. s = t
  BY <1>1, <1>2, <1>3
<1> QED BY <1>4 DEF s, t

LEMMA Join102 == ASSUME NEW a, NEW b, NEW c PROVE <<a>> \o <<>> \o <<b, c>> = <<a, b, c>>
<1>1. <<a>> \o <<>> = <<a>>
  OBVIOUS
<1>2. <<a>> \o <<b, c>> = <<a, b, c>>
  BY Join12
<1> QED BY <1>1, <1>2, Zenon

LEMMA Join012 == ASSUME NEW a, NEW b, NEW c PROVE <<>> \o <<a>> \o <<b, c>> = <<a, b, c>>
<1>1. <<>> \o <<a>> = <<a>>
  OBVIOUS
<1>2. <<a>> \o <<b, c>> = <<a, b, c>>
  BY Join12
<1> QED BY <1>1, <1>2, Zenon

\* The recovery steps of a creation give away the root key of the account alone, unless they fail
\* first, and keep a code, or the user has it, before they publish its blob.
RecoveryFits(l, q, a, k) ==
  /\ q \in Seq(Writes)
  /\ \A i \in 1..Len(q) : \A x : q[i] # Save([id |-> x]) /\ q[i] # Save([ark |-> x]) /\ q[i] # Step("push", x)
  /\ \A i \in 1..Len(q) : \A b, m : Gives(q[i], b, m) => Fails(Before(q, i)) \/ (b = a /\ m = k)
  /\ \A i \in 1..Len(q) : q[i].at = "recovery" =>
       \/ l.capture = q[i].blob \/ Save([capture |-> q[i].blob]) \in Before(q, i)
       \/ Tell("codes", q[i].blob.secret) \in Before(q, i)
  /\ \A i \in 1..Len(q) : \A b : q[i] = Save([capture |-> b]) => l.capture = None /\ Before(q, i) = {}

LEMMA RecoveryStepsFit ==
  ASSUME NEW d, NEW l \in Locals, l = local[d], NEW a \in Account, NEW ark \in Nat, NEW code \in Nat,
         NEW q, q = RecoverySteps(d, a, ark, code)
  PROVE  RecoveryFits(l, q, a, ark)
<1> DEFINE kept == l.capture
           good == kept.ark = ark /\ kept.acct = a
           n == IF good THEN "valid" ELSE "fail"
           new == [ark |-> ark, acct |-> a, secret |-> code]
<1>1. CASE kept # None
  <2> DEFINE u == Step(n, a)
             v == Blob(a, kept)
             w == Tell("codes", kept.secret)
  <2>1. q = <<u, v, w>>
    <3>1. q = <<u>> \o <<>> \o <<v, w>>
      BY <1>1 DEF RecoverySteps, When
    <3> HIDE DEF u, v, w
    <3>2. <<u>> \o <<>> \o <<v, w>> = <<u, v, w>>
      BY Join102
    <3> QED BY <3>1, <3>2, Zenon
  <2>2. kept \in Blobs /\ kept.secret \in Nat
    BY <1>1, LocalTypes DEF Blobs
  <2>3. u \in Writes /\ v \in Writes /\ w \in Writes
    BY <2>2, WriteTypes DEF Steps
  <2>4. u.at = n /\ v.at = "recovery" /\ v.acct = a /\ v.blob = kept /\ w.at = "tell" /\ w.what = "codes"
    BY DEF Step, Blob, Tell
  <2>5. n \in {"valid", "fail"} /\ (n = "valid" => kept.ark = ark)
    OBVIOUS
  <2>6. \A x : /\ u # Save([id |-> x]) /\ u # Save([ark |-> x]) /\ u # Step("push", x) /\ u # Save([capture |-> x])
               /\ v # Save([id |-> x]) /\ v # Save([ark |-> x]) /\ v # Step("push", x) /\ v # Save([capture |-> x])
               /\ w # Save([id |-> x]) /\ w # Save([ark |-> x]) /\ w # Step("push", x) /\ w # Save([capture |-> x])
    <3>1. \A x : Save(x).at = "local" /\ Step("push", x).at = "push"
      BY DEF Save, Step
    <3> HIDE DEF u, v, w, n
    <3> QED BY <2>4, <2>5, <3>1
  <2> HIDE DEF u, v, w, n, kept
  <2>7. Len(q) = 3 /\ q[1] = u /\ q[2] = v /\ q[3] = w /\ q \in Seq(Writes)
    BY <2>1, <2>3
  <2>8. \A i \in 1..Len(q) : i = 1 \/ i = 2 \/ i = 3
    BY <2>7
  <2>9. u \in Before(q, 2)
    BY <2>7 DEF Before
  <2>10. \A b, m : ~Gives(u, b, m) /\ ~Gives(w, b, m)
    BY <2>4, <2>5 DEF Gives
  <2>11. \A b, m : Gives(v, b, m) => b = a /\ m = kept.ark
    BY <2>4 DEF Gives
  <2>12. n = "fail" => Fails(Before(q, 2))
    BY <2>4, <2>9 DEF Fails
  <2>13. \A b, m : Gives(q[2], b, m) => Fails(Before(q, 2)) \/ (b = a /\ m = ark)
    BY <2>5, <2>7, <2>11, <2>12
  <2>14. \A i \in 1..Len(q) : \A b, m : Gives(q[i], b, m) => Fails(Before(q, i)) \/ (b = a /\ m = ark)
    BY <2>7, <2>8, <2>10, <2>13
  <2>15. \A i \in 1..Len(q) : q[i].at = "recovery" => l.capture = q[i].blob
    <3>1. u.at # "recovery" /\ w.at # "recovery" /\ v.blob = l.capture
      BY <2>4, <2>5 DEF kept
    <3> QED BY <2>7, <2>8, <3>1
  <2>16. \A i \in 1..Len(q) : \A x : q[i] # Save([id |-> x]) /\ q[i] # Save([ark |-> x])
                                     /\ q[i] # Step("push", x) /\ q[i] # Save([capture |-> x])
    BY <2>6, <2>7, <2>8
  <2> QED BY <2>7, <2>14, <2>15, <2>16 DEF RecoveryFits
<1>2. CASE kept = None
  <2> DEFINE u == Save([capture |-> new])
             v == Blob(a, new)
             w == Tell("codes", new.secret)
  <2>1. q = <<u, v, w>>
    <3>1. q = <<>> \o <<u>> \o <<v, w>>
      BY <1>2 DEF RecoverySteps, When
    <3> HIDE DEF u, v, w
    <3>2. <<>> \o <<u>> \o <<v, w>> = <<u, v, w>>
      BY Join012
    <3> QED BY <3>1, <3>2, Zenon
  <2>2. new \in Blobs /\ new.secret \in Nat /\ new.ark = ark
    BY DEF Blobs
  <2>3. u \in Writes /\ v \in Writes /\ w \in Writes
    BY <2>2, WriteTypes
  <2>4. u.at = "local" /\ v.at = "recovery" /\ v.acct = a /\ v.blob = new /\ w.at = "tell" /\ w.what = "codes"
    BY DEF Save, Blob, Tell
  <2>5. \A x : /\ u # Save([id |-> x]) /\ u # Save([ark |-> x]) /\ u # Step("push", x)
               /\ v # Save([id |-> x]) /\ v # Save([ark |-> x]) /\ v # Step("push", x) /\ v # Save([capture |-> x])
               /\ w # Save([id |-> x]) /\ w # Save([ark |-> x]) /\ w # Step("push", x) /\ w # Save([capture |-> x])
    <3>1. \A x : Save(x).at = "local" /\ Step("push", x).at = "push"
      BY DEF Save, Step
    <3>2. \A x : u # Save([id |-> x]) /\ u # Save([ark |-> x])
      BY DEF Save
    <3> HIDE DEF u, v, w, new
    <3> QED BY <2>4, <3>1, <3>2
  <2>6. u = Save([capture |-> new])
    OBVIOUS
  <2> HIDE DEF u, v, w, new, kept
  <2>7. Len(q) = 3 /\ q[1] = u /\ q[2] = v /\ q[3] = w /\ q \in Seq(Writes)
    BY <2>1, <2>3
  <2>8. \A i \in 1..Len(q) : i = 1 \/ i = 2 \/ i = 3
    BY <2>7
  <2>9. u \in Before(q, 2) /\ Before(q, 1) = {}
    BY <2>7 DEF Before
  <2>10. \A b, m : ~Gives(u, b, m) /\ ~Gives(w, b, m)
    BY <2>4 DEF Gives
  <2>11. \A b, m : Gives(v, b, m) => b = a /\ m = ark
    BY <2>2, <2>4 DEF Gives
  <2>12. \A i \in 1..Len(q) : \A b, m : Gives(q[i], b, m) => b = a /\ m = ark
    BY <2>7, <2>8, <2>10, <2>11
  <2>13. \A i \in 1..Len(q) : q[i].at = "recovery" => Save([capture |-> q[i].blob]) \in Before(q, i)
    <3>1. u.at # "recovery" /\ w.at # "recovery"
      BY <2>4
    <3>2. Save([capture |-> q[2].blob]) \in Before(q, 2)
      BY <2>4, <2>6, <2>7, <2>9
    <3> QED BY <2>7, <2>8, <3>1, <3>2
  <2>14. \A i \in 1..Len(q) : \A x : q[i] # Save([id |-> x]) /\ q[i] # Save([ark |-> x]) /\ q[i] # Step("push", x)
    BY <2>5, <2>7, <2>8
  <2>15. \A i \in 1..Len(q) : \A b : q[i] = Save([capture |-> b]) => Before(q, i) = {}
    BY <2>5, <2>7, <2>8, <2>9
  <2>16. l.capture = None
    BY <1>2 DEF kept
  <2> QED BY <2>7, <2>12, <2>13, <2>14, <2>15, <2>16 DEF RecoveryFits
<1> HIDE DEF kept
<1> QED BY <1>1, <1>2

LEMMA PublishStepsFit ==
  ASSUME NEW l, NEW a \in Account, NEW ark \in Nat, NEW code \in Nat, NEW q, q = PublishSteps(a, ark, code)
  PROVE  RecoveryFits(l, q, a, ark)
<1> DEFINE new == [ark |-> ark, secret |-> code]
           u == Tell("codes", new.secret)
           v == Blob(a, new)
<1>1. q = <<u, v>>
  BY DEF PublishSteps
<1>2. new \in Blobs /\ new.secret \in Nat /\ new.ark = ark
  BY DEF Blobs
<1>3. u \in Writes /\ v \in Writes
  BY <1>2, WriteTypes
<1>4. u.at = "tell" /\ u.what = "codes" /\ v.at = "recovery" /\ v.acct = a /\ v.blob = new
  BY DEF Blob, Tell
<1>5. \A x : /\ u # Save([id |-> x]) /\ u # Save([ark |-> x]) /\ u # Step("push", x) /\ u # Save([capture |-> x])
             /\ v # Save([id |-> x]) /\ v # Save([ark |-> x]) /\ v # Step("push", x) /\ v # Save([capture |-> x])
  <2>1. \A x : Save(x).at = "local" /\ Step("push", x).at = "push"
    BY DEF Save, Step
  <2> HIDE DEF u, v
  <2> QED BY <1>4, <2>1
<1>6. u = Tell("codes", new.secret)
  OBVIOUS
<1> HIDE DEF u, v, new
<1>7. Len(q) = 2 /\ q[1] = u /\ q[2] = v /\ q \in Seq(Writes)
  BY <1>1, <1>3
<1>8. \A i \in 1..Len(q) : i = 1 \/ i = 2
  BY <1>7
<1>9. u \in Before(q, 2)
  BY <1>7 DEF Before
<1>10. \A b, m : ~Gives(u, b, m)
  BY <1>4 DEF Gives
<1>11. \A b, m : Gives(v, b, m) => b = a /\ m = ark
  BY <1>2, <1>4 DEF Gives
<1>12. \A i \in 1..Len(q) : \A b, m : Gives(q[i], b, m) => b = a /\ m = ark
  BY <1>7, <1>8, <1>10, <1>11
<1>13. \A i \in 1..Len(q) : q[i].at = "recovery" => Tell("codes", q[i].blob.secret) \in Before(q, i)
  <2>1. u.at # "recovery" /\ Tell("codes", q[2].blob.secret) \in Before(q, 2)
    BY <1>4, <1>6, <1>7, <1>9
  <2> QED BY <1>7, <1>8, <2>1
<1>14. \A i \in 1..Len(q) : \A x : q[i] # Save([id |-> x]) /\ q[i] # Save([ark |-> x])
                                   /\ q[i] # Step("push", x) /\ q[i] # Save([capture |-> x])
  BY <1>5, <1>7, <1>8
<1> QED BY <1>7, <1>12, <1>13, <1>14 DEF RecoveryFits

LEMMA BootstrapAgrees ==
  ASSUME Inv, RootsFit, CodesFit, NEW d \in Device, NEW auth \in BOOLEAN, NEW secret \in Secrets,
         Bootstrap(d, auth, secret)
  PROVE  RootsFit' /\ CodesFit'
<1>1. PICK g, l : l = local[d] /\ l \in Locals /\ Holds(g, d, l)
  BY DeviceHolds
<1> DEFINE a == OrFresh(l.id)
           k == OrFresh(l.ark)
<1>2. /\ Begin(d, BootstrapSteps(d, a, k, secret, auth)) /\ minted' = Fresh /\ Mint(TRUE)
      /\ mixed' = IF l.id # None /\ l.ark = None THEN mixed \cup {l.id} ELSE mixed
  BY <1>1 DEF Bootstrap, RootOfCreation, Mint
<1>3. Fresh \in Account /\ Fresh \in Nat
  BY <1>2, MintTypes
<1>4. /\ a \in Account /\ (l.id # None => a = l.id) /\ (l.id = None => a = Fresh)
      /\ k \in Nat /\ (l.ark # None => k = l.ark)
  BY <1>1, <1>3, LocalTypes DEF OrFresh
<1>6. mixed \subseteq mixed'
  BY <1>2
<1> HIDE DEF a, k
<1> DEFINE u == Identity(a, l.epoch)
           v == Step("adopt", a)
           w1 == KeysSave
           w2 == Save([ark |-> k])
           w3 == Save([id |-> a])
           B == BindingWrites(d, a, "create", l.epoch)
           F == {w1, w2, w3} \cup B
           c1 == ~l.keys
           c2 == l.ark # k
           c3 == l.id = None
           p1 == When(c1, <<w1>>) \o When(c2, <<w2>>) \o When(c3, <<w3>>)
           p2 == When(auth, AttachSteps(d, a, "create"))
           p3 == Rooted(d, a, l.epoch)
           q == BootstrapRecovery(d, a, k, secret)
           p == p1 \o p2 \o p3 \o <<u>>
           s == p \o q \o <<v>>
<1>7. BootstrapSteps(d, a, k, secret, auth) = s
  BY <1>1, WriteTypes DEF BootstrapSteps
<1>8. p \in Seq(F) /\ <<v>> \in Seq(F)
  <2>1. p1 \in Seq(F)
    <3>1. w1 \in F /\ w2 \in F /\ w3 \in F /\ c1 \in BOOLEAN /\ c2 \in BOOLEAN /\ c3 \in BOOLEAN
      OBVIOUS
    <3> HIDE DEF w1, w2, w3, c1, c2, c3, F
    <3>2. <<w1>> \in Seq(F) /\ <<w2>> \in Seq(F) /\ <<w3>> \in Seq(F)
      BY <3>1
    <3>3. When(c1, <<w1>>) \in Seq(F) /\ When(c2, <<w2>>) \in Seq(F) /\ When(c3, <<w3>>) \in Seq(F)
      BY <3>1, <3>2, WhenSeq
    <3> QED BY <3>3
  <2>2. p2 \in Seq(F)
    <3>1. AttachSteps(d, a, "create") \in Seq(F)
      BY AttachSeq DEF BindingWrites
    <3> HIDE DEF F
    <3> QED BY <3>1, WhenSeq
  <2>3. p3 \in Seq(F)
    <3> DEFINE x == Record(a)
               y == Trust(a, d, l.epoch)
    <3>1. p3 = <<x, y>> /\ x \in F /\ y \in F
      BY DEF Rooted, BindingWrites
    <3> HIDE DEF x, y, p3, F
    <3> QED BY <3>1
  <2>4. u \in F /\ v \in F
    BY DEF BindingWrites
  <2> HIDE DEF u, v, p1, p2, p3, F
  <2> QED BY <2>1, <2>2, <2>3, <2>4
<1>9. RecoveryFits(l, q, a, k)
  <2>1. CASE secret = "code"
    <3>1. q = RecoverySteps(d, a, k, Fresh)
      BY <2>1 DEF BootstrapRecovery
    <3> HIDE DEF q
    <3> QED BY <1>1, <1>3, <1>4, <3>1, RecoveryStepsFit
  <2>2. CASE secret = "passphrase"
    <3>1. q = PublishSteps(a, k, Fresh)
      BY <2>2 DEF BootstrapRecovery
    <3> HIDE DEF q
    <3> QED BY <1>3, <1>4, <3>1, PublishStepsFit
  <2>3. CASE secret = "none"
    <3>1. q = <<>>
      BY <2>3 DEF BootstrapRecovery
    <3> HIDE DEF q
    <3>2. Len(q) = 0 /\ q \in Seq(Writes)
      BY <3>1
    <3> QED BY <3>2 DEF RecoveryFits
  <2> QED BY <2>1, <2>2, <2>3 DEF Secrets
<1> HIDE DEF p, q
<1>10. \A z \in F : Only(z, a, k) /\ Silent(z)
  <2>1. Only(w1, a, k) /\ Only(w2, a, k) /\ Only(w3, a, k) /\ Silent(w1) /\ Silent(w2) /\ Silent(w3)
    BY QuietOnly, QuietWrites, OnlySaves, SilentWrites
  <2>2. \A z \in B : Only(z, a, k) /\ Silent(z)
    BY BindingQuiet, QuietOnly
  <2> HIDE DEF w1, w2, w3, B
  <2> QED BY <2>1, <2>2
<1> HIDE DEF F, v
<1>11. ASSUME NEW i \in 1..Len(s)
       PROVE  \/ s[i] \in F
              \/ \E j \in 1..Len(q) : /\ s[i] = q[j]
                                      /\ \A z : z \in Before(q, j) => z \in Before(s, i)
                                      /\ \A z : z \in Before(s, i) => z \in Before(q, j) \/ z \in F
  <2>1. PICK S : S = F \cup Writes
    OBVIOUS
  <2>2. F \in SUBSET S /\ q \in Seq(S)
    BY <1>9, <2>1 DEF RecoveryFits
  <2>3. PICK r : r = <<v>>
    OBVIOUS
  <2>4. PICK t : t = s
    OBVIOUS
  <2>5. t = p \o q \o r
    BY <2>3, <2>4
  <2>6. r \in Seq(F) /\ i \in 1..Len(t)
    BY <1>8, <2>3, <2>4
  <2> HIDE DEF s
  <2>7. \A n \in 1..Len(t) : Placed(t, n, q, F)
    BY <1>8, <2>2, <2>5, <2>6, Around
  <2>8. Placed(t, i, q, F)
    BY <2>6, <2>7
  <2> QED BY <2>4, <2>8 DEF Placed
<1> HIDE DEF s
<1>12. ASSUME NEW i \in 1..Len(s)
       PROVE  /\ \A x : s[i] = Save([id |-> x]) => x = a
              /\ \A x : s[i] = Save([ark |-> x]) => x = k
              /\ \A x : s[i] # Step("push", x)
              /\ \A b, m : Gives(s[i], b, m) => Fails(Before(s, i)) \/ (b = a /\ m = k)
  <2>1. CASE s[i] \in F
    BY <1>10, <2>1 DEF Only, Step
  <2>2. ASSUME NEW j \in 1..Len(q), s[i] = q[j], \A z : z \in Before(q, j) => z \in Before(s, i)
        PROVE  /\ \A x : s[i] # Save([id |-> x]) /\ s[i] # Save([ark |-> x]) /\ s[i] # Step("push", x)
               /\ \A b, m : Gives(s[i], b, m) => Fails(Before(s, i)) \/ (b = a /\ m = k)
    <3>1. Fails(Before(q, j)) => Fails(Before(s, i))
      BY <2>2 DEF Fails
    <3>2. \A x : q[j] # Save([id |-> x]) /\ q[j] # Save([ark |-> x]) /\ q[j] # Step("push", x)
      BY <1>9 DEF RecoveryFits
    <3>3. \A b, m : Gives(q[j], b, m) => Fails(Before(q, j)) \/ (b = a /\ m = k)
      BY <1>9 DEF RecoveryFits
    <3> QED BY <2>2, <3>1, <3>2, <3>3
  <2> QED BY <1>11, <2>1, <2>2
<1>13. ASSUME NEW b \in Account, NEW m, Ties(l, s, b, m)
       PROVE  b = a /\ m = k
  <2>1. \A x : Save([id |-> x]) \in Elems(s) => x = a
    BY <1>12 DEF Elems
  <2>2. \A x : Save([ark |-> x]) \in Elems(s) => x = k
    BY <1>12 DEF Elems
  <2>3. \A x : Step("push", x) \notin Elems(s)
    BY <1>12 DEF Elems
  <2>4. l.id = b => b = a
    BY <1>4, Constants
  <2>5. l.ark = m /\ m # None => m = k
    BY <1>4
  <2>6. CASE (l.id = b \/ Save([id |-> b]) \in Elems(s)) /\ Save([ark |-> m]) \in Elems(s)
    BY <2>1, <2>2, <2>4, <2>6
  <2>7. CASE l.id = b /\ l.ark = m /\ m # None
    BY <2>4, <2>5, <2>7
  <2>8. CASE l.ark = m /\ m # None /\ \E i \in 1..Len(s) : s[i] = Save([id |-> b]) /\ ~SavesRoot(Before(s, i))
    BY <1>12, <2>5, <2>8
  <2>9. CASE \E i \in 1..Len(s) : Gives(s[i], b, m) /\ ~Fails(Before(s, i))
    BY <1>12, <2>9
  <2>10. CASE Step("push", b) \in Elems(s) /\ (l.ark = m \/ Save([ark |-> m]) \in Elems(s))
    BY <2>3, <2>10
  <2> QED BY <1>13, <2>6, <2>7, <2>8, <2>9, <2>10 DEF Ties
<1>14. ASSUME NEW b \in Account, NEW m, Ties(l, s, b, m)
       PROVE  Tied(b, m) \/ b \in mixed' \/ (b = Fresh /\ m = k /\ minted' = Fresh)
  <2>1. b = a /\ m = k
    BY <1>13, <1>14
  <2>2. CASE l.id = None
    BY <1>2, <1>4, <2>1, <2>2
  <2>3. CASE l.id # None /\ l.ark = None
    BY <1>2, <1>4, <2>1, <2>3
  <2>4. CASE l.id # None /\ l.ark # None
    <3>1. l.id = b /\ l.ark = m /\ m # None
      BY <1>4, <2>1, <2>4
    <3> QED BY <1>1, <3>1, TiedHere
  <2> QED BY <2>2, <2>3, <2>4
<1>15. Begin(d, s)
  BY <1>2, <1>7
<1>16. RootsFit'
  BY <1>1, <1>2, <1>6, <1>14, <1>15, RootsStarted
<1>17. ASSUME NEW c PROVE Shows(l, s, c)
  <2>1. ASSUME NEW i \in 1..Len(s), s[i].at = "recovery"
        PROVE  \/ l.capture = s[i].blob \/ Save([capture |-> s[i].blob]) \in Before(s, i)
               \/ Tell("codes", s[i].blob.secret) \in Before(s, i)
    <3>1. s[i] \notin F
      BY <1>10, <2>1 DEF Silent
    <3>2. PICK j \in 1..Len(q) : s[i] = q[j] /\ \A z : z \in Before(q, j) => z \in Before(s, i)
      BY <1>11, <3>1
    <3>3. \/ l.capture = q[j].blob \/ Save([capture |-> q[j].blob]) \in Before(q, j)
          \/ Tell("codes", q[j].blob.secret) \in Before(q, j)
      BY <1>9, <2>1, <3>2 DEF RecoveryFits
    <3> QED BY <3>2, <3>3
  <2>2. ASSUME NEW i \in 1..Len(s), NEW b, s[i] = Save([capture |-> b])
        PROVE  l.capture = None /\ \A x : Save([capture |-> x]) \notin Before(s, i)
    <3>1. \A x : Save([capture |-> x]) \notin F
      BY <1>10 DEF Silent
    <3>2. PICK j \in 1..Len(q) : s[i] = q[j] /\ \A z : z \in Before(s, i) => z \in Before(q, j) \/ z \in F
      BY <1>11, <2>2, <3>1
    <3>3. l.capture = None /\ Before(q, j) = {}
      BY <1>9, <2>2, <3>2 DEF RecoveryFits
    <3> QED BY <3>1, <3>2, <3>3
  <2> QED BY <2>1, <2>2 DEF Shows
<1>18. CodesFit'
  BY <1>1, <1>15, <1>17, CodesStarted
<1> QED BY <1>16, <1>18

LEMMA BlobWrites ==
  ASSUME NEW w \in Writes, w.at = "recovery"
  PROVE  w.acct \in Account /\ w.blob \in Blobs
<1>1. \E a \in Account, b \in Blobs : w = Blob(a, b)
  BY DEF Writes, LocalWrites, RelayWrites, UserWrites, OtherWrites, KeysSave, Save, Identity, Record, Wrap, Blob, Tell, Sessions, Intend, Step, Steps
<1> QED BY <1>1 DEF Blob

\* Doing the first write of a plan leaves no blob without its code.
LEMMA WriteShows ==
  ASSUME NEW p \in Seq(Writes), p # <<>>, NEW t, t = Tail(p), NEW w, w = Head(p), NEW l, NEW m, Changes(w, l, m),
         NEW c, NEW e, \A x : x \in c => x \in e, \A x : w = Tell("codes", x) => x \in e, Shows(l, p, c)
  PROVE  Shows(m, t, e)
<1>1. Parted(p, w, t)
  BY TailOrder
<1>2. /\ \A i \in 1..Len(t) : t[i] \in Writes /\ i + 1 \in 1..Len(p) /\ p[i + 1] = t[i]
      /\ \A i \in 1..Len(t) : \A u : u \in Before(p, i + 1) <=> u = w \/ u \in Before(t, i)
      /\ 1 \in 1..Len(p) /\ p[1] = w
  BY <1>1 DEF Parted
<1>0. \/ \E k : w = Save([ark |-> k]) /\ m.capture = l.capture
      \/ \E a : w = Save([id |-> a]) /\ m.capture = l.capture
      \/ \E b : w = Save([capture |-> b]) /\ m.capture = b
      \/ m.capture = l.capture /\ \A x : w # Save([capture |-> x])
  BY DEF Changes
<1>3. \/ m.capture = l.capture /\ \A b : w # Save([capture |-> b])
      \/ \E b : w = Save([capture |-> b]) /\ m.capture = b
  <2>1. CASE \E k : w = Save([ark |-> k]) /\ m.capture = l.capture
    BY <2>1 DEF Save
  <2>2. CASE \E a : w = Save([id |-> a]) /\ m.capture = l.capture
    BY <2>2, OnlySaves DEF Silent
  <2>3. CASE \E b : w = Save([capture |-> b]) /\ m.capture = b
    BY <2>3
  <2>4. CASE m.capture = l.capture /\ \A x : w # Save([capture |-> x])
    BY <2>4
  <2> QED BY <1>0, <2>1, <2>2, <2>3, <2>4, Zenon
<1>4. \A b : w = Save([capture |-> b]) => l.capture = None /\ m.capture = b
  <2>1. \A b : w = Save([capture |-> b]) => l.capture = None
    BY <1>2 DEF Shows
  <2>2. \A b, x : Save([capture |-> b]) = Save([capture |-> x]) => b = x
    BY DEF Save
  <2> QED BY <1>3, <2>1, <2>2
<1>5. ASSUME NEW i \in 1..Len(t), t[i].at = "recovery"
      PROVE  \/ t[i].blob.secret \in e \/ m.capture = t[i].blob
             \/ Save([capture |-> t[i].blob]) \in Before(t, i) \/ Tell("codes", t[i].blob.secret) \in Before(t, i)
  <2>1. PICK u : u = t[i]
    OBVIOUS
  <2>2. PICK b : b = u.blob
    OBVIOUS
  <2>3. u \in Writes /\ u.at = "recovery"
    BY <1>2, <1>5, <2>1
  <2>4. b # None
    BY <2>2, <2>3, BlobWrites, Constants
  <2>5. \/ b.secret \in c \/ l.capture = b
        \/ Save([capture |-> b]) \in Before(p, i + 1) \/ Tell("codes", b.secret) \in Before(p, i + 1)
    BY <1>2, <1>5, <2>1, <2>2 DEF Shows
  <2>6. l.capture = b => m.capture = b
    BY <1>3, <1>4, <2>4
  <2>7. Save([capture |-> b]) \in Before(p, i + 1) => m.capture = b \/ Save([capture |-> b]) \in Before(t, i)
    BY <1>2, <1>4
  <2>8. Tell("codes", b.secret) \in Before(p, i + 1) => b.secret \in e \/ Tell("codes", b.secret) \in Before(t, i)
    BY <1>2
  <2> QED BY <2>1, <2>2, <2>5, <2>6, <2>7, <2>8
<1>6. ASSUME NEW i \in 1..Len(t), NEW b, t[i] = Save([capture |-> b])
      PROVE  m.capture = None /\ \A x : Save([capture |-> x]) \notin Before(t, i)
  <2>1. l.capture = None /\ \A x : Save([capture |-> x]) \notin Before(p, i + 1)
    BY <1>2, <1>6 DEF Shows
  <2>2. \A x : w # Save([capture |-> x])
    BY <1>2, <2>1
  <2> QED BY <1>2, <1>3, <2>1, <2>2
<1> QED BY <1>5, <1>6 DEF Shows

LEMMA WriteCodes ==
  ASSUME Inv, CodesFit, NEW d \in Device, Perform(d)
  PROVE  CodesFit'
<1>1. PICK w : w = Head(plan[d])
  OBVIOUS
<1>2. PICK r : r = RelayAfter(d, w)
  OBVIOUS
<1>3. PICK m : m = LocalAfter(d, w)
  OBVIOUS
<1>4. PICK q : q = PlanAfter(d, w)
  OBVIOUS
<1>5. PICK l : l = local[d]
  OBVIOUS
<1>6. PICK p : p = plan[d]
  OBVIOUS
<1>7. /\ p # <<>> /\ relay' = r /\ local' = [local EXCEPT ![d] = m] /\ plan' = [plan EXCEPT ![d] = q]
      /\ user' = IF w.at = "tell" THEN [user EXCEPT ![w.what] = @ \cup {w.is}] ELSE user
  BY <1>1, <1>2, <1>3, <1>4, <1>6 DEF Perform
<1>8. /\ relay \in Relays /\ user \in Users /\ local \in [Device -> Locals] /\ plan \in [Device -> Seq(Writes)]
      /\ l \in Locals /\ p \in Seq(Writes)
  BY <1>5, <1>6 DEF Inv, TypeOK
<1>9. Parted(p, w, Tail(p))
  BY <1>1, <1>6, <1>7, <1>8, TailOrder
<1>10. w \in Writes /\ 1 \in 1..Len(p) /\ p[1] = w /\ Before(p, 1) = {}
  BY <1>9 DEF Parted
<1>11. Changes(w, l, m)
  BY <1>3, <1>5, <1>8, <1>10, LocalFields
<1>12. PICK c, e : c = user.codes /\ e = user'.codes
  OBVIOUS
<1>13. (\A x : x \in c => x \in e) /\ \A x : w = Tell("codes", x) => x \in e
  <2>1. CASE w.at = "tell"
    <3>1. PICK v : v = user'
      OBVIOUS
    <3>2. v = [user EXCEPT ![w.what] = @ \cup {w.is}]
      BY <1>7, <2>1, <3>1
    <3>3. w.what = "codes" => v.codes = user.codes \cup {w.is}
      BY <1>8, <3>2 DEF Users
    <3>4. w.what = "codes" \/ v.codes = user.codes
      BY <1>8, <3>2 DEF Users
    <3>5. \A x : w = Tell("codes", x) => w.what = "codes" /\ w.is = x
      BY DEF Tell
    <3> QED BY <1>12, <3>1, <3>3, <3>4, <3>5
  <2>2. CASE w.at # "tell"
    <3>1. \A x : w # Tell("codes", x)
      BY <2>2 DEF Tell
    <3> QED BY <1>7, <1>12, <2>2, <3>1
  <2> QED BY <2>1, <2>2
<1>14. Shows(l, p, c)
  BY <1>5, <1>6, <1>12 DEF CodesFit
<1>15. Shows(m, q, e)
  <2>1. CASE w.at # "epoch"
    <3>1. PICK t : t = Tail(p)
      OBVIOUS
    <3>2. q = t
      BY <1>4, <1>6, <2>1, <3>1 DEF PlanAfter
    <3>3. Shows(m, t, e)
      BY <1>1, <1>6, <1>7, <1>8, <1>11, <1>13, <1>14, <3>1, WriteShows
    <3> QED BY <3>2, <3>3
  <2>2. CASE w.at = "epoch"
    <3>1. PICK n : n = current_epoch(w.acct)
      OBVIOUS
    <3>2. q = Rooted(d, w.acct, n) \o <<Identity(w.acct, n), Step("adopt", w.acct)>>
      BY <1>4, <2>2, <3>1 DEF PlanAfter
    <3>3. \A u \in Elems(q) : u.at # "recovery" /\ \A b : u # Save([capture |-> b])
      BY <3>2, EpochQuiet
    <3>4. \A i \in 1..Len(q) : q[i] \in Elems(q)
      BY DEF Elems
    <3> QED BY <3>3, <3>4 DEF Shows
  <2> QED BY <2>1, <2>2
<1>16. ASSUME NEW f \in Device, NEW n, NEW o, NEW x, n = local'[f], o = plan'[f], x = user'.codes
       PROVE  Shows(n, o, x)
  <2>1. CASE f = d
    <3>1. n = m /\ o = q /\ x = e
      BY <1>7, <1>8, <1>12, <1>16, <2>1
    <3> QED BY <1>15, <3>1
  <2>2. CASE f # d
    <3>1. n = local[f] /\ o = plan[f] /\ x = e
      BY <1>7, <1>8, <1>12, <1>16, <2>2
    <3>2. Shows(n, o, c)
      BY <1>12, <3>1 DEF CodesFit
    <3> QED BY <1>13, <3>1, <3>2 DEF Shows
  <2> QED BY <2>1, <2>2
<1>17. ASSUME NEW f \in Device, NEW b, b # None, local[f].capture = b
       PROVE  b.secret \in e \/ local'[f].capture = b
  <2>1. CASE f # d
    BY <1>7, <1>8, <1>17, <2>1
  <2>2. CASE f = d
    <3>1. l.capture = b /\ local'[f] = m
      BY <1>5, <1>7, <1>8, <1>17, <2>2
    <3>2. \A x : w = Save([capture |-> x]) => l.capture = None
      BY <1>10, <1>14 DEF Shows
    <3>3. m.capture = l.capture
      BY <1>11, <1>17, <3>1, <3>2 DEF Changes
    <3> QED BY <3>1, <3>3
  <2> QED BY <2>1, <2>2
<1>18. ASSUME NEW a \in Account, NEW b, b = relay'.recovery[a], b # None
       PROVE  b.secret \in e \/ \E f \in Device : local'[f].capture = b
  <2>1. b = relay.recovery[a] \/ (w.at = "recovery" /\ b = w.blob)
    BY <1>2, <1>7, <1>8, <1>10, <1>18, RelayFields
  <2>2. CASE b = relay.recovery[a]
    <3>1. b.secret \in c \/ \E f \in Device : local[f].capture = b
      BY <1>12, <1>18, <2>2 DEF CodesFit
    <3> QED BY <1>13, <1>17, <1>18, <3>1
  <2>3. CASE w.at = "recovery" /\ b = w.blob
    <3>1. b.secret \in c \/ l.capture = b
      BY <1>10, <1>14, <2>3 DEF Shows
    <3> QED BY <1>5, <1>13, <1>17, <1>18, <3>1
  <2> QED BY <2>1, <2>2, <2>3
<1> QED BY <1>12, <1>16, <1>18 DEF CodesFit

LEMMA PerformAgrees ==
  ASSUME Inv, RootsFit, CodesFit, NEW d \in Device, Perform(d)
  PROVE  RootsFit' /\ CodesFit'
<1>1. UNCHANGED <<mixed, minted>>
  BY DEF Perform, history, counters
<1>2. RootsFit'
  BY <1>1, WriteTies, RootsSame
<1> QED BY <1>2, WriteCodes

-----------------------------------------------------------------------------
(* Every step. *)

\* What devices and relay hold at first: one root key for an account, and codes for its blobs.
LEMMA InitAgrees == Init => RootsFit /\ CodesFit
<1> SUFFICES ASSUME Init PROVE RootsFit /\ CodesFit
  OBVIOUS
<1>1. PICK s \in Setups : relay = s.relay /\ local = s.local /\ user = s.user /\ minted = s.minted
  BY DEF Init
<1>2. plan = [d \in Device |-> <<>>]
  BY DEF Init
<1>3. Sensible(s)
  BY RosterAssumption
<1>4. ASSUME NEW a \in Account, NEW k, Tied(a, k)
      PROVE  k \in RootsIn(s, a)
  <2>1. CASE \E r, u : r = relay /\ u = user /\ Kept(r, u, a, k)
    <3>1. Kept(s.relay, s.user, a, k)
      BY <1>1, <2>1
    <3>2. CASE \E d \in Device : \E i \in DOMAIN s.relay.wraps[a][d] :
                 s.relay.wraps[a][d][i].kind = "enrollment" /\ s.relay.wraps[a][d][i].ark = k
      <4>1. PICK d \in Device : \E i \in DOMAIN s.relay.wraps[a][d] :
                 s.relay.wraps[a][d][i].kind = "enrollment" /\ s.relay.wraps[a][d][i].ark = k
        BY <3>2
      <4>2. PICK q : q = s.relay.wraps[a][d]
        OBVIOUS
      <4>3. PICK i \in DOMAIN q : q[i].kind = "enrollment" /\ q[i].ark = k
        BY <4>1, <4>2
      <4>4. q[i] \in {c \in Range(s.relay.wraps[a][d]) : c.kind = "enrollment"}
        BY <4>2, <4>3 DEF Range
      <4> QED BY <4>3, <4>4 DEF RootsIn
    <3>3. CASE s.relay.recovery[a] # None /\ s.relay.recovery[a].ark = k
      BY <3>3 DEF RootsIn
    <3>4. CASE \E q \in s.user.packages : q.id = a /\ q.ark = k
      BY <3>4 DEF RootsIn
    <3>5. CASE s.relay.first[a] # None /\ s.relay.first[a].ark = k
      BY <3>5 DEF RootsIn
    <3> QED BY <3>1, <3>2, <3>3, <3>4, <3>5 DEF Kept
  <2>2. ASSUME NEW d \in Device, NEW l, NEW p, l = local[d], p = plan[d], Ties(l, p, a, k)
        PROVE  k \in RootsIn(s, a)
    <3>1. p = <<>>
      BY <1>2, <2>2
    <3>2. Elems(p) = {}
      BY <3>1, ElemsNil
    <3>3. l.id = a /\ l.ark = k /\ k # None
      BY <2>2, <3>2, QuietTies
    <3>4. s.local[d].id = a /\ s.local[d].ark = k
      BY <1>1, <2>2, <3>3
    <3> QED BY <3>3, <3>4 DEF RootsIn
  <2> QED BY <1>4, <2>1, <2>2 DEF Tied
<1>5. \A a \in Account : /\ \A k, m \in RootsIn(s, a) : k = m
                         /\ RootsIn(s, a) # {} => a <= minted
                         /\ relay.recovery[a] # None =>
                              \/ relay.recovery[a].secret \in user.codes
                              \/ \E d \in Device : local[d].capture = relay.recovery[a]
  BY <1>1, <1>3 DEF Sensible
<1>6. RootsFit
  BY <1>4, <1>5 DEF RootsFit
<1>7. ASSUME NEW d \in Device, NEW l, NEW p, NEW c, l = local[d], p = plan[d], c = user.codes
      PROVE  Shows(l, p, c)
  <2>1. p \in Seq({})
    BY <1>2, <1>7
  <2> QED BY <2>1, SilentShows
<1>8. CodesFit
  BY <1>5, <1>7 DEF CodesFit
<1> QED BY <1>6, <1>8

LEMMA NextAgrees == Inv /\ RootsFit /\ CodesFit /\ [Next]_vars => RootsFit' /\ CodesFit'
<1> SUFFICES ASSUME Inv, RootsFit, CodesFit, [Next]_vars PROVE RootsFit' /\ CodesFit'
  OBVIOUS
<1>1. CASE UNCHANGED vars
  <2>1. UNCHANGED <<relay, local, plan, user, mixed, minted>>
    BY <1>1 DEF vars
  <2>2. \A a \in Account : \A k : Tied(a, k)' => Tied(a, k)
    BY <2>1 DEF Tied
  <2>3. RootsFit'
    BY <2>1, <2>2, RootsSame
  <2>4. CodesFit'
    BY <2>1 DEF CodesFit
  <2> QED BY <2>3, <2>4
<1>2. CASE Next
  <2>1. PICK d \in Device :
          Keys(d) \/ Remote(d) \/ Ceremony(d) \/ SaveItem(d) \/ Perform(d) \/ Refused(d) \/ Killed(d)
    BY <1>2 DEF Next
  <2>2. CASE Keys(d)
    BY <2>2, DeviceKeyInitAgrees, ExportPackageAgrees, ImportPackageAgrees DEF Keys
  <2>3. CASE Remote(d)
    BY <2>3, EnableAgrees, AttachAgrees, LoginJoinAgrees, LoginRenewAgrees, RevokeSessionAgrees, SyncAgrees DEF Remote
  <2>4. CASE Ceremony(d)
    <3>1. CASE \E auth \in BOOLEAN, secret \in Secrets : Bootstrap(d, auth, secret)
      BY <3>1, BootstrapAgrees
    <3>2. CASE Invite(d) \/ Enroll(d) \/ Approve(d) \/ Accept(d) \/ Revoke(d) \/ RecoveryEnable(d) \/ Recover(d)
      BY <3>2, InviteAgrees, EnrollAgrees, ApproveAgrees, AcceptAgrees, RevokeAgrees, RecoveryEnableAgrees, RecoverAgrees
    <3> QED BY <2>4, <3>1, <3>2 DEF Ceremony
  <2>5. CASE SaveItem(d)
    BY <2>5, SavedAgrees
  <2>6. CASE Perform(d)
    BY <2>6, PerformAgrees
  <2>7. CASE Refused(d) \/ Killed(d)
    <3>1. plan' = [plan EXCEPT ![d] = <<>>] /\ UNCHANGED <<relay, local, user, mixed, minted>>
      BY <2>7 DEF Refused, Killed, history, counters
    <3> QED BY <3>1, DroppedAgrees
  <2> QED BY <2>1, <2>2, <2>3, <2>4, <2>5, <2>6, <2>7
<1> QED BY <1>1, <1>2

\* An account has one root key wherever it is kept, on devices, at the relay and with the user,
\* unless a command put its id to another key; and whoever can open its recovery blob exists.
THEOREM AccountsAgree == Spec => []RootsAgree
<1> DEFINE Agreed == Inv /\ RootsFit /\ CodesFit
<1>1. Init => Agreed
  BY InitInv, InitAgrees
<1>2. Agreed /\ [Next]_vars => Agreed'
  BY NextKeeps, NextAgrees
<1>3. Agreed => RootsAgree
  <2> SUFFICES ASSUME RootsFit, CodesFit, NEW a \in Account
               PROVE  /\ a \notin mixed => Cardinality(RootsOf(a)) <= 1
                      /\ relay.recovery[a] # None =>
                           \/ relay.recovery[a].secret \in user.codes
                           \/ \E d \in Device : local[d].capture = relay.recovery[a]
    BY DEF RootsAgree
  <2>1. ASSUME NEW k \in RootsOf(a) PROVE Tied(a, k)
    <3>0. RootsOf(a) = RootsIn([relay |-> relay, local |-> local, user |-> user], a)
      BY DEF RootsOf, World
    <3>1. PICK r, u : r = relay /\ u = user
      OBVIOUS
    <3>2. \/ \E d \in Device : local[d].id = a /\ local[d].ark # None /\ local[d].ark = k
          \/ \E d \in Device : \E b \in Range(r.wraps[a][d]) : b.kind = "enrollment" /\ b.ark = k
          \/ r.recovery[a] # None /\ r.recovery[a].ark = k
          \/ \E q \in u.packages : q.id = a /\ q.ark = k
          \/ r.first[a] # None /\ r.first[a].ark = k
      BY <2>1, <3>0, <3>1 DEF RootsIn
    <3>3. CASE \E d \in Device : local[d].id = a /\ local[d].ark # None /\ local[d].ark = k
      BY <3>3, TiedHere
    <3>4. CASE \E d \in Device : \E b \in Range(r.wraps[a][d]) : b.kind = "enrollment" /\ b.ark = k
      <4>1. Kept(r, u, a, k)
        BY <3>4 DEF Kept, Range
      <4> QED BY <3>1, <4>1, TiedThere
    <3>5. CASE \/ r.recovery[a] # None /\ r.recovery[a].ark = k
               \/ \E q \in u.packages : q.id = a /\ q.ark = k
               \/ r.first[a] # None /\ r.first[a].ark = k
      <4>1. Kept(r, u, a, k)
        BY <3>5 DEF Kept
      <4> QED BY <3>1, <4>1, TiedThere
    <3> QED BY <3>2, <3>3, <3>4, <3>5
  <2>2. ASSUME a \notin mixed PROVE Cardinality(RootsOf(a)) <= 1
    <3>1. PICK R : R = RootsOf(a)
      OBVIOUS
    <3>2. \A k, m \in R : k = m
      BY <2>1, <2>2, <3>1 DEF RootsFit
    <3>3. CASE R = {}
      BY <3>1, <3>3, FS_EmptySet
    <3>4. CASE R # {}
      <4>1. PICK k \in R : TRUE
        BY <3>4
      <4>2. R = {k}
        BY <3>2, <4>1
      <4> QED BY <3>1, <4>2, FS_Singleton
    <3> QED BY <3>3, <3>4
  <2>3. relay.recovery[a] # None =>
          relay.recovery[a].secret \in user.codes \/ \E d \in Device : local[d].capture = relay.recovery[a]
    BY DEF CodesFit
  <2> QED BY <2>2, <2>3
<1> QED BY <1>1, <1>2, <1>3, PTL DEF Spec
=============================================================================
