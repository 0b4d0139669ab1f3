------------------------ MODULE StoreAdmissionProofs ------------------------
(***************************************************************************)
(* The admission of requests for any number of requests and tenants, any   *)
(* mix of reads, writes and bindings, and any pool.                        *)
(*                                                                         *)
(* The properties speak of counters and holders; what a thread holds is    *)
(* decided by the place it is at.  The inductive invariant therefore reads *)
(* every holder and every counter off the places.                          *)
(***************************************************************************)
EXTENDS StoreAdmission, FiniteSetTheorems, TLAPS

Place ==
  {"gate", "slot", "slot_asleep", "conn", "conn_asleep", "run", "notify_conn",
   "drop_slot", "notify_slot", "drop_lease", "done"}

Inside(r) == pc[r] \notin {"gate", "done"}

TypeOK ==
  /\ pc \in [Request -> Place]
  /\ lapsed \subseteq Request
  /\ leases \subseteq Request
  /\ binder \in Request \cup {NoOne}
  /\ writer \in Request \cup {NoOne}
  /\ idle \in Nat

\* The gate is held for reading by the reads and writes inside, for writing by the
\* binding inside, and never for both.
GateHeld ==
  /\ \A r \in Request :
       IF op[r].kind = "bind" THEN Inside(r) <=> binder = r
                              ELSE Inside(r) <=> r \in leases
  /\ binder # NoOne => op[binder].kind = "bind" /\ leases = {}

\* The limiter's map holds the tenants with a slot taken, at their number, which the
\* cap bounds.
SlotsCounted ==
  /\ \A t \in Tenant :
       /\ Taken(t) = Cardinality(SlotHolders(t))
       /\ Taken(t) <= Cap
       /\ t \in DOMAIN inflight <=> SlotHolders(t) # {}

PoolCounted == idle + Cardinality(Readers) = PoolSize

WriterHeld ==
  \A r \in Request : writer = r <=> pc[r] = "run" /\ op[r].kind # "read"

\* The inductive invariant.
IInv == TypeOK /\ GateHeld /\ SlotsCounted /\ PoolCounted /\ WriterHeld

-----------------------------------------------------------------------------
(* Sets of requests. *)

LEMMA CapBounds ==
  Cap \in Nat /\ Cap >= 1 /\ (PoolSize > 1 => Cap < PoolSize)
BY AdmissionAssumption DEF Cap

\* Every set of requests is finite, and its size follows one request in or out.
LEMMA RequestsCount ==
  ASSUME NEW S \in SUBSET Request
  PROVE  /\ Cardinality(S) \in Nat
         /\ Cardinality(S) = 0 <=> S = {}
         /\ \A r \in Request \ S : Cardinality(S \cup {r}) = Cardinality(S) + 1
         /\ \A r \in S : Cardinality(S \ {r}) = Cardinality(S) - 1
         /\ \A T \in SUBSET S : Cardinality(T) <= Cardinality(S)
<1>1. IsFiniteSet(S)
  BY AdmissionAssumption, FS_Subset
<1> QED
  BY <1>1, FS_CardinalityType, FS_EmptySet, FS_AddElement, FS_RemoveElement, FS_Subset

LEMMA HoldersAreRequests ==
  /\ Readers \in SUBSET Request
  /\ \A t \in Tenant : SlotHolders(t) \in SUBSET Request
BY DEF Readers, SlotHolders

-----------------------------------------------------------------------------
(* Steps that leave a holder alone. *)

\* No thread enters or leaves.
LEMMA GateKept ==
  ASSUME GateHeld, UNCHANGED <<leases, binder>>,
         \A r \in Request : Inside(r)' <=> Inside(r)
  PROVE  GateHeld'
BY DEF GateHeld

\* No thread takes or gives back a slot.
LEMMA SlotsKept ==
  ASSUME SlotsCounted, UNCHANGED inflight,
         \A r \in Request : pc'[r] \in SlotPlaces <=> pc[r] \in SlotPlaces
  PROVE  SlotsCounted'
<1>1. \A t \in Tenant : SlotHolders(t)' = SlotHolders(t)
  BY DEF SlotHolders
<1>2. \A t \in Tenant : Taken(t)' = Taken(t)
  BY DEF Taken
<1> QED BY <1>1, <1>2 DEF SlotsCounted

\* No operation starts or ends.
LEMMA RunsKept ==
  ASSUME PoolCounted, WriterHeld, UNCHANGED <<idle, writer>>,
         \A r \in Request : pc'[r] = "run" <=> pc[r] = "run"
  PROVE  PoolCounted' /\ WriterHeld'
<1>1. Readers' = Readers
  BY DEF Readers
<1> QED BY <1>1 DEF PoolCounted, WriterHeld

-----------------------------------------------------------------------------
(* The namespace lease. *)

LEMMA InitIInv == Init => IInv
<1> SUFFICES ASSUME Init PROVE IInv
  OBVIOUS
<1>1. TypeOK /\ GateHeld
  BY AdmissionAssumption DEF Init, TypeOK, GateHeld, Inside, Place
<1>2. Readers = {} /\ \A t \in Tenant : SlotHolders(t) = {}
  BY DEF Init, Readers, SlotHolders, SlotPlaces
<1>3. SlotsCounted
  <2>1. \A t \in Tenant : t \notin DOMAIN inflight
    BY DEF Init
  <2>2. \A t \in Tenant : Taken(t) = 0
    BY <2>1 DEF Taken
  <2> QED BY <1>2, <2>1, <2>2, CapBounds, FS_EmptySet DEF SlotsCounted
<1>4. PoolCounted /\ WriterHeld
  BY <1>2, FS_EmptySet, AdmissionAssumption DEF Init, PoolCounted, WriterHeld
<1> QED BY <1>1, <1>3, <1>4 DEF IInv

LEMMA LeaseKeepsIInv ==
  ASSUME IInv, NEW r \in Request, Lease(r) \/ BindLease(r) \/ DropLease(r)
  PROVE  IInv'
<1>1. op[r].kind \in Kind /\ \A x \in Request : x # NoOne
  BY AdmissionAssumption
<1>2. PICK where \in {"slot", "drop_lease", "done"} :
        /\ pc' = [pc EXCEPT ![r] = where]
        /\ pc[r] \in {"gate", "drop_lease"}
        /\ pc[r] = "drop_lease" <=> where = "done"
  BY DEF Lease, BindLease, DropLease, Goto
<1>3. \A x \in Request \ {r} : pc'[x] = pc[x]
  BY <1>2 DEF IInv, TypeOK
<1>4. pc'[r] = where
  BY <1>2 DEF IInv, TypeOK
<1>5. UNCHANGED <<lapsed, inflight, idle, writer>>
  BY DEF Lease, BindLease, DropLease
<1>6. TypeOK'
  BY <1>2, <1>5 DEF IInv, TypeOK, Place, Lease, BindLease, DropLease
<1>7. GateHeld'
  <2>1. CASE Lease(r)
    BY <1>1, <1>2, <1>3, <1>4, <2>1 DEF IInv, TypeOK, GateHeld, Inside, Lease, Kind
  <2>2. CASE BindLease(r)
    BY <1>1, <1>2, <1>3, <1>4, <2>2 DEF IInv, TypeOK, GateHeld, Inside, BindLease, Kind
  <2>3. CASE DropLease(r)
    BY <1>1, <1>2, <1>3, <1>4, <2>3 DEF IInv, TypeOK, GateHeld, Inside, DropLease, Kind
  <2> QED BY <2>1, <2>2, <2>3
<1>8. SlotsCounted'
  BY <1>2, <1>3, <1>4, <1>5, SlotsKept DEF IInv, SlotPlaces
<1>9. PoolCounted' /\ WriterHeld'
  BY <1>2, <1>3, <1>4, <1>5, RunsKept DEF IInv
<1> QED BY <1>6, <1>7, <1>8, <1>9 DEF IInv

-----------------------------------------------------------------------------
(* TenantLimiter. *)

\* A step of r alone, from one place inside to another.
LEMMA StepInside ==
  ASSUME IInv, NEW r \in Request, NEW where \in Place \ {"gate", "done"},
         Inside(r), Goto(r, where), UNCHANGED <<leases, binder>>
  PROVE  /\ pc' \in [Request -> Place]
         /\ pc'[r] = where
         /\ \A x \in Request \ {r} : pc'[x] = pc[x]
         /\ GateHeld'
<1>1. /\ pc' \in [Request -> Place]
      /\ pc'[r] = where
      /\ \A x \in Request \ {r} : pc'[x] = pc[x]
  BY DEF IInv, TypeOK, Goto
<1>2. \A x \in Request : Inside(x)' <=> Inside(x)
  BY <1>1 DEF Inside
<1> QED BY <1>1, <1>2, GateKept DEF IInv

LEMMA AcquireSlotKeepsIInv ==
  ASSUME IInv, NEW r \in Request, AcquireSlot(r)
  PROVE  IInv'
<1> DEFINE t == op[r].tenant
<1>1. t \in Tenant
  BY AdmissionAssumption
<1>2. /\ pc[r] = "slot" /\ Taken(t) < Cap
      /\ inflight' = [u \in DOMAIN inflight \cup {t} |->
                        IF u = t THEN Taken(u) + 1 ELSE inflight[u]]
      /\ Goto(r, "conn") /\ lapsed' = lapsed \ {r}
      /\ UNCHANGED <<leases, binder, idle, writer>>
  BY DEF AcquireSlot
<1> HIDE DEF t
<1>3. /\ pc' \in [Request -> Place] /\ pc'[r] = "conn"
      /\ \A x \in Request \ {r} : pc'[x] = pc[x]
      /\ GateHeld'
  BY <1>2, StepInside DEF Inside, Place
<1>4. TypeOK'
  BY <1>2, <1>3 DEF IInv, TypeOK
<1>5. SlotHolders(t)' = SlotHolders(t) \cup {r} /\ r \notin SlotHolders(t)
  BY <1>2, <1>3 DEF SlotHolders, SlotPlaces, t
<1>6. \A u \in Tenant \ {t} : SlotHolders(u)' = SlotHolders(u)
  BY <1>2, <1>3 DEF SlotHolders, SlotPlaces, t
<1>7. /\ Taken(t)' = Taken(t) + 1 /\ t \in DOMAIN inflight'
      /\ \A u \in Tenant \ {t} : Taken(u)' = Taken(u)
      /\ \A u \in Tenant \ {t} : u \in DOMAIN inflight' <=> u \in DOMAIN inflight
  BY <1>2 DEF Taken
<1>8. Cardinality(SlotHolders(t) \cup {r}) = Cardinality(SlotHolders(t)) + 1
  BY <1>1, <1>5, RequestsCount, HoldersAreRequests
<1>9. Cardinality(SlotHolders(t)) \in Nat
  BY <1>1, RequestsCount, HoldersAreRequests
<1>10. Taken(t) = Cardinality(SlotHolders(t))
  BY <1>1 DEF IInv, SlotsCounted
<1>11. SlotsCounted'
  <2> SUFFICES ASSUME NEW u \in Tenant
               PROVE  /\ Taken(u)' = Cardinality(SlotHolders(u)')
                      /\ Taken(u)' <= Cap
                      /\ u \in DOMAIN inflight' <=> SlotHolders(u)' # {}
    BY DEF SlotsCounted, Cap
  <2>1. CASE u = t
    BY <1>2, <1>5, <1>7, <1>8, <1>9, <1>10, <2>1, CapBounds
  <2>2. CASE u # t
    BY <1>6, <1>7, <2>2 DEF IInv, SlotsCounted
  <2> QED BY <2>1, <2>2
<1>12. PoolCounted' /\ WriterHeld'
  BY <1>2, <1>3, RunsKept DEF IInv
<1> QED BY <1>3, <1>4, <1>11, <1>12 DEF IInv

LEMMA ReleaseKeepsIInv ==
  ASSUME IInv, NEW r \in Request, Release(r)
  PROVE  IInv'
<1> DEFINE t == op[r].tenant
<1>1. t \in Tenant
  BY AdmissionAssumption
<1>2. /\ pc[r] = "drop_slot"
      /\ inflight' = IF inflight[t] = 1
                     THEN [u \in DOMAIN inflight \ {t} |-> inflight[u]]
                     ELSE [inflight EXCEPT ![t] = @ - 1]
      /\ Goto(r, "notify_slot")
      /\ UNCHANGED <<lapsed, leases, binder, idle, writer>>
  BY DEF Release
<1>3. r \in SlotHolders(t)
  BY <1>2 DEF SlotHolders, SlotPlaces, t
<1> HIDE DEF t
<1>4. /\ pc' \in [Request -> Place] /\ pc'[r] = "notify_slot"
      /\ \A x \in Request \ {r} : pc'[x] = pc[x]
      /\ GateHeld'
  BY <1>2, StepInside DEF Inside, Place
<1>5. TypeOK'
  BY <1>2, <1>4 DEF IInv, TypeOK
<1>6. SlotHolders(t)' = SlotHolders(t) \ {r}
  BY <1>2, <1>4 DEF SlotHolders, SlotPlaces
<1>7. \A u \in Tenant \ {t} : SlotHolders(u)' = SlotHolders(u)
  BY <1>2, <1>4 DEF SlotHolders, SlotPlaces, t
<1>8. /\ Taken(t) = Cardinality(SlotHolders(t)) /\ Taken(t) <= Cap
      /\ t \in DOMAIN inflight /\ Taken(t) = inflight[t]
  BY <1>1, <1>3 DEF IInv, SlotsCounted, Taken
<1>9. /\ Cardinality(SlotHolders(t)) \in Nat
      /\ Cardinality(SlotHolders(t) \ {r}) = Cardinality(SlotHolders(t)) - 1
      /\ SlotHolders(t) \ {r} \in SUBSET Request
  BY <1>1, <1>3, RequestsCount, HoldersAreRequests
<1>10. Cardinality(SlotHolders(t) \ {r}) = 0 <=> SlotHolders(t) \ {r} = {}
  BY <1>9, RequestsCount
<1>11. /\ Taken(t)' = Taken(t) - 1
       /\ t \in DOMAIN inflight' <=> Taken(t) # 1
  <2>1. CASE inflight[t] = 1
    <3>1. t \notin DOMAIN inflight'
      BY <1>2, <2>1
    <3> QED BY <1>8, <2>1, <3>1 DEF Taken
  <2>2. CASE inflight[t] # 1
    <3>1. t \in DOMAIN inflight' /\ inflight'[t] = inflight[t] - 1
      BY <1>2, <1>8, <2>2
    <3> QED BY <1>8, <2>2, <3>1 DEF Taken
  <2> QED BY <2>1, <2>2
<1>12. \A u \in Tenant \ {t} :
         Taken(u)' = Taken(u) /\ (u \in DOMAIN inflight' <=> u \in DOMAIN inflight)
  <2> SUFFICES ASSUME NEW u \in Tenant \ {t}
               PROVE  /\ u \in DOMAIN inflight' <=> u \in DOMAIN inflight
                      /\ u \in DOMAIN inflight => inflight'[u] = inflight[u]
    BY DEF Taken
  <2> QED BY <1>2
<1>13. SlotsCounted'
  <2> SUFFICES ASSUME NEW u \in Tenant
               PROVE  /\ Taken(u)' = Cardinality(SlotHolders(u)')
                      /\ Taken(u)' <= Cap
                      /\ u \in DOMAIN inflight' <=> SlotHolders(u)' # {}
    BY DEF SlotsCounted, Cap
  <2>1. CASE u = t
    BY <1>6, <1>8, <1>9, <1>10, <1>11, <2>1, CapBounds
  <2>2. CASE u # t
    BY <1>7, <1>12, <2>2 DEF IInv, SlotsCounted
  <2> QED BY <2>1, <2>2
<1>14. PoolCounted' /\ WriterHeld'
  BY <1>2, <1>4, RunsKept DEF IInv
<1> QED BY <1>4, <1>5, <1>13, <1>14 DEF IInv

\* Waiting, waking, timing out and notifying move threads between the places of one
\* holding: nothing is taken and nothing is given back.
LEMMA NothingTaken ==
  ASSUME IInv, pc' \in [Request -> Place], lapsed' \subseteq Request,
         UNCHANGED <<leases, binder, inflight, idle, writer>>,
         \A x \in Request : Inside(x)' <=> Inside(x),
         \A x \in Request : pc'[x] \in SlotPlaces <=> pc[x] \in SlotPlaces,
         \A x \in Request : pc'[x] = "run" <=> pc[x] = "run"
  PROVE  IInv'
<1>1. TypeOK'
  BY DEF IInv, TypeOK
<1> QED BY <1>1, GateKept, SlotsKept, RunsKept DEF IInv

LEMMA WaitSlotKeepsIInv ==
  ASSUME IInv, NEW r \in Request, WaitSlot(r) \/ NotifySlot(r)
  PROVE  IInv'
<1>1. /\ lapsed' \subseteq Request
      /\ UNCHANGED <<leases, binder, inflight, idle, writer>>
  BY DEF IInv, TypeOK, WaitSlot, NotifySlot
<1>2. CASE WaitSlot(r)
  <2>1. PICK where \in {"drop_lease", "slot_asleep"} : pc' = [pc EXCEPT ![r] = where]
    BY <1>2 DEF WaitSlot, Goto
  <2> QED BY <1>1, <1>2, <2>1, NothingTaken
          DEF IInv, TypeOK, WaitSlot, Inside, Place, SlotPlaces
<1>3. CASE NotifySlot(r)
  BY <1>1, <1>3, NothingTaken DEF IInv, TypeOK, NotifySlot, Inside, Place, SlotPlaces
<1> QED BY <1>2, <1>3

-----------------------------------------------------------------------------
(* ConnectionPool and the writer mutex. *)

LEMMA GetReaderKeepsIInv ==
  ASSUME IInv, NEW r \in Request, GetReader(r) \/ PutBack(r)
  PROVE  IInv'
<1>1. /\ op[r].kind = "read" /\ UNCHANGED <<leases, binder, inflight, writer>>
      /\ lapsed' \subseteq Request /\ pc[r] \in {"conn", "run"}
  BY DEF GetReader, PutBack, IInv, TypeOK
<1>2. PICK where \in {"run", "notify_conn"} :
        /\ Goto(r, where)
        /\ \/ where = "run" /\ pc[r] = "conn" /\ idle > 0 /\ idle' = idle - 1
           \/ where = "notify_conn" /\ pc[r] = "run" /\ idle' = idle + 1
  BY DEF GetReader, PutBack
<1>3. /\ pc' \in [Request -> Place] /\ pc'[r] = where
      /\ \A x \in Request \ {r} : pc'[x] = pc[x]
      /\ GateHeld'
  BY <1>1, <1>2, StepInside DEF Inside, Place
<1>4. TypeOK'
  BY <1>1, <1>2, <1>3 DEF IInv, TypeOK
<1>5. SlotsCounted'
  BY <1>1, <1>2, <1>3, SlotsKept DEF IInv, SlotPlaces
<1>6. WriterHeld'
  BY <1>1, <1>3 DEF IInv, WriterHeld
<1>7. idle \in Nat /\ idle + Cardinality(Readers) = PoolSize
  BY DEF IInv, TypeOK, PoolCounted
<1>8. Cardinality(Readers) \in Nat
  BY RequestsCount, HoldersAreRequests
<1>9. PoolCounted'
  <2>1. CASE where = "run"
    <3>1. Readers' = Readers \cup {r} /\ r \notin Readers
      BY <1>1, <1>2, <1>3, <2>1 DEF Readers
    <3>2. Cardinality(Readers') = Cardinality(Readers) + 1
      BY <3>1, RequestsCount, HoldersAreRequests
    <3> QED BY <1>2, <1>7, <1>8, <2>1, <3>2 DEF PoolCounted
  <2>2. CASE where = "notify_conn"
    <3>1. Readers' = Readers \ {r} /\ r \in Readers
      BY <1>1, <1>2, <1>3, <2>2 DEF Readers
    <3>2. Cardinality(Readers') = Cardinality(Readers) - 1
      BY <3>1, RequestsCount, HoldersAreRequests
    <3> QED BY <1>2, <1>7, <1>8, <2>2, <3>2 DEF PoolCounted
  <2> QED BY <2>1, <2>2
<1> QED BY <1>3, <1>4, <1>5, <1>6, <1>9 DEF IInv

LEMMA LockWriterKeepsIInv ==
  ASSUME IInv, NEW r \in Request, LockWriter(r) \/ UnlockWriter(r)
  PROVE  IInv'
<1>1. /\ op[r].kind # "read" /\ UNCHANGED <<lapsed, leases, binder, inflight, idle>>
      /\ \A x \in Request : x # NoOne
  BY AdmissionAssumption DEF LockWriter, UnlockWriter
<1>2. PICK where \in {"run", "drop_slot"} :
        /\ Goto(r, where)
        /\ \/ where = "run" /\ pc[r] = "conn" /\ writer = NoOne /\ writer' = r
           \/ where = "drop_slot" /\ pc[r] = "run" /\ writer' = NoOne
  BY DEF LockWriter, UnlockWriter
<1>3. /\ pc' \in [Request -> Place] /\ pc'[r] = where
      /\ \A x \in Request \ {r} : pc'[x] = pc[x]
      /\ GateHeld'
  BY <1>1, <1>2, StepInside DEF Inside, Place
<1>4. TypeOK'
  BY <1>1, <1>2, <1>3 DEF IInv, TypeOK
<1>5. SlotsCounted'
  BY <1>1, <1>2, <1>3, SlotsKept DEF IInv, SlotPlaces
<1>6. Readers' = Readers
  BY <1>1, <1>3 DEF Readers
<1>7. WriterHeld'
  BY <1>1, <1>2, <1>3 DEF IInv, WriterHeld
<1> QED BY <1>1, <1>3, <1>4, <1>5, <1>6, <1>7 DEF IInv, PoolCounted

LEMMA WaitReaderKeepsIInv ==
  ASSUME IInv, NEW r \in Request, WaitReader(r) \/ NotifyConn(r)
  PROVE  IInv'
<1>1. /\ lapsed' \subseteq Request
      /\ UNCHANGED <<leases, binder, inflight, idle, writer>>
  BY DEF IInv, TypeOK, WaitReader, NotifyConn
<1>2. CASE WaitReader(r)
  <2>1. PICK where \in {"drop_slot", "conn_asleep"} : pc' = [pc EXCEPT ![r] = where]
    BY <1>2 DEF WaitReader, Goto
  <2> QED BY <1>1, <1>2, <2>1, NothingTaken
          DEF IInv, TypeOK, WaitReader, Inside, Place, SlotPlaces
<1>3. CASE NotifyConn(r)
  <2>1. CASE pc' = [pc EXCEPT ![r] = "drop_slot"]
    BY <1>1, <1>3, <2>1, NothingTaken
    DEF IInv, TypeOK, NotifyConn, Inside, Place, SlotPlaces
  <2>2. ASSUME NEW w \in At("conn_asleep"),
               pc' = [pc EXCEPT ![r] = "drop_slot", ![w] = "conn"]
        PROVE  IInv'
    BY <1>1, <1>3, <2>2, NothingTaken
    DEF IInv, TypeOK, NotifyConn, At, Inside, Place, SlotPlaces
  <2> QED BY <1>3, <2>1, <2>2 DEF NotifyConn, Goto
<1> QED BY <1>2, <1>3

LEMMA AwakeKeepsIInv ==
  ASSUME IInv, NEW r \in Request, TimeOut(r) \/ Spurious(r)
  PROVE  IInv'
<1>1. /\ lapsed' \subseteq Request
      /\ UNCHANGED <<leases, binder, inflight, idle, writer>>
      /\ pc' = [pc EXCEPT ![r] = Awake(pc[r])]
      /\ pc[r] \in {"slot", "slot_asleep", "conn_asleep", "conn"}
  BY DEF IInv, TypeOK, TimeOut, Spurious, Waits, Goto
<1>2. /\ pc[r] \in {"slot", "slot_asleep"} => Awake(pc[r]) = "slot"
      /\ pc[r] \in {"conn", "conn_asleep"} => Awake(pc[r]) = "conn"
  BY DEF Awake
<1> QED BY <1>1, <1>2, NothingTaken DEF IInv, TypeOK, Inside, Place, SlotPlaces

-----------------------------------------------------------------------------

LEMMA NextKeepsIInv == IInv /\ [Next]_vars => IInv'
<1> SUFFICES ASSUME IInv, [Next]_vars PROVE IInv'
  OBVIOUS
<1>1. ASSUME NEW r \in Request, Step(r) PROVE IInv'
  BY <1>1, LeaseKeepsIInv, AcquireSlotKeepsIInv, WaitSlotKeepsIInv, ReleaseKeepsIInv,
     GetReaderKeepsIInv, WaitReaderKeepsIInv, LockWriterKeepsIInv
  DEF Step
<1>2. ASSUME NEW r \in Request, TimeOut(r) \/ Spurious(r) PROVE IInv'
  BY <1>2, AwakeKeepsIInv
<1>3. CASE UNCHANGED vars
  <2>1. UNCHANGED <<pc, lapsed, leases, binder, inflight, idle, writer>>
    BY <1>3 DEF vars
  <2>2. pc' \in [Request -> Place] /\ lapsed' \subseteq Request
    BY <2>1 DEF IInv, TypeOK
  <2> QED BY <2>1, <2>2, NothingTaken DEF Inside
<1> QED BY <1>1, <1>2, <1>3 DEF Next

\* The inductive invariant holds in every reachable state of the admission.
THEOREM AdmissionInvariant == Spec => []IInv
BY InitIInv, NextKeepsIInv, PTL DEF Spec

\* While a binding commits under the write lock of binding_gate, no other request is
\* past the gate: namespace_lease and the commit exclude each other.
THEOREM BindingExcludes == Spec => []BindingAlone
<1>1. IInv => BindingAlone
  BY AdmissionAssumption DEF IInv, TypeOK, GateHeld, BindingAlone, Inside
<1> QED BY <1>1, AdmissionInvariant, PTL

\* TenantLimiter's map and the pool's idle connections count the requests that hold a
\* slot or a connection, and no tenant holds every connection.
THEOREM PoolIsSound == Spec => []PoolSound
<1>1. IInv => PoolSound
  <2> SUFFICES ASSUME IInv PROVE PoolSound
    OBVIOUS
  <2>1. ASSUME NEW t \in Tenant, PoolSize > 1
        PROVE  Cardinality({r \in Readers : op[r].tenant = t}) < PoolSize
    <3>1. /\ SlotHolders(t) \in SUBSET Request
          /\ {r \in Readers : op[r].tenant = t} \in SUBSET SlotHolders(t)
      BY DEF Readers, SlotHolders, SlotPlaces
    <3>2. /\ Cardinality({r \in Readers : op[r].tenant = t}) <= Cardinality(SlotHolders(t))
          /\ Cardinality(SlotHolders(t)) \in Nat
          /\ Cardinality({r \in Readers : op[r].tenant = t}) \in Nat
      BY <3>1, RequestsCount
    <3>3. Cardinality(SlotHolders(t)) <= Cap
      BY DEF IInv, SlotsCounted
    <3> QED BY <2>1, <3>2, <3>3, CapBounds, AdmissionAssumption
  <2> QED BY <2>1 DEF IInv, SlotsCounted, PoolCounted, PoolSound
<1> QED BY <1>1, AdmissionInvariant, PTL

\* At most one write or binding is in the database at a time, and it is the one that
\* holds the writer mutex of store.rs.
OneWriter ==
  \A r, s \in Request :
    /\ pc[r] = "run" /\ op[r].kind # "read"
    /\ pc[s] = "run" /\ op[s].kind # "read"
    => r = s /\ writer = r

\* store.rs: writes and bindings run one after the other, whatever their tenants.
THEOREM WritesAreSerial == Spec => []OneWriter
<1>1. IInv => OneWriter
  BY DEF IInv, WriterHeld, OneWriter
<1> QED BY <1>1, AdmissionInvariant, PTL
=============================================================================
