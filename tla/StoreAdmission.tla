--------------------------- MODULE StoreAdmission ---------------------------
(***************************************************************************)
(* How a request of the sync server reaches its database: the namespace    *)
(* lease (state.rs), the per-tenant limiter (fairness.rs), the reader pool *)
(* (pool.rs) and the writer mutex (store.rs), taken in that order by       *)
(* threads of the blocking pool and given back in the reverse one.         *)
(*                                                                         *)
(* The two condition variables are modelled with their sleepers: a release *)
(* and the notification that follows it are two steps, because the code    *)
(* unlocks before it notifies.  A step under a mutex is atomic.            *)
(***************************************************************************)
EXTENDS Integers, FiniteSets

CONSTANTS
  Request,    \* the requests that arrive: one task of the blocking pool each
  Tenant,     \* auth tenants: the limiter's keys
  op,         \* [Request -> [kind, tenant]]: what each of them is
  PoolSize,   \* reader connections
  NoOne

\* A read or a write of a route, or the commit of a binding.
Kind == {"read", "write", "bind"}

ASSUME AdmissionAssumption ==
  /\ IsFiniteSet(Request)
  /\ NoOne \notin Request
  /\ op \in [Request -> [kind : Kind, tenant : Tenant]]
  /\ PoolSize \in Nat \ {0}

VARIABLES
  pc,        \* [Request -> where its thread is]
  lapsed,    \* the requests whose present wait has passed its deadline
  leases,    \* the requests holding binding_gate for reading
  binder,    \* the request holding binding_gate for writing, or NoOne
  inflight,  \* the limiter's map: tenant -> slots taken, absent at zero
  idle,      \* how many pooled connections are idle
  writer     \* the request holding the writer mutex, or NoOne

vars == <<pc, lapsed, leases, binder, inflight, idle, writer>>

\* FairnessConfig::for_pool
Cap == IF PoolSize > 1 THEN PoolSize - 1 ELSE 1

At(where) == {r \in Request : pc[r] = where}
Goto(r, where) == pc' = [pc EXCEPT ![r] = where]
Taken(t) == IF t \in DOMAIN inflight THEN inflight[t] ELSE 0

\* The handlers have called spawn_blocking; a thread that runs late arrives late.
Init ==
  /\ pc = [r \in Request |-> "gate"]
  /\ lapsed = {}
  /\ leases = {} /\ binder = NoOne
  /\ inflight = [t \in {} |-> 0]
  /\ idle = PoolSize
  /\ writer = NoOne

-----------------------------------------------------------------------------
(* The namespace lease. *)

\* The lease is taken and the principal checked again under it: still current, or
\* refused with 401.
Lease(r) ==
  /\ pc[r] = "gate" /\ op[r].kind \in {"read", "write"}
  /\ binder = NoOne
  /\ leases' = leases \cup {r}
  /\ \/ Goto(r, "slot")
     \/ Goto(r, "drop_lease")
  /\ UNCHANGED <<lapsed, binder, inflight, idle, writer>>

\* Mutant: the binding shares the lease instead of waiting for the others.
BindLeaseShared(r) ==
  /\ pc[r] = "gate" /\ op[r].kind = "bind"
  /\ binder = NoOne
  /\ binder' = r
  /\ Goto(r, "slot")
  /\ UNCHANGED <<lapsed, leases, inflight, idle, writer>>

BindLease(r) ==
  /\ pc[r] = "gate" /\ op[r].kind = "bind"
  /\ binder = NoOne /\ leases = {}
  /\ binder' = r
  /\ Goto(r, "slot")
  /\ UNCHANGED <<lapsed, leases, inflight, idle, writer>>

DropLease(r) ==
  /\ pc[r] = "drop_lease"
  /\ leases' = leases \ {r}
  /\ binder' = IF binder = r THEN NoOne ELSE binder
  /\ Goto(r, "done")
  /\ UNCHANGED <<lapsed, inflight, idle, writer>>

-----------------------------------------------------------------------------
(* TenantLimiter. *)

AcquireSlot(r) ==
  /\ pc[r] = "slot" /\ Taken(op[r].tenant) < Cap
  /\ inflight' = [t \in DOMAIN inflight \cup {op[r].tenant} |->
                    IF t = op[r].tenant THEN Taken(t) + 1 ELSE inflight[t]]
  /\ lapsed' = lapsed \ {r}
  /\ Goto(r, "conn")
  /\ UNCHANGED <<leases, binder, idle, writer>>

\* Mutant: Busy returns without dropping the lease.
WaitSlotKeepsLease(r) ==
  /\ pc[r] = "slot" /\ Taken(op[r].tenant) >= Cap
  /\ Goto(r, IF r \in lapsed THEN "done" ELSE "slot_asleep")
  /\ lapsed' = lapsed \ {r}
  /\ UNCHANGED <<leases, binder, inflight, idle, writer>>

\* At the cap: sleep until notified, or give up with Busy once the wait is over.
WaitSlot(r) ==
  /\ pc[r] = "slot" /\ Taken(op[r].tenant) >= Cap
  /\ Goto(r, IF r \in lapsed THEN "drop_lease" ELSE "slot_asleep")
  /\ lapsed' = lapsed \ {r}
  /\ UNCHANGED <<leases, binder, inflight, idle, writer>>

\* Mutant: the entry of a tenant with nothing in flight stays in the map.
ReleaseUnpruned(r) ==
  /\ pc[r] = "drop_slot"
  /\ inflight' = [inflight EXCEPT ![op[r].tenant] = @ - 1]
  /\ Goto(r, "notify_slot")
  /\ UNCHANGED <<lapsed, leases, binder, idle, writer>>

Release(r) ==
  /\ pc[r] = "drop_slot"
  /\ LET t == op[r].tenant
     IN  inflight' = IF inflight[t] = 1
                     THEN [u \in DOMAIN inflight \ {t} |-> inflight[u]]
                     ELSE [inflight EXCEPT ![t] = @ - 1]
  /\ Goto(r, "notify_slot")
  /\ UNCHANGED <<lapsed, leases, binder, idle, writer>>

\* notify_all
NotifySlot(r) ==
  /\ pc[r] = "notify_slot"
  /\ pc' = [x \in Request |-> IF x = r THEN "drop_lease"
                              ELSE IF pc[x] = "slot_asleep" THEN "slot" ELSE pc[x]]
  /\ UNCHANGED <<lapsed, leases, binder, inflight, idle, writer>>

-----------------------------------------------------------------------------
(* ConnectionPool and the writer mutex. *)

GetReader(r) ==
  /\ pc[r] = "conn" /\ op[r].kind = "read" /\ idle > 0
  /\ idle' = idle - 1
  /\ lapsed' = lapsed \ {r}
  /\ Goto(r, "run")
  /\ UNCHANGED <<leases, binder, inflight, writer>>

\* Empty: sleep, or PoolError::Timeout once the checkout timeout has passed.
WaitReader(r) ==
  /\ pc[r] = "conn" /\ op[r].kind = "read" /\ idle = 0
  /\ Goto(r, IF r \in lapsed THEN "drop_slot" ELSE "conn_asleep")
  /\ lapsed' = lapsed \ {r}
  /\ UNCHANGED <<leases, binder, inflight, idle, writer>>

LockWriter(r) ==
  /\ pc[r] = "conn" /\ op[r].kind # "read" /\ writer = NoOne
  /\ writer' = r
  /\ Goto(r, "run")
  /\ UNCHANGED <<lapsed, leases, binder, inflight, idle>>

\* The operation returns, with a result or an error, and its guard is dropped.
PutBack(r) ==
  /\ pc[r] = "run" /\ op[r].kind = "read"
  /\ idle' = idle + 1
  /\ Goto(r, "notify_conn")
  /\ UNCHANGED <<lapsed, leases, binder, inflight, writer>>

\* notify_one
NotifyConn(r) ==
  /\ pc[r] = "notify_conn"
  /\ \/ /\ At("conn_asleep") = {}
        /\ Goto(r, "drop_slot")
     \/ \E w \in At("conn_asleep") :
          pc' = [pc EXCEPT ![r] = "drop_slot", ![w] = "conn"]
  /\ UNCHANGED <<lapsed, leases, binder, inflight, idle, writer>>

UnlockWriter(r) ==
  /\ pc[r] = "run" /\ op[r].kind # "read"
  /\ writer' = NoOne
  /\ Goto(r, "drop_slot")
  /\ UNCHANGED <<lapsed, leases, binder, inflight, idle>>

-----------------------------------------------------------------------------
(* Time, and wakeups nobody sent. *)

Waits(r) ==
  \/ pc[r] \in {"slot", "slot_asleep", "conn_asleep"}
  \/ pc[r] = "conn" /\ op[r].kind = "read"

Awake(where) ==
  CASE where = "slot_asleep" -> "slot"
    [] where = "conn_asleep" -> "conn"
    [] where \notin {"slot_asleep", "conn_asleep"} -> where

\* wait_timeout returns because its deadline has passed.
TimeOut(r) ==
  /\ Waits(r) /\ r \notin lapsed
  /\ lapsed' = lapsed \cup {r}
  /\ Goto(r, Awake(pc[r]))
  /\ UNCHANGED <<leases, binder, inflight, idle, writer>>

Spurious(r) ==
  /\ pc[r] \in {"slot_asleep", "conn_asleep"}
  /\ Goto(r, Awake(pc[r]))
  /\ UNCHANGED <<lapsed, leases, binder, inflight, idle, writer>>

-----------------------------------------------------------------------------

Step(r) ==
  \/ Lease(r) \/ BindLease(r) \/ DropLease(r)
  \/ AcquireSlot(r) \/ WaitSlot(r) \/ Release(r) \/ NotifySlot(r)
  \/ GetReader(r) \/ WaitReader(r) \/ LockWriter(r)
  \/ PutBack(r) \/ NotifyConn(r) \/ UnlockWriter(r)

Next == \E r \in Request : Step(r) \/ TimeOut(r) \/ Spurious(r)

Spec == Init /\ [][Next]_vars

\* The scheduler runs every thread that can run, and time passes.  Spurious wakeups
\* are not fair.
FairSpec == Spec /\ \A r \in Request : WF_vars(Step(r)) /\ WF_vars(TimeOut(r))

-----------------------------------------------------------------------------
(* Properties. *)

SlotPlaces == {"conn", "conn_asleep", "run", "notify_conn", "drop_slot"}
SlotHolders(t) ==
  {r \in Request : pc[r] \in SlotPlaces /\ op[r].tenant = t}
Readers == {r \in Request : pc[r] = "run" /\ op[r].kind = "read"}

\* The limiter counts exactly the slots its tenants hold, whichever way a request ended, and
\* forgets a tenant that holds none; a connection is idle or serves exactly one running read;
\* and with more than one connection no tenant holds them all (fairness.rs: "no single tenant
\* can occupy the last reader connection").
PoolSound ==
  /\ \A t \in Tenant :
       /\ Taken(t) = Cardinality(SlotHolders(t))
       /\ t \in DOMAIN inflight <=> SlotHolders(t) # {}
       /\ PoolSize > 1 => Cardinality({r \in Readers : op[r].tenant = t}) < PoolSize
  /\ idle + Cardinality(Readers) = PoolSize

\* While a binding commits no request holds a namespace lease, so nothing admitted
\* before it can still write after it.
BindingAlone ==
  binder # NoOne =>
    \A r \in Request \ {binder} : pc[r] \in {"gate", "done"}

\* Every request ends, with its result or with an error: nobody waits for ever, on
\* the lease, a slot, a connection or the writer.
RequestsEnd == <>(At("done") = Request)
=============================================================================
