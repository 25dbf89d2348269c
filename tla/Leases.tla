------------------------------- MODULE Leases -------------------------------
(***************************************************************************)
(* The task diagnosis/lease-expiry: LeaseStore of src/leases.py as the     *)
(* reference solutions of its two steps give it, for one name, and owners  *)
(* that look at a clock, call the store some time later and rely on a      *)
(* lease until the expiry they were granted.                               *)
(***************************************************************************)
EXTENDS Integers

CONSTANTS
    Owners,
    Ttls,           \* the durations they ask for
    MaxClock        \* bound: the last instant

ASSUME LeasesAssumption == Ttls \subseteq Nat \ {0} /\ MaxClock \in Nat

\* The expiry of no lease at all; the owner does not matter then.
NoLease == [owner |-> "nobody", expires_at |-> 0]

Lease(owner, expires_at) == [owner |-> owner, expires_at |-> expires_at]

\* What acquire and renew answer, and what they leave in the store.
Answer(granted, lease) == [granted |-> granted, lease |-> lease]

\* Mutant: the incident of the task turned around, an active lease may be taken at its last
\* instant.
AcquireEarly(lease, owner, now, ttl) ==
    IF lease # NoLease /\ lease.expires_at > now + 1
    THEN Answer(FALSE, lease)
    ELSE Answer(TRUE, Lease(owner, now + ttl))

Acquire(lease, owner, now, ttl) ==
    IF lease # NoLease /\ lease.expires_at > now
    THEN Answer(FALSE, lease)
    ELSE Answer(TRUE, Lease(owner, now + ttl))

\* The first step leaves renew as it was.
ImplementRenew(lease, owner, now, ttl) ==
    IF lease = NoLease \/ lease.owner # owner
    THEN Answer(FALSE, lease)
    ELSE Answer(TRUE, Lease(owner, now + ttl))

ReviewRenew(lease, owner, now, ttl) ==
    IF lease = NoLease \/ lease.owner # owner \/ lease.expires_at <= now
    THEN Answer(FALSE, lease)
    ELSE Answer(TRUE, Lease(owner, now + ttl))

-----------------------------------------------------------------------------
VARIABLES
    reviewed,       \* whether the store is the second step's
    lease,          \* the stored lease, or NoLease
    clock,
    seen,           \* the instant each owner looked at last
    until           \* the expiry each owner was granted last

leaseVars == <<reviewed, lease, clock, seen, until>>

LeasesInit ==
    /\ reviewed \in BOOLEAN
    /\ lease = NoLease
    /\ clock = 0
    /\ seen = [o \in Owners |-> 0]
    /\ until = [o \in Owners |-> 0]

Tick ==
    /\ clock < MaxClock
    /\ clock' = clock + 1
    /\ UNCHANGED <<reviewed, lease, seen, until>>

Look(o) ==
    /\ seen' = [seen EXCEPT ![o] = clock]
    /\ UNCHANGED <<reviewed, lease, clock, until>>

Call(o, ttl, answer) ==
    /\ lease' = answer.lease
    /\ until' = IF answer.granted THEN [until EXCEPT ![o] = seen[o] + ttl] ELSE until
    /\ UNCHANGED <<reviewed, clock, seen>>

Renew(o, ttl) ==
    IF reviewed THEN ReviewRenew(lease, o, seen[o], ttl) ELSE ImplementRenew(lease, o, seen[o], ttl)

LeasesNext ==
    \/ Tick
    \/ \E o \in Owners : Look(o)
    \/ \E o \in Owners, ttl \in Ttls : Call(o, ttl, Acquire(lease, o, seen[o], ttl))
    \/ \E o \in Owners, ttl \in Ttls : Call(o, ttl, Renew(o, ttl))

LeasesSpec == LeasesInit /\ [][LeasesNext]_leaseVars

-----------------------------------------------------------------------------
(* Properties. *)

\* However long an owner waits between its look at the clock and its call, two owners never
\* rely on the lease at one instant; and an owner whose lease is taken has seen it expire.
OneHolder ==
    \A o, p \in Owners : o # p => clock >= until[o] \/ clock >= until[p]
=============================================================================
