------------------------------ MODULE Collector ------------------------------
(***************************************************************************)
(* The metrics collector (collector.py) and the tables it owns             *)
(* (storage/dashboard.py: devices, device_addresses, rollups,              *)
(* collector_state): a thread that polls the provider's query log from a   *)
(* watermark, resolves each query's address to a device, aggregates in     *)
(* RAM, and flushes everything with the watermark in one transaction.      *)
(*                                                                         *)
(* A rollup adds up the queries of a bucket for a device.  It is kept here *)
(* as the queries themselves: for each query, the sequence of the devices  *)
(* it was added for.  A query counted twice is a sequence of two, a query  *)
(* lost an empty one.  Outcomes, latencies, hostnames and last_seen are    *)
(* left out.                                                               *)
(***************************************************************************)
EXTENDS Integers, Sequences

CONSTANTS
    Addresses,   \* client addresses
    Macs,        \* hardware addresses
    NoMac,       \* a client or device without one
    Gone,        \* the owner of an address the provider does not list
    None,        \* no watermark
    Resolution,  \* the resolutions of the rollups
    Length,      \* the length of a bucket, for each resolution
    Keep,        \* RetentionWindows
    MaxTime,     \* bound on the clock
    MaxMoves,    \* bound on the addresses that change hands
    MaxFailures  \* bound on crashes, provider errors and failed flushes

ASSUME CollectorAssumption ==
    /\ NoMac \notin Macs /\ Gone \notin Macs /\ NoMac # Gone
    /\ None \notin Int
    /\ Length \in [Resolution -> Nat \ {0}]
    /\ Keep \in [Resolution -> Nat]
    /\ MaxTime \in Nat /\ MaxMoves \in Nat /\ MaxFailures \in Nat

VARIABLES
    \* the provider (external): the clock, the query log, the client table
    now, log, owner,
    \* home-dns.db
    devices,    \* the MAC of device 1, 2, ...
    addresses,  \* the device of each address, 0 if none
    rollups,    \* for each resolution, what each query was added for
    saved,      \* collector_state.watermark
    \* the process
    pc, stopping,
    known, bound,          \* DeviceRegistry._devices, _by_address
    dirtyDevices, dirtyAddresses,
    pending,               \* what each unflushed query was added for
    watermark, until,
    clients, entries,      \* what is left of the page being aggregated
    \* bounds and history
    moves, failures,
    first,                 \* where the current watermark started
    flushedAt              \* the clock of the last flush

environment == <<now, log, owner, moves>>
database == <<devices, addresses, rollups, saved, flushedAt>>
registry == <<known, bound, dirtyDevices, dirtyAddresses>>
page == <<until, clients, entries>>
process == <<pc, stopping, registry, pending, watermark, page>>
vars == <<environment, database, process, failures, first>>

Times == 0..MaxTime
Queries == [time: Times, address: Addresses]
Device == Nat \ {0}
Client == [mac: Macs \cup {NoMac}, addresses: SUBSET Addresses]
Counts == [Queries -> Seq(Device)]
Nothing == [q \in Queries |-> <<>>]
Unbound == [a \in Addresses |-> 0]

TypeOK ==
    /\ now \in Times /\ log \subseteq Queries
    /\ owner \in [Addresses -> Macs \cup {NoMac, Gone}]
    /\ devices \in Seq(Macs \cup {NoMac})
    /\ addresses \in [Addresses -> Nat]
    /\ rollups \in [Resolution -> Counts]
    /\ saved \in Times \cup {None} /\ flushedAt \in Times
    /\ pc \in {"down", "wait", "clients", "entries", "polled"}
    /\ stopping \in BOOLEAN
    /\ known \in Seq(Macs \cup {NoMac})
    /\ bound \in [Addresses -> Nat]
    /\ dirtyDevices \subseteq Device /\ dirtyAddresses \subseteq Addresses
    /\ pending \in Counts
    /\ watermark \in Times \cup {None} /\ until \in Times
    /\ clients \subseteq Client /\ entries \subseteq Queries
    /\ moves \in 0..MaxMoves /\ failures \in 0..MaxFailures
    /\ first \in Times \cup {None}

Init ==
    /\ now = 0 /\ log = {} /\ owner \in [Addresses -> Macs \cup {NoMac, Gone}]
    /\ devices = <<>> /\ addresses = Unbound
    /\ rollups = [r \in Resolution |-> Nothing] /\ saved = None /\ flushedAt = 0
    /\ pc = "down" /\ stopping = FALSE
    /\ known = <<>> /\ bound = Unbound /\ dirtyDevices = {} /\ dirtyAddresses = {}
    /\ pending = Nothing /\ watermark = None
    /\ until = 0 /\ clients = {} /\ entries = {}
    /\ moves = 0 /\ failures = 0 /\ first = None

-----------------------------------------------------------------------------
(* The provider.                                                           *)

\* A client asks; the log gets the query with the present time.
Ask(a) ==
    /\ log' = log \cup {[time |-> now, address |-> a]}
    /\ log' # log
    /\ UNCHANGED <<now, owner, moves, database, process, failures, first>>

Tick ==
    /\ now < MaxTime
    /\ now' = now + 1
    /\ UNCHANGED <<log, owner, moves, database, process, failures, first>>

\* An address passes to another client, or leaves the client table.
Move(a) ==
    /\ moves < MaxMoves
    /\ moves' = moves + 1
    /\ \E o \in (Macs \cup {NoMac, Gone}) \ {owner[a]} : owner' = [owner EXCEPT ![a] = o]
    /\ UNCHANGED <<now, log, database, process, failures, first>>

\* list_clients: an address has one owner; a client without a MAC has one address.
ClientTable ==
    {[mac |-> m, addresses |-> {a \in Addresses : owner[a] = m}] :
        m \in {owner[a] : a \in Addresses} \cap Macs}
    \cup {[mac |-> NoMac, addresses |-> {a}] : a \in {a \in Addresses : owner[a] = NoMac}}

\* query_log over the half-open window [since, end).
Window(since, end) == {q \in log : since <= q.time /\ q.time < end}

-----------------------------------------------------------------------------
(* The process.                                                            *)

\* Mutant: the numbers of the devices start again.
StartEmpty ==
    /\ pc = "down"
    /\ pc' = "wait"
    /\ stopping' = FALSE
    /\ known' = <<>> /\ bound' = Unbound
    /\ dirtyDevices' = {} /\ dirtyAddresses' = {}
    /\ pending' = Nothing
    /\ watermark' = saved
    /\ UNCHANGED <<environment, database, page, failures, first>>

\* Collector.__init__ and DeviceRegistry.__init__: everything from the store.
Start ==
    /\ pc = "down"
    /\ pc' = "wait"
    /\ stopping' = FALSE
    /\ known' = devices /\ bound' = addresses
    /\ dirtyDevices' = {} /\ dirtyAddresses' = {}
    /\ pending' = Nothing
    /\ watermark' = saved
    /\ UNCHANGED <<environment, database, page, failures, first>>

\* Mutant: the second before the first start is read too.
PollFirstBackfills ==
    /\ pc = "wait" /\ watermark = None
    /\ watermark' = now - 1 /\ first' = now - 1
    /\ pc' = "polled"
    /\ UNCHANGED <<environment, database, stopping, registry, pending, page, failures>>

\* poll, first start ever: no backfill.
PollFirst ==
    /\ pc = "wait" /\ watermark = None
    /\ watermark' = now /\ first' = now
    /\ pc' = "polled"
    /\ UNCHANGED <<environment, database, stopping, registry, pending, page, failures>>

\* poll, before the next whole second.
PollEarly ==
    /\ pc = "wait" /\ watermark # None /\ now <= watermark
    /\ pc' = "polled"
    /\ UNCHANGED <<environment, database, stopping, registry, pending, watermark, page,
                   failures, first>>

\* poll, the provider fails on any of its calls: nothing is aggregated.
PollError ==
    /\ pc = "wait" /\ watermark # None /\ watermark < now
    /\ failures < MaxFailures /\ failures' = failures + 1
    /\ pc' = "polled"
    /\ UNCHANGED <<environment, database, stopping, registry, pending, watermark, page, first>>

\* poll, the client table and the whole window are read.
PollRead ==
    /\ pc = "wait" /\ watermark # None /\ watermark < now
    /\ until' = now
    /\ clients' = ClientTable
    /\ entries' = Window(watermark, now)
    /\ pc' = "clients"
    /\ UNCHANGED <<environment, database, stopping, registry, pending, watermark, failures,
                   first>>

Poll == PollFirst \/ PollEarly \/ PollError \/ PollRead

\* Mutant: an address decides before the MAC does.
DevicesByAddressFirst(c) ==
    LET byMac == {d \in 1..Len(known) : c.mac # NoMac /\ known[d] = c.mac}
        byAddress == {d \in {bound[a] : a \in c.addresses} \ {0} : known[d] \in {NoMac, c.mac}}
    IN IF byAddress # {} THEN byAddress
       ELSE IF byMac # {} THEN byMac ELSE {Len(known) + 1}

\* The device of an observed client: by its MAC, by an address of a device
\* without a different MAC (the first in the client's own order), or a new one.
DevicesOf(c) ==
    LET byMac == {d \in 1..Len(known) : c.mac # NoMac /\ known[d] = c.mac}
        byAddress == {d \in {bound[a] : a \in c.addresses} \ {0} : known[d] \in {NoMac, c.mac}}
    IN IF byMac # {} THEN byMac
       ELSE IF byAddress # {} THEN byAddress ELSE {Len(known) + 1}

Bind(as, d) ==
    /\ bound' = [a \in Addresses |-> IF a \in as THEN d ELSE bound[a]]
    /\ dirtyAddresses' = dirtyAddresses \cup as

\* A device known by an address only gets the client's MAC.
Claims(c, d) == d <= Len(known) /\ c.mac # NoMac /\ known[d] = NoMac

Identify(c, d) ==
    known' = IF d > Len(known) THEN Append(known, c.mac)
             ELSE IF Claims(c, d) THEN [known EXCEPT ![d] = c.mac] ELSE known

\* Mutant: a claimed device is not written again.
ObserveForgetsClaim(c, d) ==
    /\ Identify(c, d)
    /\ dirtyDevices' = IF d > Len(known) THEN dirtyDevices \cup {d} ELSE dirtyDevices
    /\ Bind(c.addresses, d)

Observe(c, d) ==
    /\ Identify(c, d)
    /\ dirtyDevices' = IF d > Len(known) \/ Claims(c, d) THEN dirtyDevices \cup {d}
                       ELSE dirtyDevices
    /\ Bind(c.addresses, d)

\* observe_client, for one of the clients read.
ObserveClient(c) ==
    /\ pc = "clients"
    /\ \E d \in DevicesOf(c) : Observe(c, d)
    /\ clients' = clients \ {c}
    /\ UNCHANGED <<environment, database, pc, stopping, pending, watermark, until, entries,
                   failures, first>>

ClientsDone ==
    /\ pc = "clients" /\ clients = {}
    /\ pc' = "entries"
    /\ UNCHANGED <<environment, database, stopping, registry, pending, watermark, page,
                   failures, first>>

\* resolve_address and Rollup.add, for one of the entries read.
AddEntry(q) ==
    /\ pc = "entries"
    /\ LET d == IF bound[q.address] = 0 THEN Len(known) + 1 ELSE bound[q.address]
       IN /\ known' = IF d > Len(known) THEN Append(known, NoMac) ELSE known
          /\ dirtyDevices' = IF d > Len(known) THEN dirtyDevices \cup {d} ELSE dirtyDevices
          /\ Bind({q.address}, d)
          /\ pending' = [pending EXCEPT ![q] = Append(@, d)]
    /\ entries' = entries \ {q}
    /\ UNCHANGED <<environment, database, pc, stopping, watermark, until, clients, failures,
                   first>>

\* Mutant: the window just aggregated is dropped and read again.
EntriesDoneRetries ==
    /\ pc = "entries" /\ entries = {}
    /\ pending' = Nothing
    /\ pc' = "polled"
    /\ UNCHANGED <<environment, database, stopping, registry, watermark, page, failures, first>>

EntriesDone ==
    /\ pc = "entries" /\ entries = {}
    /\ watermark' = until
    /\ pc' = "polled"
    /\ UNCHANGED <<environment, database, stopping, registry, pending, page, failures, first>>

-----------------------------------------------------------------------------
(* flush.                                                                  *)

\* bucket_start (buckets of equal length).
BucketStart(r, t) == t - (t % Length[r])
Expired(r, q, at) == BucketStart(r, q.time) < at - Keep[r]

\* INSERT ... ON CONFLICT DO UPDATE of the dirty devices and addresses.
Upserted ==
    [d \in 1..Len(known) |->
        IF d > Len(devices) \/ (d \in dirtyDevices /\ known[d] # NoMac) THEN known[d]
        ELSE devices[d]]
Rebound == [a \in Addresses |-> IF a \in dirtyAddresses THEN bound[a] ELSE addresses[a]]

\* Mutant: the delta replaces the row.
MergedReplaces(r) == [q \in Queries |-> pending[q]]

\* _merge_rollup at every resolution, then the deletion of expired buckets.
Merged(r) == [q \in Queries |-> rollups[r][q] \o pending[q]]
Retained(r) == [q \in Queries |-> IF Expired(r, q, now) THEN <<>> ELSE Merged(r)[q]]

\* The constraints of the schema: devices.mac UNIQUE, and the references to
\* devices of an address and of a rollup.
Accepted ==
    LET stored == {d \in 1..Len(known) : d <= Len(devices) \/ d \in dirtyDevices}
    IN /\ \A d, e \in stored : Upserted[d] = Upserted[e] /\ Upserted[d] # NoMac => d = e
       /\ \A a \in dirtyAddresses : bound[a] \in stored
       /\ \A q \in Queries : \A i \in 1..Len(pending[q]) : pending[q][i] \in stored

\* The transaction commits; addresses last seen too long ago go with it
\* (their last_seen is left out, so any may be).
FlushCommits ==
    /\ Accepted
    /\ devices' = Upserted
    /\ \E old \in SUBSET Addresses :
          addresses' = [a \in Addresses |-> IF a \in old THEN 0 ELSE Rebound[a]]
    /\ rollups' = [r \in Resolution |-> Retained(r)]
    /\ saved' = watermark
    /\ flushedAt' = now
    /\ dirtyDevices' = {} /\ dirtyAddresses' = {}
    /\ pending' = Nothing
    /\ UNCHANGED failures

\* Mutant: what was pending is forgotten before the commit.
FlushFailsForgets ==
    /\ \/ ~Accepted /\ UNCHANGED failures
       \/ failures < MaxFailures /\ failures' = failures + 1
    /\ pending' = Nothing
    /\ UNCHANGED <<database, dirtyDevices, dirtyAddresses>>

\* It is rolled back; what is in RAM is kept for the retry.
FlushFails ==
    /\ \/ ~Accepted /\ UNCHANGED failures
       \/ failures < MaxFailures /\ failures' = failures + 1
    /\ UNCHANGED <<database, dirtyDevices, dirtyAddresses, pending>>

\* After a poll, when flush_interval has passed or the collector is stopping.
Flush ==
    /\ pc = "polled"
    /\ FlushCommits \/ FlushFails
    /\ pc' = IF stopping THEN "down" ELSE "wait"
    /\ UNCHANGED <<environment, stopping, known, bound, watermark, page, first>>

\* flush_interval has not passed.
NotDue ==
    /\ pc = "polled" /\ ~stopping
    /\ pc' = "wait"
    /\ UNCHANGED <<environment, database, stopping, registry, pending, watermark, page,
                   failures, first>>

\* The stop event is seen by the loop's wait: one more poll and flush.
Stop ==
    /\ pc = "wait" /\ ~stopping
    /\ stopping' = TRUE
    /\ UNCHANGED <<environment, database, pc, registry, pending, watermark, page, failures,
                   first>>

\* The process dies at any point; an open transaction is rolled back.
Crash ==
    /\ pc # "down"
    /\ failures < MaxFailures /\ failures' = failures + 1
    /\ pc' = "down"
    /\ UNCHANGED <<environment, database, stopping, registry, pending, watermark, page, first>>

Next ==
    \/ \E a \in Addresses : Ask(a) \/ Move(a)
    \/ Tick \/ Start \/ Poll \/ ClientsDone \/ EntriesDone
    \/ \E c \in clients : ObserveClient(c)
    \/ \E q \in entries : AddEntry(q)
    \/ Flush \/ NotDue \/ Stop \/ Crash

Spec == Init /\ [][Next]_vars

\* The run loop goes on, the service is restarted after it dies (Restart=on-failure
\* of its unit; a stopped one is not), time goes on, and flush_interval passes again
\* and again.
Fairness ==
    /\ WF_vars(Tick) /\ WF_vars(~stopping /\ Start) /\ WF_vars(Poll)
    /\ WF_vars(\E c \in clients : ObserveClient(c)) /\ WF_vars(ClientsDone)
    /\ WF_vars(\E q \in entries : AddEntry(q)) /\ WF_vars(EntriesDone)
    /\ WF_vars(NotDue) /\ SF_vars(Flush)

LiveSpec == Spec /\ Fairness

-----------------------------------------------------------------------------
(***************************************************************************)
(* Properties.                                                             *)
(***************************************************************************)

\* The queries a watermark says are accounted for.
Covered(q, mark) == mark # None /\ first <= q.time /\ q.time < mark

\* At every resolution, a query before the stored watermark was added to one
\* rollup once, or its bucket has expired; one after it was not added at all
\* (flush: "everything in one transaction, watermark included").
StoredExactlyOnce ==
    \A r \in Resolution, q \in log :
        Len(rollups[r][q]) =
            IF Covered(q, saved) /\ ~Expired(r, q, flushedAt) THEN 1 ELSE 0

\* What RAM holds between two polls is what lies between the two watermarks,
\* once each, through failed polls and failed flushes (poll: "the same window
\* is retried on the next poll without double counting").
PendingExactlyOnce ==
    pc \in {"wait", "polled"} =>
        \A q \in log :
            Len(pending[q]) =
                IF Covered(q, watermark) /\ ~Covered(q, saved) THEN 1 ELSE 0

\* Whatever is pending, the schema accepts it: a flush can fail for a while,
\* never for ever (devices.mac UNIQUE, the references to devices).
FlushIsAcceptable == pc = "polled" => Accepted

\* With nothing to flush, a restart finds the registry it left, but for
\* addresses past their retention (DeviceRegistry.__init__).
RestartFindsRegistry ==
    pc = "wait" /\ dirtyDevices = {} /\ dirtyAddresses = {} =>
        /\ known = devices
        /\ \A a \in Addresses : addresses[a] \in {0, bound[a]}

\* A stored device keeps its number and its MAC over crashes, restarts and
\* numbers handed out and lost (DeviceRegistry._new).
DevicesAreStable ==
    [][/\ Len(devices) <= Len(devices')
       /\ \A d \in 1..Len(devices) :
             devices[d] # NoMac => devices'[d] = devices[d]]_vars

\* Every query is stored in the end, or came before the first watermark, or the
\* collector has been stopped for good (queries at the clock's bound never leave
\* the present second).
EveryQueryIsStored ==
    \A q \in [time: 0..(MaxTime - 1), address: Addresses] :
        q \in log ~> \/ stopping
                     \/ saved # None /\ (q.time < first \/ q.time < saved)
=============================================================================
