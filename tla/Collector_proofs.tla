--------------------------- MODULE Collector_proofs ---------------------------
(***************************************************************************)
(* Proofs of the safety properties of Collector for every set of           *)
(* addresses and MACs, every bucket length and retention, and every bound. *)
(*                                                                         *)
(* The invariant has two halves.  The counting half says what each query   *)
(* has been added to in terms of the three marks first <= saved <=         *)
(* watermark and, in the middle of a poll, of the entries still to add.    *)
(* The identity half says that what the registry knows beyond the database *)
(* is marked dirty, and that MACs are unique.                              *)
(***************************************************************************)
EXTENDS Collector, TLAPS

alive == pc # "down"

\* The marks are ordered, and none is ahead of the clock.
Marks ==
    /\ saved # None => first # None /\ first <= saved /\ saved <= now
    /\ flushedAt <= now
    /\ alive => /\ saved # None => watermark # None /\ saved <= watermark
                /\ watermark # None => first # None /\ first <= watermark /\ watermark <= now
    /\ pc \in {"clients", "entries"} => watermark # None /\ watermark < until /\ until <= now
    /\ pc = "polled" => watermark # None

LogIsPast == \A q \in log : q.time <= now

\* The entries still to add are those of the window when the clients come first.
Reading ==
    /\ pc = "clients" => entries = Window(watermark, until)
    /\ pc = "entries" => entries \subseteq Window(watermark, until)

\* Added in this poll, before the watermark has moved.
InPoll(q) == pc = "entries" /\ q \in Window(watermark, until) /\ q \notin entries

StoredOnce ==
    \A r \in Resolution, q \in Queries :
        Len(rollups[r][q]) =
            IF q \in log /\ Covered(q, saved) /\ ~Expired(r, q, flushedAt) THEN 1 ELSE 0

PendingOnce ==
    alive =>
        \A q \in Queries :
            Len(pending[q]) =
                IF \/ q \in log /\ Covered(q, watermark) /\ ~Covered(q, saved)
                   \/ InPoll(q)
                THEN 1 ELSE 0

Counting == Marks /\ LogIsPast /\ Reading /\ StoredOnce /\ PendingOnce

-----------------------------------------------------------------------------
Unique(macs) ==
    \A d, e \in 1..Len(macs) : macs[d] = macs[e] /\ macs[d] # NoMac => d = e

Stored ==
    /\ Unique(devices)
    /\ \A a \in Addresses : addresses[a] \in 0..Len(devices)

\* The registry against the database.
Registry ==
    alive =>
        /\ Unique(known)
        /\ Len(devices) <= Len(known)
        /\ dirtyDevices \subseteq 1..Len(known)
        /\ \A d \in 1..Len(devices) : devices[d] # NoMac => known[d] = devices[d]
        /\ \A d \in (1..Len(known)) \ dirtyDevices : d <= Len(devices) /\ known[d] = devices[d]
        /\ \A a \in Addresses : bound[a] \in 0..Len(known)
        /\ \A a \in dirtyAddresses : bound[a] # 0
        /\ \A a \in Addresses \ dirtyAddresses : addresses[a] \in {0, bound[a]}
        /\ \A q \in Queries : \A i \in 1..Len(pending[q]) : pending[q][i] \in 1..Len(known)

Identity == Stored /\ Registry

IInv == TypeOK /\ Counting /\ Identity

-----------------------------------------------------------------------------
LEMMA ConstantFacts ==
    /\ 0 \in Times /\ Times \subseteq Nat
    /\ None \notin Times
    /\ \A q \in Queries : q.time \in Times /\ q.address \in Addresses
  BY CollectorAssumption DEF Times, Queries

LEMMA NothingIsEmpty ==
    /\ Nothing \in Counts
    /\ \A q \in Queries : Nothing[q] = <<>> /\ Len(Nothing[q]) = 0
  BY DEF Nothing, Counts

\* What has expired stays expired.
LEMMA ExpiredStays ==
    ASSUME NEW r \in Resolution, NEW q \in Queries, NEW s \in Times, NEW t \in Times, s <= t,
           Expired(r, q, s)
    PROVE  Expired(r, q, t)
  <1>1. q.time \in Nat /\ Length[r] \in Nat \ {0} /\ Keep[r] \in Nat /\ s \in Nat /\ t \in Nat
    BY CollectorAssumption, ConstantFacts
  <1>2. BucketStart(r, q.time) \in Int
    BY <1>1 DEF BucketStart
  <1> QED
    BY <1>1, <1>2 DEF Expired

\* A sequence is appended to: its length and its elements.
LEMMA AppendFacts ==
    ASSUME NEW S, NEW s \in Seq(S), NEW x \in S
    PROVE  /\ Append(s, x) \in Seq(S)
           /\ Len(Append(s, x)) = Len(s) + 1
           /\ \A i \in 1..Len(s) : Append(s, x)[i] = s[i]
           /\ Append(s, x)[Len(s) + 1] = x
  OBVIOUS

LEMMA ConcatFacts ==
    ASSUME NEW S, NEW s \in Seq(S), NEW t \in Seq(S)
    PROVE  s \o t \in Seq(S) /\ Len(s \o t) = Len(s) + Len(t)
  OBVIOUS

\* The table read from the provider is a set of clients.
LEMMA ClientTableType == TypeOK => ClientTable \subseteq Client
  BY DEF TypeOK, ClientTable, Client

-----------------------------------------------------------------------------
(* The registry.                                                           *)

\* A dirty device is written as it is known, and a clean one is as stored.
LEMMA UpsertedIsKnown ==
    ASSUME TypeOK, Registry, alive
    PROVE  Upserted = known
  <1>1. known \in Seq(Macs \cup {NoMac}) /\ devices \in Seq(Macs \cup {NoMac})
    BY DEF TypeOK
  <1>2. ASSUME NEW d \in 1..Len(known)
        PROVE  Upserted[d] = known[d]
    <2>1. Upserted[d] = IF d > Len(devices) \/ (d \in dirtyDevices /\ known[d] # NoMac)
                        THEN known[d] ELSE devices[d]
      BY DEF Upserted
    <2>2. CASE d > Len(devices) \/ (d \in dirtyDevices /\ known[d] # NoMac)
      BY <2>1, <2>2
    <2>3. CASE d <= Len(devices) /\ d \notin dirtyDevices
      BY <2>1, <2>3 DEF Registry
    <2>4. CASE d <= Len(devices) /\ d \in dirtyDevices /\ known[d] = NoMac
      <3>1. d \in 1..Len(devices)
        BY <1>1, <2>4
      <3>2. devices[d] = NoMac
        BY <2>4, <3>1 DEF Registry
      <3> QED
        BY <2>1, <2>4, <3>2
    <2> QED
      BY <1>1, <2>2, <2>3, <2>4
  <1>3. DOMAIN Upserted = 1..Len(known) /\ DOMAIN known = 1..Len(known)
    BY <1>1 DEF Upserted
  <1>4. known = [d \in 1..Len(known) |-> known[d]]
    BY <1>1
  <1>5. Upserted = [d \in 1..Len(known) |-> Upserted[d]]
    BY DEF Upserted
  <1> QED
    BY <1>2, <1>4, <1>5

\* Whatever is pending, the schema accepts it.
LEMMA RegistryIsAccepted ==
    ASSUME TypeOK, Registry, alive
    PROVE  Accepted
  <1> DEFINE stored == {d \in 1..Len(known) : d <= Len(devices) \/ d \in dirtyDevices}
  <1>1. stored = 1..Len(known)
    <2>1. \A d \in 1..Len(known) : d <= Len(devices) \/ d \in dirtyDevices
      BY DEF Registry
    <2> QED
      BY <2>1
  <1>2. \A d, e \in stored : Upserted[d] = Upserted[e] /\ Upserted[d] # NoMac => d = e
    BY <1>1, UpsertedIsKnown DEF Registry, Unique
  <1>3. Len(known) \in Nat
    BY DEF TypeOK
  <1>4. ASSUME NEW a \in dirtyAddresses PROVE bound[a] \in stored
    <2>1. a \in Addresses /\ bound[a] \in 0..Len(known) /\ bound[a] # 0
      BY DEF Registry, TypeOK
    <2>2. bound[a] \in 1..Len(known)
      BY <1>3, <2>1
    <2> HIDE DEF stored
    <2> QED
      BY <1>1, <2>2
  <1>5. \A q \in Queries : \A i \in 1..Len(pending[q]) : pending[q][i] \in stored
    BY <1>1 DEF Registry
  <1> QED
    BY <1>2, <1>4, <1>5 DEF Accepted
-----------------------------------------------------------------------------
LEMMA InitEstablishesIInv == Init => IInv
  <1> SUFFICES ASSUME Init PROVE IInv
    OBVIOUS
  <1> USE DEF Init
  <1>1. Unbound \in [Addresses -> Nat] /\ \A a \in Addresses : Unbound[a] = 0
    BY DEF Unbound
  <1>2. 0 \in Times /\ 0 \in 0..MaxMoves /\ 0 \in 0..MaxFailures
    BY CollectorAssumption DEF Times
  <1>3. TypeOK
    <2>1. <<>> \in Seq(Macs \cup {NoMac})
      OBVIOUS
    <2>2. rollups \in [Resolution -> Counts]
      BY NothingIsEmpty
    <2> QED
      BY <1>1, <1>2, <2>1, <2>2, NothingIsEmpty DEF TypeOK
  <1>4. Marks /\ LogIsPast /\ Reading /\ PendingOnce
    BY DEF Marks, LogIsPast, Reading, PendingOnce, alive
  <1>5. StoredOnce
    BY NothingIsEmpty DEF StoredOnce
  <1>6. Len(devices) = 0
    OBVIOUS
  <1>7. Stored /\ Registry
    BY <1>1, <1>6 DEF Stored, Registry, Unique, alive
  <1> QED
    BY <1>3, <1>4, <1>5, <1>7 DEF IInv, Counting, Identity

-----------------------------------------------------------------------------
(* Type correctness, one action at a time.                                 *)

LEMMA EnvironmentKeepsType ==
    ASSUME TypeOK, \/ \E a \in Addresses : Ask(a) \/ Move(a)
                   \/ Tick
    PROVE  TypeOK'
  <1>1. CASE \E a \in Addresses : Ask(a)
    BY <1>1 DEF TypeOK, Ask, Queries, database, process, registry, page
  <1>2. CASE \E a \in Addresses : Move(a)
    <2> PICK a \in Addresses : Move(a)
      BY <1>2
    <2>1. owner' \in [Addresses -> Macs \cup {NoMac, Gone}]
      BY DEF TypeOK, Move
    <2>2. moves' \in 0..MaxMoves
      BY CollectorAssumption DEF TypeOK, Move
    <2> QED
      BY <2>1, <2>2 DEF TypeOK, Move, database, process, registry, page
  <1>3. CASE Tick
    <2>1. now' \in Times
      BY <1>3, CollectorAssumption DEF TypeOK, Tick, Times
    <2> QED
      BY <1>3, <2>1 DEF TypeOK, Tick, database, process, registry, page
  <1> QED
    BY <1>1, <1>2, <1>3

LEMMA PollKeepsType ==
    ASSUME TypeOK, Poll
    PROVE  TypeOK'
  <1> USE DEF environment, database, registry, page
  <1>1. CASE PollFirst
    BY <1>1 DEF TypeOK, PollFirst
  <1>2. CASE PollEarly
    BY <1>2 DEF TypeOK, PollEarly
  <1>3. CASE PollError
    <2>1. failures' \in 0..MaxFailures
      BY <1>3, CollectorAssumption DEF TypeOK, PollError
    <2> QED
      BY <1>3, <2>1 DEF TypeOK, PollError
  <1>4. CASE PollRead
    <2>1. clients' \subseteq Client /\ entries' \subseteq Queries
      BY <1>4, ClientTableType DEF TypeOK, PollRead, Window
    <2> QED
      BY <1>4, <2>1 DEF TypeOK, PollRead
  <1> QED
    BY <1>1, <1>2, <1>3, <1>4 DEF Poll

\* The device an observed client gets.
LEMMA DevicesOfType ==
    ASSUME TypeOK, NEW c \in Client, NEW d \in DevicesOf(c),
           \A a \in Addresses : bound[a] \in 0..Len(known)
    PROVE  d \in 1..(Len(known) + 1)
  <1>1. Len(known) \in Nat /\ c.addresses \subseteq Addresses
    BY DEF TypeOK, Client
  <1> QED
    BY <1>1 DEF DevicesOf

LEMMA ObserveKeepsType ==
    ASSUME TypeOK, Registry, NEW c \in clients, ObserveClient(c)
    PROVE  TypeOK'
  <1>1. c \in Client /\ c.mac \in Macs \cup {NoMac} /\ c.addresses \subseteq Addresses
    BY DEF TypeOK, Client
  <1>2. PICK d \in DevicesOf(c) : Observe(c, d)
    BY DEF ObserveClient
  <1>3. known \in Seq(Macs \cup {NoMac}) /\ Len(known) \in Nat
    BY DEF TypeOK
  <1>4. d \in 1..(Len(known) + 1)
    BY <1>1, DevicesOfType DEF Registry, ObserveClient, alive
  <1>5. known' \in Seq(Macs \cup {NoMac})
    BY <1>1, <1>2, <1>3, <1>4 DEF Observe, Identify, Claims
  <1>6. dirtyDevices' \subseteq Device
    BY <1>2, <1>4 DEF Observe, TypeOK, Device
  <1>7. bound' \in [Addresses -> Nat] /\ dirtyAddresses' \subseteq Addresses
    BY <1>1, <1>2, <1>4 DEF Observe, Bind, TypeOK
  <1> QED
    BY <1>5, <1>6, <1>7 DEF TypeOK, ObserveClient, environment, database

LEMMA AddKeepsType ==
    ASSUME TypeOK, Registry, NEW q \in entries, AddEntry(q)
    PROVE  TypeOK'
  <1> DEFINE d == IF bound[q.address] = 0 THEN Len(known) + 1 ELSE bound[q.address]
  <1>1. q \in Queries /\ q.address \in Addresses
    BY ConstantFacts DEF TypeOK
  <1>2. known \in Seq(Macs \cup {NoMac}) /\ Len(known) \in Nat
    BY DEF TypeOK
  <1>3. d \in 1..(Len(known) + 1)
    BY <1>1, <1>2 DEF Registry, AddEntry, alive
  <1>4. d \in Device
    BY <1>2, <1>3 DEF Device
  <1>5. known' \in Seq(Macs \cup {NoMac})
    BY <1>2 DEF AddEntry
  <1>6. dirtyDevices' \subseteq Device
    BY <1>4 DEF AddEntry, TypeOK
  <1>7. bound' \in [Addresses -> Nat] /\ dirtyAddresses' \subseteq Addresses
    BY <1>1, <1>4 DEF AddEntry, Bind, TypeOK, Device
  <1>8. pending' = [pending EXCEPT ![q] = Append(@, d)]
    BY DEF AddEntry
  <1>9. pending' \in Counts
    <2> HIDE DEF d
    <2>1. pending \in [Queries -> Seq(Device)]
      BY DEF TypeOK, Counts
    <2>2. Append(pending[q], d) \in Seq(Device)
      BY <1>1, <1>4, <2>1, AppendFacts
    <2> QED
      BY <1>1, <1>8, <2>1, <2>2 DEF Counts
  <1> QED
    BY <1>5, <1>6, <1>7, <1>9 DEF TypeOK, AddEntry, environment, database

LEMMA FlushKeepsType ==
    ASSUME TypeOK, Registry, Flush, watermark # None
    PROVE  TypeOK'
  <1> USE DEF environment, database, page
  <1>1. CASE FlushFails
    <2>1. failures' \in 0..MaxFailures
      BY <1>1, CollectorAssumption DEF TypeOK, FlushFails
    <2> QED
      BY <1>1, <2>1 DEF TypeOK, Flush, FlushFails
  <1>2. CASE FlushCommits
    <2>1. devices' \in Seq(Macs \cup {NoMac})
      BY <1>2, UpsertedIsKnown DEF TypeOK, Flush, FlushCommits, alive
    <2>2. addresses' \in [Addresses -> Nat]
      <3>1. \A a \in Addresses : Rebound[a] \in Nat
        BY DEF TypeOK, Rebound
      <3> QED
        BY <1>2, <3>1 DEF FlushCommits
    <2>3. rollups' \in [Resolution -> Counts]
      <3>1. ASSUME NEW r \in Resolution PROVE Retained(r) \in Counts
        <4>1. ASSUME NEW q \in Queries PROVE Merged(r)[q] \in Seq(Device)
          <5>1. rollups[r][q] \in Seq(Device) /\ pending[q] \in Seq(Device)
            BY DEF TypeOK, Counts
          <5> QED
            BY <5>1, ConcatFacts DEF Merged
        <4>2. <<>> \in Seq(Device)
          OBVIOUS
        <4> QED
          BY <4>1, <4>2 DEF Retained, Counts
      <3> QED
        BY <1>2, <3>1 DEF FlushCommits
    <2>4. saved' \in Times /\ flushedAt' \in Times /\ pending' \in Counts
      BY <1>2, NothingIsEmpty DEF TypeOK, FlushCommits
    <2> QED
      BY <1>2, <2>1, <2>2, <2>3, <2>4 DEF TypeOK, Flush, FlushCommits
  <1> QED
    BY <1>1, <1>2 DEF Flush

LEMMA OthersKeepType ==
    ASSUME TypeOK, Start \/ ClientsDone \/ EntriesDone \/ NotDue \/ Stop \/ Crash
    PROVE  TypeOK'
  <1> USE DEF environment, database, registry, page
  <1>1. CASE Start
    BY <1>1, NothingIsEmpty DEF TypeOK, Start
  <1>2. CASE ClientsDone \/ EntriesDone \/ NotDue \/ Stop
    BY <1>2 DEF TypeOK, ClientsDone, EntriesDone, NotDue, Stop
  <1>3. CASE Crash
    BY <1>3, CollectorAssumption DEF TypeOK, Crash
  <1> QED
    BY <1>1, <1>2, <1>3
-----------------------------------------------------------------------------
(* Counting, one action at a time.                                         *)

\* What the counting half says in terms of integers.
LEMMA MarkTypes ==
    ASSUME TypeOK
    PROVE  /\ now \in Nat /\ until \in Nat /\ flushedAt \in Nat
           /\ saved # None => saved \in Nat
           /\ watermark # None => watermark \in Nat
           /\ first # None => first \in Nat
           /\ \A q \in Queries : q.time \in Nat
  BY ConstantFacts DEF TypeOK

LEMMA AskKeepsCounting ==
    ASSUME TypeOK, Counting, NEW a \in Addresses, Ask(a)
    PROVE  Counting'
  <1> DEFINE n == [time |-> now, address |-> a]
  <1>1. UNCHANGED <<now, saved, flushedAt, first, pc, watermark, until, entries, rollups, pending>>
    BY DEF Ask, database, process, page
  <1>2. log' = log \cup {n} /\ n \notin log /\ n.time = now
    BY DEF Ask
  <1>3. Marks'
    BY <1>1 DEF Counting, Marks, alive
  <1>4. LogIsPast'
    BY <1>1, <1>2, MarkTypes DEF Counting, LogIsPast
  <1>5. ~Covered(n, saved) /\ (alive => ~Covered(n, watermark))
        /\ (pc \in {"clients", "entries"} => ~(n.time < until))
    BY <1>2, MarkTypes DEF Covered, Counting, Marks
  <1>6. pc \in {"clients", "entries"} => Window(watermark, until)' = Window(watermark, until)
    BY <1>1, <1>2, <1>5 DEF Window
  <1>7. Reading'
    BY <1>1, <1>6 DEF Counting, Reading
  <1>8. StoredOnce'
    <2>1. \A q \in Queries : (q \in log' /\ Covered(q, saved)) <=> (q \in log /\ Covered(q, saved))
      BY <1>2, <1>5
    <2> QED
      BY <1>1, <2>1 DEF Counting, StoredOnce, Covered, Expired, BucketStart
  <1>9. PendingOnce'
    <2>1. alive => \A q \in Queries :
             (q \in log' /\ Covered(q, watermark)) <=> (q \in log /\ Covered(q, watermark))
      BY <1>2, <1>5
    <2>2. \A q : InPoll(q)' <=> InPoll(q)
      BY <1>1, <1>6 DEF InPoll
    <2> QED
      BY <1>1, <2>1, <2>2 DEF Counting, PendingOnce, Covered, alive
  <1> QED
    BY <1>3, <1>4, <1>7, <1>8, <1>9 DEF Counting

\* Steps that change nothing the counting half speaks of, but for the clock.
LEMMA ClockKeepsCounting ==
    ASSUME TypeOK, Counting, now' \in Nat, now <= now',
           UNCHANGED <<log, saved, flushedAt, first, pc, watermark, until, entries, rollups, pending>>
    PROVE  Counting'
  <1>1. Marks'
    BY MarkTypes DEF Counting, Marks, alive
  <1>2. LogIsPast'
    <2>1. \A q \in log : q.time \in Nat
      BY MarkTypes DEF TypeOK
    <2> QED
      BY <2>1, MarkTypes DEF Counting, LogIsPast
  <1>3. Reading' /\ StoredOnce' /\ PendingOnce'
    BY DEF Counting, Reading, StoredOnce, PendingOnce, Window, Covered, Expired, BucketStart,
           InPoll, alive
  <1> QED
    BY <1>1, <1>2, <1>3 DEF Counting

\* Steps between polls that leave the marks and the counts alone.
LEMMA QuietKeepsCounting ==
    ASSUME TypeOK, Counting,
           pc \in {"wait", "polled", "down"} \/ pc' = "down",
           pc' \in {"wait", "down"} \/ (pc' = "polled" /\ watermark # None),
           pc' # "down" => pc # "down",
           UNCHANGED <<now, log, saved, flushedAt, first, watermark, rollups, pending>>
    PROVE  Counting'
  <1>1. Marks' /\ LogIsPast' /\ Reading' /\ StoredOnce'
    BY DEF Counting, Marks, LogIsPast, Reading, StoredOnce, Covered, Expired, BucketStart, alive
  <1>2. PendingOnce'
    <2>1. \A q : ~InPoll(q)'
      BY DEF InPoll
    <2>2. alive' => alive /\ \A q : ~InPoll(q)
      BY DEF InPoll, alive
    <2> QED
      BY <2>1, <2>2 DEF Counting, PendingOnce, Covered
  <1> QED
    BY <1>1, <1>2 DEF Counting

LEMMA StartKeepsCounting ==
    ASSUME TypeOK, Counting, Start
    PROVE  Counting'
  <1>1. UNCHANGED <<now, log, saved, flushedAt, first, rollups>>
    BY DEF Start, environment, database
  <1>2. pc' = "wait" /\ watermark' = saved /\ pending' = Nothing
    BY DEF Start
  <1>3. Marks' /\ LogIsPast' /\ Reading' /\ StoredOnce'
    BY <1>1, <1>2, MarkTypes
    DEF Counting, Marks, LogIsPast, Reading, StoredOnce, Covered, Expired, BucketStart, alive
  <1>4. PendingOnce'
    BY <1>1, <1>2, NothingIsEmpty DEF PendingOnce, InPoll, Covered
  <1> QED
    BY <1>3, <1>4 DEF Counting

LEMMA PollFirstKeepsCounting ==
    ASSUME TypeOK, Counting, PollFirst
    PROVE  Counting'
  <1>1. UNCHANGED <<now, log, saved, flushedAt, rollups, pending>>
    BY DEF PollFirst, environment, database
  <1>2. pc = "wait" /\ pc' = "polled" /\ watermark = None /\ watermark' = now /\ first' = now
    BY DEF PollFirst
  <1>3. saved = None
    BY <1>2 DEF Counting, Marks, alive
  <1>4. now # None
    BY ConstantFacts DEF TypeOK
  <1>5. Marks' /\ LogIsPast' /\ Reading'
    BY <1>1, <1>2, <1>3, <1>4, MarkTypes DEF Counting, Marks, LogIsPast, Reading, alive
  <1>6. StoredOnce'
    BY <1>1, <1>3 DEF Counting, StoredOnce, Covered, Expired, BucketStart
  <1>7. PendingOnce'
    <2>1. \A q \in Queries : Len(pending[q]) = 0
      BY <1>2 DEF Counting, PendingOnce, Covered, InPoll, alive
    <2>2. \A q \in Queries : ~Covered(q, watermark)' /\ ~InPoll(q)'
      BY <1>1, <1>2, MarkTypes DEF Covered, InPoll
    <2> QED
      BY <1>1, <2>1, <2>2 DEF PendingOnce
  <1> QED
    BY <1>5, <1>6, <1>7 DEF Counting

LEMMA PollReadKeepsCounting ==
    ASSUME TypeOK, Counting, PollRead
    PROVE  Counting'
  <1>1. UNCHANGED <<now, log, saved, flushedAt, first, rollups, pending, watermark>>
    BY DEF PollRead, environment, database
  <1>2. pc = "wait" /\ pc' = "clients" /\ watermark # None /\ watermark < now /\ until' = now
        /\ entries' = Window(watermark, now)
    BY DEF PollRead
  <1>3. Marks' /\ LogIsPast'
    BY <1>1, <1>2, MarkTypes DEF Counting, Marks, LogIsPast, alive
  <1>4. Reading'
    BY <1>1, <1>2 DEF Reading, Window
  <1>5. StoredOnce'
    BY <1>1 DEF Counting, StoredOnce, Covered, Expired, BucketStart
  <1>6. PendingOnce'
    BY <1>1, <1>2 DEF Counting, PendingOnce, Covered, InPoll, alive
  <1> QED
    BY <1>3, <1>4, <1>5, <1>6 DEF Counting

LEMMA ClientsKeepCounting ==
    ASSUME TypeOK, Counting, ClientsDone \/ \E c \in clients : ObserveClient(c)
    PROVE  Counting'
  <1>1. UNCHANGED <<now, log, saved, flushedAt, first, rollups, pending, watermark, until, entries>>
    BY DEF ClientsDone, ObserveClient, environment, database, page
  <1>2. pc = "clients" /\ pc' \in {"clients", "entries"}
    BY DEF ClientsDone, ObserveClient
  <1>3. Marks' /\ LogIsPast' /\ StoredOnce'
    BY <1>1, <1>2 DEF Counting, Marks, LogIsPast, StoredOnce, Covered, Expired, BucketStart, alive
  <1>4. entries = Window(watermark, until)
    BY <1>2 DEF Counting, Reading
  <1>5. Reading'
    BY <1>1, <1>2, <1>4 DEF Reading, Window
  <1>6. PendingOnce'
    <2>1. \A q : ~InPoll(q) /\ ~InPoll(q)'
      BY <1>1, <1>2, <1>4 DEF InPoll, Window
    <2> QED
      BY <1>1, <1>2, <2>1 DEF Counting, PendingOnce, Covered, alive
  <1> QED
    BY <1>3, <1>5, <1>6 DEF Counting

LEMMA AddKeepsCounting ==
    ASSUME TypeOK, Counting, NEW q \in entries, AddEntry(q), Registry
    PROVE  Counting'
  <1> DEFINE d == IF bound[q.address] = 0 THEN Len(known) + 1 ELSE bound[q.address]
  <1>1. UNCHANGED <<now, log, saved, flushedAt, first, rollups, watermark, until, pc>>
    BY DEF AddEntry, environment, database
  <1>2. pc = "entries" /\ entries' = entries \ {q} /\ pending' = [pending EXCEPT ![q] = Append(@, d)]
    BY DEF AddEntry
  <1>3. Marks' /\ LogIsPast' /\ StoredOnce'
    BY <1>1 DEF Counting, Marks, LogIsPast, StoredOnce, Covered, Expired, BucketStart, alive
  <1>4. q \in Queries /\ entries \subseteq Window(watermark, until) /\ watermark # None
    BY <1>2 DEF TypeOK, Counting, Reading, Marks
  <1>5. Reading'
    BY <1>1, <1>2, <1>4 DEF Reading, Window
  <1>6. PendingOnce'
    <2>1. ~Covered(q, watermark) /\ ~InPoll(q) /\ InPoll(q)'
      BY <1>1, <1>2, <1>4, MarkTypes DEF Covered, InPoll, Window
    <2>2. \A p \in Queries : p # q => (InPoll(p)' <=> InPoll(p))
      BY <1>1, <1>2 DEF InPoll, Window
    <2>3. pending \in [Queries -> Seq(Device)]
      BY DEF TypeOK, Counts
    <2>4. d \in Device
      <3>1. q.address \in Addresses /\ Len(known) \in Nat
        BY <1>4, ConstantFacts DEF TypeOK
      <3> QED
        BY <3>1 DEF TypeOK, Device
    <2>5. Len(pending'[q]) = 1
      <3> HIDE DEF d
      <3>1. Len(pending[q]) = 0
        BY <1>2, <1>4, <2>1 DEF Counting, PendingOnce, alive
      <3>2. pending'[q] = Append(pending[q], d)
        BY <1>2, <1>4, <2>3
      <3> QED
        BY <1>4, <2>3, <2>4, <3>1, <3>2, AppendFacts
    <2>6. \A p \in Queries : p # q => pending'[p] = pending[p]
      BY <1>2, <2>3
    <2>7. \A p : Covered(p, watermark)' = Covered(p, watermark)
               /\ Covered(p, saved)' = Covered(p, saved)
      BY <1>1 DEF Covered
    <2>8. alive
      BY <1>2 DEF alive
    <2> HIDE DEF d
    <2>9. ASSUME NEW p \in Queries
          PROVE  Len(pending[p])' =
                    IF \/ p \in log' /\ Covered(p, watermark)' /\ ~Covered(p, saved)'
                       \/ InPoll(p)'
                    THEN 1 ELSE 0
      <3>1. CASE p = q
        BY <2>1, <2>5, <3>1
      <3>2. CASE p # q
        BY <1>1, <2>2, <2>6, <2>7, <2>8, <3>2 DEF Counting, PendingOnce
      <3> QED
        BY <3>1, <3>2
    <2> QED
      BY <2>9 DEF PendingOnce
  <1> QED
    BY <1>3, <1>5, <1>6 DEF Counting

LEMMA EntriesDoneKeepsCounting ==
    ASSUME TypeOK, Counting, EntriesDone
    PROVE  Counting'
  <1>1. UNCHANGED <<now, log, saved, flushedAt, first, rollups, pending>>
    BY DEF EntriesDone, environment, database
  <1>2. pc = "entries" /\ entries = {} /\ pc' = "polled" /\ watermark' = until
    BY DEF EntriesDone
  <1>3. watermark # None /\ watermark < until /\ until <= now /\ until # None
        /\ first # None /\ first <= watermark /\ (saved # None => saved <= watermark)
    BY <1>2, ConstantFacts DEF Counting, Marks, alive, TypeOK
  <1>4. Marks' /\ LogIsPast' /\ Reading'
    BY <1>1, <1>2, <1>3, MarkTypes DEF Counting, Marks, LogIsPast, Reading, alive
  <1>5. StoredOnce'
    BY <1>1 DEF Counting, StoredOnce, Covered, Expired, BucketStart
  <1>6. ASSUME NEW q \in Queries
        PROVE  (q \in log /\ Covered(q, watermark) /\ ~Covered(q, saved)) \/ InPoll(q)
                  <=> q \in log /\ Covered(q, until) /\ ~Covered(q, saved)
    BY <1>2, <1>3, MarkTypes DEF InPoll, Window, Covered
  <1>7. PendingOnce'
    <2>1. \A q : ~InPoll(q)'
      BY <1>2 DEF InPoll
    <2>2. \A q : Covered(q, watermark)' = Covered(q, until) /\ Covered(q, saved)' = Covered(q, saved)
      BY <1>1, <1>2 DEF Covered
    <2> QED
      BY <1>1, <1>2, <1>6, <2>1, <2>2 DEF Counting, PendingOnce, alive
  <1> QED
    BY <1>4, <1>5, <1>7 DEF Counting

\* The commit: what was stored and what was pending add up to what the new
\* stored watermark covers.
LEMMA CommitKeepsCounting ==
    ASSUME TypeOK, Counting, Flush, FlushCommits
    PROVE  Counting'
  <1>1. UNCHANGED <<now, log, first, watermark>>
    BY DEF Flush, environment
  <1>2. /\ pc = "polled" /\ pc' \in {"wait", "down"}
        /\ saved' = watermark /\ flushedAt' = now /\ pending' = Nothing
        /\ rollups' = [r \in Resolution |-> Retained(r)]
    BY DEF Flush, FlushCommits
  <1>3. watermark # None /\ first # None /\ first <= watermark /\ watermark <= now
        /\ (saved # None => saved <= watermark) /\ flushedAt <= now
    BY <1>2 DEF Counting, Marks, alive
  <1>4. Marks' /\ LogIsPast' /\ Reading'
    BY <1>1, <1>2, <1>3, MarkTypes DEF Counting, Marks, LogIsPast, Reading, alive
  <1>5. PendingOnce'
    BY <1>1, <1>2, NothingIsEmpty DEF PendingOnce, Covered, InPoll
  <1>6. StoredOnce'
    <2> SUFFICES ASSUME NEW r \in Resolution, NEW q \in Queries
                 PROVE  Len(Retained(r)[q]) =
                           IF q \in log /\ Covered(q, watermark) /\ ~Expired(r, q, now)
                           THEN 1 ELSE 0
      <3>1. \A r, q : Expired(r, q, flushedAt)' = Expired(r, q, now)
        BY <1>2 DEF Expired, BucketStart
      <3>2. \A q : Covered(q, saved)' = Covered(q, watermark)
        BY <1>1, <1>2 DEF Covered
      <3> QED
        BY <1>1, <1>2, <3>1, <3>2 DEF StoredOnce
    <2>1. rollups[r][q] \in Seq(Device) /\ pending[q] \in Seq(Device)
      BY DEF TypeOK, Counts
    <2>2. CASE Expired(r, q, now)
      BY <2>2 DEF Retained
    <2>3. CASE ~Expired(r, q, now)
      <3>1. ~Expired(r, q, flushedAt)
        BY <1>3, <2>3, ExpiredStays DEF TypeOK
      <3>2. Retained(r)[q] = rollups[r][q] \o pending[q]
        BY <2>3 DEF Retained, Merged
      <3>3. Len(Retained(r)[q]) = Len(rollups[r][q]) + Len(pending[q])
        BY <2>1, <3>2, ConcatFacts
      <3>4. Len(rollups[r][q]) = IF q \in log /\ Covered(q, saved) THEN 1 ELSE 0
        BY <3>1 DEF Counting, StoredOnce
      <3>5. ~InPoll(q) /\ alive
        BY <1>2 DEF InPoll, alive
      <3>6. Len(pending[q]) =
               IF q \in log /\ Covered(q, watermark) /\ ~Covered(q, saved) THEN 1 ELSE 0
        BY <3>5 DEF Counting, PendingOnce
      <3>7. Covered(q, saved) => Covered(q, watermark)
        BY <1>3, MarkTypes DEF Covered
      <3> QED
        BY <2>3, <3>3, <3>4, <3>6, <3>7
    <2> QED
      BY <2>2, <2>3
  <1> QED
    BY <1>4, <1>5, <1>6 DEF Counting
-----------------------------------------------------------------------------
(* Identity, one action at a time.                                         *)

\* Steps that leave the database, the registry and what is pending alone.
LEMMA QuietKeepsIdentity ==
    ASSUME Identity, UNCHANGED <<database, registry, pending>>, pc' # "down" => pc # "down"
    PROVE  Identity'
  BY DEF Identity, Stored, Registry, Unique, alive, database, registry

LEMMA StartKeepsIdentity ==
    ASSUME TypeOK, Identity, Start
    PROVE  Identity'
  <1>1. UNCHANGED <<devices, addresses>> /\ known' = devices /\ bound' = addresses
        /\ dirtyDevices' = {} /\ dirtyAddresses' = {} /\ pending' = Nothing
    BY DEF Start, database
  <1>2. Len(devices) \in Nat
    BY DEF TypeOK
  <1>3. \A q \in Queries : 1..Len(Nothing[q]) = {}
    BY NothingIsEmpty
  <1> QED
    BY <1>1, <1>2, <1>3 DEF Identity, Stored, Registry, Unique

\* A registry that grows or claims, in the form both actions produce.
LEMMA ObserveKeepsIdentity ==
    ASSUME TypeOK, Identity, NEW c \in clients, ObserveClient(c)
    PROVE  Identity'
  <1>1. c \in Client /\ c.mac \in Macs \cup {NoMac} /\ c.addresses \subseteq Addresses
    BY DEF TypeOK, Client
  <1>2. PICK d \in DevicesOf(c) : Observe(c, d)
    BY DEF ObserveClient
  <1>3. Registry /\ alive /\ alive'
    BY DEF Identity, ObserveClient, alive
  <1>4. known \in Seq(Macs \cup {NoMac}) /\ Len(known) \in Nat /\ Len(devices) \in Nat
    BY DEF TypeOK
  <1>5. d \in 1..(Len(known) + 1)
    BY <1>1, <1>3, DevicesOfType DEF Registry, alive
  <1>6. UNCHANGED <<devices, addresses, pending>>
    BY DEF ObserveClient, database
  <1>7. /\ bound' = [a \in Addresses |-> IF a \in c.addresses THEN d ELSE bound[a]]
        /\ dirtyAddresses' = dirtyAddresses \cup c.addresses
    BY <1>2 DEF Observe, Bind
  <1>8. /\ Len(known) <= Len(known)' /\ Len(known)' \in Nat /\ d \in 1..Len(known)'
        /\ \A e \in 1..Len(known) : e # d => known'[e] = known[e]
        /\ Len(known)' = Len(known) \/ (d = Len(known) + 1 /\ Len(known)' = Len(known) + 1)
    <2>1. CASE d > Len(known)
      BY <1>1, <1>2, <1>4, <1>5, <2>1 DEF Observe, Identify
    <2>2. CASE d <= Len(known)
      BY <1>1, <1>2, <1>4, <1>5, <2>2 DEF Observe, Identify, Claims
    <2> QED
      BY <1>4, <1>5, <2>1, <2>2
  <1>9. \/ d = Len(known) + 1 /\ known'[d] = c.mac /\ d \in dirtyDevices'
        \/ d <= Len(known) /\ known[d] = NoMac /\ c.mac # NoMac /\ known'[d] = c.mac
           /\ d \in dirtyDevices'
        \/ d <= Len(known) /\ known'[d] = known[d]
    <2>1. CASE d > Len(known)
      BY <1>1, <1>2, <1>4, <1>5, <2>1 DEF Observe, Identify
    <2>2. CASE d <= Len(known)
      BY <1>1, <1>2, <1>4, <1>5, <2>2 DEF Observe, Identify, Claims
    <2> QED
      BY <1>4, <1>5, <2>1, <2>2
  <1>10. dirtyDevices \subseteq dirtyDevices' /\ dirtyDevices' \subseteq dirtyDevices \cup {d}
    BY <1>2 DEF Observe
  <1>11. known'[d] # known[d] \/ d = Len(known) + 1 =>
            \A e \in 1..Len(known) : c.mac # NoMac => known[e] # c.mac
    <2>1. ASSUME NEW e \in 1..Len(known), c.mac # NoMac, known[e] = c.mac
          PROVE  known[d] = c.mac /\ d <= Len(known)
      <3>1. e \in {x \in 1..Len(known) : c.mac # NoMac /\ known[x] = c.mac}
        BY <2>1
      <3>2. d \in {x \in 1..Len(known) : c.mac # NoMac /\ known[x] = c.mac}
        BY <3>1 DEF DevicesOf
      <3> QED
        BY <3>2
    <2>2. known[d] = c.mac /\ d <= Len(known) => known'[d] = known[d]
      BY <1>4, <1>5, <1>9
    <2> QED
      BY <1>4, <2>1, <2>2
  <1>12. Unique(known)'
    <2> SUFFICES ASSUME NEW x \in 1..Len(known)', NEW y \in 1..Len(known)',
                        known'[x] = known'[y], known'[x] # NoMac
                 PROVE  x = y
      BY DEF Unique
    <2>1. (x # d => x \in 1..Len(known) /\ known'[x] = known[x])
          /\ (y # d => y \in 1..Len(known) /\ known'[y] = known[y])
      BY <1>4, <1>5, <1>8
    <2>2. d \in 1..Len(known) /\ known'[d] = known[d] => x = y
      BY <1>3, <2>1 DEF Registry, Unique
    <2>3. CASE known'[d] = c.mac /\ (known'[d] # known[d] \/ d = Len(known) + 1)
      BY <1>3, <1>11, <2>1, <2>3 DEF Registry, Unique
    <2> QED
      BY <1>4, <1>5, <1>9, <2>2, <2>3
  <1>13. \A e \in 1..Len(devices) : devices[e] # NoMac => known'[e] = devices[e]
    <2> SUFFICES ASSUME NEW e \in 1..Len(devices), devices[e] # NoMac
                 PROVE  known'[e] = devices[e]
      OBVIOUS
    <2>1. e \in 1..Len(known) /\ known[e] = devices[e]
      BY <1>3, <1>4 DEF Registry
    <2> QED
      BY <1>4, <1>8, <1>9, <2>1
  <1>14. \A e \in (1..Len(known)') \ dirtyDevices' : e <= Len(devices) /\ known'[e] = devices[e]
    <2> SUFFICES ASSUME NEW e \in 1..Len(known)', e \notin dirtyDevices'
                 PROVE  e <= Len(devices) /\ known'[e] = devices[e]
      OBVIOUS
    <2>1. e \in 1..Len(known) /\ known'[e] = known[e]
      BY <1>4, <1>5, <1>8, <1>9
    <2>2. e \in (1..Len(known)) \ dirtyDevices
      BY <1>10, <2>1
    <2> QED
      BY <1>3, <2>1, <2>2 DEF Registry
  <1>15. \A a \in Addresses : bound'[a] \in 0..Len(known)'
    <2>1. \A a \in Addresses : bound[a] \in 0..Len(known)
      BY <1>3 DEF Registry
    <2> QED
      BY <1>4, <1>7, <1>8, <2>1
  <1>16. \A a \in dirtyAddresses' : bound'[a] # 0
    <2>1. \A a \in dirtyAddresses : a \in Addresses /\ bound[a] # 0
      BY <1>3 DEF Registry, TypeOK
    <2> QED
      BY <1>1, <1>5, <1>7, <2>1
  <1>17. \A a \in Addresses \ dirtyAddresses' : addresses[a] \in {0, bound'[a]}
    BY <1>3, <1>7 DEF Registry
  <1>18. \A q \in Queries : \A i \in 1..Len(pending[q]) : pending[q][i] \in 1..Len(known)'
    <2>1. \A q \in Queries : \A i \in 1..Len(pending[q]) : pending[q][i] \in 1..Len(known)
      BY <1>3 DEF Registry
    <2>2. 1..Len(known) \subseteq 1..Len(known)'
      BY <1>4, <1>8
    <2> QED
      BY <2>1, <2>2
  <1>19. Len(devices) <= Len(known)' /\ dirtyDevices' \subseteq 1..Len(known)'
    BY <1>3, <1>4, <1>8, <1>10 DEF Registry
  <1> QED
    BY <1>6, <1>12, <1>13, <1>14, <1>15, <1>16, <1>17, <1>18, <1>19
    DEF Identity, Stored, Registry, Unique

LEMMA AddKeepsIdentity ==
    ASSUME TypeOK, Identity, NEW q \in entries, AddEntry(q)
    PROVE  Identity'
  <1> DEFINE d == IF bound[q.address] = 0 THEN Len(known) + 1 ELSE bound[q.address]
  <1>1. q \in Queries /\ q.address \in Addresses
    BY ConstantFacts DEF TypeOK
  <1>2. Registry /\ alive
    BY DEF Identity, AddEntry, alive
  <1>3. known \in Seq(Macs \cup {NoMac}) /\ Len(known) \in Nat /\ Len(devices) \in Nat
    BY DEF TypeOK
  <1>4. d \in 1..(Len(known) + 1)
    BY <1>1, <1>2, <1>3 DEF Registry
  <1>5. UNCHANGED <<devices, addresses>>
    BY DEF AddEntry, database
  <1>6. /\ known' = IF d > Len(known) THEN Append(known, NoMac) ELSE known
        /\ dirtyDevices' = IF d > Len(known) THEN dirtyDevices \cup {d} ELSE dirtyDevices
        /\ bound' = [a \in Addresses |-> IF a \in {q.address} THEN d ELSE bound[a]]
        /\ dirtyAddresses' = dirtyAddresses \cup {q.address}
        /\ pending' = [pending EXCEPT ![q] = Append(@, d)]
    BY DEF AddEntry, Bind
  <1> HIDE DEF d
  <1>7. /\ Len(known)' \in Nat /\ Len(known) <= Len(known)' /\ d \in 1..Len(known)'
        /\ \A e \in 1..Len(known) : known'[e] = known[e]
        /\ \A e \in 1..Len(known)' : e \in 1..Len(known) \/ (e = d /\ known'[e] = NoMac /\ e \in dirtyDevices')
    <2>1. CASE d > Len(known)
      <3>1. d = Len(known) + 1 /\ known' = Append(known, NoMac) /\ d \in dirtyDevices'
        BY <1>3, <1>4, <1>6, <2>1
      <3> QED
        BY <1>3, <3>1
    <2>2. CASE d <= Len(known)
      BY <1>3, <1>4, <1>6, <2>2
    <2> QED
      BY <1>3, <1>4, <2>1, <2>2
  <1>8. dirtyDevices \subseteq dirtyDevices' /\ dirtyDevices' \subseteq dirtyDevices \cup {d}
    BY <1>6
  <1>9. Unique(known)'
    BY <1>2, <1>7 DEF Registry, Unique
  <1>10. \A e \in 1..Len(devices) : devices[e] # NoMac => known'[e] = devices[e]
    BY <1>2, <1>3, <1>7 DEF Registry
  <1>11. \A e \in (1..Len(known)') \ dirtyDevices' : e <= Len(devices) /\ known'[e] = devices[e]
    BY <1>2, <1>7, <1>8 DEF Registry
  <1>12. \A a \in Addresses : bound'[a] \in 0..Len(known)'
    <2>1. \A a \in Addresses : bound[a] \in 0..Len(known)
      BY <1>2 DEF Registry
    <2> QED
      BY <1>3, <1>6, <1>7, <2>1
  <1>13. \A a \in dirtyAddresses' : bound'[a] # 0
    <2>1. \A a \in dirtyAddresses : a \in Addresses /\ bound[a] # 0
      BY <1>2 DEF Registry, TypeOK
    <2> QED
      BY <1>1, <1>4, <1>6, <2>1
  <1>14. \A a \in Addresses \ dirtyAddresses' : addresses[a] \in {0, bound'[a]}
    BY <1>2, <1>6 DEF Registry
  <1>15. \A p \in Queries : \A i \in 1..Len(pending'[p]) : pending'[p][i] \in 1..Len(known)'
    <2> SUFFICES ASSUME NEW p \in Queries, NEW i \in 1..Len(pending'[p])
                 PROVE  pending'[p][i] \in 1..Len(known)'
      OBVIOUS
    <2>1. pending \in [Queries -> Seq(Device)] /\ pending[p] \in Seq(Device)
      BY DEF TypeOK, Counts
    <2>2. \A j \in 1..Len(pending[p]) : pending[p][j] \in 1..Len(known)'
      <3>1. \A j \in 1..Len(pending[p]) : pending[p][j] \in 1..Len(known)
        BY <1>2 DEF Registry
      <3> QED
        BY <1>3, <1>7, <3>1
    <2>3. CASE p = q
      <3>1. pending'[p] = Append(pending[p], d)
        BY <1>6, <2>1, <2>3
      <3>2. d \in Device
        BY <1>7 DEF Device
      <3>3. Len(pending'[p]) = Len(pending[p]) + 1 /\ pending'[p][Len(pending[p]) + 1] = d
            /\ \A j \in 1..Len(pending[p]) : pending'[p][j] = pending[p][j]
        BY <2>1, <3>1, <3>2, AppendFacts
      <3>4. i \in 1..Len(pending[p]) \/ i = Len(pending[p]) + 1
        BY <2>1, <3>3
      <3> QED
        BY <1>7, <2>2, <3>3, <3>4
    <2>4. CASE p # q
      BY <1>6, <2>1, <2>2, <2>4
    <2> QED
      BY <2>3, <2>4
  <1>16. Len(devices) <= Len(known)' /\ dirtyDevices' \subseteq 1..Len(known)'
    BY <1>2, <1>3, <1>7, <1>8 DEF Registry
  <1> QED
    BY <1>5, <1>9, <1>10, <1>11, <1>12, <1>13, <1>14, <1>15, <1>16
    DEF Identity, Stored, Registry, Unique

LEMMA CommitKeepsIdentity ==
    ASSUME TypeOK, Identity, Flush, FlushCommits
    PROVE  Identity'
  <1>1. Registry /\ alive
    BY DEF Identity, Flush, alive
  <1>2. devices' = known /\ UNCHANGED <<known, bound>>
    BY <1>1, UpsertedIsKnown DEF Flush, FlushCommits
  <1>3. dirtyDevices' = {} /\ dirtyAddresses' = {} /\ pending' = Nothing
    BY DEF FlushCommits
  <1>4. \A a \in Addresses : addresses'[a] \in {0, bound[a]}
    <2>1. \A a \in Addresses : Rebound[a] \in {0, bound[a]}
      BY <1>1 DEF Rebound, Registry
    <2> QED
      BY <2>1 DEF FlushCommits
  <1>5. Len(known) \in Nat /\ \A a \in Addresses : bound[a] \in 0..Len(known)
    BY <1>1 DEF TypeOK, Registry
  <1>6. \A q \in Queries : 1..Len(Nothing[q]) = {}
    BY NothingIsEmpty
  <1>7. Unique(known)
    BY <1>1 DEF Registry
  <1>8. Stored'
    BY <1>2, <1>4, <1>5, <1>7 DEF Stored, Unique
  <1>9. Registry'
    BY <1>2, <1>3, <1>4, <1>5, <1>6, <1>7 DEF Registry, Unique
  <1> QED
    BY <1>8, <1>9 DEF Identity

-----------------------------------------------------------------------------
(* The invariant.                                                          *)

LEMMA TypeIsKept == IInv /\ Next => TypeOK'
  <1> SUFFICES ASSUME IInv, Next PROVE TypeOK'
    OBVIOUS
  <1> USE DEF IInv, Identity
  <1>1. Flush => watermark # None
    BY DEF Flush, Counting, Marks
  <1> QED
    BY <1>1, EnvironmentKeepsType, PollKeepsType, ObserveKeepsType, AddKeepsType,
       FlushKeepsType, OthersKeepType DEF Next

LEMMA CountingIsKept == IInv /\ Next => Counting'
  <1> SUFFICES ASSUME IInv, Next PROVE Counting'
    OBVIOUS
  <1> USE DEF IInv
  <1>1. CASE \E a \in Addresses : Ask(a)
    BY <1>1, AskKeepsCounting
  <1>2. CASE Tick \/ \E a \in Addresses : Move(a)
    <2>1. now' \in Nat /\ now <= now'
      BY <1>2, MarkTypes DEF Tick, Move
    <2> QED
      BY <1>2, <2>1, ClockKeepsCounting DEF Tick, Move, database, process, page
  <1>3. CASE Start
    BY <1>3, StartKeepsCounting
  <1>4. CASE PollFirst
    BY <1>4, PollFirstKeepsCounting
  <1>5. CASE PollRead
    BY <1>5, PollReadKeepsCounting
  <1>6. CASE PollEarly \/ PollError
    BY <1>6, QuietKeepsCounting DEF PollEarly, PollError, environment, database
  <1>7. CASE ClientsDone \/ \E c \in clients : ObserveClient(c)
    BY <1>7, ClientsKeepCounting
  <1>8. CASE \E q \in entries : AddEntry(q)
    BY <1>8, AddKeepsCounting DEF Identity
  <1>9. CASE EntriesDone
    BY <1>9, EntriesDoneKeepsCounting
  <1>10. CASE Flush /\ FlushCommits
    BY <1>10, CommitKeepsCounting
  <1>11. CASE Flush /\ FlushFails
    BY <1>11, QuietKeepsCounting DEF Flush, FlushFails, environment, database
  <1>12. CASE NotDue \/ Stop \/ Crash
    BY <1>12, QuietKeepsCounting DEF NotDue, Stop, Crash, environment, database
  <1> QED
    BY <1>1, <1>2, <1>3, <1>4, <1>5, <1>6, <1>7, <1>8, <1>9, <1>10, <1>11, <1>12
    DEF Next, Poll, Flush

LEMMA IdentityIsKept == IInv /\ Next => Identity'
  <1> SUFFICES ASSUME IInv, Next PROVE Identity'
    OBVIOUS
  <1> USE DEF IInv
  <1>1. CASE Tick \/ \E a \in Addresses : Ask(a) \/ Move(a)
    BY <1>1, QuietKeepsIdentity DEF Tick, Ask, Move, process
  <1>2. CASE Start
    BY <1>2, StartKeepsIdentity
  <1>3. CASE Poll \/ ClientsDone \/ EntriesDone
    BY <1>3, QuietKeepsIdentity
    DEF Poll, PollFirst, PollEarly, PollError, PollRead, ClientsDone, EntriesDone
  <1>4. CASE \E c \in clients : ObserveClient(c)
    BY <1>4, ObserveKeepsIdentity
  <1>5. CASE \E q \in entries : AddEntry(q)
    BY <1>5, AddKeepsIdentity
  <1>6. CASE Flush /\ FlushCommits
    BY <1>6, CommitKeepsIdentity
  <1>7. CASE Flush /\ FlushFails
    BY <1>7, QuietKeepsIdentity DEF Flush, FlushFails, registry
  <1>8. CASE NotDue \/ Stop \/ Crash
    BY <1>8, QuietKeepsIdentity DEF NotDue, Stop, Crash
  <1> QED
    BY <1>1, <1>2, <1>3, <1>4, <1>5, <1>6, <1>7, <1>8 DEF Next, Flush

LEMMA StutterKeepsIInv == IInv /\ UNCHANGED vars => IInv'
  <1> SUFFICES ASSUME IInv, UNCHANGED vars PROVE IInv'
    OBVIOUS
  <1> USE DEF vars, environment, database, process, registry, page
  <1>1. TypeOK'
    BY DEF IInv, TypeOK
  <1>2. Counting'
    BY ClockKeepsCounting, MarkTypes DEF IInv
  <1>3. Identity'
    BY QuietKeepsIdentity DEF IInv
  <1> QED
    BY <1>1, <1>2, <1>3 DEF IInv

LEMMA IInvIsInvariant == Spec => []IInv
  <1>1. IInv /\ [Next]_vars => IInv'
    BY TypeIsKept, CountingIsKept, IdentityIsKept, StutterKeepsIInv DEF IInv
  <1> QED
    BY <1>1, InitEstablishesIInv, PTL DEF Spec

-----------------------------------------------------------------------------
\* The tables, the registry and the page being read keep their types.
THEOREM CollectorTypeCorrect == Spec => []TypeOK
  <1>1. IInv => TypeOK
    BY DEF IInv
  <1> QED
    BY <1>1, IInvIsInvariant, PTL

\* At every resolution each query is in the rollups exactly when the stored
\* watermark covers it and its bucket has not expired, and then once (flush).
THEOREM RollupsCountOnce == Spec => []StoredExactlyOnce
  <1>1. IInv => StoredExactlyOnce
    <2> SUFFICES ASSUME IInv PROVE StoredExactlyOnce
      OBVIOUS
    <2>1. log \subseteq Queries
      BY DEF IInv, TypeOK
    <2> QED
      BY <2>1 DEF IInv, Counting, StoredOnce, StoredExactlyOnce
  <1> QED
    BY <1>1, IInvIsInvariant, PTL

\* Between polls RAM holds what lies between the stored watermark and the
\* collector's own, once each (poll and flush, with their retries).
THEOREM PendingCountsOnce == Spec => []PendingExactlyOnce
  <1>1. IInv => PendingExactlyOnce
    <2> SUFFICES ASSUME IInv, pc \in {"wait", "polled"}, NEW q \in log
                 PROVE  Len(pending[q]) =
                           IF Covered(q, watermark) /\ ~Covered(q, saved) THEN 1 ELSE 0
      BY DEF PendingExactlyOnce
    <2>1. q \in Queries /\ alive /\ ~InPoll(q)
      BY DEF IInv, TypeOK, alive, InPoll
    <2> QED
      BY <2>1 DEF IInv, Counting, PendingOnce
  <1> QED
    BY <1>1, IInvIsInvariant, PTL

\* No batch is ever refused by the schema, so no flush fails for ever
\* (devices.mac UNIQUE and the references to devices).
THEOREM FlushesAreAcceptable == Spec => []FlushIsAcceptable
  <1>1. IInv => FlushIsAcceptable
    BY RegistryIsAccepted DEF IInv, Identity, FlushIsAcceptable, alive
  <1> QED
    BY <1>1, IInvIsInvariant, PTL

\* A registry with nothing to flush is the one a restart would load
\* (DeviceRegistry.__init__).
THEOREM CleanRegistryIsStored == Spec => []RestartFindsRegistry
  <1>1. IInv => RestartFindsRegistry
    <2> SUFFICES ASSUME IInv, pc = "wait", dirtyDevices = {}, dirtyAddresses = {}
                 PROVE  known = devices /\ \A a \in Addresses : addresses[a] \in {0, bound[a]}
      BY DEF RestartFindsRegistry
    <2>1. Registry /\ alive
      BY DEF IInv, Identity, alive
    <2>2. known \in Seq(Macs \cup {NoMac}) /\ devices \in Seq(Macs \cup {NoMac})
      BY DEF IInv, TypeOK
    <2>3. \A d \in 1..Len(known) : d <= Len(devices) /\ known[d] = devices[d]
      BY <2>1 DEF Registry
    <2>4. Len(devices) <= Len(known)
      BY <2>1 DEF Registry
    <2>5. Len(known) = Len(devices)
      BY <2>2, <2>3, <2>4
    <2>6. known = devices
      BY <2>2, <2>3, <2>5
    <2> QED
      BY <2>1, <2>6 DEF Registry
  <1> QED
    BY <1>1, IInvIsInvariant, PTL

\* A stored device keeps its number and its MAC (DeviceRegistry._new, flush).
THEOREM StoredDevicesAreStable == Spec => DevicesAreStable
  <1>1. IInv /\ [Next]_vars
          => [/\ Len(devices) <= Len(devices')
              /\ \A d \in 1..Len(devices) :
                    devices[d] # NoMac => devices'[d] = devices[d]]_vars
    <2> SUFFICES ASSUME IInv, Next
                 PROVE  /\ Len(devices) <= Len(devices')
                        /\ \A d \in 1..Len(devices) :
                              devices[d] # NoMac => devices'[d] = devices[d]
      OBVIOUS
    <2>1. Len(devices) \in Nat
      BY DEF IInv, TypeOK
    <2>2. CASE UNCHANGED devices
      BY <2>1, <2>2
    <2>3. CASE Flush /\ FlushCommits
      <3>1. Registry /\ alive
        BY <2>3 DEF IInv, Identity, Flush, alive
      <3>2. devices' = known
        BY <2>3, <3>1, UpsertedIsKnown DEF IInv, FlushCommits
      <3> QED
        BY <3>1, <3>2 DEF Registry
    <2> QED
      BY <2>2, <2>3 DEF Next, Ask, Move, Tick, Start, Poll, PollFirst, PollEarly, PollError,
         PollRead, ClientsDone, ObserveClient, EntriesDone, AddEntry, Flush, FlushFails, NotDue,
         Stop, Crash, database
  <1> QED
    BY <1>1, IInvIsInvariant, PTL DEF Spec, DevicesAreStable
=============================================================================
