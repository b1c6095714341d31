------------------------------ MODULE QueryFeed ------------------------------
(***************************************************************************)
(* How queries reach the collector and what the analyzer makes of them:    *)
(* the provider's query log read page by page (providers/pihole_v6.py,     *)
(* providers/mock.py, Collector._read_window), over a session with the     *)
(* Pi-hole that the collector shares with the threads of the API, the      *)
(* windows of the anomaly analyzer, and the anomalies stored with the      *)
(* watermark (DashboardStore.flush).                                       *)
(*                                                                         *)
(* There is one device.  Devices and rollups are Collector's.  A query is  *)
(* its position in the log; the log is in the order of time and nothing    *)
(* appears in it later than its time.                                      *)
(***************************************************************************)
EXTENDS Anomaly

CONSTANTS
    Questions,         \* domains asked for, with the reply they get
    None,              \* no watermark
    PageSize, Chunk,   \* entries of a page, and of an answer of the Pi-hole
    Ends,              \* which ends of a window a Pi-hole may include
    AnomalyKeep,       \* anomaly_retention
    MaxTime, MaxQueries,
    MaxFailures        \* bound on crashes and failed flushes

ASSUME FeedAssumption ==
    /\ None \notin Int
    /\ Ends \subseteq SUBSET {"since", "until"}
    /\ PageSize \in Nat \ {0} /\ Chunk \in Nat \ {0}
    /\ AnomalyKeep \in Nat /\ MaxTime \in Nat /\ MaxQueries \in Nat /\ MaxFailures \in Nat

VARIABLES
    \* the world: the provider configured, which ends of a window it includes, the
    \* clock, the query log
    provider, included, now, log,
    \* the provider: is there a session?  The collector's call, where it is in
    \* _request, and whether a rejection is retried
    sid, call, stage, retry,
    \* the collector
    pc, watermark, until, offset, entries, window, pending,
    \* home-dns.db: the watermark, the anomalies by their id, the last id given
    saved, stored, rows,
    \* bounds and history
    failures,
    begun,    \* the watermark this process started from
    raised,   \* the anomalies raised, but for those a crash lost
    flushedAt \* the clock of the last flush

world == <<provider, included, now, log>>
requests == <<sid, call, stage, retry>>
page == <<until, offset, entries>>
process == <<pc, watermark, page, window, pending, begun>>
database == <<saved, stored, rows, flushedAt>>
vars == <<world, requests, process, database, failures, raised>>

Init ==
    /\ provider \in {"pihole_v6", "mock"} /\ now = 0 /\ log = <<>>
    /\ included \in IF provider = "mock" THEN {{"since"}} ELSE Ends
    /\ sid = FALSE /\ call = "none" /\ stage = "idle" /\ retry = TRUE
    /\ pc = "down" /\ watermark = None /\ until = 0 /\ offset = 0 /\ entries = <<>>
    /\ window = <<>> /\ pending = <<>>
    /\ saved = None /\ stored = <<>> /\ rows = 0
    /\ failures = 0 /\ begun = None /\ raised = {} /\ flushedAt = 0

-----------------------------------------------------------------------------
(* The network.                                                            *)

Ask ==
    /\ Len(log) < MaxQueries
    /\ \E k \in Questions :
          log' = Append(log, [time |-> now, domain |-> k.domain, reply |-> k.reply])
    /\ UNCHANGED <<provider, included, now, requests, process, database, failures, raised>>

Tick ==
    /\ now < MaxTime
    /\ now' = now + 1
    /\ UNCHANGED <<provider, included, log, requests, process, database, failures, raised>>

\* What the provider's entry keeps of a query: the mock has no kinds of reply.
ToEntry(q) == IF provider = "mock" THEN [q EXCEPT !.reply = None] ELSE q

\* How many queries are older than t, and a piece of the log, newest first.
LoggedBefore(t) == Cardinality({i \in DOMAIN log : log[i].time < t})
NewestFirst(from, to) == [k \in 1..(to - from) |-> to + 1 - k]

\* The queries the Pi-hole answers for a window, newest first.  Its documentation
\* does not say whether from and until are included, and what it answers is taken
\* as it is: query_log drops no entry outside [since, until), although
\* docs/specs/a7-backend.md, line 55, says "the C2 adapter filters client-side".
FirstAfter(since) == LoggedBefore(IF "since" \in included THEN since ELSE since + 1)
LastUpTo(to) == LoggedBefore(IF "until" \in included THEN to + 1 ELSE to)
Matching(since, to) == NewestFirst(FirstAfter(since), LastUpTo(to))

\* Windows are half-open: always the mock's, and the Pi-hole's if it does what the
\* contract of DnsProvider asks.
HalfOpen == included = {"since"}

-----------------------------------------------------------------------------
(* PiholeV6Provider._request: any of its errors may come at any time.      *)

\* The requests of the API's threads drop the session and renew it.  (At any time,
\* but it makes no difference before the collector reads it next.)
OtherThreads ==
    /\ stage \in {"check", "take"}
    /\ sid' = ~sid
    /\ UNCHANGED <<world, call, stage, retry, process, database, failures, raised>>

\* The collector's next call.
Calls(c) ==
    /\ call' = c
    /\ stage' = "check"
    /\ retry' = TRUE

\* It has made its last call.
HangsUp ==
    /\ call' = "none"
    /\ stage' = "idle"
    /\ retry' = TRUE

\* _session_id: is there a session, and does it still last?
CheckSession ==
    /\ stage = "check"
    /\ \E next \in IF sid THEN {"take", "authenticate"} ELSE {"authenticate"} :
          stage' = next
    /\ UNCHANGED <<world, sid, call, retry, process, database, failures, raised>>

\* The session is read again for the header.
TakeSession ==
    /\ stage = "take" /\ sid
    /\ stage' = "send"
    /\ UNCHANGED <<world, sid, call, retry, process, database, failures, raised>>

Authenticate ==
    /\ stage = "authenticate"
    /\ sid' = TRUE
    /\ stage' = "send"
    /\ UNCHANGED <<world, call, retry, process, database, failures, raised>>

\* 401 or 403: once more, with a new session.
Rejected ==
    /\ stage = "send" /\ retry
    /\ sid' = FALSE
    /\ retry' = FALSE
    /\ stage' = "check"
    /\ UNCHANGED <<world, call, process, database, failures, raised>>

-----------------------------------------------------------------------------
(* The calls of a poll.                                                    *)

\* poll returns: what it read is gone.
PageDropped == until' = 0 /\ offset' = 0 /\ entries' = <<>>

\* poll: the window is fixed and the reading starts.
PollStarts ==
    /\ pc = "wait" /\ watermark # None /\ watermark < now
    /\ pc' = "read"
    /\ until' = now /\ offset' = 0 /\ entries' = <<>>
    /\ IF provider = "mock" THEN UNCHANGED <<call, stage, retry>> ELSE Calls("clients")
    /\ UNCHANGED <<world, sid, watermark, window, pending, begun, database, failures, raised>>

\* list_clients, then the blocked queries of the client if it made any.
ClientsRead ==
    /\ call = "clients" /\ stage = "send"
    /\ \E next \in {"blocked", "queries"} : Calls(next)
    /\ UNCHANGED <<world, sid, process, database, failures, raised>>

\* _blocked_count_for: the client's count, or 0 when it cannot be read.
BlockedRead ==
    /\ call = "blocked" /\ stage \in {"authenticate", "send"}
    /\ Calls("queries")
    /\ UNCHANGED <<world, sid, process, database, failures, raised>>

\* The next answer of the window, or none.
ReadsOn == IF pc' = "read" THEN Calls("queries") ELSE HangsUp

\* Mutant: the offset moves by the length asked for.
QueriesReadByLength ==
    /\ call = "queries" /\ stage = "send"
    /\ LET matching == Matching(watermark, until)
           raw == SubSeq(matching, offset + 1, Min({offset + Chunk, Len(matching)}))
       IN /\ entries' = entries \o raw
          /\ offset' = Min({offset + Chunk + 1, MaxQueries})
          /\ pc' = IF offset' < Len(matching) THEN pc ELSE "observe"
          /\ ReadsOn
    /\ UNCHANGED <<world, sid, watermark, until, window, pending, begun, database,
                   failures, raised>>

\* query_log and _read_window: an answer's entries are added until the page is
\* full; the next request, of this page or of the next, is for what comes after
\* them, and the count of the matching queries says when there is nothing left.  A
\* blocked query may have the lists read (_source_for_list_id, once in a process).
QueriesRead ==
    /\ call = "queries" /\ stage = "send"
    /\ LET matching == Matching(watermark, until)
           room == Min({Chunk, PageSize - (offset % PageSize)})
           taken == SubSeq(matching, offset + 1, Min({offset + room, Len(matching)}))
       IN /\ entries' = entries \o taken
          /\ offset' = offset + Len(taken)
          /\ pc' = IF offset' < Len(matching) THEN pc ELSE "observe"
          /\ \/ ReadsOn
             \/ taken # <<>> /\ Calls("lists")
    /\ UNCHANGED <<world, sid, watermark, until, window, pending, begun, database,
                   failures, raised>>

\* The lists, or a warning when they cannot be read.
ListsRead ==
    /\ call = "lists" /\ stage \in {"authenticate", "send"}
    /\ pc' = pc /\ ReadsOn
    /\ UNCHANGED <<world, sid, watermark, page, window, pending, begun, database, failures,
                   raised>>

\* MockDnsProvider.query_log: a page of the queries below the id of the cursor.
MockRead ==
    /\ provider = "mock" /\ pc = "read"
    /\ LET last == LoggedBefore(until)
           below == NewestFirst(LoggedBefore(watermark), IF offset = 0 THEN last ELSE Min({last, offset - 1}))
           taken == SubSeq(below, 1, Min({PageSize, Len(below)}))
       IN /\ entries' = entries \o taken
          /\ IF Len(below) > PageSize
             THEN pc' = pc /\ offset' = taken[PageSize]
             ELSE pc' = "observe" /\ UNCHANGED offset
    /\ UNCHANGED <<world, requests, watermark, until, window, pending, begun, database,
                   failures, raised>>

\* A call of the poll fails, or is rejected once more: the window stays for the
\* next poll.  (A lost session while the lists are read is an error of the entry.)
PollError ==
    /\ \/ call \in {"clients", "queries"} /\ stage \in {"authenticate", "send"}
       \/ call = "lists" /\ stage = "take" /\ ~sid
    /\ pc' = "polled"
    /\ HangsUp /\ PageDropped
    /\ UNCHANGED <<world, sid, watermark, window, pending, begun, database, failures, raised>>

\* Another thread has dropped the session since it was checked: the header is
\* None, httpx raises a TypeError, which is no ProviderError, and the cycle ends
\* without its flush.
PollRaises ==
    /\ call \notin {"none", "lists"} /\ stage = "take" /\ ~sid
    /\ pc' = "wait"
    /\ HangsUp /\ PageDropped
    /\ UNCHANGED <<world, sid, watermark, window, pending, begun, database, failures, raised>>

Request == CheckSession \/ TakeSession \/ Authenticate \/ Rejected
Read ==
    \/ Request
    \/ ClientsRead \/ BlockedRead \/ QueriesRead \/ ListsRead \/ MockRead
    \/ PollError \/ PollRaises

-----------------------------------------------------------------------------
(* The collector.                                                          *)

\* Collector.__init__, after a crash too; the window starts empty.
Start ==
    /\ pc = "down"
    /\ pc' = "wait"
    /\ watermark' = saved /\ begun' = saved
    /\ UNCHANGED <<world, requests, page, window, pending, database, failures, raised>>

\* poll: no backfill, or the present second is not over.
PollNothing ==
    /\ pc = "wait"
    /\ \/ /\ watermark = None
          /\ watermark' = now /\ begun' = now
       \/ /\ watermark # None /\ now <= watermark
          /\ UNCHANGED <<watermark, begun>>
    /\ pc' = "polled"
    /\ UNCHANGED <<world, requests, page, window, pending, database, failures, raised>>

\* What is raised of the signals of a window that ends at upto.
AnomalyOf(signals, upto) ==
    [at |-> now, signals |-> signals, severity |-> SeverityForScore(Score(signals)),
     upto |-> upto]

\* The analyzer's observe, and the new watermark.  A device is evaluated only
\* when it made a query in the window read.
Observe ==
    /\ pc = "observe" /\ call = "none"
    /\ window' = Windowed(window, [k \in DOMAIN entries |-> ToEntry(log[entries[k]])], now)
    /\ LET signals == Signals(window', now)
           anomaly == AnomalyOf(signals, until)
       IN IF entries = <<>> \/ signals = {}
          THEN UNCHANGED <<pending, raised>>
          ELSE pending' = Append(pending, anomaly) /\ raised' = raised \cup {anomaly}
    /\ watermark' = until
    /\ pc' = "polled"
    /\ PageDropped
    /\ UNCHANGED <<world, requests, begun, database, failures>>

Expired(a, at) == a.at < at - AnomalyKeep

\* The table after each anomaly was inserted, and after the retention.
Inserted ==
    [id \in DOMAIN stored \cup {rows + k : k \in DOMAIN pending} |->
        IF id \in DOMAIN stored THEN stored[id] ELSE pending[id - rows]]
Retained(table, at) == Restrict(table, {id \in DOMAIN table : ~Expired(table[id], at)})

\* Mutant: the anomalies are stored and kept for the next flush as well.
FlushKeepsPending ==
    /\ pc = "polled"
    /\ saved' = watermark /\ flushedAt' = now
    /\ stored' = Retained(Inserted, now) /\ rows' = rows + Len(pending)
    /\ pc' = "wait"
    /\ UNCHANGED <<world, requests, watermark, page, window, pending, begun, failures, raised>>

\* flush: the anomalies and the watermark in one transaction, then retention.
Flush ==
    /\ pc = "polled"
    /\ saved' = watermark /\ flushedAt' = now
    /\ stored' = Retained(Inserted, now) /\ rows' = rows + Len(pending)
    /\ pending' = <<>>
    /\ pc' = "wait"
    /\ UNCHANGED <<world, requests, watermark, page, window, begun, failures, raised>>

FlushFails ==
    /\ pc = "polled"
    /\ failures < MaxFailures /\ failures' = failures + 1
    /\ pc' = "wait"
    /\ UNCHANGED <<world, requests, watermark, page, window, pending, begun, database, raised>>

\* flush_interval has not passed.
NotDue ==
    /\ pc = "polled"
    /\ pc' = "wait"
    /\ UNCHANGED <<world, requests, watermark, page, window, pending, begun, database, failures,
                   raised>>

\* The process dies, the threads of the API with it.
Crash ==
    /\ pc # "down"
    /\ failures < MaxFailures /\ failures' = failures + 1
    /\ pc' = "down"
    /\ sid' = FALSE /\ HangsUp
    /\ watermark' = None /\ begun' = None
    /\ PageDropped
    /\ window' = <<>> /\ pending' = <<>>
    /\ raised' = raised \ Range(pending)
    /\ UNCHANGED <<world, database>>

Next ==
    \/ Ask \/ Tick
    \/ OtherThreads
    \/ Start \/ PollNothing \/ PollStarts \/ Read \/ Observe
    \/ Flush \/ FlushFails \/ NotDue
    \/ Crash

Spec == Init /\ [][Next]_vars

-----------------------------------------------------------------------------
(***************************************************************************)
(* Properties.                                                             *)
(***************************************************************************)

\* A window that has been read holds exactly the queries that the log has in
\* [watermark, until), newest first and each once, whatever was asked again, failed
\* before or was logged meanwhile, provided that the provider's windows are half-open
\* (DnsProvider.query_log: "queries in [since, until), newest first";
\* Collector._read_window).  If the Pi-hole includes other ends, the window lacks
\* nothing and has nothing too much but queries of the very times of its ends.
WindowReadOnce ==
    pc = "observe" =>
        /\ {i \in DOMAIN log : watermark < log[i].time /\ log[i].time < until} \subseteq Range(entries)
        /\ Range(entries) \subseteq {i \in DOMAIN log : log[i].time \in watermark..until}
        /\ HalfOpen =>
              /\ Range(entries) = {i \in DOMAIN log : watermark <= log[i].time /\ log[i].time < until}
              /\ \A j, k \in DOMAIN entries : j < k => entries[j] > entries[k]

\* What the analyzer raises against what the log shows.  The log up to the window's
\* end, from where this process started reading, is what it can know; what it
\* reports of bursts, failures and letters is there.  While all of it fits the
\* limit, bursts, failures and spikes are reported whenever the log shows them; and
\* when nothing of it is too old, it reports what the signals say of the log itself.
\* (The mock provider tells no reply, hence no signal of replies.)  It is so where
\* windows are half-open: otherwise a query of the time of a watermark is counted by
\* both of its windows, or by neither.
AnomaliesMatchTheLog ==
    [][pc = "observe" /\ watermark' = until /\ HalfOpen =>
          LET known == SelectSeq(log, LAMBDA q : begun <= q.time /\ q.time < until)
              replies == {"nxdomain_burst", "repeated_failures"}
              shown == Signals(known, now) \ (IF provider = "mock" THEN replies ELSE {})
              said == UNION {a.signals : a \in {a \in Range(pending') : a.upto = until}}
              counted == {"nxdomain_burst", "repeated_failures", "query_rate_spike"}
              fits == Len(known) <= MaxEntries
          IN IF entries = <<>> THEN said = {}
             ELSE /\ said \cap (replies \cup {"high_entropy_domain"}) \subseteq shown
                  /\ fits => said \cap counted = shown \cap counted
                  /\ fits /\ (\A i \in DOMAIN known : known[i].time >= now - WindowLength)
                        => said = shown]_vars

\* An anomaly is stored if and only if the watermark that is stored is past its
\* window: none is stored twice, none is stored of a window that will be read
\* again, and only a crash or the retention loses one (flush: "everything in one
\* transaction, watermark included").
AnomaliesGoWithTheWatermark ==
    LET done == {a \in raised : saved # None /\ a.upto <= saved}
    IN /\ \A i, j \in DOMAIN Inserted : i < j => Inserted[i].upto < Inserted[j].upto
       /\ Range(stored) = {a \in done : ~Expired(a, flushedAt)}
       /\ Range(pending) = raised \ done
=============================================================================
