--------------------------- MODULE QueryFeed_proofs ---------------------------
(***************************************************************************)
(* Proofs of what QueryFeed says of the windows read and of the anomalies  *)
(* stored, for every log, page size and inclusion of a window's ends, and  *)
(* every schedule of failures.                                             *)
(*                                                                         *)
(* Because the log is in the order of time, the queries older than a time  *)
(* are its first ones, and a window is a piece of it.  The invariant of    *)
(* the reading says which piece has been read: the newest queries of the   *)
(* window, down to where the next request goes on, whatever the other      *)
(* requests did to the session.  This is exact where windows are half-open *)
(* (Reading).  Where the Pi-hole includes the end of a window, a query of  *)
(* that time moves the pages while they are read, and an entry may be read *)
(* again; but nothing inside is missed (Covering).                         *)
(* The invariant of the anomalies says that nothing has been raised beyond *)
(* the watermark, so that storing both together neither repeats nor        *)
(* forgets one.                                                            *)
(***************************************************************************)
EXTENDS QueryFeed, FiniteSetTheorems, WellFoundedInduction, SequenceTheorems, TLAPS

-----------------------------------------------------------------------------
(* Pieces of the log.                                                      *)

LEMMA MinOfTwo == \A a, b \in Int : Min({a, b}) = IF a <= b THEN a ELSE b
  BY DEF Min

\* A set of positions that holds all before each of its own.
LEMMA Downset ==
    ASSUME NEW n \in Nat, NEW S \in SUBSET (1..n), \A i \in S : \A j \in 1..i : j \in S
    PROVE  /\ Cardinality(S) \in 0..n
           /\ S = 1..Cardinality(S)
  <1> DEFINE T == {k \in Nat : k + 1 \notin S}
  <1>1. n \in T
    OBVIOUS
  <1>2. PICK m \in T : \A k \in T : ~(k < m)
    <2>1. \E m \in T : \A k \in T : ~(<<k, m>> \in OpToRel(<, Nat))
      BY <1>1, NatLessThanWellFounded, WFMin
    <2> QED
      BY <2>1 DEF OpToRel
  <1>3. \A j \in 1..m : j \in S
    <2> SUFFICES ASSUME NEW j \in 1..m PROVE j \in S
      OBVIOUS
    <2>1. j - 1 \in Nat /\ j - 1 < m
      BY <1>2
    <2> QED
      BY <1>2, <2>1
  <1>4. \A j \in S : j \in 1..m
    <2> SUFFICES ASSUME NEW j \in S, j > m PROVE FALSE
      BY <1>2
    <2>1. m + 1 \in 1..j
      BY <1>2
    <2> QED
      BY <1>2, <2>1
  <1>5. m \in Nat /\ ~(n < m)
    BY <1>1, <1>2
  <1>6. S = 1..m
    BY <1>3, <1>4
  <1>7. Cardinality(1..m) = m
    BY <1>5, FS_Interval
  <1> HIDE DEF T
  <1> QED
    BY <1>5, <1>6, <1>7

LEMMA NewestFirstFacts ==
    ASSUME NEW lo \in Nat, NEW hi \in Nat, lo <= hi
    PROVE  /\ NewestFirst(lo, hi) \in Seq(Nat) /\ Len(NewestFirst(lo, hi)) = hi - lo
           /\ \A k \in 1..(hi - lo) : NewestFirst(lo, hi)[k] = hi + 1 - k
  BY DEF NewestFirst

LEMMA PiecesJoin ==
    ASSUME NEW lo \in Nat, NEW mid \in Nat, NEW hi \in Nat, lo <= mid, mid <= hi
    PROVE  NewestFirst(mid, hi) \o NewestFirst(lo, mid) = NewestFirst(lo, hi)
  <1> DEFINE new == NewestFirst(mid, hi)
             old == NewestFirst(lo, mid)
             all == NewestFirst(lo, hi)
  <1>1. /\ new \in Seq(Nat) /\ Len(new) = hi - mid
        /\ \A k \in 1..(hi - mid) : new[k] = hi + 1 - k
    BY NewestFirstFacts
  <1>2. /\ old \in Seq(Nat) /\ Len(old) = mid - lo
        /\ \A k \in 1..(mid - lo) : old[k] = mid + 1 - k
    BY NewestFirstFacts
  <1>3. /\ all \in Seq(Nat) /\ Len(all) = hi - lo
        /\ \A k \in 1..(hi - lo) : all[k] = hi + 1 - k
    BY NewestFirstFacts
  <1> HIDE DEF new, old, all
  <1>4. /\ new \o old \in Seq(Nat)
        /\ Len(new \o old) = Len(new) + Len(old)
        /\ \A i \in 1..Len(new) + Len(old) :
              (new \o old)[i] = IF i <= Len(new) THEN new[i] ELSE old[i - Len(new)]
    BY <1>1, <1>2, ConcatProperties
  <1>5. ASSUME NEW k \in 1..(hi - lo) PROVE (new \o old)[k] = all[k]
    <2>1. k \in 1..Len(new) + Len(old) /\ all[k] = hi + 1 - k
      BY <1>1, <1>2, <1>3
    <2>2. CASE k <= Len(new)
      <3>1. (new \o old)[k] = new[k] /\ k \in 1..(hi - mid)
        BY <1>1, <1>4, <2>1, <2>2
      <3> QED
        BY <1>1, <2>1, <3>1
    <2>3. CASE ~(k <= Len(new))
      <3> DEFINE j == k - Len(new)
      <3>1. (new \o old)[k] = old[j]
        BY <1>4, <2>1, <2>3
      <3>2. j \in 1..(mid - lo) /\ k = hi - mid + j
        BY <1>1, <2>1, <2>3
      <3>3. old[j] = mid + 1 - j
        BY <1>2, <3>2
      <3> QED
        BY <2>1, <3>1, <3>2, <3>3
    <2> QED
      BY <2>2, <2>3
  <1>6. new \o old = all
    <2>1. Len(new \o old) = hi - lo /\ Len(all) = hi - lo
      BY <1>1, <1>2, <1>3, <1>4
    <2> QED
      BY <1>3, <1>4, <1>5, <2>1, SeqEqual
  <1> QED
    BY <1>6 DEF new, old, all

LEMMA PieceOfPiece ==
    ASSUME NEW lo, NEW hi, NEW m, NEW n,
           lo \in Nat /\ hi \in Nat /\ lo <= hi,
           m \in Nat /\ n \in Nat /\ 0 < m /\ m <= n + 1 /\ n <= hi - lo
    PROVE  SubSeq(NewestFirst(lo, hi), m, n) = NewestFirst(hi - n, hi + 1 - m)
  <1> DEFINE all == NewestFirst(lo, hi)
             part == NewestFirst(hi - n, hi + 1 - m)
  <1>1. /\ all \in Seq(Nat) /\ Len(all) = hi - lo
        /\ \A k \in 1..(hi - lo) : all[k] = hi + 1 - k
    BY NewestFirstFacts
  <1>2. hi - n \in Nat /\ hi + 1 - m \in Nat /\ hi - n <= hi + 1 - m
    OBVIOUS
  <1>3. /\ part \in Seq(Nat) /\ Len(part) = (hi + 1 - m) - (hi - n)
        /\ \A k \in 1..((hi + 1 - m) - (hi - n)) : part[k] = (hi + 1 - m) + 1 - k
    BY <1>2, NewestFirstFacts
  <1> HIDE DEF all, part
  <1>4. /\ SubSeq(all, m, n) \in Seq(Nat) /\ Len(SubSeq(all, m, n)) = n + 1 - m
        /\ \A k \in 1..(n + 1 - m) : SubSeq(all, m, n)[k] = all[m + k - 1]
    BY <1>1, SubSeqProperties
  <1>5. \A k \in 1..(n + 1 - m) : SubSeq(all, m, n)[k] = part[k]
    BY <1>1, <1>3, <1>4
  <1>6. SubSeq(all, m, n) = part
    BY <1>3, <1>4, <1>5, SeqEqual
  <1> QED
    BY <1>6 DEF all, part

LEMMA EmptyPiece == \A n \in Nat : NewestFirst(n, n) = <<>>
  BY NewestFirstFacts

LEMMA NewestFirstRange ==
    ASSUME NEW lo \in Nat, NEW hi \in Nat, lo <= hi
    PROVE  Range(NewestFirst(lo, hi)) = lo + 1..hi
  <1>1. PICK f : f = NewestFirst(lo, hi)
    OBVIOUS
  <1>2. DOMAIN f = 1..(hi - lo) /\ \A k \in 1..(hi - lo) : f[k] = hi + 1 - k
    BY <1>1 DEF NewestFirst
  <1>3. \A k \in 1..(hi - lo) : f[k] \in lo + 1..hi
    BY <1>2
  <1>4. \A i \in lo + 1..hi : hi + 1 - i \in 1..(hi - lo) /\ f[hi + 1 - i] = i
    BY <1>2
  <1> QED
    BY <1>1, <1>2, <1>3, <1>4 DEF Range

LEMMA RangeOfBoth ==
    ASSUME NEW s \in Seq(Nat), NEW t \in Seq(Nat)
    PROVE  s \o t \in Seq(Nat) /\ Range(s \o t) = Range(s) \cup Range(t)
  <1>1. /\ s \o t \in Seq(Nat) /\ Len(s) \in Nat /\ Len(t) \in Nat
        /\ DOMAIN s = 1..Len(s) /\ DOMAIN t = 1..Len(t) /\ DOMAIN (s \o t) = 1..(Len(s) + Len(t))
        /\ \A i \in 1..(Len(s) + Len(t)) : (s \o t)[i] = IF i <= Len(s) THEN s[i] ELSE t[i - Len(s)]
    BY ConcatProperties
  <1>2. \A i \in 1..Len(s) : i \in 1..(Len(s) + Len(t)) /\ (s \o t)[i] = s[i]
    BY <1>1
  <1>3. \A j \in 1..Len(t) : Len(s) + j \in 1..(Len(s) + Len(t)) /\ (s \o t)[Len(s) + j] = t[j]
    BY <1>1
  <1>4. ASSUME NEW i \in 1..(Len(s) + Len(t))
        PROVE  \/ i \in 1..Len(s) /\ (s \o t)[i] = s[i]
               \/ i - Len(s) \in 1..Len(t) /\ (s \o t)[i] = t[i - Len(s)]
    BY <1>1
  <1>5. Range(s \o t) \subseteq Range(s) \cup Range(t)
    BY <1>1, <1>4 DEF Range
  <1>6. Range(s) \subseteq Range(s \o t) /\ Range(t) \subseteq Range(s \o t)
    <2>1. \A x \in Range(s) : x \in Range(s \o t)
      BY <1>1, <1>2 DEF Range
    <2>2. \A x \in Range(t) : x \in Range(s \o t)
      BY <1>1, <1>3 DEF Range
    <2> QED
      BY <2>1, <2>2
  <1> QED
    BY <1>1, <1>5, <1>6

-----------------------------------------------------------------------------
(* The invariant.                                                          *)

LoggedQuery ==
    [time : Nat, domain : {k.domain : k \in Questions}, reply : {k.reply : k \in Questions}]

\* The log is in the order of time, and nothing in it is yet to come.
LogInOrder ==
    /\ now \in Nat
    /\ log \in Seq(LoggedQuery)
    /\ \A i \in 1..Len(log) : log[i].time <= now
    /\ \A j \in 1..Len(log) : \A i \in 1..j : log[i].time <= log[j].time

\* What is stored is not ahead of what was read, and that not of the clock.
Marks ==
    /\ saved \in Nat \cup {None} /\ watermark \in Nat \cup {None} /\ until \in Nat
    /\ flushedAt \in Nat /\ flushedAt <= now
    /\ saved # None => saved <= now
    /\ watermark # None => watermark <= now
    /\ pc # "down" /\ saved # None => watermark # None /\ saved <= watermark
    /\ pc \in {"read", "observe"} => watermark # None /\ watermark < until /\ until <= now

\* Only a poll calls the Pi-hole.
CallsOfThePoll ==
    /\ provider \in {"pihole_v6", "mock"}
    /\ provider = "mock" => HalfOpen
    /\ call # "none" =>
          /\ provider = "pihole_v6"
          /\ pc = "read" \/ (pc = "observe" /\ call = "lists")

\* How far a half-open window has been read: the newest queries of it, down to
\* where the next request goes on.
Reading ==
    LET lo == LoggedBefore(watermark)
        hi == LoggedBefore(until)
    IN HalfOpen =>
       /\ pc = "read" =>
             /\ offset \in Nat
             /\ provider = "pihole_v6" =>
                   offset <= hi - lo /\ entries = NewestFirst(hi - offset, hi)
             /\ provider = "mock" =>
                   \/ offset = 0 /\ entries = <<>>
                   \/ offset \in lo + 1..hi /\ entries = NewestFirst(offset - 1, hi)
       /\ pc = "observe" => entries = NewestFirst(lo, hi)

\* Whatever ends the Pi-hole includes: nothing but what it answers has been read, and
\* all that is before the end of the window and before the next request's.
Covering ==
    LET lo == FirstAfter(watermark)
        hi == LastUpTo(until)
        inside == LoggedBefore(until)
    IN provider = "pihole_v6" /\ pc \in {"read", "observe"} =>
       /\ entries \in Seq(Nat) /\ Range(entries) \subseteq lo + 1..hi
       /\ pc = "read" =>
             /\ offset \in Nat /\ offset <= hi - lo
             /\ (hi - offset) + 1..inside \subseteq Range(entries)
       /\ pc = "observe" => lo + 1..inside \subseteq Range(entries)

WindowInv == LogInOrder /\ Marks /\ CallsOfThePoll /\ Reading /\ Covering

-----------------------------------------------------------------------------
(* How many queries are older than a time.                                 *)

LEMMA TimesAreTimes == LogInOrder => \A i \in 1..Len(log) : log[i].time \in Nat
  <1> SUFFICES ASSUME LogInOrder, NEW i \in 1..Len(log) PROVE log[i].time \in Nat
    OBVIOUS
  <1>1. log[i] \in LoggedQuery
    BY ElementOfSeq DEF LogInOrder
  <1> QED
    BY <1>1 DEF LoggedQuery

LEMMA Older ==
    ASSUME LogInOrder, NEW t \in Nat
    PROVE  /\ LoggedBefore(t) \in 0..Len(log)
           /\ \A i \in 1..Len(log) : log[i].time < t <=> i <= LoggedBefore(t)
  <1> DEFINE S == {i \in DOMAIN log : log[i].time < t}
  <1>1. DOMAIN log = 1..Len(log) /\ Len(log) \in Nat
    BY DEF LogInOrder
  <1>2. \A i \in 1..Len(log) : log[i].time \in Nat
    BY TimesAreTimes
  <1>3. S \in SUBSET (1..Len(log))
    BY <1>1
  <1>4. ASSUME NEW i \in S, NEW j \in 1..i PROVE j \in S
    <2>1. i \in 1..Len(log) /\ j \in 1..Len(log) /\ log[i].time < t
      BY <1>1
    <2>2. log[j].time <= log[i].time
      BY <2>1 DEF LogInOrder
    <2> QED
      BY <1>1, <1>2, <2>1, <2>2
  <1> HIDE DEF S
  <1>5. Cardinality(S) \in 0..Len(log) /\ S = 1..Cardinality(S)
    BY <1>1, <1>3, <1>4, Downset
  <1>6. LoggedBefore(t) = Cardinality(S)
    BY DEF LoggedBefore, S
  <1>7. \A i \in 1..Len(log) : log[i].time < t <=> i \in S
    BY <1>1 DEF S
  <1> QED
    BY <1>1, <1>5, <1>6, <1>7

LEMMA OlderGrows ==
    ASSUME LogInOrder, NEW s \in Nat, NEW t \in Nat, s <= t
    PROVE  LoggedBefore(s) <= LoggedBefore(t)
  <1> DEFINE m == LoggedBefore(s)
             n == LoggedBefore(t)
  <1>1. /\ m \in 0..Len(log) /\ n \in 0..Len(log) /\ Len(log) \in Nat
        /\ \A i \in 1..Len(log) : log[i].time < s <=> i <= m
        /\ \A i \in 1..Len(log) : log[i].time < t <=> i <= n
    <2>1. Len(log) \in Nat
      BY DEF LogInOrder
    <2>2. m \in 0..Len(log) /\ \A i \in 1..Len(log) : log[i].time < s <=> i <= m
      BY Older
    <2>3. n \in 0..Len(log) /\ \A i \in 1..Len(log) : log[i].time < t <=> i <= n
      BY Older
    <2> QED
      BY <2>1, <2>2, <2>3
  <1> SUFFICES m <= n
    OBVIOUS
  <1> HIDE DEF m, n
  <1>2. CASE m = 0
    BY <1>1, <1>2
  <1>3. CASE m # 0
    <2>1. m \in 1..Len(log)
      BY <1>1, <1>3
    <2>2. log[m].time < s
      BY <1>1, <2>1
    <2>3. log[m].time \in Nat
      BY <2>1, TimesAreTimes
    <2>4. log[m].time < t
      BY <2>2, <2>3
    <2> QED
      BY <1>1, <2>1, <2>4
  <1> QED
    BY <1>2, <1>3

\* A query that is asked now is not older than any time that has been.
LEMMA AskChangesNoWindow ==
    ASSUME LogInOrder, Ask, NEW t \in Nat, t <= now
    PROVE  LoggedBefore(t)' = LoggedBefore(t)
  <1>1. PICK k \in Questions : log' = Append(log, [time |-> now, domain |-> k.domain, reply |-> k.reply])
    BY DEF Ask
  <1>2. [time |-> now, domain |-> k.domain, reply |-> k.reply] \in LoggedQuery
    BY DEF LoggedQuery, LogInOrder
  <1>3. /\ DOMAIN log = 1..Len(log) /\ Len(log) \in Nat
        /\ DOMAIN log' = 1..(Len(log) + 1)
        /\ \A i \in 1..Len(log) : log'[i] = log[i]
        /\ log'[Len(log) + 1].time = now
    BY <1>1, <1>2 DEF LogInOrder
  <1>4. {i \in DOMAIN log : log[i].time < t}' = {i \in DOMAIN log : log[i].time < t}
    BY <1>3 DEF LogInOrder
  <1> QED
    BY <1>4 DEF LoggedBefore

-----------------------------------------------------------------------------
(* Every step keeps the log in order and the marks behind one another.     *)

LEMMA LogStaysInOrder == LogInOrder /\ [Next]_vars => LogInOrder'
  <1> SUFFICES ASSUME LogInOrder, [Next]_vars PROVE LogInOrder'
    OBVIOUS
  <1> USE DEF LogInOrder
  <1>1. CASE UNCHANGED <<now, log>>
    BY <1>1
  <1>2. CASE Tick
    <2>1. now' = now + 1 /\ log' = log
      BY <1>2 DEF Tick
    <2>2. \A i \in 1..Len(log) : log[i].time <= now + 1
      BY TimesAreTimes
    <2> QED
      BY <2>1, <2>2
  <1>3. CASE Ask
    <2>1. PICK k \in Questions : log' = Append(log, [time |-> now, domain |-> k.domain, reply |-> k.reply])
      BY <1>3 DEF Ask
    <2>2. [time |-> now, domain |-> k.domain, reply |-> k.reply] \in LoggedQuery
      BY DEF LoggedQuery
    <2>3. /\ log' \in Seq(LoggedQuery) /\ Len(log') = Len(log) + 1 /\ Len(log) \in Nat
          /\ \A i \in 1..Len(log) : log'[i] = log[i]
          /\ log'[Len(log) + 1].time = now
      BY <2>1, <2>2
    <2>4. now' = now
      BY <1>3 DEF Ask
    <2>5. \A i \in 1..Len(log') : log'[i].time <= now
      BY <2>3
    <2>6. \A j \in 1..Len(log') : \A i \in 1..j : log'[i].time <= log'[j].time
      <3> SUFFICES ASSUME NEW j \in 1..Len(log'), NEW i \in 1..j PROVE log'[i].time <= log'[j].time
        OBVIOUS
      <3>1. CASE j \in 1..Len(log)
        BY <2>3, <3>1
      <3>2. CASE j = Len(log) + 1
        BY <2>3, <2>5, <3>2
      <3> QED
        BY <2>3, <3>1, <3>2
    <2> QED
      BY <2>3, <2>4, <2>5, <2>6
  <1>4. CASE Next /\ ~Tick /\ ~Ask
    BY <1>1, <1>4 DEF Next, OtherThreads, Start, PollNothing, PollStarts, Read, Request, CheckSession,
        TakeSession, Authenticate, Rejected, ClientsRead, BlockedRead, QueriesRead, ListsRead, MockRead, PollError,
        PollRaises, Observe, Flush, FlushFails, NotDue, Crash, world
  <1> QED
    BY <1>1, <1>2, <1>3, <1>4 DEF vars, world

LEMMA MarksStay ==
    ASSUME FeedAssumption
    PROVE  LogInOrder /\ Marks /\ CallsOfThePoll /\ [Next]_vars => Marks'
  <1> SUFFICES ASSUME LogInOrder, Marks, CallsOfThePoll, [Next]_vars PROVE Marks'
    OBVIOUS
  <1>0. now \in Nat /\ None \notin Int
    BY DEF LogInOrder, FeedAssumption
  <1> USE DEF Marks, world, process, page, database
  <1>1. CASE UNCHANGED vars
    BY <1>1 DEF vars
  <1>2. CASE Ask
    BY <1>2 DEF Ask
  <1>3. CASE Tick
    BY <1>0, <1>3 DEF Tick
  <1>4. CASE OtherThreads
    BY <1>4 DEF OtherThreads
  <1>5. CASE Start
    BY <1>0, <1>5 DEF Start
  <1>6. CASE PollNothing
    BY <1>0, <1>6 DEF PollNothing
  <1>7. CASE PollStarts
    BY <1>0, <1>7 DEF PollStarts
  <1>8. CASE Read
    <2>1. CASE Request
      BY <2>1 DEF Request, CheckSession, TakeSession, Authenticate, Rejected
    <2>2. CASE ClientsRead \/ BlockedRead \/ ListsRead
      BY <2>2 DEF ClientsRead, BlockedRead, ListsRead
    <2>3. CASE QueriesRead \/ MockRead
      <3>1. pc = "read" /\ pc' \in {"read", "observe"}
        BY <2>3 DEF QueriesRead, MockRead, CallsOfThePoll
      <3>2. UNCHANGED <<world, watermark, until, database>>
        BY <2>3 DEF QueriesRead, MockRead
      <3> QED
        BY <3>1, <3>2
    <2>4. CASE PollError \/ PollRaises
      BY <2>4 DEF PollError, PollRaises, CallsOfThePoll, PageDropped
    <2> QED
      BY <1>8, <2>1, <2>2, <2>3, <2>4 DEF Read
  <1>9. CASE Observe
    BY <1>0, <1>9 DEF Observe, PageDropped
  <1>10. CASE Flush
    BY <1>0, <1>10 DEF Flush
  <1>11. CASE FlushFails \/ NotDue
    BY <1>11 DEF FlushFails, NotDue
  <1>12. CASE Crash
    BY <1>12 DEF Crash, PageDropped
  <1> QED
    BY <1>1, <1>2, <1>3, <1>4, <1>5, <1>6, <1>7, <1>8, <1>9, <1>10, <1>11, <1>12 DEF Next

LEMMA CallsStay == CallsOfThePoll /\ [Next]_vars => CallsOfThePoll'
  <1> SUFFICES ASSUME CallsOfThePoll, [Next]_vars PROVE CallsOfThePoll'
    OBVIOUS
  <1> USE DEF world, requests, process
  <1>0. UNCHANGED <<provider, included>>
    BY DEF vars, Next, Ask, Tick, OtherThreads, Start, PollNothing, PollStarts, Read, Request,
        CheckSession, TakeSession, Authenticate, Rejected, ClientsRead, BlockedRead, QueriesRead,
        ListsRead, MockRead, PollError, PollRaises, Observe, Flush, FlushFails, NotDue, Crash
  <1> SUFFICES call' # "none" => /\ provider' = "pihole_v6"
                                 /\ pc' = "read" \/ (pc' = "observe" /\ call' = "lists")
    BY <1>0 DEF CallsOfThePoll, HalfOpen
  <1> USE DEF CallsOfThePoll
  <1>1. CASE UNCHANGED vars
    BY <1>1 DEF vars
  <1>2. CASE Ask \/ Tick \/ OtherThreads
    BY <1>2 DEF Ask, Tick, OtherThreads
  <1>3. CASE Start \/ PollNothing \/ Observe \/ Flush \/ FlushFails \/ NotDue
    BY <1>3 DEF Start, PollNothing, Observe, Flush, FlushFails, NotDue
  <1>4. CASE PollStarts
    <2>1. call = "none"
      BY <1>4 DEF PollStarts
    <2> QED
      BY <1>0, <1>4, <2>1 DEF PollStarts, Calls
  <1>5. CASE Request
    BY <1>5 DEF Request, CheckSession, TakeSession, Authenticate, Rejected
  <1>6. CASE ClientsRead \/ BlockedRead
    <2>1. pc = "read" /\ provider = "pihole_v6"
      BY <1>6 DEF ClientsRead, BlockedRead
    <2>2. pc' = pc
      BY <1>6 DEF ClientsRead, BlockedRead
    <2> QED
      BY <1>0, <2>1, <2>2
  <1>7. CASE QueriesRead \/ ListsRead
    <2>1. /\ provider = "pihole_v6" /\ pc \in {"read", "observe"}
          /\ pc' \in {"read", "observe"}
          /\ ReadsOn \/ call' = "lists"
      BY <1>7 DEF QueriesRead, ListsRead, Calls
    <2> QED
      BY <1>0, <2>1 DEF ReadsOn, HangsUp
  <1>8. CASE MockRead
    BY <1>8 DEF MockRead
  <1>9. CASE PollError \/ PollRaises \/ Crash
    BY <1>9 DEF PollError, PollRaises, Crash, HangsUp
  <1> QED
    BY <1>1, <1>2, <1>3, <1>4, <1>5, <1>6, <1>7, <1>8, <1>9 DEF Next, Read

-----------------------------------------------------------------------------
(* What has been read of the window.                                       *)

\* The ends of the window, as positions.
LEMMA WindowEnds ==
    ASSUME FeedAssumption, LogInOrder, Marks, pc \in {"read", "observe"}
    PROVE  /\ watermark \in Nat /\ until \in Nat /\ watermark < until
           /\ LoggedBefore(watermark) \in Nat /\ LoggedBefore(until) \in Nat
           /\ LoggedBefore(watermark) <= LoggedBefore(until)
  <1>1. watermark \in Nat /\ until \in Nat /\ watermark < until
    BY DEF Marks
  <1>2. LoggedBefore(watermark) \in Nat /\ LoggedBefore(until) \in Nat
    BY <1>1, Older DEF LogInOrder
  <1>3. LoggedBefore(watermark) <= LoggedBefore(until)
    BY <1>1, OlderGrows
  <1> QED
    BY <1>1, <1>2, <1>3

\* The ends of what the Pi-hole answers for the window.
LEMMA AnsweredEnds ==
    ASSUME FeedAssumption, LogInOrder, Marks, pc \in {"read", "observe"}
    PROVE  /\ FirstAfter(watermark) \in Nat /\ LastUpTo(until) \in Nat
           /\ FirstAfter(watermark) <= LastUpTo(until)
           /\ LoggedBefore(until) \in Nat /\ LoggedBefore(until) <= LastUpTo(until)
           /\ \E t \in {watermark, watermark + 1} : FirstAfter(watermark) = LoggedBefore(t)
           /\ \E t \in {until, until + 1} : LastUpTo(until) = LoggedBefore(t)
           /\ HalfOpen => /\ FirstAfter(watermark) = LoggedBefore(watermark)
                          /\ LastUpTo(until) = LoggedBefore(until)
  <1>1. watermark \in Nat /\ until \in Nat /\ watermark < until
    BY DEF Marks
  <1>2. PICK s \in {watermark, watermark + 1} : FirstAfter(watermark) = LoggedBefore(s)
    BY DEF FirstAfter
  <1>3. PICK t \in {until, until + 1} : LastUpTo(until) = LoggedBefore(t)
    BY DEF LastUpTo
  <1>4. s \in Nat /\ t \in Nat /\ s <= t /\ until <= t
    BY <1>1
  <1>5. LoggedBefore(s) \in Nat /\ LoggedBefore(t) \in Nat /\ LoggedBefore(until) \in Nat
    BY <1>1, <1>4, Older DEF LogInOrder
  <1>6. LoggedBefore(s) <= LoggedBefore(t) /\ LoggedBefore(until) <= LoggedBefore(t)
    BY <1>1, <1>4, OlderGrows
  <1>7. HalfOpen => /\ FirstAfter(watermark) = LoggedBefore(watermark)
                    /\ LastUpTo(until) = LoggedBefore(until)
    BY DEF HalfOpen, FirstAfter, LastUpTo
  <1> QED
    BY <1>2, <1>3, <1>5, <1>6, <1>7

\* An answer is the next piece of the window.
LEMMA AnswerTaken ==
    ASSUME FeedAssumption, LogInOrder, Marks, CallsOfThePoll, Covering, QueriesRead,
           NEW lo, NEW hi, lo = FirstAfter(watermark), hi = LastUpTo(until),
           NEW a, NEW b, a = offset, b = offset'
    PROVE  /\ pc = "read" /\ provider = "pihole_v6"
           /\ lo \in Nat /\ hi \in Nat /\ lo <= hi
           /\ a \in Nat /\ b \in Nat /\ a <= b /\ b <= hi - lo
           /\ entries' = entries \o NewestFirst(hi - b, hi - a)
           /\ b < hi - lo => pc' = "read"
           /\ ~(b < hi - lo) => pc' = "observe"
  <1> DEFINE room == Min({Chunk, PageSize - (offset % PageSize)})
             c == Min({offset + room, hi - lo})
  <1>1. pc = "read" /\ provider = "pihole_v6"
    BY DEF QueriesRead, CallsOfThePoll
  <1>2. lo \in Nat /\ hi \in Nat /\ lo <= hi
    BY <1>1, AnsweredEnds
  <1>3. offset \in Nat /\ offset <= hi - lo
    BY <1>1 DEF Covering
  <1>4. room \in Nat \ {0}
    <2>1. PageSize \in Nat \ {0} /\ Chunk \in Nat \ {0}
      BY DEF FeedAssumption
    <2>2. offset % PageSize \in 0..(PageSize - 1)
      BY <1>3, <2>1
    <2> HIDE DEF room
    <2>3. room = IF Chunk <= PageSize - (offset % PageSize) THEN Chunk ELSE PageSize - (offset % PageSize)
      BY <2>1, <2>2, MinOfTwo DEF room
    <2> QED
      BY <2>1, <2>2, <2>3
  <1> HIDE DEF room
  <1>5. c \in Nat /\ offset <= c /\ c <= hi - lo
    BY <1>2, <1>3, <1>4, MinOfTwo
  <1>6. /\ Matching(watermark, until) = NewestFirst(lo, hi)
        /\ Len(Matching(watermark, until)) = hi - lo
    BY <1>2, NewestFirstFacts DEF Matching
  <1> DEFINE taken == SubSeq(Matching(watermark, until), offset + 1, c)
  <1>7. /\ entries' = entries \o taken
        /\ offset' = offset + Len(taken)
        /\ pc' = IF offset' < hi - lo THEN "read" ELSE "observe"
    BY <1>1, <1>6 DEF QueriesRead, room
  <1> HIDE DEF c
  <1>8. taken = NewestFirst(hi - c, hi - offset) /\ Len(taken) = c - offset
    <2>1. taken = NewestFirst(hi - c, hi - offset)
      <3> DEFINE m == offset + 1
      <3>1. m \in Nat /\ 0 < m /\ m <= c + 1 /\ hi + 1 - m = hi - offset
        BY <1>2, <1>3, <1>5
      <3>2. taken = SubSeq(NewestFirst(lo, hi), m, c)
        BY <1>6
      <3> HIDE DEF m
      <3>3. SubSeq(NewestFirst(lo, hi), m, c) = NewestFirst(hi - c, hi + 1 - m)
        BY <1>2, <1>5, <3>1, PieceOfPiece, Zenon
      <3> QED
        BY <3>1, <3>2, <3>3
    <2>2. hi - c \in Nat /\ hi - offset \in Nat /\ hi - c <= hi - offset
      BY <1>2, <1>3, <1>5
    <2>3. Len(NewestFirst(hi - c, hi - offset)) = (hi - offset) - (hi - c)
      BY <2>2, NewestFirstFacts
    <2>4. Len(NewestFirst(hi - c, hi - offset)) = c - offset
      BY <1>2, <1>3, <1>5, <2>3
    <2> HIDE DEF taken
    <2> QED
      BY <2>1, <2>4
  <1>9. offset' = c
    BY <1>3, <1>5, <1>7, <1>8
  <1>10. b = c
    BY <1>9
  <1>11. entries' = entries \o NewestFirst(hi - b, hi - a)
    BY <1>7, <1>8, <1>10
  <1>12. a \in Nat /\ b \in Nat /\ a <= b /\ b <= hi - lo
    BY <1>2, <1>3, <1>5, <1>10
  <1>13. (b < hi - lo => pc' = "read") /\ (~(b < hi - lo) => pc' = "observe")
    BY <1>7
  <1> HIDE DEF taken
  <1> QED
    BY <1>1, <1>2, <1>11, <1>12, <1>13

\* The window the Pi-hole is asked for does not change with the answer.
LEMMA SameWindow ==
    ASSUME UNCHANGED <<log, included, watermark, until>>
    PROVE  /\ LoggedBefore(watermark)' = LoggedBefore(watermark)
           /\ LoggedBefore(until)' = LoggedBefore(until)
           /\ FirstAfter(watermark)' = FirstAfter(watermark)
           /\ LastUpTo(until)' = LastUpTo(until)
           /\ HalfOpen' = HalfOpen
  BY DEF LoggedBefore, FirstAfter, LastUpTo, HalfOpen

LEMMA PageRead ==
    ASSUME FeedAssumption, LogInOrder, Marks, CallsOfThePoll, Reading, Covering, QueriesRead
    PROVE  Reading'
  <1> SUFFICES ASSUME HalfOpen' PROVE Reading'
    BY DEF Reading
  <1>0. UNCHANGED <<log, included, watermark, until, provider>>
    BY DEF QueriesRead, world
  <1>1. HalfOpen
    BY <1>0 DEF HalfOpen
  <1>2. PICK lo, hi, a, b :
           lo = FirstAfter(watermark) /\ hi = LastUpTo(until) /\ a = offset /\ b = offset'
    OBVIOUS
  <1>3. /\ pc = "read" /\ provider = "pihole_v6"
        /\ lo \in Nat /\ hi \in Nat /\ lo <= hi
        /\ a \in Nat /\ b \in Nat /\ a <= b /\ b <= hi - lo
        /\ entries' = entries \o NewestFirst(hi - b, hi - a)
        /\ b < hi - lo => pc' = "read"
        /\ ~(b < hi - lo) => pc' = "observe"
    BY <1>2, AnswerTaken
  <1>4. lo = LoggedBefore(watermark) /\ hi = LoggedBefore(until)
    BY <1>1, <1>2, <1>3, AnsweredEnds
  <1>5. entries = NewestFirst(hi - a, hi)
    BY <1>1, <1>2, <1>3, <1>4 DEF Reading
  <1>6. entries' = NewestFirst(hi - b, hi)
    <2>1. /\ hi - b \in Nat /\ hi - a \in Nat /\ hi - b <= hi - a /\ hi - a <= hi
      BY <1>3
    <2>2. NewestFirst(hi - a, hi) \o NewestFirst(hi - b, hi - a) = NewestFirst(hi - b, hi)
      BY <1>3, <2>1, PiecesJoin
    <2> QED
      BY <1>3, <1>5, <2>2
  <1>7. LoggedBefore(watermark)' = lo /\ LoggedBefore(until)' = hi
    BY <1>0, <1>4, SameWindow
  <1>8. CASE b < hi - lo
    BY <1>0, <1>2, <1>3, <1>6, <1>7, <1>8 DEF Reading
  <1>9. CASE ~(b < hi - lo)
    <2>1. hi - b = lo /\ pc' = "observe"
      BY <1>3, <1>9
    <2> QED
      BY <1>6, <1>7, <2>1 DEF Reading
  <1> QED
    BY <1>8, <1>9

LEMMA PageCovers ==
    ASSUME FeedAssumption, LogInOrder, Marks, CallsOfThePoll, Covering, QueriesRead
    PROVE  Covering'
  <1>0. UNCHANGED <<log, included, watermark, until, provider>>
    BY DEF QueriesRead, world
  <1>1. PICK lo, hi, inside, a, b :
           /\ lo = FirstAfter(watermark) /\ hi = LastUpTo(until) /\ inside = LoggedBefore(until)
           /\ a = offset /\ b = offset'
    OBVIOUS
  <1>2. /\ pc = "read" /\ provider = "pihole_v6"
        /\ lo \in Nat /\ hi \in Nat /\ lo <= hi
        /\ a \in Nat /\ b \in Nat /\ a <= b /\ b <= hi - lo
        /\ entries' = entries \o NewestFirst(hi - b, hi - a)
        /\ b < hi - lo => pc' = "read"
        /\ ~(b < hi - lo) => pc' = "observe"
    BY <1>1, AnswerTaken
  <1>3. inside \in Nat /\ inside <= hi
    BY <1>1, <1>2, AnsweredEnds
  <1>4. /\ entries \in Seq(Nat) /\ Range(entries) \subseteq lo + 1..hi
        /\ (hi - a) + 1..inside \subseteq Range(entries)
    BY <1>1, <1>2 DEF Covering
  <1>5. /\ entries' \in Seq(Nat)
        /\ Range(entries') = Range(entries) \cup (hi - b) + 1..(hi - a)
    <2>1. hi - b \in Nat /\ hi - a \in Nat /\ hi - b <= hi - a
      BY <1>2
    <2>2. /\ NewestFirst(hi - b, hi - a) \in Seq(Nat)
          /\ Range(NewestFirst(hi - b, hi - a)) = (hi - b) + 1..(hi - a)
      BY <2>1, NewestFirstFacts, NewestFirstRange
    <2>3. /\ entries \o NewestFirst(hi - b, hi - a) \in Seq(Nat)
          /\ Range(entries \o NewestFirst(hi - b, hi - a))
                = Range(entries) \cup Range(NewestFirst(hi - b, hi - a))
      BY <1>4, <2>2, RangeOfBoth
    <2> QED
      BY <1>2, <2>2, <2>3
  <1>6. FirstAfter(watermark)' = lo /\ LastUpTo(until)' = hi /\ LoggedBefore(until)' = inside
    BY <1>0, <1>1, SameWindow
  <1>7. Range(entries') \subseteq lo + 1..hi
    <2>1. (hi - b) + 1..(hi - a) \subseteq lo + 1..hi
      BY <1>2
    <2> QED
      BY <1>4, <1>5, <2>1
  <1>8. (hi - b) + 1..inside \subseteq Range(entries')
    <2>1. (hi - b) + 1..inside \subseteq (hi - a) + 1..inside \cup (hi - b) + 1..(hi - a)
      BY <1>2, <1>3
    <2> QED
      BY <1>4, <1>5, <2>1
  <1>9. pc' = "observe" => lo + 1..inside \subseteq Range(entries')
    <2> SUFFICES ASSUME pc' = "observe" PROVE lo + 1..inside \subseteq Range(entries')
      OBVIOUS
    <2>1. hi - b = lo
      BY <1>2
    <2> QED
      BY <1>8, <2>1
  <1>10. Range(entries)' = Range(entries')
    BY DEF Range
  <1> QED
    BY <1>1, <1>2, <1>5, <1>6, <1>7, <1>8, <1>9, <1>10 DEF Covering

LEMMA MockPageRead ==
    ASSUME FeedAssumption, LogInOrder, Marks, CallsOfThePoll, Reading, MockRead
    PROVE  Reading'
  <1> DEFINE lo == LoggedBefore(watermark)
             hi == LoggedBefore(until)
             top == IF offset = 0 THEN hi ELSE Min({hi, offset - 1})
             below == NewestFirst(lo, top)
             b == Min({PageSize, Len(below)})
             taken == SubSeq(below, 1, b)
  <1>1. pc = "read" /\ provider = "mock"
    BY DEF MockRead
  <1>2. lo \in Nat /\ hi \in Nat /\ lo <= hi
    BY <1>1, WindowEnds
  <1>3. /\ offset \in Nat
        /\ \/ offset = 0 /\ entries = <<>>
           \/ offset \in lo + 1..hi /\ entries = NewestFirst(offset - 1, hi)
    BY <1>1 DEF Reading, CallsOfThePoll
  <1>4. /\ entries' = entries \o taken
        /\ IF Len(below) > PageSize THEN pc' = pc /\ offset' = taken[PageSize]
           ELSE pc' = "observe"
    BY DEF MockRead
  <1>5. LoggedBefore(watermark)' = lo /\ LoggedBefore(until)' = hi /\ provider' = provider
    BY DEF MockRead, world, LoggedBefore
  <1> HIDE DEF lo, hi
  <1>6. top \in Nat /\ lo <= top /\ top <= hi /\ entries = NewestFirst(top, hi)
    <2>1. CASE offset = 0
      BY <1>2, <1>3, <2>1, EmptyPiece
    <2>2. CASE offset # 0
      <3>1. offset \in lo + 1..hi /\ entries = NewestFirst(offset - 1, hi)
        BY <1>3, <2>2
      <3>2. top = offset - 1
        BY <1>2, <2>2, <3>1, MinOfTwo
      <3> QED
        BY <1>2, <3>1, <3>2
    <2> QED
      BY <2>1, <2>2
  <1> HIDE DEF top
  <1>7. Len(below) = top - lo /\ \A k \in 1..(top - lo) : below[k] = top + 1 - k
    BY <1>2, <1>6, NewestFirstFacts
  <1>8. PageSize \in Nat \ {0}
    BY DEF FeedAssumption
  <1>9. b = IF PageSize <= top - lo THEN PageSize ELSE top - lo
    BY <1>2, <1>6, <1>7, <1>8, MinOfTwo
  <1>10. b \in Nat /\ 0 <= b /\ b <= top - lo
    BY <1>2, <1>6, <1>8, <1>9
  <1>11. taken = NewestFirst(top - b, top)
    <2> HIDE DEF b
    <2>1. /\ lo \in Nat /\ top \in Nat /\ lo <= top
          /\ 1 \in Nat /\ b \in Nat /\ 0 < 1 /\ 1 <= b + 1 /\ b <= top - lo
      BY <1>2, <1>6, <1>10
    <2>2. SubSeq(NewestFirst(lo, top), 1, b) = NewestFirst(top - b, top + 1 - 1)
      BY <2>1, PieceOfPiece, Zenon
    <2>3. top + 1 - 1 = top
      BY <1>6
    <2> QED
      BY <2>2, <2>3
  <1> HIDE DEF b, below, taken
  <1>12. entries' = NewestFirst(top - b, hi)
    <2>1. top - b \in Nat /\ top - b <= top
      BY <1>2, <1>6, <1>10
    <2>2. NewestFirst(top, hi) \o NewestFirst(top - b, top) = NewestFirst(top - b, hi)
      BY <1>2, <1>6, <2>1, PiecesJoin
    <2> QED
      BY <1>4, <1>6, <1>11, <2>2
  <1>13. CASE Len(below) > PageSize
    <2>1. b = PageSize /\ PageSize < top - lo
      BY <1>2, <1>6, <1>7, <1>8, <1>9, <1>13
    <2>2. offset' = top + 1 - PageSize
      <3>1. top - b \in Nat /\ top - b <= top /\ PageSize \in 1..(top - (top - b))
        BY <1>2, <1>6, <1>8, <1>10, <2>1
      <3>2. ASSUME NEW m \in Nat, m <= top, PageSize \in 1..(top - m)
            PROVE  NewestFirst(m, top)[PageSize] = top + 1 - PageSize
        BY <1>6, <3>2, NewestFirstFacts
      <3>3. NewestFirst(top - b, top)[PageSize] = top + 1 - PageSize
        BY <3>1, <3>2
      <3> QED
        BY <1>4, <1>11, <1>13, <3>3
    <2>3. offset' \in lo + 1..hi /\ offset' - 1 = top - b
      BY <1>2, <1>6, <1>8, <2>1, <2>2
    <2>4. pc' = "read" /\ provider' = "mock"
      BY <1>1, <1>4, <1>5, <1>13
    <2> QED
      BY <1>2, <1>5, <1>12, <2>3, <2>4 DEF Reading
  <1>14. CASE ~(Len(below) > PageSize)
    <2>1. top - b = lo
      BY <1>2, <1>6, <1>7, <1>8, <1>9, <1>14
    <2> QED
      BY <1>4, <1>5, <1>12, <1>14, <2>1 DEF Reading
  <1> QED
    BY <1>13, <1>14

LEMMA ReadingStays ==
    ASSUME FeedAssumption
    PROVE  WindowInv /\ [Next]_vars => Reading'
  <1> SUFFICES ASSUME WindowInv, [Next]_vars PROVE Reading'
    OBVIOUS
  <1>0. LogInOrder /\ Marks /\ CallsOfThePoll /\ Reading /\ Covering
    BY DEF WindowInv
  <1> USE DEF world, requests, process, page
  <1>1. CASE UNCHANGED <<provider, included, log, pc, watermark, until, offset, entries>>
    BY <1>0, <1>1 DEF Reading, LoggedBefore, HalfOpen
  <1>2. CASE Ask
    <2>1. CASE pc \in {"read", "observe"}
      <3>1. /\ watermark \in Nat /\ watermark <= now
            /\ until \in Nat /\ until <= now
        BY <1>0, <2>1, WindowEnds DEF Marks, LogInOrder
      <3>2. /\ LoggedBefore(watermark)' = LoggedBefore(watermark)
            /\ LoggedBefore(until)' = LoggedBefore(until)
        <4>1. UNCHANGED <<watermark, until>>
          BY <1>2 DEF Ask
        <4>2. \A t \in Nat : t <= now =>
                 Cardinality({i \in DOMAIN log' : log'[i].time < t}) = LoggedBefore(t)
          BY <1>0, <1>2, AskChangesNoWindow DEF LoggedBefore
        <4> QED
          BY <3>1, <4>1, <4>2 DEF LoggedBefore
      <3>3. UNCHANGED <<provider, included, pc, watermark, until, offset, entries>>
        BY <1>2 DEF Ask
      <3> QED
        BY <1>0, <3>2, <3>3 DEF Reading, HalfOpen
    <2>2. CASE pc \notin {"read", "observe"}
      BY <1>2, <2>2 DEF Ask, Reading
    <2> QED
      BY <2>1, <2>2
  <1>3. CASE pc' \notin {"read", "observe"}
    BY <1>3 DEF Reading
  <1>4. CASE PollStarts
    <2>1. /\ pc' = "read" /\ offset' = 0 /\ entries' = <<>> /\ until' = now
          /\ UNCHANGED <<log, watermark, provider, included, now>>
      BY <1>4 DEF PollStarts
    <2>2. watermark \in Nat /\ now \in Nat /\ watermark <= now
      BY <1>0, <1>4 DEF PollStarts, Marks, LogInOrder
    <2>3. /\ LoggedBefore(watermark) \in Nat /\ LoggedBefore(now) \in Nat
          /\ LoggedBefore(watermark) <= LoggedBefore(now)
      <3>1. LoggedBefore(watermark) \in 0..Len(log) /\ LoggedBefore(now) \in 0..Len(log)
        BY <1>0, <2>2, Older
      <3>2. LoggedBefore(watermark) <= LoggedBefore(now)
        BY <1>0, <2>2, OlderGrows
      <3> QED
        BY <1>0, <3>1, <3>2 DEF LogInOrder
    <2>4. /\ LoggedBefore(watermark)' = LoggedBefore(watermark)
          /\ LoggedBefore(until)' = LoggedBefore(now)
      BY <2>1 DEF LoggedBefore
    <2>5. NewestFirst(LoggedBefore(now) - 0, LoggedBefore(now)) = <<>>
      <3>1. LoggedBefore(now) - 0 = LoggedBefore(now)
        BY <2>3
      <3> QED
        BY <2>3, <3>1, EmptyPiece
    <2>6. offset' \in Nat /\ offset' <= LoggedBefore(now) - LoggedBefore(watermark)
      BY <2>1, <2>3
    <2>7. entries' = NewestFirst(LoggedBefore(now) - offset', LoggedBefore(now))
      BY <2>1, <2>5
    <2> QED
      BY <2>1, <2>4, <2>6, <2>7 DEF Reading
  <1>5. CASE QueriesRead
    BY <1>0, <1>5, PageRead
  <1>9. CASE ListsRead
    BY <1>1, <1>9 DEF ListsRead
  <1>6. CASE MockRead
    BY <1>0, <1>6, MockPageRead
  <1>7. CASE ClientsRead \/ BlockedRead \/ Request \/ OtherThreads \/ Tick
    BY <1>1, <1>7 DEF ClientsRead, BlockedRead, Request, CheckSession, TakeSession, Authenticate,
        Rejected, OtherThreads, Tick
  <1>8. CASE \/ Start \/ PollNothing \/ PollError \/ PollRaises \/ Observe
             \/ Flush \/ FlushFails \/ NotDue \/ Crash
    BY <1>3, <1>8 DEF Start, PollNothing, PollError, PollRaises, Observe, Flush, FlushFails,
        NotDue, Crash
  <1> QED
    BY <1>1, <1>2, <1>4, <1>5, <1>6, <1>7, <1>8, <1>9 DEF Next, Read, vars

\* A query that is asked now may only add to what the Pi-hole answers.
LEMMA AskAdds ==
    ASSUME FeedAssumption, LogInOrder, LogInOrder', Marks, Ask, pc \in {"read", "observe"}
    PROVE  /\ FirstAfter(watermark)' = FirstAfter(watermark)
           /\ LoggedBefore(until)' = LoggedBefore(until)
           /\ LastUpTo(until)' \in Nat /\ LastUpTo(until)' >= LastUpTo(until)
  <1>1. /\ watermark \in Nat /\ until \in Nat /\ now \in Nat /\ watermark < until /\ until <= now
        /\ UNCHANGED <<watermark, until, included>>
    BY DEF Marks, LogInOrder, Ask, process, page
  <1>2. \A t \in Nat : t <= now =>
           Cardinality({i \in DOMAIN log' : log'[i].time < t}) = LoggedBefore(t)
    BY AskChangesNoWindow DEF LoggedBefore
  <1>3. LoggedBefore(until)' = LoggedBefore(until)
    BY <1>1, <1>2 DEF LoggedBefore
  <1>4. FirstAfter(watermark)' = FirstAfter(watermark)
    <2>1. CASE "since" \in included
      BY <1>1, <1>2, <2>1 DEF FirstAfter, LoggedBefore
    <2>2. CASE "since" \notin included
      <3>1. watermark + 1 \in Nat /\ watermark + 1 <= now
        BY <1>1
      <3> QED
        BY <1>1, <1>2, <2>2, <3>1 DEF FirstAfter, LoggedBefore
    <2> QED
      BY <2>1, <2>2
  <1>5. ASSUME NEW t \in Nat
        PROVE  /\ LoggedBefore(t) \in Nat
               /\ Cardinality({i \in DOMAIN log' : log'[i].time < t}) \in Nat
               /\ Cardinality({i \in DOMAIN log' : log'[i].time < t}) >= LoggedBefore(t)
    <2> DEFINE S == {i \in DOMAIN log : log[i].time < t}
               T == {i \in DOMAIN log' : log'[i].time < t}
    <2>1. PICK k \in Questions : log' = Append(log, [time |-> now, domain |-> k.domain, reply |-> k.reply])
      BY DEF Ask
    <2>2. [time |-> now, domain |-> k.domain, reply |-> k.reply] \in LoggedQuery
      BY DEF LoggedQuery, LogInOrder
    <2>3. /\ DOMAIN log = 1..Len(log) /\ Len(log) \in Nat
          /\ DOMAIN log' = 1..(Len(log) + 1)
          /\ \A i \in 1..Len(log) : log'[i] = log[i]
      BY <2>1, <2>2 DEF LogInOrder
    <2>4. S \subseteq T /\ T \subseteq 1..(Len(log) + 1)
      BY <2>3
    <2> HIDE DEF S, T
    <2>5. IsFiniteSet(T)
      <3>1. IsFiniteSet(1..(Len(log) + 1))
        BY <2>3, FS_Interval
      <3> QED
        BY <2>4, <3>1, FS_Subset
    <2>6. Cardinality(S) \in Nat /\ Cardinality(T) \in Nat /\ Cardinality(S) <= Cardinality(T)
      BY <2>4, <2>5, FS_Subset, FS_CardinalityType
    <2> QED
      BY <2>6 DEF S, T, LoggedBefore
  <1>6. LastUpTo(until)' \in Nat /\ LastUpTo(until)' >= LastUpTo(until)
    <2>1. CASE "until" \in included
      <3>1. until + 1 \in Nat
        BY <1>1
      <3>2. PICK t : t = until + 1
        OBVIOUS
      <3>3. /\ LastUpTo(until) = LoggedBefore(t)
            /\ LastUpTo(until)' = Cardinality({i \in DOMAIN log' : log'[i].time < t})
        BY <1>1, <2>1, <3>2 DEF LastUpTo, LoggedBefore
      <3> QED
        BY <1>5, <3>1, <3>2, <3>3
    <2>2. CASE "until" \notin included
      BY <1>1, <1>5, <2>2 DEF LastUpTo, LoggedBefore
    <2> QED
      BY <2>1, <2>2
  <1> QED
    BY <1>3, <1>4, <1>6

LEMMA AskCovers ==
    ASSUME FeedAssumption, LogInOrder, LogInOrder', Marks, Covering, Ask,
           provider = "pihole_v6", pc \in {"read", "observe"}
    PROVE  Covering'
  <1>0. UNCHANGED <<pc, offset, entries, provider>>
    BY DEF Ask, process, page
  <1>1. PICK lo, hi, inside : lo = FirstAfter(watermark) /\ hi = LastUpTo(until) /\ inside = LoggedBefore(until)
    OBVIOUS
  <1>2. PICK more : more = LastUpTo(until)'
    OBVIOUS
  <1>3. lo \in Nat /\ hi \in Nat /\ lo <= hi /\ inside \in Nat
    BY <1>1, AnsweredEnds
  <1>4. FirstAfter(watermark)' = lo /\ LoggedBefore(until)' = inside /\ more \in Nat /\ more >= hi
    BY <1>1, <1>2, AskAdds
  <1>5. /\ entries \in Seq(Nat) /\ Range(entries) \subseteq lo + 1..hi
        /\ pc = "read" =>
              /\ offset \in Nat /\ offset <= hi - lo
              /\ (hi - offset) + 1..inside \subseteq Range(entries)
        /\ pc = "observe" => lo + 1..inside \subseteq Range(entries)
    BY <1>1 DEF Covering
  <1>6. lo + 1..hi \subseteq lo + 1..more
    BY <1>3, <1>4
  <1>7. pc = "read" => /\ offset \in Nat /\ offset <= more - lo
                       /\ (more - offset) + 1..inside \subseteq (hi - offset) + 1..inside
    BY <1>3, <1>4, <1>5
  <1>8. Range(entries)' = Range(entries)
    BY <1>0 DEF Range
  <1> QED
    BY <1>0, <1>2, <1>4, <1>5, <1>6, <1>7, <1>8 DEF Covering

LEMMA CoveringStays ==
    ASSUME FeedAssumption
    PROVE  WindowInv /\ [Next]_vars => Covering'
  <1> SUFFICES ASSUME WindowInv, [Next]_vars PROVE Covering'
    OBVIOUS
  <1>0. LogInOrder /\ LogInOrder' /\ Marks /\ CallsOfThePoll /\ Covering
    BY LogStaysInOrder DEF WindowInv
  <1> USE DEF world, requests, process, page
  <1>1. CASE UNCHANGED <<provider, included, log, pc, watermark, until, offset, entries>>
    <2>1. Range(entries)' = Range(entries)
      BY <1>1 DEF Range
    <2> QED
      BY <1>0, <1>1, <2>1, SameWindow DEF Covering
  <1>2. CASE provider' # "pihole_v6" \/ pc' \notin {"read", "observe"}
    BY <1>2 DEF Covering
  <1>3. CASE Ask
    <2>1. UNCHANGED <<pc, provider>>
      BY <1>3 DEF Ask
    <2> QED
      BY <1>0, <1>2, <1>3, <2>1, AskCovers
  <1>4. CASE PollStarts
    <2>1. /\ pc' = "read" /\ offset' = 0 /\ entries' = <<>> /\ until' = now
          /\ watermark < now /\ watermark \in Nat /\ now \in Nat /\ watermark' = watermark
          /\ now' = now
      BY <1>0, <1>4 DEF PollStarts, Marks, LogInOrder
    <2>2. UNCHANGED <<log, included>>
      BY <1>4 DEF PollStarts
    <2>3. /\ FirstAfter(watermark)' \in Nat /\ LastUpTo(until)' \in Nat /\ LoggedBefore(until)' \in Nat
          /\ FirstAfter(watermark)' <= LastUpTo(until)' /\ LoggedBefore(until)' <= LastUpTo(until)'
      <3>1. PICK from \in {watermark, watermark + 1} : FirstAfter(watermark)' = LoggedBefore(from)
        BY <2>1, <2>2 DEF FirstAfter, LoggedBefore
      <3>2. PICK to \in {now, now + 1} : LastUpTo(until)' = LoggedBefore(to)
        BY <2>1, <2>2 DEF LastUpTo, LoggedBefore
      <3>3. LoggedBefore(until)' = LoggedBefore(now)
        BY <2>1, <2>2 DEF LoggedBefore
      <3>4. from \in Nat /\ to \in Nat /\ from <= to /\ now <= to
        BY <2>1
      <3>5. LoggedBefore(from) \in Nat /\ LoggedBefore(to) \in Nat /\ LoggedBefore(now) \in Nat
        BY <1>0, <2>1, <3>4, Older DEF LogInOrder
      <3>6. LoggedBefore(from) <= LoggedBefore(to) /\ LoggedBefore(now) <= LoggedBefore(to)
        BY <1>0, <2>1, <3>4, OlderGrows
      <3> QED
        BY <3>1, <3>2, <3>3, <3>5, <3>6
    <2>4. Range(entries)' = {}
      BY <2>1 DEF Range
    <2> QED
      BY <2>1, <2>3, <2>4 DEF Covering
  <1>5. CASE QueriesRead
    BY <1>0, <1>5, PageCovers
  <1>6. CASE MockRead
    BY <1>2, <1>6 DEF MockRead
  <1>7. CASE ClientsRead \/ BlockedRead \/ ListsRead \/ Request \/ OtherThreads \/ Tick
    BY <1>1, <1>7 DEF ClientsRead, BlockedRead, ListsRead, Request, CheckSession, TakeSession,
        Authenticate, Rejected, OtherThreads, Tick
  <1>8. CASE \/ Start \/ PollNothing \/ PollError \/ PollRaises \/ Observe
             \/ Flush \/ FlushFails \/ NotDue \/ Crash
    BY <1>2, <1>8 DEF Start, PollNothing, PollError, PollRaises, Observe, Flush, FlushFails,
        NotDue, Crash
  <1> QED
    BY <1>1, <1>3, <1>4, <1>5, <1>6, <1>7, <1>8 DEF Next, Read, vars

LEMMA WindowInvInit == Init /\ FeedAssumption => WindowInv
  <1> SUFFICES ASSUME Init, FeedAssumption PROVE WindowInv
    OBVIOUS
  <1>1. provider = "mock" => HalfOpen
    BY DEF Init, HalfOpen
  <1> QED
    BY <1>1 DEF Init, WindowInv, LogInOrder, Marks, CallsOfThePoll, Reading, Covering

LEMMA WindowInvariant ==
    ASSUME FeedAssumption
    PROVE  Spec => []WindowInv
  <1>1. WindowInv /\ [Next]_vars => WindowInv'
    BY LogStaysInOrder, MarksStay, CallsStay, ReadingStays, CoveringStays DEF WindowInv
  <1> QED
    BY <1>1, WindowInvInit, PTL DEF Spec

\* What a position says of a query's time.
LEMMA TimesOfPositions ==
    ASSUME LogInOrder, NEW s \in Nat, NEW t \in Nat
    PROVE  /\ DOMAIN log = 1..Len(log) /\ LoggedBefore(s) \in Nat /\ LoggedBefore(t) \in Nat
           /\ LoggedBefore(t) <= Len(log) /\ Len(log) \in Nat
           /\ {i \in DOMAIN log : s <= log[i].time /\ log[i].time < t}
                 = LoggedBefore(s) + 1..LoggedBefore(t)
  <1>1. Len(log) \in Nat /\ DOMAIN log = 1..Len(log)
    BY DEF LogInOrder
  <1>2. /\ LoggedBefore(s) \in 0..Len(log)
        /\ \A i \in 1..Len(log) : log[i].time < s <=> i <= LoggedBefore(s)
    BY Older
  <1>3. /\ LoggedBefore(t) \in 0..Len(log)
        /\ \A i \in 1..Len(log) : log[i].time < t <=> i <= LoggedBefore(t)
    BY Older
  <1>4. PICK m, n : m = LoggedBefore(s) /\ n = LoggedBefore(t)
    OBVIOUS
  <1>5. ASSUME NEW i \in 1..Len(log)
        PROVE  (s <= log[i].time /\ log[i].time < t) <=> i \in m + 1..n
    <2>1. /\ log[i].time \in Nat
          /\ log[i].time < s <=> i <= m
          /\ log[i].time < t <=> i <= n
      BY <1>2, <1>3, <1>4, TimesAreTimes
    <2> QED
      BY <1>1, <1>2, <1>3, <1>4, <2>1
  <1>6. m + 1..n \subseteq 1..Len(log)
    BY <1>1, <1>2, <1>3, <1>4
  <1> QED
    BY <1>1, <1>2, <1>3, <1>4, <1>5, <1>6

\* A window that has been read holds exactly its queries, each once, newest first, if
\* the provider's windows are half-open, and all that are inside in any case: for
\* every log and page, whatever fails in between.
THEOREM WindowsAreReadOnce ==
    ASSUME FeedAssumption
    PROVE  Spec => []WindowReadOnce
  <1>1. WindowInv => WindowReadOnce
    <2> SUFFICES ASSUME WindowInv, pc = "observe" PROVE WindowReadOnce
      BY DEF WindowReadOnce
    <2>0. LogInOrder /\ Marks /\ CallsOfThePoll /\ Reading /\ Covering
      BY DEF WindowInv
    <2>1. PICK s, t : s = watermark /\ t = until
      OBVIOUS
    <2>2. s \in Nat /\ t \in Nat /\ s < t
      BY <2>0, <2>1 DEF Marks
    <2>3. ASSUME NEW a \in Nat, NEW b \in Nat
          PROVE  /\ LoggedBefore(a) \in Nat /\ LoggedBefore(b) \in Nat
                 /\ {i \in DOMAIN log : a <= log[i].time /\ log[i].time < b}
                       = LoggedBefore(a) + 1..LoggedBefore(b)
      BY <2>0, TimesOfPositions
    <2>4. \A i \in DOMAIN log : log[i].time \in Nat
      BY <2>0, TimesAreTimes DEF LogInOrder
    <2> DEFINE lo == LoggedBefore(s)
               hi == LoggedBefore(t)
    <2>5. lo \in Nat /\ hi \in Nat /\ lo <= hi
      BY <2>0, <2>1, WindowEnds
    <2>6. ASSUME HalfOpen
          PROVE  /\ Range(entries) = lo + 1..hi
                 /\ \A j, k \in DOMAIN entries : j < k => entries[j] > entries[k]
      <3>1. entries = NewestFirst(lo, hi)
        BY <2>0, <2>1, <2>6 DEF Reading
      <3>2. Range(entries) = lo + 1..hi
        BY <2>5, <3>1, NewestFirstRange
      <3> HIDE DEF lo, hi
      <3>3. DOMAIN entries = 1..(hi - lo) /\ \A k \in 1..(hi - lo) : entries[k] = hi + 1 - k
        BY <2>5, <3>1 DEF NewestFirst
      <3> QED
        BY <2>5, <3>2, <3>3
    <2>7. /\ {i \in DOMAIN log : s < log[i].time /\ log[i].time < t} \subseteq lo + 1..hi
          /\ lo + 1..hi = {i \in DOMAIN log : s <= log[i].time /\ log[i].time < t}
          /\ lo + 1..hi \subseteq {i \in DOMAIN log : log[i].time \in s..t}
      <3>1. lo + 1..hi = {i \in DOMAIN log : s <= log[i].time /\ log[i].time < t}
        BY <2>2, <2>3
      <3> HIDE DEF lo, hi
      <3> QED
        BY <2>2, <2>4, <3>1
    <2>8. ASSUME ~HalfOpen
          PROVE  /\ {i \in DOMAIN log : s < log[i].time /\ log[i].time < t} \subseteq Range(entries)
                 /\ Range(entries) \subseteq {i \in DOMAIN log : log[i].time \in s..t}
      <3>1. provider = "pihole_v6"
        BY <2>0, <2>8 DEF CallsOfThePoll
      <3>2. PICK from \in {s, s + 1} : FirstAfter(s) = LoggedBefore(from)
        BY DEF FirstAfter
      <3>3. PICK to \in {t, t + 1} : LastUpTo(t) = LoggedBefore(to)
        BY DEF LastUpTo
      <3>4. from \in Nat /\ to \in Nat
        BY <2>2
      <3>5. /\ Range(entries) \subseteq LoggedBefore(from) + 1..LoggedBefore(to)
            /\ LoggedBefore(from) + 1..hi \subseteq Range(entries)
        BY <2>0, <2>1, <3>1, <3>2, <3>3 DEF Covering
      <3>6. /\ LoggedBefore(from) + 1..LoggedBefore(to)
                  = {i \in DOMAIN log : from <= log[i].time /\ log[i].time < to}
            /\ LoggedBefore(from) + 1..hi = {i \in DOMAIN log : from <= log[i].time /\ log[i].time < t}
        BY <2>2, <2>3, <3>4
      <3>7. ASSUME NEW i \in DOMAIN log
            PROVE  /\ s < log[i].time /\ log[i].time < t => from <= log[i].time /\ log[i].time < t
                   /\ from <= log[i].time /\ log[i].time < to => log[i].time \in s..t
        BY <2>2, <2>4
      <3> QED
        BY <3>5, <3>6, <3>7
    <2> HIDE DEF lo, hi
    <2>9. /\ {i \in DOMAIN log : s < log[i].time /\ log[i].time < t} \subseteq Range(entries)
          /\ Range(entries) \subseteq {i \in DOMAIN log : log[i].time \in s..t}
      BY <2>6, <2>7, <2>8
    <2> QED
      BY <2>1, <2>6, <2>7, <2>9 DEF WindowReadOnce
  <1> QED
    BY <1>1, WindowInvariant, PTL

-----------------------------------------------------------------------------
(* The anomalies: in memory and in the database.                           *)

Raisable ==
    [at : Nat, signals : SUBSET AnomalySignal, severity : {"high", "medium", "low"}, upto : Nat]

\* Ids are given once, in order.
AnomalyTable ==
    /\ rows \in Nat
    /\ DOMAIN stored \subseteq 1..rows
    /\ stored \in [DOMAIN stored -> Raisable]
    /\ pending \in Seq(Raisable)
    /\ raised \in SUBSET Raisable

\* Nothing has been raised of a window that is still to be read.
RaisedIsRead ==
    /\ pc # "down" => \A a \in raised : watermark # None /\ a.upto <= watermark
    /\ pc = "down" => pending = <<>>

AnomalyInv == AnomalyTable /\ RaisedIsRead /\ AnomaliesGoWithTheWatermark
FeedInv == WindowInv /\ AnomalyInv

\* What the insertion does to the table.
InsertedAfterStored ==
    /\ DOMAIN Inserted = DOMAIN stored \cup {rows + k : k \in 1..Len(pending)}
    /\ DOMAIN Inserted \subseteq 1..(rows + Len(pending))
    /\ \A id \in DOMAIN stored : Inserted[id] = stored[id]
    /\ \A k \in 1..Len(pending) : Inserted[rows + k] = pending[k]
    /\ Inserted \in [DOMAIN Inserted -> Raisable]
    /\ Range(Inserted) = Range(stored) \cup Range(pending)

LEMMA InsertedFacts == AnomalyTable => InsertedAfterStored
  <1> SUFFICES ASSUME AnomalyTable PROVE InsertedAfterStored
    OBVIOUS
  <1>1. DOMAIN pending = 1..Len(pending) /\ Len(pending) \in Nat /\ rows \in Nat
    BY DEF AnomalyTable
  <1>2. DOMAIN Inserted = DOMAIN stored \cup {rows + k : k \in 1..Len(pending)}
    BY <1>1 DEF Inserted
  <1>3. DOMAIN Inserted \subseteq 1..(rows + Len(pending))
    BY <1>1, <1>2 DEF AnomalyTable
  <1>4. \A id \in DOMAIN stored : Inserted[id] = stored[id]
    BY DEF Inserted
  <1>5. \A k \in 1..Len(pending) : Inserted[rows + k] = pending[k]
    <2> SUFFICES ASSUME NEW k \in 1..Len(pending) PROVE Inserted[rows + k] = pending[k]
      OBVIOUS
    <2>1. rows + k \in DOMAIN Inserted /\ rows + k - rows = k
      BY <1>1, <1>2
    <2>2. rows + k \notin DOMAIN stored
      BY <1>1 DEF AnomalyTable
    <2> QED
      BY <1>1, <2>1, <2>2 DEF Inserted
  <1>6. \A id \in DOMAIN Inserted : Inserted[id] \in Raisable
    BY <1>1, <1>2, <1>4, <1>5 DEF AnomalyTable
  <1>7. Inserted = [id \in DOMAIN Inserted |-> Inserted[id]]
    BY DEF Inserted
  <1>8. Inserted \in [DOMAIN Inserted -> Raisable]
    BY <1>6, <1>7
  <1>9. Range(Inserted) = Range(stored) \cup Range(pending)
    <2>1. Range(Inserted) \subseteq Range(stored) \cup Range(pending)
      BY <1>1, <1>2, <1>4, <1>5 DEF Range
    <2>2. Range(stored) \subseteq Range(Inserted)
      BY <1>2, <1>4 DEF Range
    <2>3. Range(pending) \subseteq Range(Inserted)
      <3>1. \A k \in DOMAIN pending : rows + k \in DOMAIN Inserted /\ pending[k] = Inserted[rows + k]
        BY <1>1, <1>2, <1>5
      <3> QED
        BY <3>1 DEF Range
    <2> QED
      BY <2>1, <2>2, <2>3
  <1> QED
    BY <1>2, <1>3, <1>4, <1>5, <1>8, <1>9 DEF InsertedAfterStored

LEMMA RetainedFacts ==
    ASSUME NEW D, NEW table \in [D -> Raisable], NEW at \in Nat
    PROVE  /\ DOMAIN Retained(table, at) \subseteq D
           /\ Retained(table, at) \in [DOMAIN Retained(table, at) -> Raisable]
           /\ \A id \in DOMAIN Retained(table, at) : Retained(table, at)[id] = table[id]
           /\ Range(Retained(table, at)) = {a \in Range(table) : ~Expired(a, at)}
  BY DEF Retained, Restrict, Range

\* What has expired stays so.
LEMMA ExpiredStays ==
    ASSUME FeedAssumption, NEW a \in Raisable, NEW s \in Nat, NEW t \in Nat, s <= t, Expired(a, s)
    PROVE  Expired(a, t)
  BY DEF Expired, Raisable, FeedAssumption

LEMMA SameTable ==
    ASSUME AnomalyInv, UNCHANGED <<saved, stored, rows, flushedAt, pending, raised>>
    PROVE  AnomalyTable' /\ AnomaliesGoWithTheWatermark'
  <1>1. AnomalyTable'
    BY DEF AnomalyInv, AnomalyTable
  <1>2. Inserted' = Inserted
    BY DEF Inserted
  <1>3. AnomaliesGoWithTheWatermark
    BY DEF AnomalyInv
  <1>4. AnomaliesGoWithTheWatermark'
    BY <1>2, <1>3 DEF AnomaliesGoWithTheWatermark, Expired
  <1> QED
    BY <1>1, <1>4

LEMMA ObserveRaises ==
    ASSUME FeedAssumption, FeedInv, Observe
    PROVE  AnomalyInv'
  <1> DEFINE found == Signals(window', now)
             anomaly == AnomalyOf(found, until)
  <1>1. /\ pc = "observe" /\ pc' = "polled" /\ watermark' = until
        /\ UNCHANGED <<saved, stored, rows, flushedAt>>
        /\ \/ UNCHANGED <<pending, raised>>
           \/ pending' = Append(pending, anomaly) /\ raised' = raised \cup {anomaly}
    BY DEF Observe, database
  <1>2. AnomalyInv /\ AnomalyTable /\ RaisedIsRead /\ AnomaliesGoWithTheWatermark /\ Marks /\ LogInOrder
    BY DEF FeedInv, AnomalyInv, WindowInv
  <1>3. watermark \in Nat /\ until \in Nat /\ watermark < until
    BY <1>1, <1>2, WindowEnds
  <1>4. until # None
    BY <1>3 DEF FeedAssumption
  <1>5. \A a \in raised : a \in Raisable /\ a.upto \in Nat /\ a.upto < until
    BY <1>1, <1>2, <1>3 DEF RaisedIsRead, AnomalyTable, Raisable
  <1>6. anomaly \in Raisable /\ anomaly.upto = until
    <2>1. found \in SUBSET AnomalySignal
      BY DEF Signals
    <2>2. SeverityForScore(Score(found)) \in {"high", "medium", "low"}
      BY DEF SeverityForScore
    <2> QED
      BY <1>2, <1>3, <2>1, <2>2 DEF Raisable, AnomalyOf, LogInOrder
  <1> HIDE DEF anomaly, found
  <1>7. RaisedIsRead'
    BY <1>1, <1>3, <1>4, <1>5, <1>6 DEF RaisedIsRead
  <1>8. CASE UNCHANGED <<pending, raised>>
    BY <1>1, <1>2, <1>7, <1>8, SameTable DEF AnomalyInv
  <1>9. CASE pending' = Append(pending, anomaly) /\ raised' = raised \cup {anomaly}
    <2>1. AnomalyTable'
      BY <1>1, <1>2, <1>6, <1>9 DEF AnomalyTable
    <2>2. /\ pending \in Seq(Raisable) /\ Len(pending) \in Nat /\ rows \in Nat
          /\ Len(pending') = Len(pending) + 1
          /\ \A k \in 1..Len(pending) : pending'[k] = pending[k]
          /\ pending'[Len(pending) + 1] = anomaly
      BY <1>2, <1>6, <1>9 DEF AnomalyTable
    <2> DEFINE done == {a \in raised : saved # None /\ a.upto <= saved}
    <2>3. /\ \A i, j \in DOMAIN Inserted : i < j => Inserted[i].upto < Inserted[j].upto
          /\ Range(stored) = {a \in done : ~Expired(a, flushedAt)}
          /\ Range(pending) = raised \ done
      BY <1>2 DEF AnomaliesGoWithTheWatermark
    <2>4. saved # None => saved \in Nat /\ saved < until
      BY <1>1, <1>2, <1>3 DEF Marks
    <2>5. done' = done /\ anomaly \notin done
      BY <1>1, <1>6, <1>9, <2>4, <1>3
    <2>6. anomaly \notin raised
      BY <1>3, <1>5, <1>6
    <2>7. Range(stored)' = {a \in done' : ~Expired(a, flushedAt)'}
      BY <1>1, <2>3, <2>5 DEF Expired
    <2>8. Range(pending)' = raised' \ done'
      <3>1. Range(pending') = Range(pending) \cup {anomaly}
        BY <2>2, <1>9 DEF Range
      <3> QED
        BY <1>9, <2>3, <2>5, <3>1
    <2>9. /\ DOMAIN Inserted' = DOMAIN Inserted \cup {rows + Len(pending) + 1}
          /\ DOMAIN Inserted \subseteq 1..(rows + Len(pending))
          /\ \A id \in DOMAIN Inserted : Inserted'[id] = Inserted[id]
          /\ Inserted'[rows + Len(pending) + 1] = anomaly
      <3>1. /\ DOMAIN Inserted = DOMAIN stored \cup {rows + k : k \in 1..Len(pending)}
            /\ DOMAIN Inserted \subseteq 1..(rows + Len(pending))
            /\ \A id \in DOMAIN stored : Inserted[id] = stored[id]
            /\ \A k \in 1..Len(pending) : Inserted[rows + k] = pending[k]
        BY <1>2, InsertedFacts DEF InsertedAfterStored
      <3>2. /\ DOMAIN Inserted' = DOMAIN stored' \cup {rows' + k : k \in 1..Len(pending')}
            /\ \A id \in DOMAIN stored' : Inserted'[id] = stored'[id]
            /\ \A k \in 1..Len(pending') : Inserted'[rows' + k] = pending'[k]
        <4>1. InsertedAfterStored'
          BY <2>1, InsertedFacts, PTL
        <4> QED
          BY <4>1 DEF InsertedAfterStored
      <3>3. /\ stored' = stored /\ rows' = rows
            /\ 1..Len(pending') = 1..Len(pending) \cup {Len(pending) + 1}
        BY <1>1, <2>2
      <3>4. DOMAIN Inserted' = DOMAIN Inserted \cup {rows + Len(pending) + 1}
        <4>1. DOMAIN Inserted' = DOMAIN stored \cup {rows + k : k \in 1..Len(pending')}
          BY <3>2, <3>3
        <4>2. {rows + k : k \in 1..Len(pending')}
                 = {rows + k : k \in 1..Len(pending)} \cup {rows + (Len(pending) + 1)}
          BY <3>3
        <4>3. rows + (Len(pending) + 1) = rows + Len(pending) + 1
          BY <2>2
        <4> QED
          BY <3>1, <4>1, <4>2, <4>3
      <3>5. ASSUME NEW id \in DOMAIN Inserted PROVE Inserted'[id] = Inserted[id]
        <4>1. CASE id \in DOMAIN stored
          BY <3>1, <3>2, <3>3, <4>1
        <4>2. CASE id \notin DOMAIN stored
          <5>1. PICK k \in 1..Len(pending) : id = rows + k
            BY <3>1, <4>2
          <5> QED
            BY <2>2, <3>1, <3>2, <3>3, <5>1
        <4> QED
          BY <4>1, <4>2
      <3>6. Inserted'[rows + Len(pending) + 1] = anomaly
        <4>1. Inserted'[rows + (Len(pending) + 1)] = anomaly
          BY <2>2, <3>2, <3>3
        <4> QED
          BY <2>2, <4>1
      <3> QED
        BY <3>1, <3>4, <3>5, <3>6
    <2>10. \A id \in DOMAIN Inserted : Inserted[id].upto < until
      <3>1. Range(Inserted) = Range(stored) \cup Range(pending)
        BY <1>2, InsertedFacts DEF InsertedAfterStored
      <3>2. Range(Inserted) \subseteq raised
        BY <2>3, <3>1
      <3>3. \A id \in DOMAIN Inserted : Inserted[id] \in raised
        BY <3>2 DEF Range
      <3> QED
        BY <1>5, <3>3
    <2>11. ASSUME NEW i \in DOMAIN Inserted', NEW j \in DOMAIN Inserted', i < j
           PROVE  Inserted'[i].upto < Inserted'[j].upto
      <3>1. i \in DOMAIN Inserted
        BY <2>2, <2>9, <2>11
      <3>2. CASE j \in DOMAIN Inserted
        BY <2>3, <2>9, <2>11, <3>1, <3>2
      <3>3. CASE j = rows + Len(pending) + 1
        BY <1>6, <2>9, <2>10, <3>1, <3>3
      <3> QED
        BY <2>9, <3>2, <3>3
    <2>12. AnomaliesGoWithTheWatermark'
      BY <2>7, <2>8, <2>11 DEF AnomaliesGoWithTheWatermark
    <2> QED
      BY <1>7, <2>1, <2>12 DEF AnomalyInv
  <1> QED
    BY <1>1, <1>8, <1>9

LEMMA FlushStores ==
    ASSUME FeedAssumption, FeedInv, Flush
    PROVE  AnomalyInv'
  <1>1. /\ pc = "polled" /\ pc' = "wait" /\ saved' = watermark /\ flushedAt' = now
        /\ stored' = Retained(Inserted, now) /\ rows' = rows + Len(pending) /\ pending' = <<>>
        /\ UNCHANGED <<watermark, raised>>
    BY DEF Flush
  <1>2. AnomalyInv /\ AnomalyTable /\ RaisedIsRead /\ AnomaliesGoWithTheWatermark /\ Marks
    BY DEF FeedInv, AnomalyInv, WindowInv
  <1>3. now \in Nat /\ flushedAt \in Nat /\ flushedAt <= now
    BY DEF FeedInv, WindowInv, LogInOrder, Marks
  <1>4. InsertedAfterStored
    BY <1>2, InsertedFacts
  <1> DEFINE D == DOMAIN Inserted
  <1>5. /\ DOMAIN stored' \subseteq D
        /\ stored' \in [DOMAIN stored' -> Raisable]
        /\ \A id \in DOMAIN stored' : stored'[id] = Inserted[id]
        /\ Range(stored') = {a \in Range(Inserted) : ~Expired(a, now)}
    <2>1. Inserted \in [D -> Raisable]
      BY <1>4 DEF InsertedAfterStored
    <2> HIDE DEF D
    <2> QED
      BY <1>1, <1>3, <2>1, RetainedFacts
  <1>6. AnomalyTable'
    <2>1. rows + Len(pending) \in Nat
      BY <1>2 DEF AnomalyTable
    <2>2. D \subseteq 1..(rows + Len(pending))
      BY <1>4 DEF InsertedAfterStored
    <2>3. rows' \in Nat /\ DOMAIN stored' \subseteq 1..rows'
      BY <1>1, <1>5, <2>1, <2>2
    <2>4. pending' \in Seq(Raisable)
      BY <1>1
    <2>5. raised' \in SUBSET Raisable
      BY <1>1, <1>2 DEF AnomalyTable
    <2> QED
      BY <1>5, <2>3, <2>4, <2>5 DEF AnomalyTable
  <1>7. RaisedIsRead'
    BY <1>1, <1>2 DEF RaisedIsRead
  <1> DEFINE done == {a \in raised : saved # None /\ a.upto <= saved}
  <1>8. /\ \A i, j \in DOMAIN Inserted : i < j => Inserted[i].upto < Inserted[j].upto
        /\ Range(stored) = {a \in done : ~Expired(a, flushedAt)}
        /\ Range(pending) = raised \ done
    BY <1>2 DEF AnomaliesGoWithTheWatermark
  <1>9. done' = raised
    BY <1>1, <1>2 DEF RaisedIsRead
  <1>10. Range(pending)' = raised' \ done'
    BY <1>1, <1>9 DEF Range
  <1>11. Range(stored') = {a \in raised : ~Expired(a, now)}
    <2>1. Range(Inserted) = {a \in done : ~Expired(a, flushedAt)} \cup (raised \ done)
      BY <1>4, <1>8 DEF InsertedAfterStored
    <2>2. \A a \in raised : ~Expired(a, now) => ~Expired(a, flushedAt)
      BY <1>2, <1>3, ExpiredStays DEF AnomalyTable
    <2> HIDE DEF done
    <2>3. done \subseteq raised
      BY DEF done
    <2> QED
      BY <1>5, <2>1, <2>2, <2>3
  <1>12. Range(stored)' = {a \in done' : ~Expired(a, flushedAt)'}
    BY <1>1, <1>9, <1>11 DEF Expired
  <1>13. DOMAIN Inserted' = DOMAIN stored' /\ \A id \in DOMAIN stored' : Inserted'[id] = stored'[id]
    <2>1. InsertedAfterStored'
      BY <1>6, InsertedFacts, PTL
    <2>2. 1..Len(pending') = {}
      BY <1>1
    <2> QED
      BY <2>1, <2>2 DEF InsertedAfterStored
  <1>14. \A i, j \in DOMAIN Inserted' : i < j => Inserted'[i].upto < Inserted'[j].upto
    BY <1>5, <1>8, <1>13
  <1>15. AnomaliesGoWithTheWatermark'
    BY <1>10, <1>12, <1>14 DEF AnomaliesGoWithTheWatermark
  <1> QED
    BY <1>6, <1>7, <1>15 DEF AnomalyInv

LEMMA CrashLoses ==
    ASSUME FeedAssumption, FeedInv, Crash
    PROVE  AnomalyInv'
  <1>1. /\ pc' = "down" /\ pending' = <<>> /\ raised' = raised \ Range(pending)
        /\ UNCHANGED <<saved, stored, rows, flushedAt>>
    BY DEF Crash, database
  <1>2. AnomalyTable /\ AnomaliesGoWithTheWatermark
    BY DEF FeedInv, AnomalyInv
  <1>3. AnomalyTable'
    BY <1>1, <1>2 DEF AnomalyTable
  <1>4. RaisedIsRead'
    BY <1>1 DEF RaisedIsRead
  <1> DEFINE done == {a \in raised : saved # None /\ a.upto <= saved}
  <1>5. /\ \A i, j \in DOMAIN Inserted : i < j => Inserted[i].upto < Inserted[j].upto
        /\ Range(stored) = {a \in done : ~Expired(a, flushedAt)}
        /\ Range(pending) = raised \ done
    BY <1>2 DEF AnomaliesGoWithTheWatermark
  <1>6. raised' = done
    BY <1>1, <1>5
  <1>7. done' = done
    BY <1>1, <1>6
  <1>8. Range(pending)' = raised' \ done'
    BY <1>1, <1>6, <1>7 DEF Range
  <1>9. Range(stored)' = {a \in done' : ~Expired(a, flushedAt)'}
    BY <1>1, <1>5, <1>7 DEF Expired
  <1>10. /\ DOMAIN Inserted' = DOMAIN stored /\ \A id \in DOMAIN stored : Inserted'[id] = stored[id]
    <2>1. InsertedAfterStored'
      BY <1>3, InsertedFacts, PTL
    <2>2. 1..Len(pending') = {}
      BY <1>1
    <2> QED
      BY <1>1, <2>1, <2>2 DEF InsertedAfterStored
  <1>11. DOMAIN stored \subseteq DOMAIN Inserted /\ \A id \in DOMAIN stored : Inserted[id] = stored[id]
    BY <1>2, InsertedFacts DEF InsertedAfterStored
  <1>12. \A i, j \in DOMAIN Inserted' : i < j => Inserted'[i].upto < Inserted'[j].upto
    BY <1>5, <1>10, <1>11
  <1>13. AnomaliesGoWithTheWatermark'
    BY <1>8, <1>9, <1>12 DEF AnomaliesGoWithTheWatermark
  <1> QED
    BY <1>3, <1>4, <1>13 DEF AnomalyInv

LEMMA AnomaliesStay ==
    ASSUME FeedAssumption
    PROVE  FeedInv /\ [Next]_vars => AnomalyInv'
  <1> SUFFICES ASSUME FeedInv, [Next]_vars PROVE AnomalyInv'
    OBVIOUS
  <1>0. /\ AnomalyInv /\ AnomalyTable /\ RaisedIsRead /\ AnomaliesGoWithTheWatermark
        /\ Marks /\ CallsOfThePoll
    BY DEF FeedInv, WindowInv, AnomalyInv
  <1> USE DEF world, requests, process, page, database
  <1> DEFINE Same == UNCHANGED <<saved, stored, rows, flushedAt, pending, raised>>
  <1>1. ASSUME Same, RaisedIsRead' PROVE AnomalyInv'
    BY <1>0, <1>1, SameTable DEF AnomalyInv
  <1>2. CASE UNCHANGED vars \/ Ask \/ Tick \/ OtherThreads
    <2>1. Same /\ UNCHANGED <<pc, watermark>>
      BY <1>2 DEF vars, Ask, Tick, OtherThreads
    <2> QED
      BY <1>0, <1>1, <2>1 DEF RaisedIsRead
  <1>3. CASE Read
    <2>1. CASE Request \/ ClientsRead \/ BlockedRead \/ ListsRead
      <3>1. Same /\ UNCHANGED <<pc, watermark>>
        BY <2>1 DEF Request, CheckSession, TakeSession, Authenticate, Rejected, ClientsRead, BlockedRead,
            ListsRead
      <3> QED
        BY <1>0, <1>1, <3>1 DEF RaisedIsRead
    <2>2. CASE QueriesRead \/ MockRead \/ PollError \/ PollRaises
      <3>1. Same /\ UNCHANGED watermark /\ pc # "down"
        BY <1>0, <2>2 DEF QueriesRead, MockRead, PollError, PollRaises, CallsOfThePoll
      <3>2. pc' = pc \/ pc' \in {"observe", "polled", "wait"}
        BY <2>2 DEF QueriesRead, MockRead, PollError, PollRaises
      <3> QED
        BY <1>0, <1>1, <3>1, <3>2 DEF RaisedIsRead
    <2> QED
      BY <1>3, <2>1, <2>2 DEF Read
  <1>4. CASE PollStarts \/ FlushFails \/ NotDue
    <2>1. Same /\ UNCHANGED watermark /\ pc # "down" /\ pc' # "down"
      BY <1>4 DEF PollStarts, FlushFails, NotDue
    <2> QED
      BY <1>0, <1>1, <2>1 DEF RaisedIsRead
  <1>5. CASE PollNothing
    <2>1. /\ Same /\ pc # "down" /\ pc' # "down"
          /\ watermark = None \/ watermark' = watermark
      BY <1>5 DEF PollNothing
    <2> QED
      BY <1>0, <1>1, <2>1 DEF RaisedIsRead
  <1>6. CASE Start
    <2>1. Same /\ pc = "down" /\ pc' = "wait" /\ watermark' = saved
      BY <1>6 DEF Start
    <2>2. \A a \in raised : saved # None /\ a.upto <= saved
      <3>1. pending = <<>>
        BY <1>0, <2>1 DEF RaisedIsRead
      <3>2. Range(pending) = {}
        BY <3>1 DEF Range
      <3> QED
        BY <1>0, <3>2 DEF AnomaliesGoWithTheWatermark
    <2> QED
      BY <1>1, <2>1, <2>2 DEF RaisedIsRead
  <1>7. CASE Observe
    BY <1>7, ObserveRaises
  <1>8. CASE Flush
    BY <1>8, FlushStores
  <1>9. CASE Crash
    BY <1>9, CrashLoses
  <1> QED
    BY <1>2, <1>3, <1>4, <1>5, <1>6, <1>7, <1>8, <1>9 DEF Next

\* An anomaly is stored exactly when the stored watermark is past its window, once
\* and in order: for every schedule of flushes, failures and crashes.
THEOREM AnomaliesAreStoredOnce ==
    ASSUME FeedAssumption
    PROVE  Spec => []AnomaliesGoWithTheWatermark
  <1>1. Init => FeedInv
    <2> SUFFICES ASSUME Init PROVE FeedInv
      OBVIOUS
    <2>1. WindowInv
      BY WindowInvInit
    <2>2. AnomalyTable /\ RaisedIsRead
      BY DEF Init, AnomalyTable, RaisedIsRead
    <2>3. DOMAIN Inserted = {}
      BY DEF Init, Inserted
    <2>4. AnomaliesGoWithTheWatermark
      BY <2>3 DEF Init, AnomaliesGoWithTheWatermark, Range
    <2> QED
      BY <2>1, <2>2, <2>4 DEF FeedInv, AnomalyInv
  <1>2. FeedInv /\ [Next]_vars => FeedInv'
    BY LogStaysInOrder, MarksStay, CallsStay, ReadingStays, CoveringStays, AnomaliesStay
        DEF FeedInv, WindowInv
  <1>3. FeedInv => AnomaliesGoWithTheWatermark
    BY DEF FeedInv, AnomalyInv
  <1> QED
    BY <1>1, <1>2, <1>3, PTL DEF Spec
=============================================================================
