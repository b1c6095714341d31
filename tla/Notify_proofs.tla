---------------------------- MODULE Notify_proofs ----------------------------
(***************************************************************************)
(* Proofs of the properties of Notify, for every policy and any number of  *)
(* commands.                                                               *)
(*                                                                         *)
(* AntiSpamHolds speaks of the commands that count (Kept); the guard only  *)
(* sees what the file says, and a command saves what it made of an older   *)
(* file.  The invariant relates the two: the file covers every command     *)
(* that counts and may still matter, and so does the state each command    *)
(* under way is going to save, leaving out those it will overwrite.        *)
(***************************************************************************)
EXTENDS Notify, FiniteSetTheorems, TLAPS

Command ==
    [pc: {"idle", "send", "save"}, id: 0..MaxCommands, next: Guard, attempts: Nat,
     sent: BOOLEAN, arrived: Nat, unconfirmed: Nat, missed: SUBSET Number]

TypeOK ==
    /\ now \in Nat /\ commands \in 0..MaxCommands
    /\ policy \in Policies
    /\ file \in Guard \cup {Broken}
    /\ cmd \in [Process -> Command]
    /\ at \in [Number -> Nat \cup {Never}]
    /\ lost \subseteq Number

\* Numbers are given in the order of time.
InOrder ==
    /\ lost \subseteq Allowed
    /\ \A n \in Allowed : n <= commands /\ at[n] <= now
    /\ \A m, n \in Allowed : m <= n => at[m] <= at[n]

\* A command under way has a number of its own; what it will save ends with it.
Underway(p) ==
    /\ cmd[p].id \in Allowed \ lost /\ cmd[p].missed \subseteq Allowed
    /\ cmd[p].next.last = cmd[p].id
    /\ cmd[p].next.recent \subseteq Allowed /\ cmd[p].id \in cmd[p].next.recent
    /\ \A q \in Process :
          /\ cmd[p].id \notin cmd[q].missed
          /\ cmd[q].id = cmd[p].id \/ cmd[p].id \in cmd[q].next.recent => q = p

Flights ==
    \A p \in Process :
        IF cmd[p].pc = "idle"
        THEN cmd[p].id = 0 /\ cmd[p].missed = {} /\ cmd[p].next.recent = {}
        ELSE Underway(p)

FileIsHonest ==
    file # Broken =>
        /\ file.recent \subseteq Allowed \ {cmd[p].id : p \in Process}
        /\ file.last # Never => file.last \in Kept \cap file.recent

\* The file covers what may still matter of the commands that count ...
Covered ==
    \A m \in Kept :
        /\ now - at[m] < Hour => file # Broken /\ m \in file.recent
        /\ now - at[m] < policy.cooldown => file # Broken /\ file.last # Never /\ m <= file.last

\* ... and so does what a command under way will save, and the limit holds in it.
CoveredBy(p) ==
    /\ \A m \in Kept \ cmd[p].missed :
          /\ m < cmd[p].id /\ at[cmd[p].id] - at[m] >= policy.cooldown
          /\ at[cmd[p].id] - at[m] < Hour => m \in cmd[p].next.recent
    /\ policy.limit # NoLimit => Cardinality(cmd[p].next.recent) <= policy.limit

FlightsCovered == \A p \in Process : cmd[p].pc # "idle" => CoveredBy(p)

IInv ==
    /\ TypeOK /\ InOrder /\ Flights /\ FileIsHonest /\ Covered /\ FlightsCovered
    /\ AntiSpamHolds

-----------------------------------------------------------------------------
(* Facts about the constants and the sets.                                 *)

LEMMA Constants ==
    /\ Hour \in Nat \ {0} /\ MaxAttempts \in Nat \ {0} /\ MaxCommands \in Nat
    /\ NoLimit \notin Nat /\ Never \notin Int /\ Broken \notin Guard
    /\ \A p \in Policies : p.cooldown \in Nat /\ p.limit \in (Nat \ {0}) \cup {NoLimit}
    /\ 0 \in 0..MaxCommands
  BY NotifyAssumption

LEMMA NumbersAreFinite ==
    ASSUME NEW S \in SUBSET Number
    PROVE  IsFiniteSet(S) /\ Cardinality(S) \in Nat
  <1>1. IsFiniteSet(Number)
    BY NotifyAssumption, FS_Interval DEF Number
  <1> QED
    BY <1>1, FS_Subset, FS_CardinalityType

LEMMA SmallerSet ==
    ASSUME NEW S \in SUBSET Number, NEW T \in SUBSET S
    PROVE  Cardinality(T) <= Cardinality(S)
  BY NumbersAreFinite, FS_Subset

LEMMA AllowedIsTyped ==
    ASSUME TypeOK
    PROVE  /\ Allowed \subseteq Number /\ Kept \subseteq Allowed
           /\ \A n \in Allowed : at[n] \in Nat /\ n \in Nat
  BY NotifyAssumption DEF TypeOK, Allowed, Kept, Number

LEMMA EmptyIsTyped == Empty \in Guard /\ Idle \in Command
  BY NotifyAssumption DEF Empty, Guard, Idle, Command

-----------------------------------------------------------------------------
(* Steps that save nothing.                                                *)

\* Time passes, an attempt ends, the guard suppresses, or the broken file goes.
LEMMA QuietKeeps ==
    ASSUME IInv, cmd' \in [Process -> Command], UNCHANGED <<policy, at, lost>>,
           now' \in Nat, now' >= now, commands' \in 0..MaxCommands, commands' >= commands,
           UNCHANGED file \/ (file = Broken /\ file' = Empty),
           \A p \in Process :
               /\ cmd'[p].pc = "idle" <=> cmd[p].pc = "idle"
               /\ cmd'[p].id = cmd[p].id /\ cmd'[p].next = cmd[p].next
               /\ cmd'[p].missed = cmd[p].missed
    PROVE  IInv'
  <1>1. Allowed' = Allowed /\ Kept' = Kept
    BY DEF Allowed, Kept
  <1>2. TypeOK'
    BY EmptyIsTyped DEF IInv, TypeOK
  <1>3. \A n \in Allowed : n \in Nat /\ at[n] \in Nat
    BY AllowedIsTyped DEF IInv
  <1>4. now \in Nat /\ commands \in Nat /\ MaxCommands \in Nat
    BY Constants DEF IInv, TypeOK
  <1>5. InOrder'
    BY <1>1, <1>3, <1>4, Constants DEF IInv, InOrder
  <1>6. Flights' /\ FlightsCovered'
    BY <1>1 DEF IInv, Flights, Underway, FlightsCovered, CoveredBy
  <1>7. FileIsHonest'
    BY <1>1 DEF IInv, FileIsHonest, Empty
  <1>8. Covered'
    <2> SUFFICES ASSUME NEW m \in Kept
                 PROVE  /\ now' - at[m] < Hour => file' # Broken /\ m \in file'.recent
                        /\ now' - at[m] < policy.cooldown =>
                             file' # Broken /\ file'.last # Never /\ m <= file'.last
      BY <1>1 DEF Covered
    <2>1. at[m] \in Nat
      BY <1>3, AllowedIsTyped DEF IInv
    <2>2. /\ now' - at[m] < Hour => now - at[m] < Hour
          /\ now' - at[m] < policy.cooldown => now - at[m] < policy.cooldown
      BY <1>4, <2>1, Constants DEF IInv, TypeOK
    <2> QED
      BY <2>2 DEF IInv, Covered
  <1>9. AntiSpamHolds'
    BY <1>1 DEF IInv, AntiSpamHolds
  <1> QED
    BY <1>2, <1>5, <1>6, <1>7, <1>8, <1>9 DEF IInv

\* One command moves on in the fields that nothing else depends on.
LEMMA MovedKeeps ==
    ASSUME IInv, NEW p \in Process, cmd[p].pc = "send", NEW q \in Command,
           cmd' = [cmd EXCEPT ![p] = q], q.pc \in {"send", "save"},
           q.id = cmd[p].id, q.next = cmd[p].next, q.missed = cmd[p].missed,
           UNCHANGED <<now, policy, file, commands, at, lost>>
    PROVE  IInv'
  <1>1. cmd \in [Process -> Command] /\ now \in Nat /\ commands \in 0..MaxCommands
    BY DEF IInv, TypeOK
  <1>2. commands \in Nat
    BY <1>1, Constants
  <1> QED
    BY <1>1, <1>2, QuietKeeps

LEMMA SendingKeeps ==
    ASSUME IInv, NEW p \in Process, Deliver(p) \/ Reject(p) \/ PostFails(p)
    PROVE  IInv'
  <1>1. cmd[p] \in Command /\ cmd[p].pc = "send"
    BY DEF IInv, TypeOK, Deliver, Reject, PostFails
  <1>2. UNCHANGED <<now, policy, file, commands, at, lost>>
    BY DEF Deliver, Reject, PostFails, config, history
  <1>3. ASSUME NEW ok \in BOOLEAN, Returns(p, ok)
        PROVE  IInv'
    <2> DEFINE n == cmd[p].arrived + (IF ok THEN 1 ELSE 0)
               q == [cmd[p] EXCEPT !.pc = "save", !.sent = ok, !.arrived = n]
    <2>1. cmd' = [cmd EXCEPT ![p] = q]
      BY <1>3 DEF Returns
    <2>2. n \in Nat
      BY <1>1 DEF Command
    <2>3. q \in Command /\ q.pc = "save" /\ q.id = cmd[p].id /\ q.next = cmd[p].next
          /\ q.missed = cmd[p].missed
      <3> HIDE DEF n
      <3> QED
        BY <1>1, <2>2 DEF Command
    <2> HIDE DEF q
    <2> QED
      BY <1>1, <1>2, <2>1, <2>3, MovedKeeps
  <1>4. ASSUME PostFails(p)
        PROVE  IInv'
    <2>1. PICK came \in 0..1 :
            cmd' = [cmd EXCEPT ![p].attempts = @ + 1,
                               ![p].arrived = @ + came, ![p].unconfirmed = @ + came,
                               ![p].pc = IF Exhausted(cmd[p].attempts + 1) THEN "save" ELSE @]
      BY <1>4 DEF PostFails
    <2> DEFINE stage == IF Exhausted(cmd[p].attempts + 1) THEN "save" ELSE cmd[p].pc
               a == cmd[p].attempts + 1
               b == cmd[p].arrived + came
               c == cmd[p].unconfirmed + came
               q == [cmd[p] EXCEPT !.attempts = a, !.arrived = b, !.unconfirmed = c,
                                   !.pc = stage]
    <2>2. cmd' = [cmd EXCEPT ![p] = q]
      BY <2>1
    <2>3. stage \in {"send", "save"} /\ a \in Nat /\ b \in Nat /\ c \in Nat
      BY <1>1 DEF Command
    <2>4. q \in Command /\ q.pc \in {"send", "save"} /\ q.id = cmd[p].id
          /\ q.next = cmd[p].next /\ q.missed = cmd[p].missed
      <3> HIDE DEF stage, a, b, c
      <3> QED
        BY <1>1, <2>3 DEF Command
    <2> HIDE DEF q
    <2> QED
      BY <1>1, <1>2, <2>2, <2>4, MovedKeeps
  <1> QED
    BY <1>3, <1>4 DEF Deliver, Reject

LEMMA IdleStepsKeep ==
    ASSUME IInv,
           Tick \/ Remove \/ UNCHANGED vars \/ \E p \in Process : Suppress(p) \/ LoadFails(p)
    PROVE  IInv'
  <1>1. cmd \in [Process -> Command] /\ now \in Nat /\ commands \in 0..MaxCommands
        /\ MaxCommands \in Nat
    BY Constants DEF IInv, TypeOK
  <1>2. /\ UNCHANGED <<cmd, policy, at, lost>> /\ now' \in Nat /\ now' >= now
        /\ UNCHANGED file \/ (file = Broken /\ file' = Empty)
    BY <1>1 DEF Tick, Remove, Suppress, LoadFails, vars, config, history
  <1>3. commands' \in 0..MaxCommands /\ commands' >= commands
    BY <1>1 DEF Tick, Remove, Suppress, LoadFails, vars, config, history, Call
  <1>4. /\ cmd' \in [Process -> Command]
        /\ \A p \in Process :
               /\ cmd'[p].pc = "idle" <=> cmd[p].pc = "idle"
               /\ cmd'[p].id = cmd[p].id /\ cmd'[p].next = cmd[p].next
               /\ cmd'[p].missed = cmd[p].missed
    BY <1>1, <1>2
  <1> QED
    BY <1>2, <1>3, <1>4, QuietKeeps

-----------------------------------------------------------------------------
(* The guard lets a command through.                                       *)

\* Recent is what the last hour holds of the file.
LEMMA RecentIsBounded ==
    ASSUME IInv, file # Broken
    PROVE  /\ Recent(file) \subseteq Allowed /\ IsFiniteSet(Recent(file))
           /\ Cardinality(Recent(file)) \in Nat
  <1>1. Recent(file) \subseteq Allowed
    BY DEF IInv, FileIsHonest, Recent
  <1>2. Recent(file) \in SUBSET Number
    BY <1>1, AllowedIsTyped DEF IInv
  <1> QED
    BY <1>1, <1>2, NumbersAreFinite

LEMMA AllowKeeps ==
    ASSUME IInv, NEW p \in Process, Allow(p)
    PROVE  IInv'
  <1> DEFINE n == commands + 1
             next == [last |-> n, recent |-> Recent(file) \cup {n}]
             q == [Idle EXCEPT !.pc = "send", !.id = n, !.next = next]
  <1>1. /\ cmd[p].pc = "idle" /\ commands < MaxCommands /\ commands' = n
        /\ file # Broken /\ ~Cooling(file) /\ ~Full(file)
        /\ cmd' = [cmd EXCEPT ![p] = q] /\ at' = [at EXCEPT ![n] = now]
        /\ UNCHANGED <<now, policy, file, lost>>
    BY DEF Allow, Call, config
  <1>2. /\ now \in Nat /\ commands \in Nat /\ MaxCommands \in Nat /\ n \in Number
        /\ n \in 0..MaxCommands /\ n \in Nat /\ n > commands
    BY <1>1, Constants DEF IInv, TypeOK, Number
  <1>3. /\ cmd \in [Process -> Command] /\ at \in [Number -> Nat \cup {Never}]
        /\ \A m \in Allowed : m \in Number /\ m \in Nat /\ at[m] \in Nat /\ m <= commands
                              /\ at[m] <= now
        /\ Kept \subseteq Allowed /\ lost \subseteq Allowed
    BY AllowedIsTyped DEF IInv, TypeOK, InOrder
  <1>4. n \notin Allowed /\ n \notin lost
    BY <1>2, <1>3
  <1>5. /\ at'[n] = now /\ \A m \in Allowed : at'[m] = at[m]
        /\ Allowed' = Allowed \cup {n}
    BY <1>1, <1>2, <1>3, <1>4, Constants DEF Allowed
  <1>6. next \in Guard
    <2>1. Recent(file) \in SUBSET Number
      BY <1>1, <1>3, RecentIsBounded
    <2> QED
      BY <1>2, <2>1 DEF Guard
  <1>7. q \in Command /\ q.pc = "send" /\ q.id = n /\ q.next = next /\ q.missed = {}
    <2> HIDE DEF n, next
    <2> QED
      BY <1>2, <1>6 DEF Idle, Command
  <1> HIDE DEF q
  <1>8. /\ cmd'[p] = q /\ cmd[p].id = 0
        /\ \A r \in Process \ {p} : cmd'[r] = cmd[r]
    BY <1>1, <1>3 DEF IInv, Flights
  <1>9. Kept' = Kept
    <2>1. 0 \notin Allowed
      BY <1>3 DEF Number
    <2>2. {cmd'[r].id : r \in Process} = ({cmd[r].id : r \in Process \ {p}}) \cup {n}
      BY <1>7, <1>8
    <2>3. {cmd[r].id : r \in Process} = ({cmd[r].id : r \in Process \ {p}}) \cup {0}
      BY <1>8
    <2> QED
      BY <1>1, <1>4, <1>5, <2>1, <2>2, <2>3 DEF Kept
  <1>10. TypeOK'
    BY <1>1, <1>2, <1>3, <1>7 DEF IInv, TypeOK
  <1>11. InOrder'
    BY <1>1, <1>2, <1>3, <1>5 DEF IInv, InOrder
  <1>12. Flights'
    <2>1. Underway(p)'
      <3>1. next.last = n /\ next.recent \subseteq Allowed' /\ n \in next.recent
        BY <1>1, <1>5, RecentIsBounded
      <3>2. ASSUME NEW r \in Process, r # p, cmd[r].id = n
            PROVE  FALSE
        BY <1>2, <1>3, <1>4, <3>2 DEF IInv, Flights, Underway
      <3>3. ASSUME NEW r \in Process, n \in cmd'[r].missed
            PROVE  FALSE
        <4>1. r # p /\ cmd'[r] = cmd[r]
          BY <1>7, <1>8, <3>3
        <4> QED
          BY <1>4, <3>3, <4>1 DEF IInv, Flights, Underway
      <3>4. ASSUME NEW r \in Process, r # p
            PROVE  n \notin cmd[r].next.recent
        BY <1>4 DEF IInv, Flights, Underway
      <3>5. n \in Allowed' \ lost'
        BY <1>1, <1>4, <1>5
      <3> HIDE DEF n, next
      <3> QED
        BY <1>7, <1>8, <3>1, <3>2, <3>3, <3>4, <3>5 DEF Underway
    <2>2. ASSUME NEW r \in Process, r # p, cmd[r].pc # "idle"
          PROVE  Underway(r)'
      <3>1. Underway(r) /\ cmd'[r] = cmd[r]
        BY <1>8, <2>2 DEF IInv, Flights
      <3>2. cmd'[r].id # cmd'[p].id /\ cmd'[p].missed = {}
        BY <1>4, <1>7, <1>8, <3>1 DEF Underway
      <3>3. cmd'[r].id \notin cmd'[p].next.recent
        <4>1. cmd[r].id \notin Recent(file)
          BY <1>1 DEF IInv, FileIsHonest, Recent
        <4> QED
          BY <1>7, <1>8, <3>1, <3>2, <4>1
      <3> QED
        BY <1>1, <1>5, <1>8, <3>1, <3>2, <3>3 DEF Underway
    <2> QED
      BY <1>7, <1>8, <2>1, <2>2 DEF IInv, Flights
  <1>13. FileIsHonest'
    <2>1. file.recent \subseteq Allowed /\ n \notin file.recent
      BY <1>1, <1>4 DEF IInv, FileIsHonest
    <2>2. \A r \in Process : cmd'[r].id \notin file.recent
      BY <1>1, <1>7, <1>8, <2>1 DEF IInv, FileIsHonest
    <2> QED
      BY <1>1, <1>5, <1>9, <2>1, <2>2 DEF IInv, FileIsHonest
  <1>14. Covered'
    BY <1>1, <1>3, <1>5, <1>9 DEF IInv, Covered
  <1>15. CoveredBy(p)'
    <2>1. ASSUME NEW m \in Kept
          PROVE  m < n /\ now - at[m] >= policy.cooldown
                 /\ (now - at[m] < Hour => m \in Recent(file))
      <3>1. m < n /\ m \in Allowed /\ at[m] \in Nat
        BY <1>2, <1>3
      <3>2. now - at[m] >= policy.cooldown
        <4> SUFFICES ASSUME now - at[m] < policy.cooldown PROVE FALSE
          BY <1>2, <3>1, Constants DEF IInv, TypeOK
        <4>1. file.last # Never /\ m <= file.last /\ file.last \in Allowed
          BY <1>1, <1>3 DEF IInv, Covered, FileIsHonest
        <4>2. at[m] <= at[file.last] /\ at[file.last] \in Nat
          BY <1>3, <3>1, <4>1 DEF IInv, InOrder
        <4>3. now - at[file.last] < policy.cooldown
          BY <1>2, <3>1, <4>2, Constants DEF IInv, TypeOK
        <4> QED
          BY <1>1, <4>1, <4>3 DEF Cooling
      <3>3. now - at[m] < Hour => m \in Recent(file)
        BY <1>2, <3>1, Constants DEF IInv, Covered, Recent
      <3> QED
        BY <3>1, <3>2, <3>3
    <2>2. policy.limit # NoLimit => Cardinality(Recent(file) \cup {n}) <= policy.limit
      <3> SUFFICES ASSUME policy.limit # NoLimit
                   PROVE  Cardinality(Recent(file) \cup {n}) <= policy.limit
        OBVIOUS
      <3>1. policy.limit \in Nat /\ Cardinality(Recent(file)) < policy.limit
            /\ IsFiniteSet(Recent(file)) /\ Cardinality(Recent(file)) \in Nat
        BY <1>1, Constants, RecentIsBounded DEF Full, IInv, TypeOK
      <3>2. n \notin Recent(file)
        BY <1>1, <1>4, RecentIsBounded
      <3> HIDE DEF n
      <3>3. Cardinality(Recent(file) \cup {n}) = Cardinality(Recent(file)) + 1
        BY <3>1, <3>2, FS_AddElement
      <3> QED
        BY <3>1, <3>3
    <2>3. /\ cmd'[p].id = n /\ cmd'[p].next.recent = Recent(file) \cup {n}
          /\ cmd'[p].missed = {} /\ policy' = policy
      BY <1>1, <1>7, <1>8
    <2> HIDE DEF n
    <2> QED
      BY <1>3, <1>5, <1>9, <2>1, <2>2, <2>3 DEF CoveredBy
  <1>16. FlightsCovered'
    <2>1. ASSUME NEW r \in Process, r # p, cmd[r].pc # "idle"
          PROVE  CoveredBy(r)'
      <3>1. CoveredBy(r) /\ Underway(r) /\ cmd'[r] = cmd[r]
        BY <1>8, <2>1 DEF IInv, Flights, FlightsCovered
      <3>2. cmd[r].id \in Allowed
        BY <3>1 DEF Underway
      <3> QED
        BY <1>1, <1>3, <1>5, <1>9, <3>1, <3>2 DEF CoveredBy
    <2> QED
      BY <1>8, <1>15, <2>1 DEF FlightsCovered
  <1>17. AntiSpamHolds'
    <2>1. \A m \in Kept : at'[m] = at[m]
      BY <1>3, <1>5
    <2>2. \A m \in Kept : {k \in Kept : at'[k] \in (at'[m] - Hour + 1)..at'[m]}
                          = {k \in Kept : at[k] \in (at[m] - Hour + 1)..at[m]}
      BY <2>1
    <2> QED
      BY <1>1, <1>9, <2>1, <2>2 DEF IInv, AntiSpamHolds
  <1> QED
    BY <1>10, <1>11, <1>12, <1>13, <1>14, <1>16, <1>17 DEF IInv

-----------------------------------------------------------------------------
(* A command saves, or ends without saving.                                *)

LEMMA SaveKeeps ==
    ASSUME IInv, NEW p \in Process, Save(p)
    PROVE  IInv'
  <1> DEFINE id == cmd[p].id
             missed == cmd[p].missed
             next == cmd[p].next
  <1>1. /\ cmd[p].pc # "idle" /\ file' = next /\ lost' = lost \cup missed
        /\ UNCHANGED <<now, policy, commands, at>>
    BY DEF Save, config
  <1>2. /\ cmd \in [Process -> Command] /\ now \in Nat /\ cmd[p] \in Command /\ next \in Guard
        /\ policy.cooldown \in Nat
    BY Constants DEF IInv, TypeOK, Command
  <1>3. Underway(p) /\ CoveredBy(p)
    BY <1>1 DEF IInv, Flights, FlightsCovered
  <1>4. cmd'[p] = Idle
    BY <1>2 DEF Save, Saved
  <1>5. ASSUME NEW q \in Process, q # p
        PROVE  IF cmd[q].pc = "idle" THEN cmd'[q] = cmd[q]
               ELSE /\ cmd'[q] \in Command /\ cmd'[q].pc = cmd[q].pc /\ cmd'[q].id = cmd[q].id
                    /\ cmd'[q].next = cmd[q].next /\ cmd'[q].missed = cmd[q].missed \cup {id}
    <2>1. cmd'[q] = IF cmd[q].pc = "idle" THEN cmd[q]
                    ELSE [cmd[q] EXCEPT !.missed = @ \cup {id}]
      BY <1>5 DEF Save, Saved
    <2>2. id \in Number /\ cmd[q] \in Command
      BY <1>2, <1>3, AllowedIsTyped DEF IInv, Underway
    <2> HIDE DEF id
    <2> QED
      BY <2>1, <2>2 DEF Command
  <1>6. /\ id \in Allowed /\ missed \subseteq Allowed /\ id \notin lost \cup missed
        /\ Allowed' = Allowed /\ Allowed \subseteq Number /\ lost \subseteq Allowed
        /\ \A n \in Allowed : n \in Nat /\ at[n] \in Nat /\ at[n] <= now
        /\ \A m, n \in Allowed : m <= n => at[m] <= at[n]
    BY <1>1, <1>3, AllowedIsTyped DEF IInv, InOrder, Underway, Allowed
  <1>7. /\ id \in Kept'
        /\ \A m \in Kept' : m = id \/ m \in Kept \ missed
        /\ Kept' \subseteq Allowed
    <2>1. \A q \in Process : cmd'[q].id # id
      BY <1>2, <1>3, <1>4, <1>5, <1>6 DEF Underway, Idle, Number
    <2>2. \A q \in Process \ {p} : cmd'[q].id = cmd[q].id
      BY <1>5
    <2> QED
      BY <1>1, <1>6, <2>1, <2>2 DEF Kept
  <1>8. ASSUME NEW m \in Kept \ missed
        PROVE  /\ m < id /\ at[id] - at[m] >= policy.cooldown
               /\ at[id] - at[m] < Hour => m \in next.recent
               /\ m \in Allowed
    BY <1>3 DEF CoveredBy, Kept
  <1>9. TypeOK'
    <2>1. \A q \in Process : cmd'[q] \in Command
      BY <1>2, <1>4, <1>5, EmptyIsTyped
    <2>2. cmd' = [q \in Process |-> cmd'[q]]
      BY DEF Save, Saved
    <2>3. cmd' \in [Process -> Command]
      BY <2>1, <2>2
    <2>4. lost' \subseteq Number
      BY <1>1, <1>6
    <2> HIDE DEF next
    <2> QED
      BY <1>1, <1>2, <2>3, <2>4 DEF IInv, TypeOK
  <1>10. InOrder'
    BY <1>1, <1>6 DEF IInv, InOrder
  <1>11. Flights'
    <2>1. /\ cmd'[p].pc = "idle" /\ cmd'[p].id = 0 /\ cmd'[p].missed = {}
          /\ cmd'[p].next.recent = {}
      BY <1>4 DEF Idle, Empty
    <2>2. ASSUME NEW q \in Process, q # p, cmd[q].pc = "idle"
          PROVE  /\ cmd'[q].pc = "idle" /\ cmd'[q].id = 0 /\ cmd'[q].missed = {}
                 /\ cmd'[q].next.recent = {}
      BY <1>5, <2>2 DEF IInv, Flights
    <2>3. ASSUME NEW q \in Process, q # p, cmd[q].pc # "idle"
          PROVE  cmd'[q].pc # "idle" /\ Underway(q)'
      <3>1. Underway(q)
        BY <2>3 DEF IInv, Flights
      <3>2. cmd[q].id # id /\ cmd[q].id \notin missed
        BY <1>3, <2>3, <3>1 DEF Underway
      <3>3. ASSUME NEW r \in Process
            PROVE  /\ cmd[q].id \notin cmd'[r].missed
                   /\ cmd'[r].id = cmd[q].id \/ cmd[q].id \in cmd'[r].next.recent => r = q
        <4>1. CASE r = p
          BY <1>4, <1>6, <3>1, <4>1, 0 \notin Number DEF Idle, Empty, Underway, Number
        <4>2. CASE r # p
          BY <1>5, <3>1, <3>2, <4>2 DEF Underway
        <4> QED
          BY <4>1, <4>2
      <3>4. /\ cmd'[q].pc # "idle" /\ cmd'[q].id = cmd[q].id /\ cmd'[q].next = cmd[q].next
            /\ cmd'[q].missed = cmd[q].missed \cup {id}
        BY <1>5, <2>3
      <3>5. cmd[q].id \in Allowed' \ lost' /\ cmd'[q].missed \subseteq Allowed'
        BY <1>1, <1>6, <3>1, <3>2, <3>4 DEF Underway
      <3> QED
        BY <1>6, <3>1, <3>3, <3>4, <3>5 DEF Underway
    <2> QED
      BY <2>1, <2>2, <2>3 DEF Flights
  <1>12. FileIsHonest'
    <2>1. \A q \in Process : cmd'[q].id \notin next.recent
      <3>1. ASSUME NEW q \in Process, q # p, cmd[q].pc # "idle"
            PROVE  cmd[q].id \notin next.recent
        BY <3>1 DEF IInv, Flights, Underway
      <3>2. \A q \in Process : cmd'[q].id = 0 \/ (q # p /\ cmd[q].pc # "idle" /\ cmd'[q].id = cmd[q].id)
        BY <1>4, <1>5 DEF Idle, IInv, Flights
      <3> QED
        BY <1>3, <1>6, <3>1, <3>2, 0 \notin Number DEF Underway, Number
    <2> QED
      BY <1>1, <1>3, <1>6, <1>7, <2>1 DEF FileIsHonest, Underway
  <1>13. Covered'
    <2> SUFFICES ASSUME NEW m \in Kept'
                 PROVE  /\ now - at[m] < Hour => file' # Broken /\ m \in file'.recent
                        /\ now - at[m] < policy.cooldown =>
                             file' # Broken /\ file'.last # Never /\ m <= file'.last
      BY <1>1 DEF Covered
    <2>1. next # Broken
      BY <1>2, Constants
    <2>2. id \in next.recent /\ next.last = id /\ id # Never /\ id \in Nat
      BY <1>3, <1>6, Constants DEF Underway
    <2>3. CASE m = id
      <3> QED
        BY <1>1, <2>1, <2>2, <2>3
    <2>4. CASE m \in Kept \ missed
      <3>1. m \in Nat /\ m < id /\ at[m] \in Nat /\ at[id] \in Nat /\ at[id] <= now
        BY <1>6, <1>8, <2>4
      <3>2. now - at[m] < Hour => m \in next.recent
        BY <1>2, <1>8, <2>4, <3>1, Constants
      <3> QED
        BY <1>1, <2>1, <2>2, <3>1, <3>2
    <2> QED
      BY <1>7, <2>3, <2>4
  <1>14. FlightsCovered'
    <2>1. ASSUME NEW q \in Process, cmd'[q].pc # "idle"
          PROVE  CoveredBy(q)'
      <3>1. q # p
        BY <1>4, <2>1 DEF Idle
      <3>2. /\ CoveredBy(q) /\ cmd'[q].id = cmd[q].id /\ cmd'[q].next = cmd[q].next
            /\ cmd'[q].missed = cmd[q].missed \cup {id}
        BY <1>5, <2>1, <3>1 DEF IInv, FlightsCovered
      <3>3. Kept' \ cmd'[q].missed \subseteq Kept \ cmd[q].missed
        BY <1>7, <3>2
      <3> QED
        BY <1>1, <3>2, <3>3 DEF CoveredBy
    <2> QED
      BY <2>1 DEF FlightsCovered
  <1>15. AntiSpamHolds'
    <2>1. ASSUME NEW m \in Kept', NEW n \in Kept', m < n
          PROVE  at[n] - at[m] >= policy.cooldown
      <3>1. CASE n = id
        BY <1>6, <1>7, <1>8, <2>1, <3>1
      <3>2. CASE n # id
        <4>1. n \in Kept /\ n < id /\ n \in Nat /\ id \in Nat /\ m \in Nat
          BY <1>6, <1>7, <1>8, <3>2
        <4>2. m \in Kept
          BY <1>7, <2>1, <4>1
        <4> QED
          BY <2>1, <4>1, <4>2 DEF IInv, AntiSpamHolds
      <3> QED
        BY <3>1, <3>2
    <2> DEFINE Then(m) == {n \in Kept' : at[n] \in (at[m] - Hour + 1)..at[m]}
    <2>2. ASSUME policy.limit # NoLimit, NEW m \in Kept'
          PROVE  Cardinality(Then(m)) <= policy.limit
      <3>1. policy.limit \in Nat
        BY <2>2, Constants DEF IInv, TypeOK
      <3>2. Cardinality(Then(id)) <= policy.limit
        <4>1. Then(id) \subseteq next.recent
          <5> SUFFICES ASSUME NEW n \in Then(id) PROVE n \in next.recent
            OBVIOUS
          <5>1. n \in Kept' /\ at[n] \in Nat /\ at[id] \in Nat /\ at[n] > at[id] - Hour
            BY <1>6, <1>7, Constants
          <5>2. CASE n = id
            BY <1>3, <5>2 DEF Underway
          <5>3. CASE n \in Kept \ missed
            BY <1>8, <5>1, <5>3, Constants
          <5> QED
            BY <1>7, <5>1, <5>2, <5>3
        <4>2. next.recent \in SUBSET Number
          BY <1>3, <1>6 DEF Underway
        <4>3. Cardinality(next.recent) <= policy.limit
          BY <1>3, <2>2 DEF CoveredBy
        <4>4. Cardinality(Then(id)) <= Cardinality(next.recent)
          <5> HIDE DEF Then, next
          <5> QED
            BY <4>1, <4>2, SmallerSet
        <4>5. Then(id) \in SUBSET Number
          BY <4>1, <4>2
        <4>6. Cardinality(Then(id)) \in Nat /\ Cardinality(next.recent) \in Nat
          <5> HIDE DEF Then, next
          <5> QED
            BY <4>2, <4>5, NumbersAreFinite
        <4> HIDE DEF Then, next
        <4> QED
          BY <3>1, <4>3, <4>4, <4>6
      <3>3. CASE id \in Then(m)
        <4>1. at[id] <= at[m] /\ at[m] \in Nat /\ at[id] \in Nat
          BY <1>6, <1>7, <3>3
        <4>2. at[m] <= at[id]
          BY <1>6, <1>7, <1>8, <4>1
        <4>3. at[m] = at[id]
          BY <4>1, <4>2
        <4> QED
          BY <3>2, <4>3
      <3>4. CASE id \notin Then(m)
        <4> DEFINE Before == {n \in Kept : at[n] \in (at[m] - Hour + 1)..at[m]}
        <4>1. id \in Then(id)
          BY <1>6, <1>7, Constants
        <4>2. m \in Kept
          BY <1>7, <3>4, <4>1
        <4>3. Then(m) \subseteq Before
          BY <1>7, <3>4
        <4>4. Before \in SUBSET Number
          BY AllowedIsTyped DEF IInv
        <4>5. Cardinality(Before) <= policy.limit
          BY <2>2, <4>2 DEF IInv, AntiSpamHolds
        <4> HIDE DEF Then, Before
        <4>6. Then(m) \in SUBSET Number
          BY <4>3, <4>4
        <4>7. Cardinality(Then(m)) <= Cardinality(Before)
          BY <4>3, <4>4, SmallerSet
        <4>8. Cardinality(Then(m)) \in Nat /\ Cardinality(Before) \in Nat
          BY <4>4, <4>6, NumbersAreFinite
        <4> QED
          BY <3>1, <4>5, <4>7, <4>8
      <3> QED
        BY <3>3, <3>4
    <2> QED
      BY <1>1, <2>1, <2>2 DEF AntiSpamHolds
  <1> QED
    BY <1>9, <1>10, <1>11, <1>12, <1>13, <1>14, <1>15 DEF IInv

\* Fewer commands count, and one that was under way ends.
LEMMA FewerCount ==
    ASSUME IInv, lost' \subseteq Allowed, lost \subseteq lost', UNCHANGED <<policy, at>>,
           cmd' \in [Process -> Command],
           \A q \in Process :
               \/ cmd'[q] = cmd[q]
               \/ cmd'[q] = Idle /\ cmd[q].id \in lost' \cup {0},
           \A q \in Process : cmd'[q].pc # "idle" => cmd[q].id \notin lost'
    PROVE  /\ Kept' \subseteq Kept \ lost' /\ Kept \subseteq Kept' \cup lost'
           /\ Flights' /\ FlightsCovered' /\ AntiSpamHolds'
  <1>1. Allowed' = Allowed /\ Allowed \subseteq Number /\ Kept \subseteq Allowed
        /\ \A n \in Allowed : at[n] \in Nat
    BY AllowedIsTyped DEF IInv, Allowed
  <1>2. 0 \notin Allowed
    BY <1>1 DEF Number
  <1>3. Idle.id = 0 /\ Idle.pc = "idle" /\ Idle.missed = {} /\ Idle.next.recent = {}
    BY DEF Idle, Empty
  <1>4. Kept' \subseteq Kept \ lost' /\ Kept \subseteq Kept' \cup lost'
    <2>1. \A q \in Process : cmd[q].id \in lost' \/ cmd[q].id = 0 \/ cmd[q].id = cmd'[q].id
      BY <1>3
    <2>2. \A q \in Process : cmd'[q].id = 0 \/ cmd[q].id = cmd'[q].id
      BY <1>3
    <2> QED
      BY <1>1, <1>2, <2>1, <2>2 DEF Kept
  <1>5. Flights'
    <2>1. ASSUME NEW q \in Process, cmd'[q].pc # "idle"
          PROVE  Underway(q)'
      <3>1. cmd'[q] = cmd[q] /\ Underway(q)
        BY <1>3, <2>1 DEF IInv, Flights
      <3>2. \A r \in Process :
               /\ cmd'[r].id \in {0, cmd[r].id} /\ cmd'[r].missed \subseteq cmd[r].missed
               /\ cmd'[r].next.recent \subseteq cmd[r].next.recent
        BY <1>3
      <3>3. cmd[q].id \in Allowed \ lost'
        BY <2>1, <3>1 DEF Underway
      <3> QED
        BY <1>1, <1>2, <3>1, <3>2, <3>3 DEF Underway
    <2>2. ASSUME NEW q \in Process, cmd'[q].pc = "idle"
          PROVE  cmd'[q].id = 0 /\ cmd'[q].missed = {} /\ cmd'[q].next.recent = {}
      BY <1>3, <2>2 DEF IInv, Flights
    <2> QED
      BY <2>1, <2>2 DEF Flights
  <1>6. FlightsCovered'
    <2>1. ASSUME NEW q \in Process, cmd'[q].pc # "idle"
          PROVE  CoveredBy(q)'
      <3>1. cmd'[q] = cmd[q] /\ CoveredBy(q)
        BY <1>3, <2>1 DEF IInv, FlightsCovered
      <3> QED
        BY <1>4, <3>1 DEF CoveredBy
    <2> QED
      BY <2>1 DEF FlightsCovered
  <1>7. AntiSpamHolds'
    <2> DEFINE Then(m) == {n \in Kept' : at[n] \in (at[m] - Hour + 1)..at[m]}
               Before(m) == {n \in Kept : at[n] \in (at[m] - Hour + 1)..at[m]}
    <2>1. ASSUME policy.limit # NoLimit, NEW m \in Kept'
          PROVE  Cardinality(Then(m)) <= policy.limit
      <3>1. policy.limit \in Nat
        BY <2>1, Constants DEF IInv, TypeOK
      <3>2. Then(m) \subseteq Before(m) /\ Before(m) \in SUBSET Number
        BY <1>1, <1>4
      <3>3. Cardinality(Before(m)) <= policy.limit
        BY <1>4, <2>1 DEF IInv, AntiSpamHolds
      <3> HIDE DEF Then, Before
      <3>4. Then(m) \in SUBSET Number
        BY <3>2
      <3>5. Cardinality(Then(m)) <= Cardinality(Before(m))
        BY <3>2, SmallerSet
      <3>6. Cardinality(Then(m)) \in Nat /\ Cardinality(Before(m)) \in Nat
        BY <3>2, <3>4, NumbersAreFinite
      <3> QED
        BY <3>1, <3>3, <3>5, <3>6
    <2>2. \A m, n \in Kept' : m < n => at[n] - at[m] >= policy.cooldown
      BY <1>4 DEF IInv, AntiSpamHolds
    <2> QED
      BY <2>1, <2>2 DEF AntiSpamHolds
  <1> QED
    BY <1>4, <1>5, <1>6, <1>7

LEMMA CrashKeeps ==
    ASSUME IInv, NEW p \in Process, Crash(p) \/ AppendFails(p)
    PROVE  IInv'
  <1>1. /\ cmd[p].pc # "idle" /\ lost' = lost \cup {cmd[p].id}
        /\ cmd' = [cmd EXCEPT ![p] = Idle]
        /\ UNCHANGED <<now, policy, file, commands, at>>
    BY DEF Crash, AppendFails, Leave, config
  <1>2. Underway(p) /\ lost \subseteq Allowed
    BY <1>1 DEF IInv, Flights, InOrder
  <1>3. cmd \in [Process -> Command] /\ cmd' \in [Process -> Command]
    BY <1>1, EmptyIsTyped DEF IInv, TypeOK
  <1>4. /\ cmd'[p] = Idle /\ \A q \in Process \ {p} : cmd'[q] = cmd[q]
        /\ Allowed' = Allowed /\ Allowed \subseteq Number
    BY <1>1, <1>3, AllowedIsTyped DEF IInv, Allowed
  <1>5. lost' \subseteq Allowed /\ lost \subseteq lost'
    BY <1>1, <1>2 DEF Underway
  <1>6. ASSUME NEW q \in Process, cmd'[q].pc # "idle"
        PROVE  cmd[q].id \notin lost'
    <2>1. q # p
      BY <1>4, <1>6 DEF Idle
    <2>2. Underway(q) /\ cmd[q].id # cmd[p].id
      BY <1>2, <1>4, <1>6, <2>1 DEF IInv, Flights, Underway
    <2> QED
      BY <1>1, <2>2 DEF Underway
  <1>7. ASSUME NEW q \in Process
        PROVE  cmd'[q] = cmd[q] \/ (cmd'[q] = Idle /\ cmd[q].id \in lost' \cup {0})
    BY <1>1, <1>4
  <1>8. /\ Kept' \subseteq Kept \ lost' /\ Kept \subseteq Kept' \cup lost'
        /\ Flights' /\ FlightsCovered' /\ AntiSpamHolds'
    BY <1>1, <1>3, <1>5, <1>6, <1>7, FewerCount
  <1>9. Kept' = Kept
    BY <1>1, <1>8 DEF Kept
  <1>10. TypeOK' /\ InOrder'
    BY <1>1, <1>3, <1>4, <1>5 DEF IInv, TypeOK, InOrder
  <1>11. FileIsHonest'
    <2>1. \A q \in Process : cmd'[q].id \in {0, cmd[q].id}
      BY <1>4 DEF Idle
    <2> QED
      BY <1>1, <1>4, <1>9, <2>1, 0 \notin Number DEF IInv, FileIsHonest, Number
  <1>12. Covered'
    BY <1>1, <1>9 DEF IInv, Covered
  <1> QED
    BY <1>8, <1>10, <1>11, <1>12 DEF IInv

\* What the lost file did not list is no longer of any consequence.
LEMMA DecayKeeps ==
    ASSUME IInv, Decay
    PROVE  IInv'
  <1>1. /\ file # Broken /\ file' = Broken /\ lost' = lost \cup file.recent
        /\ UNCHANGED <<now, policy, cmd, commands, at>>
    BY DEF Decay, config
  <1>2. /\ file.recent \subseteq Allowed /\ lost \subseteq Allowed
        /\ cmd \in [Process -> Command] /\ now \in Nat /\ policy.cooldown \in Nat
        /\ Allowed' = Allowed /\ Allowed \subseteq Number /\ Kept \subseteq Allowed
        /\ \A n \in Allowed : n \in Nat /\ at[n] \in Nat /\ at[n] <= now
    BY <1>1, AllowedIsTyped, Constants DEF IInv, InOrder, FileIsHonest, TypeOK, Allowed
  <1>3. lost' \subseteq Allowed /\ lost \subseteq lost'
    BY <1>1, <1>2
  <1>4. ASSUME NEW q \in Process, cmd'[q].pc # "idle"
        PROVE  cmd[q].id \notin lost'
    BY <1>1, <1>4 DEF IInv, Flights, Underway, FileIsHonest
  <1>5. /\ Kept' \subseteq Kept \ lost'
        /\ Flights' /\ FlightsCovered' /\ AntiSpamHolds'
    BY <1>1, <1>2, <1>3, <1>4, FewerCount
  <1>6. TypeOK' /\ InOrder' /\ FileIsHonest'
    BY <1>1, <1>2, <1>3 DEF IInv, TypeOK, InOrder, FileIsHonest
  <1>7. Covered'
    <2> SUFFICES ASSUME NEW m \in Kept'
                 PROVE  now - at[m] >= Hour /\ now - at[m] >= policy.cooldown
      BY <1>1, <1>2, <1>5, Constants DEF Covered
    <2>1. m \in Kept /\ m \notin file.recent /\ m \in Nat /\ at[m] \in Nat
      BY <1>1, <1>2, <1>5
    <2>2. now - at[m] >= Hour
      BY <1>2, <2>1, Constants DEF IInv, Covered
    <2>3. now - at[m] >= policy.cooldown
      <3> SUFFICES ASSUME now - at[m] < policy.cooldown
                   PROVE  FALSE
        BY <1>2, <2>1
      <3>1. file.last # Never /\ m <= file.last
        BY <2>1 DEF IInv, Covered
      <3>2. file.last \in Kept /\ file.last # m
        BY <1>1, <2>1, <3>1 DEF IInv, FileIsHonest
      <3>3. file.last \in Nat /\ at[file.last] \in Nat /\ at[file.last] <= now
        BY <1>2, <3>2
      <3>4. at[file.last] - at[m] >= policy.cooldown
        BY <2>1, <3>1, <3>2, <3>3 DEF IInv, AntiSpamHolds
      <3> QED
        BY <1>2, <2>1, <3>3, <3>4
    <2> QED
      BY <2>2, <2>3
  <1> QED
    BY <1>5, <1>6, <1>7 DEF IInv

-----------------------------------------------------------------------------

LEMMA InitKeeps == Init => IInv
  <1> SUFFICES ASSUME Init PROVE IInv
    OBVIOUS
  <1>1. Allowed = {} /\ Kept = {}
    BY Constants DEF Init, Allowed, Kept
  <1>2. \A p \in Process : cmd[p] = Idle
    BY DEF Init
  <1>3. TypeOK
    BY Constants, EmptyIsTyped DEF Init, TypeOK
  <1>4. InOrder /\ Covered /\ AntiSpamHolds
    BY <1>1 DEF Init, InOrder, Covered, AntiSpamHolds
  <1>5. Flights /\ FlightsCovered /\ FileIsHonest
    BY <1>2 DEF Init, Idle, Empty, Flights, FlightsCovered, FileIsHonest
  <1> QED
    BY <1>3, <1>4, <1>5 DEF IInv

LEMMA NextKeeps == IInv /\ [Next]_vars => IInv'
  <1> SUFFICES ASSUME IInv, [Next]_vars PROVE IInv'
    OBVIOUS
  <1>1. CASE Tick \/ Remove \/ UNCHANGED vars
    BY <1>1, IdleStepsKeep
  <1>2. CASE Decay
    BY <1>2, DecayKeeps
  <1>3. ASSUME NEW p \in Process, Step(p)
        PROVE  IInv'
    <2>1. CASE Suppress(p) \/ LoadFails(p)
      BY <2>1, IdleStepsKeep
    <2>2. CASE Allow(p)
      BY <2>2, AllowKeeps
    <2>3. CASE Deliver(p) \/ Reject(p) \/ PostFails(p)
      BY <2>3, SendingKeeps
    <2>4. CASE Save(p)
      BY <2>4, SaveKeeps
    <2>5. CASE Crash(p) \/ AppendFails(p)
      BY <2>5, CrashKeeps
    <2> QED
      BY <1>3, <2>1, <2>2, <2>3, <2>4, <2>5 DEF Step
  <1> QED
    BY <1>1, <1>2, <1>3 DEF Next

\* The file and the commands under way cover what counts in every state.
THEOREM GuardInvariant == Spec => []IInv
  <1> QED
    BY InitKeeps, NextKeeps, PTL DEF Spec

\* Of the commands that were let through and whose states nothing lost, no two
\* are closer than the cooldown and no hour holds more than the limit, for every
\* policy, any number of commands at the same time and any number of failures.
THEOREM AntiSpam == Spec => []AntiSpamHolds
  <1>1. IInv => AntiSpamHolds
    BY DEF IInv
  <1> QED
    BY <1>1, GuardInvariant, PTL

-----------------------------------------------------------------------------
(* What the guard counts was let through.                                  *)

\* A suppressed command finds in the file what silences it.
LEMMA SuppressionHasCause ==
    ASSUME IInv, NEW p \in Process, Suppress(p)
    PROVE  \/ \E n \in Allowed : now - at[n] < policy.cooldown
           \/ /\ policy.limit # NoLimit
              /\ Cardinality({n \in Allowed : now - at[n] < Hour}) >= policy.limit
  <1>1. file # Broken /\ (Cooling(file) \/ Full(file))
    BY DEF Suppress
  <1>2. CASE Cooling(file)
    <2>1. file.last \in Allowed
      BY <1>1, <1>2, AllowedIsTyped DEF IInv, FileIsHonest, Cooling
    <2> QED
      BY <1>2, <2>1 DEF Cooling
  <1>3. CASE Full(file)
    <2> DEFINE All == {n \in Allowed : now - at[n] < Hour}
    <2>1. policy.limit \in Nat /\ policy.limit # NoLimit
          /\ Cardinality(Recent(file)) >= policy.limit
      BY <1>3, Constants DEF Full, IInv, TypeOK
    <2>2. Recent(file) \subseteq All
      <3>1. \A n \in Allowed : at[n] \in Nat
        BY AllowedIsTyped DEF IInv
      <3> QED
        BY <1>1, <3>1, Constants DEF IInv, TypeOK, FileIsHonest, Recent
    <2>3. All \in SUBSET Number
      BY AllowedIsTyped DEF IInv
    <2> HIDE DEF All
    <2>4. Cardinality(Recent(file)) <= Cardinality(All) /\ Cardinality(All) \in Nat
          /\ Cardinality(Recent(file)) \in Nat
      BY <1>1, <2>2, <2>3, SmallerSet, NumbersAreFinite, RecentIsBounded
    <2>5. Cardinality(All) >= policy.limit
      BY <2>1, <2>4
    <2> QED
      BY <2>1, <2>5 DEF All
  <1> QED
    BY <1>1, <1>2, <1>3

\* An alert is suppressed only for what was let through and is recent enough.
THEOREM SilenceIsCaused == Spec => SilenceHasCause
  <1> DEFINE Caused ==
        \A p \in Process : commands' # commands /\ cmd' = cmd /\ file # Broken =>
          \/ \E n \in Allowed : now - at[n] < policy.cooldown
          \/ /\ policy.limit # NoLimit
             /\ Cardinality({n \in Allowed : now - at[n] < Hour}) >= policy.limit
  <1>1. ASSUME IInv, [Next]_vars, commands' # commands, cmd' = cmd, file # Broken
        PROVE  \E p \in Process : Suppress(p)
    <2>1. PICK p \in Process : Step(p)
      BY <1>1 DEF Next, Tick, Decay, Remove, vars
    <2>2. Call(p)
      BY <1>1, <2>1 DEF Step, Suppress, Allow, LoadFails, Deliver, Reject, PostFails,
                        AppendFails, Save, Crash
    <2>3. ~Allow(p)
      <3> SUFFICES ASSUME Allow(p) PROVE FALSE
        OBVIOUS
      <3>1. cmd'[p].pc = "send" /\ cmd[p].pc = "idle"
        BY <1>1 DEF Allow, Call, Idle, IInv, TypeOK
      <3> QED
        BY <1>1, <3>1
    <2> QED
      BY <1>1, <2>1, <2>2, <2>3 DEF Step, LoadFails, Call, Deliver, Reject, PostFails,
                                   AppendFails, Save, Crash
  <1>2. IInv /\ [Next]_vars => [Caused]_vars
    BY <1>1, SuppressionHasCause
  <1> QED
    BY <1>2, GuardInvariant, PTL DEF Spec, SilenceHasCause

-----------------------------------------------------------------------------
(* How often a message arrives.                                            *)

\* Each arrival but the confirmed one belongs to an attempt that failed.
Counted(c) ==
    /\ c.pc = "idle" => c.arrived = 0 /\ c.unconfirmed = 0
    /\ c.pc = "send" =>
          /\ c.arrived = c.unconfirmed /\ c.unconfirmed <= c.attempts
          /\ c.attempts < MaxAttempts /\ c.sent = FALSE
    /\ c.pc = "save" =>
          /\ c.arrived = IF c.sent = TRUE THEN c.unconfirmed + 1 ELSE c.unconfirmed
          /\ c.arrived <= MaxAttempts

DInv == \A p \in Process : Counted(cmd[p])

LEMMA CountedIsBounded ==
    ASSUME TypeOK, DInv
    PROVE  DuplicatesOnlyUnconfirmed
  <1> SUFFICES ASSUME NEW p \in Process
               PROVE  /\ cmd[p].arrived \in cmd[p].unconfirmed..(cmd[p].unconfirmed + 1)
                      /\ cmd[p].arrived <= MaxAttempts
                      /\ cmd[p].pc = "save" =>
                            (cmd[p].sent <=> cmd[p].arrived > cmd[p].unconfirmed)
    BY DEF DuplicatesOnlyUnconfirmed
  <1>1. cmd[p] \in Command /\ Counted(cmd[p]) /\ MaxAttempts \in Nat \ {0}
    BY Constants DEF TypeOK, DInv
  <1>2. cmd[p].arrived \in Nat /\ cmd[p].unconfirmed \in Nat /\ cmd[p].sent \in BOOLEAN
        /\ cmd[p].attempts \in Nat /\ cmd[p].pc \in {"idle", "send", "save"}
    BY <1>1 DEF Command
  <1>3. /\ cmd[p].arrived \in {cmd[p].unconfirmed, cmd[p].unconfirmed + 1}
        /\ cmd[p].arrived <= MaxAttempts
        /\ cmd[p].pc = "save" => (cmd[p].sent = TRUE) = (cmd[p].arrived > cmd[p].unconfirmed)
    BY <1>1, <1>2 DEF Counted
  <1>4. (cmd[p].sent = TRUE) <=> cmd[p].sent
    BY <1>2
  <1>5. cmd[p].arrived \in cmd[p].unconfirmed..(cmd[p].unconfirmed + 1)
    BY <1>2, <1>3
  <1> QED
    BY <1>3, <1>4, <1>5

LEMMA CountKeeps ==
    ASSUME TypeOK, DInv, [Next]_vars
    PROVE  DInv'
  <1>1. cmd \in [Process -> Command] /\ MaxAttempts \in Nat \ {0}
    BY Constants DEF TypeOK
  <1>2. Counted(Idle)
    BY Constants DEF Counted, Idle
  <1>3. CASE UNCHANGED cmd
    BY <1>3 DEF DInv, Counted
  <1>4. ASSUME NEW p \in Process, cmd' # cmd, Step(p)
        PROVE  DInv'
    <2> SUFFICES ASSUME NEW q \in Process PROVE Counted(cmd'[q])
      BY DEF DInv, Counted
    <2>1. cmd[q] \in Command /\ Counted(cmd[q]) /\ cmd[p] \in Command /\ Counted(cmd[p])
      BY <1>1 DEF DInv
    <2>2. CASE Allow(p)
      <3> DEFINE n == commands'
                 s == [last |-> commands', recent |-> Recent(file) \cup {commands'}]
      <3>1. cmd' = [cmd EXCEPT ![p] = [Idle EXCEPT !.pc = "send", !.id = n, !.next = s]]
        BY <2>2 DEF Allow
      <3> HIDE DEF n, s
      <3> QED
        BY <1>1, <2>1, <3>1 DEF Counted, Idle
    <2>3. ASSUME NEW ok \in BOOLEAN, cmd[p].pc = "send", Returns(p, ok)
          PROVE  Counted(cmd'[q])
      <3> DEFINE n == cmd[p].arrived + (IF ok THEN 1 ELSE 0)
                 r == [cmd[p] EXCEPT !.pc = "save", !.sent = ok, !.arrived = n]
      <3>1. cmd' = [cmd EXCEPT ![p] = r]
        BY <2>3 DEF Returns
      <3>2. /\ cmd[p].arrived = cmd[p].unconfirmed /\ cmd[p].arrived < MaxAttempts
            /\ cmd[p].arrived \in Nat /\ cmd[p].attempts \in Nat
        BY <1>1, <2>1, <2>3 DEF Counted, Command
      <3>3. n \in Nat /\ n <= MaxAttempts
            /\ n = IF ok = TRUE THEN cmd[p].unconfirmed + 1 ELSE cmd[p].unconfirmed
        BY <1>1, <2>3, <3>2
      <3>4. r.pc = "save" /\ r.arrived = n /\ r.unconfirmed = cmd[p].unconfirmed
            /\ r.sent = ok
        <4> HIDE DEF n
        <4> QED
          BY <2>1 DEF Command
      <3> HIDE DEF r, n
      <3>5. Counted(r)
        BY <3>3, <3>4 DEF Counted
      <3> QED
        BY <1>1, <2>1, <3>1, <3>5
    <2>4. CASE PostFails(p)
      <3>1. PICK came \in 0..1 :
              cmd' = [cmd EXCEPT ![p].attempts = @ + 1,
                                 ![p].arrived = @ + came, ![p].unconfirmed = @ + came,
                                 ![p].pc = IF Exhausted(cmd[p].attempts + 1) THEN "save" ELSE @]
        BY <2>4 DEF PostFails
      <3> DEFINE stage == IF Exhausted(cmd[p].attempts + 1) THEN "save" ELSE cmd[p].pc
                 a == cmd[p].attempts + 1
                 b == cmd[p].arrived + came
                 c == cmd[p].unconfirmed + came
                 r == [cmd[p] EXCEPT !.attempts = a, !.arrived = b, !.unconfirmed = c,
                                     !.pc = stage]
      <3>2. cmd' = [cmd EXCEPT ![p] = r]
        BY <3>1
      <3>3. /\ cmd[p].pc = "send" /\ cmd[p].arrived = cmd[p].unconfirmed
            /\ cmd[p].unconfirmed <= cmd[p].attempts /\ cmd[p].attempts < MaxAttempts
            /\ cmd[p].unconfirmed \in Nat /\ cmd[p].attempts \in Nat
        BY <2>1, <2>4 DEF PostFails, Counted, Command
      <3>4. /\ b = c /\ c <= a /\ a <= MaxAttempts /\ a \in Nat /\ c \in Nat
            /\ stage = IF a >= MaxAttempts THEN "save" ELSE "send"
        BY <1>1, <3>3 DEF Exhausted
      <3>5. r.pc = stage /\ r.arrived = b /\ r.unconfirmed = c /\ r.attempts = a
            /\ r.sent = cmd[p].sent
        <4> HIDE DEF stage, a, b, c
        <4> QED
          BY <2>1 DEF Command
      <3>6. cmd[p].sent = FALSE
        BY <2>1, <3>3 DEF Counted
      <3> HIDE DEF r, stage, a, b, c
      <3>7. Counted(r)
        BY <1>1, <3>4, <3>5, <3>6 DEF Counted
      <3> QED
        BY <1>1, <2>1, <3>2, <3>7
    <2>5. CASE Save(p)
      <3>1. cmd'[q] = IF q = p THEN Idle ELSE IF cmd[q].pc = "idle" THEN cmd[q]
                      ELSE [cmd[q] EXCEPT !.missed = @ \cup {cmd[p].id}]
        BY <2>5 DEF Save, Saved
      <3> QED
        BY <1>2, <2>1, <3>1 DEF Counted, Command
    <2>6. CASE Crash(p) \/ AppendFails(p)
      <3>1. cmd' = [cmd EXCEPT ![p] = Idle]
        BY <2>6 DEF Crash, AppendFails, Leave
      <3> QED
        BY <1>1, <1>2, <2>1, <3>1
    <2> QED
      BY <1>4, <2>2, <2>3, <2>4, <2>5, <2>6 DEF Step, Deliver, Reject, Suppress, LoadFails
  <1> QED
    BY <1>3, <1>4 DEF Next, Tick, Decay, Remove, vars

\* A message arrives once more for each attempt nothing answered, never more often
\* than there are attempts, and a delivery is reported exactly when one was
\* confirmed.
THEOREM DuplicatesBounded == Spec => []DuplicatesOnlyUnconfirmed
  <1>1. Init => DInv
    BY Constants DEF Init, DInv, Counted, Idle
  <1>2. IInv => TypeOK
    BY DEF IInv
  <1>3. TypeOK /\ DInv /\ [Next]_vars => DInv'
    BY CountKeeps
  <1>4. TypeOK /\ DInv => DuplicatesOnlyUnconfirmed
    BY CountedIsBounded
  <1> QED
    BY <1>1, <1>2, <1>3, <1>4, GuardInvariant, PTL DEF Spec
=============================================================================
