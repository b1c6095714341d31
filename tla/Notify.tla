------------------------------- MODULE Notify -------------------------------
(***************************************************************************)
(* Alerting: `notify test --apply` (cli.py) asks the anti-spam guard of    *)
(* core/notify.py, sends through a notifier (notify/telegram.py with its   *)
(* retries, or notify/file.py) and saves the guard's state                 *)
(* (storage/notify.py).  Each command is a process of its own; nothing     *)
(* locks the state file, and any of them may die between the steps.        *)
(*                                                                         *)
(* A command that was allowed to send is known by its number; the state    *)
(* file holds numbers where the code holds the times of those commands.    *)
(***************************************************************************)
EXTENDS Integers, FiniteSets

CONSTANTS
    Process,      \* commands that may run at the same time
    Policies,     \* anti-spam policies: [cooldown |-> ., limit |-> .]
    Hour,         \* the trailing window
    MaxAttempts,  \* DEFAULT_TELEGRAM_BACKOFF.max_attempts
    Never,        \* no last message
    NoLimit,      \* rate_limit_per_hour: null
    Broken,       \* a state file that cannot be parsed
    MaxTime, MaxCommands, MaxFailures  \* bounds

Number == 1..MaxCommands

\* The notifiers a configuration can build.
Kinds == {"mock", "file", "telegram"}

\* What the state file records.
Guard == [last: Number \cup {Never}, recent: SUBSET Number]

ASSUME NotifyAssumption ==
    /\ Hour \in Nat \ {0} /\ MaxAttempts \in Nat \ {0}
    /\ MaxTime \in Nat /\ MaxCommands \in Nat /\ MaxFailures \in Nat
    /\ NoLimit \notin Nat /\ Never \notin Int /\ Broken \notin Guard
    /\ \A p \in Policies : p.cooldown \in Nat /\ p.limit \in (Nat \ {0}) \cup {NoLimit}

VARIABLES
    now,
    policy, kind,  \* the configuration
    file,          \* anti_spam.json
    cmd,           \* the commands, with their local variables
    \* bounds and history
    commands, failures,
    at,            \* when a command was allowed to send
    lost           \* commands that the file does not count although they may have sent

config == <<policy, kind>>
history == <<at, lost>>
vars == <<now, config, file, cmd, commands, failures, history>>

Empty == [last |-> Never, recent |-> {}]

\* next is the state to save.  Of the history: how often the message arrived,
\* how often of these without an answer that said so, and the commands that
\* saved since this one loaded the file.
Idle == [pc |-> "idle", id |-> 0, next |-> Empty, attempts |-> 0, sent |-> FALSE,
         arrived |-> 0, unconfirmed |-> 0, missed |-> {}]

Init ==
    /\ now = 0 /\ policy \in Policies /\ kind \in Kinds
    /\ file = Empty /\ cmd = [p \in Process |-> Idle]
    /\ commands = 0 /\ failures = 0
    /\ at = [n \in Number |-> Never] /\ lost = {}

Tick ==
    /\ now < MaxTime
    /\ now' = now + 1
    /\ UNCHANGED <<config, file, cmd, commands, failures, history>>

Fail == failures < MaxFailures /\ failures' = failures + 1
Leave(p) == cmd' = [cmd EXCEPT ![p] = Idle]

\* With settings in error, or a notifier that cannot be built, the command ends
\* before it loads the state: no step.
Call(p) == cmd[p].pc = "idle" /\ commands < MaxCommands /\ commands' = commands + 1

-----------------------------------------------------------------------------
(* should_send: nothing is queued for later.                               *)

Cooling(state) == state.last # Never /\ now - at[state.last] < policy.cooldown

\* Mutant: entries are never pruned.
RecentForEver(state) == state.recent

Recent(state) == {n \in state.recent : at[n] > now - Hour}

Full(state) == policy.limit # NoLimit /\ Cardinality(Recent(state)) >= policy.limit

\* The guard suppresses the message: nothing is sent and nothing is saved.
Suppress(p) ==
    /\ Call(p)
    /\ file # Broken /\ (Cooling(file) \/ Full(file))
    /\ UNCHANGED <<now, config, file, cmd, failures, history>>

\* The guard lets it pass and its new state is kept for later.
Allow(p) ==
    /\ Call(p)
    /\ file # Broken /\ ~Cooling(file) /\ ~Full(file)
    /\ cmd' = [cmd EXCEPT ![p] =
          [Idle EXCEPT !.pc = "send", !.id = commands',
                       !.next = [last |-> commands', recent |-> Recent(file) \cup {commands'}]]]
    /\ at' = [at EXCEPT ![commands'] = now]
    /\ UNCHANGED <<now, config, file, failures, lost>>

\* NotifyStoreError: the command ends; only the operator can remove the file.
LoadFails(p) ==
    /\ Call(p)
    /\ file = Broken
    /\ UNCHANGED <<now, config, file, cmd, failures, history>>

-----------------------------------------------------------------------------
(* Notifier.send.                                                          *)

\* The answer came back, or what went wrong may have come after the delivery.
Returns(p, ok) == cmd' = [cmd EXCEPT ![p].pc = "save", ![p].sent = ok,
                                     ![p].arrived = @ + (IF ok THEN 1 ELSE 0)]

\* Telegram answers 200, a line of the outbox is on disk, or the mock has it.
Deliver(p) ==
    /\ cmd[p].pc = "send"
    /\ Returns(p, TRUE)
    /\ UNCHANGED <<now, config, file, commands, failures, history>>

\* 4xx: a wrong token or chat; there is no retry.
Reject(p) ==
    /\ cmd[p].pc = "send" /\ kind = "telegram"
    /\ Returns(p, FALSE)
    /\ UNCHANGED <<now, config, file, commands, failures, history>>

\* Mutant: the attempt under way is not counted.
ExhaustedLate(attempts) == attempts > MaxAttempts

\* advance_restart_budget, after an attempt that failed.
Exhausted(attempts) == attempts >= MaxAttempts

\* 5xx or a transport error; the message may have arrived all the same.  Another
\* attempt follows after a delay until the budget is exhausted.
PostFails(p) ==
    /\ cmd[p].pc = "send" /\ kind = "telegram"
    /\ \E came \in 0..1 :
          cmd' = [cmd EXCEPT ![p].attempts = @ + 1,
                             ![p].arrived = @ + came, ![p].unconfirmed = @ + came,
                             ![p].pc = IF Exhausted(cmd[p].attempts + 1) THEN "save" ELSE @]
    /\ UNCHANGED <<now, config, file, commands, failures, history>>

\* The outbox cannot be written: the exception ends the command, unsaved; the
\* line may be there.
AppendFails(p) ==
    /\ cmd[p].pc = "send" /\ kind = "file"
    /\ Fail
    /\ lost' = lost \cup {cmd[p].id}
    /\ Leave(p)
    /\ UNCHANGED <<now, config, file, commands, at>>

-----------------------------------------------------------------------------
(* NotifyStore.save, whatever became of the message.                       *)

Saved(p) ==
    cmd' = [q \in Process |->
        IF q = p THEN Idle
        ELSE IF cmd[q].pc = "idle" THEN cmd[q]
        ELSE [cmd[q] EXCEPT !.missed = @ \cup {cmd[p].id}]]

\* Mutant: a message that failed is not counted.
SaveSent(p) ==
    /\ cmd[p].pc = "save"
    /\ file' = IF cmd[p].sent THEN cmd[p].next ELSE file
    /\ lost' = lost \cup cmd[p].missed
    /\ Saved(p)
    /\ UNCHANGED <<now, config, commands, failures, at>>

\* What others saved since this command loaded the file is overwritten.
Save(p) ==
    /\ cmd[p].pc = "save"
    /\ file' = cmd[p].next
    /\ lost' = lost \cup cmd[p].missed
    /\ Saved(p)
    /\ UNCHANGED <<now, config, commands, failures, at>>

\* The process dies, or the disk is full when it saves: the replace is atomic
\* and the old state stays.
Crash(p) ==
    /\ cmd[p].pc \in {"send", "save"}
    /\ Fail
    /\ lost' = lost \cup {cmd[p].id}
    /\ Leave(p)
    /\ UNCHANGED <<now, config, file, commands, at>>

\* The file decays; the operator removes it.
Decay ==
    /\ file \notin {Broken, Empty}
    /\ Fail
    /\ file' = Broken /\ lost' = lost \cup file.recent
    /\ UNCHANGED <<now, config, cmd, commands, at>>

Remove ==
    /\ file = Broken
    /\ file' = Empty
    /\ UNCHANGED <<now, config, cmd, commands, failures, history>>

-----------------------------------------------------------------------------

Step(p) ==
    \/ Suppress(p) \/ Allow(p) \/ LoadFails(p)
    \/ Deliver(p) \/ Reject(p) \/ PostFails(p) \/ AppendFails(p)
    \/ Save(p) \/ Crash(p)

Next == Tick \/ Decay \/ Remove \/ \E p \in Process : Step(p)

Spec == Init /\ [][Next]_vars

-----------------------------------------------------------------------------
(***************************************************************************)
(* Properties.                                                             *)
(***************************************************************************)

Allowed == {n \in Number : at[n] # Never}

\* Commands that have saved, unless the file lost them since.
Kept == Allowed \ (lost \cup {cmd[p].id : p \in Process})

\* Among the commands that were let through, leaving out those that died before
\* they saved, were overwritten by a command that ran at the same time or were
\* in a file that decayed: no two are closer than the cooldown and no hour holds
\* more than the limit, whatever became of the messages (core/notify.py).
AntiSpamHolds ==
    /\ \A m, n \in Kept : m < n => at[n] - at[m] >= policy.cooldown
    /\ policy.limit # NoLimit => \A m \in Kept :
          Cardinality({n \in Kept : at[n] \in (at[m] - Hour + 1)..at[m]}) <= policy.limit

\* An alert is suppressed only for a command that was let through less than a
\* cooldown ago, or for as many in the last hour as the limit: what is older
\* never silences an alert (should_send).
SilenceHasCause ==
    [][\A p \in Process : commands' # commands /\ cmd' = cmd /\ file # Broken =>
          \/ \E n \in Allowed : now - at[n] < policy.cooldown
          \/ /\ policy.limit # NoLimit
             /\ Cardinality({n \in Allowed : now - at[n] < Hour}) >= policy.limit]_vars

\* A message arrives once more for each attempt that was not answered and never
\* more often than there are attempts; the command reports a delivery exactly
\* when one was confirmed (TelegramNotifier.send).
DuplicatesOnlyUnconfirmed ==
    \A p \in Process :
        /\ cmd[p].arrived \in cmd[p].unconfirmed..(cmd[p].unconfirmed + 1)
        /\ cmd[p].arrived <= MaxAttempts
        /\ cmd[p].pc = "save" => (cmd[p].sent <=> cmd[p].arrived > cmd[p].unconfirmed)
=============================================================================
