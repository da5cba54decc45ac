------------------------------- MODULE Outbox -------------------------------
(***************************************************************************)
(* notify/service.py: the outbox of notifications. dispatch_due, the cron   *)
(* of the jobs process, retries what failed or was left "sending", then     *)
(* looks at every notification that is due (a key) and sends it: a row per  *)
(* key for email, then one per other channel. A round may outlast the five  *)
(* minutes between two crons, so several dispatchers run at once.           *)
(*                                                                         *)
(* Each action ends at a commit or at an await inside which another         *)
(* dispatcher can be anywhere. The wait of a row before its next attempt    *)
(* and its age are flags (ripe, expired) that time sets.                    *)
(***************************************************************************)
EXTENDS Naturals, FiniteSets, Sequences

CONSTANTS
    Dispatchers,  \* the rounds of the cron that can run at once
    Keys,         \* what there is to notify: dedupe keys without a channel
    People,
    Subscribers,  \* the people each channel reaches
    Configured,   \* the channels that are set up
    DailyCap,     \* max_per_day of each person, 0 for none
    MaxAttempts,  \* MAX_ATTEMPTS
    Events,       \* what the environment may do, a subset of AllEvents
    NoTask

AllEvents == {"send_error", "db_error", "crash", "quiet", "age", "slow"}

Channels == {"email", "zalo", "webhook"}
FanoutChannels == <<"zalo", "webhook">>

ASSUME ConstantAssumption ==
    /\ Subscribers \in [Channels -> SUBSET People]
    /\ Configured \subseteq Channels
    /\ DailyCap \in [People -> Nat]
    /\ MaxAttempts \in Nat \ {0}
    /\ Events \subseteq AllEvents
    /\ NoTask \notin [row : Keys \X Channels, try : 0 .. MaxAttempts]

Rows == Keys \X Channels

VARIABLES
    \* notifications and notification_deliveries
    status,    \* of each row, "none" while there is no row
    attempts,
    log,       \* one entry for each attempt on each person, once committed
    \* time and the outside world
    ripe,      \* rows whose last attempt is as old as their next one requires
    expired,   \* rows created more than LOOKBACK ago
    quiet,     \* people in their quiet hours
    copies,    \* messages each person has been sent of each row
    \* each dispatcher
    pc,
    late,      \* rounds that began more than SENDING_STALE ago
    seen,      \* rows the round's retry() selected, as it saw them
    units,     \* keys the round has yet to look at
    task,      \* the row it works on, and as which attempt
    todo,      \* people it has yet to send that row to
    out,       \* what became of each person
    fan        \* channels _fanout has yet to look at

table == <<status, attempts, log>>
world == <<expired, quiet>>
round == <<late, seen, units>>
delivery == <<todo, out>>
vars == <<table, ripe, world, copies, pc, round, task, delivery, fan>>

RowStatus == {"none", "sending", "sent", "failed", "skipped"}
Outcome == {"sent", "failed", "skipped_quiet", "skipped_limit"}
Task == [row : Rows, try : 0 .. MaxAttempts]
Glimpse == [row : Rows, status : RowStatus, attempts : 0 .. MaxAttempts]
Entry == [row : Rows, try : 0 .. MaxAttempts, person : People, outcome : Outcome]
Places == {"idle", "round", "compose", "open", "send", "fanout"}

TypeOK ==
    /\ status \in [Rows -> RowStatus]
    /\ attempts \in [Rows -> 0 .. MaxAttempts]
    /\ log \subseteq Entry
    /\ ripe \subseteq Rows
    /\ expired \subseteq Rows
    /\ quiet \subseteq People
    /\ copies \in [Rows \X People -> Nat]
    /\ pc \in [Dispatchers -> Places]
    /\ late \subseteq Dispatchers
    /\ seen \in [Dispatchers -> SUBSET Glimpse]
    /\ units \in [Dispatchers -> SUBSET Keys]
    /\ task \in [Dispatchers -> Task \union {NoTask}]
    /\ todo \in [Dispatchers -> SUBSET People]
    /\ out \in [Dispatchers -> [People -> Outcome \union {"none"}]]
    /\ fan \in [Dispatchers -> Seq(Channels)]

Untold == [p \in People |-> "none"]

Init ==
    /\ status = [r \in Rows |-> "none"]
    /\ attempts = [r \in Rows |-> 0]
    /\ log = {}
    /\ ripe = {}
    /\ expired = {}
    /\ quiet = {}
    /\ copies = [rp \in Rows \X People |-> 0]
    /\ pc = [d \in Dispatchers |-> "idle"]
    /\ late = {}
    /\ seen = [d \in Dispatchers |-> {}]
    /\ units = [d \in Dispatchers |-> {}]
    /\ task = [d \in Dispatchers |-> NoTask]
    /\ todo = [d \in Dispatchers |-> {}]
    /\ out = [d \in Dispatchers |-> Untold]
    /\ fan = [d \in Dispatchers |-> <<>>]

Goto(d, place) == pc' = [pc EXCEPT ![d] = place]
Email(k) == <<k, "email">>

-----------------------------------------------------------------------------
(* A round: dispatch_due.                                                   *)

\* Mutants: the limit on attempts forgotten; only abandoned rows selected.
RetryableForEver == {r \in ripe \ expired : status[r] \in {"sending", "failed"}}
RetryableAbandoned == {r \in ripe \ expired : status[r] = "sending" /\ attempts[r] < MaxAttempts}

\* What retry() selects: rows left "sending" or failed, young enough, with
\* attempts left, whose last attempt is old enough.
Retryable == {r \in ripe \ expired : status[r] \in {"sending", "failed"} /\ attempts[r] < MaxAttempts}

Start(d) ==
    /\ pc[d] = "idle"
    /\ seen' = [seen EXCEPT ![d] = {[row |-> r, status |-> status[r], attempts |-> attempts[r]] : r \in Retryable}]
    /\ units' = [units EXCEPT ![d] = Keys]
    /\ late' = late \ {d}
    /\ Goto(d, "round")
    /\ UNCHANGED <<table, ripe, world, copies, task, delivery, fan>>

Finish(d) ==
    /\ pc[d] = "round"
    /\ seen[d] = {} /\ units[d] = {}
    /\ Goto(d, "idle")
    /\ UNCHANGED <<table, ripe, world, copies, round, task, delivery, fan>>

\* Mutant: a retry does not count as an attempt.
TakeUncounted(d, r) ==
    LET try == IF attempts[r] = 0 THEN 1 ELSE attempts[r]
    IN  /\ status' = [status EXCEPT ![r] = "sending"]
        /\ attempts' = [attempts EXCEPT ![r] = try]
        /\ task' = [task EXCEPT ![d] = [row |-> r, try |-> try]]
        /\ ripe' = IF d \in late THEN ripe \union {r} ELSE ripe \ {r}
        /\ Goto(d, "open")
        /\ UNCHANGED log

\* The row becomes, or is again, the dispatcher's: status "sending", one more
\* attempt, last_attempt_at set to the beginning of the round, and a commit.
Take(d, r) ==
    /\ status' = [status EXCEPT ![r] = "sending"]
    /\ attempts' = [attempts EXCEPT ![r] = @ + 1]
    /\ task' = [task EXCEPT ![d] = [row |-> r, try |-> attempts[r] + 1]]
    /\ ripe' = IF d \in late THEN ripe \union {r} ELSE ripe \ {r}
    /\ Goto(d, "open")
    /\ UNCHANGED log

\* Mutant: the UPDATE that takes a row asks for its status only.
RetryByStatus(d) == \E g \in seen[d] :
    /\ pc[d] = "round"
    /\ seen' = [seen EXCEPT ![d] = @ \ {g}]
    /\ IF status[g.row] = g.status
       THEN Take(d, g.row)
       ELSE UNCHANGED <<table, ripe, task, pc>>
    /\ UNCHANGED <<world, copies, late, units, delivery, fan>>

Retry(d) == \E g \in seen[d] :
    /\ pc[d] = "round"
    /\ seen' = [seen EXCEPT ![d] = @ \ {g}]
    /\ IF status[g.row] = g.status /\ attempts[g.row] = g.attempts
       THEN Take(d, g.row)
       ELSE UNCHANGED <<table, ripe, task, pc>>
    /\ UNCHANGED <<world, copies, late, units, delivery, fan>>

\* The units of alerts, insights, the weekly report and stale data: each asks
\* whether its key exists, then reads what there is to say.
Look(d) == \E k \in units[d] :
    /\ pc[d] = "round" /\ seen[d] = {}
    /\ units' = [units EXCEPT ![d] = @ \ {k}]
    /\ IF status[Email(k)] = "none"
       THEN /\ task' = [task EXCEPT ![d] = [row |-> Email(k), try |-> 0]]
            /\ Goto(d, "compose")
       ELSE UNCHANGED <<task, pc>>
    /\ UNCHANGED <<table, ripe, world, copies, late, seen, delivery, fan>>

\* Mutant: the insert takes over a row that is there (DO UPDATE).
ClaimOver(d) ==
    /\ pc[d] = "compose"
    /\ Take(d, task[d].row)
    /\ fan' = [fan EXCEPT ![d] = FanoutChannels]
    /\ UNCHANGED <<world, copies, round, delivery>>

\* There is something to send: _send, as far as its first commit.
Claim(d) ==
    /\ pc[d] = "compose"
    /\ IF status[task[d].row] = "none"
       THEN Take(d, task[d].row) /\ fan' = [fan EXCEPT ![d] = FanoutChannels]
       ELSE Goto(d, "round") /\ task' = [task EXCEPT ![d] = NoTask] /\ UNCHANGED <<table, ripe, fan>>
    /\ UNCHANGED <<world, copies, round, delivery>>

\* There is nothing to send: _skip writes a row that says so.
Skip(d) ==
    /\ pc[d] = "compose"
    /\ status' = IF status[task[d].row] = "none"
                 THEN [status EXCEPT ![task[d].row] = "skipped"] ELSE status
    /\ task' = [task EXCEPT ![d] = NoTask]
    /\ Goto(d, "round")
    /\ UNCHANGED <<attempts, log, ripe, world, copies, round, delivery, fan>>

\* _stale_unit with nothing stale writes no row: the next round looks again.
PassOver(d) ==
    /\ pc[d] = "compose"
    /\ task' = [task EXCEPT ![d] = NoTask]
    /\ Goto(d, "round")
    /\ UNCHANGED <<table, ripe, world, copies, round, delivery, fan>>

-----------------------------------------------------------------------------
(* A delivery: _deliver, _deliver_channel.                                  *)

ChannelOf(d) == task[d].row[2]

SentToday(c, p) == Cardinality({e \in log : e.row[2] = c /\ e.person = p /\ e.outcome = "sent"})

\* _gate: why this person is not to be sent anything now, or "none".
Gate(c, p) ==
    CASE p \in quiet -> "skipped_quiet"
      [] p \notin quiet /\ DailyCap[p] > 0 /\ SentToday(c, p) >= DailyCap[p] -> "skipped_limit"
      [] OTHER -> "none"

\* An email's gates are all passed before the first of its messages goes out
\* (asyncio.gather); the other channels pass each one's on its turn.
Open(d) ==
    LET c == ChannelOf(d)
        reached == IF c \in Configured THEN Subscribers[c] ELSE {}
        gated == IF c = "email" THEN {p \in reached : Gate(c, p) # "none"} ELSE {}
    IN  /\ pc[d] = "open"
        /\ todo' = [todo EXCEPT ![d] = reached \ gated]
        /\ out' = [out EXCEPT ![d] = [p \in People |-> IF p \in gated THEN Gate(c, p) ELSE "none"]]
        /\ Goto(d, "send")
        /\ UNCHANGED <<table, ripe, world, copies, round, task, fan>>

Told(d, p, outcome) ==
    /\ pc[d] = "send" /\ p \in todo[d]
    /\ todo' = [todo EXCEPT ![d] = @ \ {p}]
    /\ out' = [out EXCEPT ![d][p] = outcome]
    /\ UNCHANGED <<table, ripe, world, pc, round, task, fan>>

MaySend(d, p) == ChannelOf(d) = "email" \/ Gate(ChannelOf(d), p) = "none"

SendTo(d) == \E p \in todo[d] :
    /\ Told(d, p, "sent")
    /\ MaySend(d, p)
    /\ copies' = [copies EXCEPT ![<<task[d].row, p>>] = @ + 1]

SendFails(d) == \E p \in todo[d] :
    /\ "send_error" \in Events
    /\ Told(d, p, "failed")
    /\ MaySend(d, p)
    /\ UNCHANGED copies

HoldBack(d) == \E p \in todo[d] :
    /\ Told(d, p, Gate(ChannelOf(d), p))
    /\ ~ MaySend(d, p)
    /\ UNCHANGED copies

\* Mutant: one failure makes the row "failed".
VerdictOfFailures(d) ==
    CASE \E p \in People : out[d][p] = "failed" -> "failed"
      [] (\A p \in People : out[d][p] # "failed") /\ (\E p \in People : out[d][p] = "sent") -> "sent"
      [] OTHER -> "skipped"

\* One success makes the row "sent"; only failures make it "failed".
Verdict(d) ==
    CASE \E p \in People : out[d][p] = "sent" -> "sent"
      [] (\A p \in People : out[d][p] # "sent") /\ (\E p \in People : out[d][p] = "failed") -> "failed"
      [] OTHER -> "skipped"

\* The commit after _deliver: it writes the row by its id, whatever the row
\* has become in the meantime. From there a "failed" row waits afresh.
Commit(d) ==
    /\ pc[d] = "send" /\ todo[d] = {}
    /\ status' = [status EXCEPT ![task[d].row] = Verdict(d)]
    /\ log' = log \union {[row |-> task[d].row, try |-> task[d].try, person |-> p, outcome |-> out[d][p]] :
                             p \in {q \in People : out[d][q] # "none"}}
    /\ ripe' = ripe \ {task[d].row}
    /\ Goto(d, IF fan[d] = <<>> THEN "round" ELSE "fanout")
    /\ IF fan[d] = <<>> THEN task' = [task EXCEPT ![d] = NoTask] ELSE UNCHANGED task
    /\ out' = [out EXCEPT ![d] = Untold]
    /\ UNCHANGED <<attempts, world, copies, round, todo, fan>>

\* Mutant: a channel without subscribers ends the loop.
FanoutStops(d) ==
    LET row == <<task[d].row[1], Head(fan[d])>>
        goes == Subscribers[Head(fan[d])] # {} /\ status[row] = "none"
    IN  /\ pc[d] = "fanout"
        /\ fan' = [fan EXCEPT ![d] = IF goes THEN Tail(@) ELSE <<>>]
        /\ IF goes
           THEN Take(d, row)
           ELSE Goto(d, "round") /\ task' = [task EXCEPT ![d] = NoTask] /\ UNCHANGED <<table, ripe>>
        /\ UNCHANGED <<world, copies, round, delivery>>

\* _fanout: a row for each other channel that has subscribers and none yet.
Fanout(d) ==
    LET c == Head(fan[d])
        row == <<task[d].row[1], c>>
    IN  /\ pc[d] = "fanout"
        /\ fan' = [fan EXCEPT ![d] = Tail(@)]
        /\ IF Subscribers[c] # {} /\ status[row] = "none"
           THEN Take(d, row)
           ELSE IF Tail(fan[d]) = <<>>
           THEN Goto(d, "round") /\ task' = [task EXCEPT ![d] = NoTask] /\ UNCHANGED <<table, ripe>>
           ELSE UNCHANGED <<table, ripe, task, pc>>
        /\ UNCHANGED <<world, copies, round, delivery>>

-----------------------------------------------------------------------------
(* What goes wrong, and time.                                               *)

DropTask(d) ==
    /\ task' = [task EXCEPT ![d] = NoTask]
    /\ todo' = [todo EXCEPT ![d] = {}]
    /\ out' = [out EXCEPT ![d] = Untold]
    /\ fan' = [fan EXCEPT ![d] = <<>>]

\* An exception while a row is delivered: _guarded rolls back and goes on with
\* the next unit; what was sent stays sent.
DbError(d) ==
    /\ "db_error" \in Events
    /\ pc[d] \in {"open", "send"}
    /\ DropTask(d)
    /\ Goto(d, "round")
    /\ UNCHANGED <<table, ripe, world, copies, round>>

\* The process dies, or arq cancels the job at its timeout.
Crash(d) ==
    /\ "crash" \in Events
    /\ pc[d] # "idle"
    /\ DropTask(d)
    /\ seen' = [seen EXCEPT ![d] = {}]
    /\ units' = [units EXCEPT ![d] = {}]
    /\ Goto(d, "idle")
    /\ UNCHANGED <<table, ripe, world, copies, late>>

Delivering(r) == \E d \in Dispatchers : pc[d] \in {"open", "send"} /\ task[d].row = r

\* The time a row must wait has passed. Unless rounds can be slow, a delivery
\* takes less than SENDING_STALE, so this never happens under it.
Ripen(r) ==
    /\ status[r] \in {"sending", "failed"} /\ r \notin ripe
    /\ "slow" \in Events \/ ~ Delivering(r)
    /\ ripe' = ripe \union {r}
    /\ UNCHANGED <<table, world, copies, pc, round, task, delivery, fan>>

\* A round has lasted SENDING_STALE: from now on the rows it takes bear a
\* last_attempt_at that is already too old.
Linger(d) ==
    /\ "slow" \in Events
    /\ pc[d] # "idle" /\ d \notin late
    /\ late' = late \union {d}
    /\ UNCHANGED <<table, ripe, world, copies, pc, seen, units, task, delivery, fan>>

Expire(r) ==
    /\ "age" \in Events
    /\ status[r] # "none" /\ r \notin expired
    /\ expired' = expired \union {r}
    /\ UNCHANGED <<table, ripe, quiet, copies, pc, round, task, delivery, fan>>

QuietChanges(p) ==
    /\ "quiet" \in Events
    /\ quiet' = IF p \in quiet THEN quiet \ {p} ELSE quiet \union {p}
    /\ UNCHANGED <<table, ripe, expired, copies, pc, round, task, delivery, fan>>

-----------------------------------------------------------------------------
Step(d) ==
    \/ Start(d) \/ Retry(d) \/ Look(d) \/ Claim(d) \/ Skip(d) \/ PassOver(d) \/ Finish(d)
    \/ Open(d) \/ SendTo(d) \/ SendFails(d) \/ HoldBack(d) \/ Commit(d) \/ Fanout(d)

Next ==
    \/ \E d \in Dispatchers : Step(d) \/ DbError(d) \/ Crash(d) \/ Linger(d)
    \/ \E r \in Rows : Ripen(r) \/ Expire(r)
    \/ \E p \in People : QuietChanges(p)

\* The cron comes back for ever, a round goes on, and time passes.
Fairness ==
    /\ \A d \in Dispatchers : WF_vars(Step(d))
    /\ \A r \in Rows : WF_vars(Ripen(r))

Spec == Init /\ [][Next]_vars /\ Fairness

-----------------------------------------------------------------------------
(* Properties.                                                              *)

Works(d) == pc[d] \in {"open", "send"}

\* A dispatcher that is delivering a row holds it: the row is "sending" and its
\* last attempt is the dispatcher's. Claims by insert and retries by UPDATE ...
\* WHERE status AND attempts (_claim, _retry_one) never give one row to two.
DelivererHoldsRow == \A d \in Dispatchers : Works(d) =>
    /\ status[task[d].row] = "sending"
    /\ attempts[task[d].row] = task[d].try

\* The inductive invariant of the proofs, while no delivery outlasts
\* SENDING_STALE: two deliveries are of different rows, neither of which retry()
\* would select, and what a round has selected is still true of the row or past.
TasksKnown == \A d \in Dispatchers :
    /\ pc[d] \notin {"idle", "round"} => task[d] # NoTask
    /\ pc[d] = "fanout" => fan[d] # <<>>
UnclaimedUntried == \A r \in Rows : status[r] = "none" => attempts[r] = 0
RowsApart == \A d, e \in Dispatchers : d # e /\ Works(d) /\ Works(e) => task[d].row # task[e].row
NotRipe == \A d \in Dispatchers : Works(d) => task[d].row \notin ripe
SeenIsPast == \A d \in Dispatchers : \A g \in seen[d] :
    /\ g.status \in {"sending", "failed"}
    /\ g.attempts < MaxAttempts /\ g.attempts <= attempts[g.row]
    /\ g.status = "sending" /\ g.attempts = attempts[g.row] => ~ Delivering(g.row)
HeldInv ==
    /\ TypeOK /\ TasksKnown /\ UnclaimedUntried
    /\ late = {} /\ DelivererHoldsRow /\ RowsApart /\ NotRipe /\ SeenIsPast

\* Nobody is sent a row twice: what _guarded, overlapping crons, send errors and
\* retries do, as long as no process dies and no delivery outlasts SENDING_STALE.
SentOnce == \A rp \in Rows \X People : copies[rp] <= 1

\* What the proof of SentOnce needs besides: a row that is "sending" is being
\* delivered, and the messages of a row are those its deliverer has noted, or
\* those of the attempt that made it "sent".
SendingIsDelivered == \A r \in Rows : status[r] = "sending" => Delivering(r)
OutOfAttempt == \A d \in Dispatchers :
    /\ pc[d] # "send" => out[d] = Untold
    /\ \A p \in todo[d] : out[d][p] = "none"
CopiesAccounted == \A r \in Rows, p \in People :
    /\ copies[<<r, p>>] <= 1
    /\ status[r] \notin {"sending", "sent"} => copies[<<r, p>>] = 0
    /\ \A d \in Dispatchers : Works(d) /\ task[d].row = r =>
          (copies[<<r, p>>] = 1 <=> out[d][p] = "sent")
Account == SendingIsDelivered /\ OutOfAttempt /\ CopiesAccounted

\* Even when rounds are slow and processes die, a person is sent a row at most
\* once per attempt, so never more than MAX_ATTEMPTS times.
CopiesWithinAttempts == \A r \in Rows, p \in People : copies[<<r, p>>] <= attempts[r]

\* A row that is "sent" is over: no retry, late commit or repeated claim changes
\* it or sends it again.
SentRowsRest == [][
    \A r \in Rows : status[r] = "sent" =>
        /\ status'[r] = "sent"
        /\ \A p \in People : copies'[<<r, p>>] = copies[<<r, p>>]]_vars

Settled(r) == status[r] \in {"sent", "skipped"} \/ attempts[r] = MaxAttempts

\* Every row comes to its end: sent, skipped, or tried MAX_ATTEMPTS times.
EveryRowSettles == \A r \in Rows : status[r] # "none" ~> Settled(r)

\* "Mỗi khoá outbox gửi email trước, rồi một dòng riêng mỗi kênh": once the email
\* of a key has been sent, each channel with subscribers gets its row.
FanOutFollows == \A k \in Keys, c \in Channels :
    (status[Email(k)] = "sent" /\ Subscribers[c] # {}) ~> status[<<k, c>>] # "none"

=============================================================================
