---------------------------- MODULE OutboxProofs ----------------------------
(* Proofs about Outbox, for every set of dispatchers, keys and people, any   *)
(* subscriptions, caps and number of attempts. TypeCorrect and               *)
(* OneCopyPerAttempt hold whatever happens; the others say what they assume  *)
(* of the events, first of all that no delivery outlasts SENDING_STALE: TLC  *)
(* shows they fail without it.                                               *)
EXTENDS Outbox, FiniteSetTheorems, TLAPS

USE ConstantAssumption

LEMMA RowParts == \A r \in Rows : r[1] \in Keys /\ r[2] \in Channels /\ r = <<r[1], r[2]>>
BY DEF Rows

\* A dispatcher that works on something has a task, which names a row.
LEMMA TaskRow ==
    ASSUME TypeOK, TasksKnown, NEW d \in Dispatchers, pc[d] \notin {"idle", "round"}
    PROVE  /\ task[d] # NoTask /\ task[d] \in Task
           /\ task[d].row \in Rows /\ task[d].try \in 0 .. MaxAttempts
BY DEF TypeOK, TasksKnown, Task

-----------------------------------------------------------------------------
(* Taking a row, the heart of Retry, Claim and Fanout.                      *)

LEMMA TakeTypes ==
    ASSUME TypeOK, NEW d \in Dispatchers, NEW r \in Rows, Take(d, r), attempts[r] < MaxAttempts
    PROVE  /\ status' \in [Rows -> RowStatus]
           /\ attempts' \in [Rows -> 0 .. MaxAttempts]
           /\ log' \subseteq Entry
           /\ ripe' \subseteq Rows
           /\ pc' \in [Dispatchers -> Places]
           /\ task' \in [Dispatchers -> Task \union {NoTask}]
           /\ task'[d] = [row |-> r, try |-> attempts[r] + 1] /\ task'[d] # NoTask
<1>1. attempts[r] \in Nat /\ attempts[r] + 1 \in 0 .. MaxAttempts
  BY DEF TypeOK
<1>2. [row |-> r, try |-> attempts[r] + 1] \in Task
  BY <1>1 DEF Task
<1>3. [row |-> r, try |-> attempts[r] + 1] # NoTask
  BY <1>2 DEF Task, Rows
<1>4. /\ status' \in [Rows -> RowStatus] /\ attempts' \in [Rows -> 0 .. MaxAttempts]
  BY <1>1 DEF Take, TypeOK, RowStatus
<1>5. /\ log' \subseteq Entry /\ ripe' \subseteq Rows
  BY DEF Take, TypeOK
<1>6. /\ pc' \in [Dispatchers -> Places] /\ task' \in [Dispatchers -> Task \union {NoTask}]
  BY <1>2 DEF Take, Goto, TypeOK, Places
<1>7. task'[d] = [row |-> r, try |-> attempts[r] + 1]
  BY DEF Take, TypeOK
<1> QED
  BY <1>3, <1>4, <1>5, <1>6, <1>7

\* Whoever takes a row that nobody delivers holds it alone.
LEMMA TakeHolds ==
    ASSUME HeldInv, NEW d \in Dispatchers, NEW r \in Rows, Take(d, r), attempts[r] < MaxAttempts,
           ~ Works(d), ~ Delivering(r), UNCHANGED late,
           \A e \in Dispatchers : seen'[e] \subseteq seen[e]
    PROVE  late' = {} /\ UnclaimedUntried' /\ DelivererHoldsRow' /\ RowsApart' /\ NotRipe' /\ SeenIsPast'
<1> USE DEF Works, Delivering
<1>1. TypeOK /\ late = {}
  BY DEF HeldInv
<1>2. /\ \A s \in Rows : s # r => status'[s] = status[s] /\ attempts'[s] = attempts[s]
      /\ status'[r] = "sending" /\ attempts'[r] = attempts[r] + 1
      /\ attempts[r] \in Nat /\ attempts'[r] \in Nat
  BY <1>1 DEF Take, TypeOK
<1>3. /\ \A e \in Dispatchers : e # d => pc'[e] = pc[e] /\ task'[e] = task[e]
      /\ pc'[d] = "open" /\ task'[d].row = r /\ task'[d].try = attempts[r] + 1
      /\ ripe' = ripe \ {r}
  BY <1>1, TakeTypes DEF Take, Goto, TypeOK
<1>4. \A e \in Dispatchers : Works(e) => task[e].row \in Rows /\ task[e].row # r
  BY TaskRow DEF HeldInv
<1>5. UnclaimedUntried'
  BY <1>2 DEF HeldInv, UnclaimedUntried
<1>6. DelivererHoldsRow'
  BY <1>2, <1>3, <1>4 DEF HeldInv, DelivererHoldsRow
<1>7. RowsApart'
  BY <1>3, <1>4 DEF HeldInv, RowsApart
<1>8. NotRipe'
  BY <1>3, <1>4 DEF HeldInv, NotRipe
<1>9. SeenIsPast'
  <2> SUFFICES ASSUME NEW e \in Dispatchers, NEW g \in seen'[e]
               PROVE  /\ g.status \in {"sending", "failed"}
                      /\ g.attempts < MaxAttempts /\ g.attempts <= attempts'[g.row]
                      /\ g.status = "sending" /\ g.attempts = attempts'[g.row] => ~ Delivering(g.row)'
    BY DEF SeenIsPast
  <2>1. /\ g \in Glimpse /\ g \in seen[e]
        /\ g.row \in Rows /\ g.attempts \in Nat /\ attempts[g.row] \in Nat
    BY <1>1 DEF TypeOK, Glimpse
  <2>2. /\ g.status \in {"sending", "failed"}
        /\ g.attempts < MaxAttempts /\ g.attempts <= attempts[g.row]
        /\ g.status = "sending" /\ g.attempts = attempts[g.row] => ~ Delivering(g.row)
    BY <2>1 DEF HeldInv, SeenIsPast
  <2>3. CASE g.row = r
    BY <1>2, <2>1, <2>2, <2>3
  <2>4. CASE g.row # r
    BY <1>2, <1>3, <2>1, <2>2, <2>4
  <2> QED
    BY <2>3, <2>4
<1> QED
  BY <1>1, <1>5, <1>6, <1>7, <1>8, <1>9

\* A step that takes no row, gives nobody another one to deliver and ripens
\* only what nobody delivers.
LEMMA RestHolds ==
    ASSUME HeldInv,
           \A r \in Rows : attempts'[r] = attempts[r] /\ (status'[r] = "none" => status[r] = "none"),
           \A e \in Dispatchers : Works(e)' => Works(e) /\ task'[e] = task[e],
           \A r \in Rows : Delivering(r)' => status'[r] = status[r] /\ (r \in ripe' => r \in ripe),
           \A e \in Dispatchers : \A g \in seen'[e] :
               \/ g \in seen[e]
               \/ /\ g.row \in Retryable
                  /\ g.status = status[g.row] /\ g.attempts = attempts[g.row],
           late' \subseteq late
    PROVE  late' = {} /\ UnclaimedUntried' /\ DelivererHoldsRow' /\ RowsApart' /\ NotRipe' /\ SeenIsPast'
<1>1. TypeOK /\ late = {}
  BY DEF HeldInv
<1>2. \A e \in Dispatchers : Works(e)' =>
          /\ task[e].row \in Rows /\ Delivering(task[e].row)'
          /\ status'[task[e].row] = status[task[e].row]
          /\ task[e].row \in ripe' => task[e].row \in ripe
  BY TaskRow DEF HeldInv, Works, Delivering
<1>3. \A r \in Rows : Delivering(r)' => Delivering(r)
  BY DEF Works, Delivering
<1>4. UnclaimedUntried'
  BY DEF HeldInv, UnclaimedUntried
<1>5. DelivererHoldsRow'
  BY <1>2 DEF HeldInv, DelivererHoldsRow
<1>6. RowsApart' /\ NotRipe'
  BY <1>2 DEF HeldInv, RowsApart, NotRipe
<1>7. SeenIsPast'
  <2> SUFFICES ASSUME NEW e \in Dispatchers, NEW g \in seen'[e]
               PROVE  /\ g.status \in {"sending", "failed"}
                      /\ g.attempts < MaxAttempts /\ g.attempts <= attempts'[g.row]
                      /\ g.status = "sending" /\ g.attempts = attempts'[g.row] => ~ Delivering(g.row)'
    BY DEF SeenIsPast
  <2>1. CASE g \in seen[e]
    <3>1. g.row \in Rows
      BY <1>1, <2>1 DEF TypeOK, Glimpse
    <3> QED
      BY <1>3, <2>1, <3>1 DEF HeldInv, SeenIsPast
  <2>2. CASE g.row \in Retryable /\ g.status = status[g.row] /\ g.attempts = attempts[g.row]
    <3>1. g.row \in Rows /\ g.row \in ripe /\ attempts[g.row] \in Nat
          /\ status[g.row] \in {"sending", "failed"} /\ attempts[g.row] < MaxAttempts
      BY <1>1, <2>2 DEF Retryable, TypeOK
    <3>2. ~ Delivering(g.row)
      BY <3>1 DEF HeldInv, NotRipe, Works, Delivering
    <3> QED
      BY <1>3, <2>2, <3>1, <3>2
  <2> QED
    BY <2>1, <2>2
<1> QED
  BY <1>1, <1>4, <1>5, <1>6, <1>7

-----------------------------------------------------------------------------
(* Types. With them go the facts that make a row's attempts stay in range.  *)

SeenMayRetry == \A d \in Dispatchers : \A g \in seen[d] : g.attempts < MaxAttempts
TypeInv == TypeOK /\ TasksKnown /\ UnclaimedUntried /\ SeenMayRetry

LEMMA HeldIsTyped == HeldInv => TypeInv
BY DEF HeldInv, TypeInv, SeenIsPast, SeenMayRetry

LEMMA TypeInit == Init => TypeInv
<1> SUFFICES ASSUME Init PROVE TypeInv
    OBVIOUS
<1>1. /\ status \in [Rows -> RowStatus] /\ attempts \in [Rows -> 0 .. MaxAttempts]
      /\ pc \in [Dispatchers -> Places] /\ copies \in [Rows \X People -> Nat]
  BY DEF Init, RowStatus, Places
<1>2. /\ seen \in [Dispatchers -> SUBSET Glimpse] /\ units \in [Dispatchers -> SUBSET Keys]
      /\ task \in [Dispatchers -> Task \union {NoTask}] /\ todo \in [Dispatchers -> SUBSET People]
      /\ out \in [Dispatchers -> [People -> Outcome \union {"none"}]]
  BY DEF Init, Untold
<1>3. fan \in [Dispatchers -> Seq(Channels)]
  BY DEF Init
<1> QED
  BY <1>1, <1>2, <1>3 DEF Init, TypeOK, TypeInv, TasksKnown, UnclaimedUntried, SeenMayRetry

\* What Take does to the typed invariant: the rest of the step leaves the
\* variables Take does not name in their types.
LEMMA TakeTyped ==
    ASSUME TypeInv, NEW d \in Dispatchers, NEW r \in Rows, Take(d, r), attempts[r] < MaxAttempts,
           UNCHANGED <<world, copies, late, units, delivery>>,
           fan' \in [Dispatchers -> Seq(Channels)],
           \A e \in Dispatchers : e # d => fan'[e] = fan[e],
           seen' \in [Dispatchers -> SUBSET Glimpse],
           \A e \in Dispatchers : seen'[e] \subseteq seen[e]
    PROVE  TypeInv'
<1>1. TypeOK'
  BY TakeTypes DEF TypeInv, TypeOK, world, delivery
<1>2. /\ pc'[d] = "open" /\ \A e \in Dispatchers : e # d => pc'[e] = pc[e] /\ task'[e] = task[e]
  BY DEF TypeInv, TypeOK, Take, Goto
<1>3. TasksKnown'
  BY <1>2, TakeTypes DEF TypeInv, TasksKnown
<1>4. UnclaimedUntried'
  BY DEF TypeInv, TypeOK, Take, UnclaimedUntried
<1>5. SeenMayRetry'
  BY DEF TypeInv, SeenMayRetry
<1> QED
  BY <1>1, <1>3, <1>4, <1>5 DEF TypeInv

\* The rows a dispatcher may take have an attempt left.
LEMMA RetryMay ==
    ASSUME TypeInv, NEW d \in Dispatchers, NEW g \in seen[d], attempts[g.row] = g.attempts
    PROVE  g \in Glimpse /\ g.row \in Rows /\ attempts[g.row] < MaxAttempts
BY DEF TypeInv, TypeOK, Glimpse, SeenMayRetry

LEMMA ClaimMay ==
    ASSUME TypeInv, NEW r \in Rows, status[r] = "none"
    PROVE  attempts[r] < MaxAttempts
BY DEF TypeInv, UnclaimedUntried

LEMMA FanoutRow ==
    ASSUME TypeInv, NEW d \in Dispatchers, pc[d] = "fanout"
    PROVE  /\ Head(fan[d]) \in Channels /\ Tail(fan[d]) \in Seq(Channels)
           /\ <<task[d].row[1], Head(fan[d])>> \in Rows
<1>1. fan[d] \in Seq(Channels) /\ fan[d] # <<>>
  BY DEF TypeInv, TypeOK, TasksKnown
<1>2. Head(fan[d]) \in Channels /\ Tail(fan[d]) \in Seq(Channels)
  BY <1>1
<1>3. task[d].row[1] \in Keys
  BY TaskRow, RowParts DEF TypeInv
<1> QED
  BY <1>2, <1>3 DEF Rows

LEMMA FanoutSeq == FanoutChannels \in Seq(Channels)
BY DEF FanoutChannels, Channels

\* The rounds.
LEMMA TypeRound ==
    ASSUME TypeInv, NEW d \in Dispatchers, Start(d) \/ Finish(d) \/ Retry(d) \/ Look(d)
    PROVE  TypeInv'
<1> USE DEF TypeInv
<1>1. CASE Start(d)
  <2> DEFINE S == {[row |-> r, status |-> status[r], attempts |-> attempts[r]] : r \in Retryable}
  <2>1. \A g \in S : g \in Glimpse /\ g.attempts < MaxAttempts
    BY DEF Retryable, Glimpse, TypeOK
  <2>2. seen' \in [Dispatchers -> SUBSET Glimpse] /\ SeenMayRetry'
    BY <1>1, <2>1 DEF Start, TypeOK, SeenMayRetry
  <2>3. units' \in [Dispatchers -> SUBSET Keys] /\ pc' \in [Dispatchers -> Places]
    BY <1>1 DEF Start, Goto, TypeOK, Places
  <2>4. TypeOK'
    BY <1>1, <2>2, <2>3 DEF Start, TypeOK, table, world, delivery
  <2>5. TasksKnown' /\ UnclaimedUntried'
    BY <1>1 DEF Start, Goto, TypeOK, TasksKnown, UnclaimedUntried, table
  <2> QED
    BY <2>2, <2>4, <2>5
<1>2. CASE Finish(d)
  <2>1. pc' \in [Dispatchers -> Places]
    BY <1>2 DEF Finish, Goto, TypeOK, Places
  <2> QED
    BY <1>2, <2>1 DEF Finish, Goto, TypeOK, TasksKnown, UnclaimedUntried, SeenMayRetry,
                      table, world, round, delivery
<1>3. CASE Retry(d)
  <2>1. PICK g \in seen[d] :
          /\ pc[d] = "round" /\ seen' = [seen EXCEPT ![d] = @ \ {g}]
          /\ \/ attempts[g.row] = g.attempts /\ Take(d, g.row)
             \/ UNCHANGED <<table, ripe, task, pc>>
          /\ UNCHANGED <<world, copies, late, units, delivery, fan>>
    BY <1>3 DEF Retry
  <2>2. /\ seen' \in [Dispatchers -> SUBSET Glimpse]
        /\ \A e \in Dispatchers : seen'[e] \subseteq seen[e]
    BY <2>1 DEF TypeOK
  <2>3. CASE attempts[g.row] = g.attempts /\ Take(d, g.row)
    BY <2>1, <2>2, <2>3, TakeTyped, RetryMay DEF TypeOK
  <2>4. CASE UNCHANGED <<table, ripe, task, pc>>
    BY <2>1, <2>2, <2>4 DEF TypeOK, TasksKnown, UnclaimedUntried, SeenMayRetry, table, world, delivery
  <2> QED
    BY <2>1, <2>3, <2>4
<1>4. CASE Look(d)
  <2>1. PICK k \in units[d] :
          /\ pc[d] = "round" /\ units' = [units EXCEPT ![d] = @ \ {k}]
          /\ \/ /\ task' = [task EXCEPT ![d] = [row |-> Email(k), try |-> 0]]
                /\ Goto(d, "compose")
             \/ UNCHANGED <<task, pc>>
          /\ UNCHANGED <<table, ripe, world, copies, late, seen, delivery, fan>>
    BY <1>4 DEF Look
  <2>2. units' \in [Dispatchers -> SUBSET Keys] /\ k \in Keys
    BY <2>1 DEF TypeOK
  <2>3. [row |-> Email(k), try |-> 0] \in Task
    BY <2>2 DEF Task, Email, Rows, Channels
  <2>4. [row |-> Email(k), try |-> 0] # NoTask
    BY <2>3 DEF Task, Rows
  <2>c. ASSUME task' = [task EXCEPT ![d] = [row |-> Email(k), try |-> 0]], Goto(d, "compose")
        PROVE  /\ task' \in [Dispatchers -> Task \union {NoTask}] /\ pc' \in [Dispatchers -> Places]
               /\ TasksKnown'
    <3>1. task' \in [Dispatchers -> Task \union {NoTask}]
      BY <2>c, <2>3 DEF TypeOK
    <3>2. pc' \in [Dispatchers -> Places]
      BY <2>c DEF TypeOK, Places, Goto
    <3>3. task'[d] # NoTask /\ pc'[d] = "compose"
      BY <2>c, <2>4 DEF TypeOK, Goto
    <3>4. \A e \in Dispatchers : e # d => pc'[e] = pc[e] /\ task'[e] = task[e]
      BY <2>c DEF TypeOK, Goto
    <3> QED
      BY <2>1, <3>1, <3>2, <3>3, <3>4 DEF TasksKnown
  <2>5. /\ task' \in [Dispatchers -> Task \union {NoTask}] /\ pc' \in [Dispatchers -> Places]
        /\ TasksKnown'
    BY <2>1, <2>c DEF TypeOK, TasksKnown
  <2> QED
    BY <2>1, <2>2, <2>5 DEF TypeOK, UnclaimedUntried, SeenMayRetry, table, world, delivery
<1> QED
  BY <1>1, <1>2, <1>3, <1>4

\* A key that has been looked at, and the other channels.
LEMMA TypeCompose ==
    ASSUME TypeInv, NEW d \in Dispatchers, Claim(d) \/ Skip(d) \/ PassOver(d) \/ Fanout(d)
    PROVE  TypeInv'
<1>t. TypeOK /\ TasksKnown /\ UnclaimedUntried /\ SeenMayRetry
  BY DEF TypeInv
<1>1. CASE Claim(d)
  <2>1. task[d].row \in Rows
    BY <1>t, <1>1, TaskRow DEF Claim
  <2>2. CASE status[task[d].row] = "none"
    <3>1. Take(d, task[d].row) /\ fan' = [fan EXCEPT ![d] = FanoutChannels]
          /\ UNCHANGED <<world, copies, round, delivery>>
      BY <1>1, <2>2 DEF Claim
    <3>2. fan' \in [Dispatchers -> Seq(Channels)] /\ \A e \in Dispatchers : e # d => fan'[e] = fan[e]
      BY <1>t, <3>1, FanoutSeq DEF TypeOK
    <3> QED
      BY <1>t, <2>1, <2>2, <3>1, <3>2, TakeTyped, ClaimMay DEF TypeOK, round
  <2>3. CASE status[task[d].row] # "none"
    <3>1. pc' \in [Dispatchers -> Places] /\ task' \in [Dispatchers -> Task \union {NoTask}]
      BY <1>t, <1>1, <2>3 DEF Claim, Goto, TypeOK, Places
    <3> QED
      BY <1>t, <1>1, <2>3, <3>1 DEF Claim, Goto, TypeInv, TypeOK, TasksKnown, UnclaimedUntried,
                                    SeenMayRetry, table, world, round, delivery
  <2> QED
    BY <2>2, <2>3
<1>2. CASE Skip(d)
  <2>1. status' \in [Rows -> RowStatus] /\ UnclaimedUntried'
    BY <1>t, <1>2 DEF Skip, TypeOK, RowStatus, UnclaimedUntried
  <2>2. pc' \in [Dispatchers -> Places] /\ task' \in [Dispatchers -> Task \union {NoTask}]
    BY <1>t, <1>2 DEF Skip, Goto, TypeOK, Places
  <2> QED
    BY <1>t, <1>2, <2>1, <2>2 DEF Skip, Goto, TypeInv, TypeOK, TasksKnown, SeenMayRetry,
                                  world, round, delivery
<1>3. CASE PassOver(d)
  <2>1. pc' \in [Dispatchers -> Places] /\ task' \in [Dispatchers -> Task \union {NoTask}]
    BY <1>t, <1>3 DEF PassOver, Goto, TypeOK, Places
  <2> QED
    BY <1>t, <1>3, <2>1 DEF PassOver, Goto, TypeInv, TypeOK, TasksKnown, UnclaimedUntried,
                            SeenMayRetry, table, world, round, delivery
<1>4. CASE Fanout(d)
  <2> DEFINE row == <<task[d].row[1], Head(fan[d])>>
  <2>1. /\ row \in Rows /\ Tail(fan[d]) \in Seq(Channels)
        /\ pc[d] = "fanout" /\ fan' = [fan EXCEPT ![d] = Tail(@)]
    BY <1>4, FanoutRow DEF Fanout
  <2>2. fan' \in [Dispatchers -> Seq(Channels)] /\ \A e \in Dispatchers : e # d => fan'[e] = fan[e]
    BY <1>t, <2>1 DEF TypeOK
  <2>3. CASE Take(d, row) /\ status[row] = "none"
    BY <1>t, <1>4, <2>1, <2>2, <2>3, TakeTyped, ClaimMay DEF Fanout, TypeOK, round
  <2>4. CASE Goto(d, "round") /\ task' = [task EXCEPT ![d] = NoTask] /\ UNCHANGED <<table, ripe>>
    <3>1. pc' \in [Dispatchers -> Places] /\ task' \in [Dispatchers -> Task \union {NoTask}]
      BY <1>t, <2>4 DEF Goto, TypeOK, Places
    <3> QED
      BY <1>t, <1>4, <2>2, <2>4, <3>1 DEF Fanout, Goto, TypeInv, TypeOK, TasksKnown,
                  UnclaimedUntried, SeenMayRetry, table, world, round, delivery
  <2>5. CASE Tail(fan[d]) # <<>> /\ UNCHANGED <<table, ripe, task, pc>>
    BY <1>t, <1>4, <2>2, <2>5 DEF Fanout, TypeInv, TypeOK, TasksKnown,
                  UnclaimedUntried, SeenMayRetry, table, world, round, delivery
  <2> QED
    BY <1>4, <2>3, <2>4, <2>5 DEF Fanout
<1> QED
  BY <1>1, <1>2, <1>3, <1>4

\* A delivery.
LEMMA TypeDelivery ==
    ASSUME TypeInv, NEW d \in Dispatchers,
           Open(d) \/ SendTo(d) \/ SendFails(d) \/ HoldBack(d) \/ Commit(d)
    PROVE  TypeInv'
<1>t. TypeOK /\ TasksKnown /\ UnclaimedUntried /\ SeenMayRetry
  BY DEF TypeInv
<1>g. \A c \in Channels, p \in People : Gate(c, p) \in Outcome \union {"none"}
  BY DEF Gate, Outcome
<1>c. pc[d] \in {"open", "send"} => task[d].row \in Rows /\ ChannelOf(d) \in Channels
  BY <1>t, TaskRow, RowParts DEF ChannelOf
<1>1. CASE Open(d)
  <2>1. \A p \in People : Gate(ChannelOf(d), p) \in Outcome \union {"none"}
    BY <1>1, <1>c, <1>g DEF Open
  <2>2. Subscribers[ChannelOf(d)] \subseteq People
    BY <1>1, <1>c DEF Open
  <2>3. todo' \in [Dispatchers -> SUBSET People] /\ pc' \in [Dispatchers -> Places]
    BY <1>t, <1>1, <2>2 DEF Open, Goto, TypeOK, Places
  <2>4. out' \in [Dispatchers -> [People -> Outcome \union {"none"}]]
    BY <1>t, <1>1, <2>1 DEF Open, TypeOK
  <2> QED
    BY <1>t, <1>1, <2>3, <2>4 DEF Open, Goto, TypeInv, TypeOK, TasksKnown, UnclaimedUntried,
                                  SeenMayRetry, table, world, round
<1>2. ASSUME NEW p \in todo[d], NEW o \in Outcome \union {"none"}, Told(d, p, o), copies' \in [Rows \X People -> Nat]
      PROVE  TypeInv'
  <2>1. p \in People
    BY <1>t DEF TypeOK
  <2>2. todo' \in [Dispatchers -> SUBSET People] /\ out' \in [Dispatchers -> [People -> Outcome \union {"none"}]]
    BY <1>t, <1>2, <2>1 DEF Told, TypeOK
  <2> QED
    BY <1>t, <1>2, <2>2 DEF Told, TypeInv, TypeOK, TasksKnown, UnclaimedUntried, SeenMayRetry,
                            table, world, round
<1>3. CASE SendTo(d)
  <2>1. PICK p \in todo[d] : Told(d, p, "sent") /\ copies' = [copies EXCEPT ![<<task[d].row, p>>] = @ + 1]
    BY <1>3 DEF SendTo
  <2>2. \A x \in Rows \X People : copies[x] \in Nat /\ copies[x] + 1 \in Nat
    BY <1>t DEF TypeOK
  <2>3. copies' \in [Rows \X People -> Nat]
    BY <1>t, <2>1, <2>2, Zenon DEF TypeOK
  <2> QED
    BY <1>2, <2>1, <2>3 DEF Outcome
<1>4. CASE SendFails(d)
  <2>1. PICK p \in todo[d] : Told(d, p, "failed") /\ UNCHANGED copies
    BY <1>4 DEF SendFails
  <2> QED
    BY <1>t, <1>2, <2>1 DEF Outcome, TypeOK
<1>5. CASE HoldBack(d)
  <2>1. PICK p \in todo[d] : Told(d, p, Gate(ChannelOf(d), p)) /\ UNCHANGED copies
    BY <1>5 DEF HoldBack
  <2>2. Gate(ChannelOf(d), p) \in Outcome \union {"none"}
    BY <1>t, <1>c, <1>g, <2>1 DEF Told, TypeOK
  <2> QED
    BY <1>t, <1>2, <2>1, <2>2 DEF TypeOK
<1>6. CASE Commit(d)
  <2>1. task[d].row \in Rows /\ task[d].try \in 0 .. MaxAttempts
    BY <1>t, <1>6, TaskRow DEF Commit
  <2>2. Verdict(d) \in RowStatus \ {"none"}
    BY DEF Verdict, RowStatus
  <2>3. status' \in [Rows -> RowStatus] /\ UnclaimedUntried'
    BY <1>t, <1>6, <2>2 DEF Commit, TypeOK, UnclaimedUntried
  <2>4. log' \subseteq Entry
    <3>1. \A q \in People : out[d][q] # "none" => out[d][q] \in Outcome
      BY <1>t DEF TypeOK
    <3>2. \A q \in People : out[d][q] # "none" =>
              [row |-> task[d].row, try |-> task[d].try, person |-> q, outcome |-> out[d][q]] \in Entry
      BY <2>1, <3>1 DEF Entry
    <3>3. log \subseteq Entry
      BY <1>t DEF TypeOK
    <3> QED
      BY <1>6, <3>2, <3>3 DEF Commit
  <2>5. out' \in [Dispatchers -> [People -> Outcome \union {"none"}]]
    BY <1>t, <1>6 DEF Commit, TypeOK, Untold
  <2>6. /\ pc' \in [Dispatchers -> Places] /\ task' \in [Dispatchers -> Task \union {NoTask}]
    BY <1>t, <1>6, ZenonT(60) DEF Commit, Goto, TypeOK, Places
  <2>7. TasksKnown'
    <3>1. task[d] # NoTask
      BY <1>t, <1>6 DEF Commit, TasksKnown
    <3> QED
      BY <1>t, <1>6, <3>1 DEF Commit, Goto, TypeOK, TasksKnown
  <2> QED
    BY <1>t, <1>6, <2>3, <2>4, <2>5, <2>6, <2>7 DEF Commit, TypeInv, TypeOK, SeenMayRetry, world, round
<1> QED
  BY <1>1, <1>3, <1>4, <1>5, <1>6

\* Failures, and the world.
LEMMA TypeWorld ==
    ASSUME TypeInv,
           \/ \E d \in Dispatchers : DbError(d) \/ Crash(d) \/ Linger(d)
           \/ \E r \in Rows : Ripen(r) \/ Expire(r)
           \/ \E p \in People : QuietChanges(p)
    PROVE  TypeInv'
<1>t. TypeOK /\ TasksKnown /\ UnclaimedUntried /\ SeenMayRetry
  BY DEF TypeInv
<1>1. ASSUME NEW d \in Dispatchers, DropTask(d)
      PROVE  /\ task' \in [Dispatchers -> Task \union {NoTask}] /\ todo' \in [Dispatchers -> SUBSET People]
             /\ out' \in [Dispatchers -> [People -> Outcome \union {"none"}]]
             /\ fan' \in [Dispatchers -> Seq(Channels)]
  BY <1>t, <1>1 DEF DropTask, TypeOK, Untold
<1>2. ASSUME NEW d \in Dispatchers, DbError(d) PROVE TypeInv'
  <2>1. pc' \in [Dispatchers -> Places] /\ TasksKnown'
    BY <1>t, <1>2 DEF DbError, DropTask, Goto, TypeOK, Places, TasksKnown
  <2> QED
    BY <1>t, <1>1, <1>2, <2>1 DEF DbError, TypeInv, TypeOK, UnclaimedUntried, SeenMayRetry,
                                  table, world, round
<1>3. ASSUME NEW d \in Dispatchers, Crash(d) PROVE TypeInv'
  <2>1. pc' \in [Dispatchers -> Places] /\ TasksKnown'
    BY <1>t, <1>3 DEF Crash, DropTask, Goto, TypeOK, Places, TasksKnown
  <2>2. seen' \in [Dispatchers -> SUBSET Glimpse] /\ units' \in [Dispatchers -> SUBSET Keys] /\ SeenMayRetry'
    BY <1>t, <1>3 DEF Crash, TypeOK, SeenMayRetry
  <2> QED
    BY <1>t, <1>1, <1>3, <2>1, <2>2 DEF Crash, TypeInv, TypeOK, UnclaimedUntried, table, world
<1>4. ASSUME NEW d \in Dispatchers, Linger(d) PROVE TypeInv'
  BY <1>t, <1>4 DEF Linger, TypeInv, TypeOK, TasksKnown, UnclaimedUntried, SeenMayRetry,
                    table, world, delivery
<1>5. ASSUME NEW r \in Rows, Ripen(r) \/ Expire(r) PROVE TypeInv'
  BY <1>t, <1>5 DEF Ripen, Expire, TypeInv, TypeOK, TasksKnown, UnclaimedUntried, SeenMayRetry,
                    table, world, round, delivery
<1>6. ASSUME NEW p \in People, QuietChanges(p) PROVE TypeInv'
  BY <1>t, <1>6 DEF QuietChanges, TypeInv, TypeOK, TasksKnown, UnclaimedUntried, SeenMayRetry,
                    table, round, delivery
<1> QED
  BY <1>2, <1>3, <1>4, <1>5, <1>6

LEMMA TypeStep == TypeInv /\ [Next]_vars => TypeInv'
<1> SUFFICES ASSUME TypeInv, [Next]_vars PROVE TypeInv'
    OBVIOUS
<1>1. CASE UNCHANGED vars
  BY <1>1 DEF TypeInv, TypeOK, TasksKnown, UnclaimedUntried, SeenMayRetry, vars, table, world, round, delivery
<1>2. ASSUME NEW d \in Dispatchers, Step(d) PROVE TypeInv'
  BY <1>2, TypeRound, TypeCompose, TypeDelivery DEF Step
<1> QED
  BY <1>1, <1>2, TypeWorld DEF Next

\* Every variable keeps its type, whatever the dispatchers and the world do: no
\* row is tried more than MAX_ATTEMPTS times, a task is there when it is used.
THEOREM TypeCorrect == Spec => []TypeOK
<1>1. TypeInv => TypeOK
  BY DEF TypeInv
<1> QED
  BY <1>1, TypeInit, TypeStep, PTL DEF Spec

-----------------------------------------------------------------------------
(* HeldInv is inductive.                                                    *)

LEMMA HeldInit == Init => HeldInv
<1> SUFFICES ASSUME Init PROVE HeldInv
    OBVIOUS
<1>1. TypeOK /\ TasksKnown /\ UnclaimedUntried
  BY TypeInit DEF TypeInv
<1>2. \A d \in Dispatchers : ~ Works(d)
  BY DEF Init, Works
<1>3. late = {} /\ SeenIsPast
  BY DEF Init, SeenIsPast
<1> QED
  BY <1>1, <1>2, <1>3 DEF HeldInv, DelivererHoldsRow, RowsApart, NotRipe

\* Nobody delivers a row that no dispatcher has claimed, nor one that failed.
LEMMA OnlySendingIsDelivered ==
    ASSUME HeldInv, NEW r \in Rows, status[r] # "sending"
    PROVE  ~ Delivering(r)
BY DEF HeldInv, DelivererHoldsRow, Works, Delivering

\* What holds of the parts of HeldInv that are not types.
Held == late = {} /\ UnclaimedUntried /\ DelivererHoldsRow /\ RowsApart /\ NotRipe /\ SeenIsPast

LEMMA HeldRound ==
    ASSUME HeldInv, NEW d \in Dispatchers, Start(d) \/ Finish(d) \/ Retry(d) \/ Look(d)
    PROVE  Held'
<1>t. TypeOK /\ late = {}
  BY DEF HeldInv
<1>1. CASE Start(d)
  <2>1. /\ \A e \in Dispatchers : Works(e)' => Works(e)
        /\ \A e \in Dispatchers : \A g \in seen'[e] :
               \/ g \in seen[e]
               \/ g.row \in Retryable /\ g.status = status[g.row] /\ g.attempts = attempts[g.row]
    BY <1>t, <1>1 DEF Start, Goto, Works, TypeOK
  <2> QED
    BY <1>t, <1>1, <2>1, RestHolds DEF Start, table, Held
<1>2. CASE Finish(d)
  <2>1. \A e \in Dispatchers : Works(e)' => Works(e)
    BY <1>t, <1>2 DEF Finish, Goto, Works, TypeOK
  <2> QED
    BY <1>t, <1>2, <2>1, RestHolds DEF Finish, table, round, Held
<1>3. CASE Retry(d)
  <2>1. PICK g \in seen[d] :
          /\ pc[d] = "round" /\ seen' = [seen EXCEPT ![d] = @ \ {g}]
          /\ \/ status[g.row] = g.status /\ attempts[g.row] = g.attempts /\ Take(d, g.row)
             \/ UNCHANGED <<table, ripe, task, pc>>
          /\ UNCHANGED <<world, copies, late, units, delivery, fan>>
    BY <1>3 DEF Retry
  <2>2. \A e \in Dispatchers : seen'[e] \subseteq seen[e]
    BY <1>t, <2>1 DEF TypeOK
  <2>3. CASE status[g.row] = g.status /\ attempts[g.row] = g.attempts /\ Take(d, g.row)
    <3>1. g.row \in Rows /\ attempts[g.row] < MaxAttempts
      BY <2>3, RetryMay, HeldIsTyped
    <3>2. ~ Delivering(g.row)
      BY <2>3, <3>1, OnlySendingIsDelivered DEF HeldInv, SeenIsPast
    <3>3. ~ Works(d)
      BY <2>1 DEF Works
    <3> QED
      BY <2>1, <2>2, <2>3, <3>1, <3>2, <3>3, TakeHolds DEF Held
  <2>4. CASE UNCHANGED <<table, ripe, task, pc>>
    BY <1>t, <2>1, <2>2, <2>4, RestHolds DEF table, Works, Held
  <2> QED
    BY <2>1, <2>3, <2>4
<1>4. CASE Look(d)
  <2>1. \A e \in Dispatchers : Works(e)' => Works(e) /\ task'[e] = task[e]
    BY <1>t, <1>4 DEF Look, Goto, Works, TypeOK
  <2> QED
    BY <1>t, <1>4, <2>1, RestHolds DEF Look, table, Held
<1> QED
  BY <1>1, <1>2, <1>3, <1>4

LEMMA HeldCompose ==
    ASSUME HeldInv, NEW d \in Dispatchers, Claim(d) \/ Skip(d) \/ PassOver(d) \/ Fanout(d)
    PROVE  Held'
<1>t. TypeOK /\ TasksKnown /\ late = {}
  BY DEF HeldInv
<1>1. CASE Claim(d)
  <2>1. task[d].row \in Rows /\ ~ Works(d)
    BY <1>t, <1>1, TaskRow DEF Claim, Works
  <2>2. CASE status[task[d].row] = "none"
    <3>1. Take(d, task[d].row) /\ UNCHANGED <<late, seen>>
      BY <1>1, <2>2 DEF Claim, round
    <3>2. attempts[task[d].row] < MaxAttempts /\ ~ Delivering(task[d].row)
      BY <2>1, <2>2, ClaimMay, HeldIsTyped, OnlySendingIsDelivered
    <3> QED
      BY <2>1, <3>1, <3>2, TakeHolds DEF Held
  <2>3. CASE status[task[d].row] # "none"
    <3>1. \A e \in Dispatchers : Works(e)' => Works(e) /\ task'[e] = task[e]
      BY <1>t, <1>1, <2>3 DEF Claim, Goto, Works, TypeOK
    <3> QED
      BY <1>t, <1>1, <2>3, <3>1, RestHolds DEF Claim, table, round, Held
  <2> QED
    BY <2>2, <2>3
<1>2. CASE Skip(d) \/ PassOver(d)
  <2>1. \A e \in Dispatchers : Works(e)' => Works(e) /\ task'[e] = task[e]
    BY <1>t, <1>2 DEF Skip, PassOver, Goto, Works, TypeOK
  <2>2. /\ \A r \in Rows : attempts'[r] = attempts[r]
        /\ \A r \in Rows : status'[r] = status[r] \/ (status[r] = "none" /\ status'[r] = "skipped")
    BY <1>t, <1>2 DEF Skip, PassOver, table, TypeOK
  <2>3. \A r \in Rows : Delivering(r)' => status'[r] = status[r]
    BY <2>1, <2>2, OnlySendingIsDelivered DEF Delivering, Works
  <2>4. UNCHANGED <<ripe, seen, late>>
    BY <1>2 DEF Skip, PassOver, round
  <2> QED
    BY <2>1, <2>2, <2>3, <2>4, RestHolds DEF Held
<1>3. CASE Fanout(d)
  <2> DEFINE row == <<task[d].row[1], Head(fan[d])>>
  <2>1. row \in Rows /\ ~ Works(d) /\ UNCHANGED <<late, seen>>
    BY <1>3, FanoutRow, HeldIsTyped DEF Fanout, Works, round
  <2>2. CASE Take(d, row) /\ status[row] = "none"
    <3>1. attempts[row] < MaxAttempts /\ ~ Delivering(row)
      BY <2>1, <2>2, ClaimMay, HeldIsTyped, OnlySendingIsDelivered
    <3> QED
      BY <2>1, <2>2, <3>1, TakeHolds DEF Held
  <2>3. CASE \/ Goto(d, "round") /\ task' = [task EXCEPT ![d] = NoTask] /\ UNCHANGED <<table, ripe>>
             \/ UNCHANGED <<table, ripe, task, pc>>
    <3>1. \A e \in Dispatchers : Works(e)' => Works(e) /\ task'[e] = task[e]
      BY <1>t, <2>1, <2>3 DEF Goto, Works, TypeOK
    <3> QED
      BY <2>1, <2>3, <3>1, RestHolds DEF table, Held
  <2> QED
    BY <1>3, <2>2, <2>3 DEF Fanout
<1> QED
  BY <1>1, <1>2, <1>3

LEMMA HeldDelivery ==
    ASSUME HeldInv, NEW d \in Dispatchers,
           Open(d) \/ SendTo(d) \/ SendFails(d) \/ HoldBack(d) \/ Commit(d)
    PROVE  Held'
<1>t. TypeOK /\ TasksKnown /\ late = {}
  BY DEF HeldInv
<1>1. CASE Open(d)
  <2>1. \A e \in Dispatchers : Works(e)' => Works(e)
    BY <1>t, <1>1 DEF Open, Goto, Works, TypeOK
  <2>2. UNCHANGED <<table, ripe, task, seen, late>>
    BY <1>1 DEF Open, round
  <2> QED
    BY <2>1, <2>2, RestHolds DEF table, Held
<1>2. CASE SendTo(d) \/ SendFails(d) \/ HoldBack(d)
  <2>1. UNCHANGED <<table, ripe, pc, task, seen, late>>
    BY <1>2 DEF SendTo, SendFails, HoldBack, Told, round
  <2> QED
    BY <2>1, RestHolds DEF table, Works, Held
<1>3. CASE Commit(d)
  <2>1. task[d].row \in Rows /\ Works(d)
    BY <1>t, <1>3, TaskRow DEF Commit, Works
  <2>2. /\ \A e \in Dispatchers : Works(e)' => e # d /\ Works(e) /\ task'[e] = task[e]
        /\ \A r \in Rows : r # task[d].row => status'[r] = status[r]
    BY <1>t, <1>3 DEF Commit, Goto, Works, TypeOK
  <2>3. \A r \in Rows : Delivering(r)' => r # task[d].row
    BY <2>1, <2>2 DEF HeldInv, RowsApart, Delivering, Works
  <2>4. \A r \in Rows : attempts'[r] = attempts[r] /\ (status'[r] = "none" => status[r] = "none")
    BY <1>t, <1>3, <2>2 DEF Commit, Verdict, TypeOK
  <2>5. ripe' \subseteq ripe /\ UNCHANGED <<seen, late>>
    BY <1>3 DEF Commit, round
  <2> QED
    BY <2>2, <2>3, <2>4, <2>5, RestHolds DEF Held
<1> QED
  BY <1>1, <1>2, <1>3

\* Only here does it matter that deliveries are quick.
LEMMA HeldWorld ==
    ASSUME HeldInv, "slow" \notin Events,
           \/ \E d \in Dispatchers : DbError(d) \/ Crash(d) \/ Linger(d)
           \/ \E r \in Rows : Ripen(r) \/ Expire(r)
           \/ \E p \in People : QuietChanges(p)
    PROVE  Held'
<1>t. TypeOK /\ late = {}
  BY DEF HeldInv
<1>1. ASSUME NEW d \in Dispatchers, DbError(d) \/ Crash(d) PROVE Held'
  <2>1. \A e \in Dispatchers : Works(e)' => Works(e) /\ task'[e] = task[e]
    BY <1>t, <1>1 DEF DbError, Crash, DropTask, Goto, Works, TypeOK
  <2>2. \A e \in Dispatchers : seen'[e] \subseteq seen[e]
    BY <1>t, <1>1 DEF DbError, Crash, round, TypeOK
  <2>3. UNCHANGED <<table, ripe, late>>
    BY <1>1 DEF DbError, Crash, round
  <2> QED
    BY <2>1, <2>2, <2>3, RestHolds DEF table, Held
<1>2. ASSUME NEW r \in Rows, Ripen(r) PROVE Held'
  <2>1. ~ Delivering(r) /\ ripe' = ripe \union {r} /\ UNCHANGED <<table, pc, task, seen, late>>
    BY <1>2 DEF Ripen, round
  <2>2. \A s \in Rows : Delivering(s)' => s # r
    BY <2>1 DEF Delivering
  <2> QED
    BY <2>1, <2>2, RestHolds DEF table, Works, Held
<1>3. ASSUME \/ \E r \in Rows : Expire(r)
             \/ \E p \in People : QuietChanges(p)
      PROVE  Held'
  <2>1. UNCHANGED <<table, ripe, pc, task, seen, late>>
    BY <1>3 DEF Expire, QuietChanges, round
  <2> QED
    BY <2>1, RestHolds DEF table, Works, Held
<1> QED
  BY <1>1, <1>2, <1>3 DEF Linger

LEMMA HeldStep == "slow" \notin Events /\ HeldInv /\ [Next]_vars => HeldInv'
<1> SUFFICES ASSUME "slow" \notin Events, HeldInv, [Next]_vars PROVE HeldInv'
    OBVIOUS
<1>1. TypeOK' /\ TasksKnown'
  BY HeldIsTyped, TypeStep DEF TypeInv
<1>2. CASE UNCHANGED vars
  <2>1. UNCHANGED <<table, ripe, pc, task, seen, late>>
    BY <1>2 DEF vars, round
  <2> QED
    BY <1>1, <2>1, RestHolds DEF HeldInv, table, Works
<1>3. ASSUME NEW d \in Dispatchers, Step(d) PROVE Held'
  BY <1>3, HeldRound, HeldCompose, HeldDelivery DEF Step
<1> QED
  BY <1>1, <1>2, <1>3, HeldWorld DEF Next, Held, HeldInv

\* A row is delivered by one dispatcher at a time, whose attempt is the row's
\* last: what the conditional claims of _claim and _retry_one promise, with
\* crashes, errors and overlapping rounds.
THEOREM RowsAreHeld == ASSUME "slow" \notin Events PROVE Spec => []HeldInv
<1>1. HeldInv /\ [Next]_vars => HeldInv'
  BY HeldStep
<1> QED
  BY <1>1, HeldInit, PTL DEF Spec

-----------------------------------------------------------------------------
(* What is sent rests.                                                      *)

LEMMA CopiesOfSending ==
    ASSUME HeldInv, NEW d \in Dispatchers, SendTo(d), NEW r \in Rows, status[r] # "sending"
    PROVE  \A p \in People : copies'[<<r, p>>] = copies[<<r, p>>]
<1>1. task[d].row \in Rows /\ task[d].row # r
  BY TaskRow DEF HeldInv, DelivererHoldsRow, Works, SendTo, Told
<1>2. PICK q \in todo[d] : copies' = [copies EXCEPT ![<<task[d].row, q>>] = @ + 1]
  BY DEF SendTo
<1>3. \A p \in People : <<r, p>> # <<task[d].row, q>> /\ <<r, p>> \in Rows \X People
  BY <1>1
<1> QED
  BY <1>2, <1>3 DEF HeldInv, TypeOK

\* No step takes "sent" from a row: Take is only for rows that are unclaimed,
\* failed or abandoned, Skip for unclaimed ones, Commit for those being sent.
SentKept == \A r \in Rows : status[r] = "sent" => status'[r] = "sent"

LEMMA RowSteps ==
    ASSUME HeldInv, [Next]_vars
    PROVE  SentKept /\ (UNCHANGED copies \/ \E d \in Dispatchers : SendTo(d))
<1>t. TypeOK /\ TasksKnown
  BY DEF HeldInv
<1>0. ASSUME UNCHANGED status PROVE SentKept
  BY <1>0 DEF SentKept
<1>s. ASSUME NEW r \in Rows, NEW x, status[r] # "sent", status' = [status EXCEPT ![r] = x]
      PROVE  SentKept
  BY <1>t, <1>s DEF TypeOK, SentKept
<1>1. CASE UNCHANGED vars
  BY <1>0, <1>1 DEF vars, table
<1>2. ASSUME NEW d \in Dispatchers, Start(d) \/ Finish(d) \/ Look(d) \/ PassOver(d) \/ Open(d)
                                    \/ SendFails(d) \/ HoldBack(d) \/ DbError(d) \/ Crash(d) \/ Linger(d)
      PROVE  SentKept /\ UNCHANGED copies
  <2>1. UNCHANGED <<status, copies>>
    BY <1>2 DEF Start, Finish, Look, PassOver, Open, SendFails, HoldBack, Told, DbError, Crash, Linger, table
  <2> QED
    BY <1>0, <2>1
<1>3. ASSUME \/ \E r \in Rows : Ripen(r) \/ Expire(r)
             \/ \E p \in People : QuietChanges(p)
      PROVE  SentKept /\ UNCHANGED copies
  <2>1. UNCHANGED <<status, copies>>
    BY <1>3 DEF Ripen, Expire, QuietChanges, table
  <2> QED
    BY <1>0, <2>1
<1>4. ASSUME NEW d \in Dispatchers, Retry(d) PROVE SentKept /\ UNCHANGED copies
  <2>1. PICK g \in seen[d] :
          /\ \/ status[g.row] = g.status /\ Take(d, g.row)
             \/ UNCHANGED table
          /\ UNCHANGED copies
    BY <1>4 DEF Retry
  <2>2. g.row \in Rows
    BY <1>t DEF TypeOK, Glimpse
  <2>3. g.status # "sent"
    BY DEF HeldInv, SeenIsPast
  <2> QED
    BY <1>0, <1>s, <2>1, <2>2, <2>3 DEF Take, table
<1>5. ASSUME NEW d \in Dispatchers, Claim(d) \/ Skip(d) PROVE SentKept /\ UNCHANGED copies
  <2>1. task[d].row \in Rows
    BY <1>t, <1>5, TaskRow DEF Claim, Skip
  <2> QED
    BY <1>0, <1>s, <1>5, <2>1 DEF Claim, Skip, Take, table
<1>6. ASSUME NEW d \in Dispatchers, Fanout(d) PROVE SentKept /\ UNCHANGED copies
  <2>1. <<task[d].row[1], Head(fan[d])>> \in Rows
    BY <1>6, FanoutRow, HeldIsTyped DEF Fanout
  <2> QED
    BY <1>0, <1>s, <1>6, <2>1 DEF Fanout, Take, table
<1>7. ASSUME NEW d \in Dispatchers, Commit(d) PROVE SentKept /\ UNCHANGED copies
  <2>1. task[d].row \in Rows /\ status[task[d].row] = "sending"
    BY <1>t, <1>7, TaskRow DEF Commit, HeldInv, DelivererHoldsRow, Works
  <2> QED
    BY <1>s, <1>7, <2>1 DEF Commit
<1>8. ASSUME NEW d \in Dispatchers, SendTo(d) PROVE SentKept
  BY <1>0, <1>8 DEF SendTo, Told, table
<1>9. ASSUME NEW d \in Dispatchers, Step(d)
      PROVE  SentKept /\ (UNCHANGED copies \/ SendTo(d))
  BY <1>2, <1>4, <1>5, <1>6, <1>7, <1>8, <1>9 DEF Step
<1> QED
  BY <1>1, <1>2, <1>3, <1>9 DEF Next

\* A "sent" row stays "sent" and nobody is sent it again: no late commit, retry
\* or repeated claim touches it, while deliveries are quick.
THEOREM SentStays == ASSUME "slow" \notin Events PROVE Spec => SentRowsRest
<1>1. ASSUME HeldInv, [Next]_vars
      PROVE  [\A r \in Rows : status[r] = "sent" =>
                  /\ status'[r] = "sent"
                  /\ \A p \in People : copies'[<<r, p>>] = copies[<<r, p>>]]_vars
  <2> SUFFICES ASSUME NEW r \in Rows, status[r] = "sent"
               PROVE  status'[r] = "sent" /\ \A p \in People : copies'[<<r, p>>] = copies[<<r, p>>]
    OBVIOUS
  <2>1. status'[r] = "sent"
    BY <1>1, RowSteps DEF SentKept
  <2>2. ASSUME NEW d \in Dispatchers, SendTo(d)
        PROVE  \A p \in People : copies'[<<r, p>>] = copies[<<r, p>>]
    BY <1>1, <2>2, CopiesOfSending
  <2> QED
    BY <1>1, <2>1, <2>2, RowSteps
<1> QED
  BY <1>1, RowsAreHeld, PTL DEF Spec, SentRowsRest

-----------------------------------------------------------------------------
(* Nobody is sent a row twice.                                              *)

\* No process dies, no delivery fails in the database or is slow.
Calm == Events \cap {"slow", "crash", "db_error"} = {}

LEMMA AccountInit == Init => Account
<1> SUFFICES ASSUME Init PROVE Account
    OBVIOUS
<1>1. SendingIsDelivered
  BY DEF Init, SendingIsDelivered
<1>2. OutOfAttempt
  BY DEF Init, OutOfAttempt
<1>3. CopiesAccounted
  BY DEF Init, CopiesAccounted, Works
<1> QED
  BY <1>1, <1>2, <1>3 DEF Account

\* A row taken had been sent to nobody, and the attempt begins with nobody told.
LEMMA TakeAccounts ==
    ASSUME HeldInv, Account, NEW d \in Dispatchers, NEW r \in Rows, Take(d, r),
           status[r] \notin {"sending", "sent"}, ~ Works(d), UNCHANGED <<copies, delivery>>
    PROVE  Account'
<1>t. TypeOK
  BY DEF HeldInv
<1>1. /\ \A s \in Rows : s # r => status'[s] = status[s]
      /\ status'[r] = "sending"
      /\ \A e \in Dispatchers : e # d => pc'[e] = pc[e] /\ task'[e] = task[e]
      /\ pc'[d] = "open" /\ task'[d].row = r
  BY <1>t DEF Take, Goto, TypeOK
<1>2. \A e \in Dispatchers : Works(e) => task[e].row # r
  BY OnlySendingIsDelivered DEF Delivering, Works
<1>3. out[d] = Untold /\ UNCHANGED <<todo, out, copies>>
  BY DEF Account, OutOfAttempt, Works, delivery
<1>4. SendingIsDelivered'
  <2> SUFFICES ASSUME NEW s \in Rows, status'[s] = "sending" PROVE Delivering(s)'
    BY DEF SendingIsDelivered
  <2>1. CASE s = r
    BY <1>1, <2>1 DEF Delivering
  <2>2. CASE s # r
    <3>1. PICK e \in Dispatchers : Works(e) /\ task[e].row = s
      BY <1>1, <2>2 DEF Account, SendingIsDelivered, Delivering, Works
    <3>2. e # d
      BY <3>1
    <3> QED
      BY <1>1, <3>1, <3>2 DEF Works, Delivering
  <2> QED
    BY <2>1, <2>2
<1>5. OutOfAttempt'
  BY <1>1, <1>3 DEF Account, OutOfAttempt
<1>6. CopiesAccounted'
  <2> SUFFICES ASSUME NEW s \in Rows, NEW p \in People
               PROVE  /\ copies'[<<s, p>>] <= 1
                      /\ status'[s] \notin {"sending", "sent"} => copies'[<<s, p>>] = 0
                      /\ \A e \in Dispatchers : Works(e)' /\ task'[e].row = s =>
                            (copies'[<<s, p>>] = 1 <=> out'[e][p] = "sent")
    BY DEF CopiesAccounted
  <2>c. copies' = copies /\ out' = out
    BY <1>3
  <2>1. CASE s = r
    <3>1. copies[<<s, p>>] = 0
      BY <2>1 DEF Account, CopiesAccounted
    <3>2. \A e \in Dispatchers : Works(e)' /\ task'[e].row = s => e = d
      BY <1>1, <1>2, <2>1 DEF Works
    <3>3. out[d][p] # "sent"
      BY <1>3 DEF Untold
    <3> QED
      BY <1>1, <2>1, <2>c, <3>1, <3>2, <3>3
  <2>2. CASE s # r
    <3>1. \A e \in Dispatchers : Works(e)' /\ task'[e].row = s => Works(e) /\ task[e].row = s
      BY <1>1, <2>2 DEF Works
    <3> QED
      BY <1>1, <2>2, <2>c, <3>1 DEF Account, CopiesAccounted
  <2> QED
    BY <2>1, <2>2
<1> QED
  BY <1>4, <1>5, <1>6 DEF Account

\* Steps that take and deliver nothing.
LEMMA RestAccounts ==
    ASSUME HeldInv, Account, UNCHANGED <<copies, delivery>>,
           \A r \in Rows : status'[r] = status[r] \/ (status[r] = "none" /\ status'[r] = "skipped"),
           \A e \in Dispatchers : Works(e)' <=> Works(e),
           \A e \in Dispatchers : Works(e) => pc'[e] = pc[e] /\ task'[e] = task[e]
    PROVE  Account'
<1>1. SendingIsDelivered'
  <2> SUFFICES ASSUME NEW s \in Rows, status'[s] = "sending" PROVE Delivering(s)'
    BY DEF SendingIsDelivered
  <2>1. PICK e \in Dispatchers : Works(e) /\ task[e].row = s
    BY DEF Account, SendingIsDelivered, Delivering, Works
  <2> QED
    BY <2>1 DEF Delivering, Works
<1>2. OutOfAttempt'
  BY DEF Account, OutOfAttempt, Works, delivery
<1>3. CopiesAccounted'
  <2>1. \A e \in Dispatchers : Works(e)' => Works(e) /\ task'[e] = task[e]
    OBVIOUS
  <2>2. copies' = copies /\ out' = out
    BY DEF delivery
  <2> SUFFICES ASSUME NEW s \in Rows, NEW p \in People
               PROVE  /\ copies'[<<s, p>>] <= 1
                      /\ status'[s] \notin {"sending", "sent"} => copies'[<<s, p>>] = 0
                      /\ \A e \in Dispatchers : Works(e)' /\ task'[e].row = s =>
                            (copies'[<<s, p>>] = 1 <=> out'[e][p] = "sent")
    BY DEF CopiesAccounted
  <2>3. status[s] = status'[s] \/ status[s] = "none"
    OBVIOUS
  <2> QED
    BY <2>1, <2>2, <2>3 DEF Account, CopiesAccounted
<1> QED
  BY <1>1, <1>2, <1>3 DEF Account

\* What a dispatcher that takes a seen row finds: nobody delivers it, so it is
\* not "sending" but failed.
LEMMA AccountRound ==
    ASSUME HeldInv, Account, NEW d \in Dispatchers, Start(d) \/ Finish(d) \/ Retry(d) \/ Look(d)
    PROVE  Account'
<1>t. TypeOK
  BY DEF HeldInv
<1>1. CASE Start(d) \/ Finish(d) \/ Look(d)
  <2>1. UNCHANGED <<status, copies, delivery>>
    BY <1>1 DEF Start, Finish, Look, table
  <2>2. /\ \A e \in Dispatchers : Works(e)' <=> Works(e)
        /\ \A e \in Dispatchers : Works(e) => pc'[e] = pc[e] /\ task'[e] = task[e]
    BY <1>t, <1>1 DEF Start, Finish, Look, Goto, Works, TypeOK
  <2> QED
    BY <2>1, <2>2, RestAccounts
<1>2. CASE Retry(d)
  <2>1. PICK g \in seen[d] :
          /\ pc[d] = "round"
          /\ \/ status[g.row] = g.status /\ attempts[g.row] = g.attempts /\ Take(d, g.row)
             \/ UNCHANGED <<table, ripe, task, pc>>
          /\ UNCHANGED <<copies, delivery>>
    BY <1>2 DEF Retry
  <2>2. CASE status[g.row] = g.status /\ attempts[g.row] = g.attempts /\ Take(d, g.row)
    <3>1. g.row \in Rows
      BY RetryMay, <2>2, HeldIsTyped
    <3>2. g.status \in {"sending", "failed"} /\ (g.status = "sending" => ~ Delivering(g.row))
      BY <2>2 DEF HeldInv, SeenIsPast
    <3>3. status[g.row] \notin {"sending", "sent"}
      BY <2>2, <3>1, <3>2 DEF Account, SendingIsDelivered
    <3> QED
      BY <2>1, <2>2, <3>1, <3>3, TakeAccounts DEF Works
  <2>3. CASE UNCHANGED <<table, ripe, task, pc>>
    BY <2>1, <2>3, RestAccounts DEF table, Works
  <2> QED
    BY <2>1, <2>2, <2>3
<1> QED
  BY <1>1, <1>2

LEMMA AccountCompose ==
    ASSUME HeldInv, Account, NEW d \in Dispatchers, Claim(d) \/ Skip(d) \/ PassOver(d) \/ Fanout(d)
    PROVE  Account'
<1>t. TypeOK /\ TasksKnown
  BY DEF HeldInv
<1>w. ~ Works(d) /\ UNCHANGED <<copies, delivery>>
  BY DEF Claim, Skip, PassOver, Fanout, Works
<1>r. ASSUME Goto(d, "round"), task' = [task EXCEPT ![d] = NoTask]
      PROVE  /\ \A e \in Dispatchers : Works(e)' <=> Works(e)
             /\ \A e \in Dispatchers : Works(e) => pc'[e] = pc[e] /\ task'[e] = task[e]
  BY <1>t, <1>w, <1>r DEF Goto, Works, TypeOK
<1>1. CASE Claim(d)
  <2>1. task[d].row \in Rows
    BY <1>t, <1>1, TaskRow DEF Claim
  <2> QED
    BY <1>1, <1>w, <1>r, <2>1, TakeAccounts, RestAccounts DEF Claim, table
<1>2. CASE Skip(d) \/ PassOver(d)
  <2>1. \A r \in Rows : status'[r] = status[r] \/ (status[r] = "none" /\ status'[r] = "skipped")
    BY <1>t, <1>2 DEF Skip, PassOver, table, TypeOK
  <2> QED
    BY <1>2, <1>w, <1>r, <2>1, RestAccounts DEF Skip, PassOver
<1>3. CASE Fanout(d)
  <2>1. <<task[d].row[1], Head(fan[d])>> \in Rows
    BY <1>3, FanoutRow, HeldIsTyped DEF Fanout
  <2>2. CASE UNCHANGED <<table, ripe, task, pc>>
    BY <1>w, <2>2, RestAccounts DEF table, Works
  <2> QED
    BY <1>3, <1>w, <1>r, <2>1, <2>2, TakeAccounts, RestAccounts DEF Fanout, table
<1> QED
  BY <1>1, <1>2, <1>3

\* A message sent is noted in the same step; only its deliverer counts.
LEMMA AccountTold ==
    ASSUME HeldInv, Account, NEW d \in Dispatchers, NEW p \in todo[d], NEW o, Told(d, p, o),
           \/ o = "sent" /\ copies' = [copies EXCEPT ![<<task[d].row, p>>] = @ + 1]
           \/ o # "sent" /\ UNCHANGED copies
    PROVE  Account'
<1>t. TypeOK /\ TasksKnown /\ p \in People
  BY DEF HeldInv, TypeOK
<1>1. /\ pc[d] = "send" /\ Works(d) /\ task[d].row \in Rows /\ out[d][p] = "none"
      /\ UNCHANGED <<status, pc, task>>
  BY <1>t, TaskRow DEF Told, Works, Account, OutOfAttempt, table
<1>2. /\ \A e \in Dispatchers : e # d => out'[e] = out[e] /\ todo'[e] = todo[e]
      /\ \A q \in People : q # p => out'[d][q] = out[d][q]
      /\ out'[d][p] = o /\ todo'[d] = todo[d] \ {p}
  BY <1>t DEF Told, TypeOK
<1>3. SendingIsDelivered'
  BY <1>1 DEF Account, SendingIsDelivered, Delivering
<1>4. OutOfAttempt'
  <2>1. \A q \in todo[d] : q \in People
    BY <1>t DEF TypeOK
  <2> QED
    BY <1>1, <1>2, <2>1 DEF Account, OutOfAttempt
<1>5. CopiesAccounted'
  <2> SUFFICES ASSUME NEW s \in Rows, NEW q \in People
               PROVE  /\ copies'[<<s, q>>] <= 1
                      /\ status'[s] \notin {"sending", "sent"} => copies'[<<s, q>>] = 0
                      /\ \A e \in Dispatchers : Works(e)' /\ task'[e].row = s =>
                            (copies'[<<s, q>>] = 1 <=> out'[e][q] = "sent")
    BY DEF CopiesAccounted
  <2>c. /\ copies[<<s, q>>] <= 1 /\ copies[<<s, q>>] \in Nat
        /\ status[s] \notin {"sending", "sent"} => copies[<<s, q>>] = 0
        /\ \A e \in Dispatchers : Works(e) /\ task[e].row = s =>
              (copies[<<s, q>>] = 1 <=> out[e][q] = "sent")
    BY <1>t DEF Account, CopiesAccounted, TypeOK
  <2>w. \A e \in Dispatchers : Works(e)' <=> Works(e)
    BY <1>1 DEF Works
  <2>1. CASE s = task[d].row /\ q = p
    <3>1. status[s] = "sending" /\ \A e \in Dispatchers : Works(e) /\ task[e].row = s => e = d
      BY <1>1, <2>1 DEF HeldInv, DelivererHoldsRow, RowsApart
    <3>2. copies[<<s, q>>] = 0
      BY <1>1, <2>1, <2>c
    <3>3. copies'[<<s, q>>] = IF o = "sent" THEN 1 ELSE 0
      BY <1>t, <1>1, <2>1, <3>2 DEF TypeOK
    <3> QED
      BY <1>1, <1>2, <2>1, <2>w, <3>1, <3>3
  <2>2. CASE ~ (s = task[d].row /\ q = p)
    <3>1. copies'[<<s, q>>] = copies[<<s, q>>]
      <4>1. <<s, q>> # <<task[d].row, p>> /\ <<s, q>> \in Rows \X People
        BY <2>2
      <4> QED
        BY <1>t, <4>1 DEF TypeOK
    <3>2. \A e \in Dispatchers : task[e].row = s => out'[e][q] = out[e][q]
      BY <1>2, <2>2
    <3> QED
      BY <1>1, <2>c, <2>w, <3>1, <3>2
  <2> QED
    BY <2>1, <2>2
<1> QED
  BY <1>3, <1>4, <1>5 DEF Account

LEMMA AccountOpen ==
    ASSUME HeldInv, Account, NEW d \in Dispatchers, Open(d)
    PROVE  Account'
<1>t. TypeOK /\ TasksKnown
  BY DEF HeldInv
<1>g. \A c \in Channels, p \in People : Gate(c, p) # "sent"
  BY DEF Gate
<1>c. task[d].row \in Rows /\ ChannelOf(d) \in Channels
  BY <1>t, TaskRow, RowParts DEF ChannelOf, Open
<1>1. /\ pc[d] = "open" /\ pc'[d] = "send" /\ \A e \in Dispatchers : e # d => pc'[e] = pc[e]
      /\ UNCHANGED <<status, copies, task>>
  BY <1>t DEF Open, Goto, TypeOK, table
<1>2. /\ \A e \in Dispatchers : e # d => out'[e] = out[e] /\ todo'[e] = todo[e]
      /\ \A p \in People : out'[d][p] # "sent"
      /\ \A p \in todo'[d] : out'[d][p] = "none"
  <2>1. Subscribers[ChannelOf(d)] \subseteq People
    BY <1>c
  <2> QED
    BY <1>t, <1>c, <1>g, <2>1 DEF Open, TypeOK
<1>3. SendingIsDelivered'
  <2>1. \A e \in Dispatchers : Works(e) => Works(e)'
    BY <1>1 DEF Works
  <2> QED
    BY <1>1, <2>1 DEF Account, SendingIsDelivered, Delivering, Works
<1>4. OutOfAttempt'
  BY <1>1, <1>2 DEF Account, OutOfAttempt
<1>5. CopiesAccounted'
  <2>1. \A e \in Dispatchers : Works(e)' => Works(e)
    BY <1>1 DEF Works
  <2>2. out[d] = Untold
    BY <1>1 DEF Account, OutOfAttempt
  <2>3. \A e \in Dispatchers, p \in People : out'[e][p] = "sent" <=> out[e][p] = "sent"
    BY <1>2, <2>2 DEF Untold
  <2> QED
    BY <1>1, <2>1, <2>3, ZenonT(60) DEF Account, CopiesAccounted
<1> QED
  BY <1>3, <1>4, <1>5 DEF Account

\* A row is not "sent" only if its attempt sent it to nobody.
LEMMA AccountCommit ==
    ASSUME HeldInv, Account, NEW d \in Dispatchers, Commit(d)
    PROVE  Account'
<1>t. TypeOK /\ TasksKnown
  BY DEF HeldInv
<1>1. /\ pc[d] = "send" /\ todo[d] = {} /\ Works(d) /\ task[d].row \in Rows
      /\ UNCHANGED <<copies, todo>>
  BY <1>t, TaskRow DEF Commit, Works
<1>2. /\ \A e \in Dispatchers : e # d => pc'[e] = pc[e] /\ task'[e] = task[e] /\ out'[e] = out[e]
      /\ ~ Works(d)' /\ pc'[d] # "send" /\ out'[d] = Untold
      /\ \A r \in Rows : r # task[d].row => status'[r] = status[r]
      /\ status'[task[d].row] = Verdict(d)
  BY <1>t, <1>1 DEF Commit, Goto, TypeOK, Works
<1>3. Verdict(d) # "sending" /\ (Verdict(d) # "sent" => \A p \in People : out[d][p] # "sent")
  BY DEF Verdict
<1>4. SendingIsDelivered'
  <2> SUFFICES ASSUME NEW s \in Rows, status'[s] = "sending" PROVE Delivering(s)'
    BY DEF SendingIsDelivered
  <2>1. s # task[d].row /\ status[s] = "sending"
    BY <1>2, <1>3
  <2>2. PICK e \in Dispatchers : Works(e) /\ task[e].row = s
    BY <2>1 DEF Account, SendingIsDelivered, Delivering, Works
  <2> QED
    BY <1>2, <2>1, <2>2 DEF Works, Delivering
<1>5. OutOfAttempt'
  BY <1>1, <1>2 DEF Account, OutOfAttempt
<1>6. CopiesAccounted'
  <2> SUFFICES ASSUME NEW s \in Rows, NEW p \in People
               PROVE  /\ copies[<<s, p>>] <= 1
                      /\ status'[s] \notin {"sending", "sent"} => copies[<<s, p>>] = 0
                      /\ \A e \in Dispatchers : Works(e)' /\ task'[e].row = s =>
                            (copies[<<s, p>>] = 1 <=> out'[e][p] = "sent")
    BY <1>1, ZenonT(60) DEF CopiesAccounted
  <2>1. \A e \in Dispatchers : Works(e)' => e # d /\ Works(e) /\ task'[e] = task[e] /\ out'[e] = out[e]
    BY <1>2 DEF Works
  <2>2. copies[<<s, p>>] \in Nat
    BY <1>t DEF TypeOK
  <2>3. status'[s] \notin {"sending", "sent"} => copies[<<s, p>>] = 0
    BY <1>1, <1>2, <1>3, <2>2 DEF Account, CopiesAccounted
  <2> QED
    BY <2>1, <2>3 DEF Account, CopiesAccounted
<1> QED
  BY <1>4, <1>5, <1>6 DEF Account

LEMMA AccountStep == Calm /\ HeldInv /\ Account /\ [Next]_vars => Account'
<1> SUFFICES ASSUME Calm, HeldInv, Account, [Next]_vars PROVE Account'
    OBVIOUS
<1>1. CASE UNCHANGED vars
  BY <1>1, RestAccounts DEF vars, table, Works
<1>2. ASSUME NEW d \in Dispatchers, SendTo(d) \/ SendFails(d) \/ HoldBack(d) PROVE Account'
  <2>1. \A c, p : Gate(c, p) # "sent"
    BY DEF Gate
  <2> QED
    BY <1>2, <2>1, AccountTold DEF SendTo, SendFails, HoldBack
<1>3. ASSUME NEW d \in Dispatchers, Step(d) PROVE Account'
  BY <1>2, <1>3, AccountRound, AccountCompose, AccountOpen, AccountCommit DEF Step
<1>4. ASSUME NEW d \in Dispatchers, DbError(d) \/ Crash(d) \/ Linger(d) PROVE FALSE
  BY <1>4 DEF Calm, DbError, Crash, Linger
<1>5. ASSUME \/ \E r \in Rows : Ripen(r) \/ Expire(r)
             \/ \E p \in People : QuietChanges(p)
      PROVE  Account'
  BY <1>5, RestAccounts DEF Ripen, Expire, QuietChanges, table, Works
<1> QED
  BY <1>1, <1>3, <1>4, <1>5 DEF Next

\* Overlapping rounds, send errors and retries send nobody a row twice, however
\* many of them there are: only a death, a database error or a slow round can.
THEOREM NobodySentTwice == ASSUME Calm PROVE Spec => []SentOnce
<1>1. "slow" \notin Events
  BY DEF Calm
<1>2. HeldInv /\ Account /\ [Next]_vars => Account'
  BY AccountStep
<1>3. HeldInv /\ Account => SentOnce
  <2> SUFFICES ASSUME HeldInv, Account, NEW rp \in Rows \X People PROVE copies[rp] <= 1
    BY DEF SentOnce
  <2>1. PICK r \in Rows, p \in People : rp = <<r, p>>
    OBVIOUS
  <2> QED
    BY <2>1 DEF Account, CopiesAccounted
<1>4. Spec => []HeldInv
  BY <1>1, RowsAreHeld
<1> QED
  BY <1>2, <1>3, <1>4, AccountInit, PTL DEF Spec

-----------------------------------------------------------------------------
(* A person is sent a row once per attempt at most, whatever is slow, fails  *)
(* or dies. The attempts of a row are numbered, and no two deliveries have   *)
(* the same number; the messages a person has been sent are no more than the *)
(* numbers that are used up for them: those no delivery can still send with. *)

TriesApart ==
    /\ \A d \in Dispatchers : Works(d) => task[d].try \in 1 .. attempts[task[d].row]
    /\ \A d, e \in Dispatchers :
           d # e /\ Works(d) /\ Works(e) /\ task[d].row = task[e].row => task[d].try # task[e].try

MaySendTo(d, r, p) == Works(d) /\ task[d].row = r /\ (pc[d] = "open" \/ p \in todo[d])
CopiesOfTries == \A r \in Rows, p \in People : \E T \in SUBSET (1 .. attempts[r]) :
    /\ Cardinality(T) = copies[<<r, p>>]
    /\ \A d \in Dispatchers : MaySendTo(d, r, p) => task[d].try \notin T
TriesInv == TriesApart /\ CopiesOfTries

LEMMA TriesInit == Init => TriesInv
<1> SUFFICES ASSUME Init PROVE TriesInv
    OBVIOUS
<1>1. \A d \in Dispatchers : ~ Works(d)
  BY DEF Init, Works
<1>2. \A r \in Rows, p \in People : copies[<<r, p>>] = 0
  BY DEF Init
<1>3. Cardinality({}) = 0
  BY FS_EmptySet
<1> QED
  BY <1>1, <1>2, <1>3 DEF TriesInv, TriesApart, CopiesOfTries, MaySendTo

\* The attempt of a row that is taken has a number of its own.
LEMMA TakeTries ==
    ASSUME TypeInv, TriesInv, NEW d \in Dispatchers, NEW r \in Rows, Take(d, r),
           ~ Works(d), UNCHANGED <<copies, todo>>
    PROVE  TriesInv'
<1>t. TypeOK /\ TasksKnown
  BY DEF TypeInv
<1>1. /\ \A s \in Rows : s # r => attempts'[s] = attempts[s]
      /\ attempts'[r] = attempts[r] + 1 /\ attempts[r] \in Nat
      /\ \A e \in Dispatchers : e # d => pc'[e] = pc[e] /\ task'[e] = task[e]
      /\ pc'[d] = "open" /\ task'[d].row = r /\ task'[d].try = attempts[r] + 1
  BY <1>t DEF Take, Goto, TypeOK
<1>2. \A e \in Dispatchers : Works(e) =>
          /\ task[e].row \in Rows /\ attempts[task[e].row] \in Nat
          /\ task[e].try \in 1 .. attempts[task[e].row]
  <2> SUFFICES ASSUME NEW e \in Dispatchers, Works(e)
               PROVE  /\ task[e].row \in Rows /\ attempts[task[e].row] \in Nat
                      /\ task[e].try \in 1 .. attempts[task[e].row]
    OBVIOUS
  <2>1. task[e].row \in Rows
    BY <1>t, TaskRow DEF Works
  <2>2. attempts[task[e].row] \in Nat
    BY <1>t, <2>1 DEF TypeOK
  <2> QED
    BY <2>1, <2>2 DEF TriesInv, TriesApart
<1>3. \A e \in Dispatchers : Works(e)' => e = d \/ Works(e)
  BY <1>1 DEF Works
<1>4. TriesApart'
  <2>1. ASSUME NEW e \in Dispatchers, Works(e)' PROVE task'[e].try \in 1 .. attempts'[task'[e].row]
    BY <1>1, <1>2, <1>3, <2>1
  <2>2. ASSUME NEW e \in Dispatchers, NEW f \in Dispatchers, e # f, Works(e)', Works(f)',
               task'[e].row = task'[f].row
        PROVE  task'[e].try # task'[f].try
    <3>1. CASE e # d /\ f # d
      BY <1>1, <1>3, <2>2, <3>1 DEF TriesInv, TriesApart
    <3>2. CASE e = d \/ f = d
      BY <1>1, <1>2, <1>3, <2>2, <3>2
    <3> QED
      BY <3>1, <3>2
  <2> QED
    BY <2>1, <2>2 DEF TriesApart
<1>5. CopiesOfTries'
  <2> SUFFICES ASSUME NEW s \in Rows, NEW p \in People
               PROVE  \E T \in SUBSET (1 .. attempts'[s]) :
                          /\ Cardinality(T) = copies[<<s, p>>]
                          /\ \A e \in Dispatchers : MaySendTo(e, s, p)' => task'[e].try \notin T
    BY DEF CopiesOfTries
  <2>1. PICK T \in SUBSET (1 .. attempts[s]) :
            /\ Cardinality(T) = copies[<<s, p>>]
            /\ \A e \in Dispatchers : MaySendTo(e, s, p) => task[e].try \notin T
    BY DEF TriesInv, CopiesOfTries
  <2>2. attempts[s] \in Nat /\ attempts'[s] \in {attempts[s], attempts[s] + 1}
    BY <1>t, <1>1 DEF TypeOK
  <2>3. T \in SUBSET (1 .. attempts'[s]) /\ attempts[s] + 1 \notin T
    BY <2>2
  <2>4. ASSUME NEW e \in Dispatchers, MaySendTo(e, s, p)' PROVE task'[e].try \notin T
    <3>1. CASE e = d
      BY <1>1, <2>3, <2>4, <3>1 DEF MaySendTo
    <3>2. CASE e # d
      BY <1>1, <2>1, <2>4, <3>2 DEF MaySendTo, Works
    <3> QED
      BY <3>1, <3>2
  <2> QED
    BY <2>1, <2>3, <2>4
<1> QED
  BY <1>4, <1>5 DEF TriesInv

\* Steps that take no row and send nothing.
LEMMA RestTries ==
    ASSUME TriesInv, UNCHANGED <<attempts, copies>>,
           \A e \in Dispatchers : Works(e)' => Works(e) /\ task'[e] = task[e],
           \A e \in Dispatchers, r \in Rows, p \in People : MaySendTo(e, r, p)' => MaySendTo(e, r, p)
    PROVE  TriesInv'
<1>1. TriesApart'
  BY DEF TriesInv, TriesApart
<1>2. CopiesOfTries'
  BY DEF TriesInv, CopiesOfTries, MaySendTo
<1> QED
  BY <1>1, <1>2 DEF TriesInv

\* Someone is told, with or without a message: a delivery tells nobody twice.
LEMMA ToldTries ==
    ASSUME TypeInv, TriesInv, NEW d \in Dispatchers, NEW q \in todo[d], NEW o, Told(d, q, o),
           \/ copies' = [copies EXCEPT ![<<task[d].row, q>>] = @ + 1]
           \/ UNCHANGED copies
    PROVE  TriesInv'
<1>t. TypeOK /\ q \in People
  BY DEF TypeInv, TypeOK
<1>1. /\ pc[d] = "send" /\ Works(d) /\ task[d].row \in Rows
      /\ UNCHANGED <<attempts, pc, task>>
      /\ todo'[d] = todo[d] \ {q} /\ \A e \in Dispatchers : e # d => todo'[e] = todo[e]
  BY <1>t, TaskRow DEF Told, Works, table, TypeInv, TypeOK
<1>2. \A e \in Dispatchers : Works(e)' <=> Works(e)
  BY <1>1 DEF Works
<1>3. \A e \in Dispatchers, r \in Rows, p \in People :
          MaySendTo(e, r, p)' => MaySendTo(e, r, p) /\ ~ (e = d /\ p = q)
  BY <1>1, <1>2 DEF MaySendTo
<1>4. CASE UNCHANGED copies
  BY <1>1, <1>2, <1>3, <1>4, RestTries
<1>5. CASE copies' = [copies EXCEPT ![<<task[d].row, q>>] = @ + 1]
  <2>1. TriesApart'
    BY <1>1, <1>2 DEF TriesInv, TriesApart
  <2>2. CopiesOfTries'
    <3> SUFFICES ASSUME NEW r \in Rows, NEW p \in People
                 PROVE  \E T \in SUBSET (1 .. attempts[r]) :
                            /\ Cardinality(T) = copies'[<<r, p>>]
                            /\ \A e \in Dispatchers : MaySendTo(e, r, p)' => task[e].try \notin T
      BY <1>1 DEF CopiesOfTries
    <3>1. PICK T \in SUBSET (1 .. attempts[r]) :
              /\ Cardinality(T) = copies[<<r, p>>]
              /\ \A e \in Dispatchers : MaySendTo(e, r, p) => task[e].try \notin T
      BY DEF TriesInv, CopiesOfTries
    <3>2. CASE r = task[d].row /\ p = q
      <4> DEFINE U == T \union {task[d].try}
      <4>1. task[d].try \in 1 .. attempts[r] /\ task[d].try \notin T
        BY <1>1, <3>1, <3>2 DEF TriesInv, TriesApart, MaySendTo
      <4>2. IsFiniteSet(T)
        <5>1. attempts[r] \in Nat
          BY <1>t DEF TypeOK
        <5>2. IsFiniteSet(1 .. attempts[r])
          BY <5>1, FS_Interval
        <5> QED
          BY <5>2, FS_Subset
      <4>3. Cardinality(U) = Cardinality(T) + 1
        BY <4>1, <4>2, FS_AddElement
      <4>4. copies'[<<r, p>>] = copies[<<r, p>>] + 1
        BY <1>t, <1>5, <3>2 DEF TypeOK
      <4>5. ASSUME NEW e \in Dispatchers, MaySendTo(e, r, p)' PROVE task[e].try \notin U
        <5>1. MaySendTo(e, r, p) /\ e # d
          BY <1>3, <3>2, <4>5
        <5>2. task[e].try # task[d].try
          BY <1>1, <3>2, <5>1 DEF TriesInv, TriesApart, MaySendTo
        <5> QED
          BY <3>1, <5>1, <5>2
      <4>6. U \in SUBSET (1 .. attempts[r])
        BY <4>1
      <4> HIDE DEF U
      <4> QED
        BY <3>1, <4>3, <4>4, <4>5, <4>6
    <3>3. CASE ~ (r = task[d].row /\ p = q)
      <4>1. <<r, p>> # <<task[d].row, q>> /\ <<r, p>> \in Rows \X People
        BY <3>3
      <4>2. copies'[<<r, p>>] = copies[<<r, p>>]
        BY <1>t, <1>5, <4>1 DEF TypeOK
      <4> QED
        BY <1>3, <3>1, <4>2
    <3> QED
      BY <3>2, <3>3
  <2> QED
    BY <2>1, <2>2 DEF TriesInv
<1> QED
  BY <1>4, <1>5

\* The rounds, and what comes before and after a delivery.
LEMMA TriesRound ==
    ASSUME TypeInv, TriesInv, NEW d \in Dispatchers,
           \/ Start(d) \/ Finish(d) \/ Retry(d) \/ Look(d)
           \/ Claim(d) \/ Skip(d) \/ PassOver(d) \/ Fanout(d)
    PROVE  TriesInv'
<1>t. TypeOK /\ TasksKnown
  BY DEF TypeInv
<1>1. ~ Works(d) /\ UNCHANGED <<copies, todo>>
  BY DEF Start, Finish, Retry, Look, Claim, Skip, PassOver, Fanout, Works, delivery
<1>2. ASSUME NEW r \in Rows, Take(d, r) PROVE TriesInv'
  BY <1>1, <1>2, TakeTries
<1>3. ASSUME UNCHANGED attempts,
             \A e \in Dispatchers : e # d => pc'[e] = pc[e] /\ task'[e] = task[e],
             pc'[d] \notin {"open", "send"}
      PROVE  TriesInv'
  <2>1. \A e \in Dispatchers : Works(e)' => e # d /\ Works(e) /\ task'[e] = task[e]
    BY <1>3 DEF Works
  <2>2. \A e \in Dispatchers, r \in Rows, p \in People : MaySendTo(e, r, p)' => MaySendTo(e, r, p)
    BY <1>1, <1>3, <2>1 DEF MaySendTo
  <2> QED
    BY <1>1, <1>3, <2>1, <2>2, RestTries
<1>4. CASE Start(d) \/ Finish(d) \/ Look(d)
  <2>1. UNCHANGED attempts /\ pc'[d] \notin {"open", "send"}
    BY <1>t, <1>4 DEF Start, Finish, Look, Goto, TypeOK, table
  <2>2. \A e \in Dispatchers : e # d => pc'[e] = pc[e] /\ task'[e] = task[e]
    BY <1>t, <1>4 DEF Start, Finish, Look, Goto, TypeOK
  <2> QED
    BY <1>3, <2>1, <2>2
<1>5. ASSUME Goto(d, "round"), task' = [task EXCEPT ![d] = NoTask], UNCHANGED attempts
      PROVE  TriesInv'
  BY <1>t, <1>3, <1>5 DEF Goto, TypeOK
<1>6. ASSUME UNCHANGED <<table, ripe, task, pc>> PROVE TriesInv'
  <2>1. UNCHANGED <<attempts, task, pc>>
    BY <1>6 DEF table
  <2> QED
    BY <1>1, <1>3, <2>1 DEF Works
<1>7. CASE Retry(d)
  <2>1. PICK g \in seen[d] :
          \/ attempts[g.row] = g.attempts /\ Take(d, g.row)
          \/ UNCHANGED <<table, ripe, task, pc>>
    BY <1>7 DEF Retry
  <2> QED
    BY <1>2, <1>6, <2>1, RetryMay
<1>8. CASE Claim(d)
  <2>1. task[d].row \in Rows
    BY <1>t, <1>8, TaskRow DEF Claim
  <2> QED
    BY <1>2, <1>5, <1>8, <2>1 DEF Claim, table
<1>9. CASE Skip(d) \/ PassOver(d)
  BY <1>5, <1>9 DEF Skip, PassOver, table
<1>10. CASE Fanout(d)
  <2>1. <<task[d].row[1], Head(fan[d])>> \in Rows
    BY <1>10, FanoutRow DEF Fanout
  <2> QED
    BY <1>2, <1>5, <1>6, <1>10, <2>1 DEF Fanout, table
<1> QED
  BY <1>4, <1>7, <1>8, <1>9, <1>10

LEMMA TriesDelivery ==
    ASSUME TypeInv, TriesInv, NEW d \in Dispatchers,
           \/ Open(d) \/ SendTo(d) \/ SendFails(d) \/ HoldBack(d) \/ Commit(d)
           \/ DbError(d) \/ Crash(d) \/ Linger(d)
    PROVE  TriesInv'
<1>t. TypeOK /\ TasksKnown
  BY DEF TypeInv
<1>1. CASE SendTo(d) \/ SendFails(d) \/ HoldBack(d)
  BY <1>1, ToldTries DEF SendTo, SendFails, HoldBack
<1>2. CASE Open(d)
  <2>1. /\ UNCHANGED <<attempts, copies, task>> /\ pc[d] = "open" /\ pc'[d] = "send"
        /\ \A e \in Dispatchers : e # d => pc'[e] = pc[e] /\ todo'[e] = todo[e]
    BY <1>t, <1>2 DEF Open, Goto, TypeOK, table
  <2> QED
    BY <2>1, RestTries DEF Works, MaySendTo
<1>3. CASE Commit(d) \/ DbError(d) \/ Crash(d)
  <2>1. /\ UNCHANGED <<attempts, copies>> /\ pc'[d] \notin {"open", "send"}
        /\ \A e \in Dispatchers : e # d => pc'[e] = pc[e] /\ task'[e] = task[e] /\ todo'[e] = todo[e]
    BY <1>t, <1>3 DEF Commit, DbError, Crash, DropTask, Goto, TypeOK, table
  <2> QED
    BY <2>1, RestTries DEF Works, MaySendTo
<1>4. CASE Linger(d)
  BY <1>4, RestTries DEF Linger, Works, MaySendTo, table, delivery
<1> QED
  BY <1>1, <1>2, <1>3, <1>4

LEMMA TriesStep == TypeInv /\ TriesInv /\ [Next]_vars => TriesInv'
<1> SUFFICES ASSUME TypeInv, TriesInv, [Next]_vars PROVE TriesInv'
    OBVIOUS
<1>1. CASE UNCHANGED vars
  BY <1>1, RestTries DEF vars, table, delivery, Works, MaySendTo
<1>2. ASSUME NEW d \in Dispatchers, Step(d) \/ DbError(d) \/ Crash(d) \/ Linger(d) PROVE TriesInv'
  BY <1>2, TriesRound, TriesDelivery DEF Step
<1>3. ASSUME \/ \E r \in Rows : Ripen(r) \/ Expire(r)
             \/ \E p \in People : QuietChanges(p)
      PROVE  TriesInv'
  BY <1>3, RestTries DEF Ripen, Expire, QuietChanges, Works, MaySendTo, table, delivery
<1> QED
  BY <1>1, <1>2, <1>3 DEF Next

\* A row is sent to a person at most as often as it was tried, also when
\* processes die, the database fails and rounds overlap for as long as they like.
THEOREM OneCopyPerAttempt == Spec => []CopiesWithinAttempts
<1>1. TypeInv /\ TriesInv => CopiesWithinAttempts
  <2> SUFFICES ASSUME TypeInv, TriesInv, NEW r \in Rows, NEW p \in People
               PROVE  copies[<<r, p>>] <= attempts[r]
    BY DEF CopiesWithinAttempts
  <2>1. PICK T \in SUBSET (1 .. attempts[r]) : Cardinality(T) = copies[<<r, p>>]
    BY DEF TriesInv, CopiesOfTries
  <2>2. attempts[r] \in Nat
    BY DEF TypeInv, TypeOK
  <2>3. 1 \in Int /\ attempts[r] \in Int
    BY <2>2
  <2>4. /\ IsFiniteSet(1 .. attempts[r])
        /\ Cardinality(1 .. attempts[r]) = IF 1 > attempts[r] THEN 0 ELSE attempts[r] - 1 + 1
    BY <2>3, FS_Interval, Zenon
  <2>5. Cardinality(1 .. attempts[r]) = attempts[r]
    BY <2>2, <2>4
  <2>6. Cardinality(T) <= Cardinality(1 .. attempts[r])
    BY <2>4, FS_Subset, Zenon
  <2> QED
    BY <2>1, <2>5, <2>6
<1>2. TypeInv /\ TriesInv /\ [Next]_vars => TriesInv'
  BY TriesStep
<1> QED
  BY <1>1, <1>2, TriesInit, TypeInit, TypeStep, PTL DEF Spec

=============================================================================
