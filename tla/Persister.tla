----------------------------- MODULE Persister -----------------------------
(***************************************************************************)
(* The bounded history queue of internal/core/persister.go.  HTTP handlers *)
(* and agent streams (Producers) hand metric and probe rows to enqueue,    *)
(* which never blocks; one worker goroutine writes them to the database,   *)
(* retries while the database is unreachable, and drains the queue under a *)
(* deadline when the runtime context is cancelled.                         *)
(*                                                                         *)
(* Every channel operation and every access to one of the two atomics is a *)
(* step of its own, since other goroutines run between them.               *)
(***************************************************************************)
EXTENDS Naturals, Sequences, FiniteSets, Functions

CONSTANTS
  Item,       \* the rows offered to the queue, each offered once
  Invalid,    \* the rows the database rejects even when it is reachable
  Producers,  \* goroutines that call EnqueueMetric and EnqueueProbe
  Cap,        \* persist_queue_size, the capacity of the channel
  None        \* no row

ASSUME PersisterAssumption ==
  /\ Invalid \subseteq Item
  /\ None \notin Item
  /\ Cap \in Nat \ {0}

VARIABLES
  queue,      \* Persister.queue, oldest row first
  dropped,    \* Persister.dropped
  degraded,   \* Persister.degraded
  pc,         \* the step of enqueue each producer is at
  held,       \* the row each producer is enqueueing
  victim,     \* the row a producer received from the queue to make room
  wpc,        \* the step of Start, persist or drain the worker is at
  cur,        \* the row the worker took from the queue
  draining,   \* the worker is inside drain, under its deadline context
  cancelled,  \* the runtime context is done
  expired,    \* the deadline context of drain is done
  up,         \* the database is reachable
  fate,       \* history: where each row is, or how it ended
  stamp,      \* history: the acceptance number of each row, 0 before
  clock       \* history: how many rows the channel has accepted

producerVars == <<pc, held, victim>>
ctxVars      == <<cancelled, expired, up>>
historyVars  == <<fate, stamp, clock>>
vars == <<queue, dropped, degraded, pc, held, victim, wpc, cur, draining,
          cancelled, expired, up, fate, stamp, clock>>

ProducerSteps == {"idle", "full", "evicted", "resend", "refused", "mark"}
WorkerSteps   == {"select", "write", "failed", "discard", "healthy",
                  "unhealthy", "backoff", "drain", "done"}
Fates == {"fresh", "offered", "queued", "evicted", "inhand", "saved", "dropped"}

\* The producer steps at which the offered row is still with the producer.
Holding == {"full", "evicted", "resend", "refused"}

TypeOK ==
  /\ queue \in Seq(Item)
  /\ dropped \in Nat
  /\ degraded \in BOOLEAN
  /\ pc \in [Producers -> ProducerSteps]
  /\ held \in [Producers -> Item \cup {None}]
  /\ victim \in [Producers -> Item \cup {None}]
  /\ wpc \in WorkerSteps
  /\ cur \in Item \cup {None}
  /\ draining \in BOOLEAN
  /\ cancelled \in BOOLEAN
  /\ expired \in BOOLEAN
  /\ up \in BOOLEAN
  /\ fate \in [Item -> Fates]
  /\ stamp \in [Item -> Nat]
  /\ clock \in Nat

Init ==
  /\ queue = <<>>
  /\ dropped = 0
  /\ degraded = FALSE
  /\ pc = [p \in Producers |-> "idle"]
  /\ held = [p \in Producers |-> None]
  /\ victim = [p \in Producers |-> None]
  /\ wpc = "select"
  /\ cur = None
  /\ draining = FALSE
  /\ cancelled = FALSE
  /\ expired = FALSE
  /\ up = TRUE
  /\ fate = [i \in Item |-> "fresh"]
  /\ stamp = [i \in Item |-> 0]
  /\ clock = 0

-----------------------------------------------------------------------------
(* enqueue, one action per select or atomic access.                        *)

\* The channel accepts row i as its newest element.
Accept(i) ==
  /\ queue' = Append(queue, i)
  /\ fate' = [fate EXCEPT ![i] = "queued"]
  /\ stamp' = [stamp EXCEPT ![i] = clock + 1]
  /\ clock' = clock + 1

\* The first send: it succeeds, or the producer goes on with a full queue.
Offer(p, i) ==
  /\ pc[p] = "idle"
  /\ fate[i] = "fresh"
  /\ \/ /\ Len(queue) < Cap
        /\ Accept(i)
        /\ UNCHANGED <<pc, held>>
     \/ /\ Len(queue) >= Cap
        /\ pc' = [pc EXCEPT ![p] = "full"]
        /\ held' = [held EXCEPT ![p] = i]
        /\ fate' = [fate EXCEPT ![i] = "offered"]
        /\ UNCHANGED <<queue, stamp, clock>>
  /\ UNCHANGED <<dropped, degraded, victim, wpc, cur, draining, ctxVars>>

\* The receive that makes room; the worker may have emptied the queue by now.
Evict(p) ==
  /\ pc[p] = "full"
  /\ \/ /\ queue # <<>>
        /\ queue' = Tail(queue)
        /\ victim' = [victim EXCEPT ![p] = Head(queue)]
        /\ fate' = [fate EXCEPT ![Head(queue)] = "evicted"]
        /\ pc' = [pc EXCEPT ![p] = "evicted"]
     \/ /\ queue = <<>>
        /\ pc' = [pc EXCEPT ![p] = "resend"]
        /\ UNCHANGED <<queue, victim, fate>>
  /\ UNCHANGED <<dropped, degraded, held, wpc, cur, draining, ctxVars, stamp, clock>>

\* Fault: the evicted row is handed back, to be enqueued once more.
CountEvicted_Returned(p) ==
  /\ pc[p] = "evicted"
  /\ fate' = [fate EXCEPT ![victim[p]] = "fresh"]
  /\ victim' = [victim EXCEPT ![p] = None]
  /\ pc' = [pc EXCEPT ![p] = "resend"]
  /\ UNCHANGED <<queue, dropped, degraded, held, wpc, cur, draining, ctxVars, stamp, clock>>

\* dropped.Add(1) for the evicted row.
CountEvicted(p) ==
  /\ pc[p] = "evicted"
  /\ dropped' = dropped + 1
  /\ fate' = [fate EXCEPT ![victim[p]] = "dropped"]
  /\ victim' = [victim EXCEPT ![p] = None]
  /\ pc' = [pc EXCEPT ![p] = "resend"]
  /\ UNCHANGED <<queue, degraded, held, wpc, cur, draining, ctxVars, stamp, clock>>

\* Fault: the second send blocks no longer on a full channel but loses the row.
Resend_Lossy(p) ==
  /\ pc[p] = "resend"
  /\ \/ Len(queue) < Cap /\ Accept(held[p])
     \/ Len(queue) >= Cap /\ UNCHANGED <<queue, historyVars>>
  /\ pc' = [pc EXCEPT ![p] = "mark"]
  /\ held' = [held EXCEPT ![p] = None]
  /\ UNCHANGED <<dropped, degraded, victim, wpc, cur, draining, ctxVars>>

\* The second send: another producer may have refilled the queue.
Resend(p) ==
  /\ pc[p] = "resend"
  /\ \/ /\ Len(queue) < Cap
        /\ Accept(held[p])
        /\ pc' = [pc EXCEPT ![p] = "mark"]
        /\ held' = [held EXCEPT ![p] = None]
     \/ /\ Len(queue) >= Cap
        /\ pc' = [pc EXCEPT ![p] = "refused"]
        /\ UNCHANGED <<queue, held, historyVars>>
  /\ UNCHANGED <<dropped, degraded, victim, wpc, cur, draining, ctxVars>>

\* dropped.Add(1) for the row that found no room.
CountRefused(p) ==
  /\ pc[p] = "refused"
  /\ dropped' = dropped + 1
  /\ fate' = [fate EXCEPT ![held[p]] = "dropped"]
  /\ held' = [held EXCEPT ![p] = None]
  /\ pc' = [pc EXCEPT ![p] = "mark"]
  /\ UNCHANGED <<queue, degraded, victim, wpc, cur, draining, ctxVars, stamp, clock>>

\* degraded.Store(true), the last step of an enqueue that met a full queue.
MarkDegraded(p) ==
  /\ pc[p] = "mark"
  /\ degraded' = TRUE
  /\ pc' = [pc EXCEPT ![p] = "idle"]
  /\ UNCHANGED <<queue, dropped, held, victim, wpc, cur, draining, ctxVars, historyVars>>

Producer(p) ==
  \/ \E i \in Item : Offer(p, i)
  \/ Evict(p)
  \/ CountEvicted(p)
  \/ Resend(p)
  \/ CountRefused(p)
  \/ MarkDegraded(p)

-----------------------------------------------------------------------------
(* The worker: the loop of Start, persist and drain.                       *)

\* The context persist runs under is still live.
Live == IF draining THEN ~expired ELSE ~cancelled

TakeHead ==
  /\ queue # <<>>
  /\ cur' = Head(queue)
  /\ queue' = Tail(queue)
  /\ fate' = [fate EXCEPT ![Head(queue)] = "inhand"]

\* Start: the receive case of the select.
Receive ==
  /\ wpc = "select"
  /\ TakeHead
  /\ wpc' = "write"
  /\ UNCHANGED <<dropped, degraded, producerVars, draining, ctxVars, stamp, clock>>

\* Start: the ctx.Done case of the select, which drains with nothing pending.
StartDrain ==
  /\ wpc = "select"
  /\ cancelled
  /\ wpc' = "drain"
  /\ draining' = TRUE
  /\ UNCHANGED <<queue, dropped, degraded, producerVars, cur, ctxVars, historyVars>>

\* persist: write returned nil.
WriteOK ==
  /\ wpc = "write"
  /\ Live /\ up /\ cur \notin Invalid
  /\ fate' = [fate EXCEPT ![cur] = "saved"]
  /\ cur' = None
  /\ wpc' = "healthy"
  /\ UNCHANGED <<queue, dropped, degraded, producerVars, draining, ctxVars, stamp, clock>>

\* persist: write returned an error.
WriteError ==
  /\ wpc = "write"
  /\ ~Live \/ ~up \/ cur \in Invalid
  /\ wpc' = "failed"
  /\ UNCHANGED <<queue, dropped, degraded, producerVars, cur, draining, ctxVars, historyVars>>

\* Fault: a row the database rejects is retried for ever.
Ping_Ignored ==
  /\ wpc = "failed"
  /\ wpc' = "unhealthy"
  /\ UNCHANGED <<queue, dropped, degraded, producerVars, cur, draining, ctxVars, historyVars>>

\* persist: the database answers Ping, so the row is to blame; or it does not.
Ping ==
  /\ wpc = "failed"
  /\ wpc' = IF Live /\ up THEN "discard" ELSE "unhealthy"
  /\ UNCHANGED <<queue, dropped, degraded, producerVars, cur, draining, ctxVars, historyVars>>

\* persist: dropped.Add(1) for a row taken to be permanently invalid.
Discard ==
  /\ wpc = "discard"
  /\ dropped' = dropped + 1
  /\ fate' = [fate EXCEPT ![cur] = "dropped"]
  /\ cur' = None
  /\ wpc' = "healthy"
  /\ UNCHANGED <<queue, degraded, producerVars, draining, ctxVars, stamp, clock>>

\* persist: degraded.Store(false), then back to the loop that called it.
MarkHealthy ==
  /\ wpc = "healthy"
  /\ degraded' = FALSE
  /\ wpc' = IF draining THEN "drain" ELSE "select"
  /\ UNCHANGED <<queue, dropped, producerVars, cur, draining, ctxVars, historyVars>>

\* persist: degraded.Store(true) before the backoff.
MarkUnhealthy ==
  /\ wpc = "unhealthy"
  /\ degraded' = TRUE
  /\ wpc' = "backoff"
  /\ UNCHANGED <<queue, dropped, producerVars, cur, draining, ctxVars, historyVars>>

\* persist: the backoff timer fires and the write is tried again.
Retry ==
  /\ wpc = "backoff"
  /\ wpc' = "write"
  /\ UNCHANGED <<queue, dropped, degraded, producerVars, cur, draining, ctxVars, historyVars>>

\* Fault: Start returns without draining when persist returns false.
GiveUp_NoDrain ==
  /\ wpc = "backoff"
  /\ ~Live
  /\ wpc' = "done"
  /\ draining' = TRUE
  /\ UNCHANGED <<queue, dropped, degraded, producerVars, cur, ctxVars, historyVars>>

\* persist returns false: Start goes on to drain with the row pending, drain gives up.
GiveUp ==
  /\ wpc = "backoff"
  /\ ~Live
  /\ wpc' = IF draining THEN "done" ELSE "write"
  /\ draining' = TRUE
  /\ UNCHANGED <<queue, dropped, degraded, producerVars, cur, ctxVars, historyVars>>

\* drain: the next row, or the end of the worker once the queue is empty.
DrainNext ==
  /\ wpc = "drain"
  /\ \/ /\ TakeHead
        /\ wpc' = "write"
     \/ /\ queue = <<>>
        /\ wpc' = "done"
        /\ UNCHANGED <<queue, cur, fate>>
  /\ UNCHANGED <<dropped, degraded, producerVars, draining, ctxVars, stamp, clock>>

Worker ==
  \/ Receive
  \/ StartDrain
  \/ WriteOK
  \/ WriteError
  \/ Ping
  \/ Discard
  \/ MarkHealthy
  \/ MarkUnhealthy
  \/ Retry
  \/ GiveUp
  \/ DrainNext

-----------------------------------------------------------------------------
(* The environment: the runtime context, the drain timer, the database.    *)

\* serveInstance calls cancelRuntime.
Cancel ==
  /\ ~cancelled
  /\ cancelled' = TRUE
  /\ UNCHANGED <<queue, dropped, degraded, producerVars, wpc, cur, draining, expired, up, historyVars>>

\* The five-second deadline of drain passes.
Expire ==
  /\ draining
  /\ ~expired
  /\ expired' = TRUE
  /\ UNCHANGED <<queue, dropped, degraded, producerVars, wpc, cur, draining, cancelled, up, historyVars>>

\* The database goes away or comes back.
Outage ==
  /\ up' = ~up
  /\ UNCHANGED <<queue, dropped, degraded, producerVars, wpc, cur, draining, cancelled, expired, historyVars>>

Next ==
  \/ \E p \in Producers : Producer(p)
  \/ Worker
  \/ Cancel
  \/ Expire
  \/ Outage

Spec == Init /\ [][Next]_vars

\* Goroutines with work to do run, timers fire; nothing makes the database
\* come back or the operator stop the server.  GiveUp needs strong fairness:
\* the backoff select is entered with the context already done, so its Done
\* case cannot lose to the timer for ever.
Fairness ==
  /\ WF_vars(Worker)
  /\ SF_vars(GiveUp)
  /\ WF_vars(Expire)
  /\ \A p \in Producers : WF_vars(pc[p] # "idle" /\ Producer(p))

FairSpec == Spec /\ Fairness

-----------------------------------------------------------------------------
(* Properties.                                                             *)

Rows(f) == {i \in Item : fate[i] = f}

QueuedRows ==
  /\ Rows("queued") = Range(queue)
  /\ IsInjective(queue)

InHandRow == \A i \in Item : fate[i] = "inhand" <=> cur = i

OfferedRows ==
  /\ \A i \in Item : fate[i] = "offered" <=> \E p \in Producers : pc[p] \in Holding /\ held[p] = i
  /\ \A p, q \in Producers : pc[p] \in Holding /\ pc[q] \in Holding /\ held[p] = held[q] => p = q

EvictedRows ==
  /\ \A i \in Item : fate[i] = "evicted" <=> \E p \in Producers : pc[p] = "evicted" /\ victim[p] = i
  /\ \A p, q \in Producers : pc[p] = "evicted" /\ pc[q] = "evicted" /\ victim[p] = victim[q] => p = q

\* No row is lost or duplicated between enqueue, the channel and the worker:
\* each is with exactly the goroutine or at exactly the queue position its
\* history says, whatever the interleaving of enqueue, persist and drain.
Conservation ==
  /\ QueuedRows
  /\ InHandRow
  /\ OfferedRows
  /\ EvictedRows

\* Dropped() is exact: it is the number of rows that were evicted, refused or
\* discarded and whose Add(1) has run, with three kinds of writers racing.
ExactDropCount ==
  /\ IsFiniteSet(Rows("dropped"))
  /\ dropped = Cardinality(Rows("dropped"))

\* The channel never holds more rows than persist_queue_size.
QueueBound == Len(queue) <= Cap

\* The rows still on their way are older the nearer they are to the database.
ArrivalOrder ==
  /\ \A k, l \in 1..Len(queue) : k < l => stamp[queue[k]] < stamp[queue[l]]
  /\ \A i, j \in Item : fate[i] = "inhand" /\ fate[j] = "queued" => stamp[i] < stamp[j]
  /\ \A i, j \in Item : fate[i] = "saved" /\ fate[j] \in {"inhand", "queued"} => stamp[i] < stamp[j]

\* Rows reach the database in the order the channel accepted them, through
\* evictions, outages, retries and the switch from Start to drain.
SavesYounger ==
  \A i \in Rows("saved")' \ Rows("saved"), j \in Rows("saved") : stamp[j] < stamp[i]

\* The worker ends with a row in hand or rows in the queue only if the
\* deadline of drain passed: an outage or a bad row alone never ends it.
DrainsBeforeExit ==
  wpc # "done" /\ wpc' = "done" /\ ~expired => queue = <<>> /\ cur = None

\* Once the database stays reachable, every row the channel accepted is saved
\* or counted as dropped, unless the worker ends first.
QueuedIsSettled ==
  <>[]up => \A i \in Item : fate[i] = "queued" ~> (fate[i] \in {"saved", "dropped"} \/ wpc = "done")

\* Stop returns: after the context is cancelled the worker ends, even if the
\* database never comes back.
StopReturns == cancelled ~> wpc = "done"

-----------------------------------------------------------------------------
(* The inductive invariant behind the safety properties.                   *)

\* The worker steps inside persist, where it has a row.
Persisting == {"write", "failed", "discard", "unhealthy", "backoff"}

\* Goroutines inside enqueue or persist carry a row, an idle worker none.
HandsFull ==
  /\ \A p \in Producers : pc[p] \in Holding => held[p] \in Item
  /\ \A p \in Producers : pc[p] = "evicted" => victim[p] \in Item
  /\ wpc \in Persisting => cur \in Item
  /\ wpc \in {"select", "drain", "healthy"} => cur = None

\* Acceptance numbers are handed out in order.
StampBound == \A i \in Item : stamp[i] <= clock

-----------------------------------------------------------------------------
(* The ledger this queue implements: rows in the hands of a goroutine or in *)
(* the channel are pending.                                                *)

EntryOf(f) ==
  CASE f = "fresh" -> "new"
    [] f \in {"offered", "queued", "evicted", "inhand"} -> "pending"
    [] f \in {"saved", "dropped"} -> f

Ledger == INSTANCE HistoryLedger WITH
            entry <- [i \in Item |-> EntryOf(fate[i])], count <- dropped

\* Seen from outside, enqueue, persist and drain only take, save and drop
\* rows, and dropped changes exactly with a drop.
ImplementsLedger == Ledger!LedgerSpec

\* Every accepted row is in exactly one place, and every row that was given up is counted.
RowsAccounted == TypeOK /\ Conservation /\ ExactDropCount

\* Rows are saved in the order they were accepted in, through retries and the drain, and
\* before its deadline the drain leaves none behind.
OrderedDrain == [][SavesYounger /\ DrainsBeforeExit]_vars

\* No accepted row waits for ever and Stop returns, whatever the database rejects.
QueueSettles == QueuedIsSettled /\ StopReturns

-----------------------------------------------------------------------------
(* Statements of the documentation that the code does not keep.            *)

\* docs/architecture.md: while storage is unavailable "writes retry", and
\* persist logs a row it discards as "permanently invalid".  So persist only
\* discards rows the database rejects.
OnlyInvalidDiscarded == [][wpc = "discard" /\ wpc' = "healthy" => cur \in Invalid]_vars
=============================================================================
