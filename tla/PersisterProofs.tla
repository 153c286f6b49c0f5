-------------------------- MODULE PersisterProofs --------------------------
(***************************************************************************)
(* Proofs about the history queue, for any number of producers and rows    *)
(* and any capacity of the channel.                                        *)
(***************************************************************************)
EXTENDS Persister, FiniteSetTheorems, TLAPS

(* What receiving and sending do to the rows of the channel.               *)

\* Receiving from the channel removes its oldest row and only that row.
LEMMA TailRows ==
  ASSUME NEW S, NEW q \in Seq(S), q # <<>>, IsInjective(q)
  PROVE  /\ Head(q) \in S
         /\ Head(q) = q[1]
         /\ Tail(q) \in Seq(S)
         /\ Len(Tail(q)) = Len(q) - 1
         /\ \A k \in 1..Len(Tail(q)) : k + 1 \in 1..Len(q) /\ Tail(q)[k] = q[k+1]
         /\ Head(q) \in Range(q)
         /\ Range(Tail(q)) = Range(q) \ {Head(q)}
         /\ IsInjective(Tail(q))
<1>1. /\ Head(q) \in S
      /\ Head(q) = q[1]
      /\ Tail(q) \in Seq(S)
      /\ Len(Tail(q)) = Len(q) - 1
      /\ Len(q) \in Nat \ {0}
      /\ DOMAIN q = 1..Len(q)
      /\ DOMAIN Tail(q) = 1..Len(Tail(q))
  OBVIOUS
<1>2. \A k \in 1..Len(Tail(q)) : k + 1 \in 1..Len(q) /\ Tail(q)[k] = q[k+1]
  BY <1>1
<1>3. Head(q) \in Range(q)
  BY <1>1 DEF Range
<1>4. Range(Tail(q)) \subseteq Range(q) \ {Head(q)}
  <2> SUFFICES ASSUME NEW k \in 1..Len(Tail(q)) PROVE Tail(q)[k] \in Range(q) \ {Head(q)}
    BY <1>1 DEF Range
  <2> QED BY <1>1, <1>2 DEF Range, IsInjective
<1>5. Range(q) \ {Head(q)} \subseteq Range(Tail(q))
  <2> SUFFICES ASSUME NEW k \in 1..Len(q), q[k] # Head(q) PROVE q[k] \in Range(Tail(q))
    BY <1>1 DEF Range
  <2>1. k - 1 \in 1..Len(Tail(q)) /\ (k - 1) + 1 = k
    BY <1>1
  <2> QED BY <1>1, <1>2, <2>1, Zenon DEF Range
<1>6. IsInjective(Tail(q))
  BY <1>1, <1>2 DEF IsInjective
<1> QED BY <1>1, <1>2, <1>3, <1>4, <1>5, <1>6

\* Sending to the channel adds the row as its newest.
LEMMA AppendRows ==
  ASSUME NEW S, NEW q \in Seq(S), NEW i \in S, i \notin Range(q), IsInjective(q)
  PROVE  /\ Append(q, i) \in Seq(S)
         /\ Len(Append(q, i)) = Len(q) + 1
         /\ \A k \in 1..Len(q) : Append(q, i)[k] = q[k]
         /\ Append(q, i)[Len(q) + 1] = i
         /\ Range(Append(q, i)) = Range(q) \cup {i}
         /\ IsInjective(Append(q, i))
<1>1. /\ Append(q, i) \in Seq(S)
      /\ Len(Append(q, i)) = Len(q) + 1
      /\ Len(q) \in Nat
      /\ DOMAIN q = 1..Len(q)
      /\ DOMAIN Append(q, i) = 1..(Len(q) + 1)
      /\ \A k \in 1..Len(q) : Append(q, i)[k] = q[k]
      /\ Append(q, i)[Len(q) + 1] = i
  OBVIOUS
<1>2. 1..(Len(q) + 1) = (1..Len(q)) \cup {Len(q) + 1}
  BY <1>1
<1>3. Range(Append(q, i)) = Range(q) \cup {i}
  <2>1. \A x : x \in Range(Append(q, i)) <=> \E k \in 1..(Len(q) + 1) : x = Append(q, i)[k]
    BY <1>1 DEF Range
  <2>2. \A x : x \in Range(q) <=> \E k \in 1..Len(q) : x = q[k]
    BY <1>1 DEF Range
  <2> QED BY <1>1, <1>2, <2>1, <2>2
<1>4. IsInjective(Append(q, i))
  <2> SUFFICES ASSUME NEW k \in 1..(Len(q) + 1), NEW l \in 1..(Len(q) + 1),
                      Append(q, i)[k] = Append(q, i)[l]
               PROVE  k = l
    BY <1>1 DEF IsInjective
  <2>1. \A m \in 1..Len(q) : q[m] # i
    BY <1>1 DEF Range
  <2> QED BY <1>1, <1>2, <2>1 DEF IsInjective
<1> QED BY <1>1, <1>3, <1>4

-----------------------------------------------------------------------------
(* Type correctness.                                                       *)

\* The state of the persister keeps its type under every step of enqueue,
\* persist, drain and their environment, and goroutines inside enqueue or
\* persist always have a row to work on.
THEOREM TypeCorrect == Spec => [](TypeOK /\ HandsFull)
<1> USE PersisterAssumption
<1>1. Init => TypeOK /\ HandsFull
  <2> SUFFICES ASSUME Init PROVE TypeOK /\ HandsFull
    OBVIOUS
  <2>1. queue \in Seq(Item) /\ pc \in [Producers -> ProducerSteps] /\ fate \in [Item -> Fates]
    BY DEF Init, ProducerSteps, Fates
  <2>2. held \in [Producers -> Item \cup {None}] /\ victim \in [Producers -> Item \cup {None}]
    BY DEF Init
  <2>3. TypeOK
    BY <2>1, <2>2, Zenon DEF Init, TypeOK, WorkerSteps
  <2>4. HandsFull
    BY DEF Init, HandsFull, Holding, Persisting
  <2> QED BY <2>3, <2>4
<1>2. TypeOK /\ HandsFull /\ [Next]_vars => (TypeOK /\ HandsFull)'
  <2> SUFFICES ASSUME TypeOK, HandsFull, [Next]_vars PROVE (TypeOK /\ HandsFull)'
    OBVIOUS
  <2> USE DEF TypeOK, HandsFull, ProducerSteps, WorkerSteps, Fates, Holding, Persisting,
              producerVars, ctxVars, historyVars
  <2>1. ASSUME NEW p \in Producers, NEW i \in Item, Offer(p, i) PROVE (TypeOK /\ HandsFull)'
    <3>1. CASE Len(queue) < Cap /\ Accept(i) /\ UNCHANGED <<pc, held>>
      <4>1. Append(queue, i) \in Seq(Item)
        OBVIOUS
      <4> QED BY <2>1, <3>1, <4>1 DEF Offer, Accept
    <3>2. CASE Len(queue) >= Cap /\ ~(Len(queue) < Cap)
      <4>1. /\ pc' = [pc EXCEPT ![p] = "full"]
            /\ held' = [held EXCEPT ![p] = i]
            /\ fate' = [fate EXCEPT ![i] = "offered"]
            /\ UNCHANGED <<queue, stamp, clock, dropped, degraded, victim, wpc, cur, draining, ctxVars>>
        BY <2>1, <3>2 DEF Offer
      <4>2. TypeOK'
        BY <4>1
      <4>3. HandsFull'
        BY <4>1
      <4> QED BY <4>2, <4>3, Zenon
    <3> QED BY <2>1, <3>1, <3>2, SMTT(30) DEF Offer
  <2>2. ASSUME NEW p \in Producers, Evict(p) PROVE (TypeOK /\ HandsFull)'
    <3>1. CASE queue # <<>>
      <4>1. Head(queue) \in Item /\ Tail(queue) \in Seq(Item)
        BY <3>1
      <4>2. /\ queue' = Tail(queue)
            /\ victim' = [victim EXCEPT ![p] = Head(queue)]
            /\ fate' = [fate EXCEPT ![Head(queue)] = "evicted"]
            /\ pc' = [pc EXCEPT ![p] = "evicted"]
            /\ pc[p] = "full"
            /\ UNCHANGED <<dropped, degraded, held, wpc, cur, draining, ctxVars, stamp, clock>>
        BY <2>2, <3>1 DEF Evict
      <4>3. TypeOK'
        BY <4>1, <4>2
      <4>4. HandsFull'
        BY <4>1, <4>2
      <4> QED BY <4>3, <4>4, Zenon
    <3>2. CASE queue = <<>>
      BY <2>2, <3>2 DEF Evict
    <3> QED BY <3>1, <3>2, Zenon
  <2>3. ASSUME NEW p \in Producers, CountEvicted(p) PROVE (TypeOK /\ HandsFull)'
    BY <2>3 DEF CountEvicted
  <2>4. ASSUME NEW p \in Producers, Resend(p) PROVE (TypeOK /\ HandsFull)'
    <3>1. CASE Len(queue) < Cap /\ Accept(held[p])
      <4>1. held[p] \in Item /\ Append(queue, held[p]) \in Seq(Item)
        BY <2>4 DEF Resend
      <4>2. /\ queue' = Append(queue, held[p])
            /\ fate' = [fate EXCEPT ![held[p]] = "queued"]
            /\ stamp' = [stamp EXCEPT ![held[p]] = clock + 1]
            /\ clock' = clock + 1
            /\ pc' = [pc EXCEPT ![p] = "mark"]
            /\ held' = [held EXCEPT ![p] = None]
            /\ UNCHANGED <<dropped, degraded, victim, wpc, cur, draining, ctxVars>>
        BY <2>4, <3>1 DEF Resend, Accept
      <4>3. TypeOK'
        BY <4>1, <4>2
      <4>4. HandsFull'
        BY <4>1, <4>2
      <4> QED BY <4>3, <4>4
    <3>2. CASE Len(queue) >= Cap /\ ~(Len(queue) < Cap)
      BY <2>4, <3>2, Zenon DEF Resend
    <3> QED BY <2>4, <3>1, <3>2, SMTT(30) DEF Resend
  <2>5. ASSUME NEW p \in Producers, CountRefused(p) PROVE (TypeOK /\ HandsFull)'
    BY <2>5 DEF CountRefused
  <2>6. ASSUME NEW p \in Producers, MarkDegraded(p) PROVE (TypeOK /\ HandsFull)'
    BY <2>6 DEF MarkDegraded
  <2>7. CASE Receive
    <3>1. Head(queue) \in Item /\ Tail(queue) \in Seq(Item)
      BY <2>7 DEF Receive, TakeHead
    <3> QED BY <2>7, <3>1 DEF Receive, TakeHead
  <2>8. CASE DrainNext
    <3>1. CASE queue # <<>>
      <4>1. Head(queue) \in Item /\ Tail(queue) \in Seq(Item)
        BY <3>1
      <4> QED BY <2>8, <3>1, <4>1, ZenonT(30) DEF DrainNext, TakeHead
    <3>2. CASE queue = <<>>
      BY <2>8, <3>2 DEF DrainNext, TakeHead
    <3> QED BY <3>1, <3>2, Zenon
  <2>9. CASE StartDrain
    BY <2>9 DEF StartDrain
  <2>10. CASE WriteOK
    BY <2>10 DEF WriteOK
  <2>11. CASE WriteError
    BY <2>11 DEF WriteError
  <2>12. CASE Ping
    BY <2>12 DEF Ping
  <2>13. CASE Discard
    BY <2>13 DEF Discard
  <2>14. CASE MarkHealthy
    BY <2>14, Zenon DEF MarkHealthy
  <2>15. CASE MarkUnhealthy
    BY <2>15 DEF MarkUnhealthy
  <2>16. CASE Retry
    BY <2>16 DEF Retry
  <2>17. CASE GiveUp
    BY <2>17 DEF GiveUp
  <2>18. CASE Cancel \/ Expire \/ Outage
    BY <2>18, ZenonT(30) DEF Cancel, Expire, Outage
  <2>19. CASE UNCHANGED vars
    BY <2>19 DEF vars
  <2> QED BY <2>1, <2>2, <2>3, <2>4, <2>5, <2>6, <2>7, <2>8, <2>9, <2>10, <2>11, <2>12, Zenon,
             <2>13, <2>14, <2>15, <2>16, <2>17, <2>18, <2>19 DEF Next, Producer, Worker
<1> QED BY <1>1, <1>2, PTL DEF Spec

-----------------------------------------------------------------------------
(* Conservation.                                                           *)

\* A row that neither enters nor leaves the channel leaves QueuedRows alone.
LEMMA OutsideQueue ==
  ASSUME TypeOK, QueuedRows, NEW i \in Item, NEW f,
         fate' = [fate EXCEPT ![i] = f], fate[i] # "queued", f # "queued", queue' = queue
  PROVE  QueuedRows'
<1>1. Rows("queued")' = Rows("queued")
  BY DEF TypeOK, Rows
<1> QED BY <1>1 DEF QueuedRows

\* The channel accepts a row that was outside it.
LEMMA AcceptKeepsQueue ==
  ASSUME TypeOK, QueuedRows, NEW i \in Item, fate[i] # "queued", Accept(i)
  PROVE  QueuedRows'
<1>1. i \notin Range(queue)
  BY DEF QueuedRows, Rows
<1>2. Rows("queued")' = Rows("queued") \cup {i}
  BY DEF Accept, TypeOK, Rows
<1>3. queue \in Seq(Item) /\ IsInjective(queue) /\ queue' = Append(queue, i)
  BY DEF TypeOK, QueuedRows, Accept
<1>4. Range(Append(queue, i)) = Range(queue) \cup {i} /\ IsInjective(Append(queue, i))
  BY <1>1, <1>3, AppendRows
<1> QED BY <1>2, <1>3, <1>4 DEF QueuedRows

\* A goroutine receives the oldest row of the channel.
LEMMA ReceiveKeepsQueue ==
  ASSUME TypeOK, QueuedRows, queue # <<>>, queue' = Tail(queue), NEW f, f # "queued",
         fate' = [fate EXCEPT ![Head(queue)] = f]
  PROVE  QueuedRows' /\ Head(queue) \in Item /\ fate[Head(queue)] = "queued"
<1>1. queue \in Seq(Item) /\ IsInjective(queue) /\ Rows("queued") = Range(queue)
  BY DEF TypeOK, QueuedRows
<1>2. /\ Head(queue) \in Item
      /\ Head(queue) \in Range(queue)
      /\ Range(Tail(queue)) = Range(queue) \ {Head(queue)}
      /\ IsInjective(Tail(queue))
  BY <1>1, TailRows
<1>3. fate[Head(queue)] = "queued"
  BY <1>1, <1>2 DEF Rows
<1>4. Rows("queued")' = Rows("queued") \ {Head(queue)}
  BY <1>2 DEF TypeOK, Rows
<1> QED BY <1>1, <1>2, <1>3, <1>4, Zenon DEF QueuedRows

\* The step facts behind Conservation: one case per action.
LEMMA ConservationStep ==
  TypeOK /\ HandsFull /\ Conservation /\ [Next]_vars => Conservation'
<1> SUFFICES ASSUME TypeOK, HandsFull, Conservation, [Next]_vars PROVE Conservation'
  OBVIOUS
<1> USE PersisterAssumption
<1>q. QueuedRows /\ InHandRow /\ OfferedRows /\ EvictedRows
  BY DEF Conservation
<1>1. ASSUME NEW p \in Producers, NEW i \in Item, Offer(p, i) PROVE Conservation'
  <2>1. CASE Len(queue) < Cap /\ Accept(i) /\ UNCHANGED <<pc, held>>
    <3>1. QueuedRows'
      BY <1>q, <1>1, <2>1, AcceptKeepsQueue DEF Offer
    <3>2. /\ fate' = [fate EXCEPT ![i] = "queued"] /\ fate[i] = "fresh"
          /\ UNCHANGED <<pc, held, victim, cur>>
      BY <1>1, <2>1 DEF Offer, Accept
    <3>3. InHandRow'
      BY <1>q, <3>2 DEF TypeOK, InHandRow
    <3>4. OfferedRows'
      BY <1>q, <3>2 DEF TypeOK, OfferedRows
    <3>5. EvictedRows'
      BY <1>q, <3>2 DEF TypeOK, EvictedRows
    <3> QED BY <3>1, <3>3, <3>4, <3>5 DEF Conservation
  <2>2. CASE ~(Len(queue) < Cap)
    <3>1. /\ fate' = [fate EXCEPT ![i] = "offered"] /\ fate[i] = "fresh"
          /\ pc' = [pc EXCEPT ![p] = "full"] /\ pc[p] = "idle"
          /\ held' = [held EXCEPT ![p] = i]
          /\ UNCHANGED <<queue, victim, cur>>
      BY <1>1, <2>2 DEF Offer
    <3>2. QueuedRows'
      BY <1>q, <3>1, OutsideQueue, Zenon
    <3>3. InHandRow'
      BY <1>q, <3>1 DEF TypeOK, InHandRow
    <3>4. OfferedRows'
      <4>1. \A r \in Producers : pc'[r] \in Holding <=> (r = p \/ pc[r] \in Holding)
        BY <3>1 DEF TypeOK, Holding
      <4>2. \A j \in Item : fate'[j] = "offered" <=> (j = i \/ fate[j] = "offered")
        BY <3>1 DEF TypeOK
      <4>3. \A r \in Producers : pc[r] \in Holding => r # p /\ held[r] # i
        BY <1>q, <3>1 DEF OfferedRows, Holding
      <4>4. held'[p] = i /\ \A r \in Producers : r # p => held'[r] = held[r]
        BY <3>1 DEF TypeOK
      <4> QED BY <1>q, <4>1, <4>2, <4>3, <4>4 DEF OfferedRows
    <3>5. EvictedRows'
      BY <1>q, <3>1 DEF TypeOK, EvictedRows
    <3> QED BY <3>2, <3>3, <3>4, <3>5 DEF Conservation
  <2> QED BY <1>1, <2>1, <2>2 DEF Offer
<1>2. ASSUME NEW p \in Producers, Evict(p) PROVE Conservation'
  <2>1. CASE queue # <<>>
    <3>1. /\ queue' = Tail(queue)
          /\ fate' = [fate EXCEPT ![Head(queue)] = "evicted"]
          /\ victim' = [victim EXCEPT ![p] = Head(queue)]
          /\ pc' = [pc EXCEPT ![p] = "evicted"] /\ pc[p] = "full"
          /\ UNCHANGED <<held, cur>>
      BY <1>2, <2>1 DEF Evict
    <3>2. QueuedRows' /\ Head(queue) \in Item /\ fate[Head(queue)] = "queued"
      BY <1>q, <2>1, <3>1, ReceiveKeepsQueue, Zenon
    <3>3. InHandRow'
      BY <1>q, <3>1, <3>2 DEF TypeOK, InHandRow
    <3>4. OfferedRows'
      <4>1. \A r \in Producers : pc'[r] \in Holding <=> pc[r] \in Holding
        BY <3>1 DEF TypeOK, Holding
      <4>2. \A i \in Item : fate'[i] = "offered" <=> fate[i] = "offered"
        BY <3>1, <3>2 DEF TypeOK
      <4> QED BY <1>q, <3>1, <4>1, <4>2 DEF OfferedRows
    <3>5. EvictedRows'
      BY <1>q, <3>1, <3>2 DEF TypeOK, EvictedRows
    <3> QED BY <3>2, <3>3, <3>4, <3>5 DEF Conservation
  <2>2. CASE queue = <<>>
    <3>1. /\ pc' = [pc EXCEPT ![p] = "resend"] /\ pc[p] = "full"
          /\ UNCHANGED <<queue, fate, victim, held, cur>>
      BY <1>2, <2>2 DEF Evict
    <3>2. QueuedRows' /\ InHandRow'
      BY <1>q, <3>1 DEF QueuedRows, Rows, InHandRow
    <3>3. OfferedRows'
      BY <1>q, <3>1 DEF TypeOK, OfferedRows, Holding
    <3>4. EvictedRows'
      BY <1>q, <3>1 DEF TypeOK, EvictedRows
    <3> QED BY <3>2, <3>3, <3>4 DEF Conservation
  <2> QED BY <2>1, <2>2
<1>3. ASSUME NEW p \in Producers, CountEvicted(p) PROVE Conservation'
  <2>1. /\ victim[p] \in Item /\ fate[victim[p]] = "evicted"
        /\ fate' = [fate EXCEPT ![victim[p]] = "dropped"]
        /\ victim' = [victim EXCEPT ![p] = None]
        /\ pc' = [pc EXCEPT ![p] = "resend"] /\ pc[p] = "evicted"
        /\ UNCHANGED <<queue, held, cur>>
    BY <1>q, <1>3 DEF CountEvicted, HandsFull, EvictedRows
  <2>2. QueuedRows'
    BY <1>q, <2>1, OutsideQueue, Zenon
  <2>3. InHandRow'
    BY <1>q, <2>1 DEF TypeOK, InHandRow
  <2>4. OfferedRows'
    BY <1>q, <2>1 DEF TypeOK, OfferedRows, Holding
  <2>5. EvictedRows'
    BY <1>q, <2>1 DEF TypeOK, EvictedRows
  <2> QED BY <2>2, <2>3, <2>4, <2>5 DEF Conservation
<1>4. ASSUME NEW p \in Producers, Resend(p) PROVE Conservation'
  <2>0. pc[p] = "resend" /\ held[p] \in Item /\ fate[held[p]] = "offered"
    BY <1>q, <1>4, Zenon DEF Resend, HandsFull, Holding, OfferedRows
  <2>1. CASE Len(queue) < Cap /\ Accept(held[p])
    <3>1. /\ fate' = [fate EXCEPT ![held[p]] = "queued"]
          /\ pc' = [pc EXCEPT ![p] = "mark"]
          /\ held' = [held EXCEPT ![p] = None]
          /\ UNCHANGED <<victim, cur>>
      BY <1>4, <2>1 DEF Resend, Accept
    <3>2. QueuedRows'
      BY <1>q, <2>0, <2>1, AcceptKeepsQueue
    <3>3. InHandRow'
      BY <1>q, <2>0, <3>1 DEF TypeOK, InHandRow
    <3>4. OfferedRows'
      BY <1>q, <2>0, <3>1 DEF TypeOK, OfferedRows, Holding
    <3>5. EvictedRows'
      BY <1>q, <2>0, <3>1 DEF TypeOK, EvictedRows
    <3> QED BY <3>2, <3>3, <3>4, <3>5 DEF Conservation
  <2>2. CASE ~(Len(queue) < Cap)
    <3>1. /\ pc' = [pc EXCEPT ![p] = "refused"]
          /\ UNCHANGED <<queue, fate, victim, held, cur>>
      BY <1>4, <2>2 DEF Resend, historyVars
    <3>2. QueuedRows' /\ InHandRow'
      BY <1>q, <3>1 DEF QueuedRows, Rows, InHandRow
    <3>3. OfferedRows'
      BY <1>q, <2>0, <3>1 DEF TypeOK, OfferedRows, Holding
    <3>4. EvictedRows'
      BY <1>q, <2>0, <3>1 DEF TypeOK, EvictedRows
    <3> QED BY <3>2, <3>3, <3>4 DEF Conservation
  <2> QED BY <1>4, <2>1, <2>2 DEF Resend
<1>5. ASSUME NEW p \in Producers, CountRefused(p) PROVE Conservation'
  <2>1. /\ held[p] \in Item /\ fate[held[p]] = "offered"
        /\ fate' = [fate EXCEPT ![held[p]] = "dropped"]
        /\ held' = [held EXCEPT ![p] = None]
        /\ pc' = [pc EXCEPT ![p] = "mark"] /\ pc[p] = "refused"
        /\ UNCHANGED <<queue, victim, cur>>
    BY <1>q, <1>5 DEF CountRefused, HandsFull, Holding, OfferedRows
  <2>2. QueuedRows'
    BY <1>q, <2>1, OutsideQueue, Zenon
  <2>3. InHandRow'
    BY <1>q, <2>1 DEF TypeOK, InHandRow
  <2>4. OfferedRows'
    BY <1>q, <2>1 DEF TypeOK, OfferedRows, Holding
  <2>5. EvictedRows'
    BY <1>q, <2>1 DEF TypeOK, EvictedRows
  <2> QED BY <2>2, <2>3, <2>4, <2>5 DEF Conservation
<1>6. ASSUME NEW p \in Producers, MarkDegraded(p) PROVE Conservation'
  <2>1. /\ pc' = [pc EXCEPT ![p] = "idle"] /\ pc[p] = "mark"
        /\ UNCHANGED <<queue, fate, victim, held, cur>>
    BY <1>6 DEF MarkDegraded, historyVars
  <2>2. QueuedRows' /\ InHandRow'
    BY <1>q, <2>1 DEF QueuedRows, Rows, InHandRow
  <2>3. OfferedRows'
    <3>1. \A r \in Producers : pc'[r] \in Holding <=> pc[r] \in Holding
      BY <2>1 DEF TypeOK, Holding
    <3> QED BY <1>q, <2>1, <3>1 DEF OfferedRows
  <2>4. EvictedRows'
    BY <1>q, <2>1 DEF TypeOK, EvictedRows
  <2> QED BY <2>2, <2>3, <2>4 DEF Conservation
<1>7. ASSUME TakeHead, cur = None, UNCHANGED producerVars PROVE Conservation'
  <2>1. /\ queue # <<>> /\ queue' = Tail(queue) /\ cur' = Head(queue)
        /\ fate' = [fate EXCEPT ![Head(queue)] = "inhand"]
        /\ UNCHANGED <<pc, held, victim>>
    BY <1>7 DEF TakeHead, producerVars
  <2>2. QueuedRows' /\ Head(queue) \in Item /\ fate[Head(queue)] = "queued"
    BY <1>q, <2>1, ReceiveKeepsQueue, Zenon
  <2>3. InHandRow'
    BY <1>q, <1>7, <2>1, <2>2 DEF TypeOK, InHandRow
  <2>4. OfferedRows'
    BY <1>q, <2>1, <2>2 DEF TypeOK, OfferedRows
  <2>5. EvictedRows'
    BY <1>q, <2>1, <2>2 DEF TypeOK, EvictedRows
  <2> QED BY <2>2, <2>3, <2>4, <2>5 DEF Conservation
<1>8. ASSUME NEW f \in {"saved", "dropped"}, cur \in Item, cur' = None,
             fate' = [fate EXCEPT ![cur] = f], UNCHANGED <<queue, producerVars>>
      PROVE Conservation'
  <2>1. fate[cur] = "inhand" /\ UNCHANGED <<pc, held, victim>>
    BY <1>q, <1>8 DEF InHandRow, producerVars
  <2>2. QueuedRows'
    BY <1>q, <1>8, <2>1, OutsideQueue, Zenon
  <2>3. InHandRow'
    BY <1>q, <1>8, <2>1 DEF TypeOK, InHandRow
  <2>4. OfferedRows'
    <3>1. \A i \in Item : fate'[i] = "offered" <=> fate[i] = "offered"
      BY <1>8, <2>1 DEF TypeOK
    <3> QED BY <1>q, <2>1, <3>1 DEF OfferedRows
  <2>5. EvictedRows'
    BY <1>q, <1>8, <2>1, Zenon DEF TypeOK, EvictedRows
  <2> QED BY <2>2, <2>3, <2>4, <2>5 DEF Conservation
<1>9. ASSUME UNCHANGED <<queue, fate, cur, producerVars>> PROVE Conservation'
  BY <1>q, <1>9, SMTT(30) DEF Conservation, QueuedRows, Rows, InHandRow, OfferedRows, EvictedRows, producerVars
<1>10. CASE Receive
  BY <1>7, <1>10 DEF Receive, HandsFull
<1>11. CASE DrainNext
  BY <1>7, <1>9, <1>11 DEF DrainNext, HandsFull
<1>12. CASE WriteOK
  BY <1>8, <1>12 DEF WriteOK, HandsFull, Persisting
<1>13. CASE Discard
  BY <1>8, <1>13 DEF Discard, HandsFull, Persisting
<1>14. CASE StartDrain \/ WriteError \/ Ping \/ MarkHealthy \/ MarkUnhealthy \/ Retry \/ GiveUp
  BY <1>9, <1>14, Zenon DEF StartDrain, WriteError, Ping, MarkHealthy, MarkUnhealthy, Retry, GiveUp, historyVars
<1>15. CASE Cancel \/ Expire \/ Outage
  BY <1>9, <1>15 DEF Cancel, Expire, Outage, historyVars
<1>16. CASE UNCHANGED vars
  BY <1>9, <1>16 DEF vars, producerVars
<1> QED BY <1>1, <1>2, <1>3, <1>4, <1>5, <1>6, <1>10, <1>11, <1>12, <1>13, <1>14, <1>15, <1>16
        DEF Next, Producer, Worker

\* No row is lost or duplicated between enqueue, the channel and the worker,
\* for any number of concurrent producers.
THEOREM RowsConserved == Spec => []Conservation
<1>1. Init => Conservation
  <2> SUFFICES ASSUME Init PROVE Conservation
    OBVIOUS
  <2>1. QueuedRows
    <3>1. Range(queue) = {} /\ IsInjective(queue)
      BY DEF Init, Range, IsInjective
    <3> QED BY <3>1 DEF Init, QueuedRows, Rows
  <2>2. InHandRow
    BY PersisterAssumption DEF Init, InHandRow
  <2>3. OfferedRows /\ EvictedRows
    BY DEF Init, OfferedRows, EvictedRows, Holding
  <2> QED BY <2>1, <2>2, <2>3 DEF Conservation
<1> QED BY <1>1, TypeCorrect, ConservationStep, PTL DEF Spec

-----------------------------------------------------------------------------
(* The dropped counter.                                                    *)

\* Giving up one row that was not given up before adds one to the count.
LEMMA CountOne ==
  ASSUME TypeOK, ExactDropCount, NEW i \in Item, fate[i] # "dropped",
         fate' = [fate EXCEPT ![i] = "dropped"], dropped' = dropped + 1
  PROVE  ExactDropCount'
<1>1. Rows("dropped")' = Rows("dropped") \cup {i} /\ i \notin Rows("dropped")
  BY DEF TypeOK, Rows
<1>2. IsFiniteSet(Rows("dropped")) /\ dropped = Cardinality(Rows("dropped"))
  BY DEF ExactDropCount
<1>3. /\ IsFiniteSet(Rows("dropped") \cup {i})
      /\ Cardinality(Rows("dropped") \cup {i}) = Cardinality(Rows("dropped")) + 1
  BY <1>1, <1>2, FS_AddElement
<1> QED BY <1>1, <1>2, <1>3 DEF ExactDropCount

\* Moving a row that is neither given up before nor after keeps the count.
LEMMA CountNone ==
  ASSUME TypeOK, ExactDropCount, dropped' = dropped,
         \A i \in Item : fate'[i] = "dropped" <=> fate[i] = "dropped"
  PROVE  ExactDropCount'
<1>1. Rows("dropped")' = Rows("dropped")
  BY DEF Rows
<1> QED BY <1>1 DEF ExactDropCount

\* Every step keeps the counter equal to the number of rows given up: the
\* three places that call dropped.Add(1) are the three that give a row up.
LEMMA DropCountStep ==
  TypeOK /\ HandsFull /\ Conservation /\ ExactDropCount /\ [Next]_vars => ExactDropCount'
<1> SUFFICES ASSUME TypeOK, HandsFull, Conservation, ExactDropCount, [Next]_vars
             PROVE  ExactDropCount'
  OBVIOUS
<1>q. QueuedRows /\ InHandRow /\ OfferedRows /\ EvictedRows
  BY DEF Conservation
<1>1. ASSUME NEW i \in Item, NEW f, f # "dropped", fate[i] # "dropped",
             fate' = [fate EXCEPT ![i] = f], dropped' = dropped
      PROVE  ExactDropCount'
  BY <1>1, CountNone, Zenon DEF TypeOK
<1>2. ASSUME UNCHANGED <<fate, dropped>> PROVE ExactDropCount'
  BY <1>2, CountNone
<1>3. ASSUME queue # <<>> PROVE Head(queue) \in Item /\ fate[Head(queue)] = "queued"
  <2>1. queue \in Seq(Item) /\ IsInjective(queue) /\ Rows("queued") = Range(queue)
    BY <1>q DEF TypeOK, QueuedRows
  <2>2. Head(queue) \in Range(queue)
    BY <1>3, <2>1, TailRows
  <2> QED BY <2>1, <2>2 DEF Rows
<1>4. ASSUME NEW p \in Producers, NEW i \in Item, Offer(p, i) PROVE ExactDropCount'
  BY <1>1, <1>4, Zenon DEF Offer, Accept
<1>5. ASSUME NEW p \in Producers, Evict(p) PROVE ExactDropCount'
  BY <1>1, <1>2, <1>3, <1>5, Zenon DEF Evict
<1>6. ASSUME NEW p \in Producers, CountEvicted(p) PROVE ExactDropCount'
  <2>1. victim[p] \in Item /\ fate[victim[p]] = "evicted"
    BY <1>q, <1>6, Zenon DEF CountEvicted, HandsFull, EvictedRows
  <2> QED BY <1>6, <2>1, CountOne, Zenon DEF CountEvicted
<1>7. ASSUME NEW p \in Producers, Resend(p) PROVE ExactDropCount'
  <2>1. held[p] \in Item /\ fate[held[p]] = "offered"
    BY <1>q, <1>7, Zenon DEF Resend, HandsFull, Holding, OfferedRows
  <2> QED BY <1>1, <1>2, <1>7, <2>1, Zenon DEF Resend, Accept, historyVars
<1>8. ASSUME NEW p \in Producers, CountRefused(p) PROVE ExactDropCount'
  <2>1. held[p] \in Item /\ fate[held[p]] = "offered"
    BY <1>q, <1>8, Zenon DEF CountRefused, HandsFull, Holding, OfferedRows
  <2> QED BY <1>8, <2>1, CountOne, Zenon DEF CountRefused
<1>9. ASSUME NEW p \in Producers, MarkDegraded(p) PROVE ExactDropCount'
  BY <1>2, <1>9 DEF MarkDegraded, historyVars
<1>10. CASE Receive
  BY <1>1, <1>3, <1>10, Zenon DEF Receive, TakeHead
<1>11. CASE DrainNext
  BY <1>1, <1>2, <1>3, <1>11, Zenon DEF DrainNext, TakeHead
<1>12. CASE WriteOK
  <2>1. cur \in Item /\ fate[cur] = "inhand"
    BY <1>q, <1>12, Zenon DEF WriteOK, HandsFull, Persisting, InHandRow
  <2> QED BY <1>1, <1>12, <2>1, Zenon DEF WriteOK
<1>13. CASE Discard
  <2>1. cur \in Item /\ fate[cur] = "inhand"
    BY <1>q, <1>13, Zenon DEF Discard, HandsFull, Persisting, InHandRow
  <2> QED BY <1>13, <2>1, CountOne, Zenon DEF Discard
<1>14. CASE StartDrain \/ WriteError \/ Ping \/ MarkHealthy \/ MarkUnhealthy \/ Retry \/ GiveUp
  BY <1>2, <1>14, Zenon DEF StartDrain, WriteError, Ping, MarkHealthy, MarkUnhealthy, Retry, GiveUp, historyVars
<1>15. CASE Cancel \/ Expire \/ Outage
  BY <1>2, <1>15, Zenon DEF Cancel, Expire, Outage, historyVars
<1>16. CASE UNCHANGED vars
  BY <1>2, <1>16, Zenon DEF vars
<1> QED BY <1>4, <1>5, <1>6, <1>7, <1>8, <1>9, <1>10, <1>11, <1>12, <1>13, <1>14, <1>15, <1>16, Zenon
        DEF Next, Producer, Worker

\* Dropped() is exact under any interleaving of enqueue, persist and drain.
THEOREM DropCountExact == Spec => []ExactDropCount
<1>1. Init => ExactDropCount
  <2> SUFFICES ASSUME Init PROVE ExactDropCount
    OBVIOUS
  <2>1. Rows("dropped") = {}
    BY DEF Init, Rows
  <2> QED BY <2>1, FS_EmptySet, Zenon DEF Init, ExactDropCount
<1> QED BY <1>1, TypeCorrect, RowsConserved, DropCountStep, PTL DEF Spec

\* Every accepted row is in one place, and every row enqueue or persist gave up is counted.
THEOREM AllRowsAccounted == Spec => []RowsAccounted
  BY TypeCorrect, RowsConserved, DropCountExact, PTL DEF RowsAccounted

-----------------------------------------------------------------------------
(* Order and the bound of the channel.                                     *)

OrderInv == StampBound /\ ArrivalOrder /\ QueueBound

\* Accepting a row gives it the latest number and the last position.
LEMMA AcceptKeepsOrder ==
  ASSUME TypeOK, Conservation, OrderInv, NEW i \in Item, fate[i] \in {"fresh", "offered"},
         Len(queue) < Cap, Accept(i)
  PROVE  OrderInv'
<1> USE PersisterAssumption DEF OrderInv
<1>1. /\ queue \in Seq(Item) /\ Len(queue) \in Nat /\ clock \in Nat
      /\ IsInjective(queue) /\ Rows("queued") = Range(queue)
      /\ DOMAIN queue = 1..Len(queue)
      /\ stamp \in [Item -> Nat] /\ fate \in [Item -> Fates]
  BY DEF TypeOK, Conservation, QueuedRows
<1>2. /\ queue' = Append(queue, i)
      /\ fate' = [fate EXCEPT ![i] = "queued"]
      /\ stamp' = [stamp EXCEPT ![i] = clock + 1]
      /\ clock' = clock + 1
  BY DEF Accept
<1>3. i \notin Range(queue)
  BY <1>1 DEF Rows
<1>4. /\ Len(queue') = Len(queue) + 1
      /\ \A k \in 1..Len(queue) : queue'[k] = queue[k] /\ queue[k] \in Item /\ queue[k] # i
      /\ queue'[Len(queue) + 1] = i
  <2>1. \A k \in 1..Len(queue) : queue[k] \in Item /\ queue[k] # i
    BY <1>1, <1>3 DEF Range
  <2>2. /\ Len(Append(queue, i)) = Len(queue) + 1
        /\ \A k \in 1..Len(queue) : Append(queue, i)[k] = queue[k]
        /\ Append(queue, i)[Len(queue) + 1] = i
    BY <1>1, <1>3, AppendRows, SMTT(30)
  <2> QED BY <1>2, <2>1, <2>2, Zenon
<1>5. /\ \A j \in Item : j # i => stamp'[j] = stamp[j] /\ fate'[j] = fate[j]
      /\ \A j \in Item : stamp[j] <= clock /\ stamp[j] \in Nat
      /\ stamp'[i] = clock + 1 /\ fate'[i] = "queued"
  BY <1>1, <1>2, Zenon DEF StampBound
<1>6. StampBound'
  BY <1>1, <1>2, <1>5 DEF StampBound
<1>7. \A k, l \in 1..Len(queue') : k < l => stamp'[queue'[k]] < stamp'[queue'[l]]
  <2> SUFFICES ASSUME NEW k \in 1..Len(queue'), NEW l \in 1..Len(queue'), k < l
               PROVE  stamp'[queue'[k]] < stamp'[queue'[l]]
    BY Zenon
  <2>1. k \in 1..Len(queue) /\ stamp'[queue'[k]] = stamp[queue[k]] /\ stamp[queue[k]] <= clock
    BY <1>1, <1>4, <1>5, SMTT(30)
  <2>2. CASE l = Len(queue) + 1
    BY <1>1, <1>4, <1>5, <2>1, <2>2, SMTT(30)
  <2>3. CASE l \in 1..Len(queue)
    <3>1. stamp[queue[k]] < stamp[queue[l]] /\ stamp'[queue'[l]] = stamp[queue[l]]
      BY <1>4, <1>5, <2>1, <2>3, SMTT(30) DEF ArrivalOrder
    <3> QED BY <2>1, <3>1, Zenon
  <2> QED BY <1>1, <1>4, <2>2, <2>3, SMTT(30)
<1>8. /\ \A x, y \in Item : fate'[x] = "inhand" /\ fate'[y] = "queued" => stamp'[x] < stamp'[y]
      /\ \A x, y \in Item : fate'[x] = "saved" /\ fate'[y] \in {"inhand", "queued"} => stamp'[x] < stamp'[y]
  <2> SUFFICES ASSUME NEW x \in Item, NEW y \in Item
               PROVE  /\ fate'[x] = "inhand" /\ fate'[y] = "queued" => stamp'[x] < stamp'[y]
                      /\ fate'[x] = "saved" /\ fate'[y] \in {"inhand", "queued"} => stamp'[x] < stamp'[y]
    BY Zenon
  <2>1. CASE x = i
    BY <1>5, <2>1, Zenon
  <2>2. CASE x # i /\ y = i
    BY <1>1, <1>5, <2>2, SMTT(30)
  <2>3. CASE x # i /\ y # i
    BY <1>5, <2>3, Zenon DEF ArrivalOrder
  <2> QED BY <2>1, <2>2, <2>3, Zenon
<1>9. QueueBound'
  BY <1>1, <1>4, SMTT(30) DEF QueueBound
<1> QED BY <1>6, <1>7, <1>8, <1>9, Zenon DEF ArrivalOrder

\* Receiving the oldest row keeps the order of the rows behind it.
LEMMA ReceiveKeepsOrder ==
  ASSUME TypeOK, Conservation, OrderInv, queue # <<>>, queue' = Tail(queue),
         NEW f \in {"evicted", "inhand"}, f = "inhand" => cur = None,
         fate' = [fate EXCEPT ![Head(queue)] = f], UNCHANGED <<stamp, clock>>
  PROVE  OrderInv'
<1> USE PersisterAssumption DEF OrderInv
<1>1. /\ queue \in Seq(Item) /\ Len(queue) \in Nat
      /\ IsInjective(queue) /\ Rows("queued") = Range(queue)
      /\ DOMAIN queue = 1..Len(queue)
      /\ fate \in [Item -> Fates]
  BY DEF TypeOK, Conservation, QueuedRows
<1>2. /\ Head(queue) = queue[1] /\ Head(queue) \in Item
      /\ Len(queue') = Len(queue) - 1
      /\ \A k \in 1..Len(queue') : k + 1 \in 1..Len(queue) /\ queue'[k] = queue[k+1]
      /\ Head(queue) \in Range(queue)
  BY <1>1, TailRows
<1>3. fate[Head(queue)] = "queued"
  BY <1>1, <1>2, Zenon DEF Rows
<1>4. \A j \in Item : j # Head(queue) => fate'[j] = fate[j]
  BY <1>1, <1>2, Zenon
<1>5. fate'[Head(queue)] = f
  BY <1>1, <1>2, Zenon
<1>6. StampBound'
  BY DEF StampBound
<1>7. \A k, l \in 1..Len(queue') : k < l => stamp'[queue'[k]] < stamp'[queue'[l]]
  <2> SUFFICES ASSUME NEW k \in 1..Len(queue'), NEW l \in 1..Len(queue'), k < l
               PROVE  stamp'[queue'[k]] < stamp'[queue'[l]]
    BY Zenon
  <2>1. k + 1 \in 1..Len(queue) /\ l + 1 \in 1..Len(queue) /\ k + 1 < l + 1
    BY <1>1, <1>2
  <2>2. stamp[queue[k+1]] < stamp[queue[l+1]]
    BY <2>1, Zenon DEF ArrivalOrder
  <2> QED BY <1>2, <2>2, Zenon
<1>8. \A j \in Item : fate[j] = "queued" /\ j # Head(queue) => stamp[Head(queue)] < stamp[j]
  <2> SUFFICES ASSUME NEW j \in Item, fate[j] = "queued", j # Head(queue)
               PROVE  stamp[Head(queue)] < stamp[j]
    BY Zenon
  <2>1. PICK k \in 1..Len(queue) : queue[k] = j
    BY <1>1, Zenon DEF Rows, Range
  <2>2. 1 \in 1..Len(queue) /\ 1 < k
    BY <1>1, <1>2, <2>1
  <2> QED BY <1>2, <2>1, <2>2, Zenon DEF ArrivalOrder
<1>9. f = "inhand" => \A j \in Item : fate[j] # "inhand"
  BY DEF Conservation, InHandRow
<1>10. \A x, y \in Item : fate'[x] = "inhand" /\ fate'[y] = "queued" => stamp'[x] < stamp'[y]
  <2> SUFFICES ASSUME NEW x \in Item, NEW y \in Item, fate'[x] = "inhand", fate'[y] = "queued"
               PROVE  stamp[x] < stamp[y]
    BY Zenon
  <2>1. y # Head(queue) /\ fate[y] = "queued"
    BY <1>4, <1>5
  <2>2. CASE x = Head(queue)
    BY <1>8, <2>1, <2>2, Zenon
  <2>3. CASE x # Head(queue)
    BY <1>4, <2>1, <2>3, Zenon DEF ArrivalOrder
  <2> QED BY <2>2, <2>3, Zenon
<1>11. \A x, y \in Item : fate'[x] = "saved" /\ fate'[y] \in {"inhand", "queued"} => stamp'[x] < stamp'[y]
  <2> SUFFICES ASSUME NEW x \in Item, NEW y \in Item,
                      fate'[x] = "saved", fate'[y] \in {"inhand", "queued"}
               PROVE  stamp[x] < stamp[y]
    BY Zenon
  <2>1. fate[x] = "saved"
    BY <1>4, <1>5
  <2>2. fate[y] \in {"inhand", "queued"}
    BY <1>3, <1>4, Zenon
  <2> QED BY <2>1, <2>2, Zenon DEF ArrivalOrder
<1>12. QueueBound'
  BY <1>1, <1>2, SMTT(30) DEF QueueBound, TypeOK
<1> QED BY <1>6, <1>7, <1>10, <1>11, <1>12 DEF ArrivalOrder

\* Moving a row outside the channel keeps the order, if the only row that is
\* moved to the database is the one the worker has in hand.
LEMMA OutsideKeepsOrder ==
  ASSUME TypeOK, Conservation, OrderInv, NEW i \in Item, NEW f \in {"offered", "dropped", "saved"},
         fate[i] # "queued", f = "saved" => fate[i] = "inhand",
         fate' = [fate EXCEPT ![i] = f], UNCHANGED <<queue, stamp, clock>>
  PROVE  OrderInv'
<1> USE DEF OrderInv
<1>1. /\ \A j \in Item : j # i => fate'[j] = fate[j]
      /\ fate'[i] = f
  BY Zenon DEF TypeOK
<1>2. StampBound' /\ QueueBound'
  BY DEF StampBound, QueueBound
<1>3. \A x, y \in Item : fate'[x] = "inhand" /\ fate'[y] = "queued" => stamp'[x] < stamp'[y]
  BY <1>1, Zenon DEF ArrivalOrder
<1>4. \A x, y \in Item : fate'[x] = "saved" /\ fate'[y] \in {"inhand", "queued"} => stamp'[x] < stamp'[y]
  <2> SUFFICES ASSUME NEW x \in Item, NEW y \in Item,
                      fate'[x] = "saved", fate'[y] \in {"inhand", "queued"}
               PROVE  stamp[x] < stamp[y]
    BY Zenon
  <2>1. y # i /\ fate[y] \in {"inhand", "queued"}
    BY <1>1
  <2>2. CASE x # i
    BY <1>1, <2>1, <2>2, Zenon DEF ArrivalOrder
  <2>3. CASE x = i
    <3>1. cur = i /\ fate[i] = "inhand"
      BY <1>1, <2>3, Zenon DEF Conservation, InHandRow
    <3>2. fate[y] = "queued"
      BY <2>1, <3>1 DEF Conservation, InHandRow
    <3> QED BY <2>3, <3>1, <3>2, Zenon DEF ArrivalOrder
  <2> QED BY <2>2, <2>3, Zenon
<1> QED BY <1>2, <1>3, <1>4, Zenon DEF ArrivalOrder

\* Every step of enqueue, persist and drain keeps arrival order and the bound.
LEMMA OrderStep ==
  TypeOK /\ HandsFull /\ Conservation /\ OrderInv /\ [Next]_vars => OrderInv'
<1> SUFFICES ASSUME TypeOK, HandsFull, Conservation, OrderInv, [Next]_vars PROVE OrderInv'
  OBVIOUS
<1>q. QueuedRows /\ InHandRow /\ OfferedRows /\ EvictedRows
  BY DEF Conservation
<1>1. ASSUME UNCHANGED <<queue, fate, stamp, clock>> PROVE OrderInv'
  BY <1>1, Zenon DEF OrderInv, StampBound, ArrivalOrder, QueueBound
<1>2. ASSUME NEW p \in Producers, NEW i \in Item, Offer(p, i) PROVE OrderInv'
  BY <1>2, AcceptKeepsOrder, OutsideKeepsOrder, Zenon DEF Offer
<1>3. ASSUME NEW p \in Producers, Evict(p) PROVE OrderInv'
  BY <1>1, <1>3, ReceiveKeepsOrder, Zenon DEF Evict
<1>4. ASSUME NEW p \in Producers, CountEvicted(p) PROVE OrderInv'
  <2>1. victim[p] \in Item /\ fate[victim[p]] = "evicted"
    BY <1>q, <1>4, Zenon DEF CountEvicted, HandsFull, EvictedRows
  <2> QED BY <1>4, <2>1, OutsideKeepsOrder, Zenon DEF CountEvicted
<1>5. ASSUME NEW p \in Producers, Resend(p) PROVE OrderInv'
  <2>1. held[p] \in Item /\ fate[held[p]] = "offered"
    BY <1>q, <1>5, Zenon DEF Resend, HandsFull, Holding, OfferedRows
  <2> QED BY <1>1, <1>5, <2>1, AcceptKeepsOrder, Zenon DEF Resend, historyVars
<1>6. ASSUME NEW p \in Producers, CountRefused(p) PROVE OrderInv'
  <2>1. held[p] \in Item /\ fate[held[p]] = "offered"
    BY <1>q, <1>6, Zenon DEF CountRefused, HandsFull, Holding, OfferedRows
  <2> QED BY <1>6, <2>1, OutsideKeepsOrder, Zenon DEF CountRefused
<1>7. ASSUME NEW p \in Producers, MarkDegraded(p) PROVE OrderInv'
  BY <1>1, <1>7 DEF MarkDegraded, historyVars
<1>8. CASE Receive
  BY <1>8, ReceiveKeepsOrder, Zenon DEF Receive, TakeHead, HandsFull
<1>9. CASE DrainNext
  BY <1>1, <1>9, ReceiveKeepsOrder, Zenon DEF DrainNext, TakeHead, HandsFull
<1>10. CASE WriteOK
  <2>1. cur \in Item /\ fate[cur] = "inhand"
    BY <1>q, <1>10, Zenon DEF WriteOK, HandsFull, Persisting, InHandRow
  <2> QED BY <1>10, <2>1, OutsideKeepsOrder, Zenon DEF WriteOK
<1>11. CASE Discard
  <2>1. cur \in Item /\ fate[cur] = "inhand"
    BY <1>q, <1>11, Zenon DEF Discard, HandsFull, Persisting, InHandRow
  <2> QED BY <1>11, <2>1, OutsideKeepsOrder, Zenon DEF Discard
<1>12. CASE StartDrain \/ WriteError \/ Ping \/ MarkHealthy \/ MarkUnhealthy \/ Retry \/ GiveUp
  BY <1>1, <1>12, Zenon DEF StartDrain, WriteError, Ping, MarkHealthy, MarkUnhealthy, Retry, GiveUp, historyVars
<1>13. CASE Cancel \/ Expire \/ Outage
  BY <1>1, <1>13, Zenon DEF Cancel, Expire, Outage, historyVars
<1>14. CASE UNCHANGED vars
  BY <1>1, <1>14, Zenon DEF vars
<1> QED BY <1>2, <1>3, <1>4, <1>5, <1>6, <1>7, <1>8, <1>9, <1>10, <1>11, <1>12, <1>13, <1>14, Zenon
        DEF Next, Producer, Worker

\* The rows in the channel, in the worker's hand and in the database are in
\* the order the channel accepted them, and the channel keeps to its capacity.
THEOREM ArrivalOrderKept == Spec => [](ArrivalOrder /\ QueueBound)
<1>1. Init => OrderInv
  <2> SUFFICES ASSUME Init PROVE OrderInv
    OBVIOUS
  <2>1. Len(queue) = 0
    BY DEF Init
  <2> QED BY <2>1, PersisterAssumption DEF Init, OrderInv, StampBound, ArrivalOrder, QueueBound
<1>2. OrderInv => ArrivalOrder /\ QueueBound
  BY DEF OrderInv
<1> QED BY <1>1, <1>2, TypeCorrect, RowsConserved, OrderStep, PTL DEF Spec

\* Rows reach the database in acceptance order: a save is always of a row
\* younger than every row saved before it.
THEOREM SavesInOrder == Spec => [][SavesYounger]_vars
<1>1. TypeOK /\ HandsFull /\ Conservation /\ ArrivalOrder /\ [Next]_vars => [SavesYounger]_vars
  <2> SUFFICES ASSUME TypeOK, HandsFull, Conservation, ArrivalOrder, Next,
                      NEW i \in Rows("saved")' \ Rows("saved"), NEW j \in Rows("saved")
               PROVE  stamp[j] < stamp[i]
    BY DEF SavesYounger
  <2>1. i \in Item /\ j \in Item /\ fate'[i] = "saved" /\ fate[i] # "saved" /\ fate[j] = "saved"
    BY Zenon DEF Rows
  <2>2. fate[i] = "inhand"
    <3> USE DEF TypeOK
    <3>1. ASSUME NEW p \in Producers, Producer(p) PROVE FALSE
      BY <2>1, <3>1, SMTT(30) DEF Producer, Offer, Accept, Evict, CountEvicted, Resend, CountRefused,
                        MarkDegraded, historyVars
    <3>2. CASE Worker
      <4>1. CASE WriteOK
        <5>1. cur \in Item /\ fate[cur] = "inhand"
          BY <4>1, Zenon DEF WriteOK, HandsFull, Persisting, Conservation, InHandRow
        <5> QED BY <2>1, <4>1, <5>1, Zenon DEF WriteOK
      <4>2. CASE ~WriteOK
        BY <2>1, <3>2, <4>2, Zenon DEF Worker, Receive, TakeHead, DrainNext, Discard, StartDrain,
              WriteError, Ping, MarkHealthy, MarkUnhealthy, Retry, GiveUp, historyVars
      <4> QED BY <4>1, <4>2, Zenon
    <3>3. CASE Cancel \/ Expire \/ Outage
      BY <2>1, <3>3, Zenon DEF Cancel, Expire, Outage, historyVars
    <3> QED BY <3>1, <3>2, <3>3, Zenon DEF Next
  <2> QED BY <2>1, <2>2, Zenon DEF ArrivalOrder
<1> QED BY <1>1, TypeCorrect, RowsConserved, ArrivalOrderKept, PTL DEF Spec

\* The worker leaves rows behind only when the deadline of drain has passed.
THEOREM DrainsFirst == Spec => [][DrainsBeforeExit]_vars
<1>1. HandsFull /\ [Next]_vars => [DrainsBeforeExit]_vars
  <2> SUFFICES ASSUME HandsFull, Next, wpc # "done", wpc' = "done", ~expired
               PROVE  queue = <<>> /\ cur = None
    BY DEF DrainsBeforeExit
  <2>1. ~(\E p \in Producers : Producer(p)) /\ ~Cancel /\ ~Expire /\ ~Outage
    BY Zenon DEF Producer, Offer, Evict, CountEvicted, Resend, CountRefused, MarkDegraded, Cancel, Expire, Outage
  <2>2. DrainNext \/ GiveUp
    BY <2>1, Zenon DEF Next, Worker, Receive, StartDrain, WriteOK, WriteError, Ping, Discard,
                MarkHealthy, MarkUnhealthy, Retry
  <2>3. CASE DrainNext
    BY <2>3, Zenon DEF DrainNext, HandsFull
  <2>4. CASE GiveUp
    BY <2>4 DEF GiveUp, Live
  <2> QED BY <2>2, <2>3, <2>4
<1> QED BY <1>1, TypeCorrect, PTL DEF Spec

\* persist and drain keep the order of acceptance and leave nothing behind in time.
THEOREM DrainIsOrdered == Spec => OrderedDrain
<1>1. [SavesYounger]_vars /\ [DrainsBeforeExit]_vars => [SavesYounger /\ DrainsBeforeExit]_vars
  OBVIOUS
<1> QED BY <1>1, SavesInOrder, DrainsFirst, PTL DEF OrderedDrain

-----------------------------------------------------------------------------
(* The queue implements the ledger.                                        *)

\* Moving one row changes its ledger entry and no other.
LEMMA EntryMoves ==
  ASSUME TypeOK, NEW i \in Item, NEW f \in Fates, fate' = [fate EXCEPT ![i] = f]
  PROVE  /\ [j \in Item |-> EntryOf(fate[j])]' =
               [[j \in Item |-> EntryOf(fate[j])] EXCEPT ![i] = EntryOf(f)]
         /\ [j \in Item |-> EntryOf(fate[j])][i] = EntryOf(fate[i])
  BY Zenon DEF TypeOK

\* Every step of enqueue, persist and drain is a step of the ledger or leaves
\* it unchanged.
LEMMA LedgerStep ==
  TypeOK /\ HandsFull /\ Conservation /\ [Next]_vars => [Ledger!LedgerNext]_(Ledger!ledgerVars)
<1> SUFFICES ASSUME TypeOK, HandsFull, Conservation, [Next]_vars
             PROVE  [Ledger!LedgerNext]_(Ledger!ledgerVars)
  OBVIOUS
<1>q. QueuedRows /\ InHandRow /\ OfferedRows /\ EvictedRows
  BY DEF Conservation
<1>1. ASSUME UNCHANGED <<fate, dropped>> PROVE UNCHANGED Ledger!ledgerVars
  BY <1>1 DEF Ledger!ledgerVars
<1>2. ASSUME NEW i \in Item, NEW f \in Fates, fate' = [fate EXCEPT ![i] = f], dropped' = dropped,
             EntryOf(f) = EntryOf(fate[i])
      PROVE  UNCHANGED Ledger!ledgerVars
  <2>1. \A j \in Item : EntryOf(fate'[j]) = EntryOf(fate[j])
    BY <1>2, Zenon DEF TypeOK
  <2> QED BY <1>2, <2>1, Zenon DEF Ledger!ledgerVars
<1>3. ASSUME NEW i \in Item, fate[i] = "fresh", NEW f \in {"offered", "queued"},
             fate' = [fate EXCEPT ![i] = f], dropped' = dropped
      PROVE  Ledger!LedgerNext
  <2>1. f \in Fates /\ EntryOf(f) = "pending" /\ EntryOf(fate[i]) = "new"
    BY <1>3 DEF Fates, EntryOf
  <2>2. Ledger!Take(i)
    BY <1>3, <2>1, EntryMoves, Zenon DEF Ledger!Take
  <2> QED BY <2>2 DEF Ledger!LedgerNext
<1>4. ASSUME NEW i \in Item, fate[i] \in {"offered", "evicted", "inhand"},
             fate' = [fate EXCEPT ![i] = "dropped"], dropped' = dropped + 1
      PROVE  Ledger!LedgerNext
  <2>1. "dropped" \in Fates /\ EntryOf("dropped") = "dropped" /\ EntryOf(fate[i]) = "pending"
    BY <1>4 DEF Fates, EntryOf
  <2>2. Ledger!Drop(i)
    BY <1>4, <2>1, EntryMoves, Zenon DEF Ledger!Drop
  <2> QED BY <2>2 DEF Ledger!LedgerNext
<1>5. ASSUME queue # <<>> PROVE Head(queue) \in Item /\ fate[Head(queue)] = "queued"
  <2>1. queue \in Seq(Item) /\ IsInjective(queue) /\ Rows("queued") = Range(queue)
    BY <1>q, Zenon DEF TypeOK, QueuedRows
  <2>2. Head(queue) \in Range(queue)
    BY <1>5, <2>1, TailRows, Zenon
  <2> QED BY <2>1, <2>2, Zenon DEF Rows
<1>6. \A f \in {"offered", "queued", "evicted", "inhand"} : f \in Fates /\ EntryOf(f) = "pending"
  BY DEF Fates, EntryOf
<1>7. ASSUME NEW p \in Producers, NEW i \in Item, Offer(p, i) PROVE Ledger!LedgerNext
  BY <1>3, <1>7, Zenon DEF Offer, Accept
<1>8. ASSUME NEW p \in Producers, Evict(p) PROVE UNCHANGED Ledger!ledgerVars
  BY <1>1, <1>2, <1>5, <1>6, <1>8, Zenon DEF Evict
<1>9. ASSUME NEW p \in Producers, CountEvicted(p) PROVE Ledger!LedgerNext
  <2>1. victim[p] \in Item /\ fate[victim[p]] = "evicted"
    BY <1>q, <1>9, Zenon DEF CountEvicted, HandsFull, EvictedRows
  <2> QED BY <1>4, <1>9, <2>1, Zenon DEF CountEvicted
<1>10. ASSUME NEW p \in Producers, Resend(p) PROVE UNCHANGED Ledger!ledgerVars
  <2>1. held[p] \in Item /\ fate[held[p]] = "offered"
    BY <1>q, <1>10, Zenon DEF Resend, HandsFull, Holding, OfferedRows
  <2> QED BY <1>1, <1>2, <1>6, <1>10, <2>1, Zenon DEF Resend, Accept, historyVars
<1>11. ASSUME NEW p \in Producers, CountRefused(p) PROVE Ledger!LedgerNext
  <2>1. held[p] \in Item /\ fate[held[p]] = "offered"
    BY <1>q, <1>11, Zenon DEF CountRefused, HandsFull, Holding, OfferedRows
  <2> QED BY <1>4, <1>11, <2>1, Zenon DEF CountRefused
<1>12. ASSUME NEW p \in Producers, MarkDegraded(p) PROVE UNCHANGED Ledger!ledgerVars
  BY <1>1, <1>12, Zenon DEF MarkDegraded, historyVars
<1>13. CASE Receive \/ DrainNext
  BY <1>1, <1>2, <1>5, <1>6, <1>13, Zenon DEF Receive, DrainNext, TakeHead
<1>14. ASSUME wpc \in Persisting PROVE cur \in Item /\ fate[cur] = "inhand"
  BY <1>q, <1>14, Zenon DEF HandsFull, InHandRow
<1>15. CASE WriteOK
  <2>1. cur \in Item /\ fate[cur] = "inhand" /\ fate' = [fate EXCEPT ![cur] = "saved"] /\ dropped' = dropped
    BY <1>14, <1>15, Zenon DEF WriteOK, Persisting
  <2>2. "saved" \in Fates /\ EntryOf("saved") = "saved" /\ EntryOf(fate[cur]) = "pending"
    BY <2>1 DEF Fates, EntryOf
  <2>3. Ledger!Save(cur)
    BY <2>1, <2>2, EntryMoves, Zenon DEF Ledger!Save
  <2> QED BY <2>1, <2>3, Zenon DEF Ledger!LedgerNext
<1>16. CASE Discard
  BY <1>4, <1>14, <1>16, Zenon DEF Discard, Persisting
<1>17. CASE StartDrain \/ WriteError \/ Ping \/ MarkHealthy \/ MarkUnhealthy \/ Retry \/ GiveUp
  BY <1>1, <1>17, Zenon DEF StartDrain, WriteError, Ping, MarkHealthy, MarkUnhealthy, Retry, GiveUp, historyVars
<1>18. CASE Cancel \/ Expire \/ Outage
  BY <1>1, <1>18, Zenon DEF Cancel, Expire, Outage, historyVars
<1>19. CASE UNCHANGED vars
  BY <1>1, <1>19, Zenon DEF vars
<1> QED BY <1>7, <1>8, <1>9, <1>10, <1>11, <1>12, <1>13, <1>15, <1>16, <1>17, <1>18, <1>19, Zenon
        DEF Next, Producer, Worker

\* The persister implements the ledger: a row ends saved or counted, never
\* both, never twice, and dropped moves only with a row that is given up.
THEOREM QueueImplementsLedger == Spec => ImplementsLedger
<1>1. Init => Ledger!LedgerInit
  <2> SUFFICES ASSUME Init PROVE Ledger!LedgerInit
    OBVIOUS
  <2>1. EntryOf("fresh") = "new"
    BY DEF EntryOf
  <2> QED BY <2>1 DEF Init, Ledger!LedgerInit
<1> QED BY <1>1, TypeCorrect, RowsConserved, LedgerStep, PTL DEF Spec, ImplementsLedger, Ledger!LedgerSpec
=============================================================================
