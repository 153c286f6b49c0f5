-------------------------- MODULE EnrollmentProofs --------------------------
(***************************************************************************)
(* Enrollment, for any machines, requests, PINs and numbers of crashes and *)
(* lost answers: a machine has one node, and a temporary PIN is honoured   *)
(* while it is in force. The properties are about nodes, config files and  *)
(* PINs; what makes them hold is on the machine's disk. The identity       *)
(* written there before the first request never changes, every request and *)
(* every answer on its way is about it, and all but the newest temporary   *)
(* PIN are revoked.                                                        *)
(***************************************************************************)
EXTENDS Enrollment, TLAPS

Disks == [config: Configs \cup {None}, pending: Idents \cup {None}]
Installers == [step: {"idle", "remember", "send", "wait", "save", "clean"},
               ident: Idents \cup {None}, pin: Pins \cup {None}, try: 0..Attempts, node: Nat \cup {None}]
Handlers == [step: {"free", "arrived", "site", "temp", "enroll", "answer"}, m: Machines \cup {None},
             ident: Idents \cup {None}, pin: Pins \cup {None}, dead: SUBSET Temps, temp: Temps \cup {None},
             answer: {"refused", "failed", "enrolled", None}, node: Nat \cup {None}]
AtWork == {"arrived", "site", "temp", "enroll"}

\* The identity a machine has written down, in its config file or in its pending file.
Known(m) == IF disk[m].config # None THEN disk[m].config.ident ELSE disk[m].pending

\* Node n was made for identity i.
MadeFor(n, i) == n \in DOMAIN made /\ made[n] = i

\* What a machine has on disk is its own, and names a node made for it; it has drawn no more
\* identities than runs of it have died.
DiskIs(m) ==
  /\ Known(m) # None => Known(m)[1] = m
  /\ disk[m].config # None => MadeFor(disk[m].config.node, disk[m].config.ident)
  /\ gen[m] <= events + 1

\* An installer sends nothing before its identity is on disk, and saves a node made for it.
InstIs(m, r) ==
  /\ r.step # "idle" => r.ident \in Idents /\ r.ident[1] = m
  /\ r.step \in {"remember", "send"} => r.try < Attempts
  /\ r.step = "remember" => disk[m].config = None /\ disk[m].pending \in {None, r.ident}
  /\ r.step \in {"send", "wait", "save", "clean"} => Known(m) = r.ident
  /\ r.step \in {"save", "clean"} => MadeFor(r.node, r.ident)
  /\ r.step = "clean" => disk[m].config # None
  /\ r.step = "idle" /\ Known(m) = None => gen[m] <= events

\* A handler works for the identity its machine has on disk, with the temporary PIN that was
\* sent, and answers with a node made for that identity.
SlotIs(q) ==
  /\ q.step \in AtWork => /\ q.ident \in Idents /\ Known(q.ident[1]) = q.ident
                          /\ q.m \in {None, q.ident[1]} /\ q.answer = None
  /\ q.temp # None => q.step = "enroll" /\ q.pin = q.temp /\ q.temp <= issued
  /\ q.step = "answer" => /\ q.m # None /\ q.answer # None
                          /\ q.answer = "enrolled" => MadeFor(q.node, Known(q.m))

\* Every node was made for the identity its machine has on disk, and no two that exist for
\* the same one.
MadeForKnown == \A n \in DOMAIN made : Known(made[n][1]) = made[n]
NodesApart == \A a, b \in nodes : made[a] = made[b] => a = b

\* Only the newest temporary PIN may be in force.
OlderRevoked == \A k \in Temps : k < issued => temps[k].revoked = TRUE

EnrollIndInv ==
  /\ TypeOK /\ MadeForKnown /\ NodesApart /\ OlderRevoked /\ PinBuysOneNode
  /\ \A m \in Machines : DiskIs(m) /\ InstIs(m, inst[m])
  /\ \A h \in Slots : SlotIs(slot[h])

-----------------------------------------------------------------------------
\* An identity on disk stays, and so does what a node was made for.
KnownKept == \A m \in Machines : Known(m) # None => Known(m)' = Known(m)
MadeKept == \A n \in DOMAIN made : n \in DOMAIN made' /\ made'[n] = made[n]

LEMMA IdentTyped ==
    ASSUME NEW i \in Idents
    PROVE  i # None /\ i[1] \in Machines /\ i[2] \in 1..(MaxEvents + 1)
  BY EnrollmentAssumption DEF Idents

LEMMA TypeParts ==
    ASSUME TypeOK
    PROVE  /\ disk \in [Machines -> Disks] /\ inst \in [Machines -> Installers]
           /\ slot \in [Slots -> Handlers] /\ made \in Seq(Idents) /\ nodes \subseteq DOMAIN made
           /\ issued \in 0..MaxPins /\ events \in 0..MaxEvents
           /\ gen \in [Machines -> 0..(MaxEvents + 1)]
  BY DEF TypeOK, Disks, Installers, Handlers

\* What a machine knows is an identity.
LEMMA KnownTyped ==
    ASSUME TypeOK, NEW m \in Machines
    PROVE  Known(m) \in Idents \cup {None}
  <1>1. disk[m] \in Disks  BY TypeParts
  <1>2. disk[m].config # None => disk[m].config \in Configs  BY <1>1 DEF Disks
  <1>3. disk[m].config # None => disk[m].config.ident \in Idents  BY <1>2 DEF Configs
  <1>4. disk[m].pending \in Idents \cup {None}  BY <1>1 DEF Disks
  <1> QED  BY <1>3, <1>4 DEF Known

LEMMA SlotRests ==
    ASSUME TypeOK, NEW q \in Handlers, SlotIs(q), KnownKept, MadeKept,
           issued \in Nat, issued' \in Nat, issued <= issued'
    PROVE  SlotIs(q)'
  <1>1. q.step \in AtWork => Known(q.ident[1])' = q.ident
    BY IdentTyped DEF SlotIs, KnownKept
  <1>2. ASSUME q.step = "answer", q.answer = "enrolled" PROVE MadeFor(q.node, Known(q.m))'
    <2>1. q.m \in Machines /\ MadeFor(q.node, Known(q.m))  BY <1>2 DEF SlotIs, Handlers
    <2>2. made[q.node] \in Idents  BY <2>1 DEF TypeOK, MadeFor
    <2>3. Known(q.m) # None  BY <2>1, <2>2, IdentTyped DEF MadeFor
    <2> QED  BY <2>1, <2>3 DEF MadeFor, KnownKept, MadeKept
  <1>3. q.temp # None => q.temp \in Nat  BY DEF Handlers, Temps
  <1>4. q.temp # None => q.temp <= issued'  BY <1>3 DEF SlotIs
  <1> QED  BY <1>1, <1>2, <1>4 DEF SlotIs

LEMMA InstRests ==
    ASSUME TypeOK, NEW m \in Machines, NEW r, InstIs(m, r), disk'[m] = disk[m], gen'[m] = gen[m], MadeKept,
           events' \in Nat, events <= events'
    PROVE  InstIs(m, r)'
  <1>1. Known(m)' = Known(m)  BY DEF Known
  <1>2. gen[m] \in Nat /\ events \in Nat  BY EnrollmentAssumption DEF TypeOK
  <1>3. gen[m] <= events => gen'[m] <= events'  BY <1>2
  <1> QED  BY <1>1, <1>3 DEF InstIs, MadeFor, MadeKept

LEMMA DiskRests ==
    ASSUME TypeOK, NEW m \in Machines, DiskIs(m), disk'[m] = disk[m], gen'[m] = gen[m], MadeKept,
           events' \in Nat, events <= events'
    PROVE  DiskIs(m)'
  <1>1. Known(m)' = Known(m)  BY DEF Known
  <1>2. gen[m] \in Nat /\ events \in Nat  BY EnrollmentAssumption DEF TypeOK
  <1>3. gen[m] <= events + 1 => gen'[m] <= events' + 1  BY <1>2
  <1> QED  BY <1>1, <1>3 DEF DiskIs, MadeFor, MadeKept

\* The disks and what nodes were made for are as they were.
LEMMA Settled ==
    ASSUME TypeOK, UNCHANGED <<disk, made>>
    PROVE  KnownKept /\ MadeKept /\ (MadeForKnown => MadeForKnown')
  <1>1. \A m : Known(m)' = Known(m)  BY DEF Known
  <1> QED  BY <1>1 DEF KnownKept, MadeKept, MadeForKnown

\* A handler moves, and nothing else changes but the number of events.
LEMMA HandlerMoves ==
    ASSUME EnrollIndInv, NEW h \in Slots, NEW q \in Handlers, SlotIs(q), slot' = [slot EXCEPT ![h] = q],
           UNCHANGED <<admin, table, client>>, events' = events \/ Event
    PROVE  EnrollIndInv'
  <1>1. TypeOK /\ MadeForKnown /\ NodesApart /\ OlderRevoked /\ PinBuysOneNode  BY DEF EnrollIndInv
  <1>2. UNCHANGED <<site, temps, issued, revoking, made, nodes, admitted, disk, inst, gen>>
    BY DEF admin, table, client
  <1>3. events' \in 0..MaxEvents /\ events <= events' /\ events' \in Nat
    BY <1>1, EnrollmentAssumption DEF TypeOK, Event
  <1>4. KnownKept /\ MadeKept /\ MadeForKnown'  BY <1>1, <1>2, Settled
  <1>5. slot' \in [Slots -> Handlers]  BY <1>1, TypeParts
  <1>6. TypeOK'  BY <1>1, <1>2, <1>3, <1>5 DEF TypeOK, Handlers
  <1>7. NodesApart' /\ OlderRevoked' /\ PinBuysOneNode'
    BY <1>1, <1>2 DEF NodesApart, OlderRevoked, PinBuysOneNode
  <1>8. ASSUME NEW m \in Machines PROVE (DiskIs(m) /\ InstIs(m, inst[m]))'
    <2>1. DiskIs(m) /\ InstIs(m, inst[m])  BY DEF EnrollIndInv
    <2>2. PICK r : r = inst[m] /\ r = inst'[m]  BY <1>2
    <2>3. InstIs(m, r)'  BY <1>1, <1>2, <1>3, <1>4, <2>1, <2>2, InstRests
    <2>4. InstIs(m, inst[m])'  BY <2>2, <2>3
    <2>5. DiskIs(m)'  BY <1>1, <1>2, <1>3, <1>4, <2>1, DiskRests
    <2> QED  BY <2>4, <2>5
  <1>9. ASSUME NEW g \in Slots PROVE SlotIs(slot[g])'
    <2>1. PICK p : p = slot'[g]  OBVIOUS
    <2>2. p \in Handlers /\ SlotIs(p)
      <3>1. slot \in [Slots -> Handlers]  BY <1>1, TypeParts
      <3>2. p = q \/ p = slot[g]  BY <2>1, <3>1
      <3> QED  BY <1>5, <2>1, <3>2 DEF EnrollIndInv
    <2>3. issued \in Nat /\ issued' = issued  BY <1>1, <1>2 DEF TypeOK
    <2>4. SlotIs(p)'  BY <1>1, <1>4, <2>2, <2>3, SlotRests
    <2> QED  BY <2>1, <2>4
  <1> QED  BY <1>4, <1>6, <1>7, <1>8, <1>9 DEF EnrollIndInv

LEMMA FreeTyped ==
    /\ Free \in Handlers /\ SlotIs(Free) /\ Free.answer = None /\ Free.temp = None
  <1>1. Free \in Handlers  BY DEF Free, Handlers
  <1>2. Free.step = "free" /\ Free.temp = None /\ Free.answer = None  BY DEF Free
  <1> QED  BY <1>1, <1>2 DEF SlotIs, AtWork

\* A handler answers, or is free when nobody waits.
LEMMA AnswerIs ==
    ASSUME TypeOK, NEW h \in Slots, NEW ans \in {"refused", "failed", "enrolled"}, NEW n \in Nat \cup {None},
           Answer(h, ans, n)
    PROVE  \E q \in Handlers :
             /\ slot' = [slot EXCEPT ![h] = q]
             /\ \/ q = Free
                \/ /\ q.step = "answer" /\ q.m = slot[h].m /\ q.m \in Machines /\ q.m # None
                   /\ q.answer = ans /\ q.node = n /\ q.temp = None
  <1>1. slot \in [Slots -> Handlers] /\ slot[h] \in Handlers  BY TypeParts
  <1>2. CASE slot[h].m = None
    <2>1. slot' = [slot EXCEPT ![h] = Free]  BY <1>2 DEF Answer
    <2> QED  BY <2>1, FreeTyped, Zenon
  <1>3. CASE slot[h].m # None
    <2>1. PICK q : q = [Free EXCEPT !.step = "answer", !.m = slot[h].m, !.answer = ans, !.node = n]
      OBVIOUS
    <2>2. slot' = [slot EXCEPT ![h] = q]  BY <1>3, <2>1 DEF Answer
    <2>3. slot[h].m \in Machines  BY <1>1, <1>3 DEF Handlers
    <2>4. q \in Handlers  BY <2>1, <2>3, Zenon DEF Free, Handlers
    <2>5. q.step = "answer" /\ q.m = slot[h].m /\ q.answer = ans /\ q.node = n /\ q.temp = None
      BY <2>1 DEF Free
    <2> QED  BY <1>3, <2>2, <2>3, <2>4, <2>5, Zenon
  <1> QED  BY <1>2, <1>3

\* It answers with a node only if that was made for what the client's machine knows.
LEMMA AnswerMoves ==
    ASSUME TypeOK, NEW h \in Slots, NEW ans \in {"refused", "failed", "enrolled"}, NEW n \in Nat \cup {None},
           Answer(h, ans, n), slot[h].m # None /\ ans = "enrolled" => MadeFor(n, Known(slot[h].m))
    PROVE  \E q \in Handlers : SlotIs(q) /\ slot' = [slot EXCEPT ![h] = q]
  <1>1. PICK q \in Handlers :
          /\ slot' = [slot EXCEPT ![h] = q]
          /\ \/ q = Free
             \/ /\ q.step = "answer" /\ q.m = slot[h].m /\ q.m # None
                /\ q.answer = ans /\ q.node = n /\ q.temp = None
    BY AnswerIs
  <1>2. ans # None  BY EnrollmentAssumption
  <1>3. SlotIs(q)  BY <1>1, <1>2, FreeTyped DEF SlotIs, AtWork
  <1> QED  BY <1>1, <1>3, Zenon

\* A refusal or a failure is answered.
LEMMA AnswerKeeps ==
    ASSUME EnrollIndInv, NEW h \in Slots, NEW ans \in {"refused", "failed"}, Answer(h, ans, None),
           UNCHANGED <<admin, table, client>>, events' = events \/ Event
    PROVE  EnrollIndInv'
  <1>1. TypeOK  BY DEF EnrollIndInv
  <1>2. ans \in {"refused", "failed", "enrolled"} /\ ans # "enrolled" /\ None \in Nat \cup {None}  OBVIOUS
  <1>3. PICK q \in Handlers : SlotIs(q) /\ slot' = [slot EXCEPT ![h] = q]  BY <1>1, <1>2, AnswerMoves, Zenon
  <1> QED  BY <1>3, HandlerMoves, Zenon

\* The newest temporary PIN is the only one that can be in force.
LEMMA ActiveIsNewest ==
    ASSUME TypeOK, OlderRevoked, NEW dead, NEW k, k = ActiveTemporaryEnrollmentPIN(dead)
    PROVE  /\ k = None \/ (k = issued /\ k \in Temps /\ temps[k].revoked = FALSE /\ k \notin dead)
           /\ \A j \in 1..issued : temps[j].revoked = FALSE /\ j \notin dead => k = j
  <1> DEFINE live == {j \in 1..issued : ~temps[j].revoked /\ j \notin dead}
  <1>1. issued \in Nat /\ issued <= MaxPins /\ MaxPins \in Nat  BY EnrollmentAssumption DEF TypeOK
  <1>2. \A j \in 1..issued : j \in Temps /\ temps[j].revoked \in BOOLEAN  BY <1>1 DEF TypeOK, Temps
  <1>3. \A j \in live : j = issued
    <2> SUFFICES ASSUME NEW j \in live, j # issued PROVE FALSE  OBVIOUS
    <2>1. j < issued /\ j \in Temps  BY <1>1, <1>2
    <2> QED  BY <2>1 DEF OlderRevoked
  <1>4. k = IF live = {} THEN None ELSE Max(live)  BY DEF ActiveTemporaryEnrollmentPIN
  <1>5. live # {} => live = {issued}  BY <1>3
  <1>6. Max({issued}) = issued
    <2>1. \A x \in {issued} : x = issued  OBVIOUS
    <2>2. issued >= issued  BY <1>1
    <2> QED  BY <2>1, <2>2 DEF Max
  <1>7. issued \in live => issued \in Temps /\ temps[issued].revoked = FALSE /\ issued \notin dead
    BY <1>2
  <1>8. \A j \in 1..issued : temps[j].revoked = FALSE /\ j \notin dead => j \in live  OBVIOUS
  <1> HIDE DEF live
  <1>9. CASE live = {}  BY <1>4, <1>8, <1>9
  <1>10. CASE live # {}
    <2>1. k = issued /\ issued \in live  BY <1>4, <1>5, <1>6, <1>10
    <2> QED  BY <1>3, <1>7, <1>8, <2>1
  <1> QED  BY <1>9, <1>10, Zenon

\* The steps of a handler before the transaction.
LEMMA AdmitKeeps ==
    ASSUME EnrollIndInv, NEW h \in Slots, Admit(h) \/ CheckSitePin(h)
    PROVE  EnrollIndInv'
  <1>1. TypeOK /\ SlotIs(slot[h]) /\ slot[h] \in Handlers /\ slot \in [Slots -> Handlers]
    BY TypeParts DEF EnrollIndInv
  <1>2. UNCHANGED <<admin, table, client>> /\ events' = events  BY DEF Admit, CheckSitePin
  <1>3. CASE Admit(h)
    <2>1. PICK dead : dead = {k \in Temps : temps[k].expired}  BY Zenon
    <2>2. PICK q : q = [slot[h] EXCEPT !.step = "site", !.dead = dead]  OBVIOUS
    <2>3. slot' = [slot EXCEPT ![h] = q]  BY <1>1, <1>3, <2>1, <2>2, Zenon DEF Admit, Handlers
    <2>4. q \in Handlers  BY <1>1, <2>1, <2>2, ZenonT(30) DEF Handlers
    <2>5. /\ q.step = "site" /\ q.ident = slot[h].ident /\ q.m = slot[h].m /\ q.answer = slot[h].answer
          /\ q.temp = slot[h].temp
      BY <1>1, <2>2 DEF Handlers
    <2>6. slot[h].step = "arrived"  BY <1>3 DEF Admit
    <2>7. SlotIs(q)  BY <1>1, <2>5, <2>6, Zenon DEF SlotIs, AtWork
    <2> QED  BY <1>2, <2>3, <2>4, <2>7, HandlerMoves, Zenon
  <1>4. CASE CheckSitePin(h)
    <2>1. PICK step : step = IF slot[h].pin = site THEN "enroll" ELSE "temp"  OBVIOUS
    <2>2. PICK q : q = [slot[h] EXCEPT !.step = step]  BY Zenon
    <2>3. slot' = [slot EXCEPT ![h] = q]
      <3>1. slot' = [slot EXCEPT ![h].step = step]  BY <1>4, <2>1, Zenon DEF CheckSitePin
      <3> QED  BY <1>1, <2>2, <3>1
    <2>4. q \in Handlers  BY <1>1, <2>1, <2>2 DEF Handlers
    <2>5. /\ q.step = step /\ step \in {"enroll", "temp"} /\ q.ident = slot[h].ident /\ q.m = slot[h].m /\ q.answer = slot[h].answer
          /\ q.temp = slot[h].temp
      BY <1>1, <2>1, <2>2 DEF Handlers
    <2>6. slot[h].step = "site"  BY <1>4 DEF CheckSitePin
    <2>7. SlotIs(q)  BY <1>1, <2>5, <2>6 DEF SlotIs, AtWork
    <2> QED  BY <1>2, <2>3, <2>4, <2>7, HandlerMoves, Zenon
  <1> QED  BY <1>3, <1>4

LEMMA PinUnreadKeeps ==
    ASSUME EnrollIndInv, NEW h \in Slots, PinUnread(h)
    PROVE  EnrollIndInv'
  <1>1. TypeOK /\ SlotIs(slot[h]) /\ slot[h] \in Handlers /\ slot \in [Slots -> Handlers]
    BY TypeParts DEF EnrollIndInv
  <1>2. UNCHANGED <<admin, table, client>> /\ Event  BY DEF PinUnread
  <1>3. CASE slot[h].step = "site" /\ slot' = [slot EXCEPT ![h].step = "temp"]
    <2>2. PICK q : q = [slot[h] EXCEPT !.step = "temp"]  BY Zenon
    <2>3. slot' = [slot EXCEPT ![h] = q]  BY <1>1, <1>3, <2>2
    <2>4. q \in Handlers  BY <1>1, <2>2 DEF Handlers
    <2>5. /\ q.step = "temp" /\ q.ident = slot[h].ident /\ q.m = slot[h].m /\ q.answer = slot[h].answer
          /\ q.temp = slot[h].temp
      BY <1>1, <2>2 DEF Handlers
    <2>6. SlotIs(q)  BY <1>1, <1>3, <2>5 DEF SlotIs, AtWork
    <2> QED  BY <1>2, <2>3, <2>4, <2>6, HandlerMoves, Zenon
  <1>4. CASE Answer(h, "refused", None)  BY <1>2, <1>4, AnswerKeeps
  <1> QED  BY <1>3, <1>4 DEF PinUnread

LEMMA CheckTemporaryPinKeeps ==
    ASSUME EnrollIndInv, NEW h \in Slots, CheckTemporaryPin(h)
    PROVE  EnrollIndInv'
  <1>1. TypeOK /\ SlotIs(slot[h]) /\ slot[h] \in Handlers /\ slot \in [Slots -> Handlers] /\ OlderRevoked
    BY TypeParts DEF EnrollIndInv
  <1>2. UNCHANGED <<admin, table, client>> /\ events' = events /\ slot[h].step = "temp"
    BY DEF CheckTemporaryPin
  <1>3. PICK k : k = ActiveTemporaryEnrollmentPIN(slot[h].dead)  OBVIOUS
  <1>4. CASE k # None /\ slot[h].pin = k
    <2>1. k \in Temps /\ k = issued  BY <1>1, <1>3, <1>4, ActiveIsNewest, Zenon
    <2>2. PICK q : q = [slot[h] EXCEPT !.step = "enroll", !.temp = k]  OBVIOUS
    <2>3. slot' = [slot EXCEPT ![h] = q]  BY <1>1, <1>3, <1>4, <2>2, Zenon DEF CheckTemporaryPin, Handlers
    <2>4. q \in Handlers  BY <1>1, <2>1, <2>2, Zenon DEF Handlers
    <2>5. /\ q.step = "enroll" /\ q.ident = slot[h].ident /\ q.m = slot[h].m /\ q.answer = slot[h].answer
          /\ q.temp = k /\ q.pin = slot[h].pin
      BY <1>1, <2>2 DEF Handlers
    <2>6. k <= issued  BY <1>1, <2>1 DEF TypeOK
    <2>7. SlotIs(q)  BY <1>1, <1>2, <1>4, <2>5, <2>6, Zenon DEF SlotIs, AtWork
    <2> QED  BY <1>2, <2>3, <2>4, <2>7, HandlerMoves, Zenon
  <1>5. CASE ~(k # None /\ slot[h].pin = k)
    <2>1. Answer(h, "refused", None)  BY <1>3, <1>5 DEF CheckTemporaryPin
    <2> QED  BY <1>2, <2>1, AnswerKeeps, Zenon
  <1> QED  BY <1>4, <1>5

LEMMA EnrollExistingKeeps ==
    ASSUME EnrollIndInv, NEW h \in Slots, EnrollExisting(h)
    PROVE  EnrollIndInv'
  <1>1. TypeOK /\ SlotIs(slot[h]) /\ slot[h] \in Handlers  BY TypeParts DEF EnrollIndInv
  <1>2. UNCHANGED <<admin, table, client>> /\ events' = events /\ slot[h].step = "enroll"
    BY DEF EnrollExisting
  <1>3. PICK n \in nodes : made[n] = slot[h].ident /\ Answer(h, "enrolled", n)  BY DEF EnrollExisting
  <1>4. n \in DOMAIN made /\ n \in Nat \cup {None}  BY <1>1, TypeParts
  <1>5. slot[h].m # None => MadeFor(n, Known(slot[h].m))
    BY <1>1, <1>2, <1>3, <1>4 DEF SlotIs, AtWork, MadeFor
  <1>6. PICK q \in Handlers : SlotIs(q) /\ slot' = [slot EXCEPT ![h] = q]
    BY <1>1, <1>3, <1>4, <1>5, AnswerMoves
  <1> QED  BY <1>2, <1>6, HandlerMoves, Zenon

\* A node is made, and the temporary PIN is claimed for it.
LEMMA EnrollNewKeeps ==
    ASSUME EnrollIndInv, NEW h \in Slots, EnrollNew(h)
    PROVE  EnrollIndInv'
  <1>1. /\ TypeOK /\ SlotIs(slot[h]) /\ slot[h] \in Handlers /\ slot \in [Slots -> Handlers]
        /\ MadeForKnown /\ NodesApart /\ OlderRevoked /\ PinBuysOneNode
    BY TypeParts DEF EnrollIndInv
  <1>2. PICK k, new : k = slot[h].temp /\ new = slot[h].ident  OBVIOUS
  <1>3. /\ \A n \in nodes : made[n] # new
        /\ k # None => Claimable(k, new, slot[h].dead)
        /\ made' = Append(made, new) /\ nodes' = nodes \cup {Len(made')}
        /\ k = None => UNCHANGED <<temps, admitted>>
        /\ k # None => /\ temps' = [temps EXCEPT ![k].claim = new]
                       /\ admitted' = [admitted EXCEPT ![k] = admitted[k] \cup {new}]
        /\ Answer(h, "enrolled", Len(made')) /\ slot[h].step = "enroll"
        /\ UNCHANGED <<site, issued, revoking, disk, inst, gen, events>>
    BY <1>2 DEF EnrollNew, client
  <1>4. new \in Idents /\ Known(new[1]) = new /\ slot[h].m \in {None, new[1]} /\ k \in Temps \cup {None}
    BY <1>1, <1>2, <1>3 DEF SlotIs, AtWork, Handlers
  <1>5. PICK len : len = Len(made) + 1  OBVIOUS
  <1>6. /\ made' \in Seq(Idents) /\ Len(made') = len /\ len \in Nat /\ made'[len] = new
        /\ DOMAIN made' = DOMAIN made \cup {len} /\ len \notin DOMAIN made
        /\ \A n \in DOMAIN made : made'[n] = made[n]
    <2>1. made \in Seq(Idents)  BY <1>1, TypeParts
    <2>2. DOMAIN made = 1..Len(made) /\ Len(made) \in Nat  BY <2>1
    <2>3. made' \in Seq(Idents) /\ Len(made') = len  BY <1>3, <1>4, <1>5, <2>1
    <2>4. DOMAIN made' = 1..len  BY <2>3
    <2>5. made'[len] = new /\ \A n \in 1..Len(made) : made'[n] = made[n]  BY <1>3, <1>4, <1>5, <2>1
    <2>6. 1..len = 1..Len(made) \cup {len}  BY <1>5, <2>2
    <2> QED  BY <1>5, <2>2, <2>3, <2>4, <2>5, <2>6
  <1>7. MadeKept  BY <1>6 DEF MadeKept
  <1>8. \A m : Known(m)' = Known(m)  BY <1>3 DEF Known
  <1>9. KnownKept  BY <1>8 DEF KnownKept
  <1>10. MadeForKnown'  BY <1>1, <1>4, <1>6, <1>8 DEF MadeForKnown
  <1>11. nodes \subseteq DOMAIN made /\ nodes' = nodes \cup {len}  BY <1>1, <1>3, <1>6, TypeParts
  <1>12. NodesApart'  BY <1>1, <1>3, <1>6, <1>11 DEF NodesApart
  <1>13. /\ temps' \in [Temps -> [revoked: BOOLEAN, expired: BOOLEAN, claim: Idents \cup {None}]]
         /\ admitted' \in [Temps -> SUBSET Idents]
         /\ \A j \in Temps : temps'[j].revoked = temps[j].revoked
         /\ \A j \in Temps : j # k => temps'[j].claim = temps[j].claim /\ admitted'[j] = admitted[j]
         /\ k # None => temps'[k].claim = new /\ admitted'[k] = admitted[k] \cup {new}
    <2>1. CASE k = None  BY <1>1, <1>3, <2>1 DEF TypeOK
    <2>2. CASE k \in Temps
      <3>1. k # None  BY <2>2, EnrollmentAssumption DEF Temps
      <3>2. PICK row : row = [temps[k] EXCEPT !.claim = new]  BY Zenon
      <3>3. temps[k] \in [revoked: BOOLEAN, expired: BOOLEAN, claim: Idents \cup {None}]
        BY <1>1, <2>2 DEF TypeOK
      <3>4. /\ row \in [revoked: BOOLEAN, expired: BOOLEAN, claim: Idents \cup {None}]
            /\ row.claim = new /\ row.revoked = temps[k].revoked
        BY <1>4, <3>2, <3>3
      <3>5. temps' = [temps EXCEPT ![k] = row]  BY <1>1, <1>3, <2>2, <3>1, <3>2 DEF TypeOK
      <3>6. admitted' = [admitted EXCEPT ![k] = admitted[k] \cup {new}]  BY <1>3, <3>1
      <3>7. admitted' \in [Temps -> SUBSET Idents]  BY <1>1, <1>4, <2>2, <3>6 DEF TypeOK
      <3>8. /\ admitted'[k] = admitted[k] \cup {new}
            /\ \A j \in Temps : j # k => admitted'[j] = admitted[j]
        BY <1>1, <2>2, <3>6, Zenon DEF TypeOK
      <3> QED  BY <1>1, <2>2, <3>4, <3>5, <3>7, <3>8, Zenon DEF TypeOK
    <2> QED  BY <1>4, <2>1, <2>2
  <1>14. OlderRevoked'  BY <1>1, <1>3, <1>13 DEF OlderRevoked
  <1>15. PinBuysOneNode'
    <2> SUFFICES ASSUME NEW j \in Temps
                 PROVE  admitted'[j] = IF temps'[j].claim = None THEN {} ELSE {temps'[j].claim}
      BY DEF PinBuysOneNode
    <2>1. admitted[j] = IF temps[j].claim = None THEN {} ELSE {temps[j].claim}  BY <1>1 DEF PinBuysOneNode
    <2>2. CASE j # k  BY <1>13, <2>1, <2>2
    <2>3. CASE j = k
      <3>1. k # None  BY <2>3, EnrollmentAssumption DEF Temps
      <3>2. temps[j].claim \in {None, new}  BY <1>3, <2>3, <3>1 DEF Claimable
      <3>3. admitted'[j] = admitted[j] \cup {new} /\ temps'[j].claim = new  BY <1>13, <2>3, <3>1
      <3>4. new # None  BY <1>4, IdentTyped
      <3> QED  BY <2>1, <3>2, <3>3, <3>4
    <2> QED  BY <2>2, <2>3
  <1>16. PICK q \in Handlers :
           /\ slot' = [slot EXCEPT ![h] = q]
           /\ \/ q = Free
              \/ /\ q.step = "answer" /\ q.m = slot[h].m /\ q.m # None
                 /\ q.answer = "enrolled" /\ q.node = len /\ q.temp = None
    BY <1>1, <1>3, <1>6, AnswerIs
  <1>17. slot' \in [Slots -> Handlers]  BY <1>1, <1>16
  <1>18. TypeOK'
    <2>1. nodes' \subseteq DOMAIN made'  BY <1>6, <1>11
    <2> QED  BY <1>1, <1>3, <1>6, <1>13, <1>17, <2>1, Zenon DEF TypeOK, Handlers
  <1>19. ASSUME NEW m \in Machines PROVE (DiskIs(m) /\ InstIs(m, inst[m]))'
    <2>1. DiskIs(m) /\ InstIs(m, inst[m])  BY DEF EnrollIndInv
    <2>2. PICK r : r = inst[m] /\ r = inst'[m]  BY <1>3
    <2>3. events' \in Nat /\ events <= events'  BY <1>1, <1>3, EnrollmentAssumption DEF TypeOK
    <2>4. disk'[m] = disk[m] /\ gen'[m] = gen[m]  BY <1>3
    <2>5. InstIs(m, r)'  BY <1>1, <1>7, <2>1, <2>2, <2>3, <2>4, InstRests
    <2>6. InstIs(m, inst[m])'  BY <2>2, <2>5
    <2>7. DiskIs(m)'  BY <1>1, <1>7, <2>1, <2>3, <2>4, DiskRests
    <2> QED  BY <2>6, <2>7
  <1>20. ASSUME NEW g \in Slots PROVE SlotIs(slot[g])'
    <2>1. CASE g # h
      <3>1. PICK p : p = slot'[g] /\ p = slot[g]  BY <1>1, <1>16, <2>1
      <3>2. p \in Handlers /\ SlotIs(p)  BY <1>1, <3>1 DEF EnrollIndInv
      <3>3. issued \in Nat /\ issued' = issued  BY <1>1, <1>3 DEF TypeOK
      <3>4. SlotIs(p)'  BY <1>1, <1>7, <1>9, <3>2, <3>3, SlotRests
      <3> QED  BY <3>1, <3>4
    <2>2. CASE g = h
      <3>1. slot'[g] = q  BY <1>1, <1>16, <2>2
      <3>2. CASE q = Free
        <4>1. q.step = "free" /\ q.temp = None  BY <3>2 DEF Free
        <4> QED  BY <3>1, <4>1 DEF SlotIs, AtWork
      <3>3. CASE q # Free
        <4>1. Known(q.m)' = new  BY <1>4, <1>8, <1>16, <3>3
        <4>2. MadeFor(q.node, Known(q.m))'  BY <1>6, <1>16, <3>3, <4>1 DEF MadeFor
        <4>3. q.answer # None  BY <1>16, <3>3, EnrollmentAssumption
        <4> QED  BY <1>16, <3>1, <3>3, <4>2, <4>3, Zenon DEF SlotIs, AtWork
      <3> QED  BY <3>2, <3>3
    <2> QED  BY <2>1, <2>2
  <1> QED  BY <1>10, <1>12, <1>14, <1>15, <1>18, <1>19, <1>20 DEF EnrollIndInv

\* The steps of a handler.
LEMMA HandleKeeps ==
    ASSUME EnrollIndInv, NEW h \in Slots, Handle(h)
    PROVE  EnrollIndInv'
  <1>1. CASE Admit(h) \/ CheckSitePin(h)  BY <1>1, AdmitKeeps
  <1>2. CASE TurnAway(h)  BY <1>2, AnswerKeeps DEF TurnAway
  <1>3. CASE Fail(h)  BY <1>3, AnswerKeeps DEF Fail
  <1>4. CASE PinUnread(h)  BY <1>4, PinUnreadKeeps
  <1>5. CASE CheckTemporaryPin(h)  BY <1>5, CheckTemporaryPinKeeps
  <1>6. CASE EnrollExisting(h)  BY <1>6, EnrollExistingKeeps
  <1>7. CASE EnrollNew(h)  BY <1>7, EnrollNewKeeps
  <1>8. CASE EnrollUnavailable(h)
    <2>1. Answer(h, "refused", None) /\ UNCHANGED <<admin, table, client>> /\ events' = events
      BY <1>8 DEF EnrollUnavailable
    <2> QED  BY <2>1, AnswerKeeps
  <1> QED  BY <1>1, <1>2, <1>3, <1>4, <1>5, <1>6, <1>7, <1>8 DEF Handle

-----------------------------------------------------------------------------
\* The administrator changes PINs or deletes a node: no request and no file changes.
LEMMA AdministerKeeps ==
    ASSUME EnrollIndInv, Administer
    PROVE  EnrollIndInv'
  <1>1. TypeOK /\ MadeForKnown /\ NodesApart /\ OlderRevoked /\ PinBuysOneNode  BY DEF EnrollIndInv
  <1>2. UNCHANGED <<made, admitted, disk, inst, gen, slot>> /\ (events' = events \/ Event)
    BY DEF Administer, CreateTemporaryPin, RevokeRead, RevokeWrite, Expire, RotatePin, DeleteNode, table,
           client, admin
  <1>3. events' \in 0..MaxEvents /\ events <= events' /\ events' \in Nat
    BY <1>1, <1>2, EnrollmentAssumption DEF TypeOK, Event
  <1>4. KnownKept /\ MadeKept /\ MadeForKnown'  BY <1>1, <1>2, Settled
  <1>5. /\ site' \in SitePins /\ issued' \in 0..MaxPins /\ issued <= issued' /\ issued \in Nat /\ issued' \in Nat
        /\ revoking' \in Temps \cup {None} /\ nodes' \subseteq nodes
    <2>1. site \in SitePins /\ issued \in 0..MaxPins /\ revoking \in Temps \cup {None}  BY <1>1 DEF TypeOK
    <2>2. CASE CreateTemporaryPin
      BY <2>1, <2>2, EnrollmentAssumption DEF CreateTemporaryPin, table
    <2>3. CASE RevokeRead
      <3>1. issued \in Temps  BY <2>1, <2>3, EnrollmentAssumption DEF RevokeRead, Temps
      <3> QED  BY <2>1, <2>3, <3>1, EnrollmentAssumption DEF RevokeRead, table
    <2>4. CASE RevokeWrite  BY <2>1, <2>4, EnrollmentAssumption DEF RevokeWrite, table
    <2>5. CASE \E k \in Temps : Expire(k)  BY <2>1, <2>5, EnrollmentAssumption DEF Expire, table
    <2>6. CASE \E pin \in SitePins : RotatePin(pin)
      BY <2>1, <2>6, EnrollmentAssumption DEF RotatePin, table
    <2>7. CASE \E n \in nodes : DeleteNode(n)  BY <2>1, <2>7, EnrollmentAssumption DEF DeleteNode, admin
    <2> QED  BY <2>2, <2>3, <2>4, <2>5, <2>6, <2>7 DEF Administer
  <1>6. /\ temps' \in [Temps -> [revoked: BOOLEAN, expired: BOOLEAN, claim: Idents \cup {None}]]
        /\ \A k \in Temps : /\ temps'[k].claim = temps[k].claim
                            /\ temps[k].revoked = TRUE => temps'[k].revoked = TRUE
                            /\ k < issued' => temps'[k].revoked = TRUE
    <2> DEFINE Rows == [revoked: BOOLEAN, expired: BOOLEAN, claim: Idents \cup {None}]
    <2>1. temps \in [Temps -> Rows] /\ issued \in Nat  BY <1>1 DEF TypeOK
    <2>2. \A k \in Temps : k \in Nat /\ (k < issued => temps[k].revoked = TRUE)
      BY <1>1 DEF OlderRevoked, Temps
    <2>3. CASE CreateTemporaryPin
      <3>1. /\ issued' = issued + 1
            /\ temps' = [k \in Temps |-> [temps[k] EXCEPT !.revoked = temps[k].revoked \/ k <= issued]]
        BY <2>3 DEF CreateTemporaryPin
      <3>2. ASSUME NEW k \in Temps
            PROVE  /\ temps'[k] \in Rows /\ temps'[k].claim = temps[k].claim
                   /\ temps'[k].revoked = (temps[k].revoked \/ k <= issued)
        BY <2>1, <3>1, Zenon
      <3>3. \A k \in Temps : k < issued' => k <= issued  BY <2>1, <2>2, <3>1
      <3>4. temps' \in [Temps -> Rows]  BY <3>1, <3>2
      <3> QED  BY <3>2, <3>3, <3>4
    <2>4. CASE RevokeWrite
      <3>1. revoking \in Temps  BY <1>1, <2>4 DEF RevokeWrite, TypeOK
      <3>2. PICK row : row = [temps[revoking] EXCEPT !.revoked = TRUE]  BY Zenon
      <3>3. row \in Rows /\ row.claim = temps[revoking].claim /\ row.revoked = TRUE  BY <2>1, <3>1, <3>2, Zenon
      <3>4. temps' = [temps EXCEPT ![revoking] = row] /\ issued' = issued
        BY <2>1, <2>4, <3>1, <3>2 DEF RevokeWrite
      <3> QED  BY <2>1, <2>2, <3>1, <3>3, <3>4
    <2>5. ASSUME NEW k \in Temps, Expire(k)
          PROVE  /\ temps' \in [Temps -> Rows]
                 /\ \A j \in Temps : /\ temps'[j].claim = temps[j].claim
                                     /\ temps[j].revoked = TRUE => temps'[j].revoked = TRUE
                                     /\ j < issued' => temps'[j].revoked = TRUE
      <3>1. PICK row : row = [temps[k] EXCEPT !.expired = TRUE]  BY Zenon
      <3>2. row \in Rows /\ row.claim = temps[k].claim /\ row.revoked = temps[k].revoked  BY <2>1, <3>1, Zenon
      <3>3. temps' = [temps EXCEPT ![k] = row] /\ issued' = issued  BY <2>1, <2>5, <3>1 DEF Expire
      <3> QED  BY <2>1, <2>2, <3>2, <3>3
    <2>6. CASE temps' = temps /\ issued' = issued  BY <2>1, <2>2, <2>6
    <2>7. CreateTemporaryPin \/ RevokeWrite \/ (\E k \in Temps : Expire(k)) \/ (temps' = temps /\ issued' = issued)
      BY DEF Administer, RevokeRead, RotatePin, DeleteNode, admin
    <2> QED  BY <2>3, <2>4, <2>5, <2>6, <2>7, Zenon
  <1>7. TypeOK'
    <2>1. nodes' \subseteq DOMAIN made'  BY <1>1, <1>2, <1>5, Zenon DEF TypeOK
    <2> QED  BY <1>1, <1>2, <1>3, <1>5, <1>6, <2>1, Zenon DEF TypeOK
  <1>8. NodesApart'  BY <1>1, <1>2, <1>5 DEF NodesApart
  <1>9. OlderRevoked'  BY <1>6 DEF OlderRevoked
  <1>10. PinBuysOneNode'  BY <1>1, <1>2, <1>6, Zenon DEF PinBuysOneNode
  <1>11. ASSUME NEW m \in Machines PROVE (DiskIs(m) /\ InstIs(m, inst[m]))'
    <2>1. DiskIs(m) /\ InstIs(m, inst[m])  BY DEF EnrollIndInv
    <2>2. PICK r : r = inst[m] /\ r = inst'[m]  BY <1>2
    <2>3. InstIs(m, r)'  BY <1>1, <1>2, <1>3, <1>4, <2>1, <2>2, InstRests, Zenon
    <2>4. InstIs(m, inst[m])'  BY <2>2, <2>3
    <2>5. DiskIs(m)'  BY <1>1, <1>2, <1>3, <1>4, <2>1, DiskRests
    <2> QED  BY <2>4, <2>5
  <1>12. ASSUME NEW g \in Slots PROVE SlotIs(slot[g])'
    <2>1. PICK p : p = slot'[g] /\ p = slot[g]  BY <1>2
    <2>2. p \in Handlers /\ SlotIs(p)  BY <1>1, <2>1, TypeParts, Zenon DEF EnrollIndInv
    <2>3. SlotIs(p)'  BY <1>1, <1>4, <1>5, <2>2, SlotRests
    <2> QED  BY <2>1, <2>3
  <1> QED  BY <1>4, <1>7, <1>8, <1>9, <1>10, <1>11, <1>12, Zenon DEF EnrollIndInv

-----------------------------------------------------------------------------
\* The installer of machine m moves, and handlers with it.
LEMMA ClientMoves ==
    ASSUME EnrollIndInv, NEW m \in Machines, UNCHANGED <<admin, table>>, events' = events \/ Event,
           disk' \in [Machines -> Disks], inst' \in [Machines -> Installers],
           gen' \in [Machines -> 0..(MaxEvents + 1)], slot' \in [Slots -> Handlers],
           \A n \in Machines : n # m => disk'[n] = disk[n] /\ inst'[n] = inst[n] /\ gen'[n] = gen[n],
           Known(m) # None => Known(m)' = Known(m),
           DiskIs(m)', InstIs(m, inst[m])', \A g \in Slots : SlotIs(slot'[g])
    PROVE  EnrollIndInv'
  <1>1. TypeOK /\ MadeForKnown /\ NodesApart /\ OlderRevoked /\ PinBuysOneNode  BY Zenon DEF EnrollIndInv
  <1>2. UNCHANGED <<site, temps, issued, revoking, made, nodes, admitted>>  BY Zenon DEF admin, table
  <1>3. events' \in 0..MaxEvents /\ events <= events' /\ events' \in Nat
    BY <1>1, EnrollmentAssumption, SMTT(30) DEF TypeOK, Event
  <1>4. KnownKept
    <2> SUFFICES ASSUME NEW n \in Machines, Known(n) # None PROVE Known(n)' = Known(n)  BY Zenon DEF KnownKept
    <2>1. CASE n # m  BY <2>1, Zenon DEF Known
    <2> QED  BY <2>1, Zenon
  <1>5. MadeKept  BY <1>2, Zenon DEF MadeKept
  <1>6. MadeForKnown'
    <2> SUFFICES ASSUME NEW n \in DOMAIN made PROVE Known(made[n][1])' = made[n]
      BY <1>2, Zenon DEF MadeForKnown
    <2>1. made[n] \in Idents  BY <1>1, TypeParts
    <2>2. made[n][1] \in Machines /\ Known(made[n][1]) # None  BY <1>1, <2>1, IdentTyped DEF MadeForKnown
    <2>3. PICK w : w = made[n][1] /\ w = made'[n][1]  BY <1>2, Zenon
    <2>4. Known(w)' = Known(w)  BY <1>4, <2>2, <2>3, Zenon DEF KnownKept
    <2>5. Known(w) = made[n]  BY <1>1, <2>3, Zenon DEF MadeForKnown
    <2> QED  BY <2>3, <2>4, <2>5, Zenon
  <1>7. TypeOK'  BY <1>1, <1>2, <1>3, Zenon DEF TypeOK, Disks, Installers, Handlers
  <1>8. NodesApart' /\ OlderRevoked' /\ PinBuysOneNode'
    BY <1>1, <1>2, Zenon DEF NodesApart, OlderRevoked, PinBuysOneNode
  <1>9. ASSUME NEW n \in Machines PROVE (DiskIs(n) /\ InstIs(n, inst[n]))'
    <2>1. CASE n = m  BY <2>1, Zenon
    <2>2. CASE n # m
      <3>1. DiskIs(n) /\ InstIs(n, inst[n])  BY Zenon DEF EnrollIndInv
      <3>2. PICK r : r = inst[n] /\ r = inst'[n]  BY <2>2, Zenon
      <3>3. disk'[n] = disk[n] /\ gen'[n] = gen[n]  BY <2>2, Zenon
      <3>4. InstIs(n, r)'  BY <1>1, <1>3, <1>5, <3>1, <3>2, <3>3, InstRests, Zenon
      <3>5. InstIs(n, inst[n])'  BY <3>2, <3>4, Zenon
      <3>6. DiskIs(n)'  BY <1>1, <1>3, <1>5, <3>1, <3>3, DiskRests, Zenon
      <3> QED  BY <3>5, <3>6, Zenon
    <2> QED  BY <2>1, <2>2, Zenon
  <1>10. ASSUME NEW g \in Slots PROVE SlotIs(slot[g])'
    <2>1. PICK p : p = slot'[g]  BY Zenon
    <2>2. p \in Handlers /\ SlotIs(p)  BY <2>1, Zenon
    <2>3. issued \in Nat /\ issued' = issued  BY <1>1, <1>2, SMTT(30) DEF TypeOK
    <2>4. SlotIs(p)'  BY <1>1, <1>4, <1>5, <2>2, <2>3, SlotRests, SMTT(30)
    <2> QED  BY <2>1, <2>4, Zenon
  <1> QED  BY <1>6, <1>7, <1>8, <1>9, <1>10, Zenon DEF EnrollIndInv

\* The client of machine m is gone.
LEMMA AbandonMoves ==
    ASSUME EnrollIndInv, NEW m \in Machines, Abandon(m)
    PROVE  slot' \in [Slots -> Handlers] /\ \A g \in Slots : SlotIs(slot'[g])
  <1>1. slot \in [Slots -> Handlers]  BY TypeParts DEF EnrollIndInv
  <1>2. ASSUME NEW g \in Slots PROVE slot'[g] \in Handlers /\ SlotIs(slot'[g])
    <2>1. slot[g] \in Handlers /\ SlotIs(slot[g])  BY <1>1, Zenon DEF EnrollIndInv
    <2>2. CASE slot[g].m # m
      <3>1. slot'[g] = slot[g]  BY <2>2 DEF Abandon
      <3> QED  BY <2>1, <3>1, Zenon
    <2>3. CASE slot[g].m = m /\ slot[g].step = "answer"
      <3>1. slot'[g] = Free  BY <2>3, Zenon DEF Abandon
      <3> QED  BY <3>1, FreeTyped
    <2>4. CASE slot[g].m = m /\ slot[g].step # "answer"
      <3>1. PICK q : q = [slot[g] EXCEPT !.m = None]  BY Zenon
      <3>2. slot'[g] = q  BY <2>4, <3>1 DEF Abandon
      <3>3. q \in Handlers  BY <2>1, <3>1 DEF Handlers
      <3>4. /\ q.step = slot[g].step /\ q.ident = slot[g].ident /\ q.m = None /\ q.answer = slot[g].answer
            /\ q.temp = slot[g].temp /\ q.pin = slot[g].pin
        BY <2>1, <3>1 DEF Handlers
      <3>5. SlotIs(q)  BY <2>1, <2>4, <3>4, Zenon DEF SlotIs
      <3> QED  BY <3>2, <3>3, <3>5, Zenon
    <2> QED  BY <2>2, <2>3, <2>4, Zenon
  <1>3. slot' \in [Slots -> Handlers]
    <2>1. PICK s : s = slot'  OBVIOUS
    <2>2. \A g \in Slots : s[g] \in Handlers  BY <1>2, <2>1
    <2>3. s = [g \in Slots |-> s[g]]  BY <2>1 DEF Abandon
    <2> QED  BY <2>1, <2>2, <2>3
  <1> QED  BY <1>2, <1>3

\* The parts of the invariant about machine m.
LEMMA MachineParts ==
    ASSUME EnrollIndInv, NEW m \in Machines
    PROVE  /\ TypeOK /\ DiskIs(m) /\ InstIs(m, inst[m])
           /\ disk \in [Machines -> Disks] /\ disk[m] \in Disks
           /\ inst \in [Machines -> Installers] /\ inst[m] \in Installers
           /\ gen \in [Machines -> 0..(MaxEvents + 1)] /\ gen[m] \in 0..(MaxEvents + 1)
           /\ slot \in [Slots -> Handlers] /\ \A g \in Slots : SlotIs(slot[g])
           /\ Known(m) \in Idents \cup {None}
           /\ events \in 0..MaxEvents /\ events \in Nat /\ MaxEvents \in Nat
  <1>1. TypeOK /\ DiskIs(m) /\ InstIs(m, inst[m]) /\ \A g \in Slots : SlotIs(slot[g])
    BY DEF EnrollIndInv
  <1>2. /\ disk \in [Machines -> Disks] /\ inst \in [Machines -> Installers]
        /\ gen \in [Machines -> 0..(MaxEvents + 1)] /\ slot \in [Slots -> Handlers]
        /\ events \in 0..MaxEvents
    BY <1>1, TypeParts
  <1>3. Known(m) \in Idents \cup {None}  BY <1>1, KnownTyped, Zenon
  <1> QED  BY <1>1, <1>2, <1>3, EnrollmentAssumption, SMTT(30)

LEMMA IdleTyped == Idle \in Installers /\ Idle.step = "idle" /\ Idle.try = 0
  BY DEF Idle, Installers, Attempts

\* An installer that is bound to what its machine knows goes idle, or sends again.
LEMMA Retires ==
    ASSUME EnrollIndInv, NEW m \in Machines, inst[m].step = "wait", NEW r \in {Idle, Retried(m)}
    PROVE  r \in Installers /\ InstIs(m, r)
  <1>1. /\ inst[m] \in Installers /\ InstIs(m, inst[m]) /\ Known(m) \in Idents \cup {None}
    BY MachineParts, Zenon
  <1>2. inst[m].ident \in Idents /\ inst[m].ident[1] = m /\ Known(m) = inst[m].ident  BY <1>1, Zenon DEF InstIs
  <1>3. Known(m) # None  BY <1>2, IdentTyped, Zenon
  <1>4. CASE r = Idle  BY <1>3, <1>4, IdleTyped, Zenon DEF InstIs
  <1>5. CASE inst[m].try < Attempts /\ r = [inst[m] EXCEPT !.step = "send"]
    <2>1. r \in Installers  BY <1>1, <1>5 DEF Installers
    <2>2. r.step = "send" /\ r.ident = inst[m].ident /\ r.try = inst[m].try  BY <1>1, <1>5 DEF Installers
    <2> QED  BY <1>2, <1>5, <2>1, <2>2 DEF InstIs
  <1> QED  BY <1>4, <1>5 DEF Retried

LEMMA BeginKeeps ==
    ASSUME EnrollIndInv, NEW m \in Machines, NEW pin \in SitePins \cup 1..issued, Begin(m, pin)
    PROVE  EnrollIndInv'
  <1>1. /\ TypeOK /\ DiskIs(m) /\ InstIs(m, inst[m])
        /\ disk \in [Machines -> Disks] /\ disk[m] \in Disks
        /\ inst \in [Machines -> Installers] /\ inst[m] \in Installers
        /\ gen \in [Machines -> 0..(MaxEvents + 1)] /\ gen[m] \in 0..(MaxEvents + 1)
        /\ slot \in [Slots -> Handlers] /\ \A g \in Slots : SlotIs(slot[g])
        /\ Known(m) \in Idents \cup {None}
        /\ events \in 0..MaxEvents /\ events \in Nat /\ MaxEvents \in Nat
    BY MachineParts, Zenon
  <1>2. PICK g : g = IF Known(m) = None THEN gen[m] + 1 ELSE gen[m]  OBVIOUS
  <1>3. PICK i : i = IF Known(m) = None THEN <<m, gen[m] + 1>> ELSE Known(m)  BY Zenon
  <1>4. PICK step : step = IF disk[m].config = None THEN "remember" ELSE "send"  OBVIOUS
  <1>5. PICK r : r = [Idle EXCEPT !.pin = pin, !.step = step, !.ident = i]  OBVIOUS
  <1>6. /\ gen' = [gen EXCEPT ![m] = g] /\ inst' = [inst EXCEPT ![m] = r]
        /\ UNCHANGED <<admin, table, disk, slot>> /\ inst[m].step = "idle"
    BY <1>2, <1>3, <1>4, <1>5, Zenon DEF Begin, Known
  <1>7. (events' = events \/ Event) /\ (disk[m].config = None => events' = events)
    BY DEF Begin
  <1>8. Known(m) = None => disk[m].config = None /\ gen[m] <= events
    <2>1. ASSUME disk[m].config # None PROVE Known(m) # None
      <3>1. disk[m].config \in Configs  BY <1>1, <2>1, Zenon DEF Disks
      <3>2. disk[m].config.ident \in Idents  BY <3>1, Zenon DEF Configs
      <3> QED  BY <2>1, <3>2, IdentTyped, Zenon DEF Known
    <2> QED  BY <1>1, <1>6, <2>1, Zenon DEF InstIs
  <1>9. g \in 0..(MaxEvents + 1) /\ g <= events + 1
    <2>1. CASE Known(m) = None  BY <1>1, <1>2, <1>8, <2>1, SMTT(30)
    <2>2. CASE Known(m) # None  BY <1>1, <1>2, <2>2, Zenon DEF DiskIs
    <2> QED  BY <2>1, <2>2
  <1>10. i \in Idents /\ i[1] = m
    <2>1. CASE Known(m) = None
      <3>1. gen[m] + 1 \in 1..(MaxEvents + 1)  BY <1>1, <1>8, <2>1, SMTT(30)
      <3> QED  BY <1>3, <2>1, <3>1, Zenon DEF Idents
    <2>2. CASE Known(m) # None  BY <1>1, <1>3, <2>2, Zenon DEF DiskIs
    <2> QED  BY <2>1, <2>2
  <1>11. pin \in Pins
    <2>1. issued \in 0..MaxPins /\ MaxPins \in Nat  BY <1>1, TypeParts, EnrollmentAssumption, Zenon
    <2>2. 1..issued \subseteq Temps  BY <2>1 DEF Temps
    <2> QED  BY <2>2 DEF Pins
  <1>12. r \in Installers /\ r.step = step /\ r.ident = i /\ r.try = 0
    <2>1. r = [step |-> step, ident |-> i, pin |-> pin, try |-> 0, node |-> None]  BY <1>5, Zenon DEF Idle
    <2>2. step \in {"remember", "send"}  BY <1>4
    <2>3. 0 \in 0..Attempts  BY DEF Attempts
    <2> QED  BY <1>10, <1>11, <2>1, <2>2, <2>3, Zenon DEF Installers
  <1>13. disk' = disk /\ slot' = slot /\ made' = made  BY <1>6 DEF table
  <1>14. Known(m)' = Known(m)  BY <1>13, Zenon DEF Known
  <1>15. events <= events' /\ events' \in Nat  BY <1>1, <1>7, SMTT(30) DEF Event
  <1>16. DiskIs(m)'
    <2>1. gen'[m] = g  BY <1>1, <1>6, Zenon
    <2>2. PICK e, f : e = events /\ f = events'  OBVIOUS
    <2>3. e \in Nat /\ f \in Nat /\ e <= f /\ g \in 0..(MaxEvents + 1) /\ g <= e + 1
      BY <1>1, <1>9, <1>15, <2>2, Zenon
    <2>4. g <= f + 1  BY <1>1, <2>3
    <2>5. gen'[m] <= events' + 1  BY <2>1, <2>2, <2>4
    <2> QED  BY <1>1, <1>13, <1>14, <2>5, Zenon DEF DiskIs, MadeFor
  <1>17. InstIs(m, r)'
    <2>1. CASE disk[m].config = None
      <3>1. disk[m].pending \in {None, i}  BY <1>3, <2>1, Zenon DEF Known
      <3> QED  BY <1>4, <1>10, <1>12, <1>13, <2>1, <3>1, SMTT(30) DEF InstIs, Attempts
    <2>2. CASE disk[m].config # None
      <3>1. Known(m) = i  BY <1>3, <1>8, <2>2, Zenon
      <3> QED  BY <1>4, <1>10, <1>12, <1>13, <1>14, <2>2, <3>1, SMTT(30) DEF InstIs, Attempts
    <2> QED  BY <2>1, <2>2
  <1>18. InstIs(m, inst[m])'
    <2>1. inst'[m] = r  BY <1>1, <1>6, Zenon
    <2> QED  BY <1>17, <2>1
  <1>19. inst' \in [Machines -> Installers] /\ gen' \in [Machines -> 0..(MaxEvents + 1)]
    BY <1>1, <1>6, <1>9, <1>12, Zenon
  <1>20. \A n \in Machines : n # m => disk'[n] = disk[n] /\ inst'[n] = inst[n] /\ gen'[n] = gen[n]
    BY <1>1, <1>6, <1>13, Zenon
  <1> QED  BY <1>1, <1>6, <1>7, <1>13, <1>14, <1>16, <1>18, <1>19, <1>20, ClientMoves, Zenon

\* An installer moves, and its machine's files stay as they are; one that dies has had its event.
LEMMA InstMoves ==
    ASSUME EnrollIndInv, NEW m \in Machines, NEW r \in Installers, inst' = [inst EXCEPT ![m] = r],
           UNCHANGED <<admin, table, disk, gen>>, events' = events \/ Event,
           InstIs(m, r) \/ (r = Idle /\ Event),
           slot' \in [Slots -> Handlers], \A g \in Slots : SlotIs(slot'[g])
    PROVE  EnrollIndInv'
  <1>1. /\ TypeOK /\ DiskIs(m) /\ InstIs(m, inst[m])
        /\ disk \in [Machines -> Disks] /\ disk[m] \in Disks
        /\ inst \in [Machines -> Installers] /\ inst[m] \in Installers
        /\ gen \in [Machines -> 0..(MaxEvents + 1)] /\ gen[m] \in 0..(MaxEvents + 1)
        /\ slot \in [Slots -> Handlers] /\ \A g \in Slots : SlotIs(slot[g])
        /\ Known(m) \in Idents \cup {None} /\ events \in Nat
    BY MachineParts, Zenon
  <1>2. UNCHANGED <<disk, gen, made>>  BY DEF table
  <1>3. events' \in Nat /\ events <= events'  BY <1>1 DEF Event
  <1>4. MadeKept  BY <1>2 DEF MadeKept
  <1>5. Known(m)' = Known(m)  BY <1>2, Zenon DEF Known
  <1>6. disk'[m] = disk[m] /\ gen'[m] = gen[m]  BY <1>2, Zenon
  <1>7. InstIs(m, r)'
    <2>1. CASE InstIs(m, r)  BY <1>1, <1>3, <1>4, <1>6, <2>1, InstRests, Zenon
    <2>2. CASE r = Idle /\ Event
      <3>1. events' = events + 1 /\ gen[m] <= events + 1  BY <1>1, <2>2, Zenon DEF Event, DiskIs
      <3>2. gen'[m] <= events'  BY <1>6, <3>1, Zenon
      <3> QED  BY <2>2, <3>2, IdleTyped, Zenon DEF InstIs
    <2> QED  BY <2>1, <2>2
  <1>8. InstIs(m, inst[m])'
    <2>1. inst'[m] = r  BY <1>1, Zenon
    <2> QED  BY <1>7, <2>1
  <1>9. DiskIs(m)'  BY <1>1, <1>3, <1>4, <1>6, DiskRests, Zenon
  <1>10. inst' \in [Machines -> Installers]  BY <1>1
  <1>11. \A n \in Machines : n # m => disk'[n] = disk[n] /\ inst'[n] = inst[n] /\ gen'[n] = gen[n]
    BY <1>1, <1>2, Zenon
  <1>12. disk' \in [Machines -> Disks] /\ gen' \in [Machines -> 0..(MaxEvents + 1)]  BY <1>1, <1>2, Zenon
  <1>13. UNCHANGED <<admin, table>>  OBVIOUS
  <1> QED  BY <1>5, <1>8, <1>9, <1>10, <1>11, <1>12, <1>13, ClientMoves, Zenon

LEMMA SendKeeps ==
    ASSUME EnrollIndInv, NEW m \in Machines, NEW h \in Slots, Send(m, h)
    PROVE  EnrollIndInv'
  <1>1. /\ TypeOK /\ DiskIs(m) /\ InstIs(m, inst[m])
        /\ disk \in [Machines -> Disks] /\ disk[m] \in Disks
        /\ inst \in [Machines -> Installers] /\ inst[m] \in Installers
        /\ gen \in [Machines -> 0..(MaxEvents + 1)] /\ gen[m] \in 0..(MaxEvents + 1)
        /\ slot \in [Slots -> Handlers] /\ \A g \in Slots : SlotIs(slot[g])
        /\ Known(m) \in Idents \cup {None} /\ events \in Nat
    BY MachineParts, Zenon
  <1>2. PICK r : r = [inst[m] EXCEPT !.step = "wait", !.try = inst[m].try + 1]  OBVIOUS
  <1>3. PICK q : q = [Free EXCEPT !.step = "arrived", !.m = m, !.ident = inst[m].ident, !.pin = inst[m].pin]
    OBVIOUS
  <1>4. inst' = [inst EXCEPT ![m] = r]  BY <1>1, <1>2 DEF Send, Installers
  <1>5. slot' = [slot EXCEPT ![h] = q] /\ inst[m].step = "send" /\ UNCHANGED <<admin, table, disk, gen, events>>
    BY <1>3 DEF Send
  <1>6. inst[m].ident \in Idents /\ inst[m].ident[1] = m /\ Known(m) = inst[m].ident /\ inst[m].try < Attempts
    BY <1>1, <1>5 DEF InstIs
  <1>7. inst[m].try + 1 \in 0..Attempts
    <2>1. PICK t : t = inst[m].try  OBVIOUS
    <2>2. t \in 0..Attempts /\ t < Attempts  BY <1>1, <1>6, <2>1, Zenon DEF Installers
    <2>3. t + 1 \in 0..Attempts  BY <2>2 DEF Attempts
    <2> QED  BY <2>1, <2>3
  <1>8. r \in Installers /\ r.step = "wait" /\ r.ident = inst[m].ident  BY <1>1, <1>2, <1>7, Zenon DEF Installers
  <1>9. InstIs(m, r)  BY <1>6, <1>8 DEF InstIs
  <1>10. inst[m].pin \in Pins \cup {None}  BY <1>1, Zenon DEF Installers
  <1>11. /\ q \in Handlers /\ q.step = "arrived" /\ q.m = m /\ q.ident = inst[m].ident /\ q.temp = None
         /\ q.answer = None
    BY <1>3, <1>6, <1>10, Zenon DEF Free, Handlers
  <1>12. SlotIs(q)  BY <1>6, <1>11, Zenon DEF SlotIs, AtWork
  <1>13. slot' \in [Slots -> Handlers] /\ \A g \in Slots : SlotIs(slot'[g])  BY <1>1, <1>5, <1>11, <1>12, Zenon
  <1> QED  BY <1>4, <1>5, <1>8, <1>9, <1>13, InstMoves, Zenon

LEMMA ReceiveKeeps ==
    ASSUME EnrollIndInv, NEW m \in Machines, NEW h \in Slots, Receive(m, h)
    PROVE  EnrollIndInv'
  <1>1. /\ TypeOK /\ DiskIs(m) /\ InstIs(m, inst[m])
        /\ disk \in [Machines -> Disks] /\ disk[m] \in Disks
        /\ inst \in [Machines -> Installers] /\ inst[m] \in Installers
        /\ gen \in [Machines -> 0..(MaxEvents + 1)] /\ gen[m] \in 0..(MaxEvents + 1)
        /\ slot \in [Slots -> Handlers] /\ \A g \in Slots : SlotIs(slot[g])
        /\ Known(m) \in Idents \cup {None} /\ events \in Nat
    BY MachineParts
  <1>2. /\ inst[m].step = "wait" /\ slot[h].step = "answer" /\ slot[h].m = m
        /\ slot' = [slot EXCEPT ![h] = Free] /\ UNCHANGED <<admin, table, disk, gen, events>>
    BY DEF Receive
  <1>3. slot' \in [Slots -> Handlers] /\ \A g \in Slots : SlotIs(slot'[g])  BY <1>1, <1>2, FreeTyped
  <1>4. PICK r : r = CASE slot[h].answer = "refused" -> Idle
                       [] slot[h].answer = "failed" -> Retried(m)
                       [] slot[h].answer = "enrolled" ->
                              [inst[m] EXCEPT !.step = "save", !.node = slot[h].node]
    OBVIOUS
  <1>5. inst' = [inst EXCEPT ![m] = r]  BY <1>4 DEF Receive
  <1>6. slot[h] \in Handlers /\ SlotIs(slot[h])  BY <1>1, Zenon
  <1>7. r \in Installers /\ InstIs(m, r)
    <2>1. CASE slot[h].answer \in {"refused", "failed"}
      <3>1. r \in {Idle, Retried(m)}  BY <1>4, <2>1
      <3> QED  BY <1>2, <3>1, Retires, Zenon
    <2>2. CASE slot[h].answer = "enrolled"
      <3>1. r = [inst[m] EXCEPT !.step = "save", !.node = slot[h].node]  BY <1>4, <2>2
      <3>2. MadeFor(slot[h].node, Known(m)) /\ slot[h].node \in Nat \cup {None}
        BY <1>2, <1>6, <2>2, Zenon DEF SlotIs, Handlers
      <3>3. r \in Installers /\ r.step = "save" /\ r.ident = inst[m].ident /\ r.node = slot[h].node
        BY <1>1, <3>1, <3>2, Zenon DEF Installers
      <3>4. inst[m].ident \in Idents /\ inst[m].ident[1] = m /\ Known(m) = inst[m].ident
        BY <1>1, <1>2, Zenon DEF InstIs
      <3> QED  BY <3>2, <3>3, <3>4, Zenon DEF InstIs
    <2>3. slot[h].answer # None  BY <1>2, <1>6, Zenon DEF SlotIs
    <2> QED  BY <1>6, <2>1, <2>2, <2>3, Zenon DEF Handlers
  <1> QED  BY <1>2, <1>3, <1>5, <1>7, InstMoves, Zenon

\* The client goes away, after a failed attempt or for good.
LEMMA GiveUpKeeps ==
    ASSUME EnrollIndInv, NEW m \in Machines, GiveUp(m) \/ Die(m)
    PROVE  EnrollIndInv'
  <1>1. Event /\ Abandon(m) /\ UNCHANGED <<admin, table, disk, gen>>  BY Zenon DEF GiveUp, Die
  <1>2. slot' \in [Slots -> Handlers] /\ \A g \in Slots : SlotIs(slot'[g])  BY <1>1, AbandonMoves
  <1>3. CASE GiveUp(m)
    <2>1. PICK r : r = Retried(m)  OBVIOUS
    <2>2. r \in Installers /\ InstIs(m, r)  BY <1>3, <2>1, Retires, Zenon DEF GiveUp
    <2>3. inst' = [inst EXCEPT ![m] = r]  BY <1>3, <2>1, Zenon DEF GiveUp
    <2> QED  BY <1>1, <1>2, <2>2, <2>3, InstMoves, Zenon
  <1>4. CASE Die(m)
    <2>1. inst' = [inst EXCEPT ![m] = Idle]  BY <1>4 DEF Die
    <2> QED  BY <1>1, <1>2, <2>1, IdleTyped, InstMoves, Zenon
  <1> QED  BY <1>3, <1>4

\* A file of the machine is written or removed; the identity it knows stays.
LEMMA FileMoves ==
    ASSUME EnrollIndInv, NEW m \in Machines, NEW r \in Installers, NEW d \in Disks,
           inst' = [inst EXCEPT ![m] = r], disk' = [disk EXCEPT ![m] = d],
           UNCHANGED <<admin, table, gen, slot, events>>,
           Known(m) # None => Known(m)' = Known(m), Known(m)' # None => Known(m)'[1] = m,
           d.config # None => MadeFor(d.config.node, d.config.ident), InstIs(m, r)'
    PROVE  EnrollIndInv'
  <1>1. /\ TypeOK /\ DiskIs(m) /\ InstIs(m, inst[m])
        /\ disk \in [Machines -> Disks] /\ disk[m] \in Disks
        /\ inst \in [Machines -> Installers] /\ inst[m] \in Installers
        /\ gen \in [Machines -> 0..(MaxEvents + 1)] /\ gen[m] \in 0..(MaxEvents + 1)
        /\ slot \in [Slots -> Handlers] /\ \A g \in Slots : SlotIs(slot[g])
        /\ Known(m) \in Idents \cup {None} /\ events \in Nat
    BY MachineParts
  <1>2. made' = made  BY Zenon DEF table
  <1>3. disk'[m] = d /\ inst'[m] = r /\ gen'[m] = gen[m] /\ events' = events  BY <1>1, Zenon
  <1>4. DiskIs(m)'  BY <1>1, <1>2, <1>3, Zenon DEF DiskIs, MadeFor
  <1>5. InstIs(m, inst[m])'  BY <1>3, Zenon
  <1>6. /\ disk' \in [Machines -> Disks] /\ inst' \in [Machines -> Installers]
        /\ gen' \in [Machines -> 0..(MaxEvents + 1)]
    BY <1>1, Zenon
  <1>7. \A n \in Machines : n # m => disk'[n] = disk[n] /\ inst'[n] = inst[n] /\ gen'[n] = gen[n]
    BY <1>1
  <1>8. slot' \in [Slots -> Handlers] /\ \A g \in Slots : SlotIs(slot'[g])  BY <1>1
  <1>9. UNCHANGED <<admin, table>> /\ events' = events  OBVIOUS
  <1> QED  BY <1>4, <1>5, <1>6, <1>7, <1>8, <1>9, ClientMoves, Zenon

LEMMA SavePendingKeeps ==
    ASSUME EnrollIndInv, NEW m \in Machines, SavePending(m)
    PROVE  EnrollIndInv'
  <1>1. /\ TypeOK /\ DiskIs(m) /\ InstIs(m, inst[m])
        /\ disk \in [Machines -> Disks] /\ disk[m] \in Disks
        /\ inst \in [Machines -> Installers] /\ inst[m] \in Installers
        /\ Known(m) \in Idents \cup {None}
    BY MachineParts, Zenon
  <1>2. inst[m].step = "remember" /\ UNCHANGED <<admin, table, gen, slot, events>>  BY DEF SavePending
  <1>3. PICK i : i = inst[m].ident  OBVIOUS
  <1>4. /\ i \in Idents /\ i[1] = m /\ i # None /\ inst[m].try < Attempts
        /\ disk[m].config = None /\ disk[m].pending \in {None, i}
    BY <1>1, <1>2, <1>3, IdentTyped, Zenon DEF InstIs
  <1>5. PICK d : d = [disk[m] EXCEPT !.pending = i]  BY Zenon
  <1>6. PICK r : r = [inst[m] EXCEPT !.step = "send"]  BY Zenon
  <1>7. disk' = [disk EXCEPT ![m] = d] /\ inst' = [inst EXCEPT ![m] = r]
    BY <1>1, <1>3, <1>5, <1>6 DEF SavePending
  <1>8. d \in Disks /\ d.config = None /\ d.pending = i  BY <1>1, <1>4, <1>5 DEF Disks
  <1>9. r \in Installers /\ r.step = "send" /\ r.ident = i /\ r.try = inst[m].try
    BY <1>1, <1>3, <1>6 DEF Installers
  <1>10. disk'[m] = d  BY <1>1, <1>7
  <1>11. Known(m)' = i  BY <1>8, <1>10, Zenon DEF Known
  <1>12. Known(m) # None => Known(m)' = Known(m)  BY <1>4, <1>11, Zenon DEF Known
  <1>13. InstIs(m, r)'  BY <1>4, <1>9, <1>11, Zenon DEF InstIs
  <1> QED  BY <1>2, <1>4, <1>7, <1>8, <1>9, <1>11, <1>12, <1>13, FileMoves, Zenon

LEMMA SaveConfigKeeps ==
    ASSUME EnrollIndInv, NEW m \in Machines, SaveConfig(m)
    PROVE  EnrollIndInv'
  <1>1. /\ TypeOK /\ DiskIs(m) /\ InstIs(m, inst[m])
        /\ disk \in [Machines -> Disks] /\ disk[m] \in Disks
        /\ inst \in [Machines -> Installers] /\ inst[m] \in Installers
        /\ Known(m) \in Idents \cup {None}
    BY MachineParts
  <1>2. inst[m].step = "save" /\ UNCHANGED <<admin, table, gen, slot, events>>  BY DEF SaveConfig
  <1>3. PICK i, n : i = inst[m].ident /\ n = inst[m].node  OBVIOUS
  <1>4. i \in Idents /\ i[1] = m /\ i # None /\ Known(m) = i /\ MadeFor(n, i)
    BY <1>1, <1>2, <1>3, IdentTyped DEF InstIs
  <1>5. PICK c : c = [ident |-> i, node |-> n]  BY Zenon
  <1>6. c \in Configs /\ c # None /\ c.ident = i /\ c.node = n
    <2>1. n \in Nat
      <3>1. made \in Seq(Idents)  BY <1>1, TypeParts, Zenon
      <3> QED  BY <1>4, <3>1, SMTT(30) DEF MadeFor
    <2>2. c \in Configs  BY <1>4, <1>5, <2>1, Zenon DEF Configs
    <2>3. c # None  BY <2>2, EnrollmentAssumption, Zenon
    <2> QED  BY <1>5, <2>2, <2>3, Zenon
  <1>7. PICK d : d = [disk[m] EXCEPT !.config = c]  BY Zenon
  <1>8. PICK r : r = [inst[m] EXCEPT !.step = "clean"]  BY Zenon
  <1>9. disk' = [disk EXCEPT ![m] = d] /\ inst' = [inst EXCEPT ![m] = r]
    BY <1>1, <1>3, <1>5, <1>7, <1>8 DEF SaveConfig
  <1>10. d \in Disks /\ d.config = c  BY <1>1, <1>6, <1>7 DEF Disks
  <1>11. r \in Installers /\ r.step = "clean" /\ r.ident = i /\ r.node = n
    BY <1>1, <1>3, <1>8 DEF Installers
  <1>12. disk'[m] = d  BY <1>1, <1>9
  <1>13. Known(m)' = i  BY <1>6, <1>10, <1>12, Zenon DEF Known
  <1>14. made' = made  BY <1>2 DEF table
  <1>15. InstIs(m, r)'
    <2>1. MadeFor(r.node, r.ident)'  BY <1>4, <1>11, <1>14, Zenon DEF MadeFor
    <2>2. disk'[m].config # None  BY <1>6, <1>10, <1>12, Zenon
    <2> QED  BY <1>4, <1>11, <1>13, <2>1, <2>2, Zenon DEF InstIs
  <1>16. MadeFor(d.config.node, d.config.ident)  BY <1>4, <1>6, <1>10, Zenon
  <1>17. (Known(m) # None => Known(m)' = Known(m)) /\ (Known(m)' # None => Known(m)'[1] = m)
    BY <1>4, <1>13
  <1> QED  BY <1>2, <1>9, <1>10, <1>11, <1>15, <1>16, <1>17, FileMoves, Zenon

LEMMA RemovePendingKeeps ==
    ASSUME EnrollIndInv, NEW m \in Machines, RemovePending(m)
    PROVE  EnrollIndInv'
  <1>1. /\ TypeOK /\ DiskIs(m) /\ InstIs(m, inst[m])
        /\ disk \in [Machines -> Disks] /\ disk[m] \in Disks
        /\ inst \in [Machines -> Installers] /\ inst[m] \in Installers
        /\ Known(m) \in Idents \cup {None}
    BY MachineParts
  <1>2. inst[m].step = "clean" /\ UNCHANGED <<admin, table, gen, slot, events>>  BY DEF RemovePending
  <1>3. disk[m].config # None  BY <1>1, <1>2 DEF InstIs
  <1>4. PICK d : d = [disk[m] EXCEPT !.pending = None]  BY Zenon
  <1>5. disk' = [disk EXCEPT ![m] = d] /\ inst' = [inst EXCEPT ![m] = Idle]
    BY <1>1, <1>4 DEF RemovePending
  <1>6. d \in Disks /\ d.config = disk[m].config  BY <1>1, <1>4 DEF Disks
  <1>7. disk'[m] = d  BY <1>1, <1>5, Zenon
  <1>8. Known(m)' = Known(m)  BY <1>3, <1>6, <1>7, Zenon DEF Known
  <1>9. Known(m) # None /\ Known(m)[1] = m
    <2>1. disk[m].config \in Configs  BY <1>1, <1>3, Zenon DEF Disks
    <2>2. disk[m].config.ident \in Idents  BY <2>1, Zenon DEF Configs
    <2>3. Known(m) # None  BY <1>3, <2>2, IdentTyped, Zenon DEF Known
    <2> QED  BY <1>1, <2>3, Zenon DEF DiskIs
  <1>10. Known(m)' # None  BY <1>8, <1>9
  <1>11. InstIs(m, Idle)'  BY <1>10, IdleTyped, Zenon DEF InstIs
  <1>12. MadeFor(d.config.node, d.config.ident)  BY <1>1, <1>3, <1>6, Zenon DEF DiskIs
  <1>13. (Known(m) # None => Known(m)' = Known(m)) /\ (Known(m)' # None => Known(m)'[1] = m)
    BY <1>8, <1>9, Zenon
  <1> QED  BY <1>2, <1>5, <1>6, <1>11, <1>12, <1>13, IdleTyped, FileMoves, Zenon

\* The steps of an installer.
LEMMA InstallKeeps ==
    ASSUME EnrollIndInv, NEW m \in Machines, Install(m)
    PROVE  EnrollIndInv'
  <1>1. ASSUME NEW pin \in SitePins \cup 1..issued, Begin(m, pin) PROVE EnrollIndInv'  BY <1>1, BeginKeeps
  <1>2. CASE SavePending(m)  BY <1>2, SavePendingKeeps
  <1>3. CASE SaveConfig(m)  BY <1>3, SaveConfigKeeps
  <1>4. CASE RemovePending(m)  BY <1>4, RemovePendingKeeps
  <1>5. ASSUME NEW h \in Slots, Send(m, h) \/ Receive(m, h) PROVE EnrollIndInv'
    BY <1>5, SendKeeps, ReceiveKeeps, Zenon
  <1>6. CASE GiveUp(m) \/ Die(m)  BY <1>6, GiveUpKeeps
  <1> QED  BY <1>1, <1>2, <1>3, <1>4, <1>5, <1>6, Zenon DEF Install

LEMMA EnrollStep == EnrollIndInv /\ [Next]_vars => EnrollIndInv'
  <1> SUFFICES ASSUME EnrollIndInv, [Next]_vars PROVE EnrollIndInv'  OBVIOUS
  <1>1. ASSUME NEW m \in Machines, Install(m) PROVE EnrollIndInv'  BY <1>1, InstallKeeps
  <1>2. ASSUME NEW h \in Slots, Handle(h) PROVE EnrollIndInv'  BY <1>2, HandleKeeps
  <1>3. CASE Administer  BY <1>3, AdministerKeeps
  <1>4. CASE UNCHANGED vars
    <2>1. TypeOK'  BY <1>4 DEF EnrollIndInv, TypeOK, vars, admin, table, client
    <2>2. (MadeForKnown /\ NodesApart /\ OlderRevoked /\ PinBuysOneNode)'
      BY <1>4, Zenon DEF EnrollIndInv, MadeForKnown, NodesApart, OlderRevoked, PinBuysOneNode, Known, vars,
                  admin, table, client
    <2>3. \A m \in Machines : (DiskIs(m) /\ InstIs(m, inst[m]))'
      BY <1>4, Zenon DEF EnrollIndInv, DiskIs, InstIs, MadeFor, Known, vars, admin, table, client
    <2>4. \A h \in Slots : (SlotIs(slot[h]))'
      BY <1>4, ZenonT(30) DEF EnrollIndInv, SlotIs, MadeFor, Known, vars, admin, table, client
    <2> QED  BY <2>1, <2>2, <2>3, <2>4, Zenon DEF EnrollIndInv
  <1> QED  BY <1>1, <1>2, <1>3, <1>4 DEF Next

LEMMA EnrollInitially == Init => EnrollIndInv
  <1> SUFFICES ASSUME Init PROVE EnrollIndInv  OBVIOUS
  <1>1. TypeOK
    <2>1. disk \in [Machines -> [config: Configs \cup {None}, pending: Idents \cup {None}]]
      BY Zenon DEF Init
    <2>2. 0 \in 0..(MaxEvents + 1) /\ 0 \in 0..MaxPins /\ 0 \in 0..MaxEvents  BY EnrollmentAssumption
    <2>3. gen \in [Machines -> 0..(MaxEvents + 1)] /\ issued \in 0..MaxPins /\ events \in 0..MaxEvents
      BY <2>2, Zenon DEF Init
    <2>4. inst \in [Machines -> Installers]  BY IdleTyped, Zenon DEF Init
    <2>5. slot \in [Slots -> Handlers]  BY FreeTyped DEF Init
    <2>6. /\ temps \in [Temps -> [revoked: BOOLEAN, expired: BOOLEAN, claim: Idents \cup {None}]]
          /\ admitted \in [Temps -> SUBSET Idents] /\ revoking \in Temps \cup {None} /\ site \in SitePins
      BY Zenon DEF Init
    <2>7. made \in Seq(Idents) /\ nodes \subseteq DOMAIN made  BY SMTT(30) DEF Init
    <2> QED  BY <2>1, <2>3, <2>4, <2>5, <2>6, <2>7 DEF TypeOK, Installers, Handlers
  <1>2. MadeForKnown /\ NodesApart  BY SMTT(30) DEF Init, MadeForKnown, NodesApart
  <1>3. OlderRevoked
    <2>1. \A k \in Temps : ~(k < issued)  BY EnrollmentAssumption, SMTT(30) DEF Init, Temps
    <2> QED  BY <2>1 DEF OlderRevoked
  <1>4. PinBuysOneNode  BY Zenon DEF Init, PinBuysOneNode
  <1>5. ASSUME NEW m \in Machines PROVE DiskIs(m) /\ InstIs(m, inst[m])
    <2>1. disk[m].config = None /\ disk[m].pending = None /\ gen[m] = 0 /\ inst[m] = Idle /\ events = 0
      BY Zenon DEF Init
    <2>2. Known(m) = None  BY <2>1, Zenon DEF Known
    <2> QED  BY <2>1, <2>2, IdleTyped, SMTT(30) DEF DiskIs, InstIs
  <1>6. ASSUME NEW h \in Slots PROVE SlotIs(slot[h])
    <2>1. slot[h] = Free  BY Zenon DEF Init
    <2> QED  BY <2>1, FreeTyped, Zenon
  <1> QED  BY <1>1, <1>2, <1>3, <1>4, <1>5, <1>6 DEF EnrollIndInv

LEMMA EnrollFollow == EnrollIndInv => OwnNode
  <1> SUFFICES ASSUME EnrollIndInv PROVE OwnNode  OBVIOUS
  <1>1. TypeOK /\ MadeForKnown /\ NodesApart /\ PinBuysOneNode  BY DEF EnrollIndInv
  <1>2. OneNodePerMachine
    <2> SUFFICES ASSUME NEW a \in nodes, NEW b \in nodes, made[a][1] = made[b][1] PROVE a = b
      BY Zenon DEF OneNodePerMachine
    <2>1. a \in DOMAIN made /\ b \in DOMAIN made  BY <1>1, TypeParts, Zenon
    <2>2. made[a] = made[b]  BY <1>1, <2>1, Zenon DEF MadeForKnown
    <2> QED  BY <1>1, <2>2, Zenon DEF NodesApart
  <1>3. ConfigNamesNode  BY Zenon DEF EnrollIndInv, DiskIs, MadeFor, ConfigNamesNode
  <1> QED  BY <1>1, <1>2, <1>3 DEF OwnNode

-----------------------------------------------------------------------------
\* Only a handler's transaction admits an identity.
LEMMA OnlyEnrollAdmits ==
    ASSUME Next, admitted' # admitted
    PROVE  \E h \in Slots : EnrollNew(h)
  <1>1. ASSUME NEW m \in Machines, Install(m) PROVE FALSE
    BY <1>1, Zenon DEF Install, Begin, SavePending, SaveConfig, RemovePending, Send, Receive, GiveUp, Die, table
  <1>2. CASE Administer
    BY <1>2 DEF Administer, CreateTemporaryPin, RevokeRead, RevokeWrite, Expire, RotatePin, DeleteNode, table
  <1>3. ASSUME NEW h \in Slots, Handle(h) PROVE EnrollNew(h)
    BY <1>3, Zenon DEF Handle, Admit, TurnAway, Fail, PinUnread, CheckSitePin, CheckTemporaryPin, EnrollExisting,
                EnrollUnavailable, table
  <1> QED  BY <1>1, <1>2, <1>3, Zenon DEF Next

LEMMA RevokedStep ==
    ASSUME EnrollIndInv, Next
    PROVE  RevokedMakesNoNode
  <1> SUFFICES ASSUME NEW j \in Temps, admitted'[j] # admitted[j]
               PROVE  ~temps[j].revoked /\ j = issued
    BY Zenon DEF RevokedMakesNoNode
  <1>1. PICK h \in Slots : EnrollNew(h)  BY OnlyEnrollAdmits
  <1>2. TypeOK /\ OlderRevoked /\ SlotIs(slot[h])  BY Zenon DEF EnrollIndInv
  <1>3. PICK k : k = slot[h].temp  BY Zenon
  <1>4. k # None
    <2>1. k = None => admitted' = admitted  BY <1>1, <1>3 DEF EnrollNew
    <2> QED  BY <2>1
  <1>5. j = k
    <2>1. PICK new : admitted' = [admitted EXCEPT ![k] = admitted[k] \cup {new}]
      BY <1>1, <1>3, <1>4, Zenon DEF EnrollNew
    <2> QED  BY <1>2, <2>1, Zenon DEF TypeOK
  <1>6. ~temps[j].revoked  BY <1>1, <1>3, <1>4, <1>5, Zenon DEF EnrollNew, Claimable
  <1>7. j <= issued  BY <1>2, <1>3, <1>4, <1>5 DEF SlotIs
  <1>8. ~(j < issued)  BY <1>2, <1>6, Zenon DEF OlderRevoked
  <1>9. j \in Nat /\ issued \in Nat  BY <1>2, SMTT(30) DEF TypeOK, Temps
  <1> QED  BY <1>6, <1>7, <1>8, <1>9

\* A request that is being worked on is refused only by its own handler, unless an event happens.
LEMMA OnlyHandlerRefuses ==
    ASSUME EnrollIndInv, Next, NEW h \in Slots, events' = events, slot[h].step \in {"temp", "enroll"},
           slot'[h].answer = "refused"
    PROVE  CheckTemporaryPin(h) \/ EnrollUnavailable(h)
  <1>1. TypeOK /\ slot \in [Slots -> Handlers] /\ slot[h] \in Handlers /\ SlotIs(slot[h]) /\ events \in Nat
    <2>1. TypeOK /\ SlotIs(slot[h])  BY Zenon DEF EnrollIndInv
    <2>2. slot \in [Slots -> Handlers] /\ events \in 0..MaxEvents  BY <2>1, TypeParts, Zenon
    <2> QED  BY <2>1, <2>2, SMTT(30)
  <1>2. slot[h].answer # "refused"  BY <1>1, EnrollmentAssumption, Zenon DEF SlotIs, AtWork
  <1>3. slot'[h] # slot[h] /\ slot' # slot  BY <1>2, Zenon
  <1>4. ~Event  BY <1>1 DEF Event
  <1>5. ASSUME NEW m \in Machines, Install(m) PROVE FALSE
    <2>1. PICK g \in Slots : Send(m, g) \/ Receive(m, g)
      BY <1>3, <1>4, <1>5, Zenon DEF Install, Begin, SavePending, SaveConfig, RemovePending, GiveUp, Die
    <2>2. slot[g].step \in {"free", "answer"} /\ \E q : slot' = [slot EXCEPT ![g] = q]
      BY <2>1 DEF Send, Receive
    <2>3. g # h  BY <2>2
    <2> QED  BY <1>1, <1>3, <2>2, <2>3
  <1>6. CASE Administer
    BY <1>3, <1>6 DEF Administer, CreateTemporaryPin, RevokeRead, RevokeWrite, Expire, RotatePin, DeleteNode
  <1>7. ASSUME NEW g \in Slots, Handle(g) PROVE CheckTemporaryPin(h) \/ EnrollUnavailable(h)
    <2>1. Admit(g) \/ CheckSitePin(g) \/ CheckTemporaryPin(g) \/ EnrollExisting(g) \/ EnrollNew(g) \/ EnrollUnavailable(g)
      BY <1>4, <1>7 DEF Handle, TurnAway, Fail, PinUnread
    <2>2. g = h
      <3>1. \A n \in Slots : n # g => slot'[n] = slot[n]
        BY <1>1, <2>1, Zenon DEF Admit, CheckSitePin, CheckTemporaryPin, EnrollExisting, EnrollNew,
                          EnrollUnavailable, Answer
      <3> QED  BY <1>3, <3>1, Zenon
    <2>3. ~Admit(h) /\ ~CheckSitePin(h)  BY DEF Admit, CheckSitePin
    <2>4. ASSUME NEW n \in Nat \cup {None}, Answer(h, "enrolled", n) PROVE FALSE
      <3>1. PICK q \in Handlers : slot' = [slot EXCEPT ![h] = q] /\ (q = Free \/ q.answer = "enrolled")
        BY <1>1, <2>4, AnswerIs, SMTT(30)
      <3>2. slot'[h] = q  BY <1>1, <3>1, Zenon
      <3> QED  BY <3>1, <3>2, FreeTyped, EnrollmentAssumption, Zenon
    <2>5. ~EnrollExisting(h)
      <3> SUFFICES ASSUME EnrollExisting(h) PROVE FALSE  BY Zenon
      <3>1. PICK n \in nodes : Answer(h, "enrolled", n)  BY Zenon DEF EnrollExisting
      <3>2. n \in Nat  BY <1>1, TypeParts, SMTT(30)
      <3> QED  BY <2>4, <3>1, <3>2, Zenon
    <2>6. ~EnrollNew(h)
      <3> SUFFICES ASSUME EnrollNew(h) PROVE FALSE  OBVIOUS
      <3>1. Answer(h, "enrolled", Len(made')) /\ made' = Append(made, slot[h].ident)  BY DEF EnrollNew
      <3>2. slot[h].ident \in Idents /\ made \in Seq(Idents)  BY <1>1, TypeParts, Zenon DEF SlotIs, AtWork
      <3>3. Len(made') \in Nat  BY <3>1, <3>2, SMTT(30)
      <3> QED  BY <2>4, <3>1, <3>3, Zenon
    <2> QED  BY <2>1, <2>2, <2>3, <2>5, <2>6, Zenon
  <1> QED  BY <1>5, <1>6, <1>7, Zenon DEF Next

LEMMA RetryStep ==
    ASSUME EnrollIndInv, Next
    PROVE  RetryIsAdmitted
  <1> SUFFICES ASSUME NEW h \in Slots, events' = events, slot[h].step \in {"temp", "enroll"},
                      slot'[h].answer = "refused", slot[h].pin \in 1..issued,
                      temps[slot[h].pin].claim = slot[h].ident,
                      ~temps[slot[h].pin].revoked, slot[h].pin \notin slot[h].dead
               PROVE  FALSE
    BY Zenon DEF RetryIsAdmitted
  <1>1. TypeOK /\ OlderRevoked /\ SlotIs(slot[h]) /\ slot[h] \in Handlers /\ slot \in [Slots -> Handlers]
    BY TypeParts, Zenon DEF EnrollIndInv
  <1>2. CASE EnrollUnavailable(h)
    BY <1>1, <1>2, Zenon DEF EnrollUnavailable, Claimable, SlotIs
  <1>3. CASE CheckTemporaryPin(h)
    <2>1. PICK k : k = ActiveTemporaryEnrollmentPIN(slot[h].dead)  BY Zenon
    <2>2. PICK pin : pin = slot[h].pin  BY Zenon
    <2>3. pin \in Temps /\ pin # None
      BY <1>1, <2>2, EnrollmentAssumption, SMTT(30) DEF TypeOK, Temps
    <2>4. temps[pin].revoked = FALSE  BY <1>1, <2>2, <2>3, Zenon DEF TypeOK
    <2>5. k = pin
      <3>1. PICK dead : dead = slot[h].dead  BY Zenon
      <3>2. pin \in 1..issued /\ pin \notin dead  BY <2>2, <3>1, Zenon
      <3>3. k = ActiveTemporaryEnrollmentPIN(dead)  BY <2>1, <3>1, Zenon
      <3>4. \A j \in 1..issued : temps[j].revoked = FALSE /\ j \notin dead => k = j
        BY <1>1, <3>3, ActiveIsNewest, Zenon
      <3> QED  BY <2>4, <3>2, <3>4, Zenon
    <2>6. slot' = [slot EXCEPT ![h].step = "enroll", ![h].temp = k]
      BY <1>3, <2>1, <2>2, <2>3, <2>5 DEF CheckTemporaryPin
    <2>7. slot'[h].answer = slot[h].answer  BY <1>1, <2>6 DEF Handlers
    <2> QED  BY <1>1, <2>7, EnrollmentAssumption, Zenon DEF SlotIs, AtWork
  <1> QED  BY <1>2, <1>3, OnlyHandlerRefuses, Zenon

-----------------------------------------------------------------------------
\* For any number of machines, installers and requests: a machine has one node, the one its
\* config file names, and a temporary PIN admits one machine (Run, EnrollNode and
\* claimTemporaryEnrollmentPIN), through lost answers, repeated attempts and crashes.
THEOREM MachinesOwnTheirNode == Spec => []OwnNode
  <1>1. EnrollIndInv => OwnNode  BY EnrollFollow
  <1> QED  BY <1>1, EnrollInitially, EnrollStep, PTL DEF Spec

\* No step makes a node with a temporary PIN that is revoked or replaced, and none refuses the
\* machine that spent the PIN in force: authorizeEnrollmentPIN and the claim agree, whatever the
\* administrator does between them.
THEOREM TemporaryPinIsHonoured == Spec => PinHonoured
  <1>1. EnrollIndInv /\ [Next]_vars => [RevokedMakesNoNode /\ RetryIsAdmitted]_vars
    BY RevokedStep, RetryStep
  <1> QED  BY <1>1, EnrollInitially, EnrollStep, PTL DEF Spec, PinHonoured
=============================================================================
