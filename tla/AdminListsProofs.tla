-------------------------- MODULE AdminListsProofs --------------------------
(***************************************************************************)
(* A list of the console comes to what the server stores, for any items,   *)
(* writes and requests in flight.  The property is about a list with       *)
(* nothing in flight; the strengthening is about the answers on their way. *)
(* The last one about an item says what is stored, and none of them finds  *)
(* a listed item missing unless it was removed: an answer that replaces an *)
(* item would be dropped otherwise, and the list would stay behind.        *)
(***************************************************************************)
EXTENDS AdminLists, TLAPS

\* An answer about item i; one that may put it into the list; one that does not take it out.
About(a, i) == a.of = i \/ a.of = "all"
Bears(a, i) == a.then \in {"list", "push", "replace"} /\ a.is[i] # 0
Spares(a, i) == a.then = "reload" \/ Bears(a, i)

\* The answer leaves the list with v for item i, or has it read again.
Agrees(a, i, v) ==
    \/ a.then = "reload"
    \/ a.then = "drop" /\ v = 0
    \/ a.then \in {"list", "push", "replace"} /\ a.is[i] = v

ListsTyped ==
    /\ section \in Sections /\ stored \in [Items -> 0..Gone] /\ listed \in [Items -> 0..MaxWrites]
    /\ loadsSent \in [BOOLEAN -> Nat] /\ InFlight <= MaxInFlight
    /\ answers \in Seq(Answer)
    /\ busy \in BOOLEAN /\ disordered \in BOOLEAN /\ lost \in BOOLEAN

\* An answer that is merged is about one item, and a saved item is there.
MergesOne ==
    \A k \in 1..Len(answers) :
        /\ answers[k].then \in Merges => answers[k].of \in Items
        /\ answers[k].then = "list" => answers[k].of = "all"
        /\ answers[k].then \in {"push", "replace"} => answers[k].is[answers[k].of] # 0

\* What is listed, or on its way into the list, was stored.
ListedWasStored ==
    \A i \in Items :
        /\ listed[i] # 0 => stored[i] # 0
        /\ \A k \in 1..Len(answers) : About(answers[k], i) /\ Bears(answers[k], i) => stored[i] # 0

\* An item that is there in one answer is there in the later ones, unless it was removed.
StaysInAnswers ==
    \A i \in Items : stored[i] # Gone =>
        \A k, j \in 1..Len(answers) :
            k < j /\ About(answers[k], i) /\ Bears(answers[k], i) /\ About(answers[j], i)
                => Spares(answers[j], i)

\* No answer takes a listed item out of the list, unless it was removed, and an answer that
\* replaces an item finds it in the list.
StaysInList ==
    disordered = FALSE =>
        \A i \in Items : stored[i] # Gone =>
            \A k \in 1..Len(answers) :
                /\ listed[i] # 0 /\ About(answers[k], i) => Spares(answers[k], i)
                /\ answers[k].then = "replace" /\ answers[k].of = i => listed[i] # 0

\* The last answer about an item says what is stored; without one the list does.
LastAgrees ==
    disordered = FALSE /\ lost = FALSE /\ loadsSent[TRUE] = 0 /\ loadsSent[FALSE] = 0 =>
        \A i \in Items :
            /\ (\A k \in 1..Len(answers) : ~About(answers[k], i)) => listed[i] = Listing[i]
            /\ \A k \in 1..Len(answers) :
                 About(answers[k], i) /\ (\A j \in (k + 1)..Len(answers) : ~About(answers[j], i))
                     => Agrees(answers[k], i, Listing[i])

ListsIndInv ==
    /\ ListsTyped /\ MergesOne /\ ListedWasStored /\ StaysInAnswers /\ StaysInList /\ LastAgrees

\* Two sequences one after the other.
LEMMA Joined ==
    ASSUME NEW S, NEW f \in Seq(S), NEW b \in Seq(S)
    PROVE  /\ f \o b \in Seq(S) /\ Len(f \o b) = Len(f) + Len(b)
           /\ \A j \in 1..Len(f) : (f \o b)[j] = f[j]
           /\ \A j \in (Len(f) + 1)..(Len(f) + Len(b)) : (f \o b)[j] = b[j - Len(f)]
  <1>1. f \o b \in Seq(S)  OBVIOUS
  <1>2. Len(f \o b) = Len(f) + Len(b)  OBVIOUS
  <1>3. \A j \in 1..Len(f) : (f \o b)[j] = f[j]  OBVIOUS
  <1>4. \A j \in (Len(f) + 1)..(Len(f) + Len(b)) : (f \o b)[j] = b[j - Len(f)]  OBVIOUS
  <1> QED  BY <1>1, <1>2, <1>3, <1>4

\* The answers that remain when the k-th is taken.
LEMMA WithoutFacts ==
    ASSUME NEW S, answers \in Seq(S), NEW k \in 1..Len(answers)
    PROVE  /\ Without(k) \in Seq(S) /\ Len(Without(k)) = Len(answers) - 1
           /\ \A j \in 1..(Len(answers) - 1) :
                Without(k)[j] = IF j < k THEN answers[j] ELSE answers[j + 1]
  <1> DEFINE front == SubSeq(answers, 1, k - 1)
             back == SubSeq(answers, k + 1, Len(answers))
  <1>1. front \in Seq(S) /\ Len(front) = k - 1 /\ \A j \in 1..(k - 1) : front[j] = answers[j]
    OBVIOUS
  <1>2. /\ back \in Seq(S) /\ Len(back) = Len(answers) - k
        /\ \A j \in 1..(Len(answers) - k) : back[j] = answers[k + j]
    OBVIOUS
  <1>3. Without(k) = front \o back  BY DEF Without
  <1> HIDE DEF front, back
  <1>4. /\ front \o back \in Seq(S) /\ Len(front \o back) = Len(front) + Len(back)
        /\ \A j \in 1..Len(front) : (front \o back)[j] = front[j]
        /\ \A j \in (Len(front) + 1)..(Len(front) + Len(back)) : (front \o back)[j] = back[j - Len(front)]
    BY <1>1, <1>2, Joined, ZenonT(30)
  <1>5. ASSUME NEW j \in 1..(Len(answers) - 1)
        PROVE  Without(k)[j] = IF j < k THEN answers[j] ELSE answers[j + 1]
    <2>1. CASE j < k  BY <1>1, <1>3, <1>4, <2>1
    <2>2. CASE ~(j < k)
      <3>1. j - Len(front) \in 1..(Len(answers) - k)  BY <1>1, <2>2
      <3>2. (front \o back)[j] = back[j - Len(front)]  BY <1>1, <1>2, <1>4, <2>2, SMTT(30)
      <3>3. back[j - Len(front)] = answers[k + (j - Len(front))]  BY <1>2, <3>1, Zenon
      <3>4. k + (j - Len(front)) = j + 1  BY <1>1
      <3> QED  BY <1>3, <2>2, <3>2, <3>3, <3>4
    <2> QED  BY <2>1, <2>2
  <1> QED  BY <1>1, <1>2, <1>3, <1>4, <1>5, SMTT(30)

----------------------------------------------------------------------------
\* Nothing is listed, and the first read is awaited.
LEMMA ListsInitially == ListsInit => ListsIndInv
  <1> SUFFICES ASSUME ListsInit PROVE ListsIndInv  OBVIOUS
  <1> USE ListsAssumption
  <1>1. answers = <<>> /\ Len(answers) = 0 /\ loadsSent[TRUE] = 0 /\ loadsSent[FALSE] = 1
        /\ loadsSent \in [BOOLEAN -> Nat]
    BY DEF ListsInit
  <1>2. stored \in [Items -> 0..Gone] /\ listed \in [Items -> 0..MaxWrites] /\ \A i \in Items : listed[i] = 0
    BY DEF ListsInit, Gone
  <1>3. InFlight <= MaxInFlight  BY <1>1 DEF InFlight
  <1>4. answers \in Seq(Answer)  BY <1>1
  <1>5. section \in Sections /\ busy \in BOOLEAN /\ disordered \in BOOLEAN /\ lost \in BOOLEAN
    BY Zenon DEF ListsInit
  <1>6. ListsTyped  BY <1>1, <1>2, <1>3, <1>4, <1>5 DEF ListsTyped
  <1>7. MergesOne /\ ListedWasStored /\ StaysInAnswers /\ StaysInList
    BY <1>1, <1>2 DEF MergesOne, ListedWasStored, StaysInAnswers, StaysInList
  <1>8. LastAgrees
    <2>1. loadsSent[FALSE] # 0  BY <1>1
    <2> QED  BY <2>1, Zenon DEF LastAgrees
  <1> QED  BY <1>6, <1>7, <1>8 DEF ListsIndInv

\* The server serves a request: its answer, of what is stored by then, is the last.
LEMMA ServedKeeps ==
    ASSUME ListsIndInv, NEW a \in Answer, answers' = Append(answers, a),
           UNCHANGED <<section, listed, disordered, lost>>,
           stored' \in [Items -> 0..Gone], busy' \in BOOLEAN,
           loadsSent' \in [BOOLEAN -> Nat], InFlight' <= MaxInFlight,
           loadsSent' = loadsSent \/ a.then = "list",
           a.then \in Merges => a.of \in Items, a.then = "list" => a.of = "all",
           a.then \in {"push", "replace"} => a.is[a.of] # 0,
           a.then = "replace" => listed[a.of] # 0,
           \A i \in Items : /\ stored[i] # 0 => stored'[i] # 0
                            /\ stored'[i] # Gone => stored[i] # Gone
                            /\ About(a, i) => Agrees(a, i, Listing'[i])
                            /\ About(a, i) /\ Bears(a, i) => stored'[i] # 0
                            /\ About(a, i) /\ stored[i] # 0 /\ stored'[i] # Gone => Spares(a, i)
                            /\ ~About(a, i) => stored'[i] = stored[i]
    PROVE  ListsIndInv'
  <1> DEFINE n == Len(answers)
  <1>1. /\ ListsTyped /\ MergesOne /\ ListedWasStored /\ StaysInAnswers /\ StaysInList /\ LastAgrees
    BY DEF ListsIndInv
  <1>2. n \in Nat /\ answers \in Seq(Answer)  BY <1>1 DEF ListsTyped
  <1>3. /\ answers' \in Seq(Answer) /\ Len(answers') = n + 1 /\ answers'[n + 1] = a
        /\ \A k \in 1..n : answers'[k] = answers[k]
    BY <1>2
  <1>4. \A k \in 1..(n + 1) : k \in 1..n \/ k = n + 1  BY <1>2
  <1> HIDE DEF n
  <1>5. ListsTyped'  BY <1>1, <1>3 DEF ListsTyped
  <1>6. MergesOne'
    BY <1>1, <1>3, <1>4 DEF MergesOne, n
  <1>7. ListedWasStored'
    BY <1>1, <1>3, <1>4 DEF ListedWasStored, n
  <1>8. StaysInAnswers'
    <2> SUFFICES ASSUME NEW i \in Items, stored'[i] # Gone, NEW k \in 1..(n + 1), NEW j \in 1..(n + 1),
                        k < j, About(answers'[k], i), Bears(answers'[k], i), About(answers'[j], i)
                 PROVE  Spares(answers'[j], i)
      BY <1>3, Zenon DEF StaysInAnswers
    <2>1. k \in 1..n /\ answers'[k] = answers[k]  BY <1>2, <1>3
    <2>2. CASE j \in 1..n
      BY <1>1, <1>3, <2>1, <2>2, Zenon DEF StaysInAnswers, n
    <2>3. CASE j = n + 1
      <3>1. stored[i] # 0  BY <1>1, <2>1 DEF ListedWasStored, n
      <3> QED  BY <1>3, <2>3, <3>1
    <2> QED  BY <1>4, <2>2, <2>3, Zenon
  <1>9. StaysInList'
    <2> SUFFICES ASSUME disordered = FALSE, NEW i \in Items, stored'[i] # Gone, NEW k \in 1..(n + 1)
                 PROVE  /\ listed[i] # 0 /\ About(answers'[k], i) => Spares(answers'[k], i)
                        /\ answers'[k].then = "replace" /\ answers'[k].of = i => listed[i] # 0
      BY <1>3, ZenonT(30) DEF StaysInList
    <2>1. CASE k \in 1..n
      BY <1>1, <1>3, <2>1 DEF StaysInList, n
    <2>2. CASE k = n + 1
      <3>1. listed[i] # 0 => stored[i] # 0  BY <1>1 DEF ListedWasStored
      <3> QED  BY <1>3, <2>2, <3>1, Zenon
    <2> QED  BY <1>4, <2>1, <2>2, Zenon
  <1>10. LastAgrees'
    <2> SUFFICES ASSUME disordered = FALSE, lost = FALSE, loadsSent'[TRUE] = 0, loadsSent'[FALSE] = 0,
                        NEW i \in Items
                 PROVE  /\ (\A k \in 1..(n + 1) : ~About(answers'[k], i)) => listed[i] = Listing'[i]
                        /\ \A k \in 1..(n + 1) :
                             About(answers'[k], i)
                             /\ (\A j \in (k + 1)..(n + 1) : ~About(answers'[j], i))
                                 => Agrees(answers'[k], i, Listing'[i])
      BY <1>3, Zenon DEF LastAgrees
    <2>1. CASE About(a, i)
      <3>1. n + 1 \in 1..(n + 1)  BY <1>2
      <3>2. \A k \in 1..n : n + 1 \in (k + 1)..(n + 1)  BY <1>2
      <3> QED  BY <1>3, <1>4, <2>1, <3>1, <3>2
    <2>2. CASE ~About(a, i)
      <3>1. loadsSent' = loadsSent  BY <2>2 DEF About
      <3>2. Listing'[i] = Listing[i]  BY <2>2 DEF Listing
      <3>3. (\A k \in 1..n : ~About(answers[k], i)) => listed[i] = Listing[i]
        BY <1>1, <3>1 DEF LastAgrees, n
      <3>4. ASSUME NEW k \in 1..n, About(answers[k], i), \A j \in (k + 1)..(n + 1) : ~About(answers'[j], i)
            PROVE  Agrees(answers[k], i, Listing[i])
        <4>1. \A j \in (k + 1)..n : j \in (k + 1)..(n + 1) /\ j \in 1..n  BY <1>2
        <4>2. \A j \in (k + 1)..n : ~About(answers[j], i)  BY <1>3, <3>4, <4>1, Zenon
        <4> QED  BY <1>1, <3>1, <3>4, <4>2 DEF LastAgrees, n
      <3>5. \A k \in 1..n : k \in 1..(n + 1)  BY <1>2
      <3> QED  BY <1>3, <1>4, <2>2, <3>2, <3>3, <3>4, <3>5, ZenonT(30)
    <2> QED  BY <2>1, <2>2, Zenon
  <1> QED  BY <1>5, <1>6, <1>7, <1>8, <1>9, <1>10 DEF ListsIndInv

\* What the server lists.
LEMMA ListingTyped ==
    ASSUME ListsTyped
    PROVE  /\ Listing \in [Items -> 0..MaxWrites]
           /\ \A i \in Items : Listing[i] = IF stored[i] = Gone THEN 0 ELSE stored[i]
  <1> USE ListsAssumption
  <1>1. \A i \in Items : stored[i] # Gone => stored[i] \in 0..MaxWrites
    BY DEF ListsTyped, Gone
  <1>2. 0 \in 0..MaxWrites  OBVIOUS
  <1> QED  BY <1>1, <1>2 DEF Listing

\* Arithmetic of what is in flight.
LEMMA OneAddendMoves ==
    ASSUME NEW x \in Nat, NEW y \in Nat, NEW u \in Nat, NEW v \in Nat, NEW c \in Nat, NEW d \in Int,
           (x = c /\ u = c + d /\ v = y) \/ (y = c /\ v = c + d /\ u = x)
    PROVE  u + v = x + y + d
  OBVIOUS

LEMMA SumStays ==
    ASSUME NEW n \in Nat, NEW x \in Nat, NEW y \in Nat, NEW m \in Nat, NEW u \in Nat, NEW v \in Nat,
           NEW d \in Int, NEW e \in Int, NEW most \in Nat, n + x + y <= most,
           m = n + e, u + v = x + y + d, d + e <= 0
    PROVE  m + u + v <= most
  OBVIOUS

\* The reads in flight, a number for each kind.
FormReads == loadsSent[TRUE]
PageReads == loadsSent[FALSE]

LEMMA ReadsCounted ==
    ASSUME ListsTyped
    PROVE  /\ FormReads \in Nat /\ PageReads \in Nat /\ Len(answers) \in Nat
           /\ Len(answers) + FormReads + PageReads <= MaxInFlight
  <1>1. FormReads \in Nat /\ PageReads \in Nat  BY Zenon DEF ListsTyped, FormReads, PageReads
  <1>2. Len(answers) \in Nat  BY DEF ListsTyped
  <1>3. Len(answers) + FormReads + PageReads <= MaxInFlight
    BY Zenon DEF ListsTyped, InFlight, FormReads, PageReads
  <1> QED  BY <1>1, <1>2, <1>3

\* One read more, or less, is in flight.
LEMMA ReadsMove ==
    ASSUME ListsTyped, NEW form \in BOOLEAN, NEW d \in {-1, 1}, d = -1 => loadsSent[form] > 0,
           loadsSent' = [loadsSent EXCEPT ![form] = loadsSent[form] + d]
    PROVE  /\ loadsSent' \in [BOOLEAN -> Nat]
           /\ FormReads' + PageReads' = FormReads + PageReads + d
           /\ FormReads' \in Nat /\ PageReads' \in Nat
           /\ loadsSent'[form] = loadsSent[form] + d
  <1>1. loadsSent \in [BOOLEAN -> Nat] /\ form \in BOOLEAN  BY DEF ListsTyped
  <1>2. PICK c : c = loadsSent[form]  OBVIOUS
  <1>3. c \in Nat  BY <1>1, <1>2
  <1>4. d = -1 => c > 0  BY <1>2, Zenon
  <1>5. PICK r : r = c + d  OBVIOUS
  <1>6. r \in Nat  BY <1>3, <1>4, <1>5
  <1>7. r = loadsSent[form] + d  BY <1>2, <1>5, Zenon
  <1>8. loadsSent' = [loadsSent EXCEPT ![form] = r]  BY <1>7, Zenon
  <1>9. loadsSent' \in [BOOLEAN -> Nat] /\ loadsSent'[form] = r  BY <1>1, <1>6, <1>8
  <1>10. FormReads' \in Nat /\ PageReads' \in Nat  BY <1>9, Zenon DEF FormReads, PageReads
  <1>11. FormReads \in Nat /\ PageReads \in Nat  BY <1>1, Zenon DEF FormReads, PageReads
  <1>12. \/ FormReads = c /\ FormReads' = r /\ PageReads' = PageReads
         \/ PageReads = c /\ PageReads' = r /\ FormReads' = FormReads
    <2>1. CASE form = TRUE  BY <1>1, <1>2, <1>8, <2>1, Zenon DEF FormReads, PageReads
    <2>2. CASE form = FALSE  BY <1>1, <1>2, <1>8, <2>2, Zenon DEF FormReads, PageReads
    <2> QED  BY <1>1, <2>1, <2>2, Zenon
  <1>13. FormReads' + PageReads' = FormReads + PageReads + d
    <2>1. PICK x, y, u, v : x = FormReads /\ y = PageReads /\ u = FormReads' /\ v = PageReads'  OBVIOUS
    <2>2. x \in Nat /\ y \in Nat /\ u \in Nat /\ v \in Nat /\ d \in Int  BY <1>10, <1>11, <2>1
    <2>3. (x = c /\ u = c + d /\ v = y) \/ (y = c /\ v = c + d /\ u = x)
      <3>1. (x = c /\ u = r /\ v = y) \/ (y = c /\ v = r /\ u = x)  BY <1>12, <2>1, Zenon
      <3> QED  BY <1>5, <3>1, Zenon
    <2>4. u + v = x + y + d  BY <1>3, <2>2, <2>3, OneAddendMoves
    <2> QED  BY <2>1, <2>4, Zenon
  <1> QED  BY <1>7, <1>9, <1>10, <1>13

\* One more answer is in flight.
LEMMA OneMoreInFlight ==
    ASSUME ListsTyped, InFlight < MaxInFlight, NEW a \in Answer,
           answers' = Append(answers, a), loadsSent' = loadsSent
    PROVE  InFlight' <= MaxInFlight /\ loadsSent' \in [BOOLEAN -> Nat]
  <1>1. loadsSent' \in [BOOLEAN -> Nat]  BY DEF ListsTyped
  <1>2. Len(answers') = Len(answers) + 1  BY DEF ListsTyped
  <1>3. FormReads' = FormReads /\ PageReads' = PageReads  BY DEF FormReads, PageReads
  <1>4. Len(answers) + FormReads + PageReads < MaxInFlight  BY Zenon DEF InFlight, FormReads, PageReads
  <1>5. Len(answers') + FormReads' + PageReads' <= MaxInFlight
    BY <1>2, <1>3, <1>4, ReadsCounted, ListsAssumption
  <1>6. InFlight' <= MaxInFlight  BY <1>5, Zenon DEF InFlight, FormReads, PageReads
  <1> QED  BY <1>1, <1>6

LEMMA WriteKeeps ==
    ASSUME ListsIndInv, NEW s, NEW i \in Items, NEW then \in {"push", "replace", "reload"},
           NEW form \in BOOLEAN, NEW creates \in BOOLEAN, then = "replace" => creates = FALSE,
           Write(s, i, then, form, creates)
    PROVE  ListsIndInv'
  <1> USE ListsAssumption
  <1> DEFINE is == [Listing EXCEPT ![i] = stored[i] + 1]
  <1>1. ListsTyped /\ ListedWasStored  BY DEF ListsIndInv
  <1>2. /\ UNCHANGED <<section, listed, loadsSent, disordered, lost>>
        /\ InFlight < MaxInFlight /\ stored[i] < MaxWrites
        /\ stored' = [stored EXCEPT ![i] = stored[i] + 1]
        /\ answers' = Append(answers, [then |-> then, of |-> i, is |-> is, form |-> form])
        /\ busy' = (busy \/ form)
    BY DEF Write, Served
  <1>3. then = "replace" => listed[i] # 0  BY DEF Write
  <1>4. stored[i] \in 0..MaxWrites /\ stored[i] + 1 \in 1..MaxWrites /\ MaxWrites # Gone
    BY <1>1, <1>2, SMTT(30) DEF ListsTyped, Gone
  <1>5. /\ stored' \in [Items -> 0..Gone] /\ stored'[i] = stored[i] + 1
        /\ \A j \in Items : j # i => stored'[j] = stored[j]
    <2>1. stored[i] + 1 \in 0..Gone  BY <1>4 DEF Gone
    <2> QED  BY <1>1, <1>2, <2>1 DEF ListsTyped
  <1>6. stored'[i] # Gone /\ stored[i] # Gone  BY <1>4, <1>5 DEF Gone
  <1>7. Listing'[i] = stored[i] + 1  BY <1>5, <1>6 DEF Listing
  <1>8. is \in [Items -> 0..MaxWrites] /\ is[i] = stored[i] + 1
    <2>1. stored[i] + 1 \in 0..MaxWrites  BY <1>4
    <2> QED  BY <1>1, <2>1, ListingTyped
  <1> HIDE DEF is
  <1>9. PICK a : a = [then |-> then, of |-> i, is |-> is, form |-> form]  BY Zenon
  <1>10. a.then = then /\ a.of = i /\ a.is = is  BY <1>9
  <1>11. a \in Answer  BY <1>8, <1>9 DEF Answer, Thens, Merges
  <1>12. busy' \in BOOLEAN  BY <1>1, <1>2 DEF ListsTyped
  <1>13. loadsSent' \in [BOOLEAN -> Nat] /\ InFlight' <= MaxInFlight
    BY <1>1, <1>2, <1>9, <1>11, OneMoreInFlight
  <1>14. stored[i] + 1 # 0  BY <1>4
  <1>15. \A j \in Items : About(a, j) <=> j = i  BY <1>10 DEF About
  <1>16. Agrees(a, i, Listing'[i]) /\ Spares(a, i)
    BY <1>7, <1>8, <1>10, <1>14 DEF Agrees, Spares, Bears
  <1>17. \A j \in Items : /\ stored[j] # 0 => stored'[j] # 0
                          /\ stored'[j] # Gone => stored[j] # Gone
                          /\ About(a, j) => Agrees(a, j, Listing'[j])
                          /\ About(a, j) /\ Bears(a, j) => stored'[j] # 0
                          /\ About(a, j) /\ stored[j] # 0 /\ stored'[j] # Gone => Spares(a, j)
                          /\ ~About(a, j) => stored'[j] = stored[j]
    BY <1>5, <1>6, <1>14, <1>15, <1>16
  <1>18. /\ a.then \in Merges => a.of \in Items
         /\ a.then # "list"
         /\ a.is[a.of] # 0
         /\ a.then = "replace" => listed[a.of] # 0
    BY <1>3, <1>8, <1>10, <1>14
  <1>19. answers' = Append(answers, a)  BY <1>2, <1>9
  <1> QED  BY <1>2, <1>5, <1>11, <1>12, <1>13, <1>17, <1>18, <1>19, ServedKeeps, Zenon

LEMMA DeleteKeeps ==
    ASSUME ListsIndInv, NEW s, NEW i \in Items, NEW then \in {"drop", "reload"}, Delete(s, i, then)
    PROVE  ListsIndInv'
  <1> USE ListsAssumption
  <1> DEFINE is == [Listing EXCEPT ![i] = 0]
  <1>1. ListsTyped  BY DEF ListsIndInv
  <1>2. /\ UNCHANGED <<section, listed, loadsSent, busy, disordered, lost>>
        /\ InFlight < MaxInFlight
        /\ stored' = [stored EXCEPT ![i] = Gone]
        /\ answers' = Append(answers, [then |-> then, of |-> i, is |-> is, form |-> FALSE])
    BY DEF Delete, Served
  <1>3. Gone \in 0..Gone /\ Gone # 0  BY DEF Gone
  <1>4. /\ stored' \in [Items -> 0..Gone] /\ stored'[i] = Gone
        /\ \A j \in Items : j # i => stored'[j] = stored[j]
    BY <1>1, <1>2, <1>3 DEF ListsTyped
  <1>5. Listing'[i] = 0  BY <1>4 DEF Listing
  <1>6. is \in [Items -> 0..MaxWrites]
    <2>1. 0 \in 0..MaxWrites  OBVIOUS
    <2> QED  BY <1>1, <2>1, ListingTyped
  <1> HIDE DEF is
  <1>7. PICK a : a = [then |-> then, of |-> i, is |-> is, form |-> FALSE]  BY Zenon
  <1>8. a.then = then /\ a.of = i  BY <1>7
  <1>9. a \in Answer  BY <1>6, <1>7 DEF Answer, Thens, Merges
  <1>10. answers' = Append(answers, a)  BY <1>2, <1>7
  <1>11. loadsSent' \in [BOOLEAN -> Nat] /\ InFlight' <= MaxInFlight
    BY <1>1, <1>2, <1>9, <1>10, OneMoreInFlight
  <1>12. \A j \in Items : About(a, j) <=> j = i  BY <1>8 DEF About
  <1>13. Agrees(a, i, Listing'[i])  BY <1>5, <1>8 DEF Agrees
  <1>14. \A j \in Items : /\ stored[j] # 0 => stored'[j] # 0
                          /\ stored'[j] # Gone => stored[j] # Gone
                          /\ About(a, j) => Agrees(a, j, Listing'[j])
                          /\ About(a, j) /\ Bears(a, j) => stored'[j] # 0
                          /\ About(a, j) /\ stored[j] # 0 /\ stored'[j] # Gone => Spares(a, j)
                          /\ ~About(a, j) => stored'[j] = stored[j]
    BY <1>3, <1>4, <1>12, <1>13
  <1>15. /\ a.then \in Merges => a.of \in Items
         /\ a.then \notin {"list", "push", "replace"}
    BY <1>8
  <1>16. busy' \in BOOLEAN  BY <1>1, <1>2 DEF ListsTyped
  <1> QED  BY <1>2, <1>4, <1>9, <1>10, <1>11, <1>14, <1>15, <1>16, ServedKeeps, Zenon

LEMMA RevokeOthersKeeps ==
    ASSUME ListsIndInv, NEW i \in Items, RevokeOthers(i)
    PROVE  ListsIndInv'
  <1> USE ListsAssumption
  <1>1. ListsTyped  BY DEF ListsIndInv
  <1>2. /\ UNCHANGED <<section, listed, loadsSent, busy, disordered, lost>>
        /\ InFlight < MaxInFlight
        /\ stored' = [j \in Items |-> IF j # i /\ stored[j] # 0 THEN Gone ELSE stored[j]]
        /\ answers' = Append(answers, [then |-> "reload", of |-> "all", is |-> Listing, form |-> FALSE])
    BY DEF RevokeOthers, Served
  <1>3. Gone \in 0..Gone /\ Gone # 0  BY DEF Gone
  <1>4. /\ stored' \in [Items -> 0..Gone]
        /\ \A j \in Items : stored'[j] = Gone \/ stored'[j] = stored[j]
    BY <1>1, <1>2, <1>3 DEF ListsTyped
  <1>5. PICK a : a = [then |-> "reload", of |-> "all", is |-> Listing, form |-> FALSE]  BY Zenon
  <1>6. a.then = "reload" /\ a.of = "all"  BY <1>5
  <1>7. a \in Answer  BY <1>1, <1>5, ListingTyped DEF Answer, Thens, Merges
  <1>8. answers' = Append(answers, a)  BY <1>2, <1>5
  <1>9. loadsSent' \in [BOOLEAN -> Nat] /\ InFlight' <= MaxInFlight
    BY <1>1, <1>2, <1>7, <1>8, OneMoreInFlight, Zenon
  <1>10. \A j \in Items : About(a, j) /\ Agrees(a, j, Listing'[j]) /\ Spares(a, j) /\ ~Bears(a, j)
    BY <1>6 DEF About, Agrees, Spares, Bears
  <1>11. \A j \in Items : /\ stored[j] # 0 => stored'[j] # 0
                          /\ stored'[j] # Gone => stored[j] # Gone
                          /\ About(a, j) => Agrees(a, j, Listing'[j])
                          /\ About(a, j) /\ Bears(a, j) => stored'[j] # 0
                          /\ About(a, j) /\ stored[j] # 0 /\ stored'[j] # Gone => Spares(a, j)
                          /\ ~About(a, j) => stored'[j] = stored[j]
    BY <1>2, <1>3, <1>4, <1>10
  <1>12. a.then \notin {"list", "push", "replace", "drop"}  BY <1>6
  <1>13. a.then \notin Merges  BY <1>6 DEF Merges
  <1>14. busy' \in BOOLEAN  BY <1>1, <1>2 DEF ListsTyped
  <1> QED  BY <1>2, <1>4, <1>7, <1>8, <1>9, <1>11, <1>12, <1>13, <1>14, ServedKeeps, Zenon

\* The list is read: the answer is about every item.
LEMMA ServeLoadKeeps ==
    ASSUME ListsIndInv, NEW form \in BOOLEAN, ServeLoad(form)
    PROVE  ListsIndInv'
  <1> USE ListsAssumption
  <1>1. ListsTyped  BY DEF ListsIndInv
  <1>2. /\ UNCHANGED <<section, stored, listed, busy, disordered, lost>>
        /\ loadsSent[form] > 0 /\ loadsSent' = [loadsSent EXCEPT ![form] = loadsSent[form] - 1]
        /\ answers' = Append(answers, [then |-> "list", of |-> "all", is |-> Listing, form |-> form])
    BY DEF ServeLoad, Served
  <1>3. PICK a : a = [then |-> "list", of |-> "all", is |-> Listing, form |-> form]  BY Zenon
  <1>4. a.then = "list" /\ a.of = "all" /\ a.is = Listing  BY <1>3, Zenon
  <1>5. a \in Answer  BY <1>1, <1>3, ListingTyped DEF Answer, Thens, Merges
  <1>6. answers' = Append(answers, a)  BY <1>2, <1>3
  <1>7. loadsSent' \in [BOOLEAN -> Nat] /\ InFlight' <= MaxInFlight
    <2>1. loadsSent[form] \in Nat  BY <1>1 DEF ListsTyped
    <2>2. loadsSent[form] - 1 = loadsSent[form] + (-1)  BY <2>1
    <2>3. loadsSent' = [loadsSent EXCEPT ![form] = loadsSent[form] + (-1)]  BY <1>2, <2>2, Zenon
    <2>4. /\ loadsSent' \in [BOOLEAN -> Nat] /\ FormReads' \in Nat /\ PageReads' \in Nat
          /\ FormReads' + PageReads' = FormReads + PageReads + (-1)
      BY <1>1, <1>2, <2>3, ReadsMove, Zenon
    <2>5. Len(answers') = Len(answers) + 1  BY <1>1, <1>5, <1>6 DEF ListsTyped
    <2>6. Len(answers') \in Nat /\ 1 + (-1) <= 0 /\ MaxInFlight \in Nat  BY <1>1, <2>5, ReadsCounted
    <2>7. Len(answers') + FormReads' + PageReads' <= MaxInFlight
      <3>1. PICK n, x, y, m, u, v : /\ n = Len(answers) /\ x = FormReads /\ y = PageReads
                                    /\ m = Len(answers') /\ u = FormReads' /\ v = PageReads'
        BY Zenon
      <3>2. n \in Nat /\ x \in Nat /\ y \in Nat /\ n + x + y <= MaxInFlight
        BY <1>1, <3>1, ReadsCounted, Zenon
      <3>3. m \in Nat /\ u \in Nat /\ v \in Nat /\ m = n + 1 /\ u + v = x + y + (-1)
        BY <2>4, <2>5, <2>6, <3>1, Zenon
      <3>4. m + u + v <= MaxInFlight  BY <2>6, <3>2, <3>3, SumStays
      <3> QED  BY <3>1, <3>4, Zenon
    <2>8. InFlight' <= MaxInFlight  BY <2>7, Zenon DEF InFlight, FormReads, PageReads
    <2> QED  BY <2>4, <2>8
  <1>8. ASSUME NEW j \in Items
        PROVE  /\ About(a, j) /\ Agrees(a, j, Listing'[j])
               /\ Bears(a, j) => stored'[j] # 0
               /\ stored[j] # 0 /\ stored'[j] # Gone => Spares(a, j)
    <2>1. Listing'[j] = Listing[j]  BY <1>2 DEF Listing
    <2>2. Listing[j] # 0 <=> stored[j] # 0 /\ stored[j] # Gone  BY <1>1, ListingTyped
    <2> QED  BY <1>2, <1>4, <2>1, <2>2 DEF About, Agrees, Bears, Spares
  <1>9. a.then \notin {"push", "replace"} /\ a.then \notin Merges  BY <1>4 DEF Merges
  <1>10. busy' \in BOOLEAN /\ stored' \in [Items -> 0..Gone]  BY <1>1, <1>2 DEF ListsTyped
  <1> QED  BY <1>2, <1>4, <1>5, <1>6, <1>7, <1>8, <1>9, <1>10, ServedKeeps, Zenon

----------------------------------------------------------------------------
\* Where the j-th of the answers that remain stood before the k-th was taken.
Before(k, j) == IF j < k THEN j ELSE j + 1

\* The answers that remain keep their order, and all but the k-th remain.
LEMMA RemainInOrder ==
    ASSUME ListsTyped, NEW k \in 1..Len(answers), answers' = Without(k), NEW n, n = Len(answers)
    PROVE  /\ answers' \in Seq(Answer) /\ Len(answers') = n - 1 /\ n \in Nat
           /\ \A j \in 1..(n - 1) : Before(k, j) \in 1..n /\ Before(k, j) # k
                                    /\ answers'[j] = answers[Before(k, j)]
           /\ \A i, j \in 1..(n - 1) : i < j => Before(k, i) < Before(k, j)
           /\ \A i, j \in 1..(n - 1) : Before(k, i) < Before(k, j) => i < j
  <1>1. answers \in Seq(Answer) /\ n \in Nat  BY DEF ListsTyped
  <1>2. /\ Without(k) \in Seq(Answer) /\ Len(Without(k)) = n - 1
        /\ \A j \in 1..(n - 1) : Without(k)[j] = IF j < k THEN answers[j] ELSE answers[j + 1]
    BY <1>1, WithoutFacts, Zenon
  <1>3. k \in 1..n  OBVIOUS
  <1>4. \A j \in 1..(n - 1) : Before(k, j) \in 1..n /\ Before(k, j) # k  BY <1>1, <1>3 DEF Before
  <1>5. \A j \in 1..(n - 1) : answers'[j] = answers[Before(k, j)]  BY <1>2 DEF Before
  <1>6. \A i, j \in 1..(n - 1) : i < j => Before(k, i) < Before(k, j)  BY <1>1, <1>3 DEF Before
  <1>7. \A i, j \in 1..(n - 1) : Before(k, i) < Before(k, j) => i < j  BY <1>1, <1>3 DEF Before
  <1> QED  BY <1>1, <1>2, <1>4, <1>5, <1>6, <1>7, Zenon

LEMMA AllOthersRemain ==
    ASSUME NEW n \in Nat, NEW k \in 1..n, NEW p \in 1..n, p # k
    PROVE  \E j \in 1..(n - 1) : Before(k, j) = p
  <1>1. CASE p < k
    <2>1. p \in 1..(n - 1) /\ Before(k, p) = p  BY <1>1 DEF Before
    <2> QED  BY <2>1
  <1>2. CASE p > k
    <2>1. p - 1 \in 1..(n - 1) /\ Before(k, p - 1) = p  BY <1>2 DEF Before
    <2> QED  BY <2>1
  <1> QED  BY <1>1, <1>2

\* What holds of the answers among themselves holds of those that remain.
LEMMA RemainingKeep ==
    ASSUME ListsIndInv, NEW k \in 1..Len(answers), answers' = Without(k), stored' = stored
    PROVE  /\ MergesOne' /\ StaysInAnswers'
           /\ \A i \in Items : \A j \in 1..Len(answers') :
                About(answers'[j], i) /\ Bears(answers'[j], i) => stored[i] # 0
  <1>1. ListsTyped /\ MergesOne /\ ListedWasStored /\ StaysInAnswers  BY DEF ListsIndInv
  <1>2. PICK n : n = Len(answers)  OBVIOUS
  <1>3. /\ Len(answers') = n - 1
        /\ \A j \in 1..(n - 1) : Before(k, j) \in 1..n /\ answers'[j] = answers[Before(k, j)]
        /\ \A i, j \in 1..(n - 1) : i < j => Before(k, i) < Before(k, j)
    BY <1>1, <1>2, RemainInOrder, Zenon
  <1>4. MergesOne'  BY <1>1, <1>2, <1>3, SMTT(30) DEF MergesOne
  <1>5. ASSUME NEW i \in Items, NEW j \in 1..(n - 1), About(answers'[j], i), Bears(answers'[j], i)
        PROVE  stored[i] # 0
    BY <1>1, <1>2, <1>3, <1>5 DEF ListedWasStored
  <1>6. StaysInAnswers'
    <2> SUFFICES ASSUME NEW i \in Items, stored[i] # Gone, NEW h \in 1..(n - 1), NEW j \in 1..(n - 1),
                        h < j, About(answers'[h], i), Bears(answers'[h], i), About(answers'[j], i)
                 PROVE  Spares(answers'[j], i)
      BY <1>3, Zenon DEF StaysInAnswers
    <2>1. Before(k, h) \in 1..n /\ Before(k, j) \in 1..n /\ Before(k, h) < Before(k, j)  BY <1>3, Zenon
    <2>2. answers'[h] = answers[Before(k, h)] /\ answers'[j] = answers[Before(k, j)]  BY <1>3, Zenon
    <2> QED  BY <1>1, <1>2, <2>1, <2>2, Zenon DEF StaysInAnswers
  <1> QED  BY <1>3, <1>4, <1>5, <1>6

\* What the list holds of item i after an answer.
LEMMA TakenFacts ==
    ASSUME ListsTyped, MergesOne, NEW k \in 1..Len(answers), NEW a, a = answers[k], NEW i \in Items
    PROVE  /\ Taken(a) \in [Items -> 0..MaxWrites]
           /\ ~About(a, i) => Taken(a)[i] = listed[i]
           /\ a.then = "reload" => Taken(a)[i] = listed[i]
           /\ Taken(a)[i] # 0 => Taken(a)[i] = listed[i] \/ (About(a, i) /\ Bears(a, i))
           /\ About(a, i) /\ a.then \in {"list", "push"} => Taken(a)[i] = a.is[i]
           /\ About(a, i) /\ a.then = "replace" /\ listed[i] # 0 => Taken(a)[i] = a.is[i]
           /\ About(a, i) /\ a.then = "drop" => Taken(a)[i] = 0
  <1> USE ListsAssumption
  <1>1. listed \in [Items -> 0..MaxWrites]  BY DEF ListsTyped
  <1>2. a \in Answer  BY DEF ListsTyped
  <1>3. /\ a.is \in [Items -> 0..MaxWrites] /\ a.of \in Items \cup {"all"}
        /\ a.then \in {"push", "replace", "drop", "reload", "list"}
    BY <1>2, Zenon DEF Answer, Thens, Merges
  <1>4. a.then \in {"push", "replace", "drop"} => a.of \in Items  BY Zenon DEF MergesOne, Merges
  <1>5. a.then = "list" => a.of = "all"  BY Zenon DEF MergesOne
  <1>6. CASE a.then = "reload"
    <2>1. Taken(a) = listed  BY <1>6 DEF Taken
    <2> QED  BY <1>1, <1>6, <2>1, Zenon
  <1>7. CASE a.then = "list"
    <2>1. Taken(a) = a.is  BY <1>7 DEF Taken
    <2>2. About(a, i)  BY <1>5, <1>7, Zenon DEF About
    <2> QED  BY <1>3, <1>7, <2>1, <2>2, Zenon DEF Bears
  <1>8. CASE a.then = "drop"
    <2>1. Taken(a) = [listed EXCEPT ![a.of] = 0]  BY <1>8 DEF Taken
    <2>2. a.of \in Items /\ (About(a, i) <=> a.of = i)  BY <1>4, <1>8 DEF About
    <2>3. Taken(a)[i] = IF About(a, i) THEN 0 ELSE listed[i]  BY <1>1, <2>1, <2>2
    <2>4. Taken(a) \in [Items -> 0..MaxWrites]  BY <1>1, <2>1, <2>2
    <2> QED  BY <1>8, <2>3, <2>4, Zenon
  <1>9. CASE a.then \in {"push", "replace"}
    <2>1. a.of \in Items /\ (About(a, i) <=> a.of = i)  BY <1>4, <1>9, Zenon DEF About
    <2>2. CASE a.then = "push" \/ listed[a.of] # 0
      <3>1. Taken(a) = [listed EXCEPT ![a.of] = a.is[a.of]]  BY <1>9, <2>2 DEF Taken
      <3>2. Taken(a) \in [Items -> 0..MaxWrites]  BY <1>1, <1>3, <2>1, <3>1, SMTT(30)
      <3>3. Taken(a)[i] = IF About(a, i) THEN a.is[i] ELSE listed[i]  BY <1>1, <2>1, <3>1
      <3> QED  BY <1>9, <3>2, <3>3, Zenon DEF Bears
    <2>3. CASE a.then = "replace" /\ listed[a.of] = 0
      <3>1. Taken(a) = listed  BY <2>3 DEF Taken
      <3> QED  BY <1>1, <2>1, <2>3, <3>1, Zenon
    <2> QED  BY <1>9, <2>2, <2>3, Zenon
  <1> QED  BY <1>3, <1>6, <1>7, <1>8, <1>9, Zenon

\* One answer less is in flight, and at most one read more.
LEMMA OneLessInFlight ==
    ASSUME ListsTyped, NEW k \in 1..Len(answers), answers' = Without(k), NEW form \in BOOLEAN,
           \/ loadsSent' = loadsSent
           \/ loadsSent' = [loadsSent EXCEPT ![form] = loadsSent[form] + 1]
    PROVE  loadsSent' \in [BOOLEAN -> Nat] /\ InFlight' <= MaxInFlight
  <1> USE ListsAssumption
  <1>1. Len(answers') = Len(answers) - 1 /\ Len(answers) \in Nat  BY RemainInOrder, Zenon
  <1>2. Len(answers') \in Nat /\ Len(answers') = Len(answers) + (-1)  BY <1>1
  <1>3. PICK n, x, y, m, u, v : /\ n = Len(answers) /\ x = FormReads /\ y = PageReads
                                /\ m = Len(answers') /\ u = FormReads' /\ v = PageReads'
    BY Zenon
  <1>4. n \in Nat /\ x \in Nat /\ y \in Nat /\ n + x + y <= MaxInFlight
    BY <1>3, ReadsCounted, Zenon
  <1>5. m \in Nat /\ m = n + (-1)  BY <1>2, <1>3, Zenon
  <1>6. MaxInFlight \in Nat /\ 1 \in Int /\ 0 \in Int /\ -1 \in Int /\ 1 + (-1) <= 0 /\ 0 + (-1) <= 0  OBVIOUS
  <1>7. CASE loadsSent' = loadsSent
    <2>1. loadsSent' \in [BOOLEAN -> Nat]  BY <1>7 DEF ListsTyped
    <2>2. u = x /\ v = y  BY <1>3, <1>7 DEF FormReads, PageReads
    <2>3. u + v = x + y + 0  BY <1>4, <2>2
    <2>4. m + u + v <= MaxInFlight  BY <1>4, <1>5, <1>6, <2>2, <2>3, SumStays
    <2>5. InFlight' <= MaxInFlight  BY <1>3, <2>4, Zenon DEF InFlight, FormReads, PageReads
    <2> QED  BY <2>1, <2>5
  <1>8. CASE loadsSent' = [loadsSent EXCEPT ![form] = loadsSent[form] + 1]
    <2>1. 1 # -1 /\ 1 \in {-1, 1}  OBVIOUS
    <2>2. /\ loadsSent' \in [BOOLEAN -> Nat] /\ FormReads' \in Nat /\ PageReads' \in Nat
          /\ FormReads' + PageReads' = FormReads + PageReads + 1
      BY <1>8, <2>1, ReadsMove, Zenon
    <2>3. u \in Nat /\ v \in Nat /\ u + v = x + y + 1  BY <1>3, <2>2, Zenon
    <2>4. m + u + v <= MaxInFlight  BY <1>4, <1>5, <1>6, <2>3, SumStays
    <2>5. InFlight' <= MaxInFlight  BY <1>3, <2>4, Zenon DEF InFlight, FormReads, PageReads
    <2> QED  BY <2>2, <2>5, Zenon
  <1> QED  BY <1>7, <1>8

LEMMA ArriveKeeps ==
    ASSUME ListsIndInv, NEW k \in 1..Len(answers), Arrive(k)
    PROVE  ListsIndInv'
  <1> USE ListsAssumption
  <1>1. /\ ListsTyped /\ MergesOne /\ ListedWasStored /\ StaysInAnswers /\ StaysInList /\ LastAgrees
    BY DEF ListsIndInv
  <1>2. PICK a, n : a = answers[k] /\ n = Len(answers)  OBVIOUS
  <1>3. /\ listed' = Taken(a) /\ answers' = Without(k) /\ UNCHANGED <<section, stored, lost>>
        /\ loadsSent' = IF a.then = "reload" THEN [loadsSent EXCEPT ![a.form] = loadsSent[a.form] + 1]
                                             ELSE loadsSent
        /\ busy' = (busy /\ ~(a.form /\ a.then # "reload"))
        /\ disordered' = (disordered \/ \E j \in 1..(k - 1) : Overlap(answers[j], a))
    BY <1>2, Zenon DEF Arrive
  <1>4. a \in Answer  BY <1>1, <1>2 DEF ListsTyped
  <1>5. a.form \in BOOLEAN  BY <1>4 DEF Answer
  <1>6. /\ answers' \in Seq(Answer) /\ Len(answers') = n - 1 /\ n \in Nat
        /\ \A j \in 1..(n - 1) : Before(k, j) \in 1..n /\ Before(k, j) # k
                                 /\ answers'[j] = answers[Before(k, j)]
        /\ \A i, j \in 1..(n - 1) : Before(k, i) < Before(k, j) => i < j
        /\ \A p \in 1..n : p # k => \E j \in 1..(n - 1) : Before(k, j) = p
    <2>1. answers' = Without(k) /\ n = Len(answers)  BY <1>2, <1>3, Zenon
    <2>2. /\ answers' \in Seq(Answer) /\ Len(answers') = n - 1 /\ n \in Nat
          /\ \A j \in 1..(n - 1) : Before(k, j) \in 1..n /\ Before(k, j) # k
                                   /\ answers'[j] = answers[Before(k, j)]
          /\ \A i, j \in 1..(n - 1) : Before(k, i) < Before(k, j) => i < j
      BY <1>1, <2>1, RemainInOrder, Zenon
    <2>3. \A p \in 1..n : p # k => \E j \in 1..(n - 1) : Before(k, j) = p
      BY <2>1, <2>2, AllOthersRemain, ZenonT(30)
    <2> QED  BY <2>2, <2>3, Zenon
  <1>7. /\ MergesOne' /\ StaysInAnswers'
        /\ \A i \in Items : \A j \in 1..(n - 1) :
             About(answers'[j], i) /\ Bears(answers'[j], i) => stored[i] # 0
    BY <1>3, <1>6, RemainingKeep, Zenon
  <1>8. \A i \in Items :
           /\ Taken(a) \in [Items -> 0..MaxWrites]
           /\ ~About(a, i) => Taken(a)[i] = listed[i]
           /\ a.then = "reload" => Taken(a)[i] = listed[i]
           /\ Taken(a)[i] # 0 => Taken(a)[i] = listed[i] \/ (About(a, i) /\ Bears(a, i))
           /\ About(a, i) /\ a.then \in {"list", "push"} => Taken(a)[i] = a.is[i]
           /\ About(a, i) /\ a.then = "replace" /\ listed[i] # 0 => Taken(a)[i] = a.is[i]
           /\ About(a, i) /\ a.then = "drop" => Taken(a)[i] = 0
    BY <1>1, <1>2, TakenFacts, SMTT(30)
  <1>9. loadsSent' \in [BOOLEAN -> Nat] /\ InFlight' <= MaxInFlight
    BY <1>1, <1>3, <1>5, OneLessInFlight, Zenon
  <1>10. disordered' = FALSE =>
           disordered = FALSE /\ \A j \in 1..n : j < k => ~Overlap(answers[j], a)
    <2>1. \A j \in 1..n : j < k => j \in 1..(k - 1)  BY <1>2
    <2>2. disordered \in BOOLEAN  BY <1>1 DEF ListsTyped
    <2> QED  BY <1>3, <2>1, <2>2, Zenon
  <1>11. \A b, i : About(b, i) /\ About(a, i) => Overlap(b, a)  BY DEF About, Overlap
  <1>12. ListsTyped'
    <2>1. listed' \in [Items -> 0..MaxWrites]
      <3>1. CASE Items = {}
        <4>1. Taken(a) \in [Items -> 0..MaxWrites]
          <5>1. listed \in [Items -> 0..MaxWrites] /\ a.is \in [Items -> 0..MaxWrites]
            BY <1>1, <1>4, Zenon DEF ListsTyped, Answer
          <5>2. a.then \notin Merges  BY <1>1, <1>2, <3>1 DEF MergesOne
          <5> QED  BY <5>1, <5>2 DEF Taken, Merges
        <4> QED  BY <1>3, <4>1
      <3>2. CASE Items # {}  BY <1>3, <1>8, <3>2, Zenon
      <3> QED  BY <3>1, <3>2
    <2>2. busy' \in BOOLEAN /\ disordered' \in BOOLEAN  BY <1>3, <1>1 DEF ListsTyped
    <2> QED  BY <1>1, <1>3, <1>6, <1>9, <2>1, <2>2, Zenon DEF ListsTyped
  <1>13. ListedWasStored'
    <2> SUFFICES ASSUME NEW i \in Items, listed'[i] # 0 PROVE stored[i] # 0
      BY <1>3, <1>6, <1>7, Zenon DEF ListedWasStored
    <2>1. CASE listed[i] # 0  BY <1>1, <2>1 DEF ListedWasStored
    <2>2. CASE About(a, i) /\ Bears(a, i)  BY <1>1, <1>2, <2>2, Zenon DEF ListedWasStored
    <2> QED  BY <1>3, <1>8, <2>1, <2>2, Zenon
  <1>14. StaysInList'
    <2> SUFFICES ASSUME disordered' = FALSE, NEW i \in Items, stored[i] # Gone, NEW j \in 1..(n - 1)
                 PROVE  /\ listed'[i] # 0 /\ About(answers'[j], i) => Spares(answers'[j], i)
                        /\ answers'[j].then = "replace" /\ answers'[j].of = i => listed'[i] # 0
      BY <1>3, <1>6, Zenon DEF StaysInList
    <2>1. PICK p \in 1..n : p # k /\ answers'[j] = answers[p]  BY <1>6, Zenon
    <2>2. /\ listed[i] # 0 /\ About(answers[p], i) => Spares(answers[p], i)
          /\ answers[p].then = "replace" /\ answers[p].of = i => listed[i] # 0
          /\ listed[i] # 0 /\ About(a, i) => Spares(a, i)
      BY <1>1, <1>2, <1>10, Zenon DEF StaysInList
    <2>3. ASSUME listed'[i] # 0, About(answers[p], i) PROVE Spares(answers[p], i)
      <3>1. CASE listed'[i] = listed[i]  BY <2>2, <2>3, <3>1, Zenon
      <3>2. CASE About(a, i) /\ Bears(a, i)
        <4>1. ~(p < k)  BY <1>10, <1>11, <2>3, <3>2, Zenon
        <4>2. k < p  BY <1>6, <2>1, <4>1, SMTT(30)
        <4> QED  BY <1>1, <1>2, <2>3, <3>2, <4>2 DEF StaysInAnswers
      <3> QED  BY <1>3, <1>8, <2>3, <3>1, <3>2, Zenon
    <2>4. ASSUME answers[p].then = "replace", answers[p].of = i PROVE listed'[i] # 0
      <3>1. listed[i] # 0  BY <2>2, <2>4, Zenon
      <3>2. CASE ~About(a, i)  BY <1>3, <1>8, <3>1, <3>2, Zenon
      <3>3. CASE About(a, i)
        <4>1. Spares(a, i)  BY <2>2, <3>1, <3>3, Zenon
        <4> QED  BY <1>3, <1>8, <3>1, <3>3, <4>1, Zenon DEF Spares, Bears
      <3> QED  BY <3>2, <3>3
    <2> QED  BY <2>1, <2>3, <2>4, Zenon
  <1>15. LastAgrees'
    <2> SUFFICES ASSUME disordered' = FALSE, lost = FALSE, loadsSent'[TRUE] = 0, loadsSent'[FALSE] = 0,
                        NEW i \in Items
                 PROVE  /\ (\A j \in 1..(n - 1) : ~About(answers'[j], i)) => listed'[i] = Listing[i]
                        /\ \A j \in 1..(n - 1) :
                             About(answers'[j], i) /\ (\A h \in (j + 1)..(n - 1) : ~About(answers'[h], i))
                                 => Agrees(answers'[j], i, Listing[i])
      <3>1. Listing' = Listing  BY <1>3, Zenon DEF Listing
      <3> QED  BY <1>3, <1>6, <3>1, Zenon DEF LastAgrees
    <2>1. a.then # "reload" /\ loadsSent' = loadsSent
      <3>1. SUFFICES ASSUME a.then = "reload" PROVE FALSE  BY <1>3
      <3>2. loadsSent' = [loadsSent EXCEPT ![a.form] = loadsSent[a.form] + 1]  BY <1>3, <3>1, Zenon
      <3>3. loadsSent \in [BOOLEAN -> Nat]  BY <1>1 DEF ListsTyped
      <3>4. loadsSent'[a.form] = loadsSent[a.form] + 1 /\ loadsSent[a.form] \in Nat  BY <1>5, <3>2, <3>3
      <3>5. loadsSent'[a.form] = 0  BY <1>5, Zenon
      <3>6. PICK c : c = loadsSent[a.form]  OBVIOUS
      <3>7. c \in Nat /\ c + 1 = 0  BY <3>4, <3>5, <3>6, Zenon
      <3> QED  BY <3>7
    <2>2. /\ (\A p \in 1..n : ~About(answers[p], i)) => listed[i] = Listing[i]
          /\ \A p \in 1..n :
               About(answers[p], i) /\ (\A h \in (p + 1)..n : ~About(answers[h], i))
                   => Agrees(answers[p], i, Listing[i])
      BY <1>1, <1>2, <1>10, <2>1, Zenon DEF LastAgrees
    <2>3. ASSUME \A j \in 1..(n - 1) : ~About(answers'[j], i) PROVE listed'[i] = Listing[i]
      <3>1. \A p \in 1..n : p # k => ~About(answers[p], i)  BY <1>6, <2>3
      <3>2. CASE ~About(a, i)  BY <1>2, <1>3, <1>8, <2>2, <3>1, <3>2, Zenon
      <3>3. CASE About(a, i)
        <4>1. \A h \in (k + 1)..n : h \in 1..n /\ h # k  BY <1>2, <1>6, SMTT(30)
        <4>2. Agrees(a, i, Listing[i])  BY <1>2, <2>2, <3>1, <3>3, <4>1, Zenon
        <4>3. CASE a.then \in {"list", "push", "drop"}  BY <1>3, <1>8, <3>3, <4>2, <4>3, Zenon DEF Agrees
        <4>4. CASE a.then = "replace"
          <5>1. a.of = i /\ a.is[i] # 0
            <6>1. a.of \in Items /\ a.is[a.of] # 0  BY <1>1, <1>2, <4>4, Zenon DEF MergesOne, Merges
            <6> QED  BY <3>3, <6>1 DEF About
          <5>2. a.is[i] = Listing[i]  BY <4>2, <4>4, Zenon DEF Agrees
          <5>3. stored[i] # Gone  BY <5>1, <5>2 DEF Listing
          <5>4. listed[i] # 0  BY <1>1, <1>2, <1>10, <4>4, <5>1, <5>3, Zenon DEF StaysInList
          <5> QED  BY <1>3, <1>8, <3>3, <4>4, <5>2, <5>4, Zenon
        <4> QED  BY <2>1, <4>2, <4>3, <4>4, Zenon DEF Agrees
      <3> QED  BY <3>2, <3>3
    <2>4. ASSUME NEW j \in 1..(n - 1), About(answers'[j], i),
                 \A h \in (j + 1)..(n - 1) : ~About(answers'[h], i)
          PROVE  Agrees(answers'[j], i, Listing[i])
      <3>1. PICK p \in 1..n : p = Before(k, j) /\ p # k /\ answers'[j] = answers[p]  BY <1>6, Zenon
      <3>2. ASSUME NEW h \in (p + 1)..n PROVE ~About(answers[h], i)
        <4>1. h \in 1..n /\ p < h  OBVIOUS
        <4>2. CASE h = k  BY <1>2, <1>10, <1>11, <2>4, <3>1, <4>1, <4>2, Zenon
        <4>3. CASE h # k
          <5>1. PICK g \in 1..(n - 1) : Before(k, g) = h  BY <1>6, <4>1, <4>3, Zenon
          <5>2. j < g  BY <1>6, <3>1, <4>1, <5>1, Zenon
          <5>3. g \in (j + 1)..(n - 1)  BY <1>6, <5>2
          <5> QED  BY <1>6, <2>4, <5>1, <5>3, Zenon
        <4> QED  BY <4>2, <4>3
      <3> QED  BY <2>2, <2>4, <3>1, <3>2, Zenon
    <2> QED  BY <2>3, <2>4, Zenon
  <1> QED  BY <1>7, <1>12, <1>13, <1>14, <1>15 DEF ListsIndInv

LEMMA LoseKeeps ==
    ASSUME ListsIndInv, NEW k \in 1..Len(answers), Lose(k)
    PROVE  ListsIndInv'
  <1>1. ListsTyped /\ ListedWasStored /\ StaysInList  BY DEF ListsIndInv
  <1>2. /\ answers' = Without(k) /\ lost' = TRUE /\ busy' = (busy /\ ~answers[k].form)
        /\ UNCHANGED <<section, stored, listed, loadsSent, disordered>>
    BY DEF Lose
  <1>3. PICK n : n = Len(answers)  OBVIOUS
  <1>4. /\ answers' \in Seq(Answer) /\ Len(answers') = n - 1
        /\ \A j \in 1..(n - 1) : Before(k, j) \in 1..n /\ answers'[j] = answers[Before(k, j)]
    BY <1>1, <1>2, <1>3, RemainInOrder
  <1>5. /\ MergesOne' /\ StaysInAnswers'
        /\ \A i \in Items : \A j \in 1..Len(answers') :
             About(answers'[j], i) /\ Bears(answers'[j], i) => stored[i] # 0
    BY <1>2, RemainingKeep
  <1>6. loadsSent' \in [BOOLEAN -> Nat] /\ InFlight' <= MaxInFlight
    <2>1. TRUE \in BOOLEAN  OBVIOUS
    <2> QED  BY <1>1, <1>2, <2>1, OneLessInFlight, Zenon
  <1>7. ListsTyped'
    <2>1. busy' \in BOOLEAN /\ lost' \in BOOLEAN /\ disordered' \in BOOLEAN  BY <1>1, <1>2 DEF ListsTyped
    <2> QED  BY <1>1, <1>2, <1>4, <1>6, <2>1, Zenon DEF ListsTyped
  <1>8. ListedWasStored'  BY <1>1, <1>2, <1>5, Zenon DEF ListedWasStored
  <1>9. StaysInList'
    <2>1. PICK s : s = stored /\ s = stored'  BY <1>2
    <2> QED  BY <1>1, <1>2, <1>3, <1>4, ZenonT(30) DEF StaysInList
  <1>10. LastAgrees'  BY <1>2, Zenon DEF LastAgrees
  <1> QED  BY <1>5, <1>7, <1>8, <1>9, <1>10 DEF ListsIndInv

LEMMA ListsStep == ListsIndInv /\ [ListsNext]_listVars => ListsIndInv'
  <1> SUFFICES ASSUME ListsIndInv, [ListsNext]_listVars PROVE ListsIndInv'  OBVIOUS
  <1> USE DEF ListsNext
  <1>1. ASSUME NEW i \in Items, SaveNode(i) \/ SaveCarrier(i) \/ SaveConfiguration(i)
        PROVE  ListsIndInv'
    <2>1. "replace" \in {"push", "replace", "reload"} /\ TRUE \in BOOLEAN /\ FALSE \in BOOLEAN  OBVIOUS
    <2>2. \A s : Write(s, i, "replace", TRUE, FALSE) => ListsIndInv'  BY <2>1, WriteKeeps, Zenon
    <2> QED  BY <1>1, <2>2, Zenon DEF SaveNode, SaveCarrier, SaveConfiguration
  <1>2. ASSUME NEW i \in Items, SaveProbe(i) \/ SaveRule(i) PROVE ListsIndInv'
    <2>1. /\ "push" \in {"push", "replace", "reload"} /\ "push" # "replace"
          /\ TRUE \in BOOLEAN /\ FALSE \in BOOLEAN
      OBVIOUS
    <2>2. \A s : Write(s, i, "push", FALSE, TRUE) => ListsIndInv'  BY <2>1, WriteKeeps, Zenon
    <2> QED  BY <1>2, <2>2, Zenon DEF SaveProbe, SaveRule
  <1>3. ASSUME NEW i \in Items,
               \/ SaveChannel(i) \/ SaveTarget(i) \/ SaveMeasurer(i) \/ UploadTheme(i) \/ InstallURL(i)
               \/ InstallMarket(i) \/ CreateKey(i) \/ CreateShare(i)
        PROVE  ListsIndInv'
    <2>1. /\ "reload" \in {"push", "replace", "reload"} /\ "reload" # "replace"
          /\ TRUE \in BOOLEAN /\ FALSE \in BOOLEAN
      OBVIOUS
    <2>2. \A s : /\ Write(s, i, "reload", FALSE, TRUE) => ListsIndInv'
                 /\ Write(s, i, "reload", TRUE, TRUE) => ListsIndInv'
                 /\ Write(s, i, "reload", TRUE, FALSE) => ListsIndInv'
      BY <2>1, WriteKeeps, Zenon
    <2> QED  BY <1>3, <2>2, Zenon DEF SaveChannel, SaveTarget, SaveMeasurer, UploadTheme, InstallURL,
                                      InstallMarket, CreateKey, CreateShare
  <1>8. ASSUME NEW i \in Items,
               \/ RemoveNode(i) \/ RemoveProbe(i) \/ RemoveRule(i) \/ RemoveChannel(i) \/ RemoveTarget(i)
               \/ RemoveMeasurer(i) \/ RemoveTheme(i) \/ RevokeKey(i) \/ RevokeShare(i) \/ RevokeSession(i)
        PROVE  ListsIndInv'
    <2>1. "drop" \in {"drop", "reload"} /\ "reload" \in {"drop", "reload"}  OBVIOUS
    <2>2. \A s : /\ Delete(s, i, "drop") => ListsIndInv'
                 /\ Delete(s, i, "reload") => ListsIndInv'
      BY <2>1, DeleteKeeps
    <2> QED  BY <1>8, <2>2, Zenon DEF RemoveNode, RemoveProbe, RemoveRule, RemoveChannel, RemoveTarget,
                                      RemoveMeasurer, RemoveTheme, RevokeKey, RevokeShare, RevokeSession
  <1>4. ASSUME NEW i \in Items, RevokeOthers(i) PROVE ListsIndInv'  BY <1>4, RevokeOthersKeeps
  <1>5. ASSUME NEW form \in BOOLEAN, ServeLoad(form) PROVE ListsIndInv'  BY <1>5, ServeLoadKeeps
  <1>6. ASSUME NEW k \in 1..Len(answers), Arrive(k) \/ Lose(k) PROVE ListsIndInv'
    BY <1>6, ArriveKeeps, LoseKeeps
  <1>7. ASSUME UNCHANGED listVars PROVE ListsIndInv'
    BY <1>7, Zenon DEF listVars, ListsIndInv, ListsTyped, MergesOne, ListedWasStored, StaysInAnswers,
                StaysInList, LastAgrees, Listing, InFlight
  <1> QED  BY <1>1, <1>2, <1>3, <1>4, <1>5, <1>6, <1>7, <1>8, Zenon

LEMMA ListsFollow == ListsIndInv => ListMatchesStore
  <1> SUFFICES ASSUME ListsIndInv PROVE ListMatchesStore  OBVIOUS
  <1>1. ListsTyped /\ LastAgrees  BY DEF ListsIndInv
  <1>2. FormReads \in 0..MaxInFlight /\ PageReads \in 0..MaxInFlight
    BY <1>1, ReadsCounted, ListsAssumption
  <1>3. \A f \in BOOLEAN : loadsSent[f] \in 0..MaxInFlight
    <2>1. loadsSent[TRUE] \in 0..MaxInFlight /\ loadsSent[FALSE] \in 0..MaxInFlight
      BY <1>2, Zenon DEF FormReads, PageReads
    <2> QED  BY <2>1, Zenon
  <1>4. loadsSent \in [BOOLEAN -> 0..MaxInFlight]  BY <1>1, <1>3, Zenon DEF ListsTyped
  <1>5. ListsTypeOK  BY <1>1, <1>4 DEF ListsTyped, ListsTypeOK
  <1>6. ASSUME InFlight = 0, ~disordered, ~lost PROVE listed = Listing
    <2>1. Len(answers) + FormReads + PageReads = 0  BY <1>6, Zenon DEF InFlight, FormReads, PageReads
    <2>2. Len(answers) = 0 /\ FormReads = 0 /\ PageReads = 0  BY <1>1, <2>1, ReadsCounted
    <2>3. loadsSent[TRUE] = 0 /\ loadsSent[FALSE] = 0  BY <2>2, Zenon DEF FormReads, PageReads
    <2>4. disordered = FALSE /\ lost = FALSE  BY <1>1, <1>6 DEF ListsTyped
    <2>5. \A k \in 1..Len(answers) : FALSE  BY <2>2
    <2>6. \A i \in Items : listed[i] = Listing[i]  BY <1>1, <2>3, <2>4, <2>5, Zenon DEF LastAgrees
    <2>7. Listing \in [Items -> 0..MaxWrites]  BY <1>1, ListingTyped
    <2> QED  BY <1>1, <2>6, <2>7 DEF ListsTyped
  <1> QED  BY <1>5, <1>6 DEF ListMatchesStore

\* However many saves, removals and reads of however many items overlap, a list with nothing
\* in flight shows what the server stores, unless an answer was lost or overtook an older one
\* about the same item.
THEOREM ListsShowTheStore == ListsSpec => []ListMatchesStore
  <1>1. ListsInit => ListsIndInv  BY ListsInitially
  <1>2. ListsIndInv /\ [ListsNext]_listVars => ListsIndInv'  BY ListsStep
  <1>3. ListsIndInv => ListMatchesStore  BY ListsFollow
  <1> QED  BY <1>1, <1>2, <1>3, PTL DEF ListsSpec
=============================================================================
