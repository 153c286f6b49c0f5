----------------------------- MODULE AdminLists -----------------------------
(***************************************************************************)
(* The lists of the admin console.  A section reads its list when it is    *)
(* mounted, and after a change either merges the answer into the list or   *)
(* reads the list again.  Several requests may be in flight; a request is  *)
(* modelled from the moment the server serves it, and its answer says what *)
(* the code awaiting it will do.  An item is modelled by the number of     *)
(* times it was written; Gone once it is removed.                          *)
(***************************************************************************)
EXTENDS Integers, Sequences

CONSTANTS Items, MaxWrites, MaxInFlight

ASSUME ListsAssumption == MaxWrites \in Nat \ {0} /\ MaxInFlight \in Nat \ {0} /\ "all" \notin Items

VARIABLES
    section,        \* the section that is mounted
    stored,         \* stored[i]: the server's item i
    listed,         \* listed[i]: item i in the section's list, 0 when it is not in it
    loadsSent,      \* loadsSent[f]: reads not served yet, f when a disabled form awaits it
    answers,        \* the answers in flight, in the order the server served them
    busy,           \* a request of a form that disables its button is in flight
    disordered,     \* history variable: an answer overtook an older one about the same item
    lost            \* history variable: a request failed after, or without, being served

listVars == <<section, stored, listed, loadsSent, answers, busy, disordered, lost>>

Sections == {"nodes", "probes", "carriers", "rules", "channels", "latency", "themes", "tokens", "sessions"}
Gone == MaxWrites + 1
Merges == {"push", "replace", "drop"}       \* what the awaiting code does with the answer,
Thens == Merges \cup {"reload", "list"}     \* "reload": it reads the list, "list": it is the list

Answer == [then : Thens, of : Items \cup {"all"}, is : [Items -> 0..MaxWrites], form : BOOLEAN]

ListsTypeOK ==
    /\ section \in Sections /\ stored \in [Items -> 0..Gone] /\ listed \in [Items -> 0..MaxWrites]
    /\ loadsSent \in [BOOLEAN -> 0..MaxInFlight] /\ answers \in Seq(Answer)
    /\ {busy, disordered, lost} \subseteq BOOLEAN

ListsInit ==
    /\ section \in Sections
    /\ stored \in [Items -> {0, 1}] /\ listed = [i \in Items |-> 0]
    /\ loadsSent = [f \in BOOLEAN |-> IF f THEN 0 ELSE 1] /\ answers = <<>> /\ busy = FALSE /\ disordered = FALSE /\ lost = FALSE

----------------------------------------------------------------------------
Listing == [i \in Items |-> IF stored[i] = Gone THEN 0 ELSE stored[i]]
InFlight == Len(answers) + loadsSent[TRUE] + loadsSent[FALSE]
Served(then, of, is, form) == Append(answers, [then |-> then, of |-> of, is |-> is, form |-> form])

\* A save of item i is served: a POST when the item is new, a PUT when it was listed; a PUT
\* of an item that was removed meanwhile is refused.
Write(s, i, then, form, creates) ==
    /\ section = s /\ InFlight < MaxInFlight /\ (form => ~busy)
    /\ stored[i] < MaxWrites /\ (listed[i] # 0 \/ (creates /\ stored[i] = 0))
    /\ stored' = [stored EXCEPT ![i] = @ + 1]
    /\ answers' = Served(then, i, [Listing EXCEPT ![i] = stored[i] + 1], form)
    /\ busy' = (busy \/ form)
    /\ UNCHANGED <<section, listed, loadsSent, disordered, lost>>

Delete(s, i, then) ==
    /\ section = s /\ InFlight < MaxInFlight
    /\ listed[i] # 0 /\ stored[i] # Gone
    /\ stored' = [stored EXCEPT ![i] = Gone]
    /\ answers' = Served(then, i, [Listing EXCEPT ![i] = 0], FALSE)
    /\ UNCHANGED <<section, listed, loadsSent, busy, disordered, lost>>

\* The saves and removals of the sections: what the answer is used for, whether the form is
\* disabled meanwhile, whether it may create an item.
SaveNode(i) == Write("nodes", i, "replace", TRUE, FALSE)
RemoveNode(i) == Delete("nodes", i, "drop")
SaveProbe(i) == Write("probes", i, "push", FALSE, TRUE)
RemoveProbe(i) == Delete("probes", i, "drop")
SaveCarrier(i) == Write("carriers", i, "replace", TRUE, FALSE)
SaveRule(i) == Write("rules", i, "push", FALSE, TRUE)
RemoveRule(i) == Delete("rules", i, "drop")
SaveChannel(i) == Write("channels", i, "reload", FALSE, TRUE)
RemoveChannel(i) == Delete("channels", i, "reload")
SaveTarget(i) == Write("latency", i, "reload", TRUE, TRUE)
RemoveTarget(i) == Delete("latency", i, "reload")
SaveMeasurer(i) == Write("latency", i, "reload", TRUE, FALSE)
RemoveMeasurer(i) == Delete("latency", i, "reload")
UploadTheme(i) == Write("themes", i, "reload", TRUE, TRUE)
InstallURL(i) == Write("themes", i, "reload", TRUE, TRUE)
InstallMarket(i) == Write("themes", i, "reload", TRUE, TRUE)
SaveConfiguration(i) == Write("themes", i, "replace", TRUE, FALSE)
RemoveTheme(i) == Delete("themes", i, "reload")
CreateKey(i) == Write("tokens", i, "reload", FALSE, TRUE)
RevokeKey(i) == Delete("tokens", i, "reload")
CreateShare(i) == Write("tokens", i, "reload", FALSE, TRUE)
RevokeShare(i) == Delete("tokens", i, "reload")
RevokeSession(i) == Delete("sessions", i, "reload")

\* revokeOthers: every session but i, the browser's own, ends on the server.
RevokeOthers(i) ==
    /\ section = "sessions" /\ InFlight < MaxInFlight /\ stored[i] \in 1..MaxWrites
    /\ stored' = [j \in Items |-> IF j # i /\ stored[j] # 0 THEN Gone ELSE stored[j]]
    /\ answers' = Served("reload", "all", Listing, FALSE)
    /\ UNCHANGED <<section, listed, loadsSent, busy, disordered, lost>>

ServeLoad(form) ==
    /\ loadsSent[form] > 0
    /\ loadsSent' = [loadsSent EXCEPT ![form] = @ - 1]
    /\ answers' = Served("list", "all", Listing, form)
    /\ UNCHANGED <<section, stored, listed, busy, disordered, lost>>

Overlap(a, b) == a.of = b.of \/ a.of = "all" \/ b.of = "all"
Without(k) == SubSeq(answers, 1, k - 1) \o SubSeq(answers, k + 1, Len(answers))

\* Fault: the answer to a save of an item that is not listed is dropped.
TakenReplacing(a) ==
    CASE a.then = "list" -> a.is
      [] a.then = "drop" -> [listed EXCEPT ![a.of] = 0]
      [] a.then \in {"push", "replace"} /\ listed[a.of] # 0 -> [listed EXCEPT ![a.of] = a.is[a.of]]
      [] OTHER -> listed

\* The list after the answer: the item is replaced or appended, replaced if it is there,
\* filtered out; or the whole list is the answer.
Taken(a) ==
    CASE a.then = "list" -> a.is
      [] a.then = "drop" -> [listed EXCEPT ![a.of] = 0]
      [] a.then = "push" \/ (a.then = "replace" /\ listed[a.of] # 0) ->
             [listed EXCEPT ![a.of] = a.is[a.of]]
      [] OTHER -> listed

\* The k-th answer arrives.  A form that reloads stays busy until the list is read.
Arrive(k) ==
    LET a == answers[k]
    IN  /\ listed' = Taken(a)
        /\ answers' = Without(k)
        /\ loadsSent' = IF a.then = "reload" THEN [loadsSent EXCEPT ![a.form] = @ + 1] ELSE loadsSent
        /\ busy' = (busy /\ ~(a.form /\ a.then # "reload"))
        /\ disordered' = (disordered \/ \E j \in 1..(k - 1) : Overlap(answers[j], a))
        /\ UNCHANGED <<section, stored, lost>>

\* The k-th answer is lost, or the reload that should follow it fails.
Lose(k) ==
    /\ answers' = Without(k) /\ lost' = TRUE
    /\ busy' = (busy /\ ~answers[k].form)
    /\ UNCHANGED <<section, stored, listed, loadsSent, disordered>>

ListsNext ==
    \/ \E i \in Items :
         \/ SaveNode(i) \/ RemoveNode(i) \/ SaveProbe(i) \/ RemoveProbe(i) \/ SaveCarrier(i)
         \/ SaveRule(i) \/ RemoveRule(i) \/ SaveChannel(i) \/ RemoveChannel(i)
         \/ SaveTarget(i) \/ RemoveTarget(i) \/ SaveMeasurer(i) \/ RemoveMeasurer(i)
         \/ UploadTheme(i) \/ InstallURL(i) \/ InstallMarket(i)
         \/ SaveConfiguration(i) \/ RemoveTheme(i)
         \/ CreateKey(i) \/ RevokeKey(i) \/ CreateShare(i) \/ RevokeShare(i)
         \/ RevokeSession(i) \/ RevokeOthers(i)
    \/ \E form \in BOOLEAN : ServeLoad(form)
    \/ \E k \in 1..Len(answers) : Arrive(k) \/ Lose(k)

ListsSpec == ListsInit /\ [][ListsNext]_listVars

----------------------------------------------------------------------------
\* However many saves, removals and reloads overlap, a list with nothing in flight shows
\* what the server stores, unless an answer was lost or overtook an older one about the
\* same item: merging into the list and reading it again agree.
ListMatchesStore ==
    ListsTypeOK /\ (InFlight = 0 /\ ~disordered /\ ~lost => listed = Listing)
=============================================================================
