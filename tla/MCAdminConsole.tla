--------------------------- MODULE MCAdminConsole ---------------------------
EXTENDS AdminConsole

MCEntries == {-1, 300}

Both(as) == [as |-> as, of |-> {"number", "word"}]
MCValues == {Absent, Both("list"), Both("text")}
MCDefaults == {Absent, Both("json")}
MCTyped == {[as |-> "text", of |-> {"word"}]}
=============================================================================
