--------------------------- MODULE MCPublicPages ---------------------------
EXTENDS PublicSite

MCOverview(probes, latest) == [probes |-> probes, targets |-> {"x"}, latest |-> latest]
MCOverviews ==
    {[probes |-> {}, targets |-> {}, latest |-> <<>>],
     MCOverview({"a", "b"}, << <<"a", "x">>, <<"b", "x">> >>),
     MCOverview({"b"}, << <<"b", "x">> >>),
     MCOverview({"a"}, <<>>)}
MCLanguageLists == {<<"fr", "zh", "en">>, <<"fr">>}
MCLatencies == {-1, 20, 180}
MCBytes == {-5, 0, 42, 84, 85, 99, 100, 250}
=============================================================================
