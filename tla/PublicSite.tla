----------------------------- MODULE PublicSite -----------------------------
(***************************************************************************)
(* The public pages together with the figures they draw: a behaviour is    *)
(* one of the page it is about, or of the charts.                          *)
(***************************************************************************)
EXTENDS PublicPages, Figures

SiteInit == PagesInit /\ FiguresInit /\ (page # "charts" => figure = "chart")

SiteNext ==
    \/ PagesNext /\ UNCHANGED figureVars
    \/ page = "charts" /\ FiguresNext /\ UNCHANGED pageVars

SiteSpec == SiteInit /\ [][SiteNext]_<<pageVars, figureVars>> /\ PagesFairness
=============================================================================
