----------------------------- MODULE MCStalePRs -----------------------------
(* The ids guide, guide-x and guide/t; the title prefix was changed from   *)
(* "docs" to "chore", and branches had other names once.                   *)
EXTENDS StalePRs

CONSTANT nobody
Guide == <<"guide">>
GuideX == <<"guide", "-x">>
GuideT == <<"guide", "/", "t">>
MCIds == {Guide, GuideX, GuideT}
MCTemplates == {Guide, GuideT}

Labelled(t, head, title) == [template |-> t, head |-> head, title |-> title, labelled |-> TRUE]
Renamed(t) == Labelled(t, SyncBranch(t, "1"), updateMessage("docs", t, "1"))
OldBranch(t) == Labelled(t, <<"sync">> \o t, updateMessage("chore", t, "1"))
Legacy(t) == Labelled(t, <<"update">> \o t, legacyTitle(t))
Current(t) == Labelled(t, SyncBranch(t, "2"), updateMessage("docs", t, "2"))
Foreign == Labelled(nobody, <<"feature">>, <<"docs", ": update ", "guide">>)
MCKinds == {Current(Guide), Renamed(Guide), OldBranch(Guide), Legacy(Guide), Renamed(GuideT),
            OldBranch(GuideX), Foreign}
MCLegacyKinds == {Legacy(t) : t \in MCIds}
=============================================================================
