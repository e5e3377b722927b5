---------------------------- MODULE MCConfigScreens ----------------------------
EXTENDS ConfigScreens

MCPlugins == <<"p1", "p2", "p3", "p4">>
MCCategories == {"p1", "p2", "p3", "p4", "c1", "c2", "c3"}
MCItems == {"i1", "i2", "i3", "i4"}

\* p1 has two sub categories, one of them with another one, and an item; p2 has
\* items only; p3 and p4 have nothing to configure.
MCSubs ==
    [c \in MCCategories |->
        CASE c = "p1" -> <<"c1", "c2">> [] c = "c1" -> <<"c3">> [] OTHER -> <<>>]
MCItemsOf ==
    [c \in MCCategories |->
        CASE c = "p1" -> <<"i1">> [] c = "c3" -> <<"i2">> [] c = "p2" -> <<"i3", "i4">>
          [] OTHER -> <<>>]
=============================================================================
