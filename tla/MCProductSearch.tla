--------------------------- MODULE MCProductSearch ---------------------------
EXTENDS ProductSearch

MCMapDays == <<2, 1>>
\* An ultra-rapid center with two issues to try, a rapid one with a single file,
\* and one none of whose candidates is cataloged for the day.
MCIssues == [ultra |-> <<2, 1>>, rapid |-> <<1>>, none |-> << >>]

Ionex(center, cross, offline) ==
    [kind |-> "ionex", centers |-> <<center>>, cross |-> cross, offline |-> offline,
     conflict |-> FALSE]
Sp3(centers, offline, conflict) ==
    [kind |-> "sp3", centers |-> centers, cross |-> FALSE, offline |-> offline,
     conflict |-> conflict]

MCRequests ==
    {Ionex(c, x, o) : c \in {"prd1", "prd2"}, x \in BOOLEAN, o \in BOOLEAN} \union
    {Ionex("rapid", TRUE, FALSE)} \union
    {Sp3(cs, o, FALSE) : o \in BOOLEAN,
         cs \in {<<"ultra", "rapid">>, <<"rapid", "ultra">>, <<"ultra", "none">>,
                 <<"rapid", "rapid">>, <<"prd1">>}} \union
    {Sp3(<<"ultra", "rapid">>, FALSE, TRUE)}
=============================================================================
