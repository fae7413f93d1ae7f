----------------------------- MODULE MCDictionary -----------------------------
(* Databases of up to two rows that are read, for Dictionary.               *)
EXTENDS Dictionary

\* The columns of four types of databases that dictionaries are made of.
Type2 == {"country_short", "country_long", "isp"}
Type4 == Type2 \cup {"region", "city"}
Type20 == Type4 \cup {"domain", "zipcode", "iddcode", "areacode", "weatherstationcode",
                      "weatherstationname", "mcc", "mnc", "mobilebrand"}

\* Rows of every type, in which strings of every level cannot be read.
NoRows == {<<>>}
CountryRows ==
  {[country_short |-> c, country_long |-> l, isp |-> i] :
     c \in {"P", "-", "", Unreadable}, l \in {"P", "Q", "", Unreadable},
     i \in {"R", "-", Unreadable}}
RegionRows ==
  {[country_short |-> c, country_long |-> l, region |-> r, city |-> t, isp |-> t] :
     c \in {"P", "Q", "-"}, l \in {"P", "Q"}, r \in {"R", "S", "-", Unreadable},
     t \in {"R", "-", Unreadable}}
Weather(c, w, k) ==
  [f \in Type20 |-> IF f = "country_short" THEN c
                    ELSE IF f \in {"weatherstationcode", "mcc"} THEN k
                    ELSE IF f \in {"weatherstationname", "mnc", "mobilebrand"} THEN w
                    ELSE "P"]
WeatherRows ==
  {Weather(c, w, k) : c \in {"P", "-"}, w \in {"W", "-", Unreadable},
                      k \in {"W", "K", "-", Unreadable}}

\* The rows that are read are arbitrary, the two behind them are not.
Padded(s) == s \o <<s[1], s[1]>>
Reading(rows) ==
  {[v4 |-> Padded(<<x, y>>), v6 |-> <<>>] : x, y \in rows}
    \cup {[v4 |-> Padded(<<x>>), v6 |-> Padded(<<y>>)] : x, y \in rows}
TwoRows(rows) ==
  {[v4 |-> <<x, x>>, v6 |-> SubSeq(<<x, x>>, 1, n)] : x \in rows, n \in 0 .. 2}
Typed(fields, tables) == {[fields |-> fields, v4 |-> t.v4, v6 |-> t.v6] : t \in tables}
Small(fields, rows) == Typed(fields, Reading(rows) \cup TwoRows(rows))

MCDatabases ==
  Small({}, NoRows) \cup Small(Type2, CountryRows)
    \cup Small(Type4, RegionRows) \cup Small(Type20, WeatherRows)

AllFields == {"country_long", "region", "city", "isp", "domain", "zipcode", "iddcode",
              "areacode", "mobilebrand", "weatherstationname", "weatherstationcode",
              "mcc", "mnc"}
MCMasks == {AllFields, AllFields \ {"city", "country_long", "weatherstationname"},
            AllFields \ {"region", "mnc", "weatherstationcode"}, {"city", "isp"}, {}}

\* Rows that are all different.
Row(c) == [country_short |-> c, country_long |-> c, isp |-> c]
FewDatabases ==
  Typed(Type2,
    {[v4 |-> s, v6 |-> t] : s \in {<<Row("P"), Row("Q")>>, <<Row("P"), Row("Q"), Row("P")>>},
       t \in {<<>>, <<Row("P"), Row("Q")>>, <<Row("P"), Row("Q"), Row("Q")>>}})
=============================================================================
