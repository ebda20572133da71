---------------------------- MODULE MCAlgorithms ----------------------------
EXTENDS Algorithms
CONSTANTS i1

Date(d) == Line("auth_date", d)
Query == Line("query_id", "A")
User(u) == Line("user", u)
Person == [id |-> i1]

DatesUsed == {0, 1, 3, 4, OddDigits, Garbled}
UsersUsed == {Person, NoObject, Garbled}

MCLines == {Date(d) : d \in DatesUsed} \cup {Query} \cup {User(u) : u \in UsersUsed}

MCSigned ==
  {<<Date(d), Query, User(Person)>> : d \in DatesUsed}
    \cup {<<Date(1), Query, User(u)>> : u \in UsersUsed}
    \cup {<<Date(1)>>, <<Query, User(Person)>>}

\* The runs of lines within the messages of two dates, one of them expired.
Runs ==
  UNION {{SubSeq(m, i, j) : i \in 1..Len(m), j \in 1..Len(m)} :
           m \in {n \in MCSigned : n[1] \in {Date(0), Date(1), Query}}}
MCRecut ==
  {[lines |-> r, cut |-> c] : r \in {s \in Runs : Len(s) > 1}, c \in 1..2}

\* Alphabetical order: "auth_date" < "query_id" < "user", and of their values
\* "0" < "1" < "3" < "4" < "²" < "soon", "[1]" < "soon" < "{...}".
NameRank(line) ==
  CASE line.name = "auth_date" -> 0 [] line.name = "query_id" -> 1 [] OTHER -> 2
ValueRank(line) ==
  CASE line.name = "query_id" -> 0
    [] line.name = "user" -> IF line.value = NoObject THEN 5
                             ELSE IF line.value = Garbled THEN 6 ELSE 7
    [] OTHER -> IF line.value = OddDigits THEN 5
                ELSE IF line.value = Garbled THEN 6 ELSE line.value
RestRank(lines) ==
  IF Len(lines) = 1 THEN 0
  ELSE 10 * NameRank(lines[Len(lines)]) + ValueRank(lines[Len(lines)])
MCPlace(p) ==
  1000 * (2 * NameRank(p.lines[1]) + p.cut)
    + 100 * ValueRank(p.lines[1]) + RestRank(p.lines)
=============================================================================
