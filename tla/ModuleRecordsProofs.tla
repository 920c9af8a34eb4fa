------------------------ MODULE ModuleRecordsProofs ------------------------
(***************************************************************************)
(* Proofs about ModuleRecords, for any users, instances and forms, and for *)
(* every order of events, saves, removals, changes of the clock and deaths *)
(* of the process: launches and clicks are counted exactly, and what was   *)
(* removed leaves no record, for all instances that are not disturbed.     *)
(***************************************************************************)
EXTENDS ModuleRecords, FiniteSetTheorems, TLAPS

-----------------------------------------------------------------------------
(* Maps that know some keys                                                *)

Maps(S, V) == UNION {[D -> V] : D \in SUBSET S}

\* A map is a function on a part of the keys.
LEMMA MapIs ==
    ASSUME NEW S, NEW V, NEW f
    PROVE  f \in Maps(S, V) <=>
             f = [x \in DOMAIN f |-> f[x]] /\ DOMAIN f \subseteq S /\ \A x \in DOMAIN f : f[x] \in V
<1>1. ASSUME f \in Maps(S, V)
      PROVE  f = [x \in DOMAIN f |-> f[x]] /\ DOMAIN f \subseteq S /\ \A x \in DOMAIN f : f[x] \in V
  <2>1. PICK D \in SUBSET S : f \in [D -> V]
    BY <1>1 DEF Maps
  <2> QED BY <2>1
<1>2. ASSUME f = [x \in DOMAIN f |-> f[x]], DOMAIN f \subseteq S, \A x \in DOMAIN f : f[x] \in V
      PROVE  f \in Maps(S, V)
  <2>1. f \in [DOMAIN f -> V] /\ DOMAIN f \in SUBSET S
    BY <1>2
  <2> QED BY <2>1 DEF Maps
<1> QED BY <1>1, <1>2

\* The map that knows nothing.
LEMMA EmptyMap == DOMAIN <<>> = {} /\ \A S, V : <<>> \in Maps(S, V)
<1>1. DOMAIN <<>> = {}
    OBVIOUS
<1>2. ASSUME NEW S, NEW V PROVE <<>> \in Maps(S, V)
  <2>1. <<>> \in [{} -> V] /\ {} \in SUBSET S
    OBVIOUS
  <2> QED BY <2>1 DEF Maps
<1> QED BY <1>1, <1>2

\* The entries of a second map take the place of those of the first.
LEMMA OverrideIs ==
    ASSUME NEW f, NEW g
    PROVE  /\ DOMAIN Override(f, g) = DOMAIN f \cup DOMAIN g
           /\ \A x \in DOMAIN g : Override(f, g)[x] = g[x]
           /\ \A x \in DOMAIN f \ DOMAIN g : Override(f, g)[x] = f[x]
BY DEF Override

\* They make a map of two maps.
LEMMA OverrideMap ==
    ASSUME NEW S, NEW V, NEW f \in Maps(S, V), NEW g \in Maps(S, V)
    PROVE  Override(f, g) \in Maps(S, V)
<1> DEFINE h == Override(f, g)
<1>1. h = [x \in DOMAIN h |-> h[x]]
    BY DEF Override
<1>2. /\ DOMAIN f \subseteq S /\ \A x \in DOMAIN f : f[x] \in V
      /\ DOMAIN g \subseteq S /\ \A x \in DOMAIN g : g[x] \in V
    BY MapIs, Zenon
<1>3. DOMAIN h \subseteq S /\ \A x \in DOMAIN h : h[x] \in V
    BY <1>2 DEF Override
<1> HIDE DEF h
<1>4. h \in Maps(S, V)
    BY <1>1, <1>3, MapIs, Zenon
<1> QED BY <1>4 DEF h

\* Entries are removed.
LEMMA WithoutIs ==
    ASSUME NEW f, NEW D
    PROVE  /\ DOMAIN Without(f, D) = DOMAIN f \ D
           /\ \A x \in DOMAIN f \ D : Without(f, D)[x] = f[x]
BY DEF Without, Restrict

\* A map is left.
LEMMA WithoutMap ==
    ASSUME NEW S, NEW V, NEW f \in Maps(S, V), NEW D
    PROVE  Without(f, D) \in Maps(S, V)
<1> DEFINE h == Without(f, D)
<1>1. h = [x \in DOMAIN h |-> h[x]]
    BY DEF Without, Restrict
<1>2. DOMAIN f \subseteq S /\ \A x \in DOMAIN f : f[x] \in V
    BY MapIs, Zenon
<1>3. DOMAIN h \subseteq S /\ \A x \in DOMAIN h : h[x] \in V
    BY <1>2 DEF Without, Restrict
<1> HIDE DEF h
<1>4. h \in Maps(S, V)
    BY <1>1, <1>3, MapIs, Zenon
<1> QED BY <1>4 DEF h

\* One entry is a map.
LEMMA EntryMap ==
    ASSUME NEW S, NEW V, NEW y \in S, NEW v \in V, NEW e, e = [x \in {y} |-> v]
    PROVE  DOMAIN e = {y} /\ e[y] = v /\ e \in Maps(S, V)
<1>1. e \in [{y} -> V] /\ {y} \in SUBSET S
    OBVIOUS
<1> QED BY <1>1 DEF Maps

-----------------------------------------------------------------------------
(* The state                                                               *)

FormRecord == [count_ : Nat, formLastUsedTime_ : Int]
ModuleRecord == [launchedCount_ : Nat, lastModuleUsedTime_ : Int, formRecords_ : Maps(Form, FormRecord)]
Service(n) == [up : BOOLEAN, records : Maps(UidsOf(n), ModuleRecord), name : Nat \cup {Unknown},
               begin : Nat, changed : BOOLEAN]
Row == [count : Nat, last : Int]
Rows == Maps(Uid, Row)
Table == [time : Nat, rows : Rows]
Typed(n, c) == c.s \in Service(n) /\ c.t \in Seq(Table)

\* A tick is a moment of the boot clock that has come; both clocks count from 1970.
TypeOK ==
    /\ svc = [n \in User |-> svc[n]] /\ \A n \in User : svc[n] \in Service(n)
    /\ tables \in Seq(Table)
    /\ boot \in Nat /\ offset \in Int /\ shot \in Int
    /\ boot + offset > 0 /\ boot + shot > 0
    /\ launches \in [Uid -> SUBSET (0..boot)] /\ saved \in [Uid -> SUBSET (0..boot)]
    /\ clicks \in [Uid -> [Form -> SUBSET (0..boot)]]
    /\ gone \subseteq Uid /\ disturbed \subseteq Uid
    /\ events \in Nat /\ jumps \in Nat /\ deaths \in Nat

\* Constants by themselves.
LEMMA Constants ==
    /\ IsFiniteSet(Uid) /\ UserOf \in [Uid -> Nat]
    /\ Day \in Nat \ {0} /\ StartTime \in Nat \ {0} /\ ClockJump \subseteq Int \ {0}
    /\ \A u \in Uid : UserOf[u] \in User /\ u \in UidsOf(UserOf[u])
    /\ User \subseteq Nat
BY RecordsAssumption DEF User, UidsOf

\* The start of a day is a time since 1970.
LEMMA DayIsTime == ASSUME NEW t \in Int, t > 0 PROVE DayOf(t) \in Nat /\ DayOf(t) <= t
<1>1. t % Day \in 0..(Day - 1) /\ t % Day <= t
    BY Constants
<1> QED BY <1>1, Constants DEF DayOf

-----------------------------------------------------------------------------
(* Rows and tables                                                         *)

HasRow(u, t) == t # <<>> /\ u \in DOMAIN t[1].rows

\* Records are of the user's instances.
LEMMA RecordIn ==
    ASSUME NEW n, NEW c, Typed(n, c), NEW u \in DOMAIN c.s.records
    PROVE  u \in UidsOf(n) /\ c.s.records[u] \in ModuleRecord
<1>1. c.s.records \in Maps(UidsOf(n), ModuleRecord)
    BY DEF Typed, Service
<1> DEFINE records == c.s.records
           S == UidsOf(n)
           V == ModuleRecord
<1>2. records \in Maps(S, V) /\ u \in DOMAIN records
    BY <1>1
<1> HIDE DEF records, S, V
<1>3. DOMAIN records \subseteq S /\ \A v \in DOMAIN records : records[v] \in V
    BY <1>2, MapIs, Zenon
<1>4. u \in S /\ records[u] \in V
    BY <1>2, <1>3
<1> QED BY <1>4 DEF records, S, V

\* The only table, if there is one, is the one the service knows of.
Match(c) == c.t # <<>> /\ c.t[1].time = c.s.name

\* The rows are those of a table.
LEMMA RowsOfIs ==
    ASSUME NEW n, NEW c, Typed(n, c)
    PROVE  /\ RowsOf(c) \in Rows
           /\ Len(c.t) <= 1 => RowsOf(c) = IF Match(c) THEN c.t[1].rows ELSE <<>>
<1>1. CASE Named(c.t, c.s.name) = {}
  <2>1. RowsOf(c) = <<>>
    BY <1>1 DEF RowsOf
  <2>2. c.t # <<>> => 1 \in DOMAIN c.t
    BY DEF Typed
  <2>3. ~Match(c)
    BY <1>1, <2>2 DEF Match, Named
  <2> QED BY <2>1, <2>3, EmptyMap DEF Rows
<1>2. CASE Named(c.t, c.s.name) # {}
  <2>1. PICK i \in Named(c.t, c.s.name) : RowsOf(c) = c.t[i].rows
    BY <1>2 DEF RowsOf
  <2>2. i \in DOMAIN c.t /\ c.t[i].time = c.s.name
    BY <2>1 DEF Named
  <2>3. c.t[i] \in Table
    BY <2>2 DEF Typed
  <2>4. Len(c.t) <= 1 => i = 1 /\ c.t # <<>>
    BY <2>2 DEF Typed
  <2> QED BY <2>1, <2>2, <2>3, <2>4 DEF Table, Match
<1> QED BY <1>1, <1>2

\* Replacing rows changes no more than them.
LEMMA WithRowsIs ==
    ASSUME NEW n, NEW c, Typed(n, c), NEW rows \in Rows
    PROVE  /\ WithRows(c, rows).s = c.s /\ WithRows(c, rows).t \in Seq(Table)
           /\ Len(WithRows(c, rows).t) = Len(c.t)
           /\ c.t # <<>> =>
                /\ WithRows(c, rows).t # <<>>
                /\ WithRows(c, rows).t[1] =
                     [time |-> c.t[1].time, rows |-> IF Match(c) THEN rows ELSE c.t[1].rows]
           /\ c.t = <<>> => WithRows(c, rows).t = <<>>
<1> DEFINE Entry(i) == IF c.t[i].time = c.s.name THEN [time |-> c.s.name, rows |-> rows] ELSE c.t[i]
           w == [i \in DOMAIN c.t |-> Entry(i)]
<1>1. WithRows(c, rows) = [s |-> c.s, t |-> w]
    BY DEF WithRows
<1>2. DOMAIN c.t = 1..Len(c.t) /\ Len(c.t) \in Nat
    BY DEF Typed
<1>3. ASSUME NEW i \in DOMAIN c.t
      PROVE  c.t[i] \in Table /\ Entry(i) \in Table
  <2>1. c.t[i] \in Table
    BY DEF Typed
  <2> QED BY <2>1 DEF Table
<1>4. w \in Seq(Table) /\ Len(w) = Len(c.t)
    BY <1>2, <1>3
<1>5. ASSUME c.t # <<>>
      PROVE  w # <<>> /\ w[1] = [time |-> c.t[1].time, rows |-> IF Match(c) THEN rows ELSE c.t[1].rows]
  <2>1. 1 \in DOMAIN c.t
    BY <1>5 DEF Typed
  <2>2. w[1] = Entry(1) /\ c.t[1] \in Table
    BY <2>1, <1>3
  <2>3. c.t[1] = [time |-> c.t[1].time, rows |-> c.t[1].rows]
    BY <2>2 DEF Table
  <2>4. w # <<>>
    BY <1>2, <2>1
  <2> QED BY <1>5, <2>2, <2>3, <2>4 DEF Match
<1>6. c.t = <<>> => w = <<>>
    BY <1>2
<1> HIDE DEF w
<1> QED BY <1>1, <1>4, <1>5, <1>6

\* What a step does to the rows of a service leaves those of other services alone.
Keeps(D, t, w) ==
    /\ Len(t) <= Len(w)
    /\ Len(w) <= 1 =>
        /\ t # <<>> => w # <<>> /\ w[1].time = t[1].time
        /\ \A v \in D : /\ HasRow(v, w) <=> HasRow(v, t)
                        /\ HasRow(v, t) => w[1].rows[v] = t[1].rows[v]

\* One step after another.
LEMMA KeepsOn ==
    ASSUME NEW D, NEW t \in Seq(Table), NEW w \in Seq(Table), NEW x \in Seq(Table),
           Keeps(D, t, w), Keeps(D, w, x)
    PROVE  Keeps(D, t, x)
<1>1. Len(t) \in Nat /\ Len(w) \in Nat /\ Len(x) \in Nat
    OBVIOUS
<1>2. Len(t) <= Len(w) /\ Len(w) <= Len(x)
    BY DEF Keeps
<1>3. Len(t) <= Len(x) /\ (Len(x) <= 1 => Len(w) <= 1)
    BY <1>1, <1>2
<1> QED BY <1>3 DEF Keeps

\* No step.
LEMMA KeepsSame == \A D : \A t \in Seq(Table) : Keeps(D, t, t)
BY DEF Keeps

\* The table is made, if the service knows of none.
LEMMA CreateIs ==
    ASSUME NEW n, NEW c, Typed(n, c), NEW D
    PROVE  LET d == CreateRecordTable(c)
           IN  /\ Typed(n, d) /\ Keeps(D, c.t, d.t)
               /\ d.s.up = c.s.up /\ d.s.records = c.s.records /\ d.s.begin = c.s.begin
               /\ d.s.changed = c.s.changed
               /\ d.s.name = IF c.s.name = Unknown THEN c.s.begin ELSE c.s.name
               /\ c.s.name # Unknown => d = c
               /\ c.s.name = Unknown /\ Len(d.t) <= 1 =>
                    /\ Match(d)
                    /\ d.t[1].rows = IF c.t = <<>> THEN <<>> ELSE c.t[1].rows
<1> DEFINE d == CreateRecordTable(c)
           s == [c.s EXCEPT !.name = c.s.begin]
           new == [time |-> c.s.begin, rows |-> <<>>]
<1>1. CASE c.s.name # Unknown
  <2>1. d = c
    BY <1>1 DEF CreateRecordTable
  <2> QED BY <1>1, <2>1, KeepsSame DEF Typed
<1>2. CASE c.s.name = Unknown
  <2>1. s \in Service(n) /\ s.up = c.s.up /\ s.records = c.s.records /\ s.begin = c.s.begin
        /\ s.changed = c.s.changed /\ s.name = c.s.begin /\ c.s.begin \in Nat
    BY DEF Typed, Service
  <2> HIDE DEF s
  <2>2. CASE Named(c.t, c.s.begin) # {}
    <3>1. d = [s |-> s, t |-> c.t]
      BY <1>2, <2>2 DEF CreateRecordTable, s
    <3>2. d.s = s /\ d.t = c.t
      BY <3>1
    <3>3. PICK i \in DOMAIN c.t : c.t[i].time = c.s.begin
      BY <2>2 DEF Named
    <3>4. Len(c.t) <= 1 => i = 1 /\ c.t # <<>>
      BY DEF Typed
    <3> QED BY <1>2, <2>1, <3>2, <3>3, <3>4, KeepsSame DEF Typed, Match
  <2>3. CASE Named(c.t, c.s.begin) = {}
    <3>1. d = [s |-> s, t |-> Append(c.t, new)]
      BY <1>2, <2>3 DEF CreateRecordTable, s
    <3>2. d.s = s /\ d.t = Append(c.t, new)
      BY <3>1
    <3>3. new \in Table
      BY <2>1, EmptyMap DEF Table, Rows
    <3>4. c.t \in Seq(Table)
      BY DEF Typed
    <3>5. d.t \in Seq(Table) /\ Len(d.t) = Len(c.t) + 1 /\ Len(c.t) \in Nat
      BY <3>2, <3>3, <3>4
    <3>6. Len(d.t) <= 1 => c.t = <<>> /\ d.t # <<>> /\ d.t[1] = new
      BY <3>2, <3>3, <3>4, <3>5
    <3>7. Keeps(D, c.t, d.t)
      BY <3>5, <3>6, EmptyMap DEF Keeps, HasRow
    <3> QED BY <1>2, <2>1, <3>2, <3>5, <3>6, <3>7 DEF Typed, Match
  <2> QED BY <2>2, <2>3
<1> QED BY <1>1, <1>2

-----------------------------------------------------------------------------
(* What a save does                                                        *)

\* The service knows of no table, or of the only one.
Linked(c) == c.s.name = Unknown \/ Match(c)

\* The records are in the rows; the rows of what has no record stay.
InRow(u, c, d) ==
    IF u \in DOMAIN c.s.records
    THEN HasRow(u, d.t) /\ d.t[1].rows[u] = RowOf(c.s.records[u], d.s.name)
    ELSE (HasRow(u, d.t) <=> HasRow(u, c.t)) /\ (HasRow(u, c.t) => d.t[1].rows[u] = c.t[1].rows[u])
InRows(c, d) == \A u \in Uid : InRow(u, c, d)

Saving(n, c, d) ==
    /\ Typed(n, d) /\ Keeps(Uid \ UidsOf(n), c.t, d.t)
    /\ d.s.up = c.s.up /\ d.s.records = c.s.records
    /\ DOMAIN c.s.records = {} => d.t = c.t /\ d.s.name = c.s.name
    /\ DOMAIN c.s.records # {} =>
         /\ d.s.name = IF c.s.name = Unknown THEN c.s.begin ELSE c.s.name
         /\ Linked(c) /\ Len(d.t) <= 1 => Match(d) /\ InRows(c, d)

\* The row of a record has a number of launches and a time.
LEMMA RowTyped ==
    ASSUME NEW r \in ModuleRecord, NEW base \in Int
    PROVE  RowOf(r, base) \in Row
BY DEF Row, ModuleRecord, RowOf, Relative, Never

\* The rows that are written.
LEMMA NewRows ==
    ASSUME NEW n \in User, NEW s \in Service(n), NEW base \in Int
    PROVE  LET new == [u \in DOMAIN s.records |-> RowOf(s.records[u], base)]
           IN  /\ new \in Rows /\ DOMAIN new = DOMAIN s.records /\ DOMAIN new \subseteq UidsOf(n)
               /\ \A u \in DOMAIN new : new[u] = RowOf(s.records[u], base)
<1> DEFINE new == [u \in DOMAIN s.records |-> RowOf(s.records[u], base)]
<1>1. s.records \in Maps(UidsOf(n), ModuleRecord)
    BY DEF Service
<1>2. DOMAIN s.records \subseteq UidsOf(n) /\ \A u \in DOMAIN s.records : s.records[u] \in ModuleRecord
    BY <1>1, MapIs, Zenon
<1>3. UidsOf(n) \subseteq Uid
    BY DEF UidsOf
<1>4. \A u \in DOMAIN s.records : RowOf(s.records[u], base) \in Row
    BY <1>2, RowTyped
<1>5. new \in [DOMAIN s.records -> Row] /\ DOMAIN s.records \in SUBSET Uid
    BY <1>2, <1>3, <1>4
<1>6. new \in Rows
    BY <1>5 DEF Rows, Maps
<1> QED BY <1>2, <1>6

\* UpdateModuleData is a save.
LEMMA UpdateIs ==
    ASSUME NEW n \in User, NEW c, Typed(n, c), DOMAIN c.s.records # {}
    PROVE  Saving(n, c, UpdateModuleData(c)) /\ UpdateModuleData(c).s.begin = c.s.begin
<1> DEFINE D == Uid \ UidsOf(n)
           e == CreateRecordTable(c)
           new == [u \in DOMAIN c.s.records |-> RowOf(c.s.records[u], e.s.name)]
           rows == Override(RowsOf(e), new)
           d == WithRows(e, rows)
<1>1. UpdateModuleData(c) = d
    BY DEF UpdateModuleData
<1>2. /\ Typed(n, e) /\ Keeps(D, c.t, e.t)
      /\ e.s.up = c.s.up /\ e.s.records = c.s.records /\ e.s.begin = c.s.begin
      /\ e.s.name = IF c.s.name = Unknown THEN c.s.begin ELSE c.s.name
      /\ c.s.name # Unknown => e = c
      /\ c.s.name = Unknown /\ Len(e.t) <= 1 =>
            Match(e) /\ e.t[1].rows = IF c.t = <<>> THEN <<>> ELSE c.t[1].rows
    BY CreateIs
<1> HIDE DEF e
<1>3. e.s.name \in Nat
  <2>1. c.s.name \in Nat \cup {Unknown} /\ c.s.begin \in Nat
    BY DEF Typed, Service
  <2> QED BY <1>2, <2>1
<1>4. /\ new \in Rows /\ DOMAIN new = DOMAIN c.s.records /\ DOMAIN new \subseteq UidsOf(n)
      /\ \A u \in DOMAIN new : new[u] = RowOf(c.s.records[u], e.s.name)
    BY <1>3, NewRows DEF Typed
<1> HIDE DEF new
<1>5. /\ RowsOf(e) \in Rows
      /\ Len(e.t) <= 1 => RowsOf(e) = IF Match(e) THEN e.t[1].rows ELSE <<>>
    BY <1>2, RowsOfIs
<1>6. rows \in Rows
    BY <1>4, <1>5, OverrideMap DEF Rows
<1>7. /\ DOMAIN rows = DOMAIN RowsOf(e) \cup DOMAIN new
      /\ \A x \in DOMAIN new : rows[x] = new[x]
      /\ \A x \in DOMAIN RowsOf(e) \ DOMAIN new : rows[x] = RowsOf(e)[x]
    BY OverrideIs, Zenon
<1> HIDE DEF rows
<1>8. /\ d.s = e.s /\ d.t \in Seq(Table) /\ Len(d.t) = Len(e.t)
      /\ e.t # <<>> =>
           /\ d.t # <<>>
           /\ d.t[1] = [time |-> e.t[1].time, rows |-> IF Match(e) THEN rows ELSE e.t[1].rows]
      /\ e.t = <<>> => d.t = <<>>
    BY <1>2, <1>6, WithRowsIs
<1> HIDE DEF d
<1>9. Typed(n, d)
    BY <1>2, <1>8 DEF Typed
<1>10. /\ d.t # <<>> <=> e.t # <<>>
       /\ e.t # <<>> => /\ d.t[1].time = e.t[1].time
                        /\ d.t[1].rows = IF Match(e) THEN rows ELSE e.t[1].rows
    BY <1>8
<1>11. Keeps(D, e.t, d.t)
  <2>1. ASSUME Len(d.t) <= 1, NEW v \in D
        PROVE  /\ HasRow(v, d.t) <=> HasRow(v, e.t)
               /\ HasRow(v, e.t) => d.t[1].rows[v] = e.t[1].rows[v]
    <3>1. v \notin DOMAIN new
      BY <1>4
    <3>2. CASE Match(e)
      <4>1. RowsOf(e) = e.t[1].rows /\ e.t # <<>>
        BY <1>5, <1>8, <2>1, <3>2 DEF Match
      <4>2. d.t[1].rows = rows
        BY <1>10, <3>2, <4>1
      <4> QED BY <1>7, <1>10, <3>1, <4>1, <4>2 DEF HasRow
    <3>3. CASE ~Match(e)
      BY <1>10, <3>3 DEF HasRow
    <3> QED BY <3>2, <3>3
  <2>2. Len(e.t) \in Nat
    BY <1>2 DEF Typed
  <2> HIDE DEF D
  <2> QED BY <1>8, <1>10, <2>1, <2>2 DEF Keeps
<1>12. Keeps(D, c.t, d.t)
    BY <1>2, <1>9, <1>11, KeepsOn DEF Typed
<1>13. ASSUME Linked(c), Len(d.t) <= 1
       PROVE  Match(d) /\ InRows(c, d)
  <2>1. Match(e) /\ DOMAIN e.t[1].rows = IF c.t = <<>> THEN {} ELSE DOMAIN c.t[1].rows
    BY <1>2, <1>8, <1>13, EmptyMap DEF Linked, Match
  <2>2. c.t # <<>> => e.t[1].rows = c.t[1].rows
    BY <1>2, <1>8, <1>13 DEF Linked, Match
  <2>3. e.t # <<>> /\ d.t[1].rows = rows /\ d.t # <<>>
    BY <1>10, <2>1 DEF Match
  <2>4. Match(d)
    BY <1>8, <1>10, <2>1, <2>3 DEF Match
  <2>5. RowsOf(e) = e.t[1].rows
    BY <1>5, <1>8, <1>13, <2>1
  <2>6. InRows(c, d)
    BY <1>4, <1>7, <1>8, <2>1, <2>2, <2>3, <2>5 DEF InRows, InRow, HasRow
  <2> QED BY <2>4, <2>6
<1>14. d.s.up = c.s.up /\ d.s.records = c.s.records /\ d.s.begin = c.s.begin
       /\ d.s.name = IF c.s.name = Unknown THEN c.s.begin ELSE c.s.name
    BY <1>2, <1>8
<1>15. Saving(n, c, d)
  <2> HIDE DEF D
  <2> QED BY <1>9, <1>12, <1>13, <1>14 DEF Saving, D
<1> QED BY <1>1, <1>14, <1>15

\* RestoreStats is a save, or does nothing.
LEMMA RestoreIs ==
    ASSUME NEW n \in User, NEW c, Typed(n, c), NEW forced \in BOOLEAN
    PROVE  LET d == RestoreStats(c, forced)
           IN  IF c.s.changed \/ forced
               THEN Saving(n, c, d) /\ d.s.begin = c.s.begin
               ELSE d = c
<1> DEFINE d == RestoreStats(c, forced)
           restored == IF DOMAIN c.s.records = {} THEN c ELSE UpdateModuleData(c)
           s == [restored.s EXCEPT !.changed = FALSE]
<1>1. CASE ~(c.s.changed \/ forced)
  <2>1. d = c
    BY <1>1 DEF RestoreStats
  <2> QED BY <1>1, <2>1
<1>2. CASE c.s.changed \/ forced
  <2>1. d = [s |-> s, t |-> restored.t]
    BY <1>2 DEF RestoreStats
  <2>2. d.s = s /\ d.t = restored.t
    BY <2>1
  <2>3. Saving(n, c, restored) /\ restored.s.begin = c.s.begin
    <3>1. CASE DOMAIN c.s.records = {}
      <4>1. restored = c
        BY <3>1
      <4> HIDE DEF restored
      <4>2. Keeps(Uid \ UidsOf(n), c.t, c.t)
        BY KeepsSame DEF Typed
      <4> QED BY <3>1, <4>1, <4>2 DEF Saving
    <3>2. CASE DOMAIN c.s.records # {}
      <4>1. restored = UpdateModuleData(c)
        BY <3>2
      <4> HIDE DEF restored
      <4> QED BY <3>2, <4>1, UpdateIs
    <3> QED BY <3>1, <3>2
  <2> HIDE DEF restored
  <2>4. restored.s \in Service(n)
    BY <2>3 DEF Saving, Typed
  <2>5. s \in Service(n) /\ s.up = restored.s.up /\ s.records = restored.s.records
        /\ s.begin = restored.s.begin /\ s.name = restored.s.name
    BY <2>4 DEF Service
  <2> HIDE DEF s
  <2>6. Typed(n, d) /\ d.s.begin = c.s.begin
    BY <2>2, <2>3, <2>5 DEF Saving, Typed
  <2>7. Match(restored) => Match(d)
    BY <2>2, <2>5 DEF Match
  <2>8. InRows(c, restored) => InRows(c, d)
    BY <2>2, <2>5, Zenon DEF InRows, InRow
  <2>9. Saving(n, c, d)
    BY <2>2, <2>3, <2>5, <2>6, <2>7, <2>8 DEF Saving
  <2> QED BY <1>2, <2>6, <2>9
<1> QED BY <1>1, <1>2

\* The start of a day and the mark are set.
LEMMA ActiveIs ==
    ASSUME NEW n \in User, NEW c, Typed(n, c), NEW t \in Int, t > 0
    PROVE  LET d == LoadActiveStats(c, t)
           IN  /\ Typed(n, d) /\ d.t = c.t
               /\ d.s.up = c.s.up /\ d.s.records = c.s.records /\ d.s.name = c.s.name
               /\ d.s.begin = DayOf(t)
<1> DEFINE s == [c.s EXCEPT !.begin = DayOf(t), !.changed = FALSE]
           d == LoadActiveStats(c, t)
<1>1. DayOf(t) \in Nat
    BY DayIsTime
<1>2. s \in Service(n) /\ s.up = c.s.up /\ s.records = c.s.records /\ s.name = c.s.name
      /\ s.begin = DayOf(t)
    BY <1>1 DEF Typed, Service
<1> HIDE DEF s
<1>3. d = [s |-> s, t |-> c.t]
    BY DEF LoadActiveStats, s
<1>4. d.s = s /\ d.t = c.t
    BY <1>3
<1> QED BY <1>2, <1>4 DEF Typed

\* Whether the service knows the right table, and what is in the rows, does not depend on
\* the start of the day.
LEMMA SavingOn ==
    ASSUME NEW n \in User, NEW c, NEW d, NEW e, NEW f, Typed(n, c),
           Saving(n, c, d), Typed(n, e), e.t = d.t, e.s.up = d.s.up,
           e.s.records = d.s.records, e.s.name = d.s.name, Saving(n, e, f)
    PROVE  Saving(n, c, f)
<1>1. Typed(n, f) /\ f.s.up = c.s.up /\ f.s.records = c.s.records
    BY DEF Saving
<1>2. Keeps(Uid \ UidsOf(n), c.t, f.t)
    BY KeepsOn DEF Saving, Typed
<1>3. ASSUME DOMAIN c.s.records = {}
      PROVE  f.t = c.t /\ f.s.name = c.s.name
    BY <1>3 DEF Saving
<1>4. ASSUME DOMAIN c.s.records # {}
      PROVE  /\ f.s.name = IF c.s.name = Unknown THEN c.s.begin ELSE c.s.name
             /\ f.s.name = e.s.name
  <2>1. c.s.name \in Nat \cup {Unknown} /\ c.s.begin \in Nat
    BY DEF Typed, Service
  <2>2. d.s.name = (IF c.s.name = Unknown THEN c.s.begin ELSE c.s.name) /\ d.s.name # Unknown
    BY <1>4, <2>1 DEF Saving, Unknown
  <2>3. DOMAIN e.s.records # {}
    BY <1>4 DEF Saving
  <2> QED BY <2>2, <2>3 DEF Saving
<1>5. ASSUME DOMAIN c.s.records # {}, Linked(c), Len(f.t) <= 1
      PROVE  Match(f) /\ InRows(c, f)
  <2>1. Len(d.t) <= Len(f.t) /\ Len(d.t) \in Nat /\ Len(f.t) \in Nat
    BY DEF Saving, Keeps, Typed
  <2>2. Len(d.t) <= 1
    BY <1>5, <2>1
  <2>3. Match(d) /\ InRows(c, d)
    BY <1>5, <2>2 DEF Saving
  <2>4. Linked(e) /\ DOMAIN e.s.records # {}
    BY <1>5, <2>3 DEF Saving, Linked, Match
  <2>5. Match(f) /\ InRows(e, f)
    BY <1>5, <2>4 DEF Saving
  <2>6. e.s.records = c.s.records /\ f.s.name = d.s.name
    BY <1>4, <1>5 DEF Saving
  <2>7. InRows(c, f)
    <3> SUFFICES ASSUME NEW u \in Uid PROVE InRow(u, c, f)
      BY DEF InRows
    <3>1. CASE u \in DOMAIN c.s.records
      BY <2>5, <2>6, <3>1 DEF InRows, InRow
    <3>2. CASE u \notin DOMAIN c.s.records
      <4>1. (HasRow(u, f.t) <=> HasRow(u, e.t)) /\ (HasRow(u, e.t) => f.t[1].rows[u] = e.t[1].rows[u])
        BY <2>5, <2>6, <3>2 DEF InRows, InRow
      <4>2. (HasRow(u, d.t) <=> HasRow(u, c.t)) /\ (HasRow(u, c.t) => d.t[1].rows[u] = c.t[1].rows[u])
        BY <2>3, <3>2 DEF InRows, InRow
      <4> QED BY <3>2, <4>1, <4>2 DEF InRow
    <3> QED BY <3>1, <3>2
  <2> QED BY <2>5, <2>7
<1> QED BY <1>1, <1>2, <1>3, <1>4, <1>5 DEF Saving

\* At the end of the day the records are saved, and else nothing is done.
LEMMA RenewIs ==
    ASSUME NEW n \in User, NEW c, Typed(n, c), NEW t \in Int, t > 0
    PROVE  IF t < c.s.begin + Day THEN RenewIfExpired(c, t) = c
           ELSE Saving(n, c, RenewIfExpired(c, t))
<1>1. CASE t < c.s.begin + Day
    BY <1>1 DEF RenewIfExpired
<1>2. CASE ~(t < c.s.begin + Day)
  <2> DEFINE d == RestoreStats(c, TRUE)
             e == LoadActiveStats(d, t)
             f == RestoreStats(e, TRUE)
  <2>1. RenewIfExpired(c, t) = f
    BY <1>2 DEF RenewIfExpired
  <2>2. Saving(n, c, d)
    BY RestoreIs
  <2>3. Typed(n, d)
    BY <2>2 DEF Saving
  <2> HIDE DEF d
  <2>4. /\ Typed(n, e) /\ e.t = d.t /\ e.s.up = d.s.up
        /\ e.s.records = d.s.records /\ e.s.name = d.s.name
    BY <2>3, ActiveIs
  <2> HIDE DEF e
  <2>5. Saving(n, e, f)
    BY <2>4, RestoreIs
  <2> HIDE DEF f
  <2>6. Saving(n, c, f)
    BY <2>2, <2>4, <2>5, SavingOn
  <2> QED BY <1>2, <2>1, <2>6
<1> QED BY <1>1, <1>2

\* One save after another is a save.
LEMMA SavingTwice ==
    ASSUME NEW n \in User, NEW c, NEW d, NEW f, Typed(n, c), Saving(n, c, d), Saving(n, d, f)
    PROVE  Saving(n, c, f)
BY SavingOn DEF Saving

\* The end of the day and a save are a save.
LEMMA RenewedAndSaved ==
    ASSUME NEW n \in User, NEW c, Typed(n, c), NEW t \in Int, t > 0
    PROVE  Saving(n, c, RestoreStats(RenewIfExpired(c, t), TRUE))
<1> DEFINE d == RenewIfExpired(c, t)
           f == RestoreStats(d, TRUE)
<1>1. d = c \/ Saving(n, c, d)
    BY RenewIs
<1>2. Typed(n, d)
    BY <1>1 DEF Saving
<1> HIDE DEF d
<1>3. Saving(n, d, f)
    BY <1>2, RestoreIs
<1> HIDE DEF f
<1>4. Saving(n, c, f)
    BY <1>1, <1>3, SavingTwice
<1> QED BY <1>4 DEF f, d

-----------------------------------------------------------------------------
(* What a change of the table's name and a load do                         *)

\* The only table gets another name, if the service knows it; no table is added.
Renamed(n, c, diff, d) ==
    /\ Typed(n, d) /\ Len(d.t) = Len(c.t)
    /\ d.s.up = c.s.up /\ d.s.records = c.s.records /\ d.s.begin = c.s.begin
    /\ c.s.name = Unknown => d = c
    /\ Len(c.t) <= 1 /\ Match(c) /\ diff # 0 /\ c.s.name + diff >= 0 =>
         /\ d.s.name = c.s.name + diff /\ d.t # <<>>
         /\ d.t[1] = [time |-> c.s.name + diff, rows |-> c.t[1].rows]

\* A rename moves the only table the service knows, or does nothing.
LEMMA RenameIs ==
    ASSUME NEW n \in User, NEW c, Typed(n, c), NEW diff \in Int
    PROVE  Renamed(n, c, diff, RenewTableTime(c, diff))
<1> DEFINE d == RenewTableTime(c, diff)
           time == c.s.name + diff
           refused == Named(c.t, c.s.name) = {} \/ Named(c.t, time) # {} \/ time < 0
           s == [c.s EXCEPT !.name = time]
           Entry(i) == IF c.t[i].time = c.s.name THEN [time |-> time, rows |-> c.t[i].rows] ELSE c.t[i]
           w == [i \in DOMAIN c.t |-> Entry(i)]
<1>1. c.s.name \in Nat \cup {Unknown} /\ c.s.name \in Int /\ time \in Int
    BY DEF Typed, Service, Unknown
<1>2. \A i \in DOMAIN c.t : c.t[i] \in Table /\ c.t[i].time \in Nat
  <2>1. \A i \in DOMAIN c.t : c.t[i] \in Table
    BY DEF Typed
  <2> QED BY <2>1 DEF Table
<1>3. c.s.name = Unknown => refused
    BY <1>2 DEF Named, Unknown
<1>4. refused => d = c
    BY DEF RenewTableTime
<1>5. ASSUME ~refused
      PROVE  /\ d.s = s /\ d.t = w
             /\ s \in Service(n) /\ s.up = c.s.up /\ s.records = c.s.records /\ s.begin = c.s.begin
             /\ s.name = time /\ w \in Seq(Table) /\ Len(w) = Len(c.t)
  <2>1. d = [s |-> s, t |-> w]
    BY <1>5 DEF RenewTableTime
  <2>2. time \in Nat
    BY <1>1, <1>5
  <2> HIDE DEF time
  <2>3. s \in Service(n) /\ s.up = c.s.up /\ s.records = c.s.records /\ s.begin = c.s.begin
        /\ s.name = time
    BY <2>2 DEF Typed, Service
  <2>4. ASSUME NEW i \in DOMAIN c.t
        PROVE  Entry(i) \in Table
    <3>1. c.t[i] \in Table
      BY <1>2
    <3> QED BY <2>2, <3>1 DEF Table
  <2>5. DOMAIN c.t = 1..Len(c.t) /\ Len(c.t) \in Nat
    BY DEF Typed
  <2>6. w \in Seq(Table) /\ Len(w) = Len(c.t)
    BY <2>4, <2>5
  <2> QED BY <2>1, <2>3, <2>6
<1>6. Typed(n, d) /\ Len(d.t) = Len(c.t) /\ d.s.up = c.s.up /\ d.s.records = c.s.records
      /\ d.s.begin = c.s.begin
  <2> HIDE DEF d, s, w, refused
  <2> QED BY <1>4, <1>5 DEF Typed
<1>7. ASSUME Len(c.t) <= 1, Match(c), diff # 0, c.s.name + diff >= 0
      PROVE  /\ d.s.name = c.s.name + diff /\ d.t # <<>>
             /\ d.t[1] = [time |-> c.s.name + diff, rows |-> c.t[1].rows]
  <2>1. DOMAIN c.t = {1} /\ c.t[1].time = c.s.name
    BY <1>7 DEF Match, Typed
  <2>2. ~refused
    BY <1>1, <1>7, <2>1 DEF Named
  <2>3. w[1] = [time |-> time, rows |-> c.t[1].rows] /\ w # <<>>
    BY <2>1
  <2> HIDE DEF d, s, w, refused
  <2> QED BY <1>5, <2>2, <2>3
<1> HIDE DEF refused
<1> QED BY <1>3, <1>4, <1>6, <1>7 DEF Renamed

\* A record is made of a row.
LEMMA RecordTyped ==
    ASSUME NEW row \in Row, NEW base \in Int
    PROVE  RecordOfRow(row, base) \in ModuleRecord
BY EmptyMap DEF Row, RecordOfRow, ModuleRecord, Absolute, Never

\* Records are made anew of the user's rows in the only table, if the service knows it.
LEMMA LoadIs ==
    ASSUME NEW n \in User, NEW c, Typed(n, c)
    PROVE  LET d == LoadModuleAndFormStats(c, n)
               loaded == {u \in UidsOf(n) : Match(c) /\ HasRow(u, c.t)}
           IN  /\ Typed(n, d) /\ d.t = c.t
               /\ d.s.up = c.s.up /\ d.s.name = c.s.name /\ d.s.begin = c.s.begin
               /\ Len(c.t) <= 1 =>
                    /\ DOMAIN d.s.records = DOMAIN c.s.records \cup loaded
                    /\ \A u \in loaded : d.s.records[u] = RecordOfRow(c.t[1].rows[u], c.s.name)
                    /\ \A u \in DOMAIN c.s.records \ loaded : d.s.records[u] = c.s.records[u]
<1> DEFINE d == LoadModuleAndFormStats(c, n)
           rows == RowsOf(c)
           new == [u \in UidsOf(n) \cap DOMAIN rows |-> RecordOfRow(rows[u], c.s.name)]
           all == Override(c.s.records, new)
           s == [c.s EXCEPT !.records = all]
           loaded == {u \in UidsOf(n) : Match(c) /\ HasRow(u, c.t)}
<1>1. /\ rows \in Rows
      /\ Len(c.t) <= 1 => rows = IF Match(c) THEN c.t[1].rows ELSE <<>>
    BY RowsOfIs
<1>2. d = [s |-> s, t |-> c.t]
    BY DEF LoadModuleAndFormStats
<1>3. d.s = s /\ d.t = c.t
    BY <1>2
<1> HIDE DEF d, rows
<1>4. \A u \in DOMAIN rows : rows[u] \in Row
  <2>1. rows \in Maps(Uid, Row)
    BY <1>1 DEF Rows
  <2> QED BY <2>1, MapIs, Zenon
<1>5. c.s.name \in Int
    BY DEF Typed, Service, Unknown
<1>6. new \in Maps(UidsOf(n), ModuleRecord)
  <2>1. new \in [UidsOf(n) \cap DOMAIN rows -> ModuleRecord]
    BY <1>4, <1>5, RecordTyped
  <2>2. UidsOf(n) \cap DOMAIN rows \in SUBSET UidsOf(n)
    OBVIOUS
  <2> HIDE DEF new
  <2> QED BY <2>1, <2>2 DEF Maps
<1>7. DOMAIN new = UidsOf(n) \cap DOMAIN rows
      /\ \A u \in DOMAIN new : new[u] = RecordOfRow(rows[u], c.s.name)
    OBVIOUS
<1> HIDE DEF new
<1>8. c.s.records \in Maps(UidsOf(n), ModuleRecord)
    BY DEF Typed, Service
<1>9. all \in Maps(UidsOf(n), ModuleRecord)
    BY <1>6, <1>8, OverrideMap
<1>10. /\ DOMAIN all = DOMAIN c.s.records \cup DOMAIN new
       /\ \A u \in DOMAIN new : all[u] = new[u]
       /\ \A u \in DOMAIN c.s.records \ DOMAIN new : all[u] = c.s.records[u]
    BY OverrideIs, Zenon
<1> HIDE DEF all
<1>11. s \in Service(n) /\ s.up = c.s.up /\ s.name = c.s.name /\ s.begin = c.s.begin /\ s.records = all
    BY <1>9 DEF Typed, Service
<1> HIDE DEF s
<1>12. Typed(n, d)
    BY <1>3, <1>11 DEF Typed
<1>13. ASSUME Len(c.t) <= 1
       PROVE  /\ DOMAIN d.s.records = DOMAIN c.s.records \cup loaded
              /\ \A u \in loaded : d.s.records[u] = RecordOfRow(c.t[1].rows[u], c.s.name)
              /\ \A u \in DOMAIN c.s.records \ loaded : d.s.records[u] = c.s.records[u]
  <2>1. DOMAIN new = loaded /\ \A u \in loaded : rows[u] = c.t[1].rows[u]
    <3>1. CASE Match(c)
      BY <1>1, <1>7, <1>13, <3>1 DEF HasRow, Match
    <3>2. CASE ~Match(c)
      BY <1>1, <1>7, <1>13, <3>2, EmptyMap
    <3> QED BY <3>1, <3>2
  <2> HIDE DEF loaded
  <2> QED BY <1>3, <1>7, <1>10, <1>11, <2>1
<1> QED BY <1>3, <1>11, <1>12, <1>13 DEF d

-----------------------------------------------------------------------------
(* What is known of one instance                                           *)

\* The last of the ticks, told by a wall clock that is k ahead of them.
Latest(ticks, last, k) ==
    IF ticks = {} THEN last = Never ELSE last - k \in ticks /\ \A x \in ticks : x + k <= last
Counts(count, last, ticks, k) == count = Cardinality(ticks) /\ Latest(ticks, last, k)

\* The history of an instance: the ticks of its launches, those of the last save, the ticks
\* of clicks; whether it was removed; and what the wall clock the core has seen is ahead.
Hist(launched, stored, clicked, isGone, k) ==
    [launched |-> launched, stored |-> stored, clicked |-> clicked, gone |-> isGone, shot |-> k]
Histories == [launched : SUBSET Nat, stored : SUBSET Nat, clicked : [Form -> SUBSET Nat],
              gone : BOOLEAN, shot : Int]
History(u) == Hist(launches[u], saved[u], clicks[u], u \in gone, shot)
NoClicks(h) == \A f \in Form : h.clicked[f] = {}
Unclicked == [f \in Form |-> {}]

\* In memory: a record counts the ticks of its instance.
FormOK(r, f, h) ==
    IF f \in DOMAIN r.formRecords_
    THEN Counts(r.formRecords_[f].count_, r.formRecords_[f].formLastUsedTime_, h.clicked[f], h.shot)
    ELSE h.clicked[f] = {}
RecordOK(r, h) ==
    /\ Counts(r.launchedCount_, r.lastModuleUsedTime_, h.launched, h.shot)
    /\ \A f \in Form : FormOK(r, f, h)
MemoryOK(u, s, h) ==
    IF ~s.up THEN u \notin DOMAIN s.records /\ h.launched = h.stored /\ NoClicks(h)
    ELSE IF u \in DOMAIN s.records THEN ~h.gone /\ RecordOK(s.records[u], h)
    ELSE h.launched = {} /\ NoClicks(h)

\* In the only table: a row counts those of the last save, none of which is from before
\* the time in the table's name.
RowOK(row, base, h) ==
    /\ ~h.gone /\ row.last >= Never
    /\ Counts(row.count, Absolute(row.last, base), h.stored, h.shot)
    /\ \A x \in h.stored : base <= x + h.shot
StoredOK(u, t, h) ==
    /\ Len(t) <= 1
    /\ IF HasRow(u, t) THEN RowOK(t[1].rows[u], t[1].time, h) ELSE h.stored = {}

\* Between the two: the service knows the table, rows have records, and no launch is from
\* before the time the table has or will have in its name.
Floor(s) == IF s.name = Unknown THEN s.begin ELSE s.name
LinkOK(u, s, t, h) ==
    s.up =>
      /\ s.name = Unknown => ~HasRow(u, t)
      /\ s.name # Unknown => t # <<>> /\ t[1].time = s.name
      /\ HasRow(u, t) => u \in DOMAIN s.records
      /\ \A x \in h.launched : Floor(s) <= x + h.shot
OK(u, s, t, h) == MemoryOK(u, s, h) /\ StoredOK(u, t, h) /\ LinkOK(u, s, t, h)

\* A time that is not before the table's name survives a save and a load.
LEMMA SavedAndLoaded ==
    ASSUME NEW ticks \in SUBSET Nat, NEW last \in Int, NEW k \in Int, NEW base \in Nat,
           Latest(ticks, last, k), \A x \in ticks : base <= x + k
    PROVE  /\ Absolute(Relative(last, base), base) = last
           /\ Relative(last, base) \in Int /\ Relative(last, base) >= Never
<1>1. CASE ticks = {}
    BY <1>1 DEF Latest, Relative, Absolute, Never
<1>2. CASE ticks # {}
  <2>1. PICK x \in ticks : x + k <= last
    BY <1>2 DEF Latest
  <2>2. x \in Nat /\ base <= x + k
    BY <2>1
  <2>3. last - base >= 0 /\ last >= 0
    BY <2>1, <2>2
  <2> QED BY <2>3 DEF Relative, Absolute, Never
<1> QED BY <1>1, <1>2

\* A service that is fine about an instance knows of no table or of the right one.
LEMMA LinkedIs ==
    ASSUME NEW u, NEW c, NEW h, c.s.up, LinkOK(u, c.s, c.t, h)
    PROVE  Linked(c)
BY DEF LinkOK, Linked, Match

\* After a save, the rows count what the records do.
LEMMA SavedOK ==
    ASSUME NEW u \in Uid, NEW c, Typed(UserOf[u], c), c.s.up, NEW h \in Histories,
           OK(u, c.s, c.t, h), NEW d, Saving(UserOf[u], c, d), Len(d.t) <= 1
    PROVE  /\ OK(u, d.s, d.t, Hist(h.launched, h.launched, h.clicked, h.gone, h.shot))
           /\ Linked(d) /\ (u \in DOMAIN d.s.records <=> HasRow(u, d.t))
<1> DEFINE H == Hist(h.launched, h.launched, h.clicked, h.gone, h.shot)
<1>1. /\ H.launched = h.launched /\ H.stored = h.launched /\ H.clicked = h.clicked
      /\ H.gone = h.gone /\ H.shot = h.shot
    BY DEF Hist
<1>2. /\ h.launched \subseteq Nat /\ h.shot \in Int
    BY DEF Histories
<1> HIDE DEF H
<1>3. d.s.up /\ d.s.records = c.s.records
    BY DEF Saving
<1>4. Linked(c)
    BY LinkedIs DEF OK
<1>5. MemoryOK(u, d.s, H)
    BY <1>1, <1>3 DEF OK, MemoryOK, RecordOK, FormOK, NoClicks
<1>6. CASE u \notin DOMAIN c.s.records
  <2>1. h.launched = {} /\ ~HasRow(u, c.t)
    BY <1>6 DEF OK, MemoryOK, LinkOK
  <2>2. CASE DOMAIN c.s.records = {}
    <3>1. d.t = c.t /\ d.s.name = c.s.name
      BY <2>2 DEF Saving
    <3>2. StoredOK(u, d.t, H)
      BY <1>1, <2>1, <3>1 DEF StoredOK
    <3>3. LinkOK(u, d.s, d.t, H) /\ Linked(d)
      BY <1>1, <1>3, <1>4, <2>1, <3>1 DEF OK, LinkOK, Linked, Match
    <3> QED BY <1>3, <1>5, <1>6, <2>1, <3>1, <3>2, <3>3 DEF OK, H
  <2>3. CASE DOMAIN c.s.records # {}
    <3>1. Match(d) /\ InRow(u, c, d)
      BY <1>4, <2>3 DEF Saving, InRows
    <3>2. ~HasRow(u, d.t)
      BY <1>6, <2>1, <3>1 DEF InRow
    <3>3. StoredOK(u, d.t, H)
      BY <1>1, <2>1, <3>2 DEF StoredOK
    <3>4. LinkOK(u, d.s, d.t, H) /\ Linked(d)
      BY <1>1, <1>3, <2>1, <3>1, <3>2 DEF LinkOK, Linked, Match
    <3> QED BY <1>3, <1>5, <1>6, <3>2, <3>3, <3>4 DEF OK, H
  <2> QED BY <2>2, <2>3
<1>7. CASE u \in DOMAIN c.s.records
  <2>1. Match(d) /\ InRow(u, c, d) /\ d.s.name = IF c.s.name = Unknown THEN c.s.begin ELSE c.s.name
    BY <1>4, <1>7 DEF Saving, InRows
  <2>2. HasRow(u, d.t) /\ d.t[1].rows[u] = RowOf(c.s.records[u], d.s.name) /\ d.t[1].time = d.s.name
    BY <1>7, <2>1 DEF InRow, Match
  <2>3. ~h.gone /\ RecordOK(c.s.records[u], h)
    BY <1>7 DEF OK, MemoryOK
  <2>4. \A x \in h.launched : d.s.name <= x + h.shot
    BY <2>1 DEF OK, LinkOK, Floor
  <2>5. d.s.name \in Nat
    BY <2>1 DEF Typed, Service
  <2>6. c.s.records[u] \in ModuleRecord
    BY <1>7, RecordIn
  <2>7. c.s.records[u].lastModuleUsedTime_ \in Int
    BY <2>6 DEF ModuleRecord
  <2>8. /\ Latest(h.launched, c.s.records[u].lastModuleUsedTime_, h.shot)
        /\ c.s.records[u].launchedCount_ = Cardinality(h.launched)
    BY <2>3 DEF RecordOK, Counts
  <2> DEFINE last == c.s.records[u].lastModuleUsedTime_
             row == RowOf(c.s.records[u], d.s.name)
  <2>9. row.count = c.s.records[u].launchedCount_ /\ row.last = Relative(last, d.s.name)
    BY DEF RowOf
  <2> HIDE DEF row
  <2>10. Absolute(row.last, d.s.name) = last /\ row.last >= Never
    BY <1>2, <2>4, <2>5, <2>7, <2>8, <2>9, SavedAndLoaded
  <2>11. RowOK(row, d.s.name, H)
    BY <1>1, <2>3, <2>4, <2>8, <2>9, <2>10 DEF RowOK, Counts
  <2>12. StoredOK(u, d.t, H)
    BY <2>2, <2>11 DEF StoredOK, row
  <2>13. LinkOK(u, d.s, d.t, H) /\ Linked(d)
    BY <1>1, <1>3, <1>7, <2>1, <2>4, <2>5 DEF LinkOK, Linked, Match, Floor, Unknown
  <2> QED BY <1>3, <1>5, <1>7, <2>2, <2>12, <2>13 DEF OK, H
<1> QED BY <1>6, <1>7

\* After a load, the records count what the rows do.
LEMMA LoadedOK ==
    ASSUME NEW u \in Uid, NEW c, Typed(UserOf[u], c), c.s.up, NEW h \in Histories,
           Linked(c), StoredOK(u, c.t, h), h.launched = h.stored,
           c.s.name = Unknown => ~HasRow(u, c.t), u \in DOMAIN c.s.records => HasRow(u, c.t),
           NEW d, d = LoadModuleAndFormStats(c, UserOf[u])
    PROVE  OK(u, d.s, d.t, Hist(h.launched, h.stored, Unclicked, h.gone, h.shot))
<1> DEFINE H == Hist(h.launched, h.stored, Unclicked, h.gone, h.shot)
           n == UserOf[u]
           loaded == {v \in UidsOf(n) : Match(c) /\ HasRow(v, c.t)}
<1>1. /\ H.launched = h.launched /\ H.stored = h.stored /\ NoClicks(H)
      /\ H.gone = h.gone /\ H.shot = h.shot
    BY DEF Hist, NoClicks, Unclicked
<1> HIDE DEF H
<1>2. n \in User /\ u \in UidsOf(n)
    BY Constants
<1>3. /\ Typed(n, d) /\ d.t = c.t
      /\ d.s.up = c.s.up /\ d.s.name = c.s.name /\ d.s.begin = c.s.begin
      /\ DOMAIN d.s.records = DOMAIN c.s.records \cup loaded
      /\ \A v \in loaded : d.s.records[v] = RecordOfRow(c.t[1].rows[v], c.s.name)
    BY <1>2, LoadIs DEF StoredOK
<1>4. StoredOK(u, d.t, H)
    BY <1>1, <1>3 DEF StoredOK, RowOK
<1>5. u \in loaded <=> HasRow(u, c.t)
    BY <1>2 DEF Linked, Match
<1>6. u \in DOMAIN d.s.records <=> HasRow(u, c.t)
    BY <1>3, <1>5
<1>7. ASSUME HasRow(u, c.t)
      PROVE  /\ d.s.records[u] = RecordOfRow(c.t[1].rows[u], c.t[1].time)
             /\ RowOK(c.t[1].rows[u], c.t[1].time, h) /\ Match(c)
  <2>1. Match(c) /\ c.s.name = c.t[1].time
    BY <1>7 DEF Linked, Match
  <2> QED BY <1>3, <1>5, <1>7, <2>1 DEF StoredOK
<1>8. MemoryOK(u, d.s, H)
  <2>1. CASE HasRow(u, c.t)
    <3> DEFINE r == RecordOfRow(c.t[1].rows[u], c.t[1].time)
    <3>1. /\ r.launchedCount_ = c.t[1].rows[u].count /\ r.formRecords_ = <<>>
          /\ r.lastModuleUsedTime_ = Absolute(c.t[1].rows[u].last, c.t[1].time)
      BY DEF RecordOfRow
    <3> HIDE DEF r
    <3>2. Counts(r.launchedCount_, r.lastModuleUsedTime_, H.launched, H.shot) /\ ~H.gone
      BY <1>1, <1>7, <2>1, <3>1 DEF RowOK
    <3>3. \A f \in Form : FormOK(r, f, H)
      BY <1>1, <3>1, EmptyMap DEF FormOK, NoClicks
    <3>4. d.s.records[u] = r
      BY <1>7, <2>1 DEF r
    <3> QED BY <1>3, <1>6, <2>1, <3>2, <3>3, <3>4 DEF MemoryOK, RecordOK
  <2>2. CASE ~HasRow(u, c.t)
    BY <1>1, <1>3, <1>6, <2>2 DEF MemoryOK, StoredOK
  <2> QED BY <2>1, <2>2
<1>9. LinkOK(u, d.s, d.t, H)
  <2>1. \A x \in H.launched : Floor(d.s) <= x + H.shot
    <3>1. CASE HasRow(u, c.t)
      <4>1. \A x \in h.stored : c.t[1].time <= x + h.shot
        BY <1>7, <3>1 DEF RowOK
      <4>2. Floor(d.s) = c.t[1].time
        BY <1>3, <1>7, <3>1 DEF Floor, Match
      <4> QED BY <1>1, <4>1, <4>2
    <3>2. CASE ~HasRow(u, c.t)
      BY <1>1, <3>2 DEF StoredOK
    <3> QED BY <3>1, <3>2
  <2> QED BY <1>3, <1>6, <2>1 DEF LinkOK, Linked, Match
<1>10. OK(u, d.s, d.t, H)
    BY <1>4, <1>8, <1>9 DEF OK
<1> QED BY <1>10 DEF H

\* When the clock is set, the table is renamed by as much, and its rows tell the same.
LEMMA RenamedOK ==
    ASSUME NEW u \in Uid, NEW c, Typed(UserOf[u], c), NEW h \in Histories,
           Linked(c), StoredOK(u, c.t, h), c.s.name = Unknown => ~HasRow(u, c.t),
           NEW diff \in Int, diff # 0, c.s.name = Unknown \/ c.s.name + diff >= 0,
           NEW d, d = RenewTableTime(c, diff)
    PROVE  /\ StoredOK(u, d.t, Hist(h.launched, h.stored, h.clicked, h.gone, h.shot + diff))
           /\ Linked(d) /\ (HasRow(u, d.t) <=> HasRow(u, c.t))
           /\ d.s.name = Unknown => ~HasRow(u, d.t)
<1> DEFINE H == Hist(h.launched, h.stored, h.clicked, h.gone, h.shot + diff)
<1>1. /\ H.stored = h.stored /\ H.gone = h.gone /\ H.shot = h.shot + diff
      /\ h.stored \subseteq Nat /\ h.shot \in Int
    BY DEF Hist, Histories
<1> HIDE DEF H
<1>2. UserOf[u] \in User
    BY Constants
<1>3. /\ Typed(UserOf[u], d) /\ Len(d.t) = Len(c.t)
      /\ c.s.name = Unknown => d = c
      /\ Match(c) /\ c.s.name + diff >= 0 =>
            /\ d.s.name = c.s.name + diff /\ d.t # <<>>
            /\ d.t[1] = [time |-> c.s.name + diff, rows |-> c.t[1].rows]
    BY <1>2, RenameIs DEF StoredOK, Renamed
<1>4. CASE c.s.name = Unknown
  <2>1. d = c /\ ~HasRow(u, c.t)
    BY <1>3, <1>4
  <2> QED BY <1>1, <1>4, <2>1 DEF StoredOK, H
<1>5. CASE c.s.name # Unknown
  <2>1. Match(c) /\ c.s.name + diff >= 0 /\ c.t # <<>> /\ c.s.name = c.t[1].time
    BY <1>5 DEF Linked, Match
  <2>2. /\ d.s.name = c.s.name + diff /\ d.t # <<>> /\ d.t[1].time = c.s.name + diff
        /\ d.t[1].rows = c.t[1].rows
    BY <1>3, <2>1
  <2>3. Linked(d) /\ (HasRow(u, d.t) <=> HasRow(u, c.t))
    BY <2>1, <2>2 DEF Linked, Match, HasRow
  <2>4. c.s.name \in Int /\ d.s.name # Unknown
    <3>1. c.s.name \in Nat
      BY <1>5 DEF Typed, Service
    <3> QED BY <2>1, <2>2, <3>1 DEF Unknown
  <2>5. ASSUME HasRow(u, c.t)
        PROVE  RowOK(c.t[1].rows[u], c.s.name + diff, H)
    <3> DEFINE row == c.t[1].rows[u]
    <3>1. RowOK(row, c.s.name, h)
      BY <2>1, <2>5 DEF StoredOK
    <3>2. row.last \in Int
      <4>1. c.t[1] \in Table
        BY <2>1 DEF Typed
      <4>2. c.t[1].rows \in Maps(Uid, Row)
        BY <4>1 DEF Table, Rows
      <4>3. \A v \in DOMAIN c.t[1].rows : c.t[1].rows[v] \in Row
        BY <4>2, MapIs, Zenon
      <4>4. row \in Row
        BY <2>5, <4>3 DEF HasRow
      <4> QED BY <4>4 DEF Row
    <3> HIDE DEF row
    <3>3. Latest(h.stored, Absolute(row.last, c.s.name), h.shot) /\ row.last >= Never
      BY <3>1 DEF RowOK, Counts
    <3>4. \A x \in h.stored : c.s.name <= x + h.shot
      BY <3>1 DEF RowOK
    <3>5. c.s.name >= 0
      BY <1>5 DEF Typed, Service
    <3>6. Latest(h.stored, Absolute(row.last, c.s.name + diff), h.shot + diff)
      <4>1. CASE h.stored = {}
        <5>1. row.last = Never
          BY <2>4, <3>2, <3>3, <3>5, <4>1 DEF Latest, Absolute, Never
        <5> QED BY <4>1, <5>1 DEF Latest, Absolute
      <4>2. CASE h.stored # {}
        <5>1. PICK x \in h.stored : x + h.shot <= Absolute(row.last, c.s.name)
          BY <3>3, <4>2 DEF Latest
        <5>2. Absolute(row.last, c.s.name) >= 0
          BY <1>1, <2>4, <3>2, <3>4, <3>5, <5>1 DEF Absolute, Never
        <5>3. row.last # Never
          BY <5>2 DEF Absolute, Never
        <5> DEFINE old == row.last + c.s.name
        <5>4. /\ Absolute(row.last, c.s.name) = old
              /\ Absolute(row.last, c.s.name + diff) = old + diff /\ old \in Int
          BY <2>4, <3>2, <5>3 DEF Absolute
        <5> HIDE DEF old
        <5>5. Latest(h.stored, old, h.shot)
          BY <3>3, <5>4
        <5>6. old - h.shot \in h.stored /\ \A y \in h.stored : y + h.shot <= old
          BY <4>2, <5>5 DEF Latest
        <5>7. (old + diff) - (h.shot + diff) = old - h.shot
          BY <1>1, <5>4
        <5>8. ASSUME NEW y \in h.stored PROVE y + (h.shot + diff) <= old + diff
          <6>1. y \in Int /\ y + h.shot <= old
            BY <1>1, <5>6
          <6> QED BY <1>1, <5>4, <6>1
        <5>9. (old + diff) - (h.shot + diff) \in h.stored
          BY <5>6, <5>7
        <5>10. Latest(h.stored, old + diff, h.shot + diff)
          BY <4>2, <5>8, <5>9 DEF Latest
        <5> QED BY <5>4, <5>10
      <4> QED BY <4>1, <4>2
    <3>7. \A x \in h.stored : c.s.name + diff <= x + (h.shot + diff)
      BY <1>1, <2>4, <3>4
    <3> QED BY <1>1, <3>1, <3>6, <3>7 DEF RowOK, Counts, row
  <2>6. StoredOK(u, d.t, H)
    <3>1. Len(d.t) <= 1
      BY <1>3 DEF StoredOK
    <3> QED BY <1>1, <2>2, <2>3, <2>5, <3>1 DEF StoredOK
  <2> QED BY <2>3, <2>4, <2>6 DEF H
<1> QED BY <1>4, <1>5

\* What happens to the rows of others is nothing to an instance.
LEMMA KeptOK ==
    ASSUME NEW D, NEW u \in D, NEW s, NEW t, NEW w, NEW h, Keeps(D, t, w), Len(w) <= 1,
           OK(u, s, t, h)
    PROVE  OK(u, s, w, h)
<1>1. /\ t # <<>> => w # <<>> /\ w[1].time = t[1].time
      /\ HasRow(u, w) <=> HasRow(u, t)
      /\ HasRow(u, t) => w[1].rows[u] = t[1].rows[u]
    BY DEF Keeps
<1>2. StoredOK(u, w, h)
  <2>1. HasRow(u, w) => w[1].time = t[1].time
    BY <1>1 DEF HasRow
  <2> QED BY <1>1, <2>1 DEF OK, StoredOK
<1>3. LinkOK(u, s, w, h)
    BY <1>1 DEF OK, LinkOK
<1> QED BY <1>2, <1>3 DEF OK

-----------------------------------------------------------------------------
(* How every handler begins                                                *)

\* A service as it is started.
LEMMA Started ==
    ASSUME NEW n \in User, NEW t \in Seq(Table)
    PROVE  LET s == [NoService EXCEPT !.up = TRUE, !.name = LastTable(t)]
           IN  /\ Typed(n, [s |-> s, t |-> t]) /\ s.up /\ DOMAIN s.records = {}
               /\ Len(t) <= 1 => IF t = <<>> THEN s.name = Unknown ELSE s.name = t[1].time
<1> DEFINE s == [NoService EXCEPT !.up = TRUE, !.name = LastTable(t)]
<1>1. LastTable(t) \in Nat \cup {Unknown}
  <2>1. CASE t = <<>>
    BY <2>1 DEF LastTable
  <2>2. CASE t # <<>>
    <3>1. Len(t) \in 1..Len(t) /\ Last(t) = t[Len(t)]
      BY <2>2 DEF Last
    <3>2. Last(t) \in Table
      BY <3>1
    <3> QED BY <2>2, <3>2 DEF LastTable, Table
  <2> QED BY <2>1, <2>2
<1>2. <<>> \in Maps(UidsOf(n), ModuleRecord) /\ DOMAIN <<>> = {}
    BY EmptyMap
<1>3. NoService \in Service(n) /\ NoService.records = <<>>
    BY <1>2 DEF NoService, Service
<1>4. s \in Service(n) /\ s.up /\ s.records = <<>> /\ s.name = LastTable(t)
    BY <1>1, <1>3 DEF Service
<1>5. Len(t) <= 1 => IF t = <<>> THEN LastTable(t) = Unknown ELSE LastTable(t) = t[1].time
  <2>1. CASE t # <<>> /\ Len(t) <= 1
    <3>1. Len(t) = 1
      <4>1. Len(t) \in Nat /\ Len(t) # 0
        BY <2>1
      <4>2. \A k \in Nat : k # 0 /\ k <= 1 => k = 1
        OBVIOUS
      <4> QED BY <2>1, <4>1, <4>2, Zenon
    <3> QED BY <2>1, <3>1 DEF LastTable, Last
  <2> QED BY <2>1 DEF LastTable
<1> HIDE DEF s
<1>6. Typed(n, [s |-> s, t |-> t])
    BY <1>4 DEF Typed
<1> QED BY <1>2, <1>4, <1>5, <1>6 DEF s

\* The state by its parts.
LEMMA PairTyped == TypeOK => \A n \in User : Typed(n, Pair(n)) /\ Pair(n).s = svc[n] /\ Pair(n).t = tables
BY DEF TypeOK, Typed, Pair

\* What is remembered of an instance has its type.
LEMMA HistoryTyped ==
    TypeOK => \A u \in Uid : History(u) \in Histories
<1> SUFFICES ASSUME TypeOK, NEW u \in Uid PROVE History(u) \in Histories
    OBVIOUS
<1>1. launches[u] \in SUBSET Nat /\ saved[u] \in SUBSET Nat /\ clicks[u] \in [Form -> SUBSET Nat]
    BY DEF TypeOK
<1> QED BY <1>1 DEF History, Hist, Histories, TypeOK

\* The service is up, its tables are not fewer, and without a change of the clock the rows
\* of others are as they were.
LEMMA UserDataIs ==
    ASSUME TypeOK, NEW n \in User
    PROVE  LET c == UserData(n)
           IN  /\ Typed(n, c) /\ c.s.up /\ Len(tables) <= Len(c.t)
               /\ ~ClockChanged => Keeps(Uid \ UidsOf(n), tables, c.t)
<1>1. Typed(n, Pair(n)) /\ Pair(n).s = svc[n] /\ Pair(n).t = tables
    BY PairTyped
<1>2. SystemTime \in Int /\ SystemTime > 0 /\ ExpectedSystemTime \in Int /\ ExpectedSystemTime > 0
      /\ offset - shot \in Int
    BY DEF TypeOK, SystemTime, ExpectedSystemTime
<1>3. Len(tables) \in Nat /\ tables \in Seq(Table) /\ Keeps(Uid \ UidsOf(n), tables, tables)
    BY KeepsSame DEF TypeOK
<1>4. CASE svc[n].up /\ ~ClockChanged
  <2>1. UserData(n) = Pair(n)
    BY <1>4 DEF UserData, CheckTimeChange
  <2> QED BY <1>1, <1>3, <1>4, <2>1
<1>5. CASE svc[n].up /\ ClockChanged
  <2> DEFINE d == Settled(n)
             diff == offset - shot
             e == RenewTableTime(d, diff)
             f == LoadActiveStats(e, SystemTime)
             c == LoadModuleAndFormStats(f, n)
  <2>1. UserData(n) = c
    BY <1>5 DEF UserData, CheckTimeChange
  <2>2. Saving(n, Pair(n), d)
    BY <1>1, <1>2, RenewedAndSaved DEF Settled
  <2>3. Typed(n, d) /\ d.s.up /\ Len(tables) <= Len(d.t)
    BY <1>1, <1>5, <2>2 DEF Saving, Keeps
  <2> HIDE DEF d
  <2> diff \in Int
    BY <1>2
  <2> HIDE DEF diff
  <2>4. Typed(n, e) /\ e.s.up /\ Len(e.t) = Len(d.t)
    <3>1. Renamed(n, d, diff, e)
      BY <2>3, RenameIs
    <3> HIDE DEF e
    <3> QED BY <2>3, <3>1 DEF Renamed
  <2> HIDE DEF e
  <2>5. Typed(n, f) /\ f.s.up /\ f.t = e.t
    BY <1>2, <2>4, ActiveIs
  <2> HIDE DEF f
  <2>6. Typed(n, c) /\ c.s.up /\ c.t = f.t
    BY <2>5, LoadIs
  <2> HIDE DEF c
  <2> QED BY <1>5, <2>1, <2>3, <2>4, <2>5, <2>6
<1>6. CASE ~svc[n].up
  <2> DEFINE s == [NoService EXCEPT !.up = TRUE, !.name = LastTable(tables)]
             e == [s |-> s, t |-> tables]
             f == LoadActiveStats(e, SystemTime)
             c == LoadModuleAndFormStats(f, n)
  <2>1. UserData(n) = c
    BY <1>1, <1>6 DEF UserData, InitService
  <2>2. Typed(n, e) /\ s.up
    BY <1>3, Started
  <2> HIDE DEF s
  <2>3. e.s = s /\ e.t = tables
    OBVIOUS
  <2> HIDE DEF e
  <2>4. Typed(n, f) /\ f.s.up /\ f.t = tables
    BY <1>2, <2>2, <2>3, ActiveIs
  <2> HIDE DEF f
  <2>5. Typed(n, c) /\ c.s.up /\ c.t = f.t
    BY <2>4, LoadIs
  <2> HIDE DEF c
  <2> QED BY <1>3, <2>1, <2>4, <2>5
<1> QED BY <1>4, <1>5, <1>6

\* What is remembered of an instance when a handler for its user has begun.
BegunHistory(u) ==
    Hist(launches[u], Begun(UserOf[u]).saved[u], Begun(UserOf[u]).clicks[u], u \in gone, offset)

\* The change of the clock is handled for the user, if there was one.
Handles(n) == ~ClockChanged \/ (svc[n].up /\ ~RenameRefused(n))

\* All is fine about an instance when a handler for its user has begun.
LEMMA UserDataOK ==
    ASSUME TypeOK, NEW u \in Uid, Handles(UserOf[u]),
           OK(u, svc[UserOf[u]], tables, History(u)),
           Len(UserData(UserOf[u]).t) <= 1
    PROVE  OK(u, UserData(UserOf[u]).s, UserData(UserOf[u]).t, BegunHistory(u))
<1> DEFINE n == UserOf[u]
<1>1. n \in User /\ u \in UidsOf(n)
    BY Constants
<1>2. Typed(n, Pair(n)) /\ Pair(n).s = svc[n] /\ Pair(n).t = tables
    BY <1>1, PairTyped
<1>3. SystemTime \in Int /\ SystemTime > 0 /\ ExpectedSystemTime \in Int /\ ExpectedSystemTime > 0
      /\ offset - shot \in Int /\ offset \in Int /\ shot \in Int /\ shot + (offset - shot) = offset
    BY DEF TypeOK, SystemTime, ExpectedSystemTime
<1>4. History(u) \in Histories
    BY HistoryTyped
<1>5. /\ History(u).launched = launches[u] /\ History(u).stored = saved[u]
      /\ History(u).clicked = clicks[u] /\ History(u).gone = (u \in gone) /\ History(u).shot = shot
    BY DEF History, Hist
<1>6. /\ Begun(n).saved[u] = IF ClockChanged /\ svc[n].up THEN launches[u] ELSE saved[u]
      /\ Begun(n).clicks[u] = IF ClockChanged THEN Unclicked ELSE clicks[u]
    BY <1>1 DEF Begun, Unclicked
<1> HIDE DEF n
<1>7. CASE svc[n].up /\ ~ClockChanged
  <2>1. UserData(n) = Pair(n)
    BY <1>7 DEF UserData, CheckTimeChange
  <2>2. shot = offset
    BY <1>7 DEF ClockChanged
  <2>3. BegunHistory(u) = History(u)
    BY <1>6, <1>7, <2>2 DEF BegunHistory, History, n
  <2> QED BY <1>2, <2>1, <2>3 DEF n
<1>8. CASE svc[n].up /\ ClockChanged
  <2> DEFINE d == Settled(n)
             diff == offset - shot
             e == RenewTableTime(d, diff)
             f == LoadActiveStats(e, SystemTime)
             c == LoadModuleAndFormStats(f, n)
             h == Hist(launches[u], launches[u], clicks[u], u \in gone, shot)
             H == Hist(launches[u], launches[u], clicks[u], u \in gone, offset)
  <2>1. UserData(n) = c
    BY <1>8 DEF UserData, CheckTimeChange
  <2>2. Saving(n, Pair(n), d)
    BY <1>1, <1>2, <1>3, RenewedAndSaved DEF Settled
  <2>3. d.s.name = Unknown \/ d.s.name + diff >= 0
    <3>1. d.s.name # Unknown => d.s.name \in Int
      BY <2>2 DEF Saving, Typed, Service
    <3>2. ~(d.s.name # Unknown /\ d.s.name + offset - shot < 0)
      BY <1>8 DEF Handles, RenameRefused, n
    <3> QED BY <1>3, <3>1, <3>2
  <2>4. diff # 0 /\ shot + diff = offset
    BY <1>3, <1>8 DEF ClockChanged
  <2> HIDE DEF d
  <2>5. Typed(n, d) /\ d.s.up
    BY <1>2, <1>8, <2>2 DEF Saving
  <2> diff \in Int
    BY <1>3
  <2> HIDE DEF diff
  <2>6. Typed(n, e) /\ Len(e.t) = Len(d.t) /\ e.s.up /\ e.s.records = d.s.records
    <3>1. Renamed(n, d, diff, e)
      BY <1>1, <2>5, RenameIs
    <3> HIDE DEF e
    <3> QED BY <2>5, <3>1 DEF Renamed
  <2> HIDE DEF e
  <2>7. Typed(n, f) /\ f.s.up /\ f.t = e.t /\ f.s.records = e.s.records /\ f.s.name = e.s.name
    BY <1>1, <1>3, <2>6, ActiveIs
  <2> HIDE DEF f
  <2>8. c.t = f.t
    BY <1>1, <2>7, LoadIs
  <2>9. Len(d.t) <= 1
    BY <2>1, <2>6, <2>7, <2>8 DEF n
  <2> HIDE DEF c
  <2>10. OK(u, d.s, d.t, h) /\ Linked(d) /\ (u \in DOMAIN d.s.records <=> HasRow(u, d.t))
    BY <1>2, <1>4, <1>5, <1>8, <2>2, <2>9, SavedOK DEF n
  <2>11. h \in Histories /\ H \in Histories
    BY <1>3, <1>4, <1>5 DEF Hist, Histories
  <2>12. /\ h.launched = launches[u] /\ h.stored = launches[u] /\ h.clicked = clicks[u]
         /\ h.gone = (u \in gone) /\ h.shot = shot
         /\ H.launched = launches[u] /\ H.stored = launches[u] /\ H.gone = (u \in gone) /\ H.shot = offset
    BY DEF Hist
  <2>13. H = Hist(h.launched, h.stored, h.clicked, h.gone, h.shot + diff)
    BY <2>4, <2>12
  <2> HIDE DEF h, H
  <2>14. StoredOK(u, d.t, h) /\ (d.s.name = Unknown => ~HasRow(u, d.t))
    BY <2>5, <2>10 DEF OK, LinkOK
  <2>15. /\ StoredOK(u, e.t, H) /\ Linked(e) /\ (HasRow(u, e.t) <=> HasRow(u, d.t))
         /\ e.s.name = Unknown => ~HasRow(u, e.t)
    BY <1>3, <2>3, <2>4, <2>5, <2>10, <2>11, <2>13, <2>14, RenamedOK DEF n, e
  <2>16. Linked(f) /\ (u \in DOMAIN f.s.records => HasRow(u, f.t)) /\ StoredOK(u, f.t, H)
         /\ (f.s.name = Unknown => ~HasRow(u, f.t))
    BY <2>6, <2>7, <2>10, <2>15 DEF Linked, Match
  <2>17. OK(u, c.s, c.t, Hist(H.launched, H.stored, Unclicked, H.gone, H.shot))
    BY <2>7, <2>11, <2>12, <2>16, LoadedOK DEF n, c
  <2>18. BegunHistory(u) = Hist(H.launched, H.stored, Unclicked, H.gone, H.shot)
    BY <1>6, <1>8, <2>12 DEF BegunHistory, n
  <2> QED BY <2>1, <2>17, <2>18 DEF n
<1>9. CASE ~svc[n].up
  <2> DEFINE s == [NoService EXCEPT !.up = TRUE, !.name = LastTable(tables)]
             e == [s |-> s, t |-> tables]
             f == LoadActiveStats(e, SystemTime)
             c == LoadModuleAndFormStats(f, n)
             h == History(u)
  <2>1. UserData(n) = c
    BY <1>2, <1>9 DEF UserData, InitService
  <2>2. tables \in Seq(Table) /\ Len(tables) <= 1
    BY DEF TypeOK, OK, StoredOK
  <2>3. /\ Typed(n, e) /\ s.up /\ DOMAIN s.records = {}
        /\ IF tables = <<>> THEN s.name = Unknown ELSE s.name = tables[1].time
    BY <1>1, <2>2, Started
  <2> HIDE DEF s
  <2>4. e.s = s /\ e.t = tables
    OBVIOUS
  <2> HIDE DEF e
  <2>5. /\ Typed(n, f) /\ f.t = tables /\ f.s.up /\ f.s.records = s.records /\ f.s.name = s.name
    BY <1>1, <1>3, <2>3, <2>4, ActiveIs
  <2> HIDE DEF f
  <2>6. /\ shot = offset /\ ~ClockChanged
    BY <1>9 DEF Handles, ClockChanged, n
  <2>7. h.launched = h.stored /\ NoClicks(h)
    BY <1>9 DEF OK, MemoryOK, n
  <2>8. clicks[u] = Unclicked
    <3>1. clicks[u] \in [Form -> SUBSET Nat]
      BY <1>4, <1>5 DEF Histories
    <3>2. \A g \in Form : clicks[u][g] = {}
      BY <1>5, <2>7 DEF NoClicks
    <3> QED BY <3>1, <3>2 DEF Unclicked
  <2>9. Linked(f) /\ (f.s.name = Unknown => ~HasRow(u, f.t))
    <3>1. tables # <<>> => tables[1].time # Unknown
      <4>1. tables # <<>> => tables[1] \in Table
        BY <2>2
      <4> QED BY <4>1 DEF Table, Unknown
    <3> QED BY <2>3, <2>5, <3>1 DEF Linked, Match, HasRow
  <2>10. StoredOK(u, f.t, h)
    BY <2>5 DEF OK
  <2>11. OK(u, c.s, c.t, Hist(h.launched, h.stored, Unclicked, h.gone, h.shot))
    BY <1>4, <2>3, <2>5, <2>7, <2>9, <2>10, LoadedOK DEF n
  <2>12. BegunHistory(u) = Hist(h.launched, h.stored, Unclicked, h.gone, h.shot)
    BY <1>5, <1>6, <2>6, <2>8 DEF BegunHistory, n
  <2> QED BY <2>1, <2>11, <2>12 DEF n
<1> QED BY <1>7, <1>8, <1>9

-----------------------------------------------------------------------------
(* Records                                                                 *)

\* A tick is counted once.
LEMMA TickCounted ==
    ASSUME NEW now \in Nat, NEW ticks \in SUBSET (0..now), NEW k \in Int, now + k > 0,
           NEW count, NEW last \in Int, Counts(count, last, ticks, k)
    PROVE  /\ last < now + k => Counts(count + 1, now + k, ticks \cup {now}, k)
           /\ ~(last < now + k) => ticks \cup {now} = ticks
<1>1. IsFiniteSet(0..now)
    BY FS_Interval
<1>2. IsFiniteSet(ticks)
    BY <1>1, FS_Subset
<1>3. count = Cardinality(ticks) /\ Latest(ticks, last, k)
    BY DEF Counts
<1>4. ASSUME last < now + k
      PROVE  Counts(count + 1, now + k, ticks \cup {now}, k)
  <2>1. now \notin ticks
    <3>1. \A x \in ticks : x + k <= last /\ x \in Int
      BY <1>3 DEF Latest
    <3> QED BY <1>4, <3>1
  <2>2. Cardinality(ticks \cup {now}) = Cardinality(ticks) + 1
    BY <1>2, <2>1, FS_AddElement
  <2>3. (now + k) - k = now /\ \A x \in ticks \cup {now} : x + k <= now + k
    OBVIOUS
  <2>4. Latest(ticks \cup {now}, now + k, k)
    BY <2>3 DEF Latest
  <2> QED BY <1>3, <2>2, <2>4 DEF Counts
<1>5. ASSUME ~(last < now + k)
      PROVE  now \in ticks
  <2>1. ticks # {}
    BY <1>3, <1>5 DEF Latest, Never
  <2>2. last - k \in ticks /\ last - k \in 0..now
    BY <1>3, <2>1 DEF Latest
  <2>3. last - k = now
    BY <1>5, <2>2
  <2> QED BY <2>2, <2>3
<1> QED BY <1>4, <1>5

\* The first one is counted as well.
LEMMA TickFirst ==
    ASSUME NEW now \in Nat, NEW k \in Int
    PROVE  Counts(1, now + k, {now}, k)
<1>1. Cardinality({now}) = 1
    BY FS_Singleton
<1>2. (now + k) - k = now /\ \A x \in {now} : x + k <= now + k
    OBVIOUS
<1>3. Latest({now}, now + k, k)
    BY <1>2 DEF Latest
<1> QED BY <1>1, <1>3 DEF Counts

\* A record that was not there.
LEMMA NewRecordIs ==
    /\ NewRecord \in ModuleRecord
    /\ \A h : h.launched = {} /\ NoClicks(h) => RecordOK(NewRecord, h)
<1>1. NewRecord \in ModuleRecord
    BY EmptyMap DEF NewRecord, ModuleRecord, Never
<1>2. ASSUME NEW h, h.launched = {}, NoClicks(h)
      PROVE  RecordOK(NewRecord, h)
  <2>1. NewRecord.launchedCount_ = 0 /\ NewRecord.lastModuleUsedTime_ = Never
        /\ NewRecord.formRecords_ = <<>>
    BY DEF NewRecord
  <2>2. Counts(0, Never, h.launched, h.shot)
    BY <1>2, FS_EmptySet DEF Counts, Latest
  <2>3. \A f \in Form : FormOK(NewRecord, f, h)
    BY <1>2, <2>1, EmptyMap DEF FormOK, NoClicks
  <2> QED BY <2>1, <2>2, <2>3 DEF RecordOK
<1> QED BY <1>1, <1>2

\* The record of an instance, made if need be.
LEMMA RecordFound ==
    ASSUME NEW n, NEW c, Typed(n, c), c.s.up, NEW u, NEW h, MemoryOK(u, c.s, h)
    PROVE  /\ GetOrCreateModuleRecord(c.s, u) \in ModuleRecord
           /\ RecordOK(GetOrCreateModuleRecord(c.s, u), h)
<1>1. CASE u \in DOMAIN c.s.records
  <2>1. c.s.records[u] \in ModuleRecord
    BY <1>1, RecordIn
  <2> QED BY <1>1, <2>1 DEF GetOrCreateModuleRecord, MemoryOK
<1>2. CASE u \notin DOMAIN c.s.records
    BY <1>2, NewRecordIs DEF GetOrCreateModuleRecord, MemoryOK
<1> QED BY <1>1, <1>2

\* The fields of a record.
LEMMA RecordFields ==
    ASSUME NEW r \in ModuleRecord
    PROVE  /\ r.launchedCount_ \in Nat /\ r.lastModuleUsedTime_ \in Int
           /\ r.formRecords_ \in Maps(Form, FormRecord)
           /\ \A f \in DOMAIN r.formRecords_ :
                f \in Form /\ r.formRecords_[f].count_ \in Nat /\ r.formRecords_[f].formLastUsedTime_ \in Int
<1>1. r.formRecords_ \in Maps(Form, FormRecord)
    BY DEF ModuleRecord
<1>2. DOMAIN r.formRecords_ \subseteq Form
      /\ \A f \in DOMAIN r.formRecords_ : r.formRecords_[f] \in FormRecord
    BY <1>1, MapIs, Zenon
<1>3. \A f \in DOMAIN r.formRecords_ :
         f \in Form /\ r.formRecords_[f].count_ \in Nat /\ r.formRecords_[f].formLastUsedTime_ \in Int
    BY <1>2 DEF FormRecord
<1> QED BY <1>1, <1>3 DEF ModuleRecord

\* A launch.
LEMMA LaunchCounted ==
    ASSUME NEW now \in Nat, NEW h \in Histories, h.launched \subseteq 0..now, now + h.shot > 0,
           NEW r \in ModuleRecord, RecordOK(r, h),
           NEW H, H.launched = h.launched \cup {now}, H.clicked = h.clicked, H.shot = h.shot
    PROVE  /\ UpdateModuleRecord(r, now + h.shot) \in ModuleRecord
           /\ RecordOK(UpdateModuleRecord(r, now + h.shot), H)
<1> DEFINE t == now + h.shot
           R == [r EXCEPT !.lastModuleUsedTime_ = t, !.launchedCount_ = @ + 1]
<1>1. h.shot \in Int /\ t \in Int
    BY DEF Histories
<1>2. r.launchedCount_ \in Nat /\ r.lastModuleUsedTime_ \in Int
    BY RecordFields
<1>3. Counts(r.launchedCount_, r.lastModuleUsedTime_, h.launched, h.shot)
    BY DEF RecordOK
<1>4. /\ r.lastModuleUsedTime_ < t => Counts(r.launchedCount_ + 1, t, h.launched \cup {now}, h.shot)
      /\ ~(r.lastModuleUsedTime_ < t) => h.launched \cup {now} = h.launched
    BY <1>1, <1>2, <1>3, TickCounted
<1>5. R \in ModuleRecord /\ R.launchedCount_ = r.launchedCount_ + 1 /\ R.lastModuleUsedTime_ = t
      /\ R.formRecords_ = r.formRecords_
  <2> DEFINE count == r.launchedCount_ + 1
             S == [r EXCEPT !.lastModuleUsedTime_ = t, !.launchedCount_ = count]
  <2>1. count \in Nat /\ t \in Int
    BY <1>1, <1>2
  <2>2. R = S
    BY DEF ModuleRecord
  <2> HIDE DEF count, t
  <2>3. S \in ModuleRecord /\ S.launchedCount_ = count /\ S.lastModuleUsedTime_ = t
        /\ S.formRecords_ = r.formRecords_
    BY <2>1 DEF ModuleRecord
  <2> QED BY <2>2, <2>3 DEF count
<1>6. UpdateModuleRecord(r, t) = IF r.lastModuleUsedTime_ < t THEN R ELSE r
    BY DEF UpdateModuleRecord
<1> HIDE DEF t, R
<1>7. \A f \in Form : FormOK(R, f, H) /\ FormOK(r, f, H)
    BY <1>5 DEF RecordOK, FormOK
<1>8. CASE r.lastModuleUsedTime_ < t
    BY <1>4, <1>5, <1>6, <1>7, <1>8 DEF RecordOK, t
<1>9. CASE ~(r.lastModuleUsedTime_ < t)
    BY <1>3, <1>4, <1>6, <1>7, <1>9 DEF RecordOK, t
<1> QED BY <1>8, <1>9

\* A click.
LEMMA ClickCounted ==
    ASSUME NEW now \in Nat, NEW h \in Histories, NEW f \in Form, h.clicked[f] \subseteq 0..now,
           now + h.shot > 0, NEW r \in ModuleRecord, RecordOK(r, h),
           NEW H, H.launched = h.launched, H.shot = h.shot,
           H.clicked = [h.clicked EXCEPT ![f] = h.clicked[f] \cup {now}]
    PROVE  /\ AddOrUpdateOneFormRecord(r, f, now + h.shot) \in ModuleRecord
           /\ RecordOK(AddOrUpdateOneFormRecord(r, f, now + h.shot), H)
<1> DEFINE t == now + h.shot
           old == r.formRecords_[f]
           form == IF f \in DOMAIN r.formRecords_ THEN UpdateFormRecord(old, t)
                   ELSE [count_ |-> 1, formLastUsedTime_ |-> t]
           forms == Override(r.formRecords_, [g \in {f} |-> form])
           R == [r EXCEPT !.formRecords_ = forms]
<1>1. h.shot \in Int /\ t \in Int /\ t > 0 /\ h.clicked \in [Form -> SUBSET Nat]
    BY DEF Histories
<1>2. /\ r.launchedCount_ \in Nat /\ r.lastModuleUsedTime_ \in Int
      /\ r.formRecords_ \in Maps(Form, FormRecord)
      /\ \A g \in DOMAIN r.formRecords_ :
            g \in Form /\ r.formRecords_[g].count_ \in Nat /\ r.formRecords_[g].formLastUsedTime_ \in Int
    BY RecordFields
<1>3. \A g \in Form : FormOK(r, g, h)
    BY DEF RecordOK
<1>4. /\ form \in FormRecord
      /\ Counts(form.count_, form.formLastUsedTime_, h.clicked[f] \cup {now}, h.shot)
  <2>1. CASE f \notin DOMAIN r.formRecords_
    <3>1. form = [count_ |-> 1, formLastUsedTime_ |-> t] /\ h.clicked[f] = {}
      BY <1>3, <2>1 DEF FormOK
    <3>2. Counts(1, t, {now}, h.shot)
      BY <1>1, TickFirst
    <3>3. h.clicked[f] \cup {now} = {now}
      BY <3>1
    <3> QED BY <1>1, <3>1, <3>2, <3>3 DEF FormRecord
  <2>2. CASE f \in DOMAIN r.formRecords_
    <3>1. Counts(old.count_, old.formLastUsedTime_, h.clicked[f], h.shot)
      BY <1>3, <2>2 DEF FormOK
    <3>2. old.count_ \in Nat /\ old.formLastUsedTime_ \in Int /\ old \in FormRecord
      <4>1. \A g \in DOMAIN r.formRecords_ : r.formRecords_[g] \in FormRecord
        BY <1>2, MapIs, Zenon
      <4> QED BY <1>2, <2>2, <4>1
    <3> HIDE DEF old
    <3>3. /\ old.formLastUsedTime_ < t =>
               Counts(old.count_ + 1, t, h.clicked[f] \cup {now}, h.shot)
          /\ ~(old.formLastUsedTime_ < t) => h.clicked[f] \cup {now} = h.clicked[f]
      BY <1>1, <3>1, <3>2, TickCounted
    <3>4. form = IF old.formLastUsedTime_ < t
                 THEN [count_ |-> old.count_ + 1, formLastUsedTime_ |-> t] ELSE old
      BY <2>2 DEF UpdateFormRecord
    <3> HIDE DEF t, form
    <3>5. CASE old.formLastUsedTime_ < t
      <4>1. form = [count_ |-> old.count_ + 1, formLastUsedTime_ |-> t] /\ old.count_ + 1 \in Nat
        BY <3>2, <3>4, <3>5
      <4> QED BY <1>1, <3>3, <3>5, <4>1 DEF FormRecord
    <3>6. CASE ~(old.formLastUsedTime_ < t)
      <4>1. form = old /\ h.clicked[f] \cup {now} = h.clicked[f]
        BY <3>3, <3>4, <3>6
      <4> QED BY <3>1, <3>2, <4>1
    <3> QED BY <3>5, <3>6
  <2> QED BY <2>1, <2>2
<1> HIDE DEF t, form
<1> DEFINE entry == [g \in {f} |-> form]
<1>5. DOMAIN entry = {f} /\ entry[f] = form /\ entry \in Maps(Form, FormRecord)
  <2> DEFINE V == FormRecord
  <2>1. form \in V
    BY <1>4
  <2> HIDE DEF V
  <2>2. DOMAIN entry = {f} /\ entry[f] = form /\ entry = [g \in DOMAIN entry |-> entry[g]]
    OBVIOUS
  <2> HIDE DEF entry
  <2>3. DOMAIN entry \subseteq Form /\ \A g \in DOMAIN entry : entry[g] \in V
    BY <2>1, <2>2
  <2>4. entry \in Maps(Form, V)
    BY <2>2, <2>3, MapIs, Zenon
  <2> QED BY <2>2, <2>4 DEF V
<1> HIDE DEF entry
<1>6. forms \in Maps(Form, FormRecord)
    BY <1>2, <1>5, OverrideMap DEF entry
<1>7. /\ DOMAIN forms = DOMAIN r.formRecords_ \cup {f} /\ forms[f] = form
      /\ \A g \in DOMAIN r.formRecords_ \ {f} : forms[g] = r.formRecords_[g]
  <2>1. /\ DOMAIN forms = DOMAIN r.formRecords_ \cup DOMAIN entry
        /\ \A g \in DOMAIN entry : forms[g] = entry[g]
        /\ \A g \in DOMAIN r.formRecords_ \ DOMAIN entry : forms[g] = r.formRecords_[g]
    <3> DEFINE kept == r.formRecords_
    <3>1. forms = Override(kept, entry)
      BY DEF entry
    <3> HIDE DEF forms, kept
    <3>2. /\ DOMAIN forms = DOMAIN kept \cup DOMAIN entry
          /\ \A g \in DOMAIN entry : forms[g] = entry[g]
          /\ \A g \in DOMAIN kept \ DOMAIN entry : forms[g] = kept[g]
      BY <3>1 DEF Override
    <3> QED BY <3>2 DEF kept
  <2> QED BY <1>5, <2>1
<1> HIDE DEF forms
<1>8. /\ R \in ModuleRecord /\ R.formRecords_ = forms
      /\ R.launchedCount_ = r.launchedCount_ /\ R.lastModuleUsedTime_ = r.lastModuleUsedTime_
    BY <1>6 DEF ModuleRecord
<1> HIDE DEF R
<1>9. ASSUME NEW g \in Form
      PROVE  FormOK(R, g, H)
  <2>1. CASE g = f
    <3>1. H.clicked[f] = h.clicked[f] \cup {now}
      BY <1>1
    <3> QED BY <1>4, <1>7, <1>8, <2>1, <3>1 DEF FormOK
  <2>2. CASE g # f
    <3>1. H.clicked[g] = h.clicked[g]
      BY <1>1, <2>2
    <3>2. (g \in DOMAIN forms <=> g \in DOMAIN r.formRecords_)
          /\ (g \in DOMAIN forms => forms[g] = r.formRecords_[g])
      BY <1>7, <2>2
    <3> QED BY <1>3, <1>8, <3>1, <3>2 DEF FormOK
  <2> QED BY <2>1, <2>2
<1>10. RecordOK(R, H)
    BY <1>8, <1>9 DEF RecordOK
<1>11. AddOrUpdateOneFormRecord(r, f, t) = R
    BY DEF AddOrUpdateOneFormRecord, R, forms, form, old
<1> QED BY <1>8, <1>10, <1>11 DEF t

\* A form is removed.
LEMMA FormForgotten ==
    ASSUME NEW h \in Histories, NEW f \in Form, NEW r \in ModuleRecord, RecordOK(r, h),
           NEW H, H.launched = h.launched, H.shot = h.shot,
           H.clicked = [h.clicked EXCEPT ![f] = {}]
    PROVE  /\ RemoveOneFormRecord(r, f) \in ModuleRecord
           /\ RecordOK(RemoveOneFormRecord(r, f), H)
<1> DEFINE forms == Without(r.formRecords_, {f})
           R == [r EXCEPT !.formRecords_ = forms]
<1>1. h.clicked \in [Form -> SUBSET Nat]
    BY DEF Histories
<1>2. r.formRecords_ \in Maps(Form, FormRecord)
    BY RecordFields
<1>3. \A g \in Form : FormOK(r, g, h)
    BY DEF RecordOK
<1>4. forms \in Maps(Form, FormRecord)
    BY <1>2, WithoutMap
<1>5. /\ DOMAIN forms = DOMAIN r.formRecords_ \ {f}
      /\ \A g \in DOMAIN r.formRecords_ \ {f} : forms[g] = r.formRecords_[g]
  <2> DEFINE kept == r.formRecords_
  <2>1. forms = Without(kept, {f})
    OBVIOUS
  <2> HIDE DEF forms, kept
  <2>2. DOMAIN forms = DOMAIN kept \ {f} /\ \A g \in DOMAIN kept \ {f} : forms[g] = kept[g]
    BY <2>1 DEF Without, Restrict
  <2> QED BY <2>2 DEF kept
<1>6. RemoveOneFormRecord(r, f) = R
    BY DEF RemoveOneFormRecord, ModuleRecord
<1> HIDE DEF forms
<1>7. /\ R \in ModuleRecord /\ R.formRecords_ = forms
      /\ R.launchedCount_ = r.launchedCount_ /\ R.lastModuleUsedTime_ = r.lastModuleUsedTime_
    BY <1>4 DEF ModuleRecord
<1> HIDE DEF R
<1>8. ASSUME NEW g \in Form
      PROVE  FormOK(R, g, H)
  <2>1. CASE g = f
    <3>1. H.clicked[f] = {} /\ f \notin DOMAIN forms
      BY <1>1, <1>5
    <3> QED BY <1>7, <2>1, <3>1 DEF FormOK
  <2>2. CASE g # f
    <3>1. H.clicked[g] = h.clicked[g]
      BY <1>1, <2>2
    <3>2. (g \in DOMAIN forms <=> g \in DOMAIN r.formRecords_)
          /\ (g \in DOMAIN forms => forms[g] = r.formRecords_[g])
      BY <1>5, <2>2
    <3> QED BY <1>3, <1>7, <3>1, <3>2 DEF FormOK
  <2> QED BY <2>1, <2>2
<1>9. RecordOK(R, H)
    BY <1>7, <1>8 DEF RecordOK
<1> QED BY <1>6, <1>7, <1>9

-----------------------------------------------------------------------------
(* What operations do to one instance                                      *)

\* What else a service keeps is nothing to an instance.
LEMMA SameOK ==
    ASSUME NEW u, NEW s, NEW t, NEW h, OK(u, s, t, h),
           NEW r, r.up = s.up, r.name = s.name, r.begin = s.begin,
           u \in DOMAIN r.records <=> u \in DOMAIN s.records,
           u \in DOMAIN s.records => r.records[u] = s.records[u]
    PROVE  OK(u, r, t, h)
<1>1. MemoryOK(u, r, h)
    BY DEF OK, MemoryOK
<1>2. LinkOK(u, r, t, h)
    BY DEF OK, LinkOK, Floor
<1> QED BY <1>1, <1>2 DEF OK

\* It is heard of.
LEMMA HeardOK ==
    ASSUME NEW u, NEW s, NEW t, NEW h, OK(u, s, t, h)
    PROVE  OK(u, s, t, Hist(h.launched, h.stored, h.clicked, FALSE, h.shot))
<1> DEFINE H == Hist(h.launched, h.stored, h.clicked, FALSE, h.shot)
<1>1. /\ H.launched = h.launched /\ H.stored = h.stored /\ H.clicked = h.clicked
      /\ ~H.gone /\ H.shot = h.shot
    BY DEF Hist
<1> HIDE DEF H
<1>2. MemoryOK(u, s, H)
    BY <1>1 DEF OK, MemoryOK, RecordOK, FormOK, NoClicks
<1>3. StoredOK(u, t, H)
    BY <1>1 DEF OK, StoredOK, RowOK
<1>4. LinkOK(u, s, t, H)
    BY <1>1 DEF OK, LinkOK
<1> QED BY <1>2, <1>3, <1>4 DEF OK, H

\* The mark that there is something to save.
LEMMA MarkedIs ==
    ASSUME NEW n, NEW s \in Service(n), NEW r, r = [s EXCEPT !.changed = TRUE]
    PROVE  /\ r \in Service(n) /\ r.up = s.up /\ r.name = s.name /\ r.begin = s.begin
           /\ r.records = s.records
BY DEF Service

\* A record takes the place of the one an instance had.
LEMMA WithRecordIs ==
    ASSUME NEW n, NEW s \in Service(n), NEW u \in UidsOf(n), NEW record \in ModuleRecord,
           NEW r, r = WithRecord(s, u, record)
    PROVE  /\ r \in Service(n) /\ r.up = s.up /\ r.name = s.name /\ r.begin = s.begin
           /\ DOMAIN r.records = DOMAIN s.records \cup {u} /\ r.records[u] = record
           /\ \A v \in DOMAIN s.records \ {u} : r.records[v] = s.records[v]
<1> DEFINE entry == [v \in {u} |-> record]
           all == Override(s.records, entry)
<1>1. s.records \in Maps(UidsOf(n), ModuleRecord)
    BY DEF Service
<1>2. DOMAIN entry = {u} /\ entry[u] = record /\ entry \in Maps(UidsOf(n), ModuleRecord)
  <2> DEFINE S == UidsOf(n)
             V == ModuleRecord
  <2>1. u \in S /\ record \in V
    OBVIOUS
  <2> HIDE DEF S, V
  <2>2. ASSUME NEW e, e = entry PROVE DOMAIN e = {u} /\ e[u] = record /\ e \in Maps(S, V)
    BY <2>1, <2>2, EntryMap
  <2> QED BY <2>2 DEF S, V
<1>3. /\ DOMAIN all = DOMAIN s.records \cup DOMAIN entry
      /\ \A v \in DOMAIN entry : all[v] = entry[v]
      /\ \A v \in DOMAIN s.records \ DOMAIN entry : all[v] = s.records[v]
    BY OverrideIs, Zenon
<1> HIDE DEF entry
<1>4. all \in Maps(UidsOf(n), ModuleRecord)
    BY <1>1, <1>2, OverrideMap
<1>5. r = [s EXCEPT !.records = all]
    BY DEF WithRecord, entry, Service
<1> HIDE DEF all
<1>6. r \in Service(n) /\ r.up = s.up /\ r.name = s.name /\ r.begin = s.begin /\ r.records = all
    BY <1>4, <1>5 DEF Service
<1> QED BY <1>2, <1>3, <1>6

\* If it is right for what has happened, all is right.
LEMMA WithRecordOK ==
    ASSUME NEW u, NEW s, NEW t, NEW h, s.up, OK(u, s, t, h),
           NEW H, H.stored = h.stored, H.shot = h.shot, ~H.gone,
           \A x \in H.launched : Floor(s) <= x + h.shot,
           NEW r, r.up = s.up, r.name = s.name, r.begin = s.begin,
           u \in DOMAIN r.records, RecordOK(r.records[u], H)
    PROVE  OK(u, r, t, H)
<1>1. MemoryOK(u, r, H)
    BY DEF OK, MemoryOK
<1>2. StoredOK(u, t, H)
    BY DEF OK, StoredOK, RowOK
<1>3. LinkOK(u, r, t, H)
    BY DEF OK, LinkOK, Floor
<1> QED BY <1>1, <1>2, <1>3 DEF OK

\* The end of the day and a save do what they should, or nothing.
LEMMA RenewOK ==
    ASSUME NEW u \in Uid, NEW c, Typed(UserOf[u], c), c.s.up, NEW h \in Histories,
           OK(u, c.s, c.t, h), NEW t \in Int, t > 0, NEW d, d = RenewIfExpired(c, t), Len(d.t) <= 1
    PROVE  OK(u, d.s, d.t, Hist(h.launched, IF t >= c.s.begin + Day THEN h.launched ELSE h.stored,
                                h.clicked, h.gone, h.shot))
<1>1. UserOf[u] \in User /\ c.s.begin \in Int /\ Day \in Int
    BY Constants DEF Typed, Service
<1>2. CASE t >= c.s.begin + Day
  <2>1. Saving(UserOf[u], c, d)
    BY <1>1, <1>2, RenewIs
  <2>2. OK(u, d.s, d.t, Hist(h.launched, h.launched, h.clicked, h.gone, h.shot))
    BY <2>1, SavedOK
  <2> QED BY <1>2, <2>2
<1>3. CASE ~(t >= c.s.begin + Day)
  <2>1. d = c
    BY <1>1, <1>3, RenewIs
  <2>2. h = Hist(h.launched, h.stored, h.clicked, h.gone, h.shot)
    BY DEF Hist, Histories
  <2> QED BY <1>3, <2>1, <2>2
<1> QED BY <1>2, <1>3

\* A save that was asked for leaves rows that count what the records do; any other leaves all as it was.
LEMMA RestoreOK ==
    ASSUME NEW u \in Uid, NEW c, Typed(UserOf[u], c), c.s.up, NEW h \in Histories,
           OK(u, c.s, c.t, h), NEW forced \in BOOLEAN, NEW d, d = RestoreStats(c, forced),
           Len(d.t) <= 1
    PROVE  OK(u, d.s, d.t, Hist(h.launched, IF c.s.changed \/ forced THEN h.launched ELSE h.stored,
                                h.clicked, h.gone, h.shot))
<1>1. UserOf[u] \in User
    BY Constants
<1>2. CASE c.s.changed \/ forced
  <2>1. Saving(UserOf[u], c, d)
    BY <1>1, <1>2, RestoreIs
  <2>2. OK(u, d.s, d.t, Hist(h.launched, h.launched, h.clicked, h.gone, h.shot))
    BY <2>1, SavedOK
  <2> QED BY <1>2, <2>2
<1>3. CASE ~(c.s.changed \/ forced)
  <2>1. d = c
    BY <1>1, <1>3, RestoreIs
  <2>2. h = Hist(h.launched, h.stored, h.clicked, h.gone, h.shot)
    BY DEF Hist, Histories
  <2> QED BY <1>3, <2>1, <2>2
<1> QED BY <1>2, <1>3

\* What is typed stays so; rows of others are kept.
LEMMA RenewTyped ==
    ASSUME NEW n \in User, NEW c, Typed(n, c), NEW t \in Int, t > 0, NEW d, d = RenewIfExpired(c, t)
    PROVE  Typed(n, d) /\ Keeps(Uid \ UidsOf(n), c.t, d.t) /\ d.s.up = c.s.up
<1>1. d = c \/ Saving(n, c, d)
    BY RenewIs
<1>2. CASE d = c
    BY <1>2, KeepsSame DEF Typed
<1> QED BY <1>1, <1>2 DEF Saving

\* The same for a save.
LEMMA RestoreTyped ==
    ASSUME NEW n \in User, NEW c, Typed(n, c), NEW forced \in BOOLEAN, NEW d, d = RestoreStats(c, forced)
    PROVE  Typed(n, d) /\ Keeps(Uid \ UidsOf(n), c.t, d.t) /\ d.s.up = c.s.up
<1>1. d = c \/ Saving(n, c, d)
    BY RestoreIs
<1>2. CASE d = c
    BY <1>2, KeepsSame DEF Typed
<1> QED BY <1>1, <1>2 DEF Saving

\* Rows are deleted.
LEMMA DeleteRowsIs ==
    ASSUME NEW n, NEW c, Typed(n, c), NEW uids, NEW d, d = DeleteRows(c, uids)
    PROVE  /\ Typed(n, d) /\ d.s = c.s /\ Keeps(Uid \ uids, c.t, d.t)
           /\ Len(d.t) = Len(c.t)
           /\ Match(c) /\ Len(c.t) <= 1 => \A v \in uids : ~HasRow(v, d.t)
           /\ ~Match(c) => \A v : HasRow(v, d.t) => HasRow(v, c.t)
<1> DEFINE D == Uid \ uids
           rows == Without(RowsOf(c), uids)
<1>1. /\ RowsOf(c) \in Rows
      /\ Len(c.t) <= 1 => RowsOf(c) = IF Match(c) THEN c.t[1].rows ELSE <<>>
    BY RowsOfIs
<1>2. rows \in Rows
    BY <1>1, WithoutMap DEF Rows
<1>3. /\ DOMAIN rows = DOMAIN RowsOf(c) \ uids
      /\ \A v \in DOMAIN RowsOf(c) \ uids : rows[v] = RowsOf(c)[v]
    BY WithoutIs, Zenon
<1>4. d = WithRows(c, rows)
    BY DEF DeleteRows
<1> HIDE DEF rows
<1>5. /\ d.s = c.s /\ d.t \in Seq(Table) /\ Len(d.t) = Len(c.t)
      /\ c.t # <<>> =>
           /\ d.t # <<>>
           /\ d.t[1] = [time |-> c.t[1].time, rows |-> IF Match(c) THEN rows ELSE c.t[1].rows]
      /\ c.t = <<>> => d.t = <<>>
    BY <1>2, <1>4, WithRowsIs
<1>6. /\ d.t # <<>> <=> c.t # <<>>
      /\ c.t # <<>> => /\ d.t[1].time = c.t[1].time
                       /\ d.t[1].rows = IF Match(c) THEN rows ELSE c.t[1].rows
    BY <1>5
<1>7. Typed(n, d)
    BY <1>5 DEF Typed
<1>8. ASSUME Len(c.t) <= 1, NEW v \in D
      PROVE  /\ HasRow(v, d.t) <=> HasRow(v, c.t)
             /\ HasRow(v, c.t) => d.t[1].rows[v] = c.t[1].rows[v]
  <2>1. CASE Match(c)
    BY <1>1, <1>3, <1>6, <1>8, <2>1 DEF HasRow
  <2>2. CASE ~Match(c)
    BY <1>6, <2>2 DEF HasRow
  <2> QED BY <2>1, <2>2
<1>9. Len(c.t) \in Nat
    BY DEF Typed
<1>10. Keeps(D, c.t, d.t)
  <2> HIDE DEF D
  <2> QED BY <1>5, <1>6, <1>8, <1>9 DEF Keeps
<1>11. ASSUME Match(c), Len(c.t) <= 1, NEW v \in uids
       PROVE  ~HasRow(v, d.t)
    BY <1>1, <1>3, <1>6, <1>11 DEF HasRow, Match
<1>12. ASSUME ~Match(c), NEW v, HasRow(v, d.t)
       PROVE  HasRow(v, c.t)
    BY <1>6, <1>12 DEF HasRow
<1> QED BY <1>5, <1>7, <1>10, <1>11, <1>12

\* Records are deleted.
LEMMA DeleteMemRecordsIs ==
    ASSUME NEW n, NEW c, Typed(n, c), NEW u, NEW d, d = DeleteMemRecords(c, u)
    PROVE  /\ Typed(n, d) /\ d.t = c.t
           /\ d.s.up = c.s.up /\ d.s.name = c.s.name /\ d.s.begin = c.s.begin
           /\ DOMAIN d.s.records = DOMAIN c.s.records \ Mentioned[u]
           /\ \A v \in DOMAIN c.s.records \ Mentioned[u] : d.s.records[v] = c.s.records[v]
<1> DEFINE all == Without(c.s.records, Mentioned[u])
           s == [c.s EXCEPT !.records = all]
<1>1. c.s.records \in Maps(UidsOf(n), ModuleRecord)
    BY DEF Typed, Service
<1>2. all \in Maps(UidsOf(n), ModuleRecord)
    BY <1>1, WithoutMap
<1>3. /\ DOMAIN all = DOMAIN c.s.records \ Mentioned[u]
      /\ \A v \in DOMAIN c.s.records \ Mentioned[u] : all[v] = c.s.records[v]
    BY WithoutIs, Zenon
<1>4. d = [s |-> s, t |-> c.t]
    BY DEF DeleteMemRecords, Typed, Service
<1> HIDE DEF all
<1>5. s \in Service(n) /\ s.up = c.s.up /\ s.name = c.s.name /\ s.begin = c.s.begin /\ s.records = all
    BY <1>2 DEF Typed, Service
<1> HIDE DEF s
<1>6. d.s = s /\ d.t = c.t
    BY <1>4
<1> QED BY <1>3, <1>5, <1>6 DEF Typed

\* Whatever the record of an instance is, it stays a record.
LEMMA AnyRecord ==
    ASSUME NEW n, NEW c, Typed(n, c), NEW u
    PROVE  GetOrCreateModuleRecord(c.s, u) \in ModuleRecord
<1>1. CASE u \in DOMAIN c.s.records
  <2>1. c.s.records[u] \in ModuleRecord
    BY <1>1, RecordIn
  <2> QED BY <1>1, <2>1 DEF GetOrCreateModuleRecord
<1>2. CASE u \notin DOMAIN c.s.records
    BY <1>2, NewRecordIs DEF GetOrCreateModuleRecord
<1> QED BY <1>1, <1>2

\* A record that counts a launch is one.
LEMMA LaunchTyped ==
    ASSUME NEW r \in ModuleRecord, NEW t \in Int
    PROVE  UpdateModuleRecord(r, t) \in ModuleRecord
<1> DEFINE count == r.launchedCount_ + 1
           S == [r EXCEPT !.lastModuleUsedTime_ = t, !.launchedCount_ = count]
<1>1. count \in Nat
    BY RecordFields
<1>2. UpdateModuleRecord(r, t) = S \/ UpdateModuleRecord(r, t) = r
    BY DEF UpdateModuleRecord, ModuleRecord
<1> HIDE DEF count
<1>3. S \in ModuleRecord
    BY <1>1 DEF ModuleRecord
<1> QED BY <1>2, <1>3

\* So is one that counts a click,
LEMMA ClickTyped ==
    ASSUME NEW r \in ModuleRecord, NEW t \in Int, NEW f \in Form
    PROVE  AddOrUpdateOneFormRecord(r, f, t) \in ModuleRecord
<1> DEFINE old == r.formRecords_[f]
           form == IF f \in DOMAIN r.formRecords_ THEN UpdateFormRecord(old, t)
                   ELSE [count_ |-> 1, formLastUsedTime_ |-> t]
           entry == [g \in {f} |-> form]
           forms == Override(r.formRecords_, entry)
           R == [r EXCEPT !.formRecords_ = forms]
<1>1. /\ r.formRecords_ \in Maps(Form, FormRecord)
      /\ f \in DOMAIN r.formRecords_ => old \in FormRecord
  <2>1. r.formRecords_ \in Maps(Form, FormRecord)
    BY RecordFields
  <2>2. \A g \in DOMAIN r.formRecords_ : r.formRecords_[g] \in FormRecord
    BY <2>1, MapIs, Zenon
  <2> QED BY <2>1, <2>2
<1> HIDE DEF old
<1>2. form \in FormRecord
  <2>1. old \in FormRecord => UpdateFormRecord(old, t) \in FormRecord
    BY DEF UpdateFormRecord, FormRecord
  <2>2. [count_ |-> 1, formLastUsedTime_ |-> t] \in FormRecord
    BY DEF FormRecord
  <2> QED BY <1>1, <2>1, <2>2
<1> HIDE DEF form
<1>3. entry \in Maps(Form, FormRecord)
  <2> DEFINE V == FormRecord
  <2>1. form \in V
    BY <1>2
  <2> HIDE DEF V
  <2>2. ASSUME NEW e, e = entry PROVE e \in Maps(Form, V)
    BY <2>1, <2>2, EntryMap
  <2> QED BY <2>2 DEF V
<1> HIDE DEF entry
<1>4. forms \in Maps(Form, FormRecord)
    BY <1>1, <1>3, OverrideMap
<1> HIDE DEF forms
<1>5. R \in ModuleRecord
    BY <1>4 DEF ModuleRecord
<1>6. AddOrUpdateOneFormRecord(r, f, t) = R
    BY DEF AddOrUpdateOneFormRecord, forms, entry, form, old
<1> QED BY <1>5, <1>6

\* and one that forgets a form.
LEMMA ForgottenTyped ==
    ASSUME NEW r \in ModuleRecord, NEW f
    PROVE  RemoveOneFormRecord(r, f) \in ModuleRecord
<1> DEFINE forms == Without(r.formRecords_, {f})
<1>1. r.formRecords_ \in Maps(Form, FormRecord)
    BY RecordFields
<1>2. forms \in Maps(Form, FormRecord)
    BY <1>1, WithoutMap
<1>3. RemoveOneFormRecord(r, f) = [r EXCEPT !.formRecords_ = forms]
    BY DEF RemoveOneFormRecord, ModuleRecord
<1> HIDE DEF forms
<1> QED BY <1>2, <1>3 DEF ModuleRecord

-----------------------------------------------------------------------------
(* Handlers                                                                *)

\* The inductive invariant: memory, table and history agree about what is not disturbed.
RecordsInv == \A u \in Uid \ disturbed : OK(u, svc[UserOf[u]], tables, History(u))
Inv == TypeOK /\ RecordsInv

\* What a handler leaves is typed.
LEMMA HandlerTyped ==
    ASSUME TypeOK, NEW n \in User, NEW d, Typed(n, d), svc' = [svc EXCEPT ![n] = d.s], tables' = d.t
    PROVE  /\ svc' = [m \in User |-> svc'[m]] /\ \A m \in User : svc'[m] \in Service(m)
           /\ tables' \in Seq(Table)
           /\ svc'[n] = d.s /\ \A m \in User \ {n} : svc'[m] = svc[m]
<1>1. DOMAIN svc = User
    BY DEF TypeOK
<1>2. svc'[n] = d.s /\ \A m \in User \ {n} : svc'[m] = svc[m]
    BY <1>1
<1>3. svc' = [m \in User |-> svc'[m]]
    BY <1>1
<1>4. \A m \in User : svc'[m] \in Service(m)
    BY <1>2 DEF TypeOK, Typed
<1> QED BY <1>2, <1>3, <1>4 DEF Typed

\* So are the clocks, and what is remembered.
LEMMA ClocksTyped ==
    TypeOK => /\ SystemTime \in Int /\ SystemTime > 0 /\ boot + offset = SystemTime
              /\ ExpectedSystemTime \in Int /\ ExpectedSystemTime > 0
              /\ boot \in Nat /\ offset \in Int /\ shot \in Int /\ boot \in 0..boot
BY DEF TypeOK, SystemTime, ExpectedSystemTime

\* What is remembered when a handler has begun are ticks that have come.
LEMMA BegunTyped ==
    ASSUME TypeOK, NEW n
    PROVE  /\ Begun(n).saved \in [Uid -> SUBSET (0..boot)]
           /\ Begun(n).clicks \in [Uid -> [Form -> SUBSET (0..boot)]]
BY DEF TypeOK, Begun

\* Instances of other users are not concerned.
LEMMA OthersOK ==
    ASSUME Inv, NEW n \in User, NEW d, Typed(n, d), Keeps(Uid \ UidsOf(n), UserData(n).t, d.t),
           Handled(n, d), NEW others, Disturb(n, others), NEW u \in Uid \ disturbed', UserOf[u] # n
    PROVE  /\ OK(u, svc'[UserOf[u]], tables', History(u)) /\ shot' = shot
           /\ Begun(n).saved[u] = saved[u] /\ Begun(n).clicks[u] = clicks[u]
<1>1. u \in Uid \ UidsOf(n) /\ UserOf[u] \in User
    BY Constants DEF UidsOf
<1>2. ~ClockChanged /\ u \notin disturbed
    BY <1>1 DEF Disturb
<1>3. tables' \in Seq(Table) /\ Len(tables') <= 1
  <2>1. tables' = d.t /\ Len(d.t) \in Nat
    BY DEF Handled, Typed
  <2>2. ~(Len(tables') > 1)
    BY DEF Disturb
  <2> QED BY <2>1, <2>2 DEF Typed
<1>4. Typed(n, UserData(n)) /\ Keeps(Uid \ UidsOf(n), tables, UserData(n).t)
    BY <1>2, UserDataIs DEF Inv
<1>5. tables \in Seq(Table) /\ UserData(n).t \in Seq(Table) /\ d.t \in Seq(Table)
    BY <1>4 DEF Inv, TypeOK, Typed
<1>6. Keeps(Uid \ UidsOf(n), tables, d.t)
    BY <1>4, <1>5, KeepsOn
<1>7. OK(u, svc[UserOf[u]], tables, History(u))
    BY <1>2 DEF Inv, RecordsInv
<1>8. svc'[UserOf[u]] = svc[UserOf[u]]
    BY <1>1, HandlerTyped DEF Inv, Handled
<1>9. OK(u, svc[UserOf[u]], d.t, History(u))
    BY <1>1, <1>3, <1>6, <1>7, KeptOK DEF Handled
<1>10. shot' = shot
    BY <1>2 DEF Handled, ClockChanged
<1>11. Begun(n).saved[u] = saved[u] /\ Begun(n).clicks[u] = clicks[u]
    BY <1>2 DEF Begun
<1> QED BY <1>8, <1>9, <1>10, <1>11 DEF Handled

\* Those of the user are in order when it has begun.
LEMMA OwnOK ==
    ASSUME Inv, NEW n \in User, NEW d, Typed(n, d), Len(UserData(n).t) <= Len(d.t),
           Handled(n, d), NEW others, Disturb(n, others), NEW u \in Uid \ disturbed', UserOf[u] = n
    PROVE  /\ OK(u, UserData(n).s, UserData(n).t, BegunHistory(u)) /\ BegunHistory(u) \in Histories
           /\ Len(UserData(n).t) <= 1 /\ Len(d.t) <= 1
<1>1. u \in Uid /\ u \notin disturbed /\ Handles(n)
    BY DEF Disturb, Handles
<1>2. Len(d.t) <= 1
  <2>1. tables' = d.t /\ Len(d.t) \in Nat
    BY DEF Handled, Typed
  <2>2. ~(Len(tables') > 1)
    BY DEF Disturb
  <2> QED BY <2>1, <2>2
<1>3. Typed(n, UserData(n))
    BY UserDataIs DEF Inv
<1>4. Len(UserData(n).t) <= 1
  <2>1. Len(UserData(n).t) \in Nat /\ Len(d.t) \in Nat
    BY <1>3 DEF Typed
  <2> QED BY <1>2, <2>1
<1>5. OK(u, svc[UserOf[u]], tables, History(u))
    BY <1>1 DEF Inv, RecordsInv
<1>6. OK(u, UserData(n).s, UserData(n).t, BegunHistory(u))
    BY <1>1, <1>4, <1>5, UserDataOK DEF Inv
<1>7. BegunHistory(u) \in Histories
  <2>1. launches[u] \in SUBSET Nat /\ offset \in Int
    BY DEF Inv, TypeOK
  <2>2. 0..boot \subseteq Nat
    OBVIOUS
  <2>3. Begun(n).saved[u] \in SUBSET Nat /\ Begun(n).clicks[u] \in [Form -> SUBSET Nat]
    BY <2>2, BegunTyped DEF Inv
  <2> QED BY <2>1, <2>3 DEF BegunHistory, Hist, Histories
<1> QED BY <1>2, <1>4, <1>6, <1>7

\* A handler keeps the types if what it counts is typed.
LEMMA HandlerTypeOK ==
    ASSUME TypeOK, NEW n \in User, NEW d, Typed(n, d), Handled(n, d),
           NEW others \in SUBSET Uid, Disturb(n, others), UNCHANGED clock,
           launches' \in [Uid -> SUBSET (0..boot)], saved' \in [Uid -> SUBSET (0..boot)],
           clicks' \in [Uid -> [Form -> SUBSET (0..boot)]], gone' \subseteq Uid,
           events' \in Nat, jumps' \in Nat, deaths' \in Nat
    PROVE  TypeOK'
<1>1. /\ svc' = [m \in User |-> svc'[m]] /\ \A m \in User : svc'[m] \in Service(m)
      /\ tables' \in Seq(Table)
    BY HandlerTyped DEF Handled
<1>2. boot' = boot /\ offset' = offset /\ shot' = offset
    BY DEF clock, Handled
<1>3. disturbed' \subseteq Uid
    BY DEF Disturb, TypeOK
<1> QED BY <1>1, <1>2, <1>3 DEF TypeOK

\* All is fine about all, if it is about the instances of the user.
LEMMA HandlerRecords ==
    ASSUME Inv, NEW n \in User, NEW d, Typed(n, d), Keeps(Uid \ UidsOf(n), UserData(n).t, d.t),
           Handled(n, d), NEW others, Disturb(n, others),
           \A u \in Uid : UserOf[u] # n =>
               /\ launches'[u] = launches[u] /\ saved'[u] = Begun(n).saved[u]
               /\ clicks'[u] = Begun(n).clicks[u] /\ (u \in gone' <=> u \in gone),
           \A u \in Uid \ disturbed' : UserOf[u] = n =>
               OK(u, d.s, d.t, Hist(launches'[u], saved'[u], clicks'[u], u \in gone', offset))
    PROVE  RecordsInv'
<1> SUFFICES ASSUME NEW u \in Uid \ disturbed'
             PROVE  OK(u, svc'[UserOf[u]], tables', History(u)')
    BY DEF RecordsInv
<1>1. History(u)' = Hist(launches'[u], saved'[u], clicks'[u], u \in gone', shot')
    BY DEF History
<1>2. CASE UserOf[u] # n
  <2>1. /\ OK(u, svc'[UserOf[u]], tables', History(u)) /\ shot' = shot
        /\ Begun(n).saved[u] = saved[u] /\ Begun(n).clicks[u] = clicks[u]
    BY <1>2, OthersOK
  <2>2. History(u)' = History(u)
    <3>1. /\ launches'[u] = launches[u] /\ saved'[u] = saved[u] /\ clicks'[u] = clicks[u]
          /\ (u \in gone') = (u \in gone)
      BY <1>2, <2>1
    <3> QED BY <1>1, <2>1, <3>1 DEF History
  <2> QED BY <2>1, <2>2
<1>3. CASE UserOf[u] = n
  <2>1. svc'[n] = d.s /\ tables' = d.t /\ shot' = offset
    BY HandlerTyped DEF Inv, Handled
  <2> QED BY <1>1, <1>3, <2>1
<1> QED BY <1>2, <1>3

\* A query.
LEMMA QueryKeeps == ASSUME Inv, NEW n \in User, Query(n) PROVE Inv'
<1>1. /\ Handled(n, UserData(n)) /\ Disturb(n, {}) /\ UNCHANGED <<clock, launches, gone, counts>>
      /\ saved' = Begun(n).saved /\ clicks' = Begun(n).clicks
    BY DEF Query
<1>2. Typed(n, UserData(n))
    BY UserDataIs DEF Inv
<1>3. TypeOK'
  <2>1. saved' \in [Uid -> SUBSET (0..boot)] /\ clicks' \in [Uid -> [Form -> SUBSET (0..boot)]]
    BY <1>1, BegunTyped DEF Inv
  <2>2. /\ launches' \in [Uid -> SUBSET (0..boot)] /\ gone' \subseteq Uid
        /\ events' \in Nat /\ jumps' \in Nat /\ deaths' \in Nat /\ UNCHANGED clock
    BY <1>1 DEF Inv, TypeOK, counts
  <2> QED BY <1>1, <1>2, <2>1, <2>2, HandlerTypeOK DEF Inv
<1>4. RecordsInv'
  <2>1. Keeps(Uid \ UidsOf(n), UserData(n).t, UserData(n).t) /\ Len(UserData(n).t) \in Nat
    BY <1>2, KeepsSame DEF Typed
  <2>2. ASSUME NEW u \in Uid \ disturbed', UserOf[u] = n
        PROVE  OK(u, UserData(n).s, UserData(n).t,
                  Hist(launches'[u], saved'[u], clicks'[u], u \in gone', offset))
    <3>1. OK(u, UserData(n).s, UserData(n).t, BegunHistory(u))
      BY <1>1, <1>2, <2>1, <2>2, OwnOK
    <3>2. BegunHistory(u) = Hist(launches'[u], saved'[u], clicks'[u], u \in gone', offset)
      BY <1>1, <2>2 DEF BegunHistory
    <3> QED BY <3>1, <3>2
  <2> QED BY <1>1, <1>2, <2>1, <2>2, HandlerRecords
<1> QED BY <1>3, <1>4 DEF Inv

\* The fields of what is remembered when a handler has begun.
LEMMA BegunFields ==
    ASSUME NEW u, NEW h, h = BegunHistory(u)
    PROVE  /\ h.launched = launches[u] /\ h.stored = Begun(UserOf[u]).saved[u]
           /\ h.clicked = Begun(UserOf[u]).clicks[u] /\ h.gone = (u \in gone) /\ h.shot = offset
BY DEF BegunHistory, Hist

\* An event counts one.
LEMMA EventTyped ==
    TypeOK /\ Event => events' \in Nat /\ jumps' \in Nat /\ deaths' \in Nat /\ UNCHANGED clock
BY DEF TypeOK, Event

\* A form is clicked.
LEMMA FormClickedKeeps ==
    ASSUME Inv, NEW u \in Uid, NEW f \in Form, FormClicked(u, f) PROVE Inv'
<1> DEFINE n == UserOf[u]
           c == UserData(n)
           found == GetOrCreateModuleRecord(c.s, u)
           record == AddOrUpdateOneFormRecord(found, f, SystemTime)
           r == WithRecord(c.s, u, record)
           s == [r EXCEPT !.changed = TRUE]
           d == [s |-> s, t |-> c.t]
<1>1. /\ Event /\ Handled(n, d) /\ clicks' = [Begun(n).clicks EXCEPT ![u][f] = @ \cup {boot}]
      /\ saved' = Begun(n).saved /\ gone' = gone \ {u} /\ Disturb(n, {}) /\ launches' = launches
    BY DEF FormClicked
<1>2. TypeOK /\ n \in User /\ u \in UidsOf(n)
    BY Constants DEF Inv
<1>3. /\ SystemTime \in Int /\ SystemTime > 0 /\ boot + offset = SystemTime /\ boot \in Nat
      /\ boot \in 0..boot
    BY <1>2, ClocksTyped
<1>4. Typed(n, c) /\ c.s.up
    BY <1>2, UserDataIs
<1>5. /\ Begun(n).saved \in [Uid -> SUBSET (0..boot)]
      /\ Begun(n).clicks \in [Uid -> [Form -> SUBSET (0..boot)]]
    BY <1>2, BegunTyped
<1> HIDE DEF n, c
<1>6. found \in ModuleRecord
    BY <1>4, AnyRecord
<1> HIDE DEF found
<1>7. record \in ModuleRecord
    BY <1>3, <1>6, ClickTyped
<1> HIDE DEF record
<1>8. /\ r \in Service(n) /\ r.up = c.s.up /\ r.name = c.s.name /\ r.begin = c.s.begin
      /\ DOMAIN r.records = DOMAIN c.s.records \cup {u} /\ r.records[u] = record
      /\ \A v \in DOMAIN c.s.records \ {u} : r.records[v] = c.s.records[v]
  <2>1. c.s \in Service(n)
    BY <1>4 DEF Typed
  <2> QED BY <1>2, <1>7, <2>1, WithRecordIs
<1> HIDE DEF r
<1>9. s \in Service(n) /\ s.up = r.up /\ s.name = r.name /\ s.begin = r.begin /\ s.records = r.records
    BY <1>8, MarkedIs
<1> HIDE DEF s
<1>10. d.s = s /\ d.t = c.t
    OBVIOUS
<1> HIDE DEF d
<1>11. Typed(n, d) /\ Keeps(Uid \ UidsOf(n), c.t, d.t) /\ Len(c.t) <= Len(d.t)
  <2>1. c.t \in Seq(Table)
    BY <1>4 DEF Typed
  <2> QED BY <1>9, <1>10, <2>1, KeepsSame DEF Typed
<1>12. TypeOK'
  <2>1. clicks' \in [Uid -> [Form -> SUBSET (0..boot)]]
    BY <1>1, <1>3, <1>5
  <2>2. launches' \in [Uid -> SUBSET (0..boot)] /\ gone' \subseteq Uid
    BY <1>1, <1>2 DEF TypeOK
  <2>3. events' \in Nat /\ jumps' \in Nat /\ deaths' \in Nat /\ UNCHANGED clock
    BY <1>1, <1>2, EventTyped
  <2>4. saved' \in [Uid -> SUBSET (0..boot)]
    BY <1>1, <1>5
  <2> QED BY <1>1, <1>2, <1>11, <2>1, <2>2, <2>3, <2>4, HandlerTypeOK
<1>13. ASSUME NEW v \in Uid \ disturbed', UserOf[v] = n
       PROVE  OK(v, d.s, d.t, Hist(launches'[v], saved'[v], clicks'[v], v \in gone', offset))
  <2> DEFINE h == BegunHistory(v)
             H == Hist(launches'[v], saved'[v], clicks'[v], v \in gone', offset)
  <2>1. OK(v, c.s, c.t, h) /\ h \in Histories
    BY <1>1, <1>2, <1>11, <1>13, OwnOK DEF c
  <2>2. /\ h.launched = launches[v] /\ h.stored = Begun(n).saved[v]
        /\ h.clicked = Begun(n).clicks[v] /\ h.gone = (v \in gone) /\ h.shot = offset
    BY <1>13, BegunFields
  <2>3. /\ H.launched = launches[v] /\ H.stored = Begun(n).saved[v]
        /\ H.clicked = clicks'[v] /\ H.gone = (v \in gone \ {u}) /\ H.shot = offset
    BY <1>1 DEF Hist
  <2> HIDE DEF h
  <2>4. CASE v = u
    <3>1. H.clicked = [h.clicked EXCEPT ![f] = h.clicked[f] \cup {boot}]
      BY <1>1, <1>5, <2>2, <2>3, <2>4
    <3>2. RecordOK(found, h)
      BY <1>4, <2>1, <2>4, RecordFound DEF OK, found
    <3>3. h.clicked[f] \subseteq 0..boot
      BY <1>5, <2>2
    <3> HIDE DEF H
    <3>4. boot + h.shot = SystemTime
      BY <1>3, <2>2
    <3>5. RecordOK(record, H)
      <4>1. H.launched = h.launched /\ H.shot = h.shot
        BY <2>2, <2>3
      <4>2. RecordOK(AddOrUpdateOneFormRecord(found, f, boot + h.shot), H)
        BY <1>3, <1>6, <2>1, <3>1, <3>2, <3>3, <3>4, <4>1, ClickCounted
      <4> QED BY <3>4, <4>2 DEF record
    <3>6. \A x \in H.launched : Floor(c.s) <= x + h.shot
      BY <1>4, <2>1, <2>2, <2>3 DEF OK, LinkOK
    <3>7. OK(v, s, c.t, H)
      <4>1. H.stored = h.stored /\ H.shot = h.shot /\ ~H.gone
        BY <2>2, <2>3, <2>4
      <4>2. s.up = c.s.up /\ s.name = c.s.name /\ s.begin = c.s.begin /\ v \in DOMAIN s.records
            /\ RecordOK(s.records[v], H)
        BY <1>8, <1>9, <2>4, <3>5
      <4> QED BY <1>4, <2>1, <3>6, <4>1, <4>2, WithRecordOK
    <3> QED BY <1>10, <3>7 DEF H
  <2>5. CASE v # u
    <3>1. H = h
      <4>1. clicks'[v] = Begun(n).clicks[v] /\ (v \in gone') = (v \in gone)
        BY <1>1, <1>5, <2>5
      <4> QED BY <1>1, <1>13, <4>1 DEF BegunHistory, h
    <3>2. OK(v, s, c.t, h)
      <4>1. s.up = c.s.up /\ s.name = c.s.name /\ s.begin = c.s.begin
        BY <1>8, <1>9
      <4>2. (v \in DOMAIN s.records <=> v \in DOMAIN c.s.records)
            /\ (v \in DOMAIN c.s.records => s.records[v] = c.s.records[v])
        BY <1>8, <1>9, <2>5
      <4> QED BY <2>1, <4>1, <4>2, SameOK
    <3> QED BY <1>10, <3>1, <3>2
  <2> QED BY <2>4, <2>5
<1>14. RecordsInv'
  <2>1. ASSUME NEW v \in Uid, UserOf[v] # n
        PROVE  /\ launches'[v] = launches[v] /\ saved'[v] = Begun(n).saved[v]
               /\ clicks'[v] = Begun(n).clicks[v] /\ (v \in gone' <=> v \in gone)
    <3>1. v # u
      BY <2>1 DEF n
    <3> QED BY <1>1, <1>5, <3>1
  <2> QED BY <1>1, <1>2, <1>11, <1>13, <2>1, HandlerRecords DEF c
<1> QED BY <1>12, <1>14 DEF Inv

\* A form is removed.
LEMMA FormRemovedKeeps ==
    ASSUME Inv, NEW u \in Uid, NEW f \in Form, FormRemoved(u, f) PROVE Inv'
<1> DEFINE n == UserOf[u]
           c == UserData(n)
           found == GetOrCreateModuleRecord(c.s, u)
           record == RemoveOneFormRecord(found, f)
           r == WithRecord(c.s, u, record)
           d == [s |-> r, t |-> c.t]
<1>1. /\ Event /\ Handled(n, d) /\ clicks' = [Begun(n).clicks EXCEPT ![u][f] = {}]
      /\ saved' = Begun(n).saved /\ gone' = gone \ {u} /\ Disturb(n, {}) /\ launches' = launches
    BY DEF FormRemoved
<1>2. TypeOK /\ n \in User /\ u \in UidsOf(n)
    BY Constants DEF Inv
<1>3. /\ SystemTime \in Int /\ SystemTime > 0 /\ boot + offset = SystemTime /\ boot \in Nat
      /\ boot \in 0..boot
    BY <1>2, ClocksTyped
<1>4. Typed(n, c) /\ c.s.up
    BY <1>2, UserDataIs
<1>5. /\ Begun(n).saved \in [Uid -> SUBSET (0..boot)]
      /\ Begun(n).clicks \in [Uid -> [Form -> SUBSET (0..boot)]]
    BY <1>2, BegunTyped
<1> HIDE DEF n, c
<1>6. found \in ModuleRecord
    BY <1>4, AnyRecord
<1> HIDE DEF found
<1>7. record \in ModuleRecord
    BY <1>6, ForgottenTyped
<1> HIDE DEF record
<1>8. /\ r \in Service(n) /\ r.up = c.s.up /\ r.name = c.s.name /\ r.begin = c.s.begin
      /\ DOMAIN r.records = DOMAIN c.s.records \cup {u} /\ r.records[u] = record
      /\ \A v \in DOMAIN c.s.records \ {u} : r.records[v] = c.s.records[v]
  <2>1. c.s \in Service(n)
    BY <1>4 DEF Typed
  <2> QED BY <1>2, <1>7, <2>1, WithRecordIs
<1> HIDE DEF r
<1>9. d.s = r /\ d.t = c.t
    OBVIOUS
<1> HIDE DEF d
<1>10. Typed(n, d) /\ Keeps(Uid \ UidsOf(n), c.t, d.t) /\ Len(c.t) <= Len(d.t)
  <2>1. c.t \in Seq(Table)
    BY <1>4 DEF Typed
  <2> QED BY <1>8, <1>9, <2>1, KeepsSame DEF Typed
<1>11. TypeOK'
  <2>1. clicks' \in [Uid -> [Form -> SUBSET (0..boot)]]
    BY <1>1, <1>3, <1>5
  <2>2. launches' \in [Uid -> SUBSET (0..boot)] /\ gone' \subseteq Uid
    BY <1>1, <1>2 DEF TypeOK
  <2>3. events' \in Nat /\ jumps' \in Nat /\ deaths' \in Nat /\ UNCHANGED clock
    BY <1>1, <1>2, EventTyped
  <2>4. saved' \in [Uid -> SUBSET (0..boot)]
    BY <1>1, <1>5
  <2> QED BY <1>1, <1>2, <1>10, <2>1, <2>2, <2>3, <2>4, HandlerTypeOK
<1>12. ASSUME NEW v \in Uid \ disturbed', UserOf[v] = n
       PROVE  OK(v, d.s, d.t, Hist(launches'[v], saved'[v], clicks'[v], v \in gone', offset))
  <2> DEFINE h == BegunHistory(v)
             H == Hist(launches'[v], saved'[v], clicks'[v], v \in gone', offset)
  <2>1. OK(v, c.s, c.t, h) /\ h \in Histories
    BY <1>1, <1>2, <1>10, <1>12, OwnOK DEF c
  <2>2. /\ h.launched = launches[v] /\ h.stored = Begun(n).saved[v]
        /\ h.clicked = Begun(n).clicks[v] /\ h.gone = (v \in gone) /\ h.shot = offset
    BY <1>12, BegunFields
  <2>3. /\ H.launched = launches[v] /\ H.stored = Begun(n).saved[v]
        /\ H.clicked = clicks'[v] /\ H.gone = (v \in gone \ {u}) /\ H.shot = offset
    BY <1>1 DEF Hist
  <2> HIDE DEF h
  <2>4. CASE v = u
    <3>1. H.clicked = [h.clicked EXCEPT ![f] = {}]
      BY <1>1, <1>5, <2>2, <2>3, <2>4
    <3>2. RecordOK(found, h)
      BY <1>4, <2>1, <2>4, RecordFound DEF OK, found
    <3> HIDE DEF H
    <3>3. RecordOK(record, H)
      <4>1. H.launched = h.launched /\ H.shot = h.shot
        BY <2>2, <2>3
      <4> QED BY <1>6, <2>1, <3>1, <3>2, <4>1, FormForgotten DEF record
    <3>4. \A x \in H.launched : Floor(c.s) <= x + h.shot
      BY <1>4, <2>1, <2>2, <2>3 DEF OK, LinkOK
    <3>5. OK(v, r, c.t, H)
      <4>1. H.stored = h.stored /\ H.shot = h.shot /\ ~H.gone
        BY <2>2, <2>3, <2>4
      <4>2. r.up = c.s.up /\ r.name = c.s.name /\ r.begin = c.s.begin /\ v \in DOMAIN r.records
            /\ RecordOK(r.records[v], H)
        BY <1>8, <2>4, <3>3
      <4> QED BY <1>4, <2>1, <3>4, <4>1, <4>2, WithRecordOK
    <3> QED BY <1>9, <3>5 DEF H
  <2>5. CASE v # u
    <3>1. H = h
      <4>1. clicks'[v] = Begun(n).clicks[v] /\ (v \in gone') = (v \in gone)
        BY <1>1, <1>5, <2>5
      <4> QED BY <1>1, <1>12, <4>1 DEF BegunHistory, h
    <3>2. OK(v, r, c.t, h)
      <4>1. r.up = c.s.up /\ r.name = c.s.name /\ r.begin = c.s.begin
        BY <1>8
      <4>2. (v \in DOMAIN r.records <=> v \in DOMAIN c.s.records)
            /\ (v \in DOMAIN c.s.records => r.records[v] = c.s.records[v])
        BY <1>8, <2>5
      <4> QED BY <2>1, <4>1, <4>2, SameOK
    <3> QED BY <1>9, <3>1, <3>2
  <2> QED BY <2>4, <2>5
<1>13. RecordsInv'
  <2>1. ASSUME NEW v \in Uid, UserOf[v] # n
        PROVE  /\ launches'[v] = launches[v] /\ saved'[v] = Begun(n).saved[v]
               /\ clicks'[v] = Begun(n).clicks[v] /\ (v \in gone' <=> v \in gone)
    <3>1. v # u
      BY <2>1 DEF n
    <3> QED BY <1>1, <1>5, <3>1
  <2> QED BY <1>1, <1>2, <1>10, <1>12, <2>1, HandlerRecords DEF c
<1> QED BY <1>11, <1>13 DEF Inv

\* The first ticks of an instance when an event of an ability was counted.
LEMMA AbilityCounted ==
    ASSUME Inv, NEW u \in Uid, NEW v \in Uid, UserOf[v] = UserOf[u], NEW c, Typed(UserOf[u], c), c.s.up,
           NEW h \in Histories, OK(v, c.s, c.t, h), h.launched = launches[v], h.shot = offset,
           ~FromTheFuture(c.s),
           NEW record, record = UpdateModuleRecord(GetOrCreateModuleRecord(c.s, u), SystemTime),
           NEW r, r = WithRecord(c.s, u, record)
    PROVE  OK(v, r, c.t, Hist(IF v = u THEN launches[v] \cup {boot} ELSE launches[v], h.stored,
                              h.clicked, IF v = u THEN FALSE ELSE h.gone, h.shot))
<1> DEFINE n == UserOf[u]
           found == GetOrCreateModuleRecord(c.s, u)
           H == Hist(IF v = u THEN launches[v] \cup {boot} ELSE launches[v], h.stored,
                     h.clicked, IF v = u THEN FALSE ELSE h.gone, h.shot)
<1>1. u \in UidsOf(n)
    BY Constants
<1>2. /\ SystemTime \in Int /\ SystemTime > 0 /\ boot + offset = SystemTime /\ boot \in Nat
      /\ offset \in Int
    BY ClocksTyped DEF Inv
<1> HIDE DEF n
<1>3. found \in ModuleRecord
    BY AnyRecord DEF n
<1> HIDE DEF found
<1>4. record \in ModuleRecord
    BY <1>2, <1>3, LaunchTyped DEF found
<1>5. /\ r.up = c.s.up /\ r.name = c.s.name /\ r.begin = c.s.begin
      /\ DOMAIN r.records = DOMAIN c.s.records \cup {u} /\ r.records[u] = record
      /\ \A w \in DOMAIN c.s.records \ {u} : r.records[w] = c.s.records[w]
  <2>1. c.s \in Service(n)
    BY DEF Typed, n
  <2>2. r = WithRecord(c.s, u, record)
    OBVIOUS
  <2> QED BY ONLY <1>1, <1>4, <2>1, <2>2, WithRecordIs
<1>6. CASE v = u
  <2>1. /\ H.launched = h.launched \cup {boot} /\ H.stored = h.stored /\ H.clicked = h.clicked
        /\ ~H.gone /\ H.shot = h.shot
    BY <1>6 DEF Hist
  <2> HIDE DEF H
  <2>2. RecordOK(found, h)
    BY <1>6, RecordFound DEF OK, found
  <2>3. RecordOK(record, H)
    <3>1. h.launched \subseteq 0..boot /\ boot + h.shot = SystemTime
      BY <1>2 DEF Inv, TypeOK
    <3>2. RecordOK(UpdateModuleRecord(found, boot + h.shot), H)
      BY <1>2, <1>3, <2>1, <2>2, <3>1, LaunchCounted
    <3> QED BY <3>1, <3>2 DEF found
  <2>4. \A x \in H.launched : Floor(c.s) <= x + h.shot
    <3>1. \A x \in h.launched : Floor(c.s) <= x + h.shot
      BY DEF OK, LinkOK
    <3>2. Floor(c.s) \in Int /\ Floor(c.s) <= boot + h.shot
      <4>1. c.s.begin \in Int /\ c.s.name \in Int
        BY DEF Typed, Service, Unknown
      <4>2. ~(SystemTime < c.s.begin) /\ ~(SystemTime < c.s.name)
        BY DEF FromTheFuture
      <4> QED BY <1>2, <4>1, <4>2 DEF Floor
    <3> QED BY <2>1, <3>1, <3>2
  <2>5. OK(v, r, c.t, H)
    BY <1>5, <1>6, <2>1, <2>3, <2>4, WithRecordOK
  <2> QED BY <2>5 DEF H
<1>7. CASE v # u
  <2>1. H = h
    BY <1>7 DEF Hist, Histories
  <2>2. (v \in DOMAIN r.records <=> v \in DOMAIN c.s.records)
        /\ (v \in DOMAIN c.s.records => r.records[v] = c.s.records[v])
    BY <1>5, <1>7
  <2>3. OK(v, r, c.t, h)
    BY <1>5, <2>2, SameOK
  <2> QED BY <2>1, <2>3
<1> QED BY <1>6, <1>7

\* An event of an ability.
LEMMA AbilityEventKeeps ==
    ASSUME Inv, NEW u \in Uid, NEW isForeground \in BOOLEAN, AbilityEvent(u, isForeground) PROVE Inv'
<1> DEFINE n == UserOf[u]
           c == UserData(n)
           record == UpdateModuleRecord(GetOrCreateModuleRecord(c.s, u), SystemTime)
           r == WithRecord(c.s, u, record)
           counted == IF isForeground THEN [s |-> r, t |-> c.t] ELSE c
           ended == RenewIfExpired(counted, SystemTime)
           s == [ended.s EXCEPT !.changed = TRUE]
           d == [s |-> s, t |-> ended.t]
           known == [launches EXCEPT ![u] = IF isForeground THEN @ \cup {boot} ELSE @]
           others == IF isForeground /\ FromTheFuture(c.s) THEN {u} ELSE {}
<1>1. /\ Event /\ Handled(n, d) /\ launches' = known
      /\ SavedIf(n, SystemTime >= c.s.begin + Day, known, Begun(n).saved)
      /\ clicks' = Begun(n).clicks /\ gone' = gone \ {u} /\ Disturb(n, others)
    BY DEF AbilityEvent
<1>2. TypeOK /\ n \in User /\ u \in UidsOf(n)
    BY Constants DEF Inv
<1>3. /\ SystemTime \in Int /\ SystemTime > 0 /\ boot + offset = SystemTime /\ boot \in Nat
      /\ boot \in 0..boot /\ offset \in Int
    BY <1>2, ClocksTyped
<1>4. Typed(n, c) /\ c.s.up
    BY <1>2, UserDataIs
<1>5. /\ Begun(n).saved \in [Uid -> SUBSET (0..boot)]
      /\ Begun(n).clicks \in [Uid -> [Form -> SUBSET (0..boot)]]
    BY <1>2, BegunTyped
<1>6. /\ known \in [Uid -> SUBSET (0..boot)]
      /\ known[u] = IF isForeground THEN launches[u] \cup {boot} ELSE launches[u]
      /\ \A v \in Uid \ {u} : known[v] = launches[v]
    BY <1>2, <1>3 DEF TypeOK
<1>7. others \in SUBSET Uid
    OBVIOUS
<1> HIDE DEF n, c, known, others
<1>8. record \in ModuleRecord
    BY <1>3, <1>4, AnyRecord, LaunchTyped
<1> HIDE DEF record
<1>9. r \in Service(n) /\ r.up = c.s.up /\ r.name = c.s.name /\ r.begin = c.s.begin
  <2>1. c.s \in Service(n)
    BY <1>4 DEF Typed
  <2> QED BY <1>2, <1>8, <2>1, WithRecordIs
<1> HIDE DEF r
<1>10. /\ Typed(n, counted) /\ counted.s.up /\ counted.s.begin = c.s.begin /\ counted.t = c.t
       /\ counted.s = IF isForeground THEN r ELSE c.s
  <2>1. CASE isForeground
    <3>1. counted.s = r /\ counted.t = c.t
      BY <2>1
    <3> QED BY <1>4, <1>9, <2>1, <3>1 DEF Typed
  <2>2. CASE ~isForeground
    BY <1>4, <2>2
  <2> QED BY <2>1, <2>2
<1> HIDE DEF counted
<1>11. Typed(n, ended) /\ Keeps(Uid \ UidsOf(n), c.t, ended.t) /\ ended.s.up
    BY <1>2, <1>3, <1>10, RenewTyped
<1> HIDE DEF ended
<1>12. /\ s \in Service(n) /\ s.up = ended.s.up /\ s.name = ended.s.name /\ s.begin = ended.s.begin
       /\ s.records = ended.s.records
  <2>1. ended.s \in Service(n)
    BY <1>11 DEF Typed
  <2> QED BY <2>1, MarkedIs
<1> HIDE DEF s
<1>13. d.s = s /\ d.t = ended.t
    OBVIOUS
<1> HIDE DEF d
<1>14. Typed(n, d) /\ Keeps(Uid \ UidsOf(n), c.t, d.t) /\ Len(c.t) <= Len(d.t)
    BY <1>11, <1>12, <1>13 DEF Typed, Keeps
<1> DEFINE day == SystemTime >= c.s.begin + Day
<1> HIDE DEF day
<1>15. saved' = [v \in Uid |-> IF day /\ v \in UidsOf(n) THEN known[v] ELSE Begun(n).saved[v]]
    BY <1>1 DEF SavedIf, day
<1>16. TypeOK'
  <2>1. saved' \in [Uid -> SUBSET (0..boot)]
    BY <1>5, <1>6, <1>15
  <2>2. gone' \subseteq Uid
    BY <1>1, <1>2 DEF TypeOK
  <2>3. events' \in Nat /\ jumps' \in Nat /\ deaths' \in Nat /\ UNCHANGED clock
    BY <1>1, <1>2, EventTyped
  <2> QED BY <1>1, <1>2, <1>5, <1>6, <1>7, <1>14, <2>1, <2>2, <2>3, HandlerTypeOK
<1>17. ASSUME NEW v \in Uid \ disturbed', UserOf[v] = n
       PROVE  OK(v, d.s, d.t, Hist(launches'[v], saved'[v], clicks'[v], v \in gone', offset))
  <2> DEFINE h == BegunHistory(v)
             mid == Hist(known[v], h.stored, h.clicked, v \in gone \ {u}, offset)
  <2>1. OK(v, c.s, c.t, h) /\ h \in Histories /\ Len(d.t) <= 1
    BY <1>1, <1>2, <1>14, <1>17, OwnOK DEF c
  <2>2. /\ h.launched = launches[v] /\ h.stored = Begun(n).saved[v]
        /\ h.clicked = Begun(n).clicks[v] /\ h.gone = (v \in gone) /\ h.shot = offset
    BY <1>17, BegunFields
  <2> HIDE DEF h
  <2>3. /\ mid.launched = known[v] /\ mid.stored = h.stored /\ mid.clicked = h.clicked
        /\ mid.gone = (v \in gone \ {u}) /\ mid.shot = offset
    BY DEF Hist
  <2>4. mid \in Histories
    <3>1. known[v] \in SUBSET Nat
      BY <1>6
    <3> QED BY <1>3, <2>1, <3>1 DEF Hist, Histories
  <2>5. OK(v, counted.s, counted.t, mid)
    <3>1. CASE isForeground
      <4>1. v # u \/ ~FromTheFuture(c.s)
        BY <1>1, <1>17, <3>1 DEF Disturb, others
      <4>2. CASE ~FromTheFuture(c.s)
        <5>1. OK(v, r, c.t, Hist(IF v = u THEN launches[v] \cup {boot} ELSE launches[v], h.stored,
                                 h.clicked, IF v = u THEN FALSE ELSE h.gone, h.shot))
          BY <1>4, <1>17, <2>1, <2>2, <4>2, AbilityCounted DEF n, r, record
        <5>2. mid = Hist(IF v = u THEN launches[v] \cup {boot} ELSE launches[v], h.stored,
                         h.clicked, IF v = u THEN FALSE ELSE h.gone, h.shot)
          <6>1. CASE v = u
            <7>1. (v \in gone \ {u}) = FALSE /\ known[v] = launches[v] \cup {boot}
              BY <1>6, <3>1, <6>1
            <7> QED BY <2>2, <6>1, <7>1
          <6>2. CASE v # u
            <7>1. (v \in gone \ {u}) = h.gone /\ known[v] = launches[v]
              BY <1>6, <2>2, <6>2
            <7> QED BY <2>2, <6>2, <7>1
          <6> QED BY <6>1, <6>2
        <5> QED BY <1>10, <3>1, <5>1, <5>2
      <4>3. CASE v # u
        <5>1. mid = h
          <6>1. (v \in gone \ {u}) = h.gone /\ known[v] = launches[v]
            BY <1>6, <2>2, <4>3
          <6> QED BY <2>1, <2>2, <6>1 DEF Hist, Histories
        <5>2. /\ r.up = c.s.up /\ r.name = c.s.name /\ r.begin = c.s.begin
              /\ DOMAIN r.records = DOMAIN c.s.records \cup {u}
              /\ \A w \in DOMAIN c.s.records \ {u} : r.records[w] = c.s.records[w]
          <6>1. c.s \in Service(n)
            BY <1>4 DEF Typed
          <6> QED BY <1>2, <1>8, <6>1, WithRecordIs DEF r
        <5>3. (v \in DOMAIN r.records <=> v \in DOMAIN c.s.records)
              /\ (v \in DOMAIN c.s.records => r.records[v] = c.s.records[v])
          BY <4>3, <5>2
        <5>4. OK(v, r, c.t, h)
          BY <2>1, <5>2, <5>3, SameOK
        <5> QED BY <1>10, <3>1, <5>1, <5>4
      <4> QED BY <4>1, <4>2, <4>3
    <3>2. CASE ~isForeground
      <4>1. CASE v = u
        <5>1. OK(v, c.s, c.t, Hist(h.launched, h.stored, h.clicked, FALSE, h.shot))
          BY <2>1, HeardOK
        <5>2. mid = Hist(h.launched, h.stored, h.clicked, FALSE, h.shot)
          <6>1. (v \in gone \ {u}) = FALSE /\ known[v] = launches[v]
            BY <1>6, <3>2, <4>1
          <6> QED BY <2>2, <6>1
        <5> QED BY <1>10, <3>2, <5>1, <5>2
      <4>2. CASE v # u
        <5>1. mid = h
          <6>1. (v \in gone \ {u}) = h.gone /\ known[v] = launches[v]
            BY <1>6, <2>2, <4>2
          <6> QED BY <2>1, <2>2, <6>1 DEF Hist, Histories
        <5> QED BY <1>10, <2>1, <3>2, <5>1
      <4> QED BY <4>1, <4>2
    <3> QED BY <3>1, <3>2
  <2> HIDE DEF mid
  <2>6. OK(v, ended.s, ended.t, Hist(mid.launched, IF day THEN mid.launched ELSE mid.stored,
                                     mid.clicked, mid.gone, mid.shot))
    <3>1. Typed(UserOf[v], counted) /\ counted.s.up /\ Len(ended.t) <= 1
      BY <1>10, <1>13, <1>17, <2>1
    <3>2. day <=> SystemTime >= counted.s.begin + Day
      BY <1>10 DEF day
    <3>3. OK(v, ended.s, ended.t,
             Hist(mid.launched, IF SystemTime >= counted.s.begin + Day THEN mid.launched ELSE mid.stored,
                  mid.clicked, mid.gone, mid.shot))
      BY <1>3, <2>4, <2>5, <3>1, RenewOK DEF ended
    <3> QED BY <3>2, <3>3
  <2>7. Hist(launches'[v], saved'[v], clicks'[v], v \in gone', offset)
        = Hist(mid.launched, IF day THEN mid.launched ELSE mid.stored, mid.clicked, mid.gone, mid.shot)
    <3>1. v \in UidsOf(n)
      BY <1>17, Constants
    <3>2. saved'[v] = IF day THEN known[v] ELSE Begun(n).saved[v]
      BY <1>15, <3>1
    <3> QED BY <1>1, <2>2, <2>3, <3>2
  <2>8. OK(v, s, ended.t, Hist(launches'[v], saved'[v], clicks'[v], v \in gone', offset))
    BY <1>12, <2>6, <2>7, SameOK
  <2> QED BY <1>13, <2>8
<1>18. RecordsInv'
  <2>1. ASSUME NEW v \in Uid, UserOf[v] # n
        PROVE  /\ launches'[v] = launches[v] /\ saved'[v] = Begun(n).saved[v]
               /\ clicks'[v] = Begun(n).clicks[v] /\ (v \in gone' <=> v \in gone)
    <3>1. v # u /\ v \notin UidsOf(n)
      BY <2>1 DEF n, UidsOf
    <3> QED BY <1>1, <1>6, <1>15, <3>1
  <2> QED BY <1>1, <1>2, <1>14, <1>17, <2>1, HandlerRecords DEF c
<1> QED BY <1>16, <1>18 DEF Inv

\* Of what was removed nothing is left.
LEMMA GoneOK ==
    ASSUME NEW v, NEW s, NEW t, v \notin DOMAIN s.records, ~HasRow(v, t), Len(t) <= 1,
           s.up /\ s.name # Unknown => t # <<>> /\ t[1].time = s.name,
           NEW h, h.launched = {}, h.stored = {}, NoClicks(h)
    PROVE  OK(v, s, t, h)
<1>1. MemoryOK(v, s, h)
    BY DEF MemoryOK
<1>2. StoredOK(v, t, h)
    BY DEF StoredOK
<1>3. LinkOK(v, s, t, h)
    BY DEF LinkOK
<1> QED BY <1>1, <1>2, <1>3 DEF OK

\* The service that knows the table leaves no row of what is removed.
LEMMA NoRowLeft ==
    ASSUME NEW n, NEW c, Typed(n, c), c.s.up, Len(c.t) <= 1, NEW uids, NEW v \in uids,
           c.s.name = Unknown => ~HasRow(v, c.t),
           c.s.name # Unknown => c.t # <<>> /\ c.t[1].time = c.s.name, NEW d, d = DeleteRows(c, uids)
    PROVE  /\ ~HasRow(v, d.t)
           /\ c.s.name # Unknown => d.t # <<>> /\ d.t[1].time = c.s.name
<1>1. /\ d.s = c.s /\ Keeps(Uid \ uids, c.t, d.t) /\ Len(d.t) = Len(c.t)
      /\ Match(c) => \A w \in uids : ~HasRow(w, d.t)
      /\ ~Match(c) => \A w : HasRow(w, d.t) => HasRow(w, c.t)
    BY DeleteRowsIs
<1>2. CASE Match(c)
  <2>1. Len(d.t) <= 1 => d.t # <<>> /\ d.t[1].time = c.s.name
    BY <1>1, <1>2 DEF Keeps, Match
  <2> QED BY <1>1, <1>2, <2>1
<1>3. CASE ~Match(c)
  <2>1. c.s.name = Unknown
    BY <1>3 DEF Match
  <2>2. ~HasRow(v, c.t)
    BY <2>1
  <2> QED BY <1>1, <1>3, <2>1, <2>2
<1> QED BY <1>2, <1>3

\* A bundle is uninstalled.
LEMMA UninstallKeeps ==
    ASSUME Inv, NEW u \in Uid, Uninstall(u) PROVE Inv'
<1> DEFINE n == UserOf[u]
           c == UserData(n)
           removed == RemovedUids[u]
           e == DeleteMemRecords(c, u)
           d == DeleteRows(e, removed)
           others == Mentioned[u] \ removed
<1>1. /\ Event /\ Handled(n, d) /\ gone' = gone \cup removed /\ Disturb(n, others)
      /\ launches' = [v \in Uid |-> IF v \in removed THEN {} ELSE launches[v]]
      /\ saved' = [v \in Uid |-> IF v \in removed THEN {} ELSE Begun(n).saved[v]]
      /\ clicks' = [v \in Uid |-> IF v \in removed THEN Unclicked ELSE Begun(n).clicks[v]]
    BY DEF Uninstall, Unclicked
<1>2. /\ TypeOK /\ n \in User /\ removed \subseteq UidsOf(n) /\ removed \subseteq Uid
      /\ removed \subseteq Mentioned[u] /\ Mentioned[u] \subseteq Uid
  <2>1. \A v \in removed : v \in Uid /\ UserOf[v] = UserOf[u]
    BY RecordsAssumption
  <2> QED BY <2>1, Constants, RecordsAssumption DEF Inv, UidsOf
<1>3. Typed(n, c) /\ c.s.up
    BY <1>2, UserDataIs
<1>4. /\ Begun(n).saved \in [Uid -> SUBSET (0..boot)]
      /\ Begun(n).clicks \in [Uid -> [Form -> SUBSET (0..boot)]]
    BY <1>2, BegunTyped
<1> HIDE DEF n, c, removed, others
<1>5. /\ Typed(n, e) /\ e.t = c.t
      /\ e.s.up = c.s.up /\ e.s.name = c.s.name /\ e.s.begin = c.s.begin
      /\ DOMAIN e.s.records = DOMAIN c.s.records \ Mentioned[u]
      /\ \A v \in DOMAIN c.s.records \ Mentioned[u] : e.s.records[v] = c.s.records[v]
  <2>1. e = DeleteMemRecords(c, u)
    OBVIOUS
  <2> HIDE DEF e
  <2>2. Typed(n, c)
    BY <1>3
  <2>3. Typed(n, e)
    BY ONLY <2>1, <2>2, DeleteMemRecordsIs
  <2>4. e.t = c.t /\ e.s.up = c.s.up /\ e.s.name = c.s.name /\ e.s.begin = c.s.begin
    BY ONLY <2>1, <2>2, DeleteMemRecordsIs
  <2>5. DOMAIN e.s.records = DOMAIN c.s.records \ Mentioned[u]
    BY ONLY <2>1, <2>2, DeleteMemRecordsIs
  <2>6. \A v \in DOMAIN c.s.records \ Mentioned[u] : e.s.records[v] = c.s.records[v]
    BY ONLY <2>1, <2>2, DeleteMemRecordsIs
  <2> QED BY <2>3, <2>4, <2>5, <2>6
<1> HIDE DEF e
<1>6. Typed(n, d) /\ d.s = e.s /\ Keeps(Uid \ removed, e.t, d.t)
    BY <1>5, DeleteRowsIs
<1> HIDE DEF d
<1>7. Keeps(Uid \ UidsOf(n), c.t, d.t) /\ Len(c.t) <= Len(d.t)
    BY <1>2, <1>5, <1>6 DEF Keeps
<1>8. TypeOK'
  <2>1. launches' \in [Uid -> SUBSET (0..boot)]
    BY <1>1, <1>2 DEF TypeOK
  <2>2. saved' \in [Uid -> SUBSET (0..boot)]
    BY <1>1, <1>4
  <2>3. clicks' \in [Uid -> [Form -> SUBSET (0..boot)]]
    BY <1>1, <1>4 DEF Unclicked
  <2>4. gone' \subseteq Uid /\ others \in SUBSET Uid
    BY <1>1, <1>2, RecordsAssumption DEF TypeOK, others
  <2>5. events' \in Nat /\ jumps' \in Nat /\ deaths' \in Nat /\ UNCHANGED clock
    BY <1>1, <1>2, EventTyped
  <2> QED BY <1>1, <1>2, <1>6, <2>1, <2>2, <2>3, <2>4, <2>5, HandlerTypeOK
<1>9. ASSUME NEW v \in Uid \ disturbed', UserOf[v] = n
      PROVE  OK(v, d.s, d.t, Hist(launches'[v], saved'[v], clicks'[v], v \in gone', offset))
  <2> DEFINE h == BegunHistory(v)
             H == Hist(launches'[v], saved'[v], clicks'[v], v \in gone', offset)
  <2>1. OK(v, c.s, c.t, h) /\ h \in Histories /\ Len(c.t) <= 1 /\ Len(d.t) <= 1
    BY <1>1, <1>2, <1>6, <1>7, <1>9, OwnOK DEF c
  <2>2. CASE v \in removed
    <3>1. H.launched = {} /\ H.stored = {} /\ NoClicks(H)
      BY <1>1, <2>2 DEF Hist, NoClicks, Unclicked
    <3>2. v \notin DOMAIN d.s.records /\ d.s.up
      BY <1>2, <1>3, <1>5, <1>6, <2>2
    <3>3. /\ e.s.name = Unknown => ~HasRow(v, e.t)
          /\ e.s.name # Unknown => e.t # <<>> /\ e.t[1].time = e.s.name
      BY <1>3, <1>5, <2>1 DEF OK, LinkOK
    <3>4. ~HasRow(v, d.t) /\ (e.s.name # Unknown => d.t # <<>> /\ d.t[1].time = e.s.name)
      BY <1>3, <1>5, <2>1, <2>2, <3>3, NoRowLeft DEF d
    <3> HIDE DEF H
    <3>5. OK(v, d.s, d.t, H)
      BY <1>6, <2>1, <3>1, <3>2, <3>4, GoneOK
    <3> QED BY <3>5 DEF H
  <2>3. CASE v \notin removed
    <3>1. v \notin Mentioned[u]
      BY <1>1, <1>9, <2>3 DEF Disturb, others
    <3>2. H = h
      <4>1. launches'[v] = launches[v] /\ saved'[v] = Begun(n).saved[v]
            /\ clicks'[v] = Begun(n).clicks[v] /\ (v \in gone') = (v \in gone)
        BY <1>1, <2>3
      <4> QED BY <1>9, <4>1 DEF BegunHistory
    <3>3. OK(v, e.s, e.t, h)
      <4>1. (v \in DOMAIN e.s.records <=> v \in DOMAIN c.s.records)
            /\ (v \in DOMAIN c.s.records => e.s.records[v] = c.s.records[v])
        BY <1>5, <3>1
      <4> HIDE DEF h
      <4> QED BY <1>5, <2>1, <4>1, SameOK
    <3>4. OK(v, e.s, d.t, h)
      <4>1. v \in Uid \ removed
        BY <2>3
      <4> HIDE DEF h
      <4> QED BY <1>6, <2>1, <3>3, <4>1, KeptOK
    <3> QED BY <1>6, <3>2, <3>4
  <2> QED BY <2>2, <2>3
<1>10. RecordsInv'
  <2>1. ASSUME NEW v \in Uid, UserOf[v] # n
        PROVE  /\ launches'[v] = launches[v] /\ saved'[v] = Begun(n).saved[v]
               /\ clicks'[v] = Begun(n).clicks[v] /\ (v \in gone' <=> v \in gone)
    <3>1. v \notin removed
      BY <1>2, <2>1 DEF UidsOf
    <3> QED BY <1>1, <3>1
  <2> QED BY <1>1, <1>2, <1>6, <1>7, <1>9, <2>1, HandlerRecords DEF c
<1> QED BY <1>8, <1>10 DEF Inv

-----------------------------------------------------------------------------
(* Other steps of a service                                                *)

\* A step of a service that does not look at the clock's change keeps the types.
LEMMA ServiceTypeOK ==
    ASSUME TypeOK, NEW n \in User, NEW d, Typed(n, d), svc' = [svc EXCEPT ![n] = d.s], tables' = d.t,
           UNCHANGED <<clock, shot>>, launches' \in [Uid -> SUBSET (0..boot)],
           saved' \in [Uid -> SUBSET (0..boot)], clicks' \in [Uid -> [Form -> SUBSET (0..boot)]],
           gone' \subseteq Uid, disturbed' \subseteq Uid,
           events' \in Nat, jumps' \in Nat, deaths' \in Nat
    PROVE  TypeOK'
<1>1. /\ svc' = [m \in User |-> svc'[m]] /\ \A m \in User : svc'[m] \in Service(m)
      /\ tables' \in Seq(Table)
    BY HandlerTyped
<1>2. boot' = boot /\ offset' = offset /\ shot' = shot
    BY DEF clock
<1> QED BY <1>1, <1>2 DEF TypeOK

\* All is fine about all, if it is about the instances of the user.
LEMMA ServiceRecords ==
    ASSUME Inv, NEW n \in User, NEW d, Typed(n, d), Keeps(Uid \ UidsOf(n), tables, d.t),
           svc' = [svc EXCEPT ![n] = d.s], tables' = d.t, shot' = shot, disturbed \subseteq disturbed',
           \A u \in Uid \ disturbed' : Len(tables') <= 1,
           \A u \in Uid : UserOf[u] # n =>
               /\ launches'[u] = launches[u] /\ saved'[u] = saved[u]
               /\ clicks'[u] = clicks[u] /\ (u \in gone' <=> u \in gone),
           \A u \in Uid \ disturbed' : UserOf[u] = n =>
               OK(u, d.s, d.t, Hist(launches'[u], saved'[u], clicks'[u], u \in gone', shot))
    PROVE  RecordsInv'
<1> SUFFICES ASSUME NEW u \in Uid \ disturbed'
             PROVE  OK(u, svc'[UserOf[u]], tables', History(u)')
    BY DEF RecordsInv
<1>1. History(u)' = Hist(launches'[u], saved'[u], clicks'[u], u \in gone', shot')
    BY DEF History
<1>2. svc'[n] = d.s /\ \A m \in User \ {n} : svc'[m] = svc[m]
    BY HandlerTyped DEF Inv
<1>3. CASE UserOf[u] # n
  <2>1. u \in Uid \ UidsOf(n) /\ UserOf[u] \in User /\ u \in Uid \ disturbed
    BY <1>3, Constants DEF UidsOf
  <2>2. OK(u, svc[UserOf[u]], tables, History(u))
    BY <2>1 DEF Inv, RecordsInv
  <2>3. OK(u, svc[UserOf[u]], tables', History(u))
    BY <2>1, <2>2, KeptOK
  <2>4. History(u)' = History(u)
    <3>1. (u \in gone') = (u \in gone)
      BY <1>3
    <3> QED BY <1>1, <1>3, <3>1 DEF History
  <2> QED BY <1>2, <1>3, <2>1, <2>3, <2>4
<1>4. CASE UserOf[u] = n
    BY <1>1, <1>2, <1>4
<1> QED BY <1>3, <1>4

\* The fields of the history of an instance, and of its service.
LEMMA HistoryFields ==
    ASSUME Inv, NEW u \in Uid, NEW n, UserOf[u] = n, NEW h, h = History(u)
    PROVE  /\ h.launched = launches[u] /\ h.stored = saved[u] /\ h.clicked = clicks[u]
           /\ h.gone = (u \in gone) /\ h.shot = shot /\ h \in Histories
           /\ u \in UidsOf(n) /\ n \in User
           /\ Typed(n, Pair(n)) /\ Pair(n).s = svc[n] /\ Pair(n).t = tables
           /\ u \notin disturbed => OK(u, Pair(n).s, Pair(n).t, h)
<1>1. /\ h.launched = launches[u] /\ h.stored = saved[u] /\ h.clicked = clicks[u]
      /\ h.gone = (u \in gone) /\ h.shot = shot
    BY DEF History, Hist
<1>2. h \in Histories
    BY HistoryTyped DEF Inv
<1>3. u \in UidsOf(n) /\ n \in User
    BY Constants
<1>4. Typed(n, Pair(n)) /\ Pair(n).s = svc[n] /\ Pair(n).t = tables
    BY <1>3, PairTyped DEF Inv
<1>5. u \notin disturbed => OK(u, svc[n], tables, h)
    BY DEF Inv, RecordsInv
<1> QED BY <1>1, <1>2, <1>3, <1>4, <1>5

\* The end of the day, if it has come, and a save.
LEMMA EndedAndSaved ==
    ASSUME Inv, NEW n \in User, svc[n].up, NEW t \in Int, t > 0, NEW forced \in BOOLEAN,
           NEW d, d = RestoreStats(RenewIfExpired(Pair(n), t), forced)
    PROVE  /\ Typed(n, d) /\ Keeps(Uid \ UidsOf(n), tables, d.t)
           /\ \A u \in Uid \ disturbed : UserOf[u] = n /\ Len(d.t) <= 1 =>
                OK(u, d.s, d.t,
                   Hist(launches[u],
                        IF t >= svc[n].begin + Day \/ svc[n].changed \/ forced THEN launches[u]
                        ELSE saved[u],
                        clicks[u], u \in gone, shot))
<1> DEFINE c == Pair(n)
           e == RenewIfExpired(c, t)
<1>1. Typed(n, c) /\ c.s = svc[n] /\ c.t = tables
    BY PairTyped DEF Inv
<1> HIDE DEF c
<1>2. Typed(n, e) /\ Keeps(Uid \ UidsOf(n), c.t, e.t) /\ e.s.up
    BY <1>1, RenewTyped
<1>3. t < c.s.begin + Day => e = c
    BY <1>1, RenewIs
<1>4. c.s.begin + Day \in Int
    BY <1>1, Constants DEF Typed, Service
<1> HIDE DEF e
<1>5. Typed(n, d) /\ Keeps(Uid \ UidsOf(n), e.t, d.t)
    BY <1>2, RestoreTyped DEF e, c
<1>6. Keeps(Uid \ UidsOf(n), c.t, d.t)
    BY <1>1, <1>2, <1>5, KeepsOn DEF Typed
<1>7. ASSUME NEW u \in Uid \ disturbed, UserOf[u] = n, Len(d.t) <= 1
      PROVE  OK(u, d.s, d.t,
                Hist(launches[u],
                     IF t >= svc[n].begin + Day \/ svc[n].changed \/ forced THEN launches[u]
                     ELSE saved[u],
                     clicks[u], u \in gone, shot))
  <2> DEFINE h == History(u)
             day == t >= c.s.begin + Day
             k == Hist(h.launched, IF day THEN h.launched ELSE h.stored, h.clicked, h.gone, h.shot)
  <2>1. /\ h.launched = launches[u] /\ h.stored = saved[u] /\ h.clicked = clicks[u]
        /\ h.gone = (u \in gone) /\ h.shot = shot /\ h \in Histories
        /\ OK(u, c.s, c.t, h)
    BY <1>7, HistoryFields DEF c
  <2>2. Len(e.t) <= 1
    <3>1. Len(e.t) \in Nat /\ Len(d.t) \in Nat /\ Len(e.t) <= Len(d.t)
      BY <1>2, <1>5 DEF Typed, Keeps
    <3> QED BY <1>7, <3>1
  <2> HIDE DEF h
  <2>3. OK(u, e.s, e.t, k)
    BY <1>1, <1>7, <2>1, <2>2, RenewOK DEF e
  <2>4. /\ k.launched = launches[u] /\ k.stored = (IF day THEN launches[u] ELSE saved[u])
        /\ k.clicked = clicks[u] /\ k.gone = (u \in gone) /\ k.shot = shot
    BY <2>1 DEF Hist
  <2>5. k \in Histories
    BY <2>1 DEF Hist, Histories
  <2> HIDE DEF k
  <2>6. OK(u, d.s, d.t, Hist(k.launched, IF e.s.changed \/ forced THEN k.launched ELSE k.stored,
                             k.clicked, k.gone, k.shot))
    BY <1>2, <1>7, <2>3, <2>5, RestoreOK DEF e, c
  <2>7. day \/ e.s.changed = svc[n].changed
    BY <1>1, <1>3, <1>4
  <2>8. (IF e.s.changed \/ forced THEN k.launched ELSE k.stored)
        = IF t >= svc[n].begin + Day \/ svc[n].changed \/ forced THEN launches[u] ELSE saved[u]
    BY <1>1, <2>4, <2>7
  <2> QED BY <2>4, <2>6, <2>8
<1> QED BY <1>1, <1>5, <1>6, <1>7

\* What is saved of the user.
LEMMA SavedTyped ==
    ASSUME TypeOK, NEW n, NEW now \in BOOLEAN, SavedIf(n, now, launches, saved)
    PROVE  /\ saved' \in [Uid -> SUBSET (0..boot)]
           /\ \A u \in Uid : saved'[u] = IF now /\ u \in UidsOf(n) THEN launches[u] ELSE saved[u]
BY DEF TypeOK, SavedIf

\* The flush.
LEMMA FlushKeeps == ASSUME Inv, NEW n \in User, Flush(n) PROVE Inv'
<1> DEFINE d == RestoreStats(RenewIfExpired(Pair(n), SystemTime), FALSE)
           now == SystemTime >= svc[n].begin + Day \/ svc[n].changed
<1>1. /\ svc[n].up /\ svc' = [svc EXCEPT ![n] = d.s] /\ tables' = d.t
      /\ SavedIf(n, now, launches, saved)
      /\ disturbed' = disturbed \cup (IF Len(tables') > 1 THEN Uid ELSE {})
      /\ UNCHANGED <<clock, shot, launches, clicks, gone, counts>>
    BY DEF Flush
<1>2. SystemTime \in Int /\ SystemTime > 0
    BY ClocksTyped DEF Inv
<1>3. /\ Typed(n, d) /\ Keeps(Uid \ UidsOf(n), tables, d.t)
      /\ \A u \in Uid \ disturbed : UserOf[u] = n /\ Len(d.t) <= 1 =>
            OK(u, d.s, d.t, Hist(launches[u],
                IF SystemTime >= svc[n].begin + Day \/ svc[n].changed \/ FALSE THEN launches[u]
                ELSE saved[u], clicks[u], u \in gone, shot))
    BY <1>1, <1>2, EndedAndSaved
<1> HIDE DEF d
<1>4. now \in BOOLEAN
    BY Zenon
<1>5. /\ saved' \in [Uid -> SUBSET (0..boot)]
      /\ \A u \in Uid : saved'[u] = IF now /\ u \in UidsOf(n) THEN launches[u] ELSE saved[u]
    BY <1>1, <1>4, SavedTyped DEF Inv
<1> HIDE DEF now
<1>6. TypeOK'
  <2>1. /\ TypeOK /\ UNCHANGED <<clock, shot>> /\ disturbed' \subseteq Uid
        /\ launches' \in [Uid -> SUBSET (0..boot)] /\ clicks' \in [Uid -> [Form -> SUBSET (0..boot)]]
        /\ gone' \subseteq Uid /\ events' \in Nat /\ jumps' \in Nat /\ deaths' \in Nat
    BY <1>1 DEF Inv, TypeOK, counts
  <2> QED BY <1>1, <1>3, <1>5, <2>1, ServiceTypeOK
<1>7. RecordsInv'
  <2>1. \A u \in Uid \ disturbed' : Len(tables') <= 1
    <3>1. Len(tables') \in Nat
      BY <1>1, <1>3 DEF Typed
    <3> QED BY <1>1, <3>1
  <2>2. ASSUME NEW u \in Uid \ disturbed', UserOf[u] = n
        PROVE  OK(u, d.s, d.t, Hist(launches'[u], saved'[u], clicks'[u], u \in gone', shot))
    <3>1. u \in Uid \ disturbed /\ u \in UidsOf(n)
      BY <1>1, <2>2, Constants
    <3>2. saved'[u] = IF SystemTime >= svc[n].begin + Day \/ svc[n].changed \/ FALSE THEN launches[u]
                      ELSE saved[u]
      BY <1>5, <3>1 DEF now
    <3> QED BY <1>1, <1>3, <2>1, <2>2, <3>1, <3>2
  <2>3. ASSUME NEW u \in Uid, UserOf[u] # n
        PROVE  /\ launches'[u] = launches[u] /\ saved'[u] = saved[u]
               /\ clicks'[u] = clicks[u] /\ (u \in gone' <=> u \in gone)
    BY <1>1, <1>5, <2>3 DEF UidsOf
  <2>4. shot' = shot /\ disturbed \subseteq disturbed'
    BY <1>1
  <2> QED BY <1>1, <1>3, <2>1, <2>2, <2>3, <2>4, ServiceRecords
<1> QED BY <1>6, <1>7 DEF Inv

\* The user is switched.
LEMMA SwitchUserKeeps == ASSUME Inv, NEW n \in User, SwitchUser(n) PROVE Inv'
<1> DEFINE d == RestoreStats(RenewIfExpired(Pair(n), ExpectedSystemTime), TRUE)
<1>1. /\ svc[n].up /\ svc' = [svc EXCEPT ![n] = d.s] /\ tables' = d.t
      /\ SavedIf(n, TRUE, launches, saved)
      /\ disturbed' = disturbed \cup (IF Len(tables') > 1 THEN Uid ELSE {})
      /\ UNCHANGED <<clock, shot, launches, clicks, gone, counts>>
    BY DEF SwitchUser
<1>2. ExpectedSystemTime \in Int /\ ExpectedSystemTime > 0
    BY ClocksTyped DEF Inv
<1>3. /\ Typed(n, d) /\ Keeps(Uid \ UidsOf(n), tables, d.t)
      /\ \A u \in Uid \ disturbed : UserOf[u] = n /\ Len(d.t) <= 1 =>
            OK(u, d.s, d.t, Hist(launches[u],
                IF ExpectedSystemTime >= svc[n].begin + Day \/ svc[n].changed \/ TRUE THEN launches[u]
                ELSE saved[u], clicks[u], u \in gone, shot))
    BY <1>1, <1>2, EndedAndSaved
<1> HIDE DEF d
<1>4. /\ saved' \in [Uid -> SUBSET (0..boot)]
      /\ \A u \in Uid : saved'[u] = IF TRUE /\ u \in UidsOf(n) THEN launches[u] ELSE saved[u]
    BY <1>1, SavedTyped DEF Inv
<1>5. TypeOK'
  <2>1. /\ TypeOK /\ UNCHANGED <<clock, shot>> /\ disturbed' \subseteq Uid
        /\ launches' \in [Uid -> SUBSET (0..boot)] /\ clicks' \in [Uid -> [Form -> SUBSET (0..boot)]]
        /\ gone' \subseteq Uid /\ events' \in Nat /\ jumps' \in Nat /\ deaths' \in Nat
    BY <1>1 DEF Inv, TypeOK, counts
  <2> QED BY <1>1, <1>3, <1>4, <2>1, ServiceTypeOK
<1>6. RecordsInv'
  <2>1. \A u \in Uid \ disturbed' : Len(tables') <= 1
    <3>1. Len(tables') \in Nat
      BY <1>1, <1>3 DEF Typed
    <3> QED BY <1>1, <3>1
  <2>2. ASSUME NEW u \in Uid \ disturbed', UserOf[u] = n
        PROVE  OK(u, d.s, d.t, Hist(launches'[u], saved'[u], clicks'[u], u \in gone', shot))
    <3>1. u \in Uid \ disturbed /\ u \in UidsOf(n)
      BY <1>1, <2>2, Constants
    <3>2. saved'[u] = IF ExpectedSystemTime >= svc[n].begin + Day \/ svc[n].changed \/ TRUE THEN launches[u]
                      ELSE saved[u]
      BY <1>4, <3>1
    <3> QED BY <1>1, <1>3, <2>1, <2>2, <3>1, <3>2
  <2>3. ASSUME NEW u \in Uid, UserOf[u] # n
        PROVE  /\ launches'[u] = launches[u] /\ saved'[u] = saved[u]
               /\ clicks'[u] = clicks[u] /\ (u \in gone' <=> u \in gone)
    BY <1>1, <1>4, <2>3 DEF UidsOf
  <2>4. shot' = shot /\ disturbed \subseteq disturbed'
    BY <1>1
  <2> QED BY <1>1, <1>3, <2>1, <2>2, <2>3, <2>4, ServiceRecords
<1> QED BY <1>5, <1>6 DEF Inv

\* The user is removed.
LEMMA UserRemovedKeeps == ASSUME Inv, NEW n \in User, UserRemoved(n) PROVE Inv'
<1> DEFINE removed == UidsOf(n)
           c == Pair(n)
           e == DeleteRows(c, removed)
           d == [s |-> NoService, t |-> e.t]
<1>1. /\ svc[n].up /\ Event /\ svc' = [svc EXCEPT ![n] = NoService] /\ tables' = e.t
      /\ launches' = [v \in Uid |-> IF v \in removed THEN {} ELSE launches[v]]
      /\ saved' = [v \in Uid |-> IF v \in removed THEN {} ELSE saved[v]]
      /\ clicks' = [v \in Uid |-> IF v \in removed THEN Unclicked ELSE clicks[v]]
      /\ gone' = gone \cup removed /\ UNCHANGED <<shot, disturbed>>
    BY DEF UserRemoved, Unclicked
<1>2. removed \subseteq Uid /\ TypeOK
    BY DEF UidsOf, Inv
<1>3. Typed(n, c) /\ c.s = svc[n] /\ c.t = tables
    BY PairTyped DEF Inv
<1> HIDE DEF c, removed
<1>4. Typed(n, e) /\ Keeps(Uid \ removed, c.t, e.t) /\ Len(e.t) = Len(c.t)
    BY <1>3, DeleteRowsIs
<1>5. NoService \in Service(n) /\ ~NoService.up /\ NoService.records = <<>>
    BY EmptyMap DEF NoService, Service
<1>6. d.s = NoService /\ d.t = e.t
    OBVIOUS
<1> HIDE DEF d, e
<1>7. Typed(n, d) /\ Keeps(Uid \ UidsOf(n), tables, d.t)
    BY <1>3, <1>4, <1>5, <1>6 DEF Typed, removed
<1>8. TypeOK'
  <2>1. launches' \in [Uid -> SUBSET (0..boot)] /\ saved' \in [Uid -> SUBSET (0..boot)]
    BY <1>1, <1>2 DEF TypeOK
  <2>2. clicks' \in [Uid -> [Form -> SUBSET (0..boot)]]
    BY <1>1, <1>2 DEF TypeOK, Unclicked
  <2>3. gone' \subseteq Uid /\ disturbed' \subseteq Uid
    BY <1>1, <1>2 DEF TypeOK
  <2>4. events' \in Nat /\ jumps' \in Nat /\ deaths' \in Nat /\ UNCHANGED <<clock, shot>>
    BY <1>1, <1>2, EventTyped
  <2> QED BY <1>1, <1>2, <1>6, <1>7, <2>1, <2>2, <2>3, <2>4, ServiceTypeOK
<1>9. RecordsInv'
  <2>1. ASSUME NEW u \in Uid \ disturbed'
        PROVE  Len(tables') <= 1
    <3>1. OK(u, svc[UserOf[u]], tables, History(u))
      BY <1>1, <2>1 DEF Inv, RecordsInv
    <3> QED BY <1>1, <1>3, <1>4, <3>1 DEF OK, StoredOK
  <2>2. ASSUME NEW u \in Uid \ disturbed', UserOf[u] = n
        PROVE  OK(u, d.s, d.t, Hist(launches'[u], saved'[u], clicks'[u], u \in gone', shot))
    <3> DEFINE h == Hist(launches'[u], saved'[u], clicks'[u], u \in gone', shot)
    <3>1. u \in removed /\ u \notin disturbed
      BY <1>1, <2>2, Constants DEF removed
    <3>2. h.launched = {} /\ h.stored = {} /\ NoClicks(h)
      BY <1>1, <3>1 DEF Hist, NoClicks, Unclicked
    <3> HIDE DEF h
    <3>3. OK(u, c.s, c.t, History(u))
      BY <1>3, <2>2, <3>1 DEF Inv, RecordsInv
    <3>4. ~HasRow(u, d.t)
      <4>1. /\ c.s.name = Unknown => ~HasRow(u, c.t)
            /\ c.s.name # Unknown => c.t # <<>> /\ c.t[1].time = c.s.name
            /\ Len(c.t) <= 1 /\ c.s.up
        BY <1>1, <1>3, <3>3 DEF OK, LinkOK, StoredOK
      <4> QED BY <1>3, <1>6, <3>1, <4>1, NoRowLeft DEF e
    <3>5. u \notin DOMAIN d.s.records /\ Len(d.t) <= 1 /\ ~d.s.up
      BY <1>1, <1>5, <1>6, <2>1, <2>2, EmptyMap
    <3>6. OK(u, d.s, d.t, h)
      BY <3>2, <3>4, <3>5, GoneOK
    <3> QED BY <3>6 DEF h
  <2>3. ASSUME NEW u \in Uid, UserOf[u] # n
        PROVE  /\ launches'[u] = launches[u] /\ saved'[u] = saved[u]
               /\ clicks'[u] = clicks[u] /\ (u \in gone' <=> u \in gone)
    <3>1. u \notin removed
      BY <2>3 DEF UidsOf, removed
    <3> QED BY <1>1, <3>1
  <2> QED BY <1>1, <1>6, <1>7, <2>1, <2>2, <2>3, ServiceRecords
<1> QED BY <1>8, <1>9 DEF Inv

-----------------------------------------------------------------------------
(* Deaths and the clock                                                    *)

\* The process dies: what was saved is what it was launched.
LEMMA DieKeeps == ASSUME Inv, Die PROVE Inv'
<1>1. /\ svc' = [n \in User |-> NoService] /\ shot' = offset /\ launches' = saved
      /\ clicks' = [u \in Uid |-> Unclicked]
      /\ disturbed' = (IF ClockChanged THEN Uid ELSE disturbed)
      /\ UNCHANGED <<tables, clock, saved, gone, events, jumps>> /\ deaths' = deaths + 1
    BY DEF Die, Unclicked
<1>2. \A n : NoService \in Service(n) /\ ~NoService.up /\ NoService.records = <<>>
    BY EmptyMap DEF NoService, Service
<1>3. TypeOK'
  <2>1. svc' = [n \in User |-> svc'[n]] /\ \A n \in User : svc'[n] \in Service(n)
    BY <1>1, <1>2
  <2>2. clicks' \in [Uid -> [Form -> SUBSET (0..boot)]]
    BY <1>1 DEF Unclicked
  <2> QED BY <1>1, <2>1, <2>2 DEF Inv, TypeOK, clock
<1>4. ASSUME NEW u \in Uid \ disturbed'
      PROVE  OK(u, svc'[UserOf[u]], tables', History(u)')
  <2>1. ~ClockChanged /\ u \notin disturbed /\ shot' = shot
    BY <1>1 DEF ClockChanged
  <2>2. OK(u, svc[UserOf[u]], tables, History(u))
    BY <2>1 DEF Inv, RecordsInv
  <2> DEFINE h == History(u)
             H == Hist(saved[u], saved[u], Unclicked, u \in gone, shot)
  <2>3. h.stored = saved[u] /\ h.gone = (u \in gone) /\ h.shot = shot
    BY DEF History, Hist
  <2>4. H.launched = saved[u] /\ H.stored = saved[u] /\ H.gone = (u \in gone) /\ H.shot = shot
        /\ NoClicks(H)
    BY DEF Hist, NoClicks, Unclicked
  <2> HIDE DEF h, H
  <2>5. StoredOK(u, tables, H)
    BY <2>2, <2>3, <2>4 DEF OK, StoredOK, RowOK, h
  <2>6. MemoryOK(u, NoService, H) /\ LinkOK(u, NoService, tables, H)
    BY <1>2, <2>4, EmptyMap DEF MemoryOK, LinkOK
  <2>7. History(u)' = H /\ svc'[UserOf[u]] = NoService /\ tables' = tables
    BY <1>1, <2>1, Constants DEF History, H
  <2> QED BY <2>5, <2>6, <2>7 DEF OK
<1> QED BY <1>3, <1>4 DEF Inv, RecordsInv

\* The clock is set: nothing is handled yet.
LEMMA SetClockKeeps == ASSUME Inv, NEW j \in ClockJump, SetClock(j) PROVE Inv'
<1>1. /\ offset' = offset + j /\ boot + offset + j > 0 /\ jumps' = jumps + 1 /\ j \in Int
      /\ UNCHANGED <<svc, tables, boot, shot, launches, saved, clicks, gone, disturbed, events, deaths>>
    BY Constants DEF SetClock, SystemTime
<1>2. TypeOK'
    BY <1>1 DEF Inv, TypeOK
<1>3. RecordsInv'
    BY <1>1 DEF Inv, RecordsInv, History
<1> QED BY <1>2, <1>3 DEF Inv

\* Time passes.
LEMMA TickKeeps == ASSUME Inv, Tick PROVE Inv'
<1>1. /\ boot' = boot + 1
      /\ UNCHANGED <<svc, tables, offset, shot, launches, saved, clicks, gone, disturbed>>
      /\ UNCHANGED <<events, jumps, deaths>>
    BY DEF Tick, counts
<1>2. TypeOK'
  <2>1. 0..boot \subseteq 0..(boot + 1) /\ boot + 1 \in Nat
    BY DEF Inv, TypeOK
  <2>2. /\ launches \in [Uid -> SUBSET (0..(boot + 1))] /\ saved \in [Uid -> SUBSET (0..(boot + 1))]
        /\ clicks \in [Uid -> [Form -> SUBSET (0..(boot + 1))]]
    BY <2>1 DEF Inv, TypeOK
  <2>3. boot + 1 + offset > 0 /\ boot + 1 + shot > 0
    BY DEF Inv, TypeOK
  <2> QED BY <1>1, <2>1, <2>2, <2>3 DEF Inv, TypeOK
<1>3. RecordsInv'
    BY <1>1 DEF Inv, RecordsInv, History
<1> QED BY <1>2, <1>3 DEF Inv

-----------------------------------------------------------------------------
(* Shutdown: the services are saved one after the other                    *)

\* A set of natural numbers with a member has a least one.
LEMMA Least ==
    ASSUME NEW S, S \subseteq Nat, S # {}
    PROVE  \E n \in S : \A m \in S : n <= m
<1> DEFINE R == {p \in Nat \X Nat : p[1] < p[2]}
<1>1. IsWellFoundedOn(R, Nat)
    BY NatLessThanWellFounded DEF OpToRel
<1>2. \A m, n \in Nat : <<m, n>> \in R <=> m < n
    OBVIOUS
<1> HIDE DEF R
<1>3. PICK n \in S : \A m \in S : ~ (<<m, n>> \in R)
    BY <1>1, WFMin
<1>4. \A m \in S : n <= m
  <2> TAKE m \in S
  <2>1. ~(m < n)
    BY <1>2, <1>3
  <2> QED BY <2>1
<1> QED BY <1>4

\* So a set that holds 0 and the successor of each of its members holds every number.
LEMMA Induction ==
    ASSUME NEW S, 0 \in S, \A n \in Nat : n \in S => n + 1 \in S
    PROVE  \A n \in Nat : n \in S
<1> SUFFICES ASSUME NEW k \in Nat, k \notin S PROVE FALSE
    OBVIOUS
<1>1. PICK n \in Nat \ S : \A m \in Nat \ S : n <= m
    BY Least
<1>2. n # 0 /\ n - 1 \in Nat /\ n - 1 \in S
    BY <1>1
<1> QED BY <1>2

\* The largest of 1..k is k, ...
LEMMA MaxOfInterval ==
    ASSUME NEW k \in Nat, NEW t, t \subseteq 1..k, k \in t
    PROVE  Max(t) = k
<1>1. \A y \in t : k >= y
    OBVIOUS
<1>2. \A x \in t : (\A y \in t : x >= y) => x = k
    OBVIOUS
<1> QED BY <1>1, <1>2 DEF Max

\* ... and one above all members of a set is the largest when it is added.
LEMMA MaxOfLarger ==
    ASSUME NEW k \in Nat, NEW t, t \subseteq 1..(k + 1), k + 1 \in t
    PROVE  Max(t) = k + 1
<1>1. k + 1 \in Nat
    OBVIOUS
<1> QED BY <1>1, MaxOfInterval

\* f holds the services and tables after each of those in s was saved.
Steps(f, all, s, n) ==
    /\ f[0] = all
    /\ \A k \in 1..n : f[k] = SaveService(f[k - 1], s[k])
    /\ SaveServices(all, s) = f[n]

\* Saving the services in an order is a chain of single saves.
LEMMA FoldSteps ==
    ASSUME NEW all, NEW s, NEW n \in Nat, DOMAIN s = 1..n
    PROVE  \E f : Steps(f, all, s, n)
<1> DEFINE Body(it, D) == [t \in SUBSET D |->
                IF t = {} THEN all ELSE SaveService(it[t \ {Max(t)}], s[Max(t)])]
           iter == CHOOSE it : it = Body(it, DOMAIN s)
           Known == {k \in Nat : \E it : it = Body(it, 1..k)}
<1>1. SaveServices(all, s) = iter[DOMAIN s]
    BY Zenon DEF SaveServices, FoldLeft, MapThenFoldSet
<1>2. 0 \in Known
  <2>1. [t \in SUBSET (1..0) |-> all] = Body([t \in SUBSET (1..0) |-> all], 1..0)
    OBVIOUS
  <2> QED BY <2>1
<1>3. ASSUME NEW k \in Nat, k \in Known
      PROVE  k + 1 \in Known
  <2>1. PICK g : g = Body(g, 1..k)
    BY <1>3
  <2> DEFINE h == [t \in SUBSET (1..(k + 1)) |->
                     IF k + 1 \notin t THEN g[t] ELSE SaveService(g[t \ {k + 1}], s[k + 1])]
  <2>2. ASSUME NEW t \in SUBSET (1..(k + 1)), t # {}
        PROVE  h[t] = SaveService(h[t \ {Max(t)}], s[Max(t)])
    <3>1. CASE k + 1 \in t
      <4>1. Max(t) = k + 1
        BY <3>1, MaxOfLarger
      <4>2. h[t \ {k + 1}] = g[t \ {k + 1}]
        OBVIOUS
      <4> QED BY <3>1, <4>1, <4>2
    <3>2. CASE k + 1 \notin t
      <4>1. t \in SUBSET (1..k)
        BY <3>2
      <4>2. g[t] = SaveService(g[t \ {Max(t)}], s[Max(t)])
        BY <2>1, <2>2, <4>1
      <4>3. h[t \ {Max(t)}] = g[t \ {Max(t)}]
        BY <3>2
      <4> QED BY <3>2, <4>2, <4>3
    <3> QED BY <3>1, <3>2
  <2>3. h[{}] = all
    <3>1. g[{}] = all
      BY <2>1
    <3> QED BY <3>1
  <2> HIDE DEF h
  <2>4. h = Body(h, 1..(k + 1))
    <3>1. h = [t \in SUBSET (1..(k + 1)) |-> h[t]]
      BY DEF h
    <3>2. h = [t \in SUBSET (1..(k + 1)) |->
                IF t = {} THEN all ELSE SaveService(h[t \ {Max(t)}], s[Max(t)])]
      BY <2>2, <2>3, <3>1, Zenon
    <3> QED BY <3>2
  <2>5. \E it : it = Body(it, 1..(k + 1))
    <3> HIDE DEF Body
    <3> QED BY <2>4
  <2>6. k + 1 \in Nat
    OBVIOUS
  <2> HIDE DEF Body
  <2> QED BY <2>5, <2>6, Zenon
<1>4. n \in Known
  <2> HIDE DEF Known
  <2> QED BY <1>2, <1>3, Induction
<1>5. iter = Body(iter, DOMAIN s)
    BY <1>4
<1> DEFINE f == [k \in 0..n |-> iter[1..k]]
<1>6. f[0] = all
  <2>1. iter[{}] = all
    BY <1>5
  <2>2. 1..0 = {}
    OBVIOUS
  <2> QED BY <2>1, <2>2
<1>7. ASSUME NEW k \in 1..n
      PROVE  f[k] = SaveService(f[k - 1], s[k])
  <2> DEFINE t == 1..k
  <2>1. t \in SUBSET DOMAIN s /\ t # {} /\ Max(t) = k /\ t \ {k} = 1..(k - 1)
    <3>1. t \subseteq 1..k /\ k \in t /\ k \in Nat
      OBVIOUS
    <3>2. Max(t) = k
      BY <3>1, MaxOfInterval
    <3>3. t \ {k} = 1..(k - 1) /\ t \subseteq 1..n
      OBVIOUS
    <3> QED BY <3>1, <3>2, <3>3
  <2>2. t \in SUBSET DOMAIN s /\ t # {}
    BY <2>1
  <2> HIDE DEF t, iter
  <2>3. iter[t] = SaveService(iter[t \ {Max(t)}], s[Max(t)])
    BY <1>5, <2>2
  <2>4. f[k] = iter[t] /\ f[k - 1] = iter[t \ {Max(t)}]
    <3>1. k \in 0..n /\ k - 1 \in 0..n
      OBVIOUS
    <3> QED BY <2>1, <3>1 DEF t
  <2> QED BY <2>1, <2>3, <2>4
<1> HIDE DEF iter
<1>8. f[n] = iter[DOMAIN s]
    OBVIOUS
<1> HIDE DEF f
<1>9. SaveServices(all, s) = f[n]
    BY <1>1, <1>8
<1> QED BY <1>6, <1>7, <1>9 DEF Steps

\* All services and the tables, when some of them have been saved.
AllTyped(a) ==
    /\ a.services = [n \in User |-> a.services[n]] /\ \A n \in User : a.services[n] \in Service(n)
    /\ \A n \in User : a.services[n].up = svc[n].up
    /\ a.t \in Seq(Table)
OneOK(u, a, done) ==
    \E stored \in {saved[u], launches[u]} :
        /\ UserOf[u] \in done => stored = launches[u]
        /\ OK(u, a.services[UserOf[u]], a.t, Hist(launches[u], stored, clicks[u], u \in gone, shot))
AllOK(a, done) == Len(a.t) <= 1 => \A u \in Uid \ disturbed : OneOK(u, a, done)
Good(a, done) == AllTyped(a) /\ AllOK(a, done)

\* What is remembered in between is a history.
LEMMA StoredTyped ==
    ASSUME Inv, NEW u \in Uid, NEW stored \in {saved[u], launches[u]}, NEW h,
           h = Hist(launches[u], stored, clicks[u], u \in gone, shot)
    PROVE  /\ h \in Histories /\ h.launched = launches[u] /\ h.stored = stored
           /\ h.clicked = clicks[u] /\ h.gone = (u \in gone) /\ h.shot = shot
<1>1. launches[u] \in SUBSET Nat /\ saved[u] \in SUBSET Nat /\ clicks[u] \in [Form -> SUBSET Nat]
    BY DEF Inv, TypeOK
<1>2. h \in Histories
    BY <1>1 DEF Hist, Histories, Inv, TypeOK
<1> QED BY <1>2 DEF Hist

\* One service is saved.
LEMMA SaveServiceGood ==
    ASSUME Inv, NEW a, NEW done, Good(a, done), NEW n \in User, svc[n].up,
           NEW b, b = SaveService(a, n)
    PROVE  Good(b, done \cup {n})
<1> DEFINE c == [s |-> a.services[n], t |-> a.t]
           d == RestoreStats(c, TRUE)
           services == [a.services EXCEPT ![n] = d.s]
<1>1. Typed(n, c) /\ c.s.up /\ c.s = a.services[n] /\ c.t = a.t
    BY DEF Good, AllTyped, Typed
<1>2. b = [services |-> services, t |-> d.t]
    BY DEF SaveService
<1> HIDE DEF c
<1>3. Typed(n, d) /\ Keeps(Uid \ UidsOf(n), c.t, d.t) /\ d.s.up = c.s.up
    BY <1>1, RestoreTyped
<1> HIDE DEF d
<1>4. /\ services = [m \in User |-> services[m]] /\ services[n] = d.s
      /\ \A m \in User \ {n} : services[m] = a.services[m]
    BY DEF Good, AllTyped
<1> HIDE DEF services
<1>5. b.services = services /\ b.t = d.t
    BY <1>2
<1>6. AllTyped(b)
  <2>1. \A m \in User : services[m] \in Service(m) /\ services[m].up = svc[m].up
    BY <1>1, <1>3, <1>4 DEF Good, AllTyped, Typed
  <2> QED BY <1>3, <1>4, <1>5, <2>1 DEF AllTyped, Typed
<1>7. ASSUME Len(b.t) <= 1, NEW u \in Uid \ disturbed
      PROVE  OneOK(u, b, done \cup {n})
  <2>1. Len(a.t) <= 1 /\ Len(d.t) <= 1
    <3>1. Len(c.t) \in Nat /\ Len(d.t) \in Nat /\ Len(c.t) <= Len(d.t)
      BY <1>1, <1>3 DEF Typed, Keeps
    <3> QED BY <1>1, <1>5, <1>7, <3>1
  <2>2. PICK stored \in {saved[u], launches[u]} :
            /\ UserOf[u] \in done => stored = launches[u]
            /\ OK(u, a.services[UserOf[u]], a.t, Hist(launches[u], stored, clicks[u], u \in gone, shot))
    BY <1>7, <2>1 DEF Good, AllOK, OneOK
  <2> DEFINE h == Hist(launches[u], stored, clicks[u], u \in gone, shot)
  <2>3. CASE UserOf[u] = n
    <3>1. /\ h \in Histories /\ h.launched = launches[u] /\ h.stored = stored
          /\ h.clicked = clicks[u] /\ h.gone = (u \in gone) /\ h.shot = shot
      BY StoredTyped
    <3>2. OK(u, c.s, c.t, h)
      BY <1>1, <2>2, <2>3
    <3> HIDE DEF h
    <3>3. OK(u, d.s, d.t, Hist(h.launched, IF c.s.changed \/ TRUE THEN h.launched ELSE h.stored,
                               h.clicked, h.gone, h.shot))
      BY <1>1, <2>1, <2>3, <3>1, <3>2, RestoreOK DEF d
    <3>4. OK(u, b.services[UserOf[u]], b.t,
             Hist(launches[u], launches[u], clicks[u], u \in gone, shot))
      BY <1>4, <1>5, <2>3, <3>1, <3>3
    <3> QED BY <3>4 DEF OneOK
  <2>4. CASE UserOf[u] # n
    <3>1. u \in Uid \ UidsOf(n) /\ UserOf[u] \in User \ {n}
      BY <1>7, <2>4, Constants DEF UidsOf
    <3>2. OK(u, a.services[UserOf[u]], d.t, h)
      <4> HIDE DEF h
      <4>1. OK(u, a.services[UserOf[u]], c.t, h)
        BY <1>1, <2>2 DEF h
      <4> QED BY <1>3, <2>1, <3>1, <4>1, KeptOK
    <3>3. OK(u, b.services[UserOf[u]], b.t, h)
      BY <1>4, <1>5, <3>1, <3>2
    <3> QED BY <2>2, <2>4, <3>3 DEF OneOK
  <2> QED BY <2>3, <2>4
<1> QED BY <1>6, <1>7 DEF Good, AllOK

\* The first service has been told of the time.
LEMMA ToldGood ==
    ASSUME Inv, NEW n \in User, svc[n].up, NEW told, told = RenewIfExpired(Pair(n), SystemTime),
           NEW a, a = [services |-> [svc EXCEPT ![n] = told.s], t |-> told.t]
    PROVE  Good(a, {})
<1> DEFINE c == Pair(n)
           services == [svc EXCEPT ![n] = told.s]
<1>1. Typed(n, c) /\ c.s = svc[n] /\ c.t = tables
    BY PairTyped DEF Inv
<1>2. SystemTime \in Int /\ SystemTime > 0
    BY ClocksTyped DEF Inv
<1> HIDE DEF c
<1>3. Typed(n, told) /\ Keeps(Uid \ UidsOf(n), c.t, told.t) /\ told.s.up = c.s.up
  <2> DEFINE now == SystemTime
  <2>1. told = RenewIfExpired(c, now) /\ now \in Int /\ now > 0
    BY <1>2 DEF c
  <2>2. Typed(n, c)
    BY <1>1
  <2> HIDE DEF now
  <2> QED BY <2>1, <2>2, RenewTyped
<1>4. /\ services = [m \in User |-> services[m]] /\ services[n] = told.s
      /\ \A m \in User \ {n} : services[m] = svc[m]
    BY DEF Inv, TypeOK
<1>5. a.services = services /\ a.t = told.t
    OBVIOUS
<1> HIDE DEF services
<1>6. AllTyped(a)
  <2>1. \A m \in User : services[m] \in Service(m) /\ services[m].up = svc[m].up
    BY <1>1, <1>3, <1>4 DEF Inv, TypeOK, Typed
  <2> QED BY <1>3, <1>4, <1>5, <2>1 DEF AllTyped, Typed
<1>7. ASSUME Len(a.t) <= 1, NEW u \in Uid \ disturbed
      PROVE  OneOK(u, a, {})
  <2>1. OK(u, svc[UserOf[u]], tables, History(u))
    BY <1>7 DEF Inv, RecordsInv
  <2>2. CASE UserOf[u] = n
    <3> DEFINE h == History(u)
    <3>1. /\ h \in Histories /\ h.launched = launches[u] /\ h.stored = saved[u]
          /\ h.clicked = clicks[u] /\ h.gone = (u \in gone) /\ h.shot = shot
      BY <1>7, <2>2, HistoryFields
    <3> HIDE DEF h
    <3>2. OK(u, c.s, c.t, h) /\ Len(told.t) <= 1
      BY <1>1, <1>5, <1>7, <2>1, <2>2 DEF h
    <3>3. OK(u, told.s, told.t,
             Hist(h.launched, IF SystemTime >= c.s.begin + Day THEN h.launched ELSE h.stored,
                  h.clicked, h.gone, h.shot))
      BY <1>1, <1>2, <2>2, <3>1, <3>2, RenewOK DEF c
    <3>4. PICK stored \in {saved[u], launches[u]} :
              stored = IF SystemTime >= c.s.begin + Day THEN h.launched ELSE h.stored
      BY <3>1
    <3>5. OK(u, a.services[UserOf[u]], a.t, Hist(launches[u], stored, clicks[u], u \in gone, shot))
      BY <1>4, <1>5, <2>2, <3>1, <3>3, <3>4
    <3> QED BY <3>5 DEF OneOK
  <2>3. CASE UserOf[u] # n
    <3>1. u \in Uid \ UidsOf(n) /\ UserOf[u] \in User \ {n}
      BY <1>7, <2>3, Constants DEF UidsOf
    <3>2. OK(u, svc[UserOf[u]], told.t, History(u))
      BY <1>1, <1>3, <1>5, <1>7, <2>1, <3>1, KeptOK
    <3>3. OK(u, a.services[UserOf[u]], a.t, Hist(launches[u], saved[u], clicks[u], u \in gone, shot))
      BY <1>4, <1>5, <3>1, <3>2 DEF History
    <3> QED BY <3>3 DEF OneOK
  <2> QED BY <2>2, <2>3
<1> QED BY <1>6, <1>7 DEF Good, AllOK

\* There are finitely many users.
LEMMA UsersFinite == IsFiniteSet(User)
<1>1. UserOf \in Surjection(Uid, User)
    BY Constants DEF User, Surjection
<1> QED BY <1>1, Constants, FS_Surjection

\* All services that are up are saved.
LEMMA AllSaved ==
    ASSUME Inv, NEW Up, Up = {n \in User : svc[n].up}, Up # {},
           NEW order \in [1..Cardinality(Up) -> Up], InOrder(order, Up),
           NEW a, Good(a, {}), NEW b, b = SaveServices(a, order)
    PROVE  Good(b, Up)
<1> DEFINE k == Cardinality(Up)
           Done(i) == {order[j] : j \in 1..i}
<1>1. k \in Nat
  <2>1. IsFiniteSet(Up)
    BY UsersFinite, FS_Subset
  <2> QED BY <2>1, FS_CardinalityType
<1>2. DOMAIN order = 1..k
    OBVIOUS
<1> HIDE DEF k
<1>3. PICK f : Steps(f, a, order, k)
    BY <1>1, <1>2, FoldSteps
<1>4. /\ f[0] = a /\ b = f[k]
      /\ \A i \in 1..k : f[i] = SaveService(f[i - 1], order[i])
    BY <1>3 DEF Steps
<1> DEFINE S == {i \in Nat : i <= k => Good(f[i], Done(i))}
<1>5. 0 \in S
  <2>1. Done(0) = {}
    OBVIOUS
  <2> QED BY <1>4, <2>1
<1>6. ASSUME NEW i \in Nat, i \in S
      PROVE  i + 1 \in S
  <2>1. ASSUME i + 1 <= k
        PROVE  Good(f[i + 1], Done(i + 1))
    <3>1. i + 1 \in 1..k /\ i <= k /\ (i + 1) - 1 = i
      BY <1>1, <2>1
    <3>2. Good(f[i], Done(i))
      BY <1>6, <3>1
    <3>3. f[i + 1] = SaveService(f[i], order[i + 1])
      BY <1>4, <3>1
    <3>4. order[i + 1] \in User /\ svc[order[i + 1]].up
      BY <1>2, <3>1 DEF k
    <3>5. Done(i + 1) = Done(i) \cup {order[i + 1]}
      <4>1. 1..(i + 1) = (1..i) \cup {i + 1}
        BY <1>6
      <4> QED BY <4>1
    <3> HIDE DEF Done, S
    <3> QED BY <3>2, <3>3, <3>4, <3>5, SaveServiceGood
  <2> HIDE DEF Done
  <2> QED BY <2>1
<1>7. k \in S
  <2> HIDE DEF S
  <2> QED BY <1>1, <1>5, <1>6, Induction
<1>8. Done(k) = Up
  <2>1. ToSet(order) = Up
    BY DEF InOrder
  <2> QED BY <1>2, <2>1 DEF ToSet
<1>9. Good(f[k], Done(k))
  <2> HIDE DEF Done
  <2> QED BY <1>1, <1>7
<1> QED BY <1>4, <1>8, <1>9

\* The device shuts down.
LEMMA ShutDownKeeps == ASSUME Inv, ShutDown PROVE Inv'
<1> DEFINE Up == {n \in User : svc[n].up}
<1>1. /\ Up # {} /\ shot' = offset
      /\ saved' = [u \in Uid |-> IF UserOf[u] \in Up THEN launches[u] ELSE saved[u]]
      /\ disturbed' = (IF ClockChanged \/ Len(tables') > 1 THEN Uid ELSE disturbed)
      /\ UNCHANGED <<clock, launches, clicks, gone, counts>>
    BY DEF ShutDown
<1>2. PICK order \in [1..Cardinality(Up) -> Up] :
        LET told == RenewIfExpired(Pair(order[1]), SystemTime)
            all == [services |-> [svc EXCEPT ![order[1]] = told.s], t |-> told.t]
        IN  /\ InOrder(order, Up)
            /\ svc' = SaveServices(all, order).services
            /\ tables' = SaveServices(all, order).t
    BY DEF ShutDown
<1>3. order[1] \in Up
  <2>1. IsFiniteSet(Up)
    BY UsersFinite, FS_Subset
  <2>2. Cardinality(Up) \in Nat /\ Cardinality(Up) # 0
    BY <1>1, <2>1, FS_CardinalityType, FS_EmptySet
  <2>3. 1 \in 1..Cardinality(Up)
    BY <2>2
  <2> QED BY <2>3
<1> DEFINE told == RenewIfExpired(Pair(order[1]), SystemTime)
           all == [services |-> [svc EXCEPT ![order[1]] = told.s], t |-> told.t]
           b == SaveServices(all, order)
<1>4. svc' = b.services /\ tables' = b.t /\ InOrder(order, Up)
    BY <1>2
<1>5. Good(all, {})
    BY <1>3, ToldGood
<1> HIDE DEF all
<1>6. Good(b, Up)
    BY <1>1, <1>4, <1>5, AllSaved
<1> HIDE DEF b
<1>7. \A n \in Up : n \in User /\ svc[n].up
    OBVIOUS
<1>8. \A n \in User \ Up : ~svc[n].up
    OBVIOUS
<1> HIDE DEF Up
<1>9. TypeOK'
  <2>1. saved' \in [Uid -> SUBSET (0..boot)]
    BY <1>1 DEF Inv, TypeOK
  <2>2. /\ svc' = [n \in User |-> svc'[n]] /\ \A n \in User : svc'[n] \in Service(n)
        /\ tables' \in Seq(Table)
    BY <1>4, <1>6 DEF Good, AllTyped
  <2>3. disturbed' \subseteq Uid
    BY <1>1 DEF Inv, TypeOK
  <2> QED BY <1>1, <2>1, <2>2, <2>3 DEF Inv, TypeOK, clock, counts
<1>10. ASSUME NEW u \in Uid \ disturbed'
       PROVE  OK(u, svc'[UserOf[u]], tables', History(u)')
  <2>1. ~ClockChanged /\ u \in Uid \ disturbed /\ ~(Len(tables') > 1) /\ shot' = shot
    BY <1>1, <1>10 DEF ClockChanged
  <2>2. Len(b.t) <= 1
    <3>1. Len(b.t) \in Nat
      BY <1>6 DEF Good, AllTyped
    <3> QED BY <1>4, <2>1, <3>1
  <2>3. PICK stored \in {saved[u], launches[u]} :
            /\ UserOf[u] \in Up => stored = launches[u]
            /\ OK(u, b.services[UserOf[u]], b.t, Hist(launches[u], stored, clicks[u], u \in gone, shot))
    BY <1>6, <2>1, <2>2 DEF Good, AllOK, OneOK
  <2>4. saved'[u] = stored
    <3>1. CASE UserOf[u] \in Up
      BY <1>1, <2>3, <3>1
    <3>2. CASE UserOf[u] \notin Up
      <4>1. ~svc[UserOf[u]].up
        BY <1>8, <3>2, Constants
      <4>2. OK(u, svc[UserOf[u]], tables, History(u))
        BY <2>1 DEF Inv, RecordsInv
      <4>3. History(u).launched = History(u).stored
        BY <4>1, <4>2 DEF OK, MemoryOK
      <4>4. launches[u] = saved[u]
        BY <4>3 DEF History, Hist
      <4> QED BY <1>1, <2>3, <3>2, <4>4
    <3> QED BY <3>1, <3>2
  <2>5. History(u)' = Hist(launches[u], stored, clicks[u], u \in gone, shot)
    BY <1>1, <2>1, <2>4 DEF History
  <2> QED BY <1>4, <2>3, <2>5
<1> QED BY <1>9, <1>10 DEF Inv, RecordsInv

-----------------------------------------------------------------------------
(* Theorems                                                                *)

\* At first there is nothing.
LEMMA InitOK == Init => Inv
<1> SUFFICES ASSUME Init PROVE Inv
    OBVIOUS
<1>1. \A n : NoService \in Service(n) /\ ~NoService.up /\ NoService.records = <<>>
    BY EmptyMap DEF NoService, Service
<1>2. TypeOK
  <2>1. svc = [n \in User |-> svc[n]] /\ \A n \in User : svc[n] \in Service(n)
    BY <1>1 DEF Init
  <2>2. clicks \in [Uid -> [Form -> SUBSET (0..boot)]]
    BY DEF Init
  <2>3. StartTime \in Nat \ {0} /\ tables \in Seq(Table)
    BY Constants DEF Init
  <2> QED BY <2>1, <2>2, <2>3 DEF Init, TypeOK
<1>3. ASSUME NEW u \in Uid
      PROVE  OK(u, svc[UserOf[u]], tables, History(u))
  <2>1. svc[UserOf[u]] = NoService /\ UserOf[u] \in User
    BY Constants DEF Init
  <2> DEFINE h == History(u)
  <2>2. h.launched = {} /\ h.stored = {} /\ NoClicks(h)
    BY DEF History, Hist, NoClicks, Init
  <2>3. ~HasRow(u, tables) /\ Len(tables) <= 1
    BY DEF HasRow, Init
  <2>4. u \notin DOMAIN NoService.records
    BY <1>1, EmptyMap
  <2> HIDE DEF h
  <2>5. OK(u, NoService, tables, h)
    BY <1>1, <2>2, <2>3, <2>4, GoneOK
  <2> QED BY <2>1, <2>5 DEF h
<1> QED BY <1>2, <1>3 DEF Inv, RecordsInv

\* Every step keeps it.
LEMMA NextOK == Inv /\ [Next]_vars => Inv'
<1> SUFFICES ASSUME Inv, [Next]_vars PROVE Inv'
    OBVIOUS
<1>1. ASSUME NEW u \in Uid, NEW isForeground \in BOOLEAN, AbilityEvent(u, isForeground)
      PROVE  Inv'
    BY <1>1, AbilityEventKeeps
<1>2. ASSUME NEW u \in Uid, NEW f \in Form, FormClicked(u, f)
      PROVE  Inv'
    BY <1>2, FormClickedKeeps
<1>3. ASSUME NEW u \in Uid, NEW f \in Form, FormRemoved(u, f)
      PROVE  Inv'
    BY <1>3, FormRemovedKeeps
<1>4. ASSUME NEW u \in Uid, Uninstall(u)
      PROVE  Inv'
    BY <1>4, UninstallKeeps
<1>5. ASSUME NEW n \in User, UserRemoved(n) \/ Flush(n) \/ SwitchUser(n) \/ Query(n)
      PROVE  Inv'
    BY <1>5, UserRemovedKeeps, FlushKeeps, SwitchUserKeeps, QueryKeeps
<1>6. CASE ShutDown \/ Die \/ Tick
    BY <1>6, ShutDownKeeps, DieKeeps, TickKeeps
<1>7. ASSUME NEW j \in ClockJump, SetClock(j)
      PROVE  Inv'
    BY <1>7, SetClockKeeps
<1>8. CASE UNCHANGED vars
    BY <1>8 DEF vars, clock, counts, Inv, TypeOK, RecordsInv, History
<1> QED BY <1>1, <1>2, <1>3, <1>4, <1>5, <1>6, <1>7, <1>8 DEF Next

\* The invariant holds always: an instance that is not disturbed has a record in memory and
\* a row in the only table that count the ticks of its launches, up to now and up to the
\* last save, and tell the time of the last of them.
THEOREM InvariantHolds == Spec => []Inv
<1> QED BY InitOK, NextOK, PTL DEF Spec

\* All variables keep their types, and both clocks count from 1970.
THEOREM TypeCorrect == Spec => []TypeOK
<1>1. Inv => TypeOK
    BY DEF Inv
<1> QED BY <1>1, InvariantHolds, PTL

\* No launch is lost or counted twice by saves, ends of days, changes of the clock, switched
\* or removed users, shutdowns, and deaths, but for those a process had not saved.
THEOREM LaunchesCounted == Spec => []LaunchesExact
<1>1. Inv => LaunchesExact
  <2> SUFFICES ASSUME Inv, NEW u \in Uid \ disturbed, svc[UserOf[u]].up
               PROVE  RecordOf(u).launchedCount_ = Cardinality(launches[u])
    BY DEF LaunchesExact
  <2>1. MemoryOK(u, svc[UserOf[u]], History(u)) /\ History(u).launched = launches[u]
    BY DEF Inv, RecordsInv, OK, History, Hist
  <2>2. CASE u \in DOMAIN svc[UserOf[u]].records
    BY <2>1, <2>2 DEF RecordOf, MemoryOK, RecordOK, Counts
  <2>3. CASE u \notin DOMAIN svc[UserOf[u]].records
    BY <2>1, <2>3, FS_EmptySet DEF RecordOf, NewRecord, MemoryOK
  <2> QED BY <2>2, <2>3
<1> QED BY <1>1, InvariantHolds, PTL

\* The same for the clicks of forms since the records were loaded.
THEOREM ClicksCounted == Spec => []ClicksExact
<1>1. Inv => ClicksExact
  <2> SUFFICES ASSUME Inv, NEW u \in Uid \ disturbed, NEW f \in Form, svc[UserOf[u]].up
               PROVE  (IF f \in DOMAIN RecordOf(u).formRecords_
                       THEN RecordOf(u).formRecords_[f].count_ ELSE 0) = Cardinality(clicks[u][f])
    BY DEF ClicksExact
  <2>1. MemoryOK(u, svc[UserOf[u]], History(u)) /\ History(u).clicked = clicks[u]
    BY DEF Inv, RecordsInv, OK, History, Hist
  <2>2. CASE u \in DOMAIN svc[UserOf[u]].records
    <3>1. FormOK(RecordOf(u), f, History(u))
      BY <2>1, <2>2 DEF RecordOf, MemoryOK, RecordOK
    <3> QED BY <2>1, <3>1, FS_EmptySet DEF FormOK, Counts
  <2>3. CASE u \notin DOMAIN svc[UserOf[u]].records
    <3>1. RecordOf(u) = NewRecord /\ clicks[u][f] = {}
      BY <2>1, <2>3 DEF RecordOf, MemoryOK, NoClicks
    <3>2. RecordOf(u).formRecords_ = <<>>
      BY <3>1 DEF NewRecord
    <3> QED BY <3>1, <3>2, EmptyMap, FS_EmptySet
  <2> QED BY <2>2, <2>3
<1> QED BY <1>1, InvariantHolds, PTL

\* What was removed, and not heard of since, has no record in memory and no row in a table,
\* whatever restarts, saves and changes of the clock follow.
THEOREM RemovedForgotten == Spec => []RemovedIsForgotten
<1>1. Inv => RemovedIsForgotten
  <2> SUFFICES ASSUME Inv, NEW u \in gone \ disturbed
               PROVE  /\ u \notin DOMAIN svc[UserOf[u]].records
                      /\ \A i \in DOMAIN tables : u \notin DOMAIN tables[i].rows
    BY DEF RemovedIsForgotten
  <2>1. u \in Uid /\ tables \in Seq(Table)
    BY DEF Inv, TypeOK
  <2>2. /\ MemoryOK(u, svc[UserOf[u]], History(u)) /\ StoredOK(u, tables, History(u))
        /\ History(u).gone = TRUE
    BY <2>1 DEF Inv, RecordsInv, OK, History, Hist
  <2>3. u \notin DOMAIN svc[UserOf[u]].records
    BY <2>2 DEF MemoryOK
  <2>4. ASSUME NEW i \in DOMAIN tables
        PROVE  u \notin DOMAIN tables[i].rows
    <3>1. i = 1 /\ tables # <<>>
      BY <2>1, <2>2 DEF StoredOK
    <3>2. ~HasRow(u, tables)
      BY <2>2 DEF StoredOK, RowOK
    <3> QED BY <3>1, <3>2 DEF HasRow
  <2> QED BY <2>3, <2>4
<1> QED BY <1>1, InvariantHolds, PTL
=============================================================================
