-------------------------- MODULE CollectorsProofs --------------------------
(***************************************************************************)
(* What the synchronous collectors report, for any devices that come and   *)
(* go under any names, and for any files.                                  *)
(***************************************************************************)
EXTENDS Collectors, SequenceTheorems, DataTheorems, TLAPS

-----------------------------------------------------------------------------
(* Walks of sysfs *)

Attr == {"dir", "name", "input", "label", "temp", "type", "status", "number", "labels",
         "ce_count", "ue_count"}

Value == [attr : Attr, sensor : Int, value : Device \union {None}]

Reading == [name : Range(Name), sensor : Int, values : SUBSET Value]

LEMMA PlanShape ==
    ASSUME NEW c \in DOMAIN Plan
    PROVE  /\ Len(Plan[c]) \in Nat \ {0} /\ DOMAIN Plan[c] = 1..Len(Plan[c])
           /\ \A i \in 1..Len(Plan[c]) :
                  /\ Plan[c][i].attr \in Attr /\ Plan[c][i].sensor \in Int
                  /\ Plan[c][i].kind = "optional" => Plan[c][i].attr \notin {"input", "temp"}
                  /\ Plan[c][i].kind \in {"open", "list"}
                         => Plan[c][i].sensor = 0 /\ i < Len(Plan[c])
  <1>1. DOMAIN Plan = {"hwmon", "thermal", "power", "edac"}
    BY DEF Plan
  <1>2. CASE c = "hwmon"
    <2>1. Plan[c] = <<Read("open", "dir", 0), Read("optional", "name", 0), Read("list", "dir", 0),
                            Read("required", "input", 1), Read("optional", "label", 1),
                            Read("required", "input", 2), Read("optional", "label", 2)>>
      BY <1>2 DEF Plan
    <2>2. Len(Plan[c]) = 7 /\ DOMAIN Plan[c] = 1..7
      BY <2>1
    <2>3. \A i \in 1..7 :
              /\ Plan[c][i].attr \in Attr /\ Plan[c][i].sensor \in Int
              /\ Plan[c][i].kind = "optional" => Plan[c][i].attr \notin {"input", "temp"}
              /\ Plan[c][i].kind \in {"open", "list"} => Plan[c][i].sensor = 0 /\ i < 7
      BY <2>1 DEF Read, Attr
    <2> QED
      BY <2>2, <2>3
  <1>3. CASE c = "thermal"
    <2>1. Plan[c] = <<Read("required", "temp", 1), Read("optional", "type", 1)>>
      BY <1>3 DEF Plan
    <2>2. Len(Plan[c]) = 2 /\ DOMAIN Plan[c] = 1..2
      BY <2>1
    <2>3. \A i \in 1..2 :
              /\ Plan[c][i].attr \in Attr /\ Plan[c][i].sensor \in Int
              /\ Plan[c][i].kind = "optional" => Plan[c][i].attr \notin {"input", "temp"}
              /\ Plan[c][i].kind \in {"open", "list"} => Plan[c][i].sensor = 0 /\ i < 2
      BY <2>1 DEF Read, Attr
    <2> QED
      BY <2>2, <2>3
  <1>4. CASE c = "power"
    <2>1. Plan[c] = <<Read("optional", "type", 1), Read("optional", "status", 1),
                            Read("optional", "number", 1)>>
      BY <1>4 DEF Plan
    <2>2. Len(Plan[c]) = 3 /\ DOMAIN Plan[c] = 1..3
      BY <2>1
    <2>3. \A i \in 1..3 :
              /\ Plan[c][i].attr \in Attr /\ Plan[c][i].sensor \in Int
              /\ Plan[c][i].kind = "optional" => Plan[c][i].attr \notin {"input", "temp"}
              /\ Plan[c][i].kind \in {"open", "list"} => Plan[c][i].sensor = 0 /\ i < 3
      BY <2>1 DEF Read, Attr
    <2> QED
      BY <2>2, <2>3
  <1>5. CASE c = "edac"
    <2>1. Plan[c] = <<Read("optional", "labels", 1), Read("optional", "ce_count", 1),
                           Read("optional", "ue_count", 1)>>
      BY <1>5 DEF Plan
    <2>2. Len(Plan[c]) = 3 /\ DOMAIN Plan[c] = 1..3
      BY <2>1
    <2>3. \A i \in 1..3 :
              /\ Plan[c][i].attr \in Attr /\ Plan[c][i].sensor \in Int
              /\ Plan[c][i].kind = "optional" => Plan[c][i].attr \notin {"input", "temp"}
              /\ Plan[c][i].kind \in {"open", "list"} => Plan[c][i].sensor = 0 /\ i < 3
      BY <2>1 DEF Read, Attr
    <2> QED
      BY <2>2, <2>3
  <1> QED
    BY <1>1, <1>2, <1>3, <1>4, <1>5

LEMMA PositionIsNatural ==
    ASSUME NEW n \in Range(Name)
    PROVE  Position(n) \in Nat
  <1>1. \E i \in 1..Len(Name) : Name[i] = n
    BY SysfsAssumption DEF Range
  <1> QED
    BY <1>1 DEF Position

\* Sorting neither loses nor invents a record.
LEMMA SortedKeepsAll ==
    ASSUME NEW records \in Seq(Reading)
    PROVE  Sorted(records) \in Seq(Reading) /\ Range(Sorted(records)) = Range(records)
  <1> DEFINE n == Len(records)
             order == {pair \in (1..n) \X (1..n) : Precedes(records, pair[1], pair[2])}
             from(k) == CHOOSE j \in DOMAIN records :
                            Cardinality({i \in DOMAIN records : Precedes(records, i, j)}) = k
  <1>1. n \in Nat /\ DOMAIN records = 1..n
    OBVIOUS
  <1>2. \A i \in 1..n : records[i] \in Reading
    OBVIOUS
  <1>3. \A r \in Reading : r.sensor \in Int /\ Position(r.name) \in Nat
    BY PositionIsNatural DEF Reading
  <1>4. \A i, j \in 1..n : <<i, j>> \in order <=> Precedes(records, i, j)
    OBVIOUS
  <1>5. Ordered(n, order)
    <2> DEFINE place(i) == Position(records[i].name)
               sensor(i) == records[i].sensor
    <2>1. order \subseteq (1..n) \X (1..n)
      OBVIOUS
    <2> HIDE DEF order
    <2>2. \A i \in 1..n : place(i) \in Nat /\ sensor(i) \in Int
      BY <1>2, <1>3
    <2>3. ASSUME NEW i \in 1..n, NEW j \in 1..n
          PROVE  <<i, j>> \in order
                     <=> \/ place(i) < place(j)
                         \/ place(i) = place(j) /\ sensor(i) < sensor(j)
                         \/ place(i) = place(j) /\ sensor(i) = sensor(j) /\ i <= j
      <3>1. Precedes(records, i, j)
                <=> \/ place(i) < place(j)
                    \/ place(i) = place(j) /\ sensor(i) < sensor(j)
                    \/ place(i) = place(j) /\ sensor(i) = sensor(j) /\ i <= j
        BY DEF Precedes
      <3> QED
        BY <1>4, <3>1
    <2> HIDE DEF place, sensor
    <2>4. ASSUME NEW i \in 1..n, NEW j \in 1..n
          PROVE  <<i, j>> \in order \/ <<j, i>> \in order
      <3>1. place(i) < place(j) \/ place(i) = place(j) \/ place(j) < place(i)
        BY <2>2
      <3>2. sensor(i) < sensor(j) \/ sensor(i) = sensor(j) \/ sensor(j) < sensor(i)
        BY <2>2
      <3>3. i <= j \/ j <= i
        BY <1>1
      <3> QED
        BY <2>3, <3>1, <3>2, <3>3
    <2>5. \A i, j \in 1..n : <<i, j>> \in order /\ <<j, i>> \in order => i = j
      BY <1>1, <2>2, <2>3
    <2>6. ASSUME NEW i \in 1..n, NEW j \in 1..n, NEW k \in 1..n,
                 <<i, j>> \in order, <<j, k>> \in order
          PROVE  <<i, k>> \in order
      <3> DEFINE Behind(x, y) == \/ place(x) < place(y)
                                 \/ place(x) = place(y) /\ sensor(x) < sensor(y)
                                 \/ place(x) = place(y) /\ sensor(x) = sensor(y) /\ x <= y
      <3>1. Behind(i, j) /\ Behind(j, k)
        BY <2>3, <2>6
      <3>2. i \in Nat /\ j \in Nat /\ k \in Nat
        BY <1>1
      <3>3. Behind(i, k)
        BY <2>2, <3>1, <3>2
      <3> HIDE DEF order
      <3> QED
        BY <2>3, <3>3
    <2> QED
      BY <1>1, <2>1, <2>4, <2>5, <2>6 DEF Ordered
  <1>6. Sorted(records) = [k \in DOMAIN records |-> records[from(k)]]
    BY DEF Sorted
  <1> HIDE DEF order
  <1>7. \A k \in 1..n : from(k) \in 1..n /\ Cardinality(Below(n, order, from(k))) = k
    <2>1. ASSUME NEW k \in 1..n
          PROVE  from(k) \in 1..n /\ Cardinality(Below(n, order, from(k))) = k
      <3>1. PICK j \in 1..n : Cardinality(Below(n, order, j)) = k
        BY <1>5, RanksAreAllPlaces
      <3>2. \A i \in 1..n : Below(n, order, i) = {h \in DOMAIN records : Precedes(records, h, i)}
        BY <1>1, <1>4 DEF Below
      <3>3. \E i \in DOMAIN records :
                Cardinality({h \in DOMAIN records : Precedes(records, h, i)}) = k
        BY <1>1, <3>1, <3>2
      <3>4. /\ from(k) \in DOMAIN records
            /\ Cardinality({h \in DOMAIN records : Precedes(records, h, from(k))}) = k
        BY <3>3, Zenon
      <3> QED
        BY <1>1, <3>2, <3>4
    <2> QED
      BY <2>1
  <1> HIDE DEF from
  <1>8. \A j \in 1..n : \E k \in 1..n : from(k) = j
    <2>1. ASSUME NEW j \in 1..n
          PROVE  \E k \in 1..n : from(k) = j
      <3> DEFINE k == Cardinality(Below(n, order, j))
      <3>1. k \in 1..n
        BY <1>5, RanksAreAllPlaces
      <3>2. from(k) \in 1..n /\ Cardinality(Below(n, order, from(k))) = k
        BY <1>7, <3>1
      <3>3. from(k) = j
        BY <1>5, <3>2, RanksAreAllPlaces
      <3> QED
        BY <3>1, <3>3
    <2> QED
      BY <2>1
  <1>9. Sorted(records) \in Seq(Reading) /\ Len(Sorted(records)) = n
    BY <1>1, <1>6, <1>7
  <1> QED
    BY <1>1, <1>6, <1>7, <1>8, <1>9 DEF Range

-----------------------------------------------------------------------------
(* The invariant of the walks *)

WalkTypeOK ==
    /\ class \in DOMAIN Plan \union {"none"}
    /\ dev \in [Range(Name) -> Device \union {None}]
    /\ held \in [Range(Name) -> SUBSET (Device \union {None})]
    /\ at # None => dev[at] \in held[at]
    /\ left \subseteq Range(Name) /\ failing \subseteq Range(Name)
    /\ at \in Range(Name) \union {None}
    /\ at # None => step \in 1..Len(Plan[class])
    /\ got \subseteq Value
    /\ sample \in Seq(Reading)
    /\ walks \in Nat

\* No directory is entered twice: one that is left has no records yet.
EnteredOnce ==
    /\ at \notin left
    /\ \A r \in Range(sample) : r.name \notin left

\* What was read of the device came from one that was there.
GotIsHere ==
    at # None => \A v \in got : /\ v.value \in held[at] \union {None}
                                /\ v.attr \in {"input", "temp"} => v.value # None

\* A device that has been at its name while the walk was there, and can be read.
Steady(n, d) == held[n] = {d} /\ n \notin failing /\ Wanted(n)

Sensors == {r.sensor : r \in Range(Plan[class])} \ {0}

Reported(n, d, s) ==
    \E r \in Range(sample) : r.name = n /\ r.sensor = s /\ \A v \in r.values : v.value = d

\* Such a device is still to be entered; or it is being read, and the sensors
\* that the rest of the plan does not read have their records; or all have.
NoneIsForgotten ==
    walks > 0 => \A n \in Range(Name), d \in Device : Steady(n, d) =>
        \/ n \in left
        \/ /\ at = n
           /\ \A v \in got : v.value = d
           /\ \A s \in Sensors :
                  (\A i \in step..Len(Plan[class]) : Plan[class][i].sensor # s) => Reported(n, d, s)
        \/ \A s \in Sensors : Reported(n, d, s)

WalkInv ==
    /\ WalkTypeOK
    /\ EnteredOnce
    /\ GotIsHere
    /\ RecordsAreOfTheirDevice
    /\ NoneIsForgotten

LEMMA InitWalks == Init => WalkInv
  <1> SUFFICES ASSUME Init
               PROVE  WalkInv
    OBVIOUS
  <1> USE DEF Init, SysfsInit, Arrangements
  <1>1. class \in DOMAIN Plan \union {"none"}
    <2>1. DOMAIN Plan = {"hwmon", "thermal", "power", "edac"}
      BY DEF Plan
    <2> QED
      BY <2>1, SysfsAssumption
  <1>2. dev \in [Range(Name) -> Device \union {None}]
    OBVIOUS
  <1>3. /\ held = [n \in Range(Name) |-> {dev[n]}] /\ left = {} /\ failing = {} /\ at = None
        /\ got = {} /\ sample = <<>> /\ walks = 0
    OBVIOUS
  <1> QED
    BY <1>1, <1>2, <1>3 DEF WalkInv, WalkTypeOK, EnteredOnce, GotIsHere,
                            RecordsAreOfTheirDevice, NoneIsForgotten, Range

\* Where a walk is after a read.
LEMMA AfterRead ==
    ASSUME class \in DOMAIN Plan, NEW next \in Nat \ {0}, NEW records \in Seq(Reading),
           Proceeds(next, records)
    PROVE  /\ sample' \in Seq(Reading) /\ Range(sample') = Range(records) /\ left' = left
           /\ \/ next \in 1..Len(Plan[class]) /\ step' = next /\ at' = at
              \/ next > Len(Plan[class]) /\ at' = None
  <1>1. Len(Plan[class]) \in Nat
    BY PlanShape
  <1>2. CASE next > Len(Plan[class])
    <2>1. Leaves(records)
      BY <1>2 DEF Proceeds
    <2>2. sample' = records \/ sample' = Sorted(records)
      BY <2>1 DEF Leaves
    <2>3. sample' \in Seq(Reading) /\ Range(sample') = Range(records)
      BY <2>2, SortedKeepsAll
    <2> QED
      BY <1>2, <2>1, <2>3 DEF Leaves
  <1>3. CASE ~(next > Len(Plan[class]))
    BY <1>1, <1>3 DEF Proceeds
  <1> QED
    BY <1>2, <1>3

\* What is not about the device that the walk is in.
LEMMA OthersAreKept ==
    ASSUME WalkInv, class \in DOMAIN Plan, UNCHANGED <<class, kernelVars, walks, left>>,
           failing \subseteq failing', Range(sample) \subseteq Range(sample'),
           at' = at \/ at' = None,
           walks > 0, NEW n \in Range(Name), n # at, NEW d \in Device, Steady(n, d)'
    PROVE  n \in left' \/ \A s \in Sensors' : Reported(n, d, s)'
  <1>1. Steady(n, d)
    BY DEF Steady, Wanted, kernelVars
  <1>2. n \in left \/ \A s \in Sensors : Reported(n, d, s)
    BY <1>1 DEF WalkInv, NoneIsForgotten
  <1> QED
    BY <1>2 DEF Sensors, Reported

\* A record in a sequence is of its device; the invariant says so of each.
FromDevice(r, where) ==
    /\ {v.value : v \in r.values} \subseteq where[r.name] \union {None}
    /\ \A v \in r.values : v.attr \in {"input", "temp"} => v.value # None

LEMMA RecordsByRange ==
    ASSUME NEW records \in Seq(Reading), NEW where
    PROVE  (\A i \in DOMAIN records :
                /\ {v.value : v \in records[i].values} \subseteq where[records[i].name] \union {None}
                /\ \A v \in records[i].values : v.attr \in {"input", "temp"} => v.value # None)
           <=> \A r \in Range(records) : FromDevice(r, where)
  BY DEF Range, FromDevice

\* The device is left, or a sensor is, after something that could not be read.
LEMMA GivingUpKeeps ==
    ASSUME WalkInv, class \in DOMAIN Plan, at # None,
           UNCHANGED <<class, kernelVars, walks, got, left>>,
           failing' = IF dev[at] = None THEN failing ELSE failing \union {at},
           sample' \in Seq(Reading), Range(sample') = Range(sample),
           \/ at' = at /\ step' \in 1..Len(Plan[class])
           \/ at' = None
    PROVE  WalkInv'
  <1>1. WalkTypeOK' /\ EnteredOnce'
    BY SysfsAssumption DEF WalkInv, WalkTypeOK, EnteredOnce, kernelVars
  <1>2. GotIsHere'
    BY DEF WalkInv, GotIsHere, kernelVars
  <1>3. RecordsAreOfTheirDevice'
    <2>1. \A r \in Range(sample) : FromDevice(r, held)
      BY RecordsByRange DEF WalkInv, WalkTypeOK, RecordsAreOfTheirDevice
    <2>2. \A r \in Range(sample') : FromDevice(r, held')
      BY <2>1 DEF kernelVars
    <2> QED
      BY <2>2, RecordsByRange DEF RecordsAreOfTheirDevice
  <1>4. NoneIsForgotten'
    <2> SUFFICES ASSUME walks > 0, NEW n \in Range(Name), NEW d \in Device, Steady(n, d)'
                 PROVE  n \in left' \/ \A s \in Sensors' : Reported(n, d, s)'
      BY DEF NoneIsForgotten
    <2>1. n # at
      <3> SUFFICES ASSUME n = at
                   PROVE  FALSE
        OBVIOUS
      <3>1. dev[n] \in held[n] /\ held[n] = {d} /\ n \notin failing'
        BY DEF Steady, WalkInv, WalkTypeOK, kernelVars
      <3>2. dev[n] # None
        BY <3>1, SysfsAssumption
      <3> QED
        BY <3>1, <3>2
    <2> QED
      BY <2>1, OthersAreKept
  <1> QED
    BY <1>1, <1>2, <1>3, <1>4 DEF WalkInv

\* A read that knows something at the end: the value, or that there is none.
LEMMA ReadingKeeps ==
    ASSUME WalkInv, class \in DOMAIN Plan, at # None,
           UNCHANGED <<class, kernelVars, walks>>,
           Plan[class][step].kind \in {"required", "optional"},
           NEW value \in {dev[at], None}, value = None => Plan[class][step].kind = "optional",
           value # dev[at] => at \in failing',
           failing \subseteq failing', failing' \subseteq Range(Name),
           got' = Know(value), Proceeds(step + 1, WithRecord(Know(value)))
    PROVE  WalkInv'
  <1> DEFINE sensor == Plan[class][step].sensor
             record == [name |-> at, sensor |-> sensor,
                        values |-> {v \in Know(value) : v.sensor \in {0, sensor}}]
             last == step = Len(Plan[class]) \/ Plan[class][step + 1].sensor # sensor
             records == WithRecord(Know(value))
  <1>1. /\ at \in Range(Name) /\ step \in 1..Len(Plan[class]) /\ step + 1 \in Nat \ {0}
        /\ Len(Plan[class]) \in Nat /\ sensor \in Int /\ Plan[class][step].attr \in Attr
        /\ Plan[class][step].kind = "optional" => Plan[class][step].attr \notin {"input", "temp"}
        /\ dev[at] \in held[at] /\ dev[at] \in Device \union {None}
        /\ held[at] \subseteq Device \union {None}
    BY PlanShape DEF WalkInv, WalkTypeOK
  <1>2. /\ Know(value) \subseteq Value
        /\ \A v \in Know(value) : /\ v.value \in held[at] \union {None}
                                  /\ v.attr \in {"input", "temp"} => v.value # None
    <2> DEFINE new == [attr |-> Plan[class][step].attr, sensor |-> sensor, value |-> value]
    <2>1. Know(value) = got \union {new}
      BY DEF Know
    <2>2. new \in Value /\ new.value = value /\ new.attr = Plan[class][step].attr
      BY <1>1 DEF Value
    <2>3. \A v \in got : /\ v \in Value /\ v.value \in held[at] \union {None}
                         /\ v.attr \in {"input", "temp"} => v.value # None
      BY DEF WalkInv, WalkTypeOK, GotIsHere
    <2> HIDE DEF new
    <2> QED
      BY <1>1, <2>1, <2>2, <2>3
  <1>3. record \in Reading /\ FromDevice(record, held)
    BY <1>1, <1>2 DEF Reading, FromDevice
  <1>4. records = IF last THEN Append(sample, record) ELSE sample
    BY DEF WithRecord
  <1>5. sample \in Seq(Reading)
    BY DEF WalkInv, WalkTypeOK
  <1> HIDE DEF record
  <1>6. /\ records \in Seq(Reading)
        /\ Range(sample) \subseteq Range(records)
        /\ last => record \in Range(records)
        /\ \A r \in Range(records) : r = record \/ r \in Range(sample)
    <2>1. CASE last
      <3>1. records = Append(sample, record)
        BY <1>4, <2>1
      <3>2. records \in Seq(Reading) /\ Len(records) = Len(sample) + 1
        BY <1>3, <1>5, <3>1
      <3>3. \A i \in 1..Len(sample) : records[i] = sample[i]
        BY <1>5, <3>1
      <3>4. records[Len(sample) + 1] = record
        BY <1>5, <3>1
      <3> HIDE DEF records
      <3> QED
        BY <1>5, <3>2, <3>3, <3>4 DEF Range
    <2>2. CASE ~last
      BY <1>4, <1>5, <2>2
    <2> QED
      BY <2>1, <2>2
  <1> HIDE DEF records
  <1>7. /\ sample' \in Seq(Reading) /\ Range(sample') = Range(records) /\ left' = left
        /\ \/ step + 1 \in 1..Len(Plan[class]) /\ step' = step + 1 /\ at' = at
           \/ step + 1 > Len(Plan[class]) /\ at' = None
    BY <1>1, <1>6, AfterRead DEF records
  <1>8. WalkTypeOK' /\ EnteredOnce'
    <2>1. WalkTypeOK'
      BY <1>1, <1>2, <1>7 DEF WalkInv, WalkTypeOK, kernelVars
    <2>2. at \notin left /\ record.name = at /\ \A r \in Range(sample) : r.name \notin left
      BY DEF WalkInv, EnteredOnce, record
    <2>3. at' \notin left'
      BY <1>7, <2>2, SysfsAssumption DEF WalkInv, WalkTypeOK
    <2> QED
      BY <1>6, <1>7, <2>1, <2>2, <2>3 DEF EnteredOnce
  <1>9. GotIsHere'
    BY <1>2, <1>7 DEF GotIsHere, kernelVars
  <1>10. RecordsAreOfTheirDevice'
    <2>1. \A r \in Range(sample) : FromDevice(r, held)
      BY <1>5, RecordsByRange DEF WalkInv, RecordsAreOfTheirDevice
    <2>2. \A r \in Range(sample') : FromDevice(r, held')
      BY <1>3, <1>6, <1>7, <2>1 DEF kernelVars
    <2> QED
      BY <1>7, <2>2, RecordsByRange DEF RecordsAreOfTheirDevice
  <1>11. NoneIsForgotten'
    <2> SUFFICES ASSUME walks > 0, NEW n \in Range(Name), NEW d \in Device, Steady(n, d)'
                 PROVE  \/ n \in left'
                        \/ /\ at' = n
                           /\ \A v \in got' : v.value = d
                           /\ \A s \in Sensors' :
                                  (\A i \in step'..Len(Plan[class]) : Plan[class][i].sensor # s)
                                      => Reported(n, d, s)'
                        \/ \A s \in Sensors' : Reported(n, d, s)'
      BY DEF NoneIsForgotten
    <2>1. CASE n # at
      BY <1>6, <1>7, <2>1, OthersAreKept
    <2>2. CASE n = at
      <3>1. Steady(n, d)
        BY DEF Steady, Wanted, kernelVars
      <3>2. value = d
        <4>1. held[n] = {d} /\ n \notin failing'
          BY DEF Steady, kernelVars
        <4> QED
          BY <1>1, <2>2, <4>1
      <3>3. \/ n \in left
            \/ /\ \A v \in got : v.value = d
               /\ \A s \in Sensors :
                      (\A i \in step..Len(Plan[class]) : Plan[class][i].sensor # s)
                          => Reported(n, d, s)
            \/ \A s \in Sensors : Reported(n, d, s)
        BY <3>1 DEF WalkInv, NoneIsForgotten
      <3>4. \A s \in Sensors : Reported(n, d, s) => Reported(n, d, s)'
        BY <1>6, <1>7 DEF Reported
      <3>5. Sensors' = Sensors
        BY DEF Sensors
      <3>6. CASE /\ \A v \in got : v.value = d
                 /\ \A s \in Sensors :
                        (\A i \in step..Len(Plan[class]) : Plan[class][i].sensor # s)
                            => Reported(n, d, s)
        <4>1. \A v \in Know(value) : v.value = d
          BY <3>2, <3>6 DEF Know
        <4>2. ASSUME NEW s \in Sensors,
                     \A i \in step + 1..Len(Plan[class]) : Plan[class][i].sensor # s
              PROVE  Reported(n, d, s)'
          <5>1. CASE sensor = s
            <6>1. last
              BY <1>1, <4>2, <5>1
            <6>2. record.name = n /\ record.sensor = s /\ \A v \in record.values : v.value = d
              BY <2>2, <4>1, <5>1 DEF record
            <6> QED
              BY <1>6, <1>7, <6>1, <6>2 DEF Reported
          <5>2. CASE sensor # s
            <6>1. \A i \in step..Len(Plan[class]) : i = step \/ i \in step + 1..Len(Plan[class])
              BY <1>1
            <6>2. \A i \in step..Len(Plan[class]) : Plan[class][i].sensor # s
              BY <4>2, <5>2, <6>1
            <6> QED
              BY <3>4, <3>6, <6>2
          <5> QED
            BY <5>1, <5>2
        <4>3. CASE step' = step + 1 /\ at' = at
          BY <2>2, <3>5, <4>1, <4>2, <4>3
        <4>4. CASE step + 1 > Len(Plan[class])
          <5>1. \A i \in step + 1..Len(Plan[class]) : FALSE
            BY <1>1, <4>4
          <5> QED
            BY <3>5, <4>2, <5>1
        <4> QED
          BY <1>7, <4>3, <4>4
      <3> QED
        BY <1>7, <3>3, <3>4, <3>5, <3>6
    <2> QED
      BY <2>1, <2>2
  <1> QED
    BY <1>8, <1>9, <1>10, <1>11 DEF WalkInv

\* Where the next sensor begins, or the plan ends.
LEMMA NextSensorIsAhead ==
    ASSUME class \in DOMAIN Plan, step \in 1..Len(Plan[class])
    PROVE  NextSensor \in Nat \ {0}
  <1> DEFINE end == Len(Plan[class]) + 1
             sensor(i) == Plan[class][i].sensor
             S == {i \in step + 1..end : i = end \/ sensor(i) # sensor(step)}
  <1>1. Len(Plan[class]) \in Nat /\ step \in Nat /\ end \in Nat
    BY PlanShape
  <1>2. PICK n \in S : \A m \in S : n <= m
    <2>1. end \in S /\ S \in SUBSET Nat
      BY <1>1
    <2> HIDE DEF S
    <2> QED
      BY <2>1, LeastNatural
  <1>3. n \in step..end /\ (n = end \/ sensor(n) # sensor(step))
    BY <1>1, <1>2
  <1>4. \A j \in step..n - 1 : sensor(j) = sensor(step)
    <2>1. ASSUME NEW j \in step..n - 1, j # step
          PROVE  sensor(j) = sensor(step)
      <3>1. j \in step + 1..end /\ j < n
        BY <1>1, <1>2, <2>1
      <3>2. j \notin S
        BY <1>2, <3>1
      <3> QED
        BY <3>1, <3>2
    <2> QED
      BY <2>1
  <1>5. NextSensor \in step..end
    BY <1>3, <1>4 DEF NextSensor
  <1> QED
    BY <1>1, <1>5

LEMMA FailingKeeps ==
    ASSUME WalkInv, class \in DOMAIN Plan, FileFails
    PROVE  WalkInv'
  <1>1. /\ at # None /\ UNCHANGED <<class, kernelVars, walks>>
        /\ failing' = IF dev[at] = None THEN failing ELSE failing \union {at}
    BY DEF FileFails
  <1>2. /\ step \in 1..Len(Plan[class]) /\ sample \in Seq(Reading) /\ at \in Range(Name)
        /\ failing \subseteq Range(Name)
    BY <1>1 DEF WalkInv, WalkTypeOK
  <1>3. CASE Plan[class][step].kind = "required" /\ Proceeds(NextSensor, sample) /\ got' = got
    <2>1. NextSensor \in Nat \ {0}
      BY <1>2, NextSensorIsAhead
    <2>2. /\ sample' \in Seq(Reading) /\ Range(sample') = Range(sample) /\ left' = left
          /\ \/ step' \in 1..Len(Plan[class]) /\ at' = at
             \/ at' = None
      BY <1>2, <1>3, <2>1, AfterRead
    <2> QED
      BY <1>1, <1>3, <2>2, GivingUpKeeps
  <1>4. CASE /\ Plan[class][step].kind = "optional"
             /\ Proceeds(step + 1, WithRecord(Know(None))) /\ got' = Know(None)
    <2>1. /\ failing \subseteq failing' /\ failing' \subseteq Range(Name)
          /\ None # dev[at] => at \in failing'
      BY <1>1, <1>2
    <2> QED
      BY <1>1, <1>4, <2>1, ReadingKeeps
  <1>5. CASE Skips /\ got' = got
    <2>1. at' = None /\ left' = left /\ (sample' = sample \/ sample' = Sorted(sample))
      BY <1>5 DEF Skips, Leaves
    <2>2. sample' \in Seq(Reading) /\ Range(sample') = Range(sample)
      BY <1>2, <2>1, SortedKeepsAll
    <2> QED
      BY <1>1, <1>5, <2>1, <2>2, GivingUpKeeps
  <1> QED
    BY <1>3, <1>4, <1>5 DEF FileFails

LEMMA ListingKeeps ==
    ASSUME WalkInv, class \in DOMAIN Plan, Lists
    PROVE  WalkInv'
  <1>1. /\ class' = class /\ dev' = dev /\ at = None /\ at' = None /\ walks' = walks + 1
        /\ got' = got /\ sample' = <<>> /\ held' = [n \in Range(Name) |-> {dev[n]}]
    BY DEF Lists
  <1>2. \/ left' = {n \in Range(Name) : dev[n] # None /\ Wanted(n)} /\ failing' = {}
        \/ left' = {} /\ failing' = Range(Name)
    BY DEF Lists
  <1>3. WalkTypeOK'
    BY <1>1, <1>2 DEF WalkInv, WalkTypeOK
  <1>4. EnteredOnce' /\ GotIsHere' /\ RecordsAreOfTheirDevice'
    BY <1>1, <1>2, SysfsAssumption DEF EnteredOnce, GotIsHere, RecordsAreOfTheirDevice, Range
  <1>5. NoneIsForgotten'
    <2> SUFFICES ASSUME NEW n \in Range(Name), NEW d \in Device, Steady(n, d)'
                 PROVE  n \in left'
      BY DEF NoneIsForgotten
    <2>1. dev[n] = d /\ d # None /\ n \notin failing' /\ Wanted(n)
      BY <1>1, SysfsAssumption DEF Steady, Wanted
    <2> QED
      BY <1>2, <2>1
  <1> QED
    BY <1>3, <1>4, <1>5 DEF WalkInv

LEMMA EnteringKeeps ==
    ASSUME WalkInv, class \in DOMAIN Plan, Enters
    PROVE  WalkInv'
  <1>1. /\ UNCHANGED <<class, dev, sample, walks, failing>> /\ at = None
        /\ step' = 1 /\ got' = {}
    BY DEF Enters
  <1>2. PICK m \in left : /\ at' = m /\ left' = left \ {m}
                          /\ held' = [held EXCEPT ![m] = {dev[m]}]
    BY DEF Enters
  <1>3. 1 \in 1..Len(Plan[class]) /\ DOMAIN Plan[class] = 1..Len(Plan[class])
    BY PlanShape
  <1>4. m \in Range(Name) /\ sample \in Seq(Reading)
        /\ \A r \in Range(sample) : r.name \in Range(Name) /\ r.name # m
    <2>1. m \in Range(Name) /\ sample \in Seq(Reading)
      BY DEF WalkInv, WalkTypeOK
    <2>2. ASSUME NEW r \in Range(sample)
          PROVE  r.name \in Range(Name) /\ r.name # m
      <3>1. r \in Reading
        BY <2>1, <2>2 DEF Range
      <3> QED
        BY <2>2, <3>1 DEF WalkInv, EnteredOnce, Reading
    <2> QED
      BY <2>1, <2>2
  <1>5. \A n \in Range(Name) : n # m => held'[n] = held[n]
    BY <1>2 DEF WalkInv, WalkTypeOK
  <1>6. WalkTypeOK' /\ EnteredOnce' /\ GotIsHere'
    BY <1>1, <1>2, <1>3, <1>4 DEF WalkInv, WalkTypeOK, EnteredOnce, GotIsHere
  <1>7. RecordsAreOfTheirDevice'
    <2>1. \A r \in Range(sample) : FromDevice(r, held)
      BY <1>4, RecordsByRange DEF WalkInv, RecordsAreOfTheirDevice
    <2>2. \A r \in Range(sample') : FromDevice(r, held')
      BY <1>1, <1>4, <1>5, <2>1 DEF FromDevice
    <2> QED
      BY <1>1, <1>4, <2>2, RecordsByRange DEF RecordsAreOfTheirDevice
  <1>8. NoneIsForgotten'
    <2> SUFFICES ASSUME walks > 0, NEW n \in Range(Name), NEW d \in Device, Steady(n, d)'
                 PROVE  \/ n \in left'
                        \/ /\ at' = n
                           /\ \A s \in Sensors' :
                                  (\A i \in step'..Len(Plan[class]) : Plan[class][i].sensor # s)
                                      => Reported(n, d, s)'
                        \/ \A s \in Sensors' : Reported(n, d, s)'
      BY <1>1 DEF NoneIsForgotten
    <2>1. Sensors' = Sensors /\ \A s : Reported(n, d, s)' = Reported(n, d, s)
      BY <1>1 DEF Sensors, Reported
    <2>2. CASE n = m
      <3>1. \A s \in Sensors : \E i \in step'..Len(Plan[class]) : Plan[class][i].sensor = s
        BY <1>1, <1>3 DEF Sensors, Range
      <3> QED
        BY <1>2, <2>1, <2>2, <3>1
    <2>3. CASE n # m
      <3>1. Steady(n, d)
        BY <1>1, <1>5, <2>3 DEF Steady, Wanted
      <3>2. n # None
        BY SysfsAssumption
      <3>3. n \in left \/ \A s \in Sensors : Reported(n, d, s)
        BY <1>1, <3>1, <3>2 DEF WalkInv, NoneIsForgotten
      <3> QED
        BY <1>2, <2>1, <2>3, <3>3
    <2> QED
      BY <2>2, <2>3
  <1> QED
    BY <1>6, <1>7, <1>8 DEF WalkInv

\* To open the directory, or to list it, is no read of a sensor.
LEMMA SteppingKeeps ==
    ASSUME WalkInv, class \in DOMAIN Plan, at # None,
           Plan[class][step].kind \in {"open", "list"}, step' = step + 1,
           UNCHANGED <<class, kernelVars, at, left, got, sample, walks, failing>>
    PROVE  WalkInv'
  <1>1. /\ step \in 1..Len(Plan[class]) /\ step + 1 \in 1..Len(Plan[class])
        /\ Plan[class][step].sensor = 0
    BY PlanShape DEF WalkInv, WalkTypeOK
  <1>2. WalkTypeOK' /\ EnteredOnce' /\ GotIsHere' /\ RecordsAreOfTheirDevice'
    BY <1>1 DEF WalkInv, WalkTypeOK, EnteredOnce, GotIsHere, RecordsAreOfTheirDevice, kernelVars
  <1>3. NoneIsForgotten'
    <2>1. \A s \in Sensors :
              (\A i \in step + 1..Len(Plan[class]) : Plan[class][i].sensor # s)
                  => \A i \in step..Len(Plan[class]) : Plan[class][i].sensor # s
      <3>1. \A i \in step..Len(Plan[class]) : i = step \/ i \in step + 1..Len(Plan[class])
        BY <1>1
      <3>2. \A s \in Sensors : s # 0
        BY DEF Sensors
      <3> QED
        BY <1>1, <3>1, <3>2
    <2>2. \A n, d : Steady(n, d)' = Steady(n, d)
      BY DEF Steady, Wanted, kernelVars
    <2>3. Sensors' = Sensors /\ \A n, d, s : Reported(n, d, s)' = Reported(n, d, s)
      BY DEF Sensors, Reported
    <2> QED
      BY <2>1, <2>2, <2>3 DEF WalkInv, NoneIsForgotten
  <1> QED
    BY <1>2, <1>3 DEF WalkInv

LEMMA HotplugKeeps ==
    ASSUME WalkInv, class \in DOMAIN Plan, Hotplug
    PROVE  WalkInv'
  <1>1. PICK n \in Range(Name), device \in Device \union {None} :
            device # dev[n] /\ Becomes(n, device)
    <2>1. PICK n \in Range(Name) : Unplugs(n) \/ \E d \in Device : Plugs(n, d)
      BY DEF Hotplug
    <2>2. CASE Unplugs(n)
      BY <2>1, <2>2 DEF Unplugs
    <2>3. CASE \E d \in Device : Plugs(n, d)
      BY <2>1, <2>3, SysfsAssumption DEF Plugs
    <2> QED
      BY <2>1, <2>2, <2>3
  <1>2. /\ UNCHANGED <<class, left, at, step, got, sample, walks, failing>>
        /\ dev' = [dev EXCEPT ![n] = device]
        /\ held' = [held EXCEPT ![n] = IF n = at THEN @ \union {device} ELSE @]
    BY <1>1 DEF Becomes, walkVars
  <1>3. WalkTypeOK' /\ EnteredOnce'
    BY <1>1, <1>2 DEF WalkInv, WalkTypeOK, EnteredOnce
  <1>4. \A m \in Range(Name) : held[m] \subseteq held'[m]
    BY <1>2 DEF WalkInv, WalkTypeOK
  <1>5. GotIsHere'
    BY <1>2, <1>4 DEF WalkInv, WalkTypeOK, GotIsHere
  <1>6. RecordsAreOfTheirDevice'
    <2>1. \A i \in DOMAIN sample : sample[i] \in Reading
      BY DEF WalkInv, WalkTypeOK
    <2>2. \A i \in DOMAIN sample : sample[i].name \in Range(Name)
      BY <2>1 DEF Reading
    <2> QED
      BY <1>2, <1>4, <2>2 DEF WalkInv, RecordsAreOfTheirDevice
  <1>7. NoneIsForgotten'
    <2>1. ASSUME NEW m \in Range(Name), NEW d \in Device, Steady(m, d)'
          PROVE  Steady(m, d)
      <3>1. held[m] = {d}
        <4>1. CASE m = n /\ m = at
          <5>1. dev[m] \in held[m] /\ held[m] \subseteq {d}
            BY <1>4, <2>1, <4>1, SysfsAssumption DEF Steady, WalkInv, WalkTypeOK
          <5> QED
            BY <5>1
        <4>2. CASE ~(m = n /\ m = at)
          BY <1>2, <2>1, <4>2 DEF Steady, WalkInv, WalkTypeOK
        <4> QED
          BY <4>1, <4>2
      <3> QED
        BY <1>2, <2>1, <3>1 DEF Steady, Wanted
    <2>2. Sensors' = Sensors /\ \A m, d, s : Reported(m, d, s)' = Reported(m, d, s)
      BY <1>2 DEF Sensors, Reported
    <2> QED
      BY <1>2, <2>1, <2>2 DEF WalkInv, NoneIsForgotten
  <1> QED
    BY <1>3, <1>5, <1>6, <1>7 DEF WalkInv

\* What every reachable state satisfies, of the walks.
THEOREM WalkInvariant == Spec => []WalkInv
  <1>1. WalkInv /\ [Next]_vars => WalkInv'
    <2> SUFFICES ASSUME WalkInv, [Next]_vars
                 PROVE  WalkInv'
      OBVIOUS
    <2>1. CASE UNCHANGED sysfsVars
      <3>1. UNCHANGED <<class, dev, held, left, at, step, got, sample, walks, failing>>
        BY <2>1 DEF sysfsVars, walkVars, kernelVars
      <3>2. \A n, d : Steady(n, d)' = Steady(n, d)
        BY <3>1 DEF Steady, Wanted
      <3>3. Sensors' = Sensors /\ \A n, d, s : Reported(n, d, s)' = Reported(n, d, s)
        BY <3>1 DEF Sensors, Reported
      <3>4. NoneIsForgotten'
        BY <3>1, <3>2, <3>3 DEF WalkInv, NoneIsForgotten
      <3> QED
        BY <3>1, <3>4 DEF WalkInv, WalkTypeOK, EnteredOnce, GotIsHere,
                          RecordsAreOfTheirDevice
    <2>2. CASE Walks
      <3>1. class \in DOMAIN Plan
        BY <2>2 DEF Walks, WalkInv, WalkTypeOK
      <3>2. CASE Lists
        BY <3>1, <3>2, ListingKeeps
      <3>3. CASE Enters
        BY <3>1, <3>3, EnteringKeeps
      <3>4. CASE ReadsFile
        <4>1. /\ at # None /\ dev[at] # None
              /\ UNCHANGED <<class, kernelVars, walks, failing>>
              /\ Plan[class][step].kind \in {"required", "optional"}
              /\ got' = Know(dev[at]) /\ Proceeds(step + 1, WithRecord(Know(dev[at])))
          BY <3>4 DEF ReadsFile
        <4>2. failing \subseteq Range(Name)
          BY DEF WalkInv, WalkTypeOK
        <4> QED
          BY <3>1, <4>1, <4>2, ReadingKeeps
      <3>5. CASE FileFails
        BY <3>1, <3>5, FailingKeeps
      <3>6. CASE Opens \/ ListsFiles
        BY <3>1, <3>6, SteppingKeeps DEF Opens, ListsFiles
      <3>7. CASE Hotplug
        BY <3>1, <3>7, HotplugKeeps
      <3> QED
        BY <2>2, <3>2, <3>3, <3>4, <3>5, <3>6, <3>7 DEF Walks, Walk
    <2> QED
      BY <2>1, <2>2 DEF Next, Collects, Finished, vars
  <1> QED
    BY InitWalks, <1>1, PTL DEF Spec

\* Every value of a record is of a device that was in the record's directory
\* while the walk read it, for any devices under any names, however they are
\* plugged and unplugged: without an exchange between its own reads a record is
\* of one device.  A sensor that cannot be read has no record.
THEOREM RecordsAreOfTheirDeviceThm == Spec => []RecordsAreOfTheirDevice
  <1>1. WalkInv => RecordsAreOfTheirDevice
    BY DEF WalkInv
  <1> QED
    BY WalkInvariant, <1>1, PTL

\* A device that stays while the walk is in its directory, and can be read, is
\* reported with all its sensors, whatever becomes of the others.
THEOREM SteadyDevicesAreReportedThm == Spec => []SteadyDevicesAreReported
  <1>1. WalkInv => SteadyDevicesAreReported
    <2> SUFFICES ASSUME WalkInv, WalkOver, NEW n \in Range(Name), NEW d \in Device,
                        held[n] = {d}, n \notin failing, Wanted(n), NEW s \in Sensors
                 PROVE  \E i \in DOMAIN sample :
                            /\ sample[i].name = n /\ sample[i].sensor = s
                            /\ \A v \in sample[i].values : v.value = d
      BY DEF SteadyDevicesAreReported, Sensors
    <2>1. Steady(n, d) /\ n \notin left /\ at # n /\ walks > 0
      BY SysfsAssumption DEF WalkOver, Steady
    <2>2. Reported(n, d, s)
      BY <2>1 DEF WalkInv, NoneIsForgotten
    <2> QED
      BY <2>2 DEF Reported, Range
  <1> QED
    BY WalkInvariant, <1>1, PTL

-----------------------------------------------------------------------------
(* Files: what was made of one is the parse of it *)

JobInv ==
    /\ Collector # "none" => Collector \in FileCollector /\ File \in Files(Collector)
    /\ parsed => Collector \in FileCollector /\ out = Parse(Collector, File)

LEMMA FilesAreLines ==
    ASSUME NEW c \in Columned \union Paired \union Keyed, NEW file \in Files(c)
    PROVE  file \in Seq(FileLine)
  <1>1. \A d \in Columned \union Paired \union Keyed : Files(d) \subseteq Seq(FileLine)
    BY FilesAssumption, Zenon
  <1> QED
    BY <1>1, Zenon

\* When a collector over a file has finished, what it returned is its parser's
\* reading of that file: nothing is added to it or lost on the way.
THEOREM JobInvariant == Spec => []JobInv
  <1> USE DEF JobInv, Collector, File
  <1>1. Init => JobInv
    BY DEF Init
  <1>2. JobInv /\ [Next]_vars => JobInv'
    BY DEF Next, Collects, Walks, Finished, vars
  <1> QED
    BY <1>1, <1>2, PTL DEF Spec

\* The sequences one after the other, as FlattenSeq puts them: source says from
\* which of them an element comes, and its place there.
IsFlat(flat, seqs, source) ==
    /\ source \in [1..Len(flat) -> (1..Len(seqs)) \X Nat]
    /\ \A j \in 1..Len(flat) : /\ source[j][2] \in 1..Len(seqs[source[j][1]])
                               /\ flat[j] = seqs[source[j][1]][source[j][2]]
    /\ \A i \in 1..Len(seqs) : \A k \in 1..Len(seqs[i]) :
           \E j \in 1..Len(flat) : source[j] = <<i, k>>
    /\ \A j, h \in 1..Len(flat) : j < h =>
           \/ source[j][1] < source[h][1]
           \/ source[j][1] = source[h][1] /\ source[j][2] < source[h][2]

\* One more sequence at the end.
LEMMA FlatGrows ==
    ASSUME NEW T, NEW seqs \in Seq(Seq(T)), NEW s \in Seq(T), NEW flat \in Seq(T),
           NEW source, IsFlat(flat, seqs, source)
    PROVE  \E new : IsFlat(flat \o s, Append(seqs, s), new)
  <1> DEFINE n == Len(flat)
             m == Len(seqs)
             whole == flat \o s
             all == Append(seqs, s)
             new == [j \in 1..n + Len(s) |-> IF j <= n THEN source[j] ELSE <<m + 1, j - n>>]
  <1>1. n \in Nat /\ m \in Nat /\ Len(s) \in Nat
    OBVIOUS
  <1>2. whole \in Seq(T) /\ Len(whole) = n + Len(s)
    OBVIOUS
  <1>3. /\ \A j \in 1..n : whole[j] = flat[j]
        /\ \A j \in n + 1..n + Len(s) : whole[j] = s[j - n]
    OBVIOUS
  <1>4. all \in Seq(Seq(T)) /\ Len(all) = m + 1
    OBVIOUS
  <1>5. all[m + 1] = s /\ \A i \in 1..m : all[i] = seqs[i]
    OBVIOUS
  <1>6. \A i \in 1..m : Len(seqs[i]) \in Nat
    OBVIOUS
  <1> HIDE DEF n, m, whole, all
  <1>7. \A j \in 1..n + Len(s) : j \in 1..n \/ j \in n + 1..n + Len(s)
    BY <1>1
  <1>8. /\ source \in [1..n -> (1..m) \X Nat]
        /\ \A j \in 1..n : source[j][2] \in 1..Len(seqs[source[j][1]])
                           /\ flat[j] = seqs[source[j][1]][source[j][2]]
        /\ \A i \in 1..m : \A k \in 1..Len(seqs[i]) : \E j \in 1..n : source[j] = <<i, k>>
        /\ \A j, h \in 1..n : j < h =>
               \/ source[j][1] < source[h][1]
               \/ source[j][1] = source[h][1] /\ source[j][2] < source[h][2]
    BY DEF IsFlat, n, m
  <1>9. /\ \A j \in 1..n : j \in 1..n + Len(s) /\ new[j] = source[j]
        /\ \A j \in n + 1..n + Len(s) : j \in 1..n + Len(s) /\ new[j] = <<m + 1, j - n>>
    <2>1. ASSUME NEW j \in 1..n
          PROVE  j \in 1..n + Len(s) /\ new[j] = source[j]
      <3>1. j \in 1..n + Len(s) /\ j <= n
        BY <1>1
      <3> QED
        BY <3>1
    <2>2. ASSUME NEW j \in n + 1..n + Len(s)
          PROVE  j \in 1..n + Len(s) /\ new[j] = <<m + 1, j - n>>
      <3>1. j \in 1..n + Len(s) /\ ~(j <= n)
        BY <1>1
      <3> QED
        BY <3>1
    <2> QED
      BY <2>1, <2>2
  <1>10. new \in [1..n + Len(s) -> (1..m + 1) \X Nat]
    <2>1. \A j \in 1..n + Len(s) : new[j] \in (1..m + 1) \X Nat
      <3>1. \A j \in 1..n : source[j] \in (1..m + 1) \X Nat
        BY <1>1, <1>8
      <3>2. \A j \in n + 1..n + Len(s) : <<m + 1, j - n>> \in (1..m + 1) \X Nat
        BY <1>1
      <3> QED
        BY <1>7, <1>9, <3>1, <3>2
    <2> QED
      BY <2>1
  <1> HIDE DEF new
  <1>11. ASSUME NEW j \in 1..n + Len(s)
         PROVE  /\ new[j][2] \in 1..Len(all[new[j][1]])
                /\ whole[j] = all[new[j][1]][new[j][2]]
    <2>1. CASE j \in 1..n
      <3>1. source[j][1] \in 1..m
        BY <1>8, <2>1
      <3>2. new[j] = source[j] /\ whole[j] = flat[j] /\ all[source[j][1]] = seqs[source[j][1]]
        BY <1>3, <1>5, <1>9, <2>1, <3>1
      <3> QED
        BY <1>8, <2>1, <3>2
    <2>2. CASE j \in n + 1..n + Len(s)
      <3>1. new[j][1] = m + 1 /\ new[j][2] = j - n /\ j - n \in 1..Len(s)
        BY <1>1, <1>9, <2>2
      <3>2. all[new[j][1]] = s /\ whole[j] = s[j - n]
        BY <1>3, <1>5, <2>2, <3>1
      <3> QED
        BY <3>1, <3>2
    <2> QED
      BY <1>7, <2>1, <2>2
  <1>12. ASSUME NEW i \in 1..m + 1, NEW k \in 1..Len(all[i])
         PROVE  \E j \in 1..n + Len(s) : new[j] = <<i, k>>
    <2>1. CASE i \in 1..m
      <3>1. PICK j \in 1..n : source[j] = <<i, k>>
        BY <1>5, <1>8, <2>1
      <3> QED
        BY <1>9, <3>1
    <2>2. CASE i = m + 1
      <3>1. k \in 1..Len(s)
        BY <1>5, <2>2
      <3>2. n + k \in n + 1..n + Len(s) /\ (n + k) - n = k
        BY <1>1, <3>1
      <3> QED
        BY <1>9, <2>2, <3>2
    <2> QED
      BY <1>1, <2>1, <2>2
  <1>13. ASSUME NEW j \in 1..n + Len(s), NEW h \in 1..n + Len(s), j < h
         PROVE  \/ new[j][1] < new[h][1]
                \/ new[j][1] = new[h][1] /\ new[j][2] < new[h][2]
    <2>1. CASE h \in 1..n
      <3>1. j \in 1..n
        BY <1>1, <1>13, <2>1
      <3> QED
        BY <1>8, <1>9, <1>13, <2>1, <3>1
    <2>2. CASE j \in 1..n /\ h \in n + 1..n + Len(s)
      <3>1. source[j][1] \in 1..m
        BY <1>8, <2>2
      <3>2. new[j][1] = source[j][1] /\ new[h][1] = m + 1
        BY <1>9, <2>2
      <3> QED
        BY <1>1, <3>1, <3>2
    <2>3. CASE j \in n + 1..n + Len(s) /\ h \in n + 1..n + Len(s)
      <3>1. new[j] = <<m + 1, j - n>> /\ new[h] = <<m + 1, h - n>>
        BY <1>9, <2>3
      <3> QED
        BY <1>1, <1>13, <3>1
    <2> QED
      BY <1>7, <2>1, <2>2, <2>3
  <1>14. IsFlat(whole, all, new)
    <2> DEFINE span == 1..n + Len(s)
               places == 1..m + 1
    <2>1. 1..Len(whole) = span /\ 1..Len(all) = places
      BY <1>2, <1>4
    <2>2. /\ new \in [span -> places \X Nat]
          /\ \A j \in span : /\ new[j][2] \in 1..Len(all[new[j][1]])
                             /\ whole[j] = all[new[j][1]][new[j][2]]
          /\ \A i \in places : \A k \in 1..Len(all[i]) : \E j \in span : new[j] = <<i, k>>
          /\ \A j, h \in span : j < h =>
                 \/ new[j][1] < new[h][1]
                 \/ new[j][1] = new[h][1] /\ new[j][2] < new[h][2]
      BY <1>10, <1>11, <1>12, <1>13
    <2> HIDE DEF span, places
    <2>3. new \in [1..Len(whole) -> (1..Len(all)) \X Nat]
      BY <2>1, <2>2
    <2>4. \A j \in 1..Len(whole) : /\ new[j][2] \in 1..Len(all[new[j][1]])
                                   /\ whole[j] = all[new[j][1]][new[j][2]]
      BY <2>1, <2>2
    <2>5. \A i \in 1..Len(all) : \A k \in 1..Len(all[i]) :
              \E j \in 1..Len(whole) : new[j] = <<i, k>>
      <3>1. ASSUME NEW i \in places, NEW k \in 1..Len(all[i])
            PROVE  \E j \in span : new[j] = <<i, k>>
        BY <2>2
      <3> QED
        BY <2>1, <3>1
    <2>6. \A j, h \in 1..Len(whole) : j < h =>
              \/ new[j][1] < new[h][1]
              \/ new[j][1] = new[h][1] /\ new[j][2] < new[h][2]
      BY <2>1, <2>2
    <2> QED
      BY <2>3, <2>4, <2>5, <2>6 DEF IsFlat
  <1> QED
    BY <1>14 DEF whole, all

\* FlattenSeq as it runs: the sequences up to the i-th.
LEMMA FlatRuns ==
    ASSUME NEW T, NEW seqs \in Seq(Seq(T))
    PROVE  \E upto \in [0..Len(seqs) -> Seq(T)] :
               /\ upto[0] = <<>>
               /\ \A i \in 1..Len(seqs) : upto[i] = upto[i - 1] \o seqs[i]
               /\ FlattenSeq(seqs) = upto[Len(seqs)]
  <1> DEFINE n == Len(seqs)
             D == 1..n
             value(f, i) == IF i = 1 THEN seqs[i] ELSE f[i - 1] \o seqs[i]
             body == [p \in [D -> Seq(T)] \X D |-> value(p[1], p[2])]
             rank == [i \in D |-> i]
             flatten == CHOOSE f : f = [i \in D |-> value(f, i)]
  <1>1. n \in Nat /\ DOMAIN seqs = 1..n
    OBVIOUS
  <1>2. CASE n = 0
    <2>1. FlattenSeq(seqs) = seqs
      BY <1>2 DEF FlattenSeq
    <2>2. seqs \in Seq(T) /\ seqs = <<>>
      BY <1>2
    <2> DEFINE upto == [i \in 0..n |-> seqs]
    <2>3. upto \in [0..n -> Seq(T)] /\ upto[0] = seqs /\ upto[n] = seqs /\ 1..n = {}
      BY <1>2, <2>2
    <2> HIDE DEF upto
    <2> QED
      BY <2>1, <2>2, <2>3
  <1>3. CASE n > 0
    <2>1. FlattenSeq(seqs) = flatten[n]
      BY <1>1, <1>3 DEF FlattenSeq
    <2>2. \A i \in D : seqs[i] \in Seq(T)
      OBVIOUS
    <2>3. \A f \in [D -> Seq(T)], i \in D : value(f, i) \in Seq(T)
      <3>1. ASSUME NEW f \in [D -> Seq(T)], NEW i \in D
            PROVE  value(f, i) \in Seq(T)
        <4>1. CASE i = 1
          BY <2>2, <4>1
        <4>2. CASE i # 1
          <5>1. i - 1 \in D
            BY <1>1, <4>2
          <5>2. f[i - 1] \in Seq(T) /\ seqs[i] \in Seq(T)
            BY <2>2, <5>1
          <5>3. f[i - 1] \o seqs[i] \in Seq(T)
            BY <5>2
          <5> QED
            BY <4>2, <5>3
        <4> QED
          BY <4>1, <4>2
      <3> QED
        BY <3>1
    <2>4. \E f \in [D -> Seq(T)] : f = [i \in D |-> value(f, i)]
      <3>1. body \in [[D -> Seq(T)] \X D -> Seq(T)]
        BY <2>3
      <3>2. \A f \in [D -> Seq(T)], i \in D : body[<<f, i>>] = value(f, i)
        OBVIOUS
      <3>3. \A f, g \in [D -> Seq(T)], i \in D :
                (\A e \in D : e < i => f[e] = g[e]) => value(f, i) = value(g, i)
        <4>1. \A i \in D : i # 1 => i - 1 \in D /\ i - 1 < i
          BY <1>1
        <4> QED
          BY <4>1
      <3>4. rank \in [D -> 0..n] /\ \A i \in D : rank[i] = i
        BY <1>1
      <3> HIDE DEF body, rank, value, D
      <3>5. \A f, g \in [D -> Seq(T)], i \in D :
                (\A e \in D : rank[e] < rank[i] => f[e] = g[e]) => body[<<f, i>>] = body[<<g, i>>]
        <4>1. ASSUME NEW f \in [D -> Seq(T)], NEW g \in [D -> Seq(T)], NEW i \in D,
                     \A e \in D : rank[e] < rank[i] => f[e] = g[e]
              PROVE  body[<<f, i>>] = body[<<g, i>>]
          <5>1. \A e \in D : e < i => f[e] = g[e]
            BY <3>4, <4>1
          <5>2. value(f, i) = value(g, i)
            BY <3>3, <5>1
          <5> QED
            BY <3>2, <5>2
        <4> QED
          BY <4>1
      <3>6. Seq(T) # {}
        <4>1. <<>> \in Seq(T)
          OBVIOUS
        <4> QED
          BY <4>1
      <3>7. Descends(D, Seq(T), n, rank, body)
        BY <1>1, <3>1, <3>4, <3>5, <3>6 DEF Descends
      <3>8. PICK f \in [D -> Seq(T)] : f = [i \in D |-> body[<<f, i>>]]
        BY <3>7, RecursiveFunction
      <3>9. f = [i \in D |-> value(f, i)]
        BY <3>2, <3>8
      <3> QED
        BY <3>9
    <2>5. flatten = [i \in D |-> value(flatten, i)]
      <3> HIDE DEF value, D
      <3> QED
        BY <2>4
    <2>6. \A i \in D : flatten[i] = IF i = 1 THEN seqs[i] ELSE flatten[i - 1] \o seqs[i]
      <3> HIDE DEF flatten
      <3> QED
        BY <2>5
    <2> HIDE DEF flatten
    <2> DEFINE upto == [i \in 0..n |-> IF i = 0 THEN <<>> ELSE flatten[i]]
               K == {k \in 0..n : upto[k] \in Seq(T)}
    <2>7. upto[0] = <<>> /\ \A i \in D : upto[i] = flatten[i] /\ i \in 0..n
      BY <1>1
    <2>8. ASSUME NEW i \in D
          PROVE  upto[i] = upto[i - 1] \o seqs[i]
      <3>1. seqs[i] \in Seq(T)
        BY <2>2
      <3>2. CASE i = 1
        <4>1. upto[i - 1] = <<>> /\ upto[i] = seqs[i]
          BY <2>6, <2>7, <3>2
        <4> HIDE DEF upto
        <4> QED
          BY <3>1, <4>1
      <3>3. CASE i # 1
        <4>1. i - 1 \in D
          BY <1>1, <3>3
        <4> HIDE DEF upto
        <4> QED
          BY <2>6, <2>7, <3>3, <4>1
      <3> QED
        BY <3>2, <3>3
    <2>9. \A k \in 0..n : upto[k] \in Seq(T)
      <3> HIDE DEF upto
      <3>1. 0 \in K
        <4>1. upto[0] \in Seq(T) /\ 0 \in 0..n
          BY <1>1, <2>7
        <4> QED
          BY <4>1
      <3>2. ASSUME NEW k \in 0..n, k \in K, k < n
            PROVE  k + 1 \in K
        <4>1. k + 1 \in D /\ k + 1 \in 0..n /\ (k + 1) - 1 = k
          BY <1>1, <3>2
        <4>2. upto[k + 1] = upto[k] \o seqs[k + 1] /\ seqs[k + 1] \in Seq(T)
          BY <2>2, <2>8, <4>1
        <4>3. upto[k + 1] \in Seq(T)
          BY <3>2, <4>2
        <4> QED
          BY <4>1, <4>3
      <3>3. 0..n \subseteq K
        <4> HIDE DEF K
        <4> QED
          BY <1>1, <3>1, <3>2, InductionUpTo
      <3> QED
        BY <3>3
    <2>10. upto \in [0..n -> Seq(T)] /\ FlattenSeq(seqs) = upto[n]
      <3>1. FlattenSeq(seqs) = upto[n]
        BY <1>1, <1>3, <2>1, <2>7
      <3>2. DOMAIN upto = 0..n /\ upto = [k \in 0..n |-> upto[k]]
        OBVIOUS
      <3> HIDE DEF upto
      <3> QED
        BY <2>9, <3>1, <3>2
    <2> HIDE DEF upto
    <2> QED
      BY <2>7, <2>8, <2>10
  <1>4. n = 0 \/ n > 0
    BY <1>1
  <1> QED
    BY <1>2, <1>3, <1>4, Zenon

LEMMA FlatExists ==
    ASSUME NEW T, NEW seqs \in Seq(Seq(T))
    PROVE  /\ FlattenSeq(seqs) \in Seq(T)
           /\ \E source : IsFlat(FlattenSeq(seqs), seqs, source)
  <1> DEFINE n == Len(seqs)
             D == 1..n
  <1>1. n \in Nat /\ DOMAIN seqs = 1..n /\ \A i \in D : seqs[i] \in Seq(T)
    OBVIOUS
  <1>2. PICK flatten \in [0..n -> Seq(T)] :
            /\ flatten[0] = <<>>
            /\ \A i \in D : flatten[i] = flatten[i - 1] \o seqs[i]
            /\ FlattenSeq(seqs) = flatten[n]
    BY FlatRuns
  <1> DEFINE upTo(k) == SubSeq(seqs, 1, k)
             K == {k \in 0..n : \E source : IsFlat(flatten[k], upTo(k), source)}
  <1>3. 0 \in K
    <2>1. Len(upTo(0)) = 0 /\ 0 \in 0..n
      BY <1>1
    <2> HIDE DEF upTo
    <2>2. IsFlat(<<>>, upTo(0), <<>>)
      BY <2>1 DEF IsFlat
    <2> QED
      BY <1>2, <2>1, <2>2
  <1>4. ASSUME NEW k \in 0..n, k \in K, k < n
        PROVE  k + 1 \in K
    <2>1. /\ k \in Nat /\ k + 1 \in 0..n /\ k + 1 \in D /\ seqs[k + 1] \in Seq(T)
          /\ upTo(k) \in Seq(Seq(T)) /\ upTo(k + 1) = Append(upTo(k), seqs[k + 1])
      <3>1. k \in Nat /\ k + 1 \in 0..n /\ k + 1 \in D /\ seqs[k + 1] \in Seq(T)
        BY <1>1, <1>4
      <3>2. upTo(k) \in Seq(Seq(T)) /\ upTo(k + 1) \in Seq(Seq(T))
        BY <1>1, <1>4
      <3>3. Len(upTo(k)) = k /\ Len(upTo(k + 1)) = k + 1
        BY <1>1, <1>4
      <3>4. /\ \A i \in 1..k : upTo(k)[i] = seqs[i]
            /\ \A i \in 1..k + 1 : upTo(k + 1)[i] = seqs[i]
        BY <1>1, <1>4
      <3> HIDE DEF upTo
      <3> DEFINE longer == Append(upTo(k), seqs[k + 1])
      <3>5. /\ longer \in Seq(Seq(T)) /\ Len(longer) = k + 1
            /\ \A i \in 1..k : longer[i] = seqs[i]
            /\ longer[k + 1] = seqs[k + 1]
        <4> DEFINE S == Seq(T)
                   one == upTo(k)
                   next == seqs[k + 1]
        <4>1. one \in Seq(S) /\ next \in S /\ Len(one) = k /\ \A i \in 1..k : one[i] = seqs[i]
          BY <3>1, <3>2, <3>3, <3>4
        <4> HIDE DEF S, one, next
        <4>2. /\ Append(one, next) \in Seq(S) /\ Len(Append(one, next)) = k + 1
              /\ \A i \in 1..k : Append(one, next)[i] = one[i]
              /\ Append(one, next)[k + 1] = next
          BY <4>1, AppendProperties
        <4> QED
          BY <4>1, <4>2 DEF S, one, next
      <3> HIDE DEF longer
      <3>6. \A i \in 1..k + 1 : upTo(k + 1)[i] = longer[i]
        <4>1. \A i \in 1..k + 1 : i \in 1..k \/ i = k + 1
          BY <3>1
        <4>2. k + 1 \in 1..k + 1
          BY <3>1
        <4> QED
          BY <3>4, <3>5, <4>1, <4>2
      <3>7. upTo(k + 1) = longer
        BY <3>2, <3>3, <3>5, <3>6, SeqEqual
      <3> QED
        BY <3>1, <3>2, <3>7 DEF longer
    <2> HIDE DEF upTo
    <2>2. /\ flatten[k] \in Seq(T) /\ flatten[k + 1] = flatten[k] \o seqs[k + 1]
          /\ \E source : IsFlat(flatten[k], upTo(k), source)
      <3>1. (k + 1) - 1 = k
        BY <2>1
      <3> QED
        BY <1>2, <1>4, <2>1, <3>1
    <2>3. \E new : IsFlat(flatten[k] \o seqs[k + 1], Append(upTo(k), seqs[k + 1]), new)
      BY <2>1, <2>2, FlatGrows
    <2>4. \E source : IsFlat(flatten[k + 1], upTo(k + 1), source)
      BY <2>1, <2>2, <2>3
    <2> QED
      BY <2>1, <2>4
  <1>5. n \in K
    <2> HIDE DEF K
    <2>1. 0..n \subseteq K
      BY <1>1, <1>3, <1>4, InductionUpTo
    <2> QED
      BY <1>1, <2>1
  <1>6. upTo(n) = seqs /\ n \in 0..n
    BY <1>1
  <1> HIDE DEF upTo, D
  <1> QED
    BY <1>2, <1>5, <1>6

\* The rounds of a loop, those in keep with one record.
OneEach(n, rows, keep, records) ==
    /\ n \in Nat /\ DOMAIN rows = 1..n /\ keep \subseteq 1..n
    /\ \A l \in 1..n :
           rows[l].ok => rows[l].stats = IF l \in keep THEN <<records[l]>> ELSE <<>>

\* A sample has the record of each of them, in their order.
InOrder(stats, keep, records, of) ==
    /\ stats \in Seq({records[l] : l \in keep})
    /\ of \in [1..Len(stats) -> keep]
    /\ \A j \in 1..Len(stats) : stats[j] = records[of[j]]
    /\ \A l \in keep : \E j \in 1..Len(stats) : of[j] = l
    /\ \A j, h \in 1..Len(stats) : j < h => of[j] < of[h]

LEMMA RowsOfOne ==
    ASSUME NEW n, NEW rows, NEW keep, NEW records, OneEach(n, rows, keep, records)
    PROVE  /\ Rows(rows).ok <=> \A l \in 1..n : rows[l].ok
           /\ Rows(rows).ok => \E of : InOrder(Rows(rows).stats, keep, records, of)
  <1> USE DEF OneEach
  <1>1. Rows(rows).ok <=> \A l \in 1..n : rows[l].ok
    <2>1. CASE \E i \in DOMAIN rows : ~rows[i].ok
      BY <2>1 DEF Rows, Fail
    <2>2. CASE ~\E i \in DOMAIN rows : ~rows[i].ok
      BY <2>2 DEF Rows, Done
    <2> QED
      BY <2>1, <2>2
  <1>2. ASSUME \A l \in 1..n : rows[l].ok
        PROVE  \E of : InOrder(Rows(rows).stats, keep, records, of)
    <2> DEFINE seqs == [l \in 1..n |-> rows[l].stats]
               flat == FlattenSeq(seqs)
               T == {records[l] : l \in keep}
    <2>1. Rows(rows).stats = flat
      <3>1. Rows(rows) = Done(FlattenSeq([i \in DOMAIN rows |-> rows[i].stats]))
        BY <1>2 DEF Rows
      <3>2. [i \in DOMAIN rows |-> rows[i].stats] = seqs
        OBVIOUS
      <3> QED
        BY <3>1, <3>2 DEF Done
    <2>2. \A l \in 1..n : seqs[l] = IF l \in keep THEN <<records[l]>> ELSE <<>>
      BY <1>2
    <2>3. seqs \in Seq(Seq(T)) /\ Len(seqs) = n
      <3>1. \A l \in 1..n : seqs[l] \in Seq(T)
        <4>1. \A l \in keep : records[l] \in T
          OBVIOUS
        <4> HIDE DEF T, seqs
        <4>2. ASSUME NEW l \in 1..n
              PROVE  seqs[l] \in Seq(T)
          <5>1. CASE l \in keep
            <6>1. <<records[l]>> \in Seq(T)
              BY <4>1, <5>1
            <6> QED
              BY <2>2, <5>1, <6>1
          <5>2. CASE l \notin keep
            <6>1. <<>> \in Seq(T)
              OBVIOUS
            <6> QED
              BY <2>2, <5>2, <6>1
          <5> QED
            BY <5>1, <5>2
        <4> QED
          BY <4>2
      <3> HIDE DEF T
      <3> QED
        BY <3>1
    <2> HIDE DEF seqs, T
    <2>4. flat \in Seq(T) /\ \E source : IsFlat(flat, seqs, source)
      BY <2>3, FlatExists
    <2>5. PICK source : IsFlat(flat, seqs, source)
      BY <2>4
    <2> HIDE DEF flat
    <2> DEFINE m == Len(flat)
               of == [j \in 1..m |-> source[j][1]]
    <2>6. m \in Nat /\ DOMAIN flat = 1..m
      BY <2>4
    <2>7. ASSUME NEW j \in 1..m
          PROVE  source[j][2] = 1 /\ of[j] \in keep /\ flat[j] = records[of[j]]
      <3> DEFINE i == source[j][1]
                 k == source[j][2]
      <3>1. i \in 1..n /\ k \in 1..Len(seqs[i]) /\ flat[j] = seqs[i][k]
        BY <2>3, <2>5 DEF IsFlat
      <3> HIDE DEF i, k
      <3>2. i \in keep
        <4>1. i \notin keep => seqs[i] = <<>>
          BY <2>2, <3>1
        <4>2. Len(<<>>) = 0
          OBVIOUS
        <4> QED
          BY <3>1, <4>1, <4>2
      <3>3. seqs[i] = <<records[i]>>
        BY <2>2, <3>1, <3>2
      <3>4. k = 1 /\ flat[j] = records[i]
        BY <3>1, <3>3
      <3> QED
        BY <3>2, <3>4 DEF i, k
    <2>8. ASSUME NEW l \in keep
          PROVE  \E j \in 1..m : of[j] = l
      <3>1. l \in 1..n /\ seqs[l] = <<records[l]>>
        BY <2>2
      <3>2. 1 \in 1..Len(seqs[l])
        BY <3>1
      <3>3. PICK j \in 1..m : source[j] = <<l, 1>>
        BY <2>3, <2>5, <3>1, <3>2 DEF IsFlat
      <3> QED
        BY <3>3
    <2>9. ASSUME NEW j \in 1..m, NEW h \in 1..m, j < h
          PROVE  of[j] < of[h]
      <3>1. \/ source[j][1] < source[h][1]
            \/ source[j][1] = source[h][1] /\ source[j][2] < source[h][2]
        BY <2>5, <2>9 DEF IsFlat
      <3> QED
        BY <2>7, <3>1
    <2>10. of \in [1..m -> keep]
      BY <2>7
    <2> HIDE DEF of
    <2>11. InOrder(flat, keep, records, of)
      BY <2>4, <2>7, <2>8, <2>9, <2>10 DEF InOrder, T
    <2> QED
      BY <2>1, <2>11
  <1> QED
    BY <1>1, <1>2

-----------------------------------------------------------------------------
(* Records of several lines or files *)

LEMMA KeysAreFinite == IsFiniteSet(StatKeys) /\ IsFiniteSet(ProcessKeys)
  <1>1. IsFiniteSet({"processes"})
    BY FS_Singleton
  <1>2. \A S, x : IsFiniteSet(S) => IsFiniteSet(S \union {x})
    BY FS_AddElement
  <1>3. StatKeys = ({"processes"} \union {"btime"}) \union {"intr"}
    BY DEF StatKeys
  <1>4. ProcessKeys
            = (({"processes"} \union {"procs_running"}) \union {"procs_blocked"}) \union {"ctxt"}
    BY DEF ProcessKeys
  <1> QED
    BY <1>1, <1>2, <1>3, <1>4

\* A slot is the first column of a line of its key that has one.
LEMMA SlotIsOfLine ==
    ASSUME NEW file \in Seq(FileLine), NEW keys, NEW key \in keys
    PROVE  \/ /\ Slots(file, keys)[key] = Absent
              /\ \A l \in 1..Len(file) : file[l].of = key => file[l].n = 0
           \/ \E l \in 1..Len(file) :
                  /\ file[l].of = key /\ file[l].n > 0 /\ Slots(file, keys)[key] = <<l, 1>>
  <1> DEFINE Lines(k) == {h \in KeyLines(file, {k}) : file[h].n > 0}
  <1>1. /\ Lines(key) = {l \in 1..Len(file) : file[l].of = key /\ file[l].n > 0}
        /\ Len(file) \in Nat
    BY DEF KeyLines
  <1>2. Slots(file, keys)[key] = IF Lines(key) = {} THEN Absent ELSE <<Max(Lines(key)), 1>>
    BY DEF Slots
  <1> HIDE DEF Lines
  <1>3. CASE Lines(key) = {}
    <2>1. ASSUME NEW l \in 1..Len(file), file[l].of = key
          PROVE  file[l].n = 0
      <3>1. file[l] \in FileLine /\ ~(file[l].n > 0)
        BY <1>1, <1>3, <2>1
      <3> QED
        BY <3>1 DEF FileLine
    <2> QED
      BY <1>2, <1>3, <2>1
  <1>4. CASE Lines(key) # {}
    <2>1. Lines(key) \in SUBSET (0..Len(file))
      BY <1>1
    <2>2. Max(Lines(key)) \in Lines(key)
      BY <1>1, <1>4, <2>1, GreatestBelow
    <2> QED
      BY <1>1, <1>2, <1>4, <2>2
  <1> QED
    BY <1>3, <1>4

LEMMA MeasurementIs ==
    ASSUME File \in Seq(FileLine), NEW key
    PROVE  /\ \A l \in 1..Len(File) : File[l].of = key /\ File[l].n > 0 /\ 1 \notin File[l].bad =>
                  <<l, 1>> \in Measurements(key, 1)
           /\ \A v \in Measurements(key, 1) : \E l \in 1..Len(File) :
                  /\ v = <<l, 1>> /\ File[l].of = key /\ File[l].n > 0 /\ 1 \notin File[l].bad
  <1>1. DOMAIN File = 1..Len(File) /\ \A l \in 1..Len(File) : File[l].n \in Nat
    BY DEF FileLine
  <1>2. ASSUME NEW l \in 1..Len(File)
        PROVE  1 \in 1..File[l].n \ File[l].bad <=> File[l].n > 0 /\ 1 \notin File[l].bad
    BY <1>1
  <1> QED
    BY <1>1, <1>2 DEF Measurements

LEMMA FirstColumn ==
    ASSUME NEW file \in Seq(FileLine), NEW l \in 1..Len(file)
    PROVE  /\ At(file, l, 1) = Absent <=> file[l].n = 0
           /\ At(file, l, 1) = Bad <=> 1 \in file[l].bad
  <1>1. /\ l \in Nat \ {0} /\ file[l].n \in Nat /\ file[l].bad \subseteq 1..file[l].n
    BY DEF FileLine
  <1>2. Absent # Bad /\ <<l, 1>> # Absent /\ <<l, 1>> # Bad
    BY <1>1 DEF Absent, Bad
  <1>3. 1 \in 1..file[l].n <=> file[l].n # 0
    BY <1>1
  <1>4. 1 \in file[l].bad => file[l].n # 0
    BY <1>1, <1>3
  <1> QED
    BY <1>2, <1>3, <1>4 DEF At, Text

\* As many lines as keys, and none twice: every key has its line, and each slot
\* is that line's value.
LEMMA CountedIsMeasured ==
    ASSUME File \in Seq(FileLine), NEW keys, IsFiniteSet(keys),
           \A l, m \in DOMAIN File : File[l].of = File[m].of /\ File[l].of \in keys => l = m
    PROVE  /\ Counted(File, keys).ok <=> \A key \in keys : Measurements(key, 1) # {}
           /\ Counted(File, keys).ok => \A key \in keys :
                  Counted(File, keys).stats[1][key] \in Measurements(key, 1)
  <1> DEFINE lines == KeyLines(File, keys)
             key == [l \in lines |-> File[l].of]
             good == \A l \in lines : File[l].n > 0 /\ 1 \notin File[l].bad
  <1>1. \A l \in lines : l \in 1..Len(File) /\ File[l].of \in keys /\ File[l].n \in Nat
    BY DEF KeyLines, FileLine
  <1>2. key \in Injection(lines, keys)
    <2>1. key \in [lines -> keys]
      BY <1>1
    <2>2. \A l, m \in lines : key[l] = key[m] => l = m
      BY <1>1
    <2> HIDE DEF key, lines
    <2> QED
      BY <2>1, <2>2 DEF Injection, IsInjective
  <1>3. ~(Cardinality(lines) < Cardinality(keys)) <=> key \in Surjection(lines, keys)
    <2> HIDE DEF key, lines
    <2>1. /\ IsFiniteSet(lines) /\ Cardinality(lines) <= Cardinality(keys)
          /\ Cardinality(lines) = Cardinality(keys) <=> key \in Surjection(lines, keys)
      BY <1>2, FS_Injection
    <2>2. Cardinality(lines) \in Nat /\ Cardinality(keys) \in Nat
      BY <2>1, FS_CardinalityType
    <2> QED
      BY <2>1, <2>2
  <1>4. good <=> \A l \in lines : At(File, l, 1) \notin {Absent, Bad}
    <2>1. ASSUME NEW l \in lines
          PROVE  /\ At(File, l, 1) \notin {Absent, Bad} <=> File[l].n # 0 /\ 1 \notin File[l].bad
                 /\ File[l].n # 0 <=> File[l].n > 0
      BY <1>1, FirstColumn
    <2> QED
      BY <2>1
  <1>5. /\ Counted(File, keys).ok <=> good /\ key \in Surjection(lines, keys)
        /\ Counted(File, keys).ok => Counted(File, keys).stats = <<Slots(File, keys)>>
    <2> HIDE DEF key, good
    <2> QED
      BY <1>3, <1>4 DEF Counted, Fail, Done
  <1>6. ASSUME good, key \in Surjection(lines, keys), NEW k \in keys
        PROVE  /\ Slots(File, keys)[k] \in Measurements(k, 1)
               /\ Measurements(k, 1) # {}
    <2>1. PICK l \in lines : key[l] = k
      BY <1>6 DEF Surjection
    <2>2. l \in 1..Len(File) /\ File[l].of = k /\ File[l].n # 0
      BY <1>1, <1>6, <2>1
    <2>3. PICK m \in 1..Len(File) :
              File[m].of = k /\ File[m].n > 0 /\ Slots(File, keys)[k] = <<m, 1>>
      BY <2>2, SlotIsOfLine
    <2>4. m \in lines
      BY <2>3 DEF KeyLines
    <2> QED
      BY <1>6, <2>3, <2>4, MeasurementIs
  <1>7. ASSUME \A k \in keys : Measurements(k, 1) # {}
        PROVE  good /\ key \in Surjection(lines, keys)
    <2>1. ASSUME NEW k \in keys
          PROVE  \E l \in lines : key[l] = k /\ File[l].n > 0 /\ 1 \notin File[l].bad
      <3>1. PICK l \in 1..Len(File) : File[l].of = k /\ File[l].n > 0 /\ 1 \notin File[l].bad
        BY <1>7, MeasurementIs
      <3>2. l \in lines
        BY <3>1 DEF KeyLines
      <3> QED
        BY <3>1, <3>2
    <2>2. ASSUME NEW l \in lines
          PROVE  File[l].n > 0 /\ 1 \notin File[l].bad
      <3>1. PICK m \in lines : key[m] = key[l] /\ File[m].n > 0 /\ 1 \notin File[m].bad
        BY <1>1, <2>1
      <3>2. m = l
        BY <1>2, <3>1 DEF Injection, IsInjective
      <3> QED
        BY <3>1, <3>2
    <2>3. key \in Surjection(lines, keys)
      <3>1. key \in [lines -> keys]
        BY <1>1
      <3>2. \A k \in keys : \E l \in lines : key[l] = k
        BY <2>1
      <3> HIDE DEF key, lines
      <3> QED
        BY <3>1, <3>2 DEF Surjection
    <2> QED
      BY <2>2, <2>3
  <1> HIDE DEF good, key, lines
  <1>8. Counted(File, keys).ok => Counted(File, keys).stats[1] = Slots(File, keys)
    BY <1>5
  <1> QED
    BY <1>5, <1>6, <1>7, <1>8

LEMMA ParseIs ==
    ASSUME NEW f
    PROVE  /\ Parse("cpu", f) = Cpu(f) /\ Parse("disk", f) = Disk(f)
           /\ Parse("network", f) = Network(f) /\ Parse("softnet", f) = Softnet(f)
           /\ Parse("schedstat", f) = Schedstat(f) /\ Parse("ipvs", f) = Ipvs(f)
           /\ Parse("load_average", f) = LoadAverage(f) /\ Parse("filefd", f) = FileFd(f)
           /\ Parse("uptime", f) = Uptime(f) /\ Parse("stat", f) = Stat(f)
           /\ Parse("processes", f) = Processes(f) /\ Parse("ram", f) = Ram(f)
           /\ Parse("netstat", f) = Netstat(f) /\ Parse("sockstat", f) = Sockstat(f)
           /\ Parse("vmstat", f) = Vmstat(f) /\ Parse("arp", f) = Arp(f)
           /\ Parse("systemd", f) = Units(f) /\ Parse("mdraid", f) = MdRaid(f)
           /\ Parse("pressure", f) = Pressure(f) /\ Parse("conntrack", f) = Conntrack(f)
           /\ Parse("ntp", f) = Ntp(f) /\ Parse("filesystem", f) = MountPoint(f)
  BY DEF Parse

LEMMA RamIsMeasured ==
    ASSUME File \in Seq(FileLine)
    PROVE  /\ Ram(File).ok <=>
                  /\ Measurements("MemTotal", 1) # {}
                  /\ \A l \in DOMAIN File : File[l].of \in RamKeys => 1 \notin File[l].bad
           /\ Ram(File).ok => \A key \in RamKeys :
                  Ram(File).stats[1][key] \in IF Measurements(key, 1) = {} THEN {Absent}
                                              ELSE Measurements(key, 1)
  <1> DEFINE good == \A l \in DOMAIN File : File[l].of \in RamKeys => 1 \notin File[l].bad
  <1>1. good <=> ~\E l \in KeyLines(File, RamKeys) : At(File, l, 1) = Bad
    <2>1. KeyLines(File, RamKeys) = {l \in DOMAIN File : File[l].of \in RamKeys}
      BY DEF KeyLines
    <2>2. \A l \in DOMAIN File : At(File, l, 1) = Bad <=> 1 \in File[l].bad
      BY FirstColumn
    <2> QED
      BY <2>1, <2>2
  <1>2. /\ Ram(File).ok <=> good /\ Slots(File, RamKeys)["MemTotal"] # Absent
        /\ Ram(File).ok => Ram(File).stats = <<Slots(File, RamKeys)>>
    <2> HIDE DEF good
    <2> QED
      BY <1>1 DEF Ram, Fail, Done
  <1>3. ASSUME good, NEW key \in RamKeys
        PROVE  \/ /\ Slots(File, RamKeys)[key] = Absent
                  /\ Measurements(key, 1) = {}
               \/ /\ Slots(File, RamKeys)[key] # Absent
                  /\ Slots(File, RamKeys)[key] \in Measurements(key, 1)
    <2>1. CASE /\ Slots(File, RamKeys)[key] = Absent
               /\ \A l \in 1..Len(File) : File[l].of = key => File[l].n = 0
      <3>1. Measurements(key, 1) = {}
        BY <2>1, MeasurementIs
      <3> QED
        BY <2>1, <3>1
    <2>2. CASE \E l \in 1..Len(File) :
                   /\ File[l].of = key /\ File[l].n > 0
                   /\ Slots(File, RamKeys)[key] = <<l, 1>>
      <3>1. PICK l \in 1..Len(File) :
                     /\ File[l].of = key /\ File[l].n > 0
                     /\ Slots(File, RamKeys)[key] = <<l, 1>>
        BY <2>2
      <3>2. <<l, 1>> \in Measurements(key, 1)
        BY <1>3, <3>1, MeasurementIs
      <3>3. <<l, 1>> # Absent
        BY DEF Absent
      <3> QED
        BY <3>1, <3>2, <3>3
    <2> QED
      BY <2>1, <2>2, SlotIsOfLine
  <1> HIDE DEF good
  <1>4. "MemTotal" \in RamKeys
    BY DEF RamKeys
  <1>5. Ram(File).ok <=> good /\ Measurements("MemTotal", 1) # {}
    BY <1>2, <1>3, <1>4
  <1>6. Ram(File).ok => Ram(File).stats[1] = Slots(File, RamKeys)
    BY <1>2
  <1>7. ASSUME Ram(File).ok, NEW key \in RamKeys
        PROVE  Ram(File).stats[1][key] \in IF Measurements(key, 1) = {} THEN {Absent}
                                           ELSE Measurements(key, 1)
    <2>1. good /\ Ram(File).stats[1][key] = Slots(File, RamKeys)[key]
      BY <1>5, <1>6, <1>7
    <2> QED
      BY <1>3, <2>1
  <1> QED
    BY <1>5, <1>7 DEF good

\* The last line of a kind, all four columns of it.
LEMMA StallIsOfOneLine ==
    ASSUME NEW file \in Seq(FileLine), NEW kind,
           \A l \in DOMAIN file : file[l].bad \intersect 1..4 = {}
    PROVE  /\ {l \in DOMAIN file : file[l].of = kind} = {} => Stall(file, kind) = Absent
           /\ {l \in DOMAIN file : file[l].of = kind} # {} =>
                  FromALine(file, kind, Stall(file, kind))
  <1>1. /\ LinesOf(file, kind) = {l \in DOMAIN file : file[l].of = kind}
        /\ DOMAIN file = 1..Len(file) /\ Len(file) \in Nat
    BY DEF LinesOf
  <1>2. CASE LinesOf(file, kind) # {}
    <2> DEFINE l == Max(LinesOf(file, kind))
    <2>1. LinesOf(file, kind) \in SUBSET (0..Len(file))
      BY <1>1
    <2>2. l \in DOMAIN file /\ file[l].of = kind
      BY <1>1, <1>2, <2>1, GreatestBelow
    <2> HIDE DEF l
    <2>3. \A c \in 1..4 : At(file, l, c) = Text(file, l, c)
      <3>1. file[l].bad \intersect 1..4 = {}
        BY <2>2
      <3> QED
        BY <3>1 DEF At
    <2>4. Stall(file, kind) = [c \in 1..4 |-> At(file, l, c)]
      BY <1>2 DEF Stall, l
    <2>5. Stall(file, kind) = [c \in 1..4 |-> Text(file, l, c)]
      BY <2>3, <2>4
    <2> QED
      BY <1>1, <1>2, <2>2, <2>5 DEF FromALine
  <1> QED
    BY <1>1, <1>2 DEF Stall

\* What there is to read of one resource.
Legible(file) ==
    /\ \A l \in DOMAIN file : file[l].bad \intersect 1..4 = {}
    /\ \E l \in DOMAIN file : file[l].of = "some"

LEMMA ResourceIs ==
    ASSUME NEW r, NEW file \in Seq(FileLine)
    PROVE  /\ Resource(r, file).ok <=> Legible(file)
           /\ Resource(r, file).ok =>
                  Resource(r, file).stats = <<[metric_type |-> r, some |-> Stall(file, "some"),
                                               full |-> Stall(file, "full")]>>
  <1>1. DOMAIN file = 1..Len(file)
    OBVIOUS
  <1>2. LinesOf(file, "some") # {} <=> \E l \in DOMAIN file : file[l].of = "some"
    BY <1>1 DEF LinesOf
  <1> QED
    BY <1>1, <1>2 DEF Resource, Fail, Done, Legible

LEMMA PressureIsMeasured ==
    ASSUME File \in [1..3 -> FileOf(FileLine)]
    PROVE  LET there == {r \in 1..3 : File[r].state = "there"}
               stats == Pressure(File).stats
               Full(r) == {l \in DOMAIN File[r].lines : File[r].lines[l].of = "full"}
           IN  /\ Pressure(File).ok <=>
                   /\ there # {}
                   /\ \A r \in 1..3 : File[r].state # "unreadable"
                   /\ \A r \in there : Legible(File[r].lines)
               /\ Pressure(File).ok =>
                   /\ {stats[i].metric_type : i \in DOMAIN stats} = there
                   /\ \A i, j \in DOMAIN stats :
                          i < j => stats[i].metric_type < stats[j].metric_type
                   /\ \A i \in DOMAIN stats :
                       LET r == stats[i].metric_type
                       IN  /\ FromALine(File[r].lines, "some", stats[i].some)
                           /\ IF Full(r) = {} THEN stats[i].full = Absent
                              ELSE FromALine(File[r].lines, "full", stats[i].full)
  <1> DEFINE there == {r \in 1..3 : File[r].state = "there"}
             Full(r) == {l \in DOMAIN File[r].lines : File[r].lines[l].of = "full"}
             row(r) == IF File[r].state = "absent" THEN Skip
                       ELSE IF File[r].state = "unreadable" THEN Fail
                       ELSE Resource(r, File[r].lines)
             rows == [r \in DOMAIN File |-> row(r)]
             records == [r \in 1..3 |-> [metric_type |-> r,
                                         some |-> Stall(File[r].lines, "some"),
                                         full |-> Stall(File[r].lines, "full")]]
             readable == /\ \A r \in 1..3 : File[r].state # "unreadable"
                         /\ \A r \in there : Legible(File[r].lines)
  <1>1. ASSUME NEW r \in 1..3
        PROVE  /\ File[r].lines \in Seq(FileLine)
               /\ File[r].state \in {"absent", "unreadable", "there"}
    BY DEF FileOf
  <1>2. Pressure(File) = IF there = {} /\ \A r \in 1..3 : File[r].state # "unreadable"
                         THEN Unsupported ELSE Rows(rows)
    <2>1. (\A r \in DOMAIN File : File[r].state = "absent")
              <=> there = {} /\ \A r \in 1..3 : File[r].state # "unreadable"
      BY <1>1
    <2> QED
      BY <2>1 DEF Pressure
  <1>3. ASSUME NEW r \in 1..3
        PROVE  /\ row(r).ok <=> /\ File[r].state # "unreadable"
                                /\ r \in there => Legible(File[r].lines)
               /\ row(r).ok => row(r).stats = IF r \in there THEN <<records[r]>> ELSE <<>>
    <2>1. CASE File[r].state = "absent"
      BY <2>1 DEF Skip, Done
    <2>2. CASE File[r].state = "unreadable"
      BY <2>2 DEF Fail
    <2>3. CASE File[r].state = "there"
      <3>1. row(r) = Resource(r, File[r].lines) /\ r \in there
        BY <2>3
      <3> QED
        BY <1>1, <2>3, <3>1, ResourceIs
    <2> QED
      BY <1>1, <2>1, <2>2, <2>3
  <1>4. OneEach(3, rows, there, records)
    BY <1>3 DEF OneEach
  <1>5. Rows(rows).ok <=> readable
    <2>1. \A r \in 1..3 : rows[r] = row(r)
      OBVIOUS
    <2>2. (\A r \in 1..3 : row(r).ok) <=> readable
      BY <1>3
    <2> HIDE DEF row, rows, readable
    <2>3. (\A r \in 1..3 : rows[r].ok) <=> readable
      BY <2>1, <2>2
    <2> QED
      BY <1>4, <2>3, RowsOfOne
  <1>6. /\ Pressure(File).ok <=> there # {} /\ readable
        /\ Pressure(File).ok => Pressure(File) = Rows(rows)
    <2> HIDE DEF rows, there
    <2> QED
      BY <1>2, <1>5 DEF Unsupported
  <1>7. ASSUME readable, NEW r \in there
        PROVE  /\ records[r].metric_type = r
               /\ FromALine(File[r].lines, "some", records[r].some)
               /\ IF Full(r) = {} THEN records[r].full = Absent
                  ELSE FromALine(File[r].lines, "full", records[r].full)
    <2>1. /\ File[r].lines \in Seq(FileLine)
          /\ \A l \in DOMAIN File[r].lines : File[r].lines[l].bad \intersect 1..4 = {}
          /\ {l \in DOMAIN File[r].lines : File[r].lines[l].of = "some"} # {}
      BY <1>1, <1>7 DEF Legible
    <2>2. FromALine(File[r].lines, "some", Stall(File[r].lines, "some"))
      BY <2>1, StallIsOfOneLine
    <2>3. IF Full(r) = {} THEN Stall(File[r].lines, "full") = Absent
          ELSE FromALine(File[r].lines, "full", Stall(File[r].lines, "full"))
      BY <2>1, StallIsOfOneLine
    <2>4. records[r] = [metric_type |-> r, some |-> Stall(File[r].lines, "some"),
                        full |-> Stall(File[r].lines, "full")]
      OBVIOUS
    <2> HIDE DEF Full, records
    <2> QED
      BY <2>2, <2>3, <2>4
  <1> DEFINE stats == Pressure(File).stats
  <1>8. ASSUME Pressure(File).ok
        PROVE  /\ {stats[i].metric_type : i \in DOMAIN stats} = there
               /\ \A i, j \in DOMAIN stats : i < j => stats[i].metric_type < stats[j].metric_type
               /\ \A i \in DOMAIN stats :
                   LET r == stats[i].metric_type
                   IN  /\ FromALine(File[r].lines, "some", stats[i].some)
                       /\ IF Full(r) = {} THEN stats[i].full = Absent
                          ELSE FromALine(File[r].lines, "full", stats[i].full)
    <2> HIDE DEF rows, records, there, readable, Full
    <2>1. PICK of : InOrder(Rows(rows).stats, there, records, of)
      BY <1>4, <1>5, <1>6, <1>8, RowsOfOne
    <2>2. /\ stats \in Seq({records[l] : l \in there})
          /\ of \in [1..Len(stats) -> there]
          /\ \A j \in 1..Len(stats) : stats[j] = records[of[j]]
          /\ \A l \in there : \E j \in 1..Len(stats) : of[j] = l
          /\ \A j, h \in 1..Len(stats) : j < h => of[j] < of[h]
      BY <1>6, <1>8, <2>1 DEF InOrder
    <2> HIDE DEF stats
    <2>3. DOMAIN stats = 1..Len(stats)
      BY <2>2
    <2>4. ASSUME NEW i \in DOMAIN stats
          PROVE  /\ of[i] \in there /\ stats[i] = records[of[i]]
                 /\ stats[i].metric_type = of[i]
      BY <1>6, <1>7, <1>8, <2>2, <2>3
    <2>5. {stats[i].metric_type : i \in DOMAIN stats} = there
      <3>1. \A i \in DOMAIN stats : stats[i].metric_type \in there
        BY <2>4
      <3>2. ASSUME NEW r \in there
            PROVE  \E i \in DOMAIN stats : stats[i].metric_type = r
        <4>1. PICK i \in DOMAIN stats : of[i] = r
          BY <2>2, <2>3
        <4> QED
          BY <2>4, <4>1
      <3> QED
        BY <3>1, <3>2
    <2>6. ASSUME NEW i \in DOMAIN stats
          PROVE  LET r == stats[i].metric_type
                 IN  /\ FromALine(File[r].lines, "some", stats[i].some)
                     /\ IF Full(r) = {} THEN stats[i].full = Absent
                        ELSE FromALine(File[r].lines, "full", stats[i].full)
      BY <1>6, <1>7, <1>8, <2>4
    <2>7. ASSUME NEW i \in DOMAIN stats, NEW j \in DOMAIN stats, i < j
          PROVE  stats[i].metric_type < stats[j].metric_type
      <3>1. of[i] < of[j]
        BY <2>2, <2>3, <2>7
      <3> QED
        BY <2>4, <3>1
    <2> QED
      BY <2>5, <2>6, <2>7
  <1> QED
    BY <1>6, <1>8

\* A record of several lines or files has each value from a line about it, of its
\* own file; what cannot be read makes the sample fail.  For any files.
THEOREM SummariesAreMeasuredThm == Spec => []SummariesAreMeasured
  <1>1. JobInv => SummariesAreMeasured
    <2> SUFFICES ASSUME JobInv, parsed
                 PROVE  SummariesAreMeasured
      BY DEF SummariesAreMeasured
    <2>1. out = Parse(Collector, File) /\ File \in Files(Collector)
      <3>1. Collector # "none"
        BY DEF JobInv, FileCollector, Columned, Paired, Keyed
      <3> QED
        BY <3>1 DEF JobInv
    <2>2. CASE Collector = "stat" \/ Collector = "processes"
      <3> DEFINE keys == IF Collector = "stat" THEN StatKeys ELSE ProcessKeys
      <3>1. out = Counted(File, keys)
        BY <2>1, <2>2, ParseIs DEF Stat, Processes
      <3>2. File \in Seq(FileLine)
        BY <2>1, <2>2, FilesAreLines DEF Keyed
      <3>3. \A l, m \in DOMAIN File : File[l].of = File[m].of /\ File[l].of \in keys => l = m
        <4>1. File \in Files("stat") \union Files("processes")
          BY <2>1, <2>2
        <4>2. keys \subseteq StatKeys \union ProcessKeys
          OBVIOUS
        <4> HIDE DEF keys
        <4> QED
          BY <4>1, <4>2, FilesAssumption
      <3>4. IsFiniteSet(keys)
        BY KeysAreFinite
      <3>5. /\ out.ok <=> \A key \in keys : Measurements(key, 1) # {}
            /\ out.ok => \A key \in keys : out.stats[1][key] \in Measurements(key, 1)
        <4> HIDE DEF keys
        <4> QED
          BY <3>1, <3>2, <3>3, <3>4, CountedIsMeasured
      <3> QED
        BY <2>2, <3>5 DEF SummariesAreMeasured
    <2>3. CASE Collector = "ram"
      <3>1. File \in Seq(FileLine)
        BY <2>1, <2>3, FilesAreLines DEF Keyed
      <3>2. out = Ram(File)
        BY <2>1, <2>3, ParseIs
      <3> QED
        BY <2>3, <3>1, <3>2, RamIsMeasured DEF SummariesAreMeasured
    <2>4. CASE Collector = "pressure"
      <3>1. out = Pressure(File) /\ File \in [1..3 -> FileOf(FileLine)]
        BY <2>1, <2>4, ParseIs, FilesAssumption
      <3> QED
        BY <2>4, <3>1, PressureIsMeasured DEF SummariesAreMeasured, Legible
    <2> QED
      BY <2>2, <2>3, <2>4 DEF SummariesAreMeasured
  <1> QED
    BY JobInvariant, <1>1, PTL

-----------------------------------------------------------------------------
(* Tables: a sample has a record for each line, of its columns *)

\* The lines that are measured, and the record of one.
Measured == {l \in Subjects : Complete(l) /\ Clean(l)}

Placed(l) ==
    [k \in DOMAIN Places(File[l].n) |-> Text(File, l, Places(File[l].n)[k])]

RecordOf(l) ==
    [label |-> IF Collector = "softnet" THEN ToString(l - 1) ELSE File[l].of,
     line |-> l, values |-> Placed(l)]

Records == [l \in Measured |-> RecordOf(l)]

\* Files that say nothing, and may not.
MustSay == {"cpu", "ipvs", "load_average", "filefd", "uptime"}

\* What both properties say of a table.
TableAsItIs(result) ==
    /\ result.ok <=> /\ \A l \in Subjects : Tolerated(l)
                     /\ Subjects = {} => Collector \notin MustSay
    /\ result.ok => \E of : InOrder(result.stats, Measured, Records, of)

\* What is read of one line: nothing of one that is not measured.
LineAsItIs(l, row) ==
    /\ row.ok <=> (l \in Subjects => Tolerated(l))
    /\ row.ok => row.stats = IF l \in Measured THEN <<RecordOf(l)>> ELSE <<>>

LEMMA SubjectsAreLines == Subjects \subseteq DOMAIN File
  BY DEF Subjects

\* A parser that goes through the lines.
LEMMA TableOfLines ==
    ASSUME File \in Seq(FileLine), NEW rows, DOMAIN rows = DOMAIN File,
           \A l \in DOMAIN File : LineAsItIs(l, rows[l])
    PROVE  /\ Rows(rows).ok <=> \A l \in Subjects : Tolerated(l)
           /\ Rows(rows).ok => \E of : InOrder(Rows(rows).stats, Measured, Records, of)
  <1>1. Measured \subseteq DOMAIN File /\ DOMAIN File = 1..Len(File) /\ Len(File) \in Nat
    BY SubjectsAreLines DEF Measured
  <1>2. \A l \in Measured : Records[l] = RecordOf(l)
    BY DEF Records
  <1>3. OneEach(Len(File), rows, Measured, Records)
    BY <1>1, <1>2 DEF OneEach, LineAsItIs
  <1>4. (\A l \in 1..Len(File) : rows[l].ok) <=> \A l \in Subjects : Tolerated(l)
    BY <1>1, SubjectsAreLines DEF LineAsItIs
  <1> QED
    BY <1>3, <1>4, RowsOfOne

\* A parser of one line.
LEMMA TableOfOneLine ==
    ASSUME File \in Seq(FileLine), NEW l \in {1, 3}, Collector \in MustSay,
           Subjects = DOMAIN File \intersect {l},
           Tolerated(l) <=> Clean(l) /\ Complete(l),
           NEW result, Len(File) < l => ~result.ok,
           l \in DOMAIN File => LineAsItIs(l, result)
    PROVE  TableAsItIs(result)
  <1>1. DOMAIN File = 1..Len(File) /\ Len(File) \in Nat
    OBVIOUS
  <1>2. CASE Len(File) < l
    BY <1>1, <1>2 DEF TableAsItIs
  <1>3. CASE Len(File) >= l
    <2>1. l \in DOMAIN File /\ Subjects = {l}
      BY <1>1, <1>3
    <2>2. result.ok <=> Tolerated(l)
      BY <2>1 DEF LineAsItIs
    <2>3. ASSUME result.ok
          PROVE  InOrder(result.stats, Measured, Records, <<l>>)
      <3>1. Measured = {l} /\ result.stats = <<RecordOf(l)>> /\ Records[l] = RecordOf(l)
        BY <2>1, <2>2, <2>3 DEF LineAsItIs, Measured, Records
      <3> HIDE DEF Measured, Records
      <3>2. /\ Len(result.stats) = 1 /\ DOMAIN result.stats = 1..1
            /\ result.stats[1] = Records[l] /\ <<l>> \in [1..1 -> {l}] /\ <<l>>[1] = l
        BY <3>1
      <3>3. \A j, h \in 1..1 : ~(j < h)
        OBVIOUS
      <3>4. \A j \in 1..1 : j = 1
        OBVIOUS
      <3> QED
        BY <3>1, <3>2, <3>3, <3>4 DEF InOrder
    <2> QED
      BY <2>1, <2>2, <2>3 DEF TableAsItIs
  <1> QED
    BY <1>1, <1>2, <1>3

\* The two properties.
LEMMA TableIsFaithful ==
    ASSUME Collector \in Columned, File \in Seq(FileLine), TableAsItIs(out)
    PROVE  RecordsAreTheirLines /\ NothingLeftOut
  <1>1. Collector \notin Paired
    BY DEF Columned, Paired
  <1>2. ASSUME NEW of, InOrder(out.stats, Measured, Records, of)
        PROVE  /\ \A i \in DOMAIN out.stats :
                      LET r == out.stats[i]
                      IN  /\ r.values = [k \in DOMAIN Places(File[r.line].n) |->
                                           Text(File, r.line, Places(File[r.line].n)[k])]
                          /\ \/ r.label = File[r.line].of
                             \/ /\ Collector = "softnet"
                                /\ \E l \in DOMAIN File : File[l].of # ToString(l - 1)
               /\ {out.stats[i].line : i \in DOMAIN out.stats} = Measured
               /\ \A i, j \in DOMAIN out.stats : i < j => out.stats[i].line < out.stats[j].line
    <2>1. DOMAIN out.stats = 1..Len(out.stats)
      BY <1>2 DEF InOrder
    <2>2. \A i \in DOMAIN out.stats : of[i] \in Measured /\ out.stats[i] = RecordOf(of[i])
      BY <1>2, <2>1 DEF InOrder, Records
    <2>3. \A i \in DOMAIN out.stats : out.stats[i].line = of[i]
      <3>1. \A l : RecordOf(l).line = l
        BY DEF RecordOf
      <3> QED
        BY <2>2, <3>1
    <2>4. ASSUME NEW i \in DOMAIN out.stats
          PROVE  LET r == out.stats[i]
                 IN  /\ r.values = [k \in DOMAIN Places(File[r.line].n) |->
                                       Text(File, r.line, Places(File[r.line].n)[k])]
                     /\ \/ r.label = File[r.line].of
                        \/ /\ Collector = "softnet"
                           /\ \E l \in DOMAIN File : File[l].of # ToString(l - 1)
      <3> DEFINE l == of[i]
      <3>1. l \in DOMAIN File /\ out.stats[i] = RecordOf(l)
        BY <2>2, SubjectsAreLines DEF Measured
      <3> HIDE DEF l
      <3>2. /\ out.stats[i].line = l
            /\ out.stats[i].values = Placed(l)
            /\ out.stats[i].label = IF Collector = "softnet" THEN ToString(l - 1) ELSE File[l].of
        BY <3>1 DEF RecordOf
      <3>3. \/ out.stats[i].label = File[l].of
            \/ Collector = "softnet" /\ \E h \in DOMAIN File : File[h].of # ToString(h - 1)
        BY <3>1, <3>2
      <3> QED
        BY <3>2, <3>3 DEF Placed
    <2>5. {out.stats[i].line : i \in DOMAIN out.stats} = Measured
      <3>1. \A l \in Measured : \E i \in DOMAIN out.stats : of[i] = l
        BY <1>2, <2>1 DEF InOrder
      <3> QED
        BY <2>2, <2>3, <3>1
    <2>6. \A i, j \in DOMAIN out.stats : i < j => out.stats[i].line < out.stats[j].line
      BY <1>2, <2>1, <2>3 DEF InOrder
    <2> QED
      BY <2>4, <2>5, <2>6
  <1> QED
    BY <1>1, <1>2
       DEF TableAsItIs, Measured, MustSay, RecordsAreTheirLines, NothingLeftOut

\* What Columns reads.
LEMMA ColumnsAre ==
    ASSUME NEW file \in Seq(FileLine), NEW l \in DOMAIN file, NEW need \in Nat, NEW most \in Nat
    PROVE  /\ Columns(file, l, need, most).ok
                  <=> need <= file[l].n /\ file[l].bad \intersect 1..most = {}
           /\ Columns(file, l, need, most).ok =>
                  Columns(file, l, need, most).stats
                      = <<[label |-> file[l].of, line |-> l,
                           values |-> [c \in 1..most |-> Text(file, l, c)]]>>
  <1> DEFINE values == [c \in 1..most |-> At(file, l, c)]
  <1>1. l \in Nat /\ l # 0 /\ file[l].n \in Nat /\ file[l].bad \subseteq 1..file[l].n
    <2>1. file[l] \in FileLine /\ l \in 1..Len(file)
      OBVIOUS
    <2> QED
      BY <2>1 DEF FileLine
  <1>2. \A c : At(file, l, c) = Bad <=> c \in file[l].bad
    BY <1>1 DEF At, Text, Bad, Absent
  <1>3. Bad \in Range(values) <=> file[l].bad \intersect 1..most # {}
    BY <1>2 DEF Range
  <1>4. Columns(file, l, need, most)
            = IF file[l].n < need \/ Bad \in Range(values) THEN Fail
              ELSE Done(Record(file[l].of, l, values))
    BY DEF Columns
  <1>5. CASE file[l].n < need \/ Bad \in Range(values)
    BY <1>1, <1>3, <1>4, <1>5 DEF Fail
  <1>6. CASE ~(file[l].n < need \/ Bad \in Range(values))
    <2>1. Columns(file, l, need, most) = Done(Record(file[l].of, l, values))
      BY <1>4, <1>6
    <2>2. values = [c \in 1..most |-> Text(file, l, c)]
      <3>1. \A c \in 1..most : At(file, l, c) = Text(file, l, c)
        BY <1>3, <1>6 DEF At
      <3> QED
        BY <3>1
    <2> HIDE DEF values
    <2> QED
      BY <1>1, <1>3, <1>6, <2>1, <2>2 DEF Done, Record
  <1> QED
    BY <1>5, <1>6

\* Collectors that take the first columns of a line as they are.
LEMMA FirstColumns ==
    ASSUME File \in Seq(FileLine), NEW l \in DOMAIN File, NEW most \in Nat, NEW need \in Nat,
           Places(File[l].n) = [i \in 1..most |-> i], Needed(File[l].n) = 1..need,
           Collector \notin {"arp", "systemd", "network", "filefd", "softnet"}
    PROVE  /\ Complete(l) <=> need <= File[l].n
           /\ Clean(l) <=> File[l].bad \intersect 1..most = {}
           /\ RecordOf(l) = [label |-> File[l].of, line |-> l,
                             values |-> [c \in 1..most |-> Text(File, l, c)]]
  <1>1. File[l].n \in Nat
    <2>1. File[l] \in FileLine
      OBVIOUS
    <2> QED
      BY <2>1 DEF FileLine
  <1>2. Complete(l) <=> need <= File[l].n
    BY <1>1 DEF Complete
  <1>3. Range(Places(File[l].n)) = 1..most
    BY DEF Range
  <1>4. Clean(l) <=> File[l].bad \intersect 1..most = {}
    BY <1>3 DEF Clean, Examined
  <1>5. Placed(l) = [c \in 1..most |-> Text(File, l, c)]
    BY DEF Placed
  <1> QED
    BY <1>2, <1>4, <1>5 DEF RecordOf

\* Such a line, read by Columns.
LEMMA ColumnsOfLine ==
    ASSUME File \in Seq(FileLine), NEW l \in DOMAIN File, NEW most \in Nat, NEW need \in Nat,
           Places(File[l].n) = [i \in 1..most |-> i], Needed(File[l].n) = 1..need,
           Collector \notin {"arp", "systemd", "network", "filefd", "softnet"},
           l \in Subjects, Tolerated(l) <=> Clean(l) /\ Complete(l)
    PROVE  LineAsItIs(l, Columns(File, l, need, most))
  <1> DEFINE row == Columns(File, l, need, most)
  <1>1. /\ Complete(l) <=> need <= File[l].n
        /\ Clean(l) <=> File[l].bad \intersect 1..most = {}
        /\ RecordOf(l) = [label |-> File[l].of, line |-> l,
                          values |-> [c \in 1..most |-> Text(File, l, c)]]
    BY FirstColumns
  <1>2. /\ row.ok <=> need <= File[l].n /\ File[l].bad \intersect 1..most = {}
        /\ row.ok => row.stats = <<[label |-> File[l].of, line |-> l,
                                   values |-> [c \in 1..most |-> Text(File, l, c)]]>>
    BY ColumnsAre
  <1> HIDE DEF row
  <1>3. row.ok <=> Clean(l) /\ Complete(l)
    BY <1>1, <1>2
  <1>4. row.ok => l \in Measured /\ row.stats = <<RecordOf(l)>>
    BY <1>1, <1>2, <1>3 DEF Measured
  <1>5. LineAsItIs(l, row)
    BY <1>3, <1>4 DEF LineAsItIs
  <1> QED
    BY <1>5 DEF row

\* A line that the loop does not look at.
LEMMA SkippedLine ==
    ASSUME NEW l, l \notin Measured, l \in Subjects => Tolerated(l)
    PROVE  LineAsItIs(l, Skip)
  BY DEF LineAsItIs, Skip, Done

LEMMA CpuIsFaithful ==
    ASSUME Collector = "cpu", File \in Files("cpu"), File \in Seq(FileLine)
    PROVE  TableAsItIs(Cpu(File))
  <1> DEFINE row(l) == IF IsCpu(File[l]) /\ Reaches(File, l) THEN Columns(File, l, 7, 10) ELSE Skip
             rows == [l \in DOMAIN File |-> row(l)]
  <1>1. /\ Subjects = {l \in DOMAIN File : IsCpu(File[l])}
        /\ \A n : Places(n) = [i \in 1..10 |-> i] /\ Needed(n) = 1..7
        /\ \A l : Tolerated(l) <=> Clean(l) /\ Complete(l)
    BY DEF Subjects, Places, Needed, Tolerated, IsCpu
  <1>2. ASSUME NEW l \in Subjects
        PROVE  Reaches(File, l)
    <2>1. l \in DOMAIN File /\ IsCpu(File[l])
      BY <1>1
    <2>2. ASSUME NEW k \in 1..l, NEW j \in 1..k, IsCpu(File[j])
          PROVE  IsCpu(File[k])
      <3>1. j \in DOMAIN File /\ k \in j..l
        BY <2>1
      <3> QED
        BY <2>1, <2>2, <3>1, FilesAssumption
    <2> QED
      BY <2>2 DEF Reaches
  <1>3. ASSUME NEW l \in DOMAIN File
        PROVE  LineAsItIs(l, rows[l])
    <2>1. CASE l \in Subjects
      BY <1>1, <1>2, <2>1, ColumnsOfLine
    <2>2. CASE l \notin Subjects
      BY <1>1, <2>2, SkippedLine DEF Measured
    <2> QED
      BY <2>1, <2>2
  <1>4. DOMAIN rows = DOMAIN File
    OBVIOUS
  <1>5. Cpu(File) = IF Rows(rows).stats = <<>> THEN Fail ELSE Rows(rows)
    BY DEF Cpu
  <1> HIDE DEF rows
  <1>6. /\ Rows(rows).ok <=> \A l \in Subjects : Tolerated(l)
        /\ Rows(rows).ok => \E of : InOrder(Rows(rows).stats, Measured, Records, of)
    BY <1>3, <1>4, TableOfLines
  <1>7. ASSUME Rows(rows).ok
        PROVE  Rows(rows).stats = <<>> <=> Subjects = {}
    <2>1. PICK of : InOrder(Rows(rows).stats, Measured, Records, of)
      BY <1>6, <1>7
    <2>2. Measured = Subjects
      BY <1>1, <1>6, <1>7 DEF Measured
    <2>3. Measured = {} <=> Len(Rows(rows).stats) = 0
      BY <2>1 DEF InOrder
    <2>4. Rows(rows).stats = <<>> <=> Len(Rows(rows).stats) = 0
      BY <2>1 DEF InOrder
    <2> QED
      BY <2>2, <2>3, <2>4
  <1>8. ~Rows(rows).ok => Rows(rows).stats = <<>>
    BY DEF Rows, Fail, Done
  <1> QED
    BY <1>5, <1>6, <1>7, <1>8 DEF TableAsItIs, MustSay, Fail

LEMMA DiskIsFaithful ==
    ASSUME Collector = "disk", File \in Seq(FileLine)
    PROVE  TableAsItIs(Disk(File))
  <1> DEFINE rows == [l \in DOMAIN File |-> IF File[l].of = "other" THEN Skip
                                           ELSE Columns(File, l, 11, 11)]
  <1>1. /\ Subjects = {l \in DOMAIN File : File[l].of # "other"}
        /\ \A n : Places(n) = [i \in 1..11 |-> i]
        /\ \A l : Tolerated(l) <=> Clean(l) /\ Complete(l)
        /\ Collector \notin MustSay
    BY DEF Subjects, Places, Tolerated, MustSay
  <1>2. \A n : Needed(n) = 1..11
    BY <1>1 DEF Needed, Range
  <1>3. ASSUME NEW l \in DOMAIN File
        PROVE  LineAsItIs(l, rows[l])
    <2>1. CASE l \in Subjects
      BY <1>1, <1>2, <2>1, ColumnsOfLine
    <2>2. CASE l \notin Subjects
      BY <1>1, <2>2, SkippedLine DEF Measured
    <2> QED
      BY <2>1, <2>2
  <1>4. DOMAIN rows = DOMAIN File /\ Disk(File) = Rows(rows)
    BY DEF Disk
  <1> HIDE DEF rows
  <1> QED
    BY <1>1, <1>3, <1>4, TableOfLines DEF TableAsItIs

LEMMA IpvsIsFaithful ==
    ASSUME Collector = "ipvs", File \in Seq(FileLine)
    PROVE  TableAsItIs(Ipvs(File))
  <1>1. /\ Subjects = DOMAIN File \intersect {3}
        /\ \A n : Places(n) = [i \in 1..5 |-> i]
        /\ \A l : Tolerated(l) <=> Clean(l) /\ Complete(l)
        /\ Collector \in MustSay
    BY DEF Subjects, Places, Tolerated, MustSay
  <1>2. \A n : Needed(n) = 1..5
    BY <1>1 DEF Needed, Range
  <1>3. Ipvs(File) = IF Len(File) < 3 THEN Fail ELSE Columns(File, 3, 5, 5)
    BY DEF Ipvs, OneLine
  <1>4. Len(File) < 3 => ~Ipvs(File).ok
    BY <1>3 DEF Fail
  <1>5. ASSUME 3 \in DOMAIN File
        PROVE  LineAsItIs(3, Ipvs(File))
    <2>1. Ipvs(File) = Columns(File, 3, 5, 5)
      BY <1>3, <1>5
    <2>2. LineAsItIs(3, Columns(File, 3, 5, 5))
      BY <1>1, <1>2, <1>5, ColumnsOfLine
    <2> QED
      BY <2>1, <2>2
  <1> QED
    BY <1>1, <1>4, <1>5, TableOfOneLine

LEMMA LoadAverageIsFaithful ==
    ASSUME Collector = "load_average", File \in Seq(FileLine)
    PROVE  TableAsItIs(LoadAverage(File))
  <1>1. /\ Subjects = DOMAIN File \intersect {1}
        /\ \A n : Places(n) = [i \in 1..4 |-> i]
        /\ \A l : Tolerated(l) <=> Clean(l) /\ Complete(l)
        /\ Collector \in MustSay
    BY DEF Subjects, Places, Tolerated, MustSay
  <1>2. \A n : Needed(n) = 1..4
    BY <1>1 DEF Needed, Range
  <1>3. LoadAverage(File) = IF Len(File) < 1 THEN Fail ELSE Columns(File, 1, 4, 4)
    BY DEF LoadAverage, OneLine
  <1>4. Len(File) < 1 => ~LoadAverage(File).ok
    BY <1>3 DEF Fail
  <1>5. ASSUME 1 \in DOMAIN File
        PROVE  LineAsItIs(1, LoadAverage(File))
    <2>1. LoadAverage(File) = Columns(File, 1, 4, 4)
      BY <1>3, <1>5
    <2>2. LineAsItIs(1, Columns(File, 1, 4, 4))
      BY <1>1, <1>2, <1>5, ColumnsOfLine
    <2> QED
      BY <2>1, <2>2
  <1> QED
    BY <1>1, <1>4, <1>5, TableOfOneLine

LEMMA UptimeIsFaithful ==
    ASSUME Collector = "uptime", File \in Seq(FileLine)
    PROVE  TableAsItIs(Uptime(File))
  <1>1. /\ Subjects = DOMAIN File \intersect {1}
        /\ \A n : Places(n) = [i \in 1..2 |-> i]
        /\ \A l : Tolerated(l) <=> Clean(l) /\ Complete(l)
        /\ Collector \in MustSay
    BY DEF Subjects, Places, Tolerated, MustSay
  <1>2. \A n : Needed(n) = 1..2
    BY <1>1 DEF Needed, Range
  <1>3. Uptime(File) = IF Len(File) < 1 THEN Fail ELSE Columns(File, 1, 2, 2)
    BY DEF Uptime, OneLine
  <1>4. Len(File) < 1 => ~Uptime(File).ok
    BY <1>3 DEF Fail
  <1>5. ASSUME 1 \in DOMAIN File
        PROVE  LineAsItIs(1, Uptime(File))
    <2>1. Uptime(File) = Columns(File, 1, 2, 2)
      BY <1>3, <1>5
    <2>2. LineAsItIs(1, Columns(File, 1, 2, 2))
      BY <1>1, <1>2, <1>5, ColumnsOfLine
    <2> QED
      BY <2>1, <2>2
  <1> QED
    BY <1>1, <1>4, <1>5, TableOfOneLine

LEMMA VmstatIsFaithful ==
    ASSUME Collector = "vmstat", File \in Seq(FileLine)
    PROVE  TableAsItIs(Vmstat(File))
  <1> DEFINE rows == [l \in DOMAIN File |-> IF At(File, l, 1) \in {Absent, Bad} THEN Skip
                                           ELSE Columns(File, l, 1, 1)]
  <1>1. /\ Subjects = DOMAIN File
        /\ \A n : Places(n) = [i \in 1..1 |-> i]
        /\ \A l : Tolerated(l)
        /\ Collector \notin MustSay
    BY DEF Subjects, Places, Tolerated, MustSay
  <1>2. \A n : Needed(n) = 1..1
    BY <1>1 DEF Needed, Range
  <1>3. ASSUME NEW l \in DOMAIN File
        PROVE  LineAsItIs(l, rows[l])
    <2> DEFINE row == Columns(File, l, 1, 1)
    <2>1. /\ Complete(l) <=> 1 <= File[l].n
          /\ Clean(l) <=> File[l].bad \intersect 1..1 = {}
          /\ RecordOf(l) = [label |-> File[l].of, line |-> l,
                            values |-> [c \in 1..1 |-> Text(File, l, c)]]
      BY <1>1, <1>2, FirstColumns
    <2>2. /\ row.ok <=> 1 <= File[l].n /\ File[l].bad \intersect 1..1 = {}
          /\ row.ok => row.stats = <<[label |-> File[l].of, line |-> l,
                                     values |-> [c \in 1..1 |-> Text(File, l, c)]]>>
      BY ColumnsAre
    <2>3. At(File, l, 1) \notin {Absent, Bad} <=> Complete(l) /\ Clean(l)
      <3>1. l \in Nat /\ l # 0 /\ File[l].n \in Nat
        <4>1. File[l] \in FileLine /\ l \in 1..Len(File)
          OBVIOUS
        <4> QED
          BY <4>1 DEF FileLine
      <3> QED
        BY <2>1, <3>1 DEF At, Text, Absent, Bad
    <2> HIDE DEF row
    <2>4. CASE l \in Measured
      <3>1. rows[l] = row
        BY <2>3, <2>4 DEF Measured, row
      <3>2. row.ok /\ row.stats = <<RecordOf(l)>>
        BY <2>1, <2>2, <2>4 DEF Measured
      <3> QED
        BY <1>1, <2>4, <3>1, <3>2 DEF LineAsItIs
    <2>5. CASE l \notin Measured
      <3>1. rows[l] = Skip
        BY <1>1, <2>3, <2>5 DEF Measured
      <3> QED
        BY <1>1, <2>5, <3>1, SkippedLine
    <2> QED
      BY <2>4, <2>5
  <1>4. DOMAIN rows = DOMAIN File /\ Vmstat(File) = Rows(rows)
    BY DEF Vmstat
  <1> HIDE DEF rows
  <1> QED
    BY <1>1, <1>3, <1>4, TableOfLines DEF TableAsItIs

LEMMA ArpIsFaithful ==
    ASSUME Collector = "arp", File \in Seq(FileLine)
    PROVE  TableAsItIs(Arp(File))
  <1> DEFINE record(l) == [label |-> File[l].of, line |-> l,
                           values |-> [c \in 1..5 |-> Text(File, l, c)]]
             rows == [l \in DOMAIN File |->
                         IF l = 1 \/ File[l].n < 5 THEN Skip
                         ELSE Done(Record(File[l].of, l, [c \in 1..5 |-> Text(File, l, c)]))]
  <1>1. /\ Subjects = DOMAIN File \ {1}
        /\ \A n : Places(n) = [i \in 1..5 |-> i]
        /\ \A l : Tolerated(l) /\ Clean(l)
        /\ Collector \notin MustSay
    BY DEF Subjects, Places, Tolerated, Clean, Examined, MustSay
  <1>2. \A n : Needed(n) = 1..5
    BY <1>1 DEF Needed, Range
  <1>3. ASSUME NEW l \in DOMAIN File
        PROVE  LineAsItIs(l, rows[l])
    <2>1. File[l].n \in Nat
      <3>1. File[l] \in FileLine
        OBVIOUS
      <3> QED
        BY <3>1 DEF FileLine
    <2>2. Complete(l) <=> ~(File[l].n < 5)
      <3>1. Complete(l) <=> 1..5 \subseteq 1..File[l].n
        BY <1>2 DEF Complete
      <3> QED
        BY <2>1, <3>1
    <2>3. RecordOf(l) = record(l)
      BY <1>1 DEF RecordOf, Placed
    <2>4. CASE l \in Measured
      <3>1. rows[l].ok /\ rows[l].stats = <<record(l)>>
        BY <1>1, <2>2, <2>4 DEF Measured, Done, Record
      <3> QED
        BY <1>1, <2>3, <2>4, <3>1 DEF LineAsItIs
    <2>5. CASE l \notin Measured
      <3>1. rows[l] = Skip
        BY <1>1, <2>2, <2>5 DEF Measured
      <3> QED
        BY <1>1, <2>5, <3>1, SkippedLine
    <2> QED
      BY <2>4, <2>5
  <1>4. DOMAIN rows = DOMAIN File /\ Arp(File) = Rows(rows)
    BY DEF Arp
  <1> HIDE DEF rows
  <1> QED
    BY <1>1, <1>3, <1>4, TableOfLines DEF TableAsItIs

LEMMA UnitsIsFaithful ==
    ASSUME Collector = "systemd", File \in Seq(FileLine)
    PROVE  TableAsItIs(Units(File))
  <1> DEFINE record(l) == [label |-> File[l].of, line |-> l,
                           values |-> [c \in 1..4 |-> Text(File, l, c)]]
             rows == [l \in DOMAIN File |->
                         IF File[l].n < 3 THEN Skip
                         ELSE Done(Record(File[l].of, l, [c \in 1..4 |-> Text(File, l, c)]))]
  <1>1. /\ Subjects = DOMAIN File
        /\ \A n : Places(n) = [i \in 1..4 |-> i] /\ Needed(n) = 1..3
        /\ \A l : Tolerated(l) /\ Clean(l)
        /\ Collector \notin MustSay
    BY DEF Subjects, Places, Needed, Tolerated, Clean, Examined, MustSay
  <1>3. ASSUME NEW l \in DOMAIN File
        PROVE  LineAsItIs(l, rows[l])
    <2>1. File[l].n \in Nat
      <3>1. File[l] \in FileLine
        OBVIOUS
      <3> QED
        BY <3>1 DEF FileLine
    <2>2. Complete(l) <=> ~(File[l].n < 3)
      <3>1. Complete(l) <=> 1..3 \subseteq 1..File[l].n
        BY <1>1 DEF Complete
      <3> QED
        BY <2>1, <3>1
    <2>3. RecordOf(l) = record(l)
      BY <1>1 DEF RecordOf, Placed
    <2>4. CASE l \in Measured
      <3>1. rows[l].ok /\ rows[l].stats = <<record(l)>>
        BY <1>1, <2>2, <2>4 DEF Measured, Done, Record
      <3> QED
        BY <1>1, <2>3, <2>4, <3>1 DEF LineAsItIs
    <2>5. CASE l \notin Measured
      <3>1. rows[l] = Skip
        BY <1>1, <2>2, <2>5 DEF Measured
      <3> QED
        BY <1>1, <2>5, <3>1, SkippedLine
    <2> QED
      BY <2>4, <2>5
  <1>4. DOMAIN rows = DOMAIN File /\ Units(File) = Rows(rows)
    BY DEF Units
  <1> HIDE DEF rows
  <1> QED
    BY <1>1, <1>3, <1>4, TableOfLines DEF TableAsItIs

\* Some of the columns that were read are kept.
LEMMA KeptOfLine ==
    ASSUME File \in Seq(FileLine), NEW l \in DOMAIN File, NEW need \in Nat, NEW columns,
           \A i \in DOMAIN columns : columns[i] \in 1..need,
           Places(File[l].n) = columns, Needed(File[l].n) = 1..need,
           Collector \in {"network", "filefd"},
           l \in Subjects, Tolerated(l) <=> Clean(l) /\ Complete(l)
    PROVE  LineAsItIs(l, Kept(Columns(File, l, need, need), columns))
  <1> DEFINE read == Columns(File, l, need, need)
             texts == [c \in 1..need |-> Text(File, l, c)]
             row == Kept(read, columns)
  <1>1. File[l].n \in Nat
    <2>1. File[l] \in FileLine
      OBVIOUS
    <2> QED
      BY <2>1 DEF FileLine
  <1>2. /\ Complete(l) <=> need <= File[l].n
        /\ Clean(l) <=> File[l].bad \intersect 1..need = {}
    BY <1>1 DEF Complete, Clean, Examined
  <1>3. RecordOf(l) = [label |-> File[l].of, line |-> l,
                       values |-> [i \in DOMAIN columns |-> texts[columns[i]]]]
    <2>1. Placed(l) = [i \in DOMAIN columns |-> texts[columns[i]]]
      <3>1. Placed(l) = [i \in DOMAIN columns |-> Text(File, l, columns[i])]
        BY DEF Placed
      <3>2. \A i \in DOMAIN columns : texts[columns[i]] = Text(File, l, columns[i])
        OBVIOUS
      <3> QED
        BY <3>1, <3>2
    <2> QED
      BY <2>1 DEF RecordOf
  <1>4. /\ read.ok <=> need <= File[l].n /\ File[l].bad \intersect 1..need = {}
        /\ read.ok => read.stats = <<[label |-> File[l].of, line |-> l, values |-> texts]>>
    BY ColumnsAre
  <1> HIDE DEF read, texts
  <1>5. CASE read.ok
    <2>1. read.stats[1] = [label |-> File[l].of, line |-> l, values |-> texts]
      BY <1>4, <1>5
    <2>2. row = Done(<<[read.stats[1] EXCEPT !.values
                            = [i \in DOMAIN columns |-> read.stats[1].values[columns[i]]]]>>)
      BY <1>5 DEF Kept
    <2>3. row = Done(<<RecordOf(l)>>)
      <3> DEFINE r == read.stats[1]
                 kept == [i \in DOMAIN columns |-> r.values[columns[i]]]
      <3>1. r.values = texts
        BY <2>1
      <3>2. RecordOf(l) = [label |-> File[l].of, line |-> l, values |-> kept]
        BY <1>3, <3>1
      <3>3. row = Done(<<[r EXCEPT !.values = kept]>>)
        BY <2>2
      <3>4. r = [label |-> File[l].of, line |-> l, values |-> texts]
        BY <2>1
      <3> HIDE DEF r, kept, row
      <3>5. [r EXCEPT !.values = kept] = [label |-> File[l].of, line |-> l, values |-> kept]
        BY <3>4
      <3> QED
        BY <3>2, <3>3, <3>5
    <2>4. l \in Measured
      BY <1>2, <1>4, <1>5 DEF Measured
    <2>5. row.ok /\ row.stats = <<RecordOf(l)>>
      BY <2>3 DEF Done
    <2> HIDE DEF row
    <2>6. LineAsItIs(l, row)
      BY <1>2, <1>4, <1>5, <2>4, <2>5 DEF LineAsItIs
    <2> QED
      BY <2>6 DEF row, read
  <1>6. CASE ~read.ok
    <2>1. ~row.ok
      BY <1>6 DEF Kept, Fail
    <2> HIDE DEF row
    <2>2. LineAsItIs(l, row)
      BY <1>2, <1>4, <1>6, <2>1 DEF LineAsItIs
    <2> QED
      BY <2>2 DEF row, read
  <1> QED
    BY <1>5, <1>6

LEMMA NetworkIsFaithful ==
    ASSUME Collector = "network", File \in Seq(FileLine)
    PROVE  TableAsItIs(Network(File))
  <1> DEFINE columns == <<1, 2, 3, 4, 9, 10, 11, 12>>
             rows == [l \in DOMAIN File |->
                         IF l <= 2 \/ File[l].of = "other" THEN Skip
                         ELSE Kept(Columns(File, l, 12, 12), columns)]
  <1>1. /\ Subjects = {l \in DOMAIN File : l > 2 /\ File[l].of # "other"}
        /\ \A n : Needed(n) = 1..12
        /\ \A l : Tolerated(l) <=> Clean(l) /\ Complete(l)
        /\ Collector \notin MustSay
    BY DEF Subjects, Needed, Tolerated, MustSay
  <1>2. \A n : Places(n) = columns
    <2>1. \A n : Places(n) = [i \in 1..4 |-> i] \o [i \in 1..4 |-> i + 8]
      BY DEF Places
    <2>2. [i \in 1..4 |-> i] = <<1, 2, 3, 4>> /\ [i \in 1..4 |-> i + 8] = <<9, 10, 11, 12>>
      OBVIOUS
    <2>3. <<1, 2, 3, 4>> \o <<9, 10, 11, 12>> = columns
      <3> DEFINE s == <<1, 2, 3, 4>>
                 t == <<9, 10, 11, 12>>
      <3>1. s \in Seq(Nat) /\ t \in Seq(Nat) /\ Len(s) = 4 /\ Len(t) = 4
        OBVIOUS
      <3>2. columns \in Seq(Nat) /\ Len(columns) = 8
        OBVIOUS
      <3>3. /\ \A i \in 1..4 : columns[i] = s[i]
            /\ \A i \in 5..8 : columns[i] = t[i - 4]
        OBVIOUS
      <3> HIDE DEF s, t, columns
      <3>4. /\ s \o t \in Seq(Nat) /\ Len(s \o t) = Len(s) + Len(t)
            /\ \A i \in 1..Len(s) + Len(t) :
                   (s \o t)[i] = IF i <= Len(s) THEN s[i] ELSE t[i - Len(s)]
        <4>1. s \in Seq(Nat) /\ t \in Seq(Nat)
          BY <3>1
        <4> QED
          BY <4>1, ConcatProperties, Zenon
      <3> DEFINE whole == s \o t
      <3>5. /\ whole \in Seq(Nat) /\ Len(whole) = 8
            /\ \A i \in 1..8 : whole[i] = columns[i]
        <4>1. whole \in Seq(Nat) /\ Len(whole) = 8
          BY <3>1, <3>4
        <4>2. \A i \in 1..8 : i \in 1..Len(s) + Len(t) /\ (i <= Len(s) <=> i \in 1..4)
          BY <3>1
        <4>3. ASSUME NEW i \in 1..8
              PROVE  whole[i] = columns[i]
          <5>1. whole[i] = IF i <= 4 THEN s[i] ELSE t[i - 4]
            BY <3>1, <3>4, <4>2
          <5>2. (i \in 1..4 /\ i <= 4) \/ (i \in 5..8 /\ ~(i <= 4))
            OBVIOUS
          <5> HIDE DEF whole
          <5> QED
            BY <3>3, <5>1, <5>2
        <4> QED
          BY <4>1, <4>3
      <3> HIDE DEF whole
      <3>6. whole = columns
        BY <3>2, <3>5, SeqEqual
      <3> QED
        BY <3>6 DEF whole, s, t
    <2> QED
      BY <2>1, <2>2, <2>3
  <1>3. \A i \in DOMAIN columns : columns[i] \in 1..12
    OBVIOUS
  <1> HIDE DEF columns
  <1>4. ASSUME NEW l \in DOMAIN File
        PROVE  LineAsItIs(l, rows[l])
    <2>1. l \in Nat /\ (l > 2 <=> ~(l <= 2))
      OBVIOUS
    <2>2. CASE l \in Subjects
      <3>1. rows[l] = Kept(Columns(File, l, 12, 12), columns)
        BY <1>1, <2>1, <2>2
      <3>2. LineAsItIs(l, Kept(Columns(File, l, 12, 12), columns))
        BY <1>1, <1>2, <1>3, <2>2, KeptOfLine
      <3> QED
        BY <3>1, <3>2
    <2>3. CASE l \notin Subjects
      <3>1. rows[l] = Skip
        BY <1>1, <2>1, <2>3
      <3> QED
        BY <2>3, <3>1, SkippedLine DEF Measured
    <2> QED
      BY <2>2, <2>3
  <1>5. DOMAIN rows = DOMAIN File /\ Network(File) = Rows(rows)
    BY DEF Network, columns
  <1> HIDE DEF rows
  <1> QED
    BY <1>1, <1>4, <1>5, TableOfLines DEF TableAsItIs

LEMMA FileFdIsFaithful ==
    ASSUME Collector = "filefd", File \in Seq(FileLine)
    PROVE  TableAsItIs(FileFd(File))
  <1> DEFINE columns == <<1, 3>>
  <1>1. /\ Subjects = DOMAIN File \intersect {1}
        /\ \A n : Places(n) = columns /\ Needed(n) = 1..3
        /\ \A l : Tolerated(l) <=> Clean(l) /\ Complete(l)
        /\ Collector \in MustSay
    BY DEF Subjects, Places, Needed, Tolerated, MustSay
  <1>2. \A i \in DOMAIN columns : columns[i] \in 1..3
    OBVIOUS
  <1>3. FileFd(File) = Kept(IF Len(File) < 1 THEN Fail ELSE Columns(File, 1, 3, 3), columns)
    BY DEF FileFd, OneLine
  <1> HIDE DEF columns
  <1>4. Len(File) < 1 => ~FileFd(File).ok
    BY <1>3 DEF Kept, Fail
  <1>5. ASSUME 1 \in DOMAIN File
        PROVE  LineAsItIs(1, FileFd(File))
    <2>1. FileFd(File) = Kept(Columns(File, 1, 3, 3), columns)
      BY <1>3, <1>5
    <2>2. LineAsItIs(1, Kept(Columns(File, 1, 3, 3), columns))
      BY <1>1, <1>2, <1>5, KeptOfLine
    <2> QED
      BY <2>1, <2>2
  <1> QED
    BY <1>1, <1>4, <1>5, TableOfOneLine

\* Columns that are taken for numbers one by one.
LEMMA ReadIsBad ==
    ASSUME File \in Seq(FileLine), NEW l \in DOMAIN File, NEW columns
    PROVE  LET read == [i \in DOMAIN columns |-> At(File, l, columns[i])]
           IN  /\ Bad \in Range(read) <=> File[l].bad \intersect Range(columns) # {}
               /\ Bad \notin Range(read)
                      => read = [i \in DOMAIN columns |-> Text(File, l, columns[i])]
  <1> DEFINE read == [i \in DOMAIN columns |-> At(File, l, columns[i])]
  <1>1. l \in Nat /\ l # 0 /\ \A c : At(File, l, c) = Bad <=> c \in File[l].bad
    <2>1. l \in 1..Len(File)
      OBVIOUS
    <2> QED
      BY <2>1 DEF At, Text, Bad, Absent
  <1>2. Bad \in Range(read) <=> \E i \in DOMAIN columns : columns[i] \in File[l].bad
    BY <1>1 DEF Range
  <1>3. Bad \notin Range(read)
            => \A i \in DOMAIN columns : At(File, l, columns[i]) = Text(File, l, columns[i])
    BY <1>2 DEF At
  <1> QED
    BY <1>2, <1>3 DEF Range

LEMMA SoftnetIsFaithful ==
    ASSUME Collector = "softnet", File \in Seq(FileLine)
    PROVE  TableAsItIs(Softnet(File))
  <1> DEFINE columns == <<1, 2, 3, 10, 11>>
             read(l) == [i \in DOMAIN columns |-> At(File, l, columns[i])]
             row(l) == IF File[l].n < 3 THEN Skip
                       ELSE IF Bad \in Range(read(l)) THEN Fail
                       ELSE Done(Record(ToString(l - 1), l, read(l)))
             rows == [l \in DOMAIN File |-> row(l)]
  <1>1. /\ Subjects = DOMAIN File
        /\ \A n : Places(n) = columns /\ Needed(n) = 1..3
        /\ \A l : Tolerated(l) <=> ~Complete(l) \/ Clean(l)
        /\ \A l : Examined(l) = Range(Places(File[l].n))
        /\ Collector \notin MustSay
    BY DEF Subjects, Places, Needed, Tolerated, Examined, MustSay
  <1>2. Softnet(File) = Rows(rows)
    <2>1. \A l : [i \in 1..5 |-> At(File, l, IF i <= 3 THEN i ELSE i + 6)] = read(l)
      <3>1. \A i \in 1..5 : (IF i <= 3 THEN i ELSE i + 6) = columns[i]
        OBVIOUS
      <3>2. DOMAIN columns = 1..5
        OBVIOUS
      <3> HIDE DEF columns
      <3> QED
        BY <3>1, <3>2
    <2> HIDE DEF read
    <2>2. Softnet(File)
              = Rows([l \in DOMAIN File |->
                         IF File[l].n < 3 THEN Skip
                         ELSE IF Bad \in Range([i \in 1..5 |->
                                       At(File, l, IF i <= 3 THEN i ELSE i + 6)]) THEN Fail
                         ELSE Done(Record(ToString(l - 1), l,
                                  [i \in 1..5 |-> At(File, l, IF i <= 3 THEN i ELSE i + 6)]))])
      BY DEF Softnet
    <2> QED
      BY <2>1, <2>2
  <1> HIDE DEF columns
  <1>3. ASSUME NEW l \in DOMAIN File
        PROVE  LineAsItIs(l, row(l))
    <2>1. File[l].n \in Nat
      <3>1. File[l] \in FileLine
        OBVIOUS
      <3> QED
        BY <3>1 DEF FileLine
    <2>2. /\ Complete(l) <=> ~(File[l].n < 3)
          /\ Clean(l) <=> File[l].bad \intersect Range(columns) = {}
      <3>1. Complete(l) <=> 1..3 \subseteq 1..File[l].n
        BY <1>1 DEF Complete
      <3>2. Complete(l) <=> ~(File[l].n < 3)
        BY <2>1, <3>1
      <3>3. Examined(l) = Range(columns)
        BY <1>1
      <3> QED
        BY <3>2, <3>3 DEF Clean
    <2>3. /\ Bad \in Range(read(l)) <=> File[l].bad \intersect Range(columns) # {}
          /\ Bad \notin Range(read(l))
                 => read(l) = [i \in DOMAIN columns |-> Text(File, l, columns[i])]
      BY ReadIsBad
    <2>4. RecordOf(l) = [label |-> ToString(l - 1), line |-> l,
                         values |-> [i \in DOMAIN columns |-> Text(File, l, columns[i])]]
      BY <1>1 DEF RecordOf, Placed
    <2> HIDE DEF read
    <2>5. CASE l \in Measured
      <3>1. row(l) = Done(Record(ToString(l - 1), l, read(l)))
        BY <2>2, <2>3, <2>5 DEF Measured
      <3>2. Record(ToString(l - 1), l, read(l)) = <<RecordOf(l)>>
        BY <2>2, <2>3, <2>4, <2>5 DEF Measured, Record
      <3>3. row(l).ok /\ row(l).stats = <<RecordOf(l)>>
        BY <3>1, <3>2 DEF Done
      <3> QED
        BY <1>1, <2>5, <3>3 DEF LineAsItIs, Measured
    <2>6. CASE ~Complete(l)
      <3>1. row(l) = Skip
        BY <2>2, <2>6
      <3> QED
        BY <1>1, <2>6, <3>1, SkippedLine DEF Measured
    <2>7. CASE Complete(l) /\ ~Clean(l)
      <3>1. row(l) = Fail
        BY <2>2, <2>3, <2>7
      <3>2. ~row(l).ok
        BY <3>1 DEF Fail
      <3> QED
        BY <1>1, <2>7, <3>2 DEF LineAsItIs
    <2> QED
      BY <1>1, <2>5, <2>6, <2>7 DEF Measured
  <1>4. DOMAIN rows = DOMAIN File /\ \A l \in DOMAIN File : rows[l] = row(l)
    OBVIOUS
  <1> HIDE DEF rows, row
  <1> QED
    BY <1>1, <1>2, <1>3, <1>4, TableOfLines DEF TableAsItIs

LEMMA SchedstatIsFaithful ==
    ASSUME Collector = "schedstat", File \in Seq(FileLine)
    PROVE  TableAsItIs(Schedstat(File))
  <1> DEFINE columns(l) == <<File[l].n - 2, File[l].n - 1, File[l].n>>
             read(l) == [i \in DOMAIN columns(l) |-> At(File, l, columns(l)[i])]
             row(l) == IF ~IsCpu(File[l]) THEN Skip
                       ELSE IF File[l].n < 9 \/ Bad \in Range(read(l)) THEN Fail
                       ELSE Done(Record(File[l].of, l, read(l)))
             rows == [l \in DOMAIN File |-> row(l)]
  <1>1. /\ Subjects = {l \in DOMAIN File : IsCpu(File[l])}
        /\ \A l : Places(File[l].n) = columns(l)
        /\ \A n : Needed(n) = 1..9
        /\ \A l : Tolerated(l) <=> Clean(l) /\ Complete(l)
        /\ \A l : Examined(l) = Range(Places(File[l].n))
        /\ Collector \notin MustSay
    BY DEF Subjects, Places, Needed, Tolerated, Examined, MustSay, IsCpu
  <1>2. \A l \in DOMAIN File : File[l].n \in Nat
    <2>1. \A l \in DOMAIN File : File[l] \in FileLine
      OBVIOUS
    <2> QED
      BY <2>1 DEF FileLine
  <1>3. Schedstat(File) = Rows(rows)
    <2>1. \A l \in DOMAIN File : [i \in 1..3 |-> At(File, l, File[l].n - 3 + i)] = read(l)
      <3>1. ASSUME NEW l \in DOMAIN File
            PROVE  [i \in 1..3 |-> At(File, l, File[l].n - 3 + i)] = read(l)
        <4>1. \A i \in 1..3 : File[l].n - 3 + i = columns(l)[i]
          BY <1>2
        <4>2. DOMAIN columns(l) = 1..3
          OBVIOUS
        <4> HIDE DEF columns
        <4> QED
          BY <4>1, <4>2
      <3> QED
        BY <3>1
    <2> HIDE DEF read
    <2>2. Schedstat(File)
              = Rows([l \in DOMAIN File |->
                         IF ~IsCpu(File[l]) THEN Skip
                         ELSE IF File[l].n < 9
                                 \/ Bad \in Range([i \in 1..3 |-> At(File, l, File[l].n - 3 + i)])
                              THEN Fail
                         ELSE Done(Record(File[l].of, l,
                                  [i \in 1..3 |-> At(File, l, File[l].n - 3 + i)]))])
      BY DEF Schedstat
    <2> QED
      BY <2>1, <2>2
  <1>4. ASSUME NEW l \in DOMAIN File
        PROVE  LineAsItIs(l, row(l))
    <2> HIDE DEF columns
    <2>1. /\ Complete(l) <=> ~(File[l].n < 9)
          /\ Clean(l) <=> File[l].bad \intersect Range(columns(l)) = {}
      <3>1. Complete(l) <=> 1..9 \subseteq 1..File[l].n
        BY <1>1 DEF Complete
      <3>2. Complete(l) <=> ~(File[l].n < 9)
        BY <1>2, <3>1
      <3>3. Examined(l) = Range(columns(l))
        BY <1>1
      <3> QED
        BY <3>2, <3>3 DEF Clean
    <2>2. /\ Bad \in Range(read(l)) <=> File[l].bad \intersect Range(columns(l)) # {}
          /\ Bad \notin Range(read(l))
                 => read(l) = [i \in DOMAIN columns(l) |-> Text(File, l, columns(l)[i])]
      BY ReadIsBad
    <2>3. RecordOf(l) = [label |-> File[l].of, line |-> l,
                         values |-> [i \in DOMAIN columns(l) |-> Text(File, l, columns(l)[i])]]
      BY <1>1 DEF RecordOf, Placed
    <2> HIDE DEF read
    <2>4. CASE l \in Measured
      <3>1. row(l) = Done(Record(File[l].of, l, read(l)))
        BY <1>1, <2>1, <2>2, <2>4 DEF Measured
      <3>2. Record(File[l].of, l, read(l)) = <<RecordOf(l)>>
        BY <2>1, <2>2, <2>3, <2>4 DEF Measured, Record
      <3>3. row(l).ok /\ row(l).stats = <<RecordOf(l)>>
        BY <3>1, <3>2 DEF Done
      <3> QED
        BY <1>1, <2>4, <3>3 DEF LineAsItIs, Measured
    <2>5. CASE l \notin Subjects
      <3>1. row(l) = Skip
        BY <1>1, <2>5
      <3> QED
        BY <2>5, <3>1, SkippedLine DEF Measured
    <2>6. CASE l \in Subjects /\ ~(Clean(l) /\ Complete(l))
      <3>1. row(l) = Fail
        BY <1>1, <2>1, <2>2, <2>6
      <3>2. ~row(l).ok
        BY <3>1 DEF Fail
      <3> QED
        BY <1>1, <2>6, <3>2 DEF LineAsItIs
    <2> QED
      BY <2>4, <2>5, <2>6 DEF Measured
  <1>5. DOMAIN rows = DOMAIN File /\ \A l \in DOMAIN File : rows[l] = row(l)
    OBVIOUS
  <1> HIDE DEF rows, row
  <1> QED
    BY <1>1, <1>3, <1>4, <1>5, TableOfLines DEF TableAsItIs

-----------------------------------------------------------------------------
(* Pairs of a name and a value: several in a line *)

\* A sample has the records of each line, one for each number that is kept.
Gathered(stats, n, keep, records, of) ==
    /\ DOMAIN stats = 1..Len(stats)
    /\ \A j \in 1..Len(stats) :
           /\ of[j][1] \in 1..n /\ of[j][2] \in keep[of[j][1]]
           /\ stats[j] = records[of[j][1]][of[j][2]]
    /\ \A l \in 1..n : \A k \in keep[l] : \E j \in 1..Len(stats) : of[j] = <<l, k>>
    /\ \A j, h \in 1..Len(stats) :
           of[j][1] = of[h][1] /\ of[j][2] = of[h][2] => j = h

LEMMA RowsOfRows ==
    ASSUME NEW n \in Nat, NEW rows, DOMAIN rows = 1..n, NEW keep, NEW records,
           \A l \in 1..n : /\ rows[l].ok /\ keep[l] \subseteq Nat
                           /\ \E of : InOrder(rows[l].stats, keep[l], records[l], of)
    PROVE  Rows(rows).ok /\ \E of : Gathered(Rows(rows).stats, n, keep, records, of)
  <1> DEFINE inner == [l \in 1..n |-> CHOOSE of : InOrder(rows[l].stats, keep[l], records[l], of)]
             seqs == [l \in 1..n |-> rows[l].stats]
             flat == FlattenSeq(seqs)
             T == UNION {{records[l][k] : k \in keep[l]} : l \in 1..n}
  <1>1. Rows(rows).ok /\ Rows(rows).stats = flat
    <2>1. Rows(rows) = Done(FlattenSeq([i \in DOMAIN rows |-> rows[i].stats]))
      BY DEF Rows
    <2>2. [i \in DOMAIN rows |-> rows[i].stats] = seqs
      OBVIOUS
    <2> QED
      BY <2>1, <2>2 DEF Done
  <1>2. \A l \in 1..n : InOrder(seqs[l], keep[l], records[l], inner[l])
    OBVIOUS
  <1>3. seqs \in Seq(Seq(T)) /\ Len(seqs) = n
    <2>1. ASSUME NEW l \in 1..n
          PROVE  seqs[l] \in Seq(T)
      <3>1. seqs[l] \in Seq({records[l][k] : k \in keep[l]})
        BY <1>2 DEF InOrder
      <3>2. {records[l][k] : k \in keep[l]} \subseteq T
        OBVIOUS
      <3> HIDE DEF T, seqs
      <3> QED
        BY <3>1, <3>2
    <2>2. DOMAIN seqs = 1..n /\ seqs = [l \in 1..n |-> seqs[l]]
      OBVIOUS
    <2> HIDE DEF T, seqs
    <2> QED
      BY <2>1, <2>2
  <1> HIDE DEF T, seqs, inner
  <1>4. flat \in Seq(T) /\ \E source : IsFlat(flat, seqs, source)
    BY <1>3, FlatExists
  <1>5. PICK source : IsFlat(flat, seqs, source)
    BY <1>4
  <1> HIDE DEF flat
  <1> DEFINE m == Len(flat)
             of == [j \in 1..m |-> <<source[j][1], inner[source[j][1]][source[j][2]]>>]
  <1>6. \A j \in 1..m : of[j][1] = source[j][1] /\ of[j][2] = inner[source[j][1]][source[j][2]]
    OBVIOUS
  <1>7. ASSUME NEW j \in 1..m
        PROVE  /\ source[j][1] \in 1..n /\ source[j][2] \in 1..Len(seqs[source[j][1]])
               /\ of[j][1] \in 1..n /\ of[j][2] \in keep[of[j][1]]
               /\ flat[j] = records[of[j][1]][of[j][2]]
    <2> DEFINE l == source[j][1]
               k == source[j][2]
    <2>1. l \in 1..n /\ k \in 1..Len(seqs[l]) /\ flat[j] = seqs[l][k]
      BY <1>3, <1>5 DEF IsFlat
    <2>2. of[j][1] = l /\ of[j][2] = inner[l][k]
      BY <1>6
    <2> HIDE DEF l, k, of
    <2>3. inner[l][k] \in keep[l] /\ seqs[l][k] = records[l][inner[l][k]]
      BY <1>2, <2>1 DEF InOrder
    <2> QED
      BY <2>1, <2>2, <2>3 DEF l, k
  <1>8. ASSUME NEW l \in 1..n, NEW k \in keep[l]
        PROVE  \E j \in 1..m : of[j] = <<l, k>>
    <2>1. PICK i \in 1..Len(seqs[l]) : inner[l][i] = k
      BY <1>2 DEF InOrder
    <2>2. PICK j \in 1..m : source[j] = <<l, i>>
      BY <1>3, <1>5 DEF IsFlat
    <2> QED
      BY <2>1, <2>2
  <1>9. ASSUME NEW j \in 1..m, NEW h \in 1..m,
               of[j][1] = of[h][1], of[j][2] = of[h][2]
        PROVE  j = h
    <2> DEFINE l == source[j][1]
               a == source[j][2]
               b == source[h][2]
    <2>1. /\ source[h][1] = l /\ inner[l][a] = inner[l][b] /\ l \in 1..n
          /\ a \in 1..Len(seqs[l]) /\ b \in 1..Len(seqs[l])
      BY <1>6, <1>7, <1>9
    <2>2. j < h => a < b
      BY <1>5, <2>1 DEF IsFlat
    <2>3. h < j => b < a
      BY <1>5, <2>1 DEF IsFlat
    <2> HIDE DEF l, a, b, of
    <2>4. \A x, y \in 1..Len(seqs[l]) : x < y => inner[l][x] < inner[l][y]
      BY <1>2, <2>1 DEF InOrder
    <2>5. inner[l][a] \in keep[l] /\ keep[l] \subseteq Nat
      <3>1. inner[l] \in [1..Len(seqs[l]) -> keep[l]]
        BY <1>2, <2>1 DEF InOrder
      <3> QED
        BY <2>1, <3>1
    <2>6. inner[l][a] \in Nat
      BY <2>5
    <2>7. ~(a < b) /\ ~(b < a)
      <3> DEFINE v == inner[l][a]
      <3>1. (a < b => v < v) /\ (b < a => v < v)
        BY <2>1, <2>4
      <3>2. v \in Nat
        BY <2>6
      <3> HIDE DEF v
      <3> QED
        BY <3>1, <3>2
    <2>8. j \in Nat /\ h \in Nat /\ (j < h \/ h < j \/ j = h)
      BY <1>4
    <2> QED
      BY <2>2, <2>3, <2>7, <2>8
  <1>10. DOMAIN flat = 1..m
    BY <1>4
  <1> HIDE DEF of
  <1>11. Gathered(flat, n, keep, records, of)
    BY <1>7, <1>8, <1>9, <1>10 DEF Gathered
  <1> QED
    BY <1>1, <1>11

\* The pairs of a line: a name in column name[k] of line l, a number in column
\* number[k] of line m.
PairsRead(n, l, name, m, number) ==
    Rows([k \in 1..n |-> Pair(File, l, name[k], m, number[k])])

Numbered(n, m, number) == {k \in 1..n : number[k] \notin File[m].bad}

PairRecords(n, l, name, m, number) ==
    [k \in Numbered(n, m, number) |->
        [label |-> File[l].of, line |-> l, values |-> <<<<l, name[k]>>, <<m, number[k]>>>>]]

LEMMA PairsOfLine ==
    ASSUME File \in Seq(FileLine), NEW l \in DOMAIN File, NEW m \in DOMAIN File,
           NEW n \in Nat, NEW name, NEW number
    PROVE  /\ PairsRead(n, l, name, m, number).ok
           /\ \E of : InOrder(PairsRead(n, l, name, m, number).stats, Numbered(n, m, number),
                             PairRecords(n, l, name, m, number), of)
  <1> DEFINE rows == [k \in 1..n |-> Pair(File, l, name[k], m, number[k])]
             keep == Numbered(n, m, number)
             records == PairRecords(n, l, name, m, number)
  <1>1. \A d : At(File, m, d) = Bad <=> d \in File[m].bad
    <2>1. m \in Nat /\ m # 0
      OBVIOUS
    <2> QED
      BY <2>1 DEF At, Text, Bad, Absent
  <1>0. /\ \A k : k \in keep <=> k \in 1..n /\ number[k] \notin File[m].bad
        /\ \A k \in keep : records[k] = [label |-> File[l].of, line |-> l,
                                           values |-> <<<<l, name[k]>>, <<m, number[k]>>>>]
    BY DEF Numbered, PairRecords
  <1>2. ASSUME NEW k \in 1..n
        PROVE  rows[k].ok /\ rows[k].stats = IF k \in keep THEN <<records[k]>> ELSE <<>>
    <2>1. rows[k] = Pair(File, l, name[k], m, number[k])
      OBVIOUS
    <2>2. CASE k \in keep
      <3>1. rows[k] = Done(Record(File[l].of, l, <<<<l, name[k]>>, <<m, number[k]>>>>))
        BY <1>0, <1>1, <2>1, <2>2 DEF Pair
      <3> QED
        BY <1>0, <2>2, <3>1 DEF Done, Record
    <2>3. CASE k \notin keep
      <3>1. rows[k] = Skip
        BY <1>0, <1>1, <2>1, <2>3 DEF Pair
      <3> QED
        BY <2>3, <3>1 DEF Skip, Done
    <2> QED
      BY <2>2, <2>3
  <1>3. DOMAIN rows = 1..n /\ keep \subseteq 1..n
    BY <1>0
  <1> HIDE DEF rows, keep, records
  <1>4. OneEach(n, rows, keep, records)
    BY <1>2, <1>3 DEF OneEach
  <1>5. Rows(rows).ok /\ \E of : InOrder(Rows(rows).stats, keep, records, of)
    BY <1>2, <1>4, RowsOfOne
  <1> QED
    BY <1>5 DEF rows, keep, records, PairsRead

\* What both properties say of a file of pairs, by the columns of its lines.
PairsAreThere(keep, name, number, records) ==
    /\ \A l \in DOMAIN File : \A k \in keep[l] :
           records[l][k] = [label |-> File[l].of, line |-> l,
                            values |-> <<<<l, name[l][k]>>, number[l][k]>>]
    /\ \A l \in DOMAIN File : \A c \in 1..File[l].n :
           PairAt(l, c) => \E k \in keep[l] : name[l][k] = c
    /\ \A l \in DOMAIN File : \A k \in keep[l] :
           name[l][k] \in 1..File[l].n /\ PairAt(l, name[l][k])
    /\ \A l \in DOMAIN File : \A j, k \in keep[l] : name[l][j] = name[l][k] => j = k
    /\ \A l \in DOMAIN File : \A k \in keep[l] :
           /\ number[l][k] = IF Collector = "netstat" THEN <<l + 1, name[l][k]>>
                             ELSE <<l, name[l][k] + 1>>
           /\ File[l].of = File[number[l][k][1]].of

LEMMA PairsAreFaithful ==
    ASSUME Collector \in Paired, File \in Seq(FileLine), out.ok,
           NEW keep, NEW name, NEW number, NEW records, NEW of,
           Gathered(out.stats, Len(File), keep, records, of),
           PairsAreThere(keep, name, number, records)
    PROVE  RecordsAreTheirLines /\ NothingLeftOut
  <1>1. Collector \notin Columned /\ DOMAIN File = 1..Len(File)
    BY DEF Columned, Paired
  <1>2. DOMAIN out.stats = 1..Len(out.stats)
    BY DEF Gathered
  <1>3. ASSUME NEW j \in DOMAIN out.stats
        PROVE  \E l \in DOMAIN File : \E k \in keep[l] :
                   /\ of[j][1] = l /\ of[j][2] = k
                   /\ out.stats[j].values[1] = <<l, name[l][k]>>
                   /\ out.stats[j].values[2] = number[l][k]
                   /\ out.stats[j].line = l /\ out.stats[j].label = File[l].of
    <2> DEFINE l == of[j][1]
               k == of[j][2]
    <2>1. l \in DOMAIN File /\ k \in keep[l] /\ out.stats[j] = records[l][k]
      BY <1>1, <1>2 DEF Gathered
    <2>2. of[j][1] = l /\ of[j][2] = k
      OBVIOUS
    <2> HIDE DEF l, k
    <2>3. records[l][k] = [label |-> File[l].of, line |-> l,
                           values |-> <<<<l, name[l][k]>>, number[l][k]>>]
      BY <2>1 DEF PairsAreThere
    <2> QED
      BY <2>1, <2>2, <2>3
  <1>4. ASSUME NEW j \in DOMAIN out.stats
        PROVE  LET r == out.stats[j]
               IN  /\ r.values[2] = IF Collector = "netstat"
                                    THEN <<r.line + 1, r.values[1][2]>>
                                    ELSE <<r.line, r.values[1][2] + 1>>
                   /\ r.label = File[r.values[2][1]].of
    <2>1. PICK l \in DOMAIN File : \E k \in keep[l] :
                   /\ of[j][1] = l /\ of[j][2] = k
                   /\ out.stats[j].values[1] = <<l, name[l][k]>>
                   /\ out.stats[j].values[2] = number[l][k]
                   /\ out.stats[j].line = l /\ out.stats[j].label = File[l].of
      BY <1>3
    <2>2. PICK k \in keep[l] :
                   /\ out.stats[j].values[1] = <<l, name[l][k]>>
                   /\ out.stats[j].values[2] = number[l][k]
                   /\ out.stats[j].line = l /\ out.stats[j].label = File[l].of
      BY <2>1
    <2>3. /\ number[l][k] = IF Collector = "netstat" THEN <<l + 1, name[l][k]>>
                            ELSE <<l, name[l][k] + 1>>
          /\ File[l].of = File[number[l][k][1]].of
      BY DEF PairsAreThere
    <2>4. out.stats[j].values[1][2] = name[l][k]
      BY <2>2
    <2> QED
      BY <2>2, <2>3, <2>4
  <1>5. RecordsAreTheirLines
    BY <1>1, <1>4 DEF RecordsAreTheirLines
  <1>6. ASSUME NEW j \in DOMAIN out.stats
        PROVE  out.stats[j].values[1] \in PairsOfFile
    <2>1. PICK l \in DOMAIN File : \E k \in keep[l] : out.stats[j].values[1] = <<l, name[l][k]>>
      BY <1>3
    <2>2. PICK k \in keep[l] : out.stats[j].values[1] = <<l, name[l][k]>>
      BY <2>1
    <2>3. PICK c \in 1..File[l].n : c = name[l][k] /\ PairAt(l, c)
      BY DEF PairsAreThere
    <2>4. <<l, c>> \in PairsOfFile
      BY <2>3 DEF PairsOfFile
    <2> QED
      BY <2>2, <2>3, <2>4
  <1>7. ASSUME NEW p \in PairsOfFile
        PROVE  \E j \in DOMAIN out.stats : out.stats[j].values[1] = p
    <2>1. PICK l \in DOMAIN File : p \in {l} \X (1..File[l].n)
      BY DEF PairsOfFile
    <2>2. p = <<l, p[2]>> /\ p[2] \in 1..File[l].n /\ p[1] = l
      BY <2>1
    <2>3. PairAt(l, p[2])
      BY <2>2 DEF PairsOfFile
    <2>4. PICK k \in keep[l] : name[l][k] = p[2]
      BY <2>2, <2>3 DEF PairsAreThere
    <2>5. PICK j \in 1..Len(out.stats) : of[j] = <<l, k>>
      BY <1>1 DEF Gathered
    <2>6. j \in DOMAIN out.stats /\ of[j][1] = l /\ of[j][2] = k
      BY <1>2, <2>5
    <2>7. out.stats[j].values[1] = <<l, name[l][k]>>
      BY <1>3, <2>6
    <2> QED
      BY <2>2, <2>4, <2>6, <2>7
  <1>8. {out.stats[i].values[1] : i \in DOMAIN out.stats} = PairsOfFile
    BY <1>6, <1>7
  <1>9. ASSUME NEW i \in DOMAIN out.stats, NEW j \in DOMAIN out.stats,
               out.stats[i].values[1] = out.stats[j].values[1]
        PROVE  i = j
    <2>1. PICK l \in DOMAIN File : \E k \in keep[l] :
                   /\ of[i][1] = l /\ of[i][2] = k
                   /\ out.stats[i].values[1] = <<l, name[l][k]>>
      BY <1>3
    <2>2. PICK k \in keep[l] :
                   /\ of[i][1] = l /\ of[i][2] = k
                   /\ out.stats[i].values[1] = <<l, name[l][k]>>
      BY <2>1
    <2>3. PICK m \in DOMAIN File : \E h \in keep[m] :
                   /\ of[j][1] = m /\ of[j][2] = h
                   /\ out.stats[j].values[1] = <<m, name[m][h]>>
      BY <1>3
    <2>4. PICK h \in keep[m] :
                   /\ of[j][1] = m /\ of[j][2] = h
                   /\ out.stats[j].values[1] = <<m, name[m][h]>>
      BY <2>3
    <2>5. <<l, name[l][k]>> = <<m, name[m][h]>>
      BY <1>9, <2>2, <2>4, Zenon
    <2>6. l = m /\ name[l][k] = name[m][h]
      BY <2>5
    <2>7. k = h
      BY <2>6 DEF PairsAreThere
    <2>8. i \in 1..Len(out.stats) /\ j \in 1..Len(out.stats)
      BY <1>2
    <2>9. of[i][1] = of[j][1] /\ of[i][2] = of[j][2]
      BY <2>2, <2>4, <2>6, <2>7
    <2> QED
      BY <2>8, <2>9 DEF Gathered
  <1>10. NothingLeftOut
    BY <1>1, <1>8, <1>9 DEF NothingLeftOut
  <1> QED
    BY <1>5, <1>10

\* A file of pairs of which the lines in takes are read: the names in columns
\* name[k] of a line l and the numbers in columns number[k] of line[l].
PairsAreAt(rows, takes, line, n, name, number) ==
    /\ DOMAIN rows = DOMAIN File
    /\ \A l \in DOMAIN File :
           IF l \in takes
           THEN /\ line[l] \in DOMAIN File /\ n[l] \in Nat
                /\ rows[l] = PairsRead(n[l], l, name, line[l], number)
           ELSE rows[l] = Skip
    /\ \A l \in DOMAIN File \intersect takes : \A k \in 1..n[l] :
           number[k] \notin File[line[l]].bad =>
               /\ name[k] \in 1..File[l].n /\ PairAt(l, name[k])
               /\ <<line[l], number[k]>> = IF Collector = "netstat" THEN <<l + 1, name[k]>>
                                           ELSE <<l, name[k] + 1>>
               /\ File[l].of = File[line[l]].of
    /\ \A l \in DOMAIN File : \A c \in 1..File[l].n : PairAt(l, c) =>
           /\ l \in takes
           /\ \E k \in 1..n[l] : number[k] \notin File[line[l]].bad /\ name[k] = c
    /\ \A j, k \in Nat : name[j] = name[k] => j = k

LEMMA PairsOfLines ==
    ASSUME Collector \in Paired, File \in Seq(FileLine), NEW rows, NEW takes, NEW line,
           NEW n, NEW name, NEW number,
           PairsAreAt(rows, takes, line, n, name, number), out = Rows(rows)
    PROVE  RecordsAreTheirLines /\ NothingLeftOut
  <1> DEFINE keep == [l \in DOMAIN File |->
                         IF l \in takes THEN Numbered(n[l], line[l], number) ELSE {}]
             records == [l \in DOMAIN File |-> PairRecords(n[l], l, name, line[l], number)]
             names == [l \in DOMAIN File |-> name]
             numbers == [l \in DOMAIN File |-> [k \in keep[l] |-> <<line[l], number[k]>>]]
  <1>1. \A l \in DOMAIN File : l \in takes =>
            /\ line[l] \in DOMAIN File /\ n[l] \in Nat
            /\ rows[l] = PairsRead(n[l], l, name, line[l], number)
    BY DEF PairsAreAt
  <1>2. \A l \in DOMAIN File : l \notin takes => rows[l] = Skip
    BY DEF PairsAreAt
  <1>3. \A l \in DOMAIN File : \A k \in keep[l] :
            /\ l \in takes /\ n[l] \in Nat /\ k \in 1..n[l] /\ number[k] \notin File[line[l]].bad
    BY <1>1 DEF Numbered
  <1>4. ASSUME NEW l \in DOMAIN File
        PROVE  /\ rows[l].ok /\ keep[l] \subseteq Nat
               /\ \E of : InOrder(rows[l].stats, keep[l], records[l], of)
    <2>1. CASE l \in takes
      <3>1. /\ line[l] \in DOMAIN File /\ n[l] \in Nat
            /\ rows[l] = PairsRead(n[l], l, name, line[l], number)
        BY <1>1, <2>1
      <3>2. /\ keep[l] = Numbered(n[l], line[l], number)
            /\ records[l] = PairRecords(n[l], l, name, line[l], number)
        BY <2>1
      <3> HIDE DEF keep, records
      <3>3. rows[l].ok /\ \E of : InOrder(rows[l].stats, keep[l], records[l], of)
        BY <3>1, <3>2, PairsOfLine
      <3>4. keep[l] \subseteq Nat
        BY <3>1, <3>2 DEF Numbered
      <3> QED
        BY <3>3, <3>4
    <2>2. CASE l \notin takes
      <3>1. rows[l] = Skip /\ keep[l] = {}
        BY <1>2, <2>2
      <3>2. rows[l].ok /\ rows[l].stats = <<>>
        BY <3>1 DEF Skip, Done
      <3> HIDE DEF keep, records
      <3>3. InOrder(rows[l].stats, keep[l], records[l], <<>>)
        BY <3>1, <3>2 DEF InOrder
      <3> QED
        BY <3>1, <3>2, <3>3
    <2> QED
      BY <2>1, <2>2
  <1>5. ASSUME NEW l \in DOMAIN File, NEW k \in keep[l]
        PROVE  /\ records[l][k] = [label |-> File[l].of, line |-> l,
                                  values |-> <<<<l, name[k]>>, <<line[l], number[k]>>>>]
               /\ names[l][k] = name[k] /\ numbers[l][k] = <<line[l], number[k]>>
    <2>1. k \in Numbered(n[l], line[l], number)
      BY <1>3
    <2>2. records[l] = PairRecords(n[l], l, name, line[l], number)
      OBVIOUS
    <2>3. names[l][k] = name[k] /\ numbers[l][k] = <<line[l], number[k]>>
      OBVIOUS
    <2> HIDE DEF records, names, numbers
    <2> QED
      BY <2>1, <2>2, <2>3 DEF PairRecords
  <1>6. \A l \in DOMAIN File : \A k : k \in keep[l] <=>
            l \in takes /\ k \in 1..n[l] /\ number[k] \notin File[line[l]].bad
    BY DEF Numbered
  <1> HIDE DEF keep, records, names, numbers
  <1>8. PairsAreThere(keep, names, numbers, records)
    <2>1. \A l \in DOMAIN File : \A k \in keep[l] :
              records[l][k] = [label |-> File[l].of, line |-> l,
                               values |-> <<<<l, names[l][k]>>, numbers[l][k]>>]
      BY <1>5
    <2>2. \A l \in DOMAIN File : \A c \in 1..File[l].n :
              PairAt(l, c) => \E k \in keep[l] : names[l][k] = c
      <3>1. ASSUME NEW l \in DOMAIN File, NEW c \in 1..File[l].n, PairAt(l, c)
            PROVE  \E k \in keep[l] : names[l][k] = c
        <4>1. l \in takes /\ \E k \in 1..n[l] : number[k] \notin File[line[l]].bad /\ name[k] = c
          BY <3>1 DEF PairsAreAt
        <4> QED
          BY <1>5, <1>6, <4>1
      <3> QED
        BY <3>1
    <2>3. ASSUME NEW l \in DOMAIN File, NEW k \in keep[l]
          PROVE  /\ names[l][k] = name[k] /\ numbers[l][k] = <<line[l], number[k]>>
                 /\ name[k] \in 1..File[l].n /\ PairAt(l, name[k])
                 /\ <<line[l], number[k]>> = IF Collector = "netstat" THEN <<l + 1, name[k]>>
                                             ELSE <<l, name[k] + 1>>
                 /\ File[l].of = File[line[l]].of
      <3>1. l \in DOMAIN File \intersect takes /\ k \in 1..n[l] /\ number[k] \notin File[line[l]].bad
        BY <1>3
      <3>2. names[l][k] = name[k] /\ numbers[l][k] = <<line[l], number[k]>>
        BY <1>5
      <3>3. /\ name[k] \in 1..File[l].n /\ PairAt(l, name[k])
            /\ <<line[l], number[k]>> = IF Collector = "netstat" THEN <<l + 1, name[k]>>
                                        ELSE <<l, name[k] + 1>>
            /\ File[l].of = File[line[l]].of
        BY <3>1 DEF PairsAreAt
      <3> QED
        BY <3>2, <3>3
    <2>4. \A l \in DOMAIN File : \A k \in keep[l] :
              names[l][k] \in 1..File[l].n /\ PairAt(l, names[l][k])
      BY <2>3
    <2>5. \A l \in DOMAIN File : \A j, k \in keep[l] : names[l][j] = names[l][k] => j = k
      <3>1. ASSUME NEW l \in DOMAIN File, NEW j \in keep[l], NEW k \in keep[l],
                   names[l][j] = names[l][k]
            PROVE  j = k
        <4>1. j \in Nat /\ k \in Nat
          BY <1>4
        <4>2. name[j] = name[k]
          BY <2>3, <3>1
        <4> QED
          BY <4>1, <4>2 DEF PairsAreAt
      <3> QED
        BY <3>1
    <2>6. ASSUME NEW l \in DOMAIN File, NEW k \in keep[l]
          PROVE  /\ numbers[l][k] = IF Collector = "netstat" THEN <<l + 1, names[l][k]>>
                                    ELSE <<l, names[l][k] + 1>>
                 /\ File[l].of = File[numbers[l][k][1]].of
      <3> DEFINE pair == numbers[l][k]
      <3>1. /\ names[l][k] = name[k] /\ pair = <<line[l], number[k]>>
            /\ <<line[l], number[k]>> = IF Collector = "netstat" THEN <<l + 1, name[k]>>
                                        ELSE <<l, name[k] + 1>>
            /\ File[l].of = File[line[l]].of
        BY <2>3
      <3> HIDE DEF pair
      <3>2. pair[1] = line[l]
        BY <3>1
      <3> QED
        BY <3>1, <3>2 DEF pair
    <2> QED
      BY <2>1, <2>2, <2>4, <2>5, <2>6 DEF PairsAreThere
  <1>9. out.ok /\ \E of : Gathered(out.stats, Len(File), keep, records, of)
    <2>1. DOMAIN rows = 1..Len(File) /\ DOMAIN File = 1..Len(File) /\ Len(File) \in Nat
      BY DEF PairsAreAt
    <2>2. \A l \in 1..Len(File) : /\ rows[l].ok /\ keep[l] \subseteq Nat
                                  /\ \E of : InOrder(rows[l].stats, keep[l], records[l], of)
      BY <1>4, <2>1
    <2> QED
      BY <2>1, <2>2, RowsOfRows
  <1> QED
    BY <1>8, <1>9, PairsAreFaithful

LEMMA NetstatIsFaithful ==
    ASSUME Collector = "netstat", File \in Files("netstat"), File \in Seq(FileLine),
           out = Netstat(File)
    PROVE  RecordsAreTheirLines /\ NothingLeftOut
  <1> DEFINE Zipped(l) == IF File[l].n < File[l + 1].n THEN File[l].n ELSE File[l + 1].n
             row(l) == IF l % 2 = 0 \/ l = Len(File) \/ "" \in {File[l].of, File[l + 1].of} THEN Skip
                       ELSE Rows([k \in 1..Zipped(l) |-> Pair(File, l, k, l + 1, k)])
             rows == [l \in DOMAIN File |-> row(l)]
             takes == {l \in DOMAIN File : /\ l % 2 = 1 /\ l < Len(File)
                                           /\ File[l].of # "" /\ File[l + 1].of # ""}
             line == [l \in DOMAIN File |-> l + 1]
             n == [l \in DOMAIN File |-> Zipped(l)]
             column == [k \in Nat |-> k]
  <1>1. out = Rows(rows)
    BY DEF Netstat
  <1>2. ASSUME NEW l \in DOMAIN File
        PROVE  /\ l \in 1..Len(File) /\ Len(File) \in Nat /\ l \in Nat
               /\ l % 2 = 0 \/ l % 2 = 1
               /\ l < Len(File) => l + 1 \in DOMAIN File
               /\ File[l].n \in Nat /\ File[l].bad \subseteq 1..File[l].n
               /\ File[l].of = "" => File[l].n = 0
               /\ l % 2 = 1 /\ l < Len(File) => File[l].of = File[l + 1].of
    <2>1. l \in 1..Len(File) /\ Len(File) \in Nat
      OBVIOUS
    <2>2. l \in Nat /\ (l % 2 = 0 \/ l % 2 = 1) /\ (l < Len(File) => l + 1 \in DOMAIN File)
      BY <2>1
    <2>3. File[l].n \in Nat /\ File[l].bad \subseteq 1..File[l].n
      BY DEF FileLine
    <2> QED
      BY <2>1, <2>2, <2>3, FilesAssumption
  <1>3. \A k \in Nat : column[k] = k
    OBVIOUS
  <1>4. ASSUME NEW l \in takes
        PROVE  /\ l \in DOMAIN File /\ l % 2 = 1 /\ l < Len(File) /\ l + 1 \in DOMAIN File
               /\ File[l].n \in Nat /\ File[l + 1].n \in Nat
               /\ line[l] = l + 1 /\ n[l] = Zipped(l) /\ n[l] \in Nat
               /\ File[l].of = File[l + 1].of
               /\ rows[l] = Rows([k \in 1..Zipped(l) |-> Pair(File, l, k, l + 1, k)])
    <2>1. l \in DOMAIN File /\ l % 2 = 1 /\ l < Len(File) /\ File[l].of # "" /\ File[l + 1].of # ""
      OBVIOUS
    <2>2. l + 1 \in DOMAIN File /\ File[l].n \in Nat /\ File[l + 1].n \in Nat /\ File[l].of = File[l + 1].of
      BY <1>2, <2>1
    <2>3. line[l] = l + 1 /\ n[l] = Zipped(l)
      BY <2>1
    <2>4. l \in Nat /\ Len(File) \in Nat
      BY <1>2, <2>1
    <2>5. ~(l % 2 = 0 \/ l = Len(File) \/ "" \in {File[l].of, File[l + 1].of})
      <3>1. l % 2 # 0 /\ l # Len(File)
        <4> HIDE DEF takes, rows, row, line, n, column
        <4>1. l % 2 = 1
          BY <2>1
        <4>2. l < Len(File)
          BY <2>1
        <4> QED
          BY <2>4, <4>1, <4>2
      <3>2. "" \notin {File[l].of, File[l + 1].of}
        BY <2>1
      <3> QED
        BY <3>1, <3>2
    <2>6. rows[l] = row(l)
      BY <2>1
    <2>7. row(l) = Rows([k \in 1..Zipped(l) |-> Pair(File, l, k, l + 1, k)])
      BY <2>5
    <2> QED
      BY <2>1, <2>2, <2>3, <2>6, <2>7
  <1>5. ASSUME NEW l \in DOMAIN File, l \notin takes
        PROVE  rows[l] = Skip
    <2>1. \/ ~(l % 2 = 1) \/ ~(l < Len(File))
          \/ File[l].of = "" \/ File[l + 1].of = ""
      BY <1>5
    <2>2. l % 2 = 0 \/ l = Len(File) \/ "" \in {File[l].of, File[l + 1].of}
      <3>1. l \in 1..Len(File) /\ Len(File) \in Nat /\ (l % 2 = 0 \/ l % 2 = 1)
        BY <1>2
      <3>2. ~(l % 2 = 1) => l % 2 = 0
        BY <3>1
      <3>3. ~(l < Len(File)) => l = Len(File)
        BY <3>1
      <3>4. File[l].of = "" \/ File[l + 1].of = "" => "" \in {File[l].of, File[l + 1].of}
        OBVIOUS
      <3> QED
        BY <2>1, <3>2, <3>3, <3>4
    <2> QED
      BY <2>2
  <1>6. \A l \in DOMAIN File :
            l % 2 = 1 /\ l < Len(File) /\ File[l].of # "" /\ File[l + 1].of # "" => l \in takes
    OBVIOUS
  <1>7. DOMAIN rows = DOMAIN File
    OBVIOUS
  <1> HIDE DEF rows, takes, line, n, column
  <1>8. ASSUME NEW l \in takes
        PROVE  rows[l] = PairsRead(n[l], l, column, line[l], column)
    <2>1. [k \in 1..n[l] |-> Pair(File, l, k, l + 1, k)]
          = [k \in 1..n[l] |-> Pair(File, l, column[k], line[l], column[k])]
      <3>1. \A k \in 1..n[l] : column[k] = k
        BY <1>3, <1>4
      <3>2. line[l] = l + 1
        BY <1>4
      <3> QED
        BY <3>1, <3>2
    <2>2. rows[l] = Rows([k \in 1..n[l] |-> Pair(File, l, k, l + 1, k)])
      BY <1>4
    <2> QED
      BY <2>1, <2>2 DEF PairsRead
  <1>9. ASSUME NEW l \in takes, NEW k \in 1..n[l]
        PROVE  /\ column[k] = k /\ k \in 1..File[l].n /\ k \in 1..File[l + 1].n
    <2>1. /\ n[l] = Zipped(l) /\ n[l] \in Nat
          /\ File[l].n \in Nat /\ File[l + 1].n \in Nat
      BY <1>4
    <2>2. n[l] <= File[l].n /\ n[l] <= File[l + 1].n
      BY <2>1
    <2>3. k \in Nat
      BY <2>1
    <2>4. column[k] = k
      BY <1>3, <2>3
    <2> HIDE DEF Zipped
    <2> QED
      BY <2>1, <2>2, <2>4
  <1>10. ASSUME NEW l \in DOMAIN File, NEW c \in 1..File[l].n, PairAt(l, c)
         PROVE  /\ l \in takes
                /\ \E k \in 1..n[l] : column[k] \notin File[line[l]].bad /\ column[k] = c
    <2>1. l % 2 = 1 /\ l < Len(File) /\ c \in 1..File[l + 1].n /\ c \notin File[l + 1].bad
      BY <1>10 DEF PairAt
    <2>2. l + 1 \in DOMAIN File /\ File[l].n \in Nat /\ File[l + 1].n \in Nat
      BY <1>2, <2>1
    <2>3. File[l].of # "" /\ File[l + 1].of # ""
      <3>1. File[l].of = "" => File[l].n = 0
        BY <1>2
      <3>2. File[l + 1].of = "" => File[l + 1].n = 0
        BY <1>2, <2>2
      <3>3. File[l].n # 0
        OBVIOUS
      <3>4. File[l + 1].n # 0
        BY <2>1
      <3> QED
        BY <3>1, <3>2, <3>3, <3>4
    <2>4. l \in takes
      BY <1>6, <2>1, <2>3
    <2>5. c \in 1..n[l]
      BY <1>4, <2>1, <2>2, <2>4
    <2>6. column[c] = c /\ line[l] = l + 1
      BY <1>4, <1>9, <2>4, <2>5
    <2> QED
      BY <2>1, <2>4, <2>5, <2>6
  <1>11. PairsAreAt(rows, takes, line, n, column, column)
    <2>1. ASSUME NEW l \in DOMAIN File
          PROVE  IF l \in takes
                 THEN /\ line[l] \in DOMAIN File /\ n[l] \in Nat
                      /\ rows[l] = PairsRead(n[l], l, column, line[l], column)
                 ELSE rows[l] = Skip
      <3>1. CASE l \in takes
        <4>1. line[l] \in DOMAIN File /\ n[l] \in Nat
          BY <1>4, <3>1
        <4> QED
          BY <1>8, <3>1, <4>1
      <3>2. CASE l \notin takes
        BY <1>5, <3>2
      <3> QED
        BY <3>1, <3>2
    <2>2. ASSUME NEW l \in DOMAIN File \intersect takes, NEW k \in 1..n[l],
                 column[k] \notin File[line[l]].bad
          PROVE  /\ column[k] \in 1..File[l].n /\ PairAt(l, column[k])
                 /\ <<line[l], column[k]>> = IF Collector = "netstat" THEN <<l + 1, column[k]>>
                                             ELSE <<l, column[k] + 1>>
                 /\ File[l].of = File[line[l]].of
      <3>1. column[k] = k /\ k \in 1..File[l].n /\ k \in 1..File[l + 1].n
        BY <1>9
      <3>2. line[l] = l + 1 /\ l % 2 = 1 /\ l < Len(File) /\ File[l].of = File[l + 1].of
        BY <1>4
      <3>3. PairAt(l, k)
        BY <2>2, <3>1, <3>2 DEF PairAt
      <3> QED
        BY <3>1, <3>2, <3>3
    <2>3. \A j, k \in Nat : column[j] = column[k] => j = k
      BY <1>3
    <2> QED
      BY <1>7, <1>10, <2>1, <2>2, <2>3 DEF PairsAreAt
  <1> QED
    BY <1>1, <1>11, PairsOfLines DEF Paired

LEMMA SockstatIsFaithful ==
    ASSUME Collector = "sockstat", File \in Seq(FileLine), out = Sockstat(File)
    PROVE  RecordsAreTheirLines /\ NothingLeftOut
  <1> DEFINE rows == [l \in DOMAIN File |->
                         Rows([k \in 1..File[l].n \div 2 |-> Pair(File, l, 2 * k - 1, l, 2 * k)])]
             line == [l \in DOMAIN File |-> l]
             n == [l \in DOMAIN File |-> File[l].n \div 2]
             name == [k \in Nat |-> 2 * k - 1]
             number == [k \in Nat |-> 2 * k]
  <1>1. out = Rows(rows) /\ DOMAIN rows = DOMAIN File
    BY DEF Sockstat
  <1>2. \A k \in Nat : name[k] = 2 * k - 1 /\ number[k] = 2 * k
    OBVIOUS
  <1>3. ASSUME NEW l \in DOMAIN File
        PROVE  /\ File[l].n \in Nat /\ n[l] \in Nat /\ line[l] = l
               /\ File[l].n = 2 * n[l] \/ File[l].n = 2 * n[l] + 1
    <2>1. File[l].n \in Nat /\ n[l] = File[l].n \div 2 /\ line[l] = l
      BY DEF FileLine
    <2> HIDE DEF n
    <2> QED
      BY <2>1
  <1>4. \A l \in DOMAIN File :
            rows[l] = Rows([k \in 1..n[l] |-> Pair(File, l, 2 * k - 1, l, 2 * k)])
    OBVIOUS
  <1> HIDE DEF rows, line, n, name, number
  <1>5. ASSUME NEW l \in DOMAIN File
        PROVE  rows[l] = PairsRead(n[l], l, name, line[l], number)
    <2>1. \A k \in 1..n[l] : k \in Nat
      BY <1>3
    <2>2. [k \in 1..n[l] |-> Pair(File, l, 2 * k - 1, l, 2 * k)]
          = [k \in 1..n[l] |-> Pair(File, l, name[k], line[l], number[k])]
      BY <1>2, <1>3, <2>1
    <2> QED
      BY <1>4, <2>2 DEF PairsRead
  <1>6. ASSUME NEW l \in DOMAIN File, NEW k \in 1..n[l], number[k] \notin File[line[l]].bad
        PROVE  /\ name[k] \in 1..File[l].n /\ PairAt(l, name[k])
               /\ <<line[l], number[k]>> = IF Collector = "netstat" THEN <<l + 1, name[k]>>
                                           ELSE <<l, name[k] + 1>>
               /\ File[l].of = File[line[l]].of
    <2>1. line[l] = l /\ n[l] \in Nat /\ k \in Nat
      BY <1>3
    <2>2. name[k] = 2 * k - 1 /\ number[k] = 2 * k
      BY <1>2, <2>1
    <2>3. name[k] \in 1..File[l].n /\ name[k] < File[l].n /\ name[k] % 2 = 1
          /\ name[k] + 1 = number[k]
      <3>1. /\ File[l].n \in Nat /\ n[l] \in Nat
            /\ File[l].n = 2 * n[l] \/ File[l].n = 2 * n[l] + 1
        BY <1>3
      <3>2. 2 * k - 1 \in 1..File[l].n /\ 2 * k - 1 < File[l].n
        BY <2>1, <3>1
      <3>3. (2 * k - 1) % 2 = 1 /\ (2 * k - 1) + 1 = 2 * k
        BY <2>1
      <3> QED
        BY <2>2, <3>2, <3>3
    <2>4. PairAt(l, name[k])
      BY <1>6, <2>1, <2>3 DEF PairAt
    <2> QED
      BY <2>1, <2>3, <2>4
  <1>7. ASSUME NEW l \in DOMAIN File, NEW c \in 1..File[l].n, PairAt(l, c)
        PROVE  \E k \in 1..n[l] : number[k] \notin File[line[l]].bad /\ name[k] = c
    <2>1. c % 2 = 1 /\ c < File[l].n /\ c + 1 \notin File[l].bad
      BY <1>7 DEF PairAt
    <2>2. c \in Nat /\ File[l].n \in Nat
      BY <1>3
    <2>3. PICK k \in 1..n[l] : c = 2 * k - 1
      <3>1. PICK k \in Nat : c = 2 * k - 1
        <4>1. (c + 1) \div 2 \in Nat /\ c = 2 * ((c + 1) \div 2) - 1
          BY <2>1, <2>2
        <4> QED
          BY <4>1
      <3>2. k \in 1..n[l]
        <4> DEFINE half == n[l]
                   width == File[l].n
        <4>1. /\ half \in Nat /\ width \in Nat
              /\ width = 2 * half \/ width = 2 * half + 1
          BY <1>3
        <4>2. 2 * k - 1 < width /\ 2 * k - 1 >= 1
          BY <2>1, <2>2, <3>1
        <4> HIDE DEF half, width
        <4>3. k \in 1..half
          BY <3>1, <4>1, <4>2
        <4> QED
          BY <4>3 DEF half
      <3> QED
        BY <3>1, <3>2
    <2>4. k \in Nat
      BY <1>3
    <2>5. name[k] = 2 * k - 1 /\ number[k] = 2 * k /\ line[l] = l
      BY <1>2, <1>3, <2>4
    <2>6. name[k] = c /\ number[k] = c + 1
      BY <2>3, <2>4, <2>5
    <2> QED
      BY <2>1, <2>5, <2>6
  <1>8. PairsAreAt(rows, DOMAIN File, line, n, name, number)
    <2>1. ASSUME NEW l \in DOMAIN File
          PROVE  IF l \in DOMAIN File
                 THEN /\ line[l] \in DOMAIN File /\ n[l] \in Nat
                      /\ rows[l] = PairsRead(n[l], l, name, line[l], number)
                 ELSE rows[l] = Skip
      <3>1. line[l] \in DOMAIN File /\ n[l] \in Nat
        BY <1>3
      <3> QED
        BY <1>5, <3>1
    <2>2. ASSUME NEW l \in DOMAIN File \intersect DOMAIN File, NEW k \in 1..n[l],
                 number[k] \notin File[line[l]].bad
          PROVE  /\ name[k] \in 1..File[l].n /\ PairAt(l, name[k])
                 /\ <<line[l], number[k]>> = IF Collector = "netstat" THEN <<l + 1, name[k]>>
                                             ELSE <<l, name[k] + 1>>
                 /\ File[l].of = File[line[l]].of
      BY <1>6, <2>2
    <2>3. \A j, k \in Nat : name[j] = name[k] => j = k
      <3>1. ASSUME NEW j \in Nat, NEW k \in Nat, name[j] = name[k]
            PROVE  j = k
        <4>1. 2 * j - 1 = 2 * k - 1
          BY <1>2, <3>1
        <4> QED
          BY <4>1
      <3> QED
        BY <3>1
    <2> QED
      BY <1>1, <1>7, <2>1, <2>2, <2>3 DEF PairsAreAt
  <1> QED
    BY <1>1, <1>8, PairsOfLines DEF Paired

-----------------------------------------------------------------------------
(* The two properties *)

LEMMA ColumnedAreFaithful ==
    ASSUME Collector \in Columned, File \in Files(Collector), File \in Seq(FileLine)
    PROVE  TableAsItIs(Parse(Collector, File))
  <1>1. CASE Collector = "cpu"
    BY <1>1, ParseIs, CpuIsFaithful
  <1>2. CASE Collector = "disk"
    BY <1>2, ParseIs, DiskIsFaithful
  <1>3. CASE Collector = "network"
    BY <1>3, ParseIs, NetworkIsFaithful
  <1>4. CASE Collector = "softnet"
    BY <1>4, ParseIs, SoftnetIsFaithful
  <1>5. CASE Collector = "schedstat"
    BY <1>5, ParseIs, SchedstatIsFaithful
  <1>6. CASE Collector = "ipvs"
    BY <1>6, ParseIs, IpvsIsFaithful
  <1>7. CASE Collector = "load_average"
    BY <1>7, ParseIs, LoadAverageIsFaithful
  <1>8. CASE Collector = "filefd"
    BY <1>8, ParseIs, FileFdIsFaithful
  <1>9. CASE Collector = "uptime"
    BY <1>9, ParseIs, UptimeIsFaithful
  <1>10. CASE Collector = "vmstat"
    BY <1>10, ParseIs, VmstatIsFaithful
  <1>11. CASE Collector = "arp"
    BY <1>11, ParseIs, ArpIsFaithful
  <1>12. CASE Collector = "systemd"
    BY <1>12, ParseIs, UnitsIsFaithful
  <1> QED
    BY <1>1, <1>2, <1>3, <1>4, <1>5, <1>6, <1>7, <1>8, <1>9, <1>10, <1>11, <1>12 DEF Columned

LEMMA ParsersAreFaithful == JobInv => RecordsAreTheirLines /\ NothingLeftOut
  <1> SUFFICES ASSUME JobInv, parsed
               PROVE  RecordsAreTheirLines /\ NothingLeftOut
    BY DEF RecordsAreTheirLines, NothingLeftOut
  <1>1. out = Parse(Collector, File) /\ File \in Files(Collector)
    <2>1. Collector # "none"
      BY DEF JobInv, FileCollector, Columned, Paired, Keyed
    <2> QED
      BY <2>1 DEF JobInv
  <1>2. CASE Collector \in Columned
    <2>1. File \in Seq(FileLine)
      BY <1>1, <1>2, FilesAreLines
    <2>2. TableAsItIs(out)
      BY <1>1, <1>2, <2>1, ColumnedAreFaithful
    <2> QED
      BY <1>2, <2>1, <2>2, TableIsFaithful
  <1>3. CASE Collector \in Paired
    <2>1. File \in Seq(FileLine)
      BY <1>1, <1>3, FilesAreLines
    <2>2. CASE Collector = "netstat"
      BY <1>1, <2>1, <2>2, ParseIs, NetstatIsFaithful
    <2>3. CASE Collector = "sockstat"
      BY <1>1, <2>1, <2>3, ParseIs, SockstatIsFaithful
    <2> QED
      BY <1>3, <2>2, <2>3 DEF Paired
  <1>4. CASE Collector \notin Columned \union Paired
    BY <1>4 DEF RecordsAreTheirLines, NothingLeftOut
  <1> QED
    BY <1>2, <1>3, <1>4

\* Every value of a record is the number in its own column of its own line.
THEOREM RecordsAreTheirLinesThm == Spec => []RecordsAreTheirLines
  <1>1. JobInv => RecordsAreTheirLines
    BY ParsersAreFaithful
  <1> QED
    BY JobInvariant, <1>1, PTL

\* A sample that is sent has everything the file says, and one that fails has
\* met something malformed or missing.
THEOREM NothingLeftOutThm == Spec => []NothingLeftOut
  <1>1. JobInv => NothingLeftOut
    BY ParsersAreFaithful
  <1> QED
    BY JobInvariant, <1>1, PTL

-----------------------------------------------------------------------------
(* RAID arrays *)

MdLines == [kind : STRING, tokens : Seq(STRING), geometry : {<<>>} \union (Nat \X Nat),
            action : STRING, percent : BOOLEAN]

Array == [words : Nat, level : BOOLEAN, total : Nat, active : Nat, failed : Nat, spare : Nat,
          degraded : BOOLEAN, action : {"none"} \union STRING, percent : BOOLEAN]

LEMMA CountsAre ==
    ASSUME NEW tokens \in Seq(STRING), NEW kinds
    PROVE  /\ IsFiniteSet({i \in DOMAIN tokens : tokens[i] \in kinds})
           /\ Counts(tokens, kinds) \in Nat
  <1>1. IsFiniteSet(1..Len(tokens)) /\ DOMAIN tokens = 1..Len(tokens)
    BY FS_Interval
  <1>2. {i \in DOMAIN tokens : tokens[i] \in kinds} \in SUBSET (1..Len(tokens))
    BY <1>1
  <1>3. IsFiniteSet({i \in DOMAIN tokens : tokens[i] \in kinds})
    BY <1>1, <1>2, FS_Subset
  <1> QED
    BY <1>3, FS_CardinalityType DEF Counts

\* Two kinds that are not the same are counted one by one.
LEMMA CountsAddUp ==
    ASSUME NEW tokens \in Seq(STRING), NEW S, NEW T, S \intersect T = {}
    PROVE  Counts(tokens, S \union T) = Counts(tokens, S) + Counts(tokens, T)
  <1> DEFINE of(kinds) == {i \in DOMAIN tokens : tokens[i] \in kinds}
  <1>1. IsFiniteSet(of(S)) /\ IsFiniteSet(of(T))
    BY CountsAre
  <1>2. of(S \union T) = of(S) \union of(T) /\ of(S) \intersect of(T) = {}
    OBVIOUS
  <1>3. Counts(tokens, S \union T) = Cardinality(of(S \union T))
        /\ Counts(tokens, S) = Cardinality(of(S)) /\ Counts(tokens, T) = Cardinality(of(T))
    BY DEF Counts
  <1>4. Counts(tokens, S) \in Nat /\ Counts(tokens, T) \in Nat
    BY CountsAre
  <1> HIDE DEF of
  <1>5. Cardinality(of(S) \union of(T))
        = Cardinality(of(S)) + Cardinality(of(T)) - Cardinality(of(S) \intersect of(T))
    BY <1>1, FS_Union
  <1>6. Cardinality(of(S) \intersect of(T)) = 0
    BY <1>2, FS_EmptySet
  <1>7. Cardinality(of(S \union T)) = Cardinality(of(S) \union of(T))
    BY <1>2
  <1> DEFINE a == Cardinality(of(S))
             b == Cardinality(of(T))
             c == Cardinality(of(S \union T))
  <1>8. a \in Nat /\ b \in Nat /\ c = a + b - 0
    BY <1>3, <1>4, <1>5, <1>6, <1>7
  <1>9. Counts(tokens, S \union T) = c /\ Counts(tokens, S) = a /\ Counts(tokens, T) = b
    BY <1>3
  <1> HIDE DEF a, b, c
  <1> QED
    BY <1>8, <1>9

LEMMA HeaderIs ==
    ASSUME NEW tokens \in Seq(STRING)
    PROVE  LET array == Header(tokens)
           IN  /\ array \in Array
               /\ array.total = array.active + array.failed + array.spare
               /\ array.failed = Counts(tokens, {"sd(F)"})
               /\ array.spare = Counts(tokens, {"sd(S)"})
               /\ array.action = "none" /\ array.degraded = FALSE
  <1> DEFINE levels == {i \in DOMAIN tokens : tokens[i] \in Level}
             words == {i \in DOMAIN tokens : tokens[i] = "word" /\ \A j \in levels : i < j}
  <1>1. Cardinality(words) \in Nat
    <2>1. words \in SUBSET {i \in DOMAIN tokens : tokens[i] \in {"word"}}
      OBVIOUS
    <2>2. IsFiniteSet({i \in DOMAIN tokens : tokens[i] \in {"word"}})
      BY CountsAre
    <2> HIDE DEF words
    <2> QED
      BY <2>1, <2>2, FS_Subset, FS_CardinalityType
  <1>2. Header(tokens) = [words |-> Cardinality(words), level |-> levels # {},
                          total |-> Counts(tokens, Member), active |-> Counts(tokens, {"sd"}),
                          failed |-> Counts(tokens, {"sd(F)"}), spare |-> Counts(tokens, {"sd(S)"}),
                          degraded |-> FALSE, action |-> "none", percent |-> FALSE]
    BY DEF Header
  <1> DEFINE level == levels # {}
             many == Cardinality(words)
  <1>3. level \in BOOLEAN
    OBVIOUS
  <1>4. /\ Counts(tokens, Member) \in Nat /\ Counts(tokens, {"sd"}) \in Nat
        /\ Counts(tokens, {"sd(F)"}) \in Nat /\ Counts(tokens, {"sd(S)"}) \in Nat
    BY CountsAre
  <1>5. Counts(tokens, Member)
        = Counts(tokens, {"sd"}) + Counts(tokens, {"sd(F)"}) + Counts(tokens, {"sd(S)"})
    <2>1. Counts(tokens, {"sd", "sd(F)"}) = Counts(tokens, {"sd"}) + Counts(tokens, {"sd(F)"})
      <3>1. {"sd", "sd(F)"} = {"sd"} \union {"sd(F)"} /\ {"sd"} \intersect {"sd(F)"} = {}
        OBVIOUS
      <3> QED
        BY <3>1, CountsAddUp
    <2>2. Counts(tokens, Member) = Counts(tokens, {"sd", "sd(F)"}) + Counts(tokens, {"sd(S)"})
      <3>1. Member = {"sd", "sd(F)"} \union {"sd(S)"} /\ {"sd", "sd(F)"} \intersect {"sd(S)"} = {}
        BY DEF Member
      <3> QED
        BY <3>1, CountsAddUp
    <2> QED
      BY <2>1, <2>2
  <1> HIDE DEF level, many
  <1>6. Header(tokens) = [words |-> many, level |-> level,
                          total |-> Counts(tokens, Member), active |-> Counts(tokens, {"sd"}),
                          failed |-> Counts(tokens, {"sd(F)"}), spare |-> Counts(tokens, {"sd(S)"}),
                          degraded |-> FALSE, action |-> "none", percent |-> FALSE]
    BY <1>2 DEF level, many
  <1>7. many \in Nat
    BY <1>1 DEF many
  <1> DEFINE array == Header(tokens)
  <1>8. array \in Array
    <2>1. [words |-> many, level |-> level,
           total |-> Counts(tokens, Member), active |-> Counts(tokens, {"sd"}),
           failed |-> Counts(tokens, {"sd(F)"}), spare |-> Counts(tokens, {"sd(S)"}),
           degraded |-> FALSE, action |-> "none", percent |-> FALSE] \in Array
      <3>1. "none" \in {"none"} \union STRING
        OBVIOUS
      <3>2. FALSE \in BOOLEAN
        OBVIOUS
      <3> QED
        BY <1>3, <1>4, <1>7, <3>1, <3>2, Zenon DEF Array
    <2> QED
      BY <1>6, <2>1, Zenon
  <1>9. /\ array.total = Counts(tokens, Member) /\ array.active = Counts(tokens, {"sd"})
        /\ array.failed = Counts(tokens, {"sd(F)"}) /\ array.spare = Counts(tokens, {"sd(S)"})
        /\ array.action = "none" /\ array.degraded = FALSE
    BY <1>6
  <1> HIDE DEF array
  <1>10. array.total = array.active + array.failed + array.spare
    BY <1>5, <1>9
  <1> QED
    BY <1>8, <1>9, <1>10 DEF array

\* What a line makes of the arrays so far.
LEMMA ScanIs ==
    ASSUME NEW stats \in Seq(Array), NEW line \in MdLines
    PROVE  /\ Scan(stats, line) \in Seq(Array)
           /\ line.kind = "array" => Scan(stats, line) = Append(stats, Header(line.tokens))
           /\ line.kind # "array" =>
                /\ Len(Scan(stats, line)) = Len(stats)
                /\ \A k \in 1..Len(stats) : k # Len(stats) => Scan(stats, line)[k] = stats[k]
                /\ stats # <<>> =>
                    LET old == stats[Len(stats)]
                        new == Scan(stats, line)[Len(stats)]
                    IN  IF line.kind = "blocks" /\ line.geometry # <<>>
                        THEN new = [old EXCEPT !.total = line.geometry[1],
                                               !.active = line.geometry[2],
                                               !.degraded = line.geometry[2] < line.geometry[1]]
                        ELSE IF line.kind = "progress"
                        THEN new = [old EXCEPT !.action = line.action, !.percent = line.percent]
                        ELSE new = old
  <1> DEFINE n == Len(stats)
             old == stats[n]
             shown == [old EXCEPT !.total = line.geometry[1], !.active = line.geometry[2],
                                  !.degraded = line.geometry[2] < line.geometry[1]]
             going == [old EXCEPT !.action = line.action, !.percent = line.percent]
  <1>1. CASE line.kind = "array"
    <2>1. Scan(stats, line) = Append(stats, Header(line.tokens))
      BY <1>1 DEF Scan
    <2>2. line.tokens \in Seq(STRING)
      BY DEF MdLines
    <2>3. Header(line.tokens) \in Array
      BY <2>2, HeaderIs
    <2>4. Append(stats, Header(line.tokens)) \in Seq(Array)
      BY <2>3
    <2> QED
      BY <1>1, <2>1, <2>4
  <1>2. CASE line.kind # "array" /\ stats = <<>>
    <2>1. Scan(stats, line) = stats
      BY <1>2 DEF Scan
    <2> QED
      BY <1>2, <2>1
  <1>3. CASE line.kind # "array" /\ stats # <<>>
    <2>1. n \in Nat /\ n \in 1..n /\ DOMAIN stats = 1..n /\ old \in Array
      BY <1>3
    <2>2. CASE line.kind = "blocks" /\ line.geometry # <<>>
      <3>1. line.geometry \in Nat \X Nat
        BY <2>2 DEF MdLines
      <3>2. shown \in Array
        <4>1. line.geometry[1] \in Nat /\ line.geometry[2] \in Nat
          BY <3>1
        <4>2. (line.geometry[2] < line.geometry[1]) \in BOOLEAN
          OBVIOUS
        <4> QED
          BY <2>1, <4>1, <4>2 DEF Array
      <3>3. Scan(stats, line) = [stats EXCEPT ![n] = shown]
        BY <1>3, <2>1, <2>2 DEF Scan, Array
      <3> HIDE DEF shown, old, n
      <3>4. [stats EXCEPT ![n] = shown] \in Seq(Array) /\ Len([stats EXCEPT ![n] = shown]) = n
        BY <2>1, <3>2 DEF n
      <3>5. /\ \A k \in 1..n : k # n => [stats EXCEPT ![n] = shown][k] = stats[k]
            /\ [stats EXCEPT ![n] = shown][n] = shown
        BY <2>1
      <3> QED
        BY <1>3, <2>2, <3>3, <3>4, <3>5 DEF shown, old, n
    <2>3. CASE ~(line.kind = "blocks" /\ line.geometry # <<>>) /\ line.kind = "progress"
      <3>1. going \in Array
        BY <2>1 DEF Array, MdLines
      <3>2. Scan(stats, line) = [stats EXCEPT ![n] = going]
        BY <1>3, <2>1, <2>3 DEF Scan, Array
      <3> HIDE DEF going, old, n
      <3>3. [stats EXCEPT ![n] = going] \in Seq(Array) /\ Len([stats EXCEPT ![n] = going]) = n
        BY <2>1, <3>1 DEF n
      <3>4. /\ \A k \in 1..n : k # n => [stats EXCEPT ![n] = going][k] = stats[k]
            /\ [stats EXCEPT ![n] = going][n] = going
        BY <2>1
      <3> QED
        BY <1>3, <2>3, <3>2, <3>3, <3>4 DEF going, old, n
    <2>4. CASE ~(line.kind = "blocks" /\ line.geometry # <<>>) /\ line.kind # "progress"
      <3>1. Scan(stats, line) = stats
        BY <1>3, <2>4 DEF Scan
      <3> QED
        BY <1>3, <2>4, <3>1
    <2> QED
      BY <2>2, <2>3, <2>4
  <1> QED
    BY <1>1, <1>2, <1>3

\* The loop as it runs: the arrays after each line.
LEMMA ScanRuns ==
    ASSUME NEW lines \in Seq(MdLines)
    PROVE  \E run \in [0..Len(lines) -> Seq(Array)] :
               /\ run[0] = <<>>
               /\ \A i \in 1..Len(lines) : run[i] = Scan(run[i - 1], lines[i])
               /\ FoldLeft(Scan, <<>>, lines) = run[Len(lines)]
  <1> DEFINE n == Len(lines)
             Solves(it) == it = [s \in SUBSET (1..n) |->
                                    IF s = {} THEN <<>>
                                    ELSE Scan(it[s \ {Max(s)}], lines[Max(s)])]
             iter == CHOOSE it : Solves(it)
  <1>1. FoldLeft(Scan, <<>>, lines) = iter[1..n]
    <2>1. DOMAIN lines = 1..n
      OBVIOUS
    <2> QED
      BY <2>1 DEF FoldLeft, MapThenFoldSet
  <1>2. n \in Nat /\ \A i \in 1..n : lines[i] \in MdLines
    OBVIOUS
  <1>3. <<>> \in Seq(Array)
    OBVIOUS
  <1> HIDE DEF n
  <1>4. \E it : Solves(it)
    <2> DEFINE next == [p \in Seq(Array) \X (1..n) |-> Scan(p[1], lines[p[2]])]
    <2>1. next \in [Seq(Array) \X (1..n) -> Seq(Array)]
      BY <1>2, ScanIs
    <2>2. \A v \in Seq(Array), i \in 1..n : next[<<v, i>>] = Scan(v, lines[i])
      OBVIOUS
    <2> HIDE DEF next
    <2>3. PICK f : IsFold(f, n, Seq(Array), <<>>, next)
      <3>1. Foldable(n, Seq(Array), <<>>, next)
        BY <1>2, <1>3, <2>1 DEF Foldable
      <3> QED
        BY <3>1, FoldExists
    <2>4. ASSUME NEW s \in SUBSET (1..n), s # {}
          PROVE  f[s] = Scan(f[s \ {Max(s)}], lines[Max(s)])
      <3>1. Max(s) \in 1..n
        BY <1>2, <2>4, s \in SUBSET (0..n), GreatestBelow
      <3>2. s \ {Max(s)} \in SUBSET (1..n)
        OBVIOUS
      <3>3. f[s \ {Max(s)}] \in Seq(Array)
        BY <2>3, <3>2 DEF IsFold
      <3> QED
        BY <2>2, <2>3, <2>4, <3>1, <3>3 DEF IsFold
    <2>5. f = [s \in SUBSET (1..n) |->
                  IF s = {} THEN <<>> ELSE Scan(f[s \ {Max(s)}], lines[Max(s)])]
      BY <2>3, <2>4 DEF IsFold
    <2> QED
      BY <2>5
  <1>5. Solves(iter)
    <2> HIDE DEF Solves
    <2> QED
      BY <1>4
  <1> HIDE DEF iter
  <1>6. \A s \in SUBSET (1..n) :
            iter[s] = IF s = {} THEN <<>> ELSE Scan(iter[s \ {Max(s)}], lines[Max(s)])
    BY <1>5
  <1> DEFINE run == [i \in 0..n |-> iter[1..i]]
             S == {i \in 0..n : run[i] \in Seq(Array)}
  <1>7. run[0] = <<>>
    <2>1. 1..0 = {} /\ {} \in SUBSET (1..n) /\ 0 \in 0..n
      BY <1>2
    <2>2. iter[{}] = <<>>
      BY <1>6, <2>1
    <2> QED
      BY <2>1, <2>2
  <1>8. ASSUME NEW i \in 1..n
        PROVE  run[i] = Scan(run[i - 1], lines[i])
    <2>1. Max(1..i) = i /\ (1..i) \ {i} = 1..i - 1
      <3>1. i \in Nat \ {0}
        BY <1>2
      <3> QED
        BY <3>1, LastOfFirst
    <2>2. i \in 0..n /\ i - 1 \in 0..n
      BY <1>2
    <2>3. \A x \in 1..i : x \in 1..n
      BY <1>2
    <2>4. 1..i \in SUBSET (1..n) /\ i \in 1..i
      BY <1>2, <2>3
    <2>5. iter[1..i] = Scan(iter[(1..i) \ {Max(1..i)}], lines[Max(1..i)])
      BY <1>6, <2>4
    <2>6. iter[1..i] = Scan(iter[1..i - 1], lines[i])
      BY <2>1, <2>5
    <2> QED
      BY <2>2, <2>6
  <1> HIDE DEF run
  <1>9. 0..n \subseteq S
    <2>1. 0 \in S
      <3>1. run[0] \in Seq(Array) /\ 0 \in 0..n
        BY <1>2, <1>3, <1>7
      <3> QED
        BY <3>1
    <2>2. ASSUME NEW k \in 0..n, k \in S, k < n
          PROVE  k + 1 \in S
      <3>1. k + 1 \in 1..n /\ k + 1 \in 0..n /\ (k + 1) - 1 = k
        BY <1>2, <2>2
      <3>2. run[k + 1] = Scan(run[k], lines[k + 1]) /\ lines[k + 1] \in MdLines
        BY <1>2, <1>8, <3>1
      <3> QED
        BY <2>2, <3>1, <3>2, ScanIs
    <2> HIDE DEF S
    <2> QED
      BY <1>2, <2>1, <2>2, InductionUpTo
  <1>10. run \in [0..n -> Seq(Array)] /\ run[n] = iter[1..n]
    BY <1>2, <1>9 DEF run
  <1> QED
    BY <1>1, <1>7, <1>8, <1>10 DEF n

\* The lines of arrays up to the i-th, and the place of the array of line h.
Heads(i) == {l \in DOMAIN File : l <= i /\ File[l].kind = "array"}

Place(h) == Cardinality(Heads(h))

LEMMA HeadsAre ==
    ASSUME File \in Seq(MdLines), NEW i \in 0..Len(File)
    PROVE  /\ IsFiniteSet(Heads(i)) /\ Place(i) \in Nat
           /\ \A h \in Heads(i) : Place(h) \in 1..Place(i)
           /\ \A h \in Heads(i) :
                  Place(h) = Place(i) <=> \A k \in h + 1..i : File[k].kind # "array"
           /\ \A h, g \in Heads(i) : h < g => Place(h) < Place(g)
  <1>1. DOMAIN File = 1..Len(File) /\ Len(File) \in Nat
    OBVIOUS
  <1>2. \A j : \A l : l \in Heads(j) <=> l \in 1..Len(File) /\ l <= j /\ File[l].kind = "array"
    BY <1>1 DEF Heads
  <1>3. ASSUME NEW j
        PROVE  IsFiniteSet(Heads(j)) /\ Place(j) \in Nat
    <2>1. IsFiniteSet(1..Len(File)) /\ Heads(j) \in SUBSET (1..Len(File))
      BY <1>1, <1>2, FS_Interval
    <2> QED
      BY <2>1, FS_Subset, FS_CardinalityType DEF Place
  <1>4. ASSUME NEW j \in 0..Len(File), NEW k \in 0..Len(File), j <= k
        PROVE  /\ Heads(j) \in SUBSET Heads(k) /\ Place(j) <= Place(k)
               /\ Place(j) = Place(k) => Heads(j) = Heads(k)
    <2>1. Heads(j) \in SUBSET Heads(k)
      BY <1>1, <1>2, <1>4
    <2> QED
      BY <1>3, <2>1, FS_Subset DEF Place
  <1>5. ASSUME NEW h \in Heads(i)
        PROVE  h \in 1..Len(File) /\ h \in 0..Len(File) /\ h <= i /\ h \in Heads(h)
    BY <1>1, <1>2
  <1>6. ASSUME NEW h \in Heads(i), NEW g \in Heads(i), h < g
        PROVE  Place(h) < Place(g)
    <2>1. g \notin Heads(h) /\ g \in Heads(g)
      BY <1>1, <1>2, <1>5, <1>6
    <2>2. Place(h) <= Place(g) /\ Place(h) # Place(g)
      BY <1>1, <1>4, <1>5, <1>6, <2>1
    <2> QED
      BY <1>3, <2>2
  <1>7. ASSUME NEW h \in Heads(i)
        PROVE  Place(h) \in 1..Place(i)
    <2>1. Place(h) <= Place(i) /\ Place(h) \in Nat /\ Place(i) \in Nat
      BY <1>3, <1>4, <1>5
    <2>2. Place(h) # 0
      BY <1>3, <1>5, FS_EmptySet DEF Place
    <2> QED
      BY <2>1, <2>2
  <1>8. ASSUME NEW h \in Heads(i)
        PROVE  Place(h) = Place(i) <=> \A k \in h + 1..i : File[k].kind # "array"
    <2>1. ASSUME Place(h) = Place(i), NEW k \in h + 1..i, File[k].kind = "array"
          PROVE  FALSE
      <3>1. k \in Heads(i) /\ k \notin Heads(h)
        BY <1>1, <1>2, <1>5, <2>1
      <3> QED
        BY <1>4, <1>5, <2>1, <3>1
    <2>2. ASSUME \A k \in h + 1..i : File[k].kind # "array"
          PROVE  Place(h) = Place(i)
      <3>1. ASSUME NEW l \in Heads(i)
            PROVE  l \in Heads(h)
        <4>1. l \in 1..Len(File) /\ l <= i /\ File[l].kind = "array"
          BY <1>2
        <4>2. l \notin h + 1..i
          BY <2>2, <4>1
        <4>3. l <= h
          BY <1>1, <1>5, <4>1, <4>2
        <4> QED
          BY <1>2, <4>1, <4>3
      <3>2. Heads(h) = Heads(i)
        BY <1>4, <1>5, <3>1
      <3> QED
        BY <3>2 DEF Place
    <2> QED
      BY <2>1, <2>2
  <1> QED
    BY <1>3, <1>6, <1>7, <1>8

\* One more line.
LEMMA HeadsGrow ==
    ASSUME File \in Seq(MdLines), NEW i \in 1..Len(File)
    PROVE  /\ File[i].kind = "array" =>
                  Heads(i) = Heads(i - 1) \union {i} /\ Place(i) = Place(i - 1) + 1
           /\ File[i].kind # "array" =>
                  Heads(i) = Heads(i - 1) /\ Place(i) = Place(i - 1)
  <1>1. DOMAIN File = 1..Len(File) /\ Len(File) \in Nat /\ i - 1 \in 0..Len(File)
    OBVIOUS
  <1>2. ASSUME NEW l
        PROVE  l \in Heads(i) <=> l \in Heads(i - 1) \/ (l = i /\ File[i].kind = "array")
    <2>1. CASE l \in DOMAIN File
      <3>1. l <= i <=> l <= i - 1 \/ l = i
        BY <1>1, <2>1
      <3> QED
        BY <2>1, <3>1 DEF Heads
    <2>2. CASE l \notin DOMAIN File
      BY <1>1, <2>2 DEF Heads
    <2> QED
      BY <2>1, <2>2
  <1>3. i \notin Heads(i - 1) /\ IsFiniteSet(Heads(i - 1))
    <2>1. ~(i <= i - 1)
      BY <1>1
    <2> QED
      BY <1>1, <2>1, HeadsAre DEF Heads
  <1>4. CASE File[i].kind = "array"
    <2>1. Heads(i) = Heads(i - 1) \union {i}
      BY <1>2, <1>4
    <2> QED
      BY <1>3, <1>4, <2>1, FS_AddElement DEF Place
  <1>5. CASE File[i].kind # "array"
    <2>1. \A l : l \in Heads(i) <=> l \in Heads(i - 1)
      BY <1>2, <1>5
    <2>2. Heads(i) = Heads(i - 1)
      BY <2>1
    <2> QED
      BY <1>5, <2>2 DEF Place
  <1> QED
    BY <1>4, <1>5

\* What the lines up to the i-th tell of the array of line h.
Tells(array, h, i) ==
    LET shown == {l \in Geometries(h) : l <= i}
        going == {l \in Progress(h) : l <= i}
    IN  /\ array.failed = Counts(File[h].tokens, {"sd(F)"})
        /\ array.spare = Counts(File[h].tokens, {"sd(S)"})
        /\ IF shown = {}
           THEN array.total = array.active + array.failed + array.spare /\ array.degraded = FALSE
           ELSE LET g == File[Max(shown)].geometry
                IN  array.total = g[1] /\ array.active = g[2] /\ array.degraded = (g[2] < g[1])
        /\ IF going = {} THEN array.action = "none" ELSE array.action = File[Max(going)].action

LEMMA LastIsMax ==
    ASSUME NEW i \in Nat, NEW S \in SUBSET (0..i), i \in S
    PROVE  Max(S) = i
  <1>1. Max(S) \in S /\ \A y \in S : Max(S) >= y
    BY GreatestBelow
  <1>2. Max(S) \in 0..i /\ Max(S) >= i
    BY <1>1
  <1> QED
    BY <1>2

\* A line that is not of the array leaves what is told of it; one that is, is
\* the last.
LEMMA OtherLines ==
    ASSUME File \in Seq(MdLines), NEW i \in 1..Len(File), NEW h \in Heads(i - 1)
    PROVE  /\ i \in Block(h) <=> File[i].kind # "array" /\ Place(h) = Place(i - 1)
           /\ \A S \in SUBSET Block(h) :
                  {l \in S : l <= i} = {l \in S : l <= i - 1} \union (S \intersect {i})
  <1>1. DOMAIN File = 1..Len(File) /\ Len(File) \in Nat /\ i - 1 \in 0..Len(File)
    OBVIOUS
  <1>2. h \in 1..Len(File) /\ h <= i - 1
    BY <1>1 DEF Heads
  <1>3. Place(h) = Place(i - 1) <=> \A k \in h + 1..i - 1 : File[k].kind # "array"
    BY <1>1, HeadsAre
  <1>4. i \in Block(h) <=> \A k \in h + 1..i : File[k].kind # "array"
    <2>1. i \in h + 1..Len(File)
      BY <1>1, <1>2
    <2> QED
      BY <2>1 DEF Block
  <1>5. \A k : k \in h + 1..i <=> k \in h + 1..i - 1 \/ k = i
    BY <1>1, <1>2
  <1>6. \A l \in Block(h) : l <= i <=> l <= i - 1 \/ l = i
    <2>1. \A l \in Block(h) : l \in Int
      BY <1>1, <1>2 DEF Block
    <2> QED
      BY <1>1, <2>1
  <1>7. ASSUME NEW S \in SUBSET Block(h)
        PROVE  {l \in S : l <= i} = {l \in S : l <= i - 1} \union (S \intersect {i})
    <2>1. \A l \in S : l <= i <=> l <= i - 1 \/ l = i
      BY <1>6
    <2> QED
      BY <2>1
  <1> QED
    BY <1>3, <1>4, <1>5, <1>7

LEMMA TellsNext ==
    ASSUME File \in Seq(MdLines), NEW i \in 1..Len(File), NEW h \in Heads(i - 1),
           NEW old \in Array, Tells(old, h, i - 1), NEW new,
           IF i \in Geometries(h)
           THEN new = [old EXCEPT !.total = File[i].geometry[1], !.active = File[i].geometry[2],
                                  !.degraded = File[i].geometry[2] < File[i].geometry[1]]
           ELSE IF i \in Progress(h)
           THEN new = [old EXCEPT !.action = File[i].action, !.percent = File[i].percent]
           ELSE new = old
    PROVE  Tells(new, h, i)
  <1> DEFINE shown(j) == {l \in Geometries(h) : l <= j}
             going(j) == {l \in Progress(h) : l <= j}
  <1>1. /\ shown(i) = shown(i - 1) \union (Geometries(h) \intersect {i})
        /\ going(i) = going(i - 1) \union (Progress(h) \intersect {i})
    <2>1. Geometries(h) \in SUBSET Block(h) /\ Progress(h) \in SUBSET Block(h)
      BY DEF Geometries, Progress
    <2> QED
      BY <2>1, OtherLines
  <1>2. shown(i) \in SUBSET (0..i) /\ going(i) \in SUBSET (0..i) /\ i \in Nat
    <2>1. i \in Nat /\ Len(File) \in Nat /\ h \in Nat
      BY DEF Heads
    <2>2. \A l \in Block(h) : l <= i => l \in 0..i
      BY <2>1 DEF Block
    <2> QED
      BY <2>1, <2>2 DEF Geometries, Progress
  <1>3. ~(i \in Geometries(h) /\ i \in Progress(h))
    BY DEF Geometries, Progress
  <1>4. /\ old.failed = Counts(File[h].tokens, {"sd(F)"})
        /\ old.spare = Counts(File[h].tokens, {"sd(S)"})
        /\ shown(i - 1) = {} => old.total = old.active + old.failed + old.spare /\ old.degraded = FALSE
        /\ shown(i - 1) # {} =>
              LET g == File[Max(shown(i - 1))].geometry
              IN  old.total = g[1] /\ old.active = g[2] /\ old.degraded = (g[2] < g[1])
        /\ going(i - 1) = {} => old.action = "none"
        /\ going(i - 1) # {} => old.action = File[Max(going(i - 1))].action
    BY DEF Tells
  <1> HIDE DEF shown, going
  <1>5. CASE i \in Geometries(h)
    <2>1. i \in shown(i) /\ going(i) = going(i - 1)
      BY <1>1, <1>3, <1>5
    <2>2. Max(shown(i)) = i /\ shown(i) # {}
      BY <1>2, <2>1, LastIsMax
    <2>3. /\ new.failed = old.failed /\ new.spare = old.spare /\ new.action = old.action
          /\ new.total = File[i].geometry[1] /\ new.active = File[i].geometry[2]
          /\ new.degraded = (File[i].geometry[2] < File[i].geometry[1])
      BY <1>5 DEF Array
    <2> QED
      BY <1>4, <2>1, <2>2, <2>3 DEF Tells, shown, going
  <1>6. CASE i \in Progress(h)
    <2>1. i \in going(i) /\ shown(i) = shown(i - 1)
      BY <1>1, <1>3, <1>6
    <2>2. Max(going(i)) = i /\ going(i) # {}
      BY <1>2, <2>1, LastIsMax
    <2>3. /\ new.failed = old.failed /\ new.spare = old.spare /\ new.action = File[i].action
          /\ new.total = old.total /\ new.active = old.active /\ new.degraded = old.degraded
      BY <1>3, <1>6 DEF Array
    <2> QED
      BY <1>4, <2>1, <2>2, <2>3 DEF Tells, shown, going
  <1>7. CASE i \notin Geometries(h) /\ i \notin Progress(h)
    <2>1. shown(i) = shown(i - 1) /\ going(i) = going(i - 1) /\ new = old
      BY <1>1, <1>7
    <2> QED
      BY <1>4, <2>1 DEF Tells, shown, going
  <1> QED
    BY <1>5, <1>6, <1>7

\* What the lines up to the i-th make: one array each, with what they tell of it.
ToldOfEach(stats, i) ==
    /\ stats \in Seq(Array) /\ Len(stats) = Place(i)
    /\ \A h \in Heads(i) : Tells(stats[Place(h)], h, i)

LEMMA OneMoreLine ==
    ASSUME File \in Seq(MdLines), NEW i \in 1..Len(File), NEW stats, ToldOfEach(stats, i - 1)
    PROVE  ToldOfEach(Scan(stats, File[i]), i)
  <1> DEFINE after == Scan(stats, File[i])
             line == File[i]
  <1>1. /\ DOMAIN File = 1..Len(File) /\ Len(File) \in Nat /\ i - 1 \in 0..Len(File)
        /\ i \in 0..Len(File) /\ line \in MdLines /\ i \in Nat
    OBVIOUS
  <1>2. /\ stats \in Seq(Array) /\ Len(stats) = Place(i - 1)
        /\ \A h \in Heads(i - 1) : Tells(stats[Place(h)], h, i - 1)
    BY DEF ToldOfEach
  <1>3. \A h \in Heads(i - 1) : Place(h) \in 1..Place(i - 1)
    BY <1>1, HeadsAre
  <1>4. Place(i - 1) \in Nat
    BY <1>1, HeadsAre
  <1>5. CASE line.kind = "array"
    <2>1. after = Append(stats, Header(line.tokens)) /\ after \in Seq(Array)
      BY <1>1, <1>2, <1>5, ScanIs
    <2>2. Heads(i) = Heads(i - 1) \union {i} /\ Place(i) = Place(i - 1) + 1
      BY <1>5, HeadsGrow
    <2>3. Len(after) = Place(i) /\ after[Place(i)] = Header(line.tokens)
          /\ \A k \in 1..Place(i - 1) : after[k] = stats[k]
      <3>1. Header(line.tokens) \in Array
        BY <1>1, HeaderIs DEF MdLines
      <3> QED
        BY <1>2, <1>4, <2>1, <2>2, <3>1
    <2>4. ASSUME NEW h \in Heads(i - 1)
          PROVE  Tells(after[Place(h)], h, i)
      <3>1. after[Place(h)] = stats[Place(h)]
        BY <1>3, <2>3
      <3>2. i \notin Geometries(h) /\ i \notin Progress(h)
        BY <1>5 DEF Geometries, Progress
      <3>3. stats[Place(h)] \in Array
        BY <1>2, <1>3
      <3> QED
        BY <1>2, <3>1, <3>2, <3>3, TellsNext
    <2>5. Tells(after[Place(i)], i, i)
      <3>1. {l \in Geometries(i) : l <= i} = {} /\ {l \in Progress(i) : l <= i} = {}
        <4>1. \A l \in Block(i) : ~(l <= i)
          BY <1>1 DEF Block
        <4> QED
          BY <4>1 DEF Geometries, Progress
      <3>2. line.tokens \in Seq(STRING)
        BY <1>1 DEF MdLines
      <3> DEFINE array == Header(line.tokens)
      <3>3. /\ array.total = array.active + array.failed + array.spare
            /\ array.failed = Counts(line.tokens, {"sd(F)"})
            /\ array.spare = Counts(line.tokens, {"sd(S)"})
            /\ array.action = "none" /\ array.degraded = FALSE
        BY <3>2, HeaderIs
      <3>4. after[Place(i)] = array
        BY <2>3
      <3> HIDE DEF array, after
      <3> QED
        BY <3>1, <3>3, <3>4 DEF Tells
    <2> HIDE DEF after
    <2>6. \A h \in Heads(i) : Tells(after[Place(h)], h, i)
      BY <2>2, <2>4, <2>5
    <2>7. ToldOfEach(after, i)
      BY <2>1, <2>3, <2>6 DEF ToldOfEach
    <2> QED
      BY <2>7 DEF after
  <1>6. CASE line.kind # "array"
    <2>1. Heads(i) = Heads(i - 1) /\ Place(i) = Place(i - 1)
      BY <1>6, HeadsGrow
    <2>2. after \in Seq(Array) /\ Len(after) = Len(stats)
          /\ \A k \in 1..Len(stats) : k # Len(stats) => after[k] = stats[k]
      BY <1>1, <1>2, <1>6, ScanIs
    <2>3. ASSUME NEW h \in Heads(i - 1)
          PROVE  Tells(after[Place(h)], h, i)
      <3> DEFINE old == stats[Place(h)]
                 new == after[Place(h)]
      <3>1. old \in Array /\ Tells(old, h, i - 1) /\ Place(h) \in 1..Len(stats)
        BY <1>2, <1>3
      <3>2. i \in Block(h) <=> Place(h) = Len(stats)
        BY <1>2, <1>6, OtherLines
      <3>3. CASE Place(h) = Len(stats)
        <4>1. stats # <<>>
          BY <1>2, <3>1
        <4>2. IF line.kind = "blocks" /\ line.geometry # <<>>
              THEN new = [old EXCEPT !.total = line.geometry[1],
                                     !.active = line.geometry[2],
                                     !.degraded = line.geometry[2] < line.geometry[1]]
              ELSE IF line.kind = "progress"
              THEN new = [old EXCEPT !.action = line.action, !.percent = line.percent]
              ELSE new = old
          <5> DEFINE a == stats[Len(stats)]
                     b == after[Len(stats)]
          <5>1. IF line.kind = "blocks" /\ line.geometry # <<>>
                THEN b = [a EXCEPT !.total = line.geometry[1],
                                   !.active = line.geometry[2],
                                   !.degraded = line.geometry[2] < line.geometry[1]]
                ELSE IF line.kind = "progress"
                THEN b = [a EXCEPT !.action = line.action, !.percent = line.percent]
                ELSE b = a
            BY <1>1, <1>2, <1>6, <4>1, ScanIs
          <5>2. a = old /\ b = new
            BY <3>3
          <5> HIDE DEF a, b, old, new
          <5> QED
            BY <5>1, <5>2
        <4>3. /\ i \in Geometries(h) <=> line.kind = "blocks" /\ line.geometry # <<>>
              /\ i \in Progress(h) <=> line.kind = "progress"
          BY <3>2, <3>3 DEF Geometries, Progress
        <4> HIDE DEF old, new
        <4> QED
          BY <3>1, <4>2, <4>3, TellsNext DEF new
      <3>4. CASE Place(h) # Len(stats)
        <4>1. i \notin Geometries(h) /\ i \notin Progress(h)
          BY <3>2, <3>4 DEF Geometries, Progress
        <4>2. new = old
          BY <2>2, <3>1, <3>4
        <4> HIDE DEF old, new
        <4> QED
          BY <3>1, <4>1, <4>2, TellsNext DEF new
      <3> QED
        BY <3>3, <3>4
    <2> HIDE DEF after
    <2>4. ToldOfEach(after, i)
      BY <1>2, <2>1, <2>2, <2>3 DEF ToldOfEach
    <2> QED
      BY <2>4 DEF after
  <1> QED
    BY <1>5, <1>6

\* Every array has its own geometry and its own progress, or none.
THEOREM ArraysOwnTheirLinesThm == Spec => []ArraysOwnTheirLines
  <1>1. JobInv => ArraysOwnTheirLines
    <2> SUFFICES ASSUME JobInv, parsed, Collector = "mdraid"
                 PROVE  LET heads == {l \in DOMAIN File : File[l].kind = "array"}
                        IN  /\ Len(out.stats) = Cardinality(heads)
                            /\ \A h \in heads :
                                LET array == out.stats[Cardinality({l \in heads : l <= h})]
                                    Has(kind) == Cardinality({t \in DOMAIN File[h].tokens :
                                                                 File[h].tokens[t] = kind})
                                IN  /\ array.failed = Has("sd(F)") /\ array.spare = Has("sd(S)")
                                    /\ IF Geometries(h) = {}
                                       THEN /\ array.total = array.active + array.failed + array.spare
                                            /\ ~array.degraded
                                       ELSE LET g == File[Max(Geometries(h))].geometry
                                            IN  /\ array.total = g[1] /\ array.active = g[2]
                                                /\ array.degraded = (g[2] < g[1])
                                    /\ IF Progress(h) = {} THEN array.action = "none"
                                       ELSE array.action = File[Max(Progress(h))].action
      BY DEF ArraysOwnTheirLines
    <2> DEFINE n == Len(File)
               heads == {l \in DOMAIN File : File[l].kind = "array"}
    <2>1. out = MdRaid(File) /\ File \in Seq(MdLines)
      <3>1. out = Parse(Collector, File) /\ File \in Files("mdraid")
        BY DEF JobInv
      <3>2. File \in Seq(MdLines)
        BY <3>1, FilesAssumption DEF MdLines
      <3> QED
        BY <3>1, <3>2, ParseIs
    <2>2. n \in Nat /\ DOMAIN File = 1..n
      BY <2>1
    <2>3. PICK run \in [0..n -> Seq(Array)] :
              /\ run[0] = <<>>
              /\ \A i \in 1..n : run[i] = Scan(run[i - 1], File[i])
              /\ FoldLeft(Scan, <<>>, File) = run[n]
      BY <2>1, ScanRuns
    <2>4. ToldOfEach(run[0], 0)
      <3>1. Heads(0) = {}
        BY <2>2 DEF Heads
      <3>2. Place(0) = 0
        BY <3>1, FS_EmptySet DEF Place
      <3> QED
        BY <2>3, <3>1, <3>2 DEF ToldOfEach
    <2> DEFINE S == {i \in 0..n : ToldOfEach(run[i], i)}
    <2>5. 0..n \subseteq S
      <3>1. 0 \in S
        BY <2>2, <2>4
      <3>2. ASSUME NEW i \in 0..n, i \in S, i < n
            PROVE  i + 1 \in S
        <4>1. i + 1 \in 1..n /\ i + 1 \in 0..n /\ (i + 1) - 1 = i
          BY <2>2, <3>2
        <4>2. run[i + 1] = Scan(run[i], File[i + 1])
          BY <2>3, <4>1
        <4>3. ToldOfEach(run[i], i)
          BY <3>2
        <4>4. ToldOfEach(Scan(run[i], File[i + 1]), i + 1)
          BY <2>1, <4>1, <4>3, OneMoreLine
        <4> QED
          BY <4>1, <4>2, <4>4
      <3> HIDE DEF S, n
      <3> QED
        BY <2>2, <3>1, <3>2, InductionUpTo
    <2>6. out.stats = run[n] /\ ToldOfEach(run[n], n)
      <3>1. out.stats = run[n]
        BY <2>1, <2>3 DEF MdRaid, Done
      <3>2. n \in 0..n
        BY <2>2
      <3> QED
        BY <2>5, <3>1, <3>2
    <2>7. heads = Heads(n) /\ \A h \in heads : {l \in heads : l <= h} = Heads(h)
      BY <2>2 DEF Heads
    <2>8. Len(out.stats) = Cardinality(heads)
      BY <2>6, <2>7 DEF ToldOfEach, Place
    <2>9. ASSUME NEW h \in heads
          PROVE  /\ Cardinality({l \in heads : l <= h}) = Place(h)
                 /\ Tells(out.stats[Place(h)], h, n)
                 /\ {l \in Geometries(h) : l <= n} = Geometries(h)
                 /\ {l \in Progress(h) : l <= n} = Progress(h)
      <3>1. Tells(out.stats[Place(h)], h, n)
        BY <2>6, <2>7 DEF ToldOfEach
      <3>2. \A l \in Block(h) : l <= n
        BY <2>2 DEF Block
      <3> QED
        BY <2>7, <3>1, <3>2 DEF Place, Geometries, Progress
    <2>10. ASSUME NEW h \in heads, NEW kind
           PROVE  Counts(File[h].tokens, {kind})
                  = Cardinality({t \in DOMAIN File[h].tokens : File[h].tokens[t] = kind})
      <3>1. {t \in DOMAIN File[h].tokens : File[h].tokens[t] \in {kind}}
            = {t \in DOMAIN File[h].tokens : File[h].tokens[t] = kind}
        OBVIOUS
      <3> QED
        BY <3>1 DEF Counts
    <2>11. ASSUME NEW h \in heads
           PROVE  LET array == out.stats[Cardinality({l \in heads : l <= h})]
                      Has(kind) == Cardinality({t \in DOMAIN File[h].tokens :
                                                   File[h].tokens[t] = kind})
                  IN  /\ array.failed = Has("sd(F)") /\ array.spare = Has("sd(S)")
                      /\ IF Geometries(h) = {}
                         THEN /\ array.total = array.active + array.failed + array.spare
                              /\ ~array.degraded
                         ELSE LET g == File[Max(Geometries(h))].geometry
                              IN  /\ array.total = g[1] /\ array.active = g[2]
                                  /\ array.degraded = (g[2] < g[1])
                      /\ IF Progress(h) = {} THEN array.action = "none"
                         ELSE array.action = File[Max(Progress(h))].action
      <3> DEFINE array == out.stats[Place(h)]
      <3>1. /\ array.failed = Counts(File[h].tokens, {"sd(F)"})
            /\ array.spare = Counts(File[h].tokens, {"sd(S)"})
            /\ IF Geometries(h) = {}
               THEN array.total = array.active + array.failed + array.spare /\ array.degraded = FALSE
               ELSE LET g == File[Max(Geometries(h))].geometry
                    IN  array.total = g[1] /\ array.active = g[2] /\ array.degraded = (g[2] < g[1])
            /\ IF Progress(h) = {} THEN array.action = "none"
               ELSE array.action = File[Max(Progress(h))].action
        BY <2>9 DEF Tells
      <3>2. out.stats[Cardinality({l \in heads : l <= h})] = array
        BY <2>9
      <3>3. /\ Counts(File[h].tokens, {"sd(F)"})
               = Cardinality({t \in DOMAIN File[h].tokens : File[h].tokens[t] = "sd(F)"})
            /\ Counts(File[h].tokens, {"sd(S)"})
               = Cardinality({t \in DOMAIN File[h].tokens : File[h].tokens[t] = "sd(S)"})
        BY <2>10
      <3> HIDE DEF array
      <3> QED
        BY <3>1, <3>2, <3>3
    <2> QED
      BY <2>8, <2>11
  <1> QED
    BY JobInvariant, <1>1, PTL

-----------------------------------------------------------------------------
(* Mount points *)

\* The sequences one after the other, each behind those before it.
Concatenated(T, n, seqs, upto) ==
    /\ upto \in [0..n -> Seq(T)]
    /\ \A i \in 1..n : seqs[i] \in Seq(T) /\ upto[i] = upto[i - 1] \o seqs[i]

EachAtItsPlace(n, seqs, upto) ==
    \A i \in 1..n :
        /\ Len(upto[i]) = Len(upto[i - 1]) + Len(seqs[i])
        /\ Len(upto[i]) <= Len(upto[n])
        /\ \A j \in 1..Len(seqs[i]) : upto[n][Len(upto[i - 1]) + j] = seqs[i][j]

LEMMA FlatPrefix ==
    ASSUME NEW T, NEW n \in Nat, NEW seqs, NEW upto, Concatenated(T, n, seqs, upto)
    PROVE  EachAtItsPlace(n, seqs, upto)
  <1> USE DEF Concatenated
  <1> DEFINE Within(i, k) == /\ Len(upto[i]) <= Len(upto[k])
                             /\ \A x \in 1..Len(upto[i]) : upto[k][x] = upto[i][x]
             S == {k \in 0..n : \A i \in 0..k : Within(i, k)}
  <1>1. ASSUME NEW i \in 1..n
        PROVE  /\ i - 1 \in 0..n /\ i \in 0..n /\ upto[i] = upto[i - 1] \o seqs[i]
               /\ upto[i] \in Seq(T) /\ upto[i - 1] \in Seq(T) /\ seqs[i] \in Seq(T)
    <2>1. i - 1 \in 0..n /\ i \in 0..n
      OBVIOUS
    <2>2. upto[i] \in Seq(T) /\ upto[i - 1] \in Seq(T)
      BY <2>1
    <2> QED
      BY <2>1, <2>2
  <1>2. ASSUME NEW i \in 1..n
        PROVE  /\ Len(upto[i]) = Len(upto[i - 1]) + Len(seqs[i])
               /\ Len(upto[i]) \in Nat /\ Len(upto[i - 1]) \in Nat /\ Len(seqs[i]) \in Nat
               /\ \A x \in 1..Len(upto[i - 1]) : upto[i][x] = upto[i - 1][x]
               /\ \A j \in 1..Len(seqs[i]) : upto[i][Len(upto[i - 1]) + j] = seqs[i][j]
    <2> DEFINE a == upto[i - 1]
               b == seqs[i]
               c == upto[i]
    <2>1. a \in Seq(T) /\ b \in Seq(T) /\ c = a \o b
      BY <1>1
    <2> HIDE DEF a, b, c
    <2>2. Len(c) = Len(a) + Len(b) /\ Len(a) \in Nat /\ Len(b) \in Nat
      BY <2>1
    <2>3. \A x \in 1..Len(a) : c[x] = a[x]
      BY <2>1
    <2>4. \A j \in 1..Len(b) : c[Len(a) + j] = b[j]
      BY <2>1
    <2>5. Len(c) \in Nat
      BY <2>2
    <2> QED
      BY <2>2, <2>3, <2>4, <2>5 DEF a, b, c
  <1>3. 0 \in S
    <2>1. Len(upto[0]) \in Nat /\ 0 \in 0..n /\ \A i \in 0..0 : i = 0
      OBVIOUS
    <2> QED
      BY <2>1
  <1>4. ASSUME NEW k \in 0..n, k \in S, k < n
        PROVE  k + 1 \in S
    <2>1. k + 1 \in 1..n /\ k + 1 \in 0..n /\ (k + 1) - 1 = k
      BY <1>4
    <2>2. ASSUME NEW i \in 0..k + 1
          PROVE  Within(i, k + 1)
      <3>1. CASE i = k + 1
        <4>1. Len(upto[k + 1]) \in Nat
          BY <1>2, <2>1
        <4> QED
          BY <3>1, <4>1
      <3>2. CASE i # k + 1
        <4>1. i \in 0..k /\ i \in 0..n
          BY <2>1, <3>2
        <4>2. Len(upto[i]) <= Len(upto[k]) /\ \A x \in 1..Len(upto[i]) : upto[k][x] = upto[i][x]
          BY <1>4, <4>1
        <4>3. /\ Len(upto[k + 1]) = Len(upto[k]) + Len(seqs[k + 1])
              /\ Len(upto[k]) \in Nat /\ Len(seqs[k + 1]) \in Nat
              /\ \A x \in 1..Len(upto[k]) : upto[k + 1][x] = upto[k][x]
          <5> DEFINE low == (k + 1) - 1
          <5>1. /\ Len(upto[k + 1]) = Len(upto[low]) + Len(seqs[k + 1])
                /\ Len(upto[low]) \in Nat /\ Len(seqs[k + 1]) \in Nat
                /\ \A x \in 1..Len(upto[low]) : upto[k + 1][x] = upto[low][x]
            BY <1>2, <2>1
          <5>2. low = k
            BY <2>1
          <5> HIDE DEF low
          <5> QED
            BY <5>1, <5>2
        <4>4. Len(upto[i]) \in Nat
          BY <4>1
        <4>5. Len(upto[i]) <= Len(upto[k + 1])
          BY <4>2, <4>3, <4>4
        <4>6. \A x \in 1..Len(upto[i]) : x \in 1..Len(upto[k])
          BY <4>2, <4>3, <4>4
        <4> QED
          BY <4>2, <4>3, <4>5, <4>6
      <3> QED
        BY <3>1, <3>2
    <2> HIDE DEF Within
    <2> QED
      BY <2>1, <2>2
  <1>5. n \in S
    <2> HIDE DEF S
    <2>1. 0..n \subseteq S
      BY <1>3, <1>4, InductionUpTo
    <2> QED
      BY <2>1
  <1>6. ASSUME NEW i \in 1..n
        PROVE  /\ Len(upto[i]) = Len(upto[i - 1]) + Len(seqs[i])
               /\ Len(upto[i]) <= Len(upto[n])
               /\ \A j \in 1..Len(seqs[i]) : upto[n][Len(upto[i - 1]) + j] = seqs[i][j]
    <2>1. Len(upto[i]) <= Len(upto[n]) /\ \A x \in 1..Len(upto[i]) : upto[n][x] = upto[i][x]
      <3>1. i \in 0..n
        OBVIOUS
      <3> QED
        BY <1>5, <3>1
    <2>2. ASSUME NEW j \in 1..Len(seqs[i])
          PROVE  upto[n][Len(upto[i - 1]) + j] = seqs[i][j]
      <3>1. Len(upto[i - 1]) + j \in 1..Len(upto[i])
        <4>1. /\ Len(upto[i]) = Len(upto[i - 1]) + Len(seqs[i])
              /\ Len(upto[i - 1]) \in Nat /\ Len(seqs[i]) \in Nat
          BY <1>2
        <4> DEFINE a == Len(upto[i - 1])
                   b == Len(seqs[i])
                   c == Len(upto[i])
        <4>2. c = a + b /\ a \in Nat /\ b \in Nat /\ j \in 1..b
          BY <4>1
        <4> HIDE DEF a, b, c
        <4>3. a + j \in 1..c
          BY <4>2
        <4> QED
          BY <4>3 DEF a, c
      <3>2. upto[i][Len(upto[i - 1]) + j] = seqs[i][j]
        BY <1>2
      <3> QED
        BY <2>1, <3>1, <3>2
    <2> QED
      BY <1>2, <2>1, <2>2
  <1> QED
    BY <1>6 DEF EachAtItsPlace

\* The bytes of a character in the table of mounts.
Piece(c) ==
    IF c \in {9, 10, 32, Backslash}
    THEN <<Backslash, 48 + c \div 64, 48 + ((c \div 8) % 8), 48 + (c % 8)>>
    ELSE <<c>>

Escape(field, i) ==
    field[i] = Backslash /\ i + 3 <= Len(field) /\ \A k \in 1..3 : field[i + k] \in Digit

Octal(field, i) ==
    ((field[i + 1] - 48) * 64 + (field[i + 2] - 48) * 8 + field[i + 3] - 48) % 256

LEMMA PieceIs ==
    ASSUME NEW c \in 1..255
    PROVE  /\ Piece(c) \in Seq(0..255)
           /\ \/ /\ Len(Piece(c)) = 1 /\ Piece(c)[1] = c /\ c # Backslash
              \/ /\ Len(Piece(c)) = 4 /\ Piece(c)[1] = Backslash
                 /\ Piece(c)[2] \in Digit /\ Piece(c)[3] \in Digit /\ Piece(c)[4] \in Digit
                 /\ Octal(Piece(c), 1) = c
  <1> USE DEF Backslash, Digit
  <1>1. CASE c \notin {9, 10, 32, Backslash}
    <2>1. Piece(c) = <<c>> /\ c \in 0..255
      BY <1>1 DEF Piece
    <2>2. <<c>> \in Seq(0..255) /\ Len(<<c>>) = 1 /\ <<c>>[1] = c
      BY <2>1
    <2> QED
      BY <1>1, <2>1, <2>2
  <1>2. ASSUME NEW x \in 48..55, NEW y \in 48..55, NEW z \in 48..55, Piece(c) = <<92, x, y, z>>,
               ((x - 48) * 64 + (y - 48) * 8 + z - 48) % 256 = c
        PROVE  /\ Piece(c) \in Seq(0..255)
               /\ Len(Piece(c)) = 4 /\ Piece(c)[1] = Backslash
               /\ Piece(c)[2] \in Digit /\ Piece(c)[3] \in Digit /\ Piece(c)[4] \in Digit
               /\ Octal(Piece(c), 1) = c
    <2> DEFINE p == <<92, x, y, z>>
    <2>1. p \in Seq(0..255) /\ Len(p) = 4
      OBVIOUS
    <2>2. p[1] = 92 /\ p[2] = x /\ p[3] = y /\ p[4] = z
      OBVIOUS
    <2>3. p[1 + 1] = x /\ p[1 + 2] = y /\ p[1 + 3] = z
      BY <2>2
    <2>4. Piece(c) = p
      BY <1>2
    <2> HIDE DEF p
    <2>5. Octal(p, 1) = c
      BY <1>2, <2>3 DEF Octal
    <2> QED
      BY <2>1, <2>2, <2>4, <2>5
  <1>3. CASE c = 9
    <2>1. Piece(c) = <<92, 48, 49, 49>>
      BY <1>3 DEF Piece
    <2> QED
      BY <1>2, <1>3, <2>1
  <1>4. CASE c = 10
    <2>1. Piece(c) = <<92, 48, 49, 50>>
      BY <1>4 DEF Piece
    <2> QED
      BY <1>2, <1>4, <2>1
  <1>5. CASE c = 32
    <2>1. Piece(c) = <<92, 48, 52, 48>>
      BY <1>5 DEF Piece
    <2> QED
      BY <1>2, <1>5, <2>1
  <1>6. CASE c = 92
    <2>1. Piece(c) = <<92, 49, 51, 52>>
      BY <1>6 DEF Piece
    <2> QED
      BY <1>2, <1>6, <2>1
  <1> QED
    BY <1>1, <1>3, <1>4, <1>5, <1>6

\* unescape_mount_field as it runs: what is left from each byte on.
LEMMA UnescapeRuns ==
    ASSUME NEW field \in Seq(0..255)
    PROVE  \E from \in [1..Len(field) + 1 -> Seq(Nat)] :
               /\ from[Len(field) + 1] = <<>>
               /\ \A i \in 1..Len(field) :
                      from[i] = IF Escape(field, i) THEN <<Octal(field, i)>> \o from[i + 4]
                                ELSE <<field[i]>> \o from[i + 1]
               /\ Unescape(field) = from[1]
  <1> DEFINE n == Len(field)
             D == 1..n + 1
             V == Seq(Nat)
             value(f, i) == IF i > n THEN <<>>
                            ELSE IF Escape(field, i) THEN <<Octal(field, i)>> \o f[i + 4]
                            ELSE <<field[i]>> \o f[i + 1]
             body == [p \in [D -> V] \X D |-> value(p[1], p[2])]
             rank == [i \in D |-> n + 1 - i]
             from == CHOOSE f : f = [i \in D |-> value(f, i)]
  <1>1. n \in Nat /\ \A i \in 1..n : field[i] \in Nat
    <2>1. n \in Nat /\ \A i \in 1..n : field[i] \in 0..255
      BY ElementOfSeq
    <2>2. \A x \in 0..255 : x \in Nat
      OBVIOUS
    <2> HIDE DEF n
    <2> QED
      BY <2>1, <2>2
  <1>2. Unescape(field) = from[1]
    BY DEF Unescape, Escape, Octal
  <1>3. ASSUME NEW i \in 1..n
        PROVE  /\ i + 1 \in D
               /\ Escape(field, i) => i + 4 \in D /\ Octal(field, i) \in Nat
    <2>1. i + 1 \in D
      BY <1>1
    <2>2. ASSUME Escape(field, i)
          PROVE  i + 4 \in D /\ Octal(field, i) \in Nat
      <3>1. i + 3 <= n /\ \A k \in 1..3 : field[i + k] \in Digit
        BY <2>2 DEF Escape
      <3>2. field[i + 1] \in Nat /\ field[i + 2] \in Nat /\ field[i + 3] \in Nat
        <4>1. \A x \in Digit : x \in Nat
          BY DEF Digit
        <4>2. 1 \in 1..3 /\ 2 \in 1..3 /\ 3 \in 1..3
          OBVIOUS
        <4> QED
          BY <3>1, <4>1, <4>2, Zenon
      <3>3. Octal(field, i) \in Nat
        <4> DEFINE x == field[i + 1]
                   y == field[i + 2]
                   z == field[i + 3]
        <4>1. Octal(field, i) = ((x - 48) * 64 + (y - 48) * 8 + z - 48) % 256
          BY DEF Octal
        <4>2. x \in Int /\ y \in Int /\ z \in Int
          BY <3>2
        <4> HIDE DEF x, y, z
        <4> QED
          BY <4>1, <4>2
      <3> QED
        BY <1>1, <3>1, <3>3
    <2> QED
      BY <2>1, <2>2
  <1>4. ASSUME NEW f \in [D -> V], NEW i \in D
        PROVE  value(f, i) \in V
    <2>1. CASE i > n
      BY <2>1
    <2>2. CASE ~(i > n) /\ Escape(field, i)
      <3>1. i \in 1..n
        BY <1>1, <2>2
      <3>2. Octal(field, i) \in Nat /\ f[i + 4] \in V
        BY <1>3, <2>2, <3>1
      <3>3. <<Octal(field, i)>> \in V
        BY <3>2
      <3>4. <<Octal(field, i)>> \o f[i + 4] \in V
        BY <3>2, <3>3
      <3> QED
        BY <2>2, <3>4
    <2>3. CASE ~(i > n) /\ ~Escape(field, i)
      <3>1. i \in 1..n
        BY <1>1, <2>3
      <3>2. field[i] \in Nat /\ f[i + 1] \in V
        BY <1>1, <1>3, <3>1
      <3>3. <<field[i]>> \in V
        BY <3>2
      <3>4. <<field[i]>> \o f[i + 1] \in V
        BY <3>2, <3>3
      <3> QED
        BY <2>3, <3>4
    <2> QED
      BY <2>1, <2>2, <2>3
  <1>5. \E f \in [D -> V] : f = [i \in D |-> value(f, i)]
    <2>1. body \in [[D -> V] \X D -> V]
      BY <1>4
    <2>2. \A f \in [D -> V], i \in D : body[<<f, i>>] = value(f, i)
      OBVIOUS
    <2>3. rank \in [D -> 0..n] /\ \A i \in D : rank[i] = n + 1 - i
      BY <1>1
    <2>4. <<>> \in V
      OBVIOUS
    <2>5. ASSUME NEW f \in [D -> V], NEW g \in [D -> V], NEW i \in D,
                 \A e \in D : rank[e] < rank[i] => f[e] = g[e]
          PROVE  value(f, i) = value(g, i)
      <3>1. CASE i > n
        BY <3>1
      <3>2. CASE ~(i > n)
        <4>1. i \in 1..n
          BY <1>1, <3>2
        <4>2. i + 1 \in D /\ rank[i + 1] < rank[i]
          BY <1>1, <1>3, <2>3, <4>1
        <4>3. Escape(field, i) => i + 4 \in D /\ rank[i + 4] < rank[i]
          BY <1>1, <1>3, <2>3, <4>1
        <4>4. f[i + 1] = g[i + 1] /\ (Escape(field, i) => f[i + 4] = g[i + 4])
          BY <2>5, <4>2, <4>3
        <4> HIDE DEF rank, body
        <4> QED
          BY <4>4
      <3> QED
        BY <3>1, <3>2
    <2> HIDE DEF body, rank, value, D
    <2>6. \A f, g \in [D -> V], i \in D :
              (\A e \in D : rank[e] < rank[i] => f[e] = g[e]) => body[<<f, i>>] = body[<<g, i>>]
      <3>1. ASSUME NEW f \in [D -> V], NEW g \in [D -> V], NEW i \in D,
                   \A e \in D : rank[e] < rank[i] => f[e] = g[e]
            PROVE  body[<<f, i>>] = body[<<g, i>>]
        <4>1. value(f, i) = value(g, i)
          BY <2>5, <3>1
        <4> QED
          BY <2>2, <4>1
      <3> QED
        BY <3>1
    <2> HIDE DEF V, n
    <2>7. Descends(D, V, n, rank, body)
      BY <1>1, <2>1, <2>3, <2>4, <2>6 DEF Descends
    <2>8. PICK f \in [D -> V] : f = [i \in D |-> body[<<f, i>>]]
      BY <2>7, RecursiveFunction
    <2>9. f = [i \in D |-> value(f, i)]
      BY <2>2, <2>8
    <2> QED
      BY <2>9
  <1>6. from = [i \in D |-> value(from, i)]
    <2> HIDE DEF value, D, V
    <2> QED
      BY <1>5
  <1> HIDE DEF from
  <1>7. /\ DOMAIN from = D /\ from[n + 1] = <<>>
        /\ \A i \in 1..n :
               from[i] = IF Escape(field, i) THEN <<Octal(field, i)>> \o from[i + 4]
                         ELSE <<field[i]>> \o from[i + 1]
    <2>1. \A i \in D : from[i] = value(from, i)
      <3> HIDE DEF value
      <3> QED
        BY <1>6
    <2>2. n + 1 \in D /\ n + 1 > n
      BY <1>1
    <2>3. \A i \in 1..n : i \in D /\ ~(i > n)
      BY <1>1
    <2> HIDE DEF D
    <2>4. DOMAIN from = D
      BY <1>6
    <2> QED
      BY <2>1, <2>2, <2>3, <2>4
  <1> DEFINE S == {k \in 0..n : \A i \in D : n + 1 - i <= k => from[i] \in V}
  <1>8. 0 \in S
    <2>1. \A i \in D : n + 1 - i <= 0 => i = n + 1
      BY <1>1
    <2>2. <<>> \in V
      OBVIOUS
    <2> HIDE DEF V
    <2> QED
      BY <1>1, <1>7, <2>1, <2>2
  <1>9. ASSUME NEW k \in 0..n, k \in S, k < n
        PROVE  k + 1 \in S
    <2>1. ASSUME NEW i \in D, n + 1 - i <= k + 1
          PROVE  from[i] \in V
      <3>1. CASE n + 1 - i <= k
        BY <1>9, <3>1
      <3>2. CASE ~(n + 1 - i <= k)
        <4>1. i \in 1..n /\ n + 1 - (i + 1) <= k /\ n + 1 - (i + 4) <= k
          BY <1>1, <2>1, <3>2
        <4>2. i + 1 \in D /\ (Escape(field, i) => i + 4 \in D /\ Octal(field, i) \in Nat)
          BY <1>3, <4>1
        <4>3. from[i + 1] \in V /\ (Escape(field, i) => from[i + 4] \in V)
          BY <1>9, <4>1, <4>2
        <4>4. Escape(field, i) => <<Octal(field, i)>> \o from[i + 4] \in V
          BY <4>2, <4>3
        <4>5. <<field[i]>> \o from[i + 1] \in V
          BY <1>1, <4>1, <4>3
        <4> HIDE DEF V
        <4> QED
          BY <1>7, <4>1, <4>4, <4>5
      <3> QED
        BY <3>1, <3>2
    <2>2. k + 1 \in 0..n
      BY <1>1, <1>9
    <2> HIDE DEF D, V
    <2> QED
      BY <2>1, <2>2
  <1>10. \A i \in D : from[i] \in V
    <2>1. 0..n \subseteq S
      <3> HIDE DEF S
      <3> QED
        BY <1>1, <1>8, <1>9, InductionUpTo
    <2>2. n \in S
      BY <1>1, <2>1
    <2>3. \A i \in D : n + 1 - i <= n
      BY <1>1
    <2> HIDE DEF D, V
    <2> QED
      BY <2>2, <2>3
  <1>11. from \in [D -> V]
    <2> HIDE DEF D, V, value
    <2> QED
      BY <1>6, <1>10
  <1> QED
    BY <1>2, <1>7, <1>11

LEMMA WiderSeq ==
    ASSUME NEW S, NEW T, S \subseteq T, NEW s \in Seq(S)
    PROVE  s \in Seq(T)
  OBVIOUS

LEMMA OneInFront ==
    ASSUME NEW T, NEW x \in T, NEW s \in Seq(T)
    PROVE  /\ <<x>> \o s \in Seq(T) /\ Len(<<x>> \o s) = Len(s) + 1
           /\ (<<x>> \o s)[1] = x
           /\ \A j \in 1..Len(s) : (<<x>> \o s)[j + 1] = s[j]
  <1>1. <<x>> \in Seq(T) /\ Len(<<x>>) = 1 /\ <<x>>[1] = x
    OBVIOUS
  <1> DEFINE one == <<x>>
             whole == one \o s
  <1>2. one \in Seq(T) /\ Len(one) = 1 /\ one[1] = x
    BY <1>1
  <1> HIDE DEF one
  <1> DEFINE n == Len(s)
  <1>3. n \in Nat
    OBVIOUS
  <1>4. /\ whole \in Seq(T) /\ Len(whole) = Len(one) + Len(s)
        /\ \A i \in 1..Len(one) + Len(s) :
               whole[i] = IF i <= Len(one) THEN one[i] ELSE s[i - Len(one)]
    BY <1>2, ConcatProperties, Zenon
  <1> HIDE DEF n, whole
  <1>5. /\ Len(whole) = 1 + n
        /\ \A i \in 1..1 + n : whole[i] = IF i <= 1 THEN one[i] ELSE s[i - 1]
    BY <1>2, <1>4 DEF n
  <1>6. Len(whole) = n + 1 /\ whole[1] = x
    BY <1>2, <1>3, <1>5
  <1>7. ASSUME NEW j \in 1..n
        PROVE  whole[j + 1] = s[j]
    <2>1. j + 1 \in 1..1 + n /\ ~(j + 1 <= 1) /\ (j + 1) - 1 = j
      BY <1>3
    <2> QED
      BY <1>5, <2>1
  <1> QED
    BY <1>4, <1>6, <1>7 DEF one, whole, n

LEMMA UnescapeGivesBack ==
    ASSUME NEW path \in Seq(1..255)
    PROVE  Unescape(Mangled(path)) = path
  <1> DEFINE n == Len(path)
             seqs == [i \in 1..n |-> Piece(path[i])]
             field == Mangled(path)
             T == 0..255
  <1>1. n \in Nat /\ DOMAIN path = 1..n /\ \A i \in 1..n : path[i] \in 1..255
    BY ElementOfSeq
  <1>2. field = FlattenSeq(seqs)
    BY <1>1 DEF Mangled, Piece
  <1> HIDE DEF n, field
  <1>3. /\ seqs \in Seq(Seq(T)) /\ Len(seqs) = n
        /\ \A i \in 1..n : seqs[i] = Piece(path[i]) /\ seqs[i] \in Seq(T)
    <2>1. \A i \in 1..n : Piece(path[i]) \in Seq(T)
      BY <1>1, PieceIs
    <2> HIDE DEF T
    <2>2. seqs \in [1..n -> Seq(T)]
      BY <2>1
    <2>3. \A i \in 1..n : seqs[i] = Piece(path[i])
      OBVIOUS
    <2> HIDE DEF seqs
    <2> QED
      BY <1>1, <2>1, <2>2, <2>3
  <1> HIDE DEF seqs
  <1>4. PICK upto \in [0..n -> Seq(T)] :
            /\ upto[0] = <<>>
            /\ \A i \in 1..n : upto[i] = upto[i - 1] \o seqs[i]
            /\ FlattenSeq(seqs) = upto[n]
    <2> HIDE DEF T
    <2>1. \E upto \in [0..Len(seqs) -> Seq(T)] :
              /\ upto[0] = <<>>
              /\ \A i \in 1..Len(seqs) : upto[i] = upto[i - 1] \o seqs[i]
              /\ FlattenSeq(seqs) = upto[Len(seqs)]
      BY <1>3, FlatRuns
    <2> QED
      BY <1>3, <2>1, Zenon
  <1> DEFINE Off(k) == Len(upto[k])
  <1>5. ASSUME NEW i \in 1..n
        PROVE  /\ Off(i) = Off(i - 1) + Len(seqs[i]) /\ Off(i) <= Off(n)
               /\ \A j \in 1..Len(seqs[i]) : field[Off(i - 1) + j] = seqs[i][j]
    <2> HIDE DEF T
    <2>1. \A k \in 1..n : seqs[k] \in Seq(T)
      BY <1>3
    <2>2. EachAtItsPlace(n, seqs, upto)
      <3>1. n \in Nat /\ Concatenated(T, n, seqs, upto)
        BY <1>1, <1>4, <2>1 DEF Concatenated
      <3> QED
        BY <3>1, FlatPrefix
    <2>3. upto[n] = field
      BY <1>2, <1>4
    <2> QED
      BY <2>2, <2>3 DEF EachAtItsPlace
  <1>6. field \in Seq(T) /\ Len(field) = Off(n) /\ Off(0) = 0
    <2>1. n \in 0..n
      BY <1>1
    <2> QED
      BY <1>2, <1>4, <2>1
  <1>7. \A k \in 0..n : Off(k) \in Nat
    <2>1. \A k \in 0..n : upto[k] \in Seq(T)
      OBVIOUS
    <2> QED
      BY <2>1
  <1>8. PICK from \in [1..Len(field) + 1 -> Seq(Nat)] :
            /\ from[Len(field) + 1] = <<>>
            /\ \A i \in 1..Len(field) :
                   from[i] = IF Escape(field, i) THEN <<Octal(field, i)>> \o from[i + 4]
                             ELSE <<field[i]>> \o from[i + 1]
            /\ Unescape(field) = from[1]
    BY <1>6, UnescapeRuns DEF T
  <1> HIDE DEF Off, T
  <1>9. ASSUME NEW k \in 1..n
        PROVE  from[Off(k - 1) + 1] = <<path[k]>> \o from[Off(k) + 1]
    <2> DEFINE a == Off(k - 1)
               i == a + 1
               piece == Piece(path[k])
    <2>1. a \in Nat /\ Off(k) \in Nat /\ Off(n) \in Nat /\ k - 1 \in 0..n
      <3>1. k - 1 \in 0..n /\ k \in 0..n /\ n \in 0..n
        BY <1>1
      <3> QED
        BY <1>7, <3>1
    <2>2. /\ Off(k) = a + Len(piece) /\ Off(k) <= Len(field)
          /\ \A j \in 1..Len(piece) : field[a + j] = piece[j]
      BY <1>3, <1>5, <1>6
    <2>3. path[k] \in 1..255
      BY <1>1
    <2>4. \/ Len(piece) = 1 /\ piece[1] = path[k] /\ path[k] # Backslash
          \/ /\ Len(piece) = 4 /\ piece[1] = Backslash
             /\ piece[2] \in Digit /\ piece[3] \in Digit /\ piece[4] \in Digit
             /\ Octal(piece, 1) = path[k]
      BY <2>3, PieceIs
    <2> HIDE DEF a, piece
    <2>5. CASE Len(piece) = 1 /\ piece[1] = path[k] /\ path[k] # Backslash
      <3>1. Off(k) = a + 1 /\ i \in 1..Len(field) /\ field[i] = path[k]
        BY <1>6, <2>1, <2>2, <2>5
      <3>2. ~Escape(field, i)
        BY <2>5, <3>1 DEF Escape
      <3>3. from[i] = <<field[i]>> \o from[i + 1]
        BY <1>8, <3>1, <3>2
      <3>4. i + 1 = Off(k) + 1
        BY <3>1
      <3> HIDE DEF i
      <3>5. from[i] = <<path[k]>> \o from[Off(k) + 1]
        BY <3>1, <3>3, <3>4
      <3> QED
        BY <3>5 DEF i, a
    <2>6. CASE /\ Len(piece) = 4 /\ piece[1] = Backslash
               /\ piece[2] \in Digit /\ piece[3] \in Digit /\ piece[4] \in Digit
               /\ Octal(piece, 1) = path[k]
      <3>1. Off(k) = a + 4 /\ i + 3 <= Len(field) /\ i \in 1..Len(field)
        BY <1>6, <2>1, <2>2, <2>6
      <3>2. /\ field[a + 1] = piece[1] /\ field[a + 2] = piece[2]
            /\ field[a + 3] = piece[3] /\ field[a + 4] = piece[4]
        BY <2>2, <2>6
      <3>3. field[i] = piece[1] /\ field[i + 1] = piece[2] /\ field[i + 2] = piece[3]
            /\ field[i + 3] = piece[4]
        <4>1. i + 1 = a + 2 /\ i + 2 = a + 3 /\ i + 3 = a + 4
          BY <2>1
        <4> QED
          BY <3>2, <4>1
      <3>4. i + 4 = Off(k) + 1
        BY <2>1, <3>1
      <3> HIDE DEF i
      <3>5. Escape(field, i)
        <4>1. ASSUME NEW m \in 1..3
              PROVE  field[i + m] \in Digit
          <5>1. m = 1 \/ m = 2 \/ m = 3
            OBVIOUS
          <5> QED
            BY <2>6, <3>3, <5>1
        <4> QED
          BY <2>6, <3>1, <3>3, <4>1 DEF Escape
      <3>6. Octal(field, i) = Octal(piece, 1)
        <4>1. piece[1 + 1] = piece[2] /\ piece[1 + 2] = piece[3] /\ piece[1 + 3] = piece[4]
          OBVIOUS
        <4> QED
          BY <3>3, <4>1 DEF Octal
      <3>7. from[i] = <<Octal(field, i)>> \o from[i + 4]
        BY <1>8, <3>1, <3>5
      <3>8. from[i] = <<path[k]>> \o from[Off(k) + 1]
        BY <2>6, <3>4, <3>6, <3>7
      <3> QED
        BY <3>8 DEF i, a
    <2> QED
      BY <2>4, <2>5, <2>6
  <1> DEFINE Right(k) == LET rest == from[Off(n - k) + 1]
                         IN  /\ rest \in Seq(Nat) /\ Len(rest) = k
                             /\ \A j \in 1..k : rest[j] = path[n - k + j]
             S == {k \in 0..n : Right(k)}
  <1>10. 0 \in S
    <2>1. n - 0 = n /\ 0 \in 0..n
      BY <1>1
    <2>2. from[Off(n - 0) + 1] = <<>>
      BY <1>6, <1>8, <2>1
    <2>3. Right(0)
      BY <2>2
    <2> QED
      BY <2>1, <2>3
  <1>11. ASSUME NEW k \in 0..n, k \in S, k < n
         PROVE  k + 1 \in S
    <2> DEFINE m == n - k
               rest == from[Off(m) + 1]
               whole == from[Off(m - 1) + 1]
    <2>1. m \in 1..n /\ k + 1 \in 0..n /\ n - (k + 1) = m - 1 /\ k \in Nat /\ m \in Nat
      BY <1>1, <1>11
    <2>2. rest \in Seq(Nat) /\ Len(rest) = k /\ \A j \in 1..k : rest[j] = path[m + j]
      BY <1>11
    <2> HIDE DEF m
    <2>3. whole = <<path[m]>> \o rest /\ path[m] \in Nat
      <3>1. whole = <<path[m]>> \o rest
        BY <1>9, <2>1
      <3>2. path[m] \in 1..255
        BY <1>1, <2>1
      <3>3. path[m] \in Nat
        <4>1. \A x \in 1..255 : x \in Nat
          OBVIOUS
        <4> QED
          BY <3>2, <4>1, Zenon
      <3> HIDE DEF rest, whole
      <3> QED
        BY <3>1, <3>3
    <2> HIDE DEF rest, whole
    <2>4. /\ whole \in Seq(Nat) /\ Len(whole) = k + 1 /\ whole[1] = path[m]
          /\ \A j \in 1..k : whole[j + 1] = rest[j]
      BY <2>2, <2>3, OneInFront
    <2>5. ASSUME NEW j \in 1..k + 1
          PROVE  whole[j] = path[(m - 1) + j]
      <3>1. CASE j = 1
        <4>1. (m - 1) + j = m
          BY <2>1, <3>1
        <4> QED
          BY <2>4, <3>1, <4>1
      <3>2. CASE j # 1
        <4> DEFINE i == j - 1
        <4>1. i \in 1..k /\ j = i + 1 /\ (m - 1) + j = m + i
          BY <2>1, <3>2
        <4> HIDE DEF i
        <4>2. whole[i + 1] = rest[i] /\ rest[i] = path[m + i]
          BY <2>2, <2>4, <4>1
        <4> QED
          BY <4>1, <4>2
      <3> QED
        BY <3>1, <3>2
    <2>6. Right(k + 1)
      <3>1. from[Off(n - (k + 1)) + 1] = whole
        BY <2>1 DEF whole
      <3>2. \A j \in 1..k + 1 : whole[j] = path[n - (k + 1) + j]
        BY <2>1, <2>5
      <3> QED
        BY <2>4, <3>1, <3>2
    <2> HIDE DEF Right
    <2> QED
      BY <2>1, <2>6
  <1>12. from[1] = path
    <2>1. 0..n \subseteq S
      <3> HIDE DEF S
      <3> QED
        BY <1>1, <1>10, <1>11, InductionUpTo
    <2>2. Right(n)
      <3>1. n \in 0..n
        BY <1>1
      <3> HIDE DEF Right
      <3> QED
        BY <2>1, <3>1
    <2>3. n - n = 0 /\ \A j \in 1..n : n - n + j = j
      BY <1>1
    <2>4. /\ from[Off(n - n) + 1] = from[1]
      BY <1>6, <2>3
    <2> DEFINE rest == from[1]
    <2>5. rest \in Seq(Nat) /\ Len(rest) = n /\ \A j \in 1..n : rest[j] = path[n - n + j]
      BY <2>2, <2>4
    <2> HIDE DEF rest
    <2>6. \A j \in 1..n : rest[j] = path[j]
      BY <2>3, <2>5
    <2>7. path \in Seq(Nat) /\ Len(path) = n
      <3>1. 1..255 \subseteq Nat
        OBVIOUS
      <3> DEFINE bytes == 1..255
      <3>2. path \in Seq(Nat)
        <4>1. bytes \subseteq Nat /\ path \in Seq(bytes)
          BY <3>1
        <4> HIDE DEF bytes
        <4> QED
          BY <4>1, WiderSeq
      <3> QED
        BY <3>2 DEF n
    <2> QED
      BY <2>5, <2>6, <2>7, SeqEqual DEF rest
  <1> QED
    BY <1>8, <1>12 DEF field

\* A mount point is measured under the name it has.
THEOREM NamesComeBackThm == Spec => []NamesComeBack
  <1>1. JobInv => NamesComeBack
    <2> SUFFICES ASSUME JobInv, parsed, Collector = "filesystem"
                 PROVE  out.stats = <<File>>
      BY DEF NamesComeBack
    <2>1. out = MountPoint(File) /\ File \in Seq(1..255)
      <3>1. out = Parse(Collector, File) /\ File \in Files("filesystem")
        BY DEF JobInv
      <3> QED
        BY <3>1, ParseIs, FilesAssumption
    <2>2. Unescape(Mangled(File)) = File
      BY <2>1, UnescapeGivesBack
    <2> QED
      BY <2>1, <2>2 DEF MountPoint, Done
  <1> QED
    BY JobInvariant, <1>1, PTL

=============================================================================
