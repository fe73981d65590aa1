------------------------------ MODULE V1Proofs -------------------------------
(***************************************************************************)
(* That the readers of v1's streams are correct for all capture and event  *)
(* files: the address that an FIE gets, the rows that the loader inserts   *)
(* and the errors it returns, and what the parquet command has written.    *)
(***************************************************************************)
EXTENDS V1, FlattenProofs

\* A log as InputsAssumption has it.
IsLog(log) ==
  log \in Seq(ToSet(log)) /\ \A e \in ToSet(log) : IsConnection(e) => e.at \in Int

\* Events of R, by time.
Timed(R) == {p \in R \X R : p[1].at <= p[2].at}

\* The connection events are those of the log.
LEMMA ConnectionsAre ==
  ASSUME NEW log, IsLog(log)
  PROVE  /\ Connections(log) \in Seq(ToSet(log))
         /\ \A e : e \in ToSet(Connections(log)) <=> e \in ToSet(log) /\ IsConnection(e)
<1> DEFINE R == ToSet(log)
           K == {i \in DOMAIN log : IsConnection(log[i])}
           Le == R \X R
<1>0. log \in Seq(R)
  BY DEF IsLog
<1>1. DOMAIN log = 1..Len(log) /\ \A i \in DOMAIN log : log[i] \in R
  BY <1>0, LenProperties DEF ToSet
<1>2. Connections(log) = Filtered(log, K)
  <2>1. \A i \in DOMAIN log : IsConnection(log[i]) <=> i \in K
    OBVIOUS
  <2> HIDE DEF K
  <2> QED BY <2>1 DEF Connections, Filtered, Singles
<1>3. \A i, j \in 1..Len(log) : i \in K /\ j \in K /\ i < j => <<log[i], log[j]>> \in Le
  BY <1>1
<1>4. \A i : i \in K <=> i \in 1..Len(log) /\ IsConnection(log[i])
  BY <1>1
<1>5. \A e : e \in R <=> \E i \in 1..Len(log) : e = log[i]
  BY <1>1 DEF ToSet
<1> HIDE DEF K, R, Le
<1> DEFINE s == Filtered(log, K)
<1>6. /\ s \in Seq(R)
      /\ \A x : x \in ToSet(s) <=> \E i \in 1..Len(log) : i \in K /\ x = log[i]
  <2>1. Related(R, log, K, Le)
    BY <1>0, <1>3 DEF Related
  <2> QED BY <2>1, FilteredIs
<1> HIDE DEF s
<1>7. Connections(log) = s
  BY <1>2 DEF s
<1>8. \A e : e \in ToSet(s) <=> e \in R /\ IsConnection(e)
  BY <1>4, <1>5, <1>6
<1> QED BY <1>6, <1>7, <1>8 DEF R

\* What goes one to one into 1..n from 1..n misses none.
LEMMA OneToOne ==
  ASSUME NEW n \in Nat, NEW f \in [1..n -> 1..n],
         \A i, j \in 1..n : f[i] = f[j] => i = j
  PROVE  \A j \in 1..n : \E i \in 1..n : f[i] = j
<1>1. f \in Injection(1..n, 1..n)
  BY DEF Injection, IsInjective
<1>2. IsFiniteSet(1..n)
  BY FS_Interval
<1>3. f \in Surjection(1..n, 1..n)
  BY <1>1, <1>2, FS_Injection
<1> QED BY <1>3 DEF Surjection

\* es has the connection events of the log, by time.
IsHistory(es, log) ==
  /\ es \in Seq(ToSet(log))
  /\ \A e : e \in ToSet(es) <=> e \in ToSet(log) /\ IsConnection(e)
  /\ \A i, j \in 1..Len(es) : i < j => es[i].at <= es[j].at

\* Sorting loses none and adds none.
LEMMA SortedAre ==
  ASSUME NEW log, IsLog(log), NEW es \in Sorted(log)
  PROVE  IsHistory(es, log)
<1> DEFINE cs == Connections(log)
           n == Len(cs)
<1>1. /\ cs \in Seq(ToSet(log))
      /\ \A e : e \in ToSet(cs) <=> e \in ToSet(log) /\ IsConnection(e)
  BY ConnectionsAre
<1>2. n \in Nat /\ DOMAIN cs = 1..n /\ \A i \in 1..n : cs[i] \in ToSet(log)
  BY <1>1, LenProperties, ElementOfSeq
<1>3. PICK f \in [DOMAIN cs -> DOMAIN cs] :
        /\ \A i, j \in DOMAIN cs : f[i] = f[j] => i = j
        /\ \A i, j \in DOMAIN cs : i < j => cs[f[i]].at <= cs[f[j]].at
        /\ es = [i \in DOMAIN cs |-> cs[f[i]]]
  BY DEF Sorted
<1> HIDE DEF cs, n
<1>4. f \in [1..n -> 1..n] /\ \A i, j \in 1..n : f[i] = f[j] => i = j
  BY <1>2, <1>3
<1>5. \A j \in 1..n : \E i \in 1..n : f[i] = j
  BY <1>2, <1>4, OneToOne
<1>6. es = [i \in 1..n |-> cs[f[i]]] /\ DOMAIN es = 1..n
  BY <1>2, <1>3
<1>7. es \in [1..n -> ToSet(log)]
  BY <1>2, <1>4, <1>6
<1>8. es \in Seq(ToSet(log))
  BY <1>2, <1>7, SeqDef
<1>9. Len(es) = n
  BY <1>2, <1>6, <1>8, LenProperties
<1>10. \A e : e \in ToSet(es) <=> e \in ToSet(cs)
  <2>1. \A e : e \in ToSet(es) <=> \E i \in 1..n : e = cs[f[i]]
    BY <1>6 DEF ToSet
  <2>2. \A e : e \in ToSet(cs) <=> \E j \in 1..n : e = cs[j]
    BY <1>2 DEF ToSet
  <2>3. \A i \in 1..n : f[i] \in 1..n
    BY <1>4
  <2> QED BY <1>5, <2>1, <2>2, <2>3
<1>11. \A i, j \in 1..n : i < j => es[i].at <= es[j].at
  <2>1. \A i \in 1..n : es[i] = cs[f[i]]
    BY <1>6
  <2>2. \A i, j \in 1..n : i < j => cs[f[i]].at <= cs[f[j]].at
    BY <1>2, <1>3
  <2> QED BY <2>1, <2>2
<1> QED BY <1>1, <1>8, <1>9, <1>10, <1>11 DEF IsHistory

\* An agent's events are those of the log that are its own, by time.
LEMMA EventsOfAre ==
  ASSUME NEW log, IsLog(log), NEW es, IsHistory(es, log), NEW agent
  PROVE  /\ EventsOf(es, agent) \in Seq(ToSet(log))
         /\ \A e : e \in ToSet(EventsOf(es, agent)) <=> e \in ToSet(es) /\ e.agent = agent
         /\ \A a, b \in 1..Len(EventsOf(es, agent)) :
              a < b => EventsOf(es, agent)[a].at <= EventsOf(es, agent)[b].at
<1> DEFINE R == ToSet(log)
           K == {i \in DOMAIN es : es[i].agent = agent}
           Le == Timed(R)
<1>1. es \in Seq(R) /\ DOMAIN es = 1..Len(es) /\ \A i \in 1..Len(es) : es[i] \in R
  BY LenProperties, ElementOfSeq DEF IsHistory
<1>2. EventsOf(es, agent) = Filtered(es, K)
  <2>1. \A i \in DOMAIN es : es[i].agent = agent <=> i \in K
    OBVIOUS
  <2> HIDE DEF K
  <2> QED BY <2>1 DEF EventsOf, Filtered, Singles
<1>3. \A i, j \in 1..Len(es) : i \in K /\ j \in K /\ i < j => <<es[i], es[j]>> \in Le
  BY <1>1 DEF IsHistory, Timed
<1>4. \A i : i \in K <=> i \in 1..Len(es) /\ es[i].agent = agent
  BY <1>1
<1>5. \A e : e \in ToSet(es) <=> \E i \in 1..Len(es) : e = es[i]
  BY <1>1 DEF ToSet
<1> HIDE DEF K, R, Le
<1> DEFINE s == Filtered(es, K)
<1>6. /\ s \in Seq(R)
      /\ \A x : x \in ToSet(s) <=> \E i \in 1..Len(es) : i \in K /\ x = es[i]
      /\ \A a, b \in 1..Len(s) : a < b => <<s[a], s[b]>> \in Le
  <2>1. Related(R, es, K, Le)
    BY <1>1, <1>3 DEF Related
  <2> QED BY <2>1, FilteredIs
<1> HIDE DEF s
<1>7. \A a, b \in 1..Len(s) : a < b => s[a].at <= s[b].at
  BY <1>6 DEF Le, Timed
<1>8. \A e : e \in ToSet(s) <=> e \in ToSet(es) /\ e.agent = agent
  BY <1>4, <1>5, <1>6
<1>9. EventsOf(es, agent) = s
  BY <1>2 DEF s
<1> QED BY <1>6, <1>7, <1>8, <1>9 DEF R

\* What ByAgent keeps under an agent, and nothing where it keeps nothing.
LEMMA KnownIs ==
  ASSUME NEW log, IsLog(log), NEW es, IsHistory(es, log), NEW agent
  PROVE  Known(ByAgent(es), agent) = EventsOf(es, agent)
<1>1. CASE agent \in {e.agent : e \in ToSet(es)}
  BY <1>1 DEF Known, ByAgent
<1>2. CASE agent \notin {e.agent : e \in ToSet(es)}
  <2>1. Known(ByAgent(es), agent) = <<>>
    BY <1>2 DEF Known, ByAgent
  <2> DEFINE s == EventsOf(es, agent)
  <2>2. s \in Seq(ToSet(log)) /\ \A e : e \in ToSet(s) => e \in ToSet(es) /\ e.agent = agent
    BY EventsOfAre
  <2> HIDE DEF s
  <2>3. Len(s) \in Nat /\ DOMAIN s = 1..Len(s)
    BY <2>2, LenProperties
  <2>4. ASSUME Len(s) # 0 PROVE FALSE
    <3>1. s[1] \in ToSet(s)
      BY <2>3, <2>4 DEF ToSet
    <3> QED BY <1>2, <2>2, <3>1
  <2>5. s = <<>>
    BY <2>2, <2>4, EmptySeq
  <2> QED BY <2>1, <2>5 DEF s
<1> QED BY <1>1, <1>2

\* The search finds a place.
LEMMA SearchFinds ==
  ASSUME NEW R, NEW es \in Seq(R), NEW t \in Int,
         \A i \in 1..Len(es) : es[i].at \in Int,
         \A a, b \in 1..Len(es) : a < b => es[a].at <= es[b].at
  PROVE  /\ SearchTime(es, t) \in 1..(Len(es) + 1)
         /\ \A j \in 1..(SearchTime(es, t) - 1) : es[j].at < t
         /\ SearchTime(es, t) <= Len(es) => es[SearchTime(es, t)].at >= t
<1> DEFINE m == Len(es)
           Split(i) == (\A j \in 1..(i - 1) : es[j].at < t) /\ (i <= m => es[i].at >= t)
           S == {n \in Nat : n <= m => \/ \A j \in 1..n : es[j].at < t
                                    \/ \E i \in 1..(m + 1) : Split(i)}
<1>1. m \in Nat
  BY LenProperties
<1> HIDE DEF m
<1>2. 0 \in S
  OBVIOUS
<1>3. ASSUME NEW n \in Nat, n \in S PROVE n + 1 \in S
  <2> SUFFICES ASSUME n + 1 <= m
               PROVE  (\A j \in 1..(n + 1) : es[j].at < t) \/ \E i \in 1..(m + 1) : Split(i)
    OBVIOUS
  <2>1. CASE \E i \in 1..(m + 1) : Split(i)
    BY <2>1
  <2>2. CASE \A j \in 1..n : es[j].at < t
    <3>1. n + 1 \in 1..m /\ es[n + 1].at \in Int
      BY <1>1 DEF m
    <3>2. \A j \in 1..(n + 1) : j \in 1..n \/ j = n + 1
      OBVIOUS
    <3>3. CASE es[n + 1].at < t
      BY <2>2, <3>2, <3>3
    <3>4. CASE ~(es[n + 1].at < t)
      <4>1. (n + 1) - 1 = n /\ n + 1 \in 1..(m + 1) /\ es[n + 1].at >= t
        BY <1>1, <3>1, <3>4
      <4>2. Split(n + 1)
        BY <2>2, <4>1
      <4> QED BY <4>1, <4>2
    <3> QED BY <3>3, <3>4
  <2> QED BY <1>1, <1>3, <2>1, <2>2
<1>4. m \in S
  <2> HIDE DEF S
  <2> QED BY <1>1, <1>2, <1>3, SetInduction
<1>5. \E i \in 1..(m + 1) : Split(i)
  <2>1. CASE \A j \in 1..m : es[j].at < t
    <3>1. Split(m + 1) /\ m + 1 \in 1..(m + 1)
      BY <1>1, <2>1
    <3> QED BY <3>1
  <2> QED BY <1>1, <1>4, <2>1
<1> QED BY <1>5 DEF SearchTime, m

\* The latest connection events of an agent at a time or before it.
Past(log, agent, t) == {e \in ToSet(log) : IsConnection(e) /\ e.agent = agent /\ e.at <= t}
Latest(past) == {e \in past : \A f \in past : f.at <= e.at}

\* The address found in a history is that of one of them.
LEMMA AddressFound ==
  ASSUME NEW log, IsLog(log), NEW es \in Sorted(log), NEW agent, NEW t \in Int
  PROVE  AddressAt(ByAgent(es), agent, t) \in
           IF Latest(Past(log, agent, t)) = {} THEN {NoAddress}
           ELSE {AddressOf(e) : e \in Latest(Past(log, agent, t))}
<1> DEFINE s == Known(ByAgent(es), agent)
           i == SearchTime(s, t)
           past == Past(log, agent, t)
           R == ToSet(log)
<1>1. IsHistory(es, log)
  BY SortedAre
<1>2. /\ s \in Seq(R)
      /\ \A e : e \in ToSet(s) <=> e \in ToSet(es) /\ e.agent = agent
      /\ \A a, b \in 1..Len(s) : a < b => s[a].at <= s[b].at
  BY <1>1, KnownIs, EventsOfAre
<1> HIDE DEF s
<1>3. Len(s) \in Nat /\ DOMAIN s = 1..Len(s)
  BY <1>2, LenProperties
<1>4. \A e : e \in ToSet(s) <=> e \in ToSet(log) /\ IsConnection(e) /\ e.agent = agent
  BY <1>1, <1>2 DEF IsHistory
<1>5. \A e : e \in ToSet(s) <=> \E a \in 1..Len(s) : e = s[a]
  BY <1>3 DEF ToSet
<1>6. \A a \in 1..Len(s) : s[a] \in ToSet(s) /\ s[a].at \in Int
  BY <1>4, <1>5 DEF IsLog
<1>7. /\ i \in 1..(Len(s) + 1)
      /\ \A j \in 1..(i - 1) : s[j].at < t
      /\ i <= Len(s) => s[i].at >= t
  BY <1>2, <1>6, SearchFinds
<1>8. AddressAt(ByAgent(es), agent, t) =
        IF i <= Len(s) /\ s[i].at = t THEN AddressOf(s[i])
        ELSE IF i = 1 THEN NoAddress ELSE AddressOf(s[i - 1])
  BY DEF AddressAt, s
<1> HIDE DEF i
<1>9. \A e : e \in past <=> \E a \in 1..Len(s) : e = s[a] /\ s[a].at <= t
  BY <1>4, <1>5 DEF Past
<1> HIDE DEF past
<1>10. CASE i <= Len(s) /\ s[i].at = t
  <2>1. i \in 1..Len(s)
    BY <1>3, <1>7, <1>10
  <2>2. s[i] \in past
    BY <1>6, <1>9, <1>10, <2>1
  <2>3. \A f \in past : f.at <= s[i].at
    BY <1>9, <1>10
  <2>4. s[i] \in Latest(past)
    BY <2>2, <2>3 DEF Latest
  <2> QED BY <1>8, <1>10, <2>4 DEF past
<1>11. CASE ~(i <= Len(s) /\ s[i].at = t)
  <2>1. \A a \in 1..Len(s) : s[a].at <= t => a <= i - 1
    <3> SUFFICES ASSUME NEW a \in 1..Len(s), s[a].at <= t, ~(a <= i - 1) PROVE FALSE
      OBVIOUS
    <3>1. i \in 1..Len(s) /\ i <= a
      BY <1>3, <1>7
    <3>2. s[i].at >= t /\ s[i].at # t /\ s[i].at \in Int /\ s[a].at \in Int
      BY <1>6, <1>7, <1>11, <3>1
    <3>3. s[i].at <= s[a].at
      BY <1>2, <3>1, <3>2
    <3> QED BY <3>2, <3>3
  <2>2. CASE i = 1
    <3>1. past = {}
      BY <1>3, <1>9, <2>1, <2>2
    <3>2. Latest(past) = {}
      BY <3>1 DEF Latest
    <3> QED BY <1>8, <1>11, <2>2, <3>2 DEF past
  <2>3. CASE i # 1
    <3>1. i - 1 \in 1..Len(s) /\ i - 1 \in 1..(i - 1)
      BY <1>3, <1>7, <2>3
    <3>2. s[i - 1] \in past
      BY <1>6, <1>7, <1>9, <3>1
    <3>3. ASSUME NEW f \in past PROVE f.at <= s[i - 1].at
      <4>1. PICK a \in 1..Len(s) : f = s[a] /\ s[a].at <= t
        BY <1>9, <3>3
      <4>2. a <= i - 1
        BY <2>1, <4>1
      <4>3. a < i - 1 \/ a = i - 1
        BY <3>1, <4>2
      <4> QED BY <1>2, <1>6, <3>1, <4>1, <4>3
    <3>4. s[i - 1] \in Latest(past)
      BY <3>2, <3>3 DEF Latest
    <3> QED BY <1>8, <1>11, <2>3, <3>4 DEF past
  <2> QED BY <2>2, <2>3
<1> QED BY <1>10, <1>11

\* The rows of all files, and the selected ones of each file.
AllRows == UNION {ToSet(f.rows) : f \in ToSet(input.files)}
FileRows == [k \in 1..Len(input.files) |-> PassingRows(input.files[k])]

\* They are sequences of rows, and what a stream gives is these in one.
LEMMA FileRowsAre ==
  ASSUME input \in Inputs
  PROVE  /\ Len(input.files) \in Nat /\ DOMAIN input.files = 1..Len(input.files)
         /\ FileRows \in Seq(Seq(AllRows)) /\ Len(FileRows) = Len(input.files)
         /\ \A n \in 0..Len(input.files) : Selected(n) = Joined(FileRows, n)
<1> DEFINE files == input.files
           R == AllRows
           n == Len(files)
<1>1. /\ files \in Seq(ToSet(files))
      /\ \A f \in ToSet(files) : f.rows \in Seq(ToSet(f.rows))
  BY InputsAssumption
<1>2. n \in Nat /\ DOMAIN files = 1..n /\ \A k \in 1..n : files[k] \in ToSet(files)
  BY <1>1, LenProperties, ElementOfSeq
<1>3. ASSUME NEW f \in ToSet(files) PROVE PassingRows(f) \in Seq(R)
  <2> DEFINE K == {i \in DOMAIN f.rows : Passes(f.rows[i])}
             Le == R \X R
             s == f.rows
  <2>1. s \in Seq(ToSet(s)) /\ ToSet(s) \subseteq R
    BY <1>1 DEF AllRows
  <2>2. s \in Seq(R) /\ DOMAIN s = 1..Len(s) /\ \A i \in DOMAIN s : s[i] \in R
    BY <2>1, SeqMonotonic, LenProperties, ElementOfSeq
  <2>3. PassingRows(f) = Filtered(s, K)
    <3>1. \A i \in DOMAIN s : Passes(s[i]) <=> i \in K
      OBVIOUS
    <3> HIDE DEF K
    <3> QED BY <3>1 DEF PassingRows, Filtered, Singles
  <2> HIDE DEF K, s, R
  <2>4. Related(R, s, K, Le)
    BY <2>2 DEF Related
  <2> QED BY <2>3, <2>4, FilteredIs
<1> HIDE DEF R
<1>4. FileRows \in Seq(Seq(R)) /\ Len(FileRows) = n
  <2>1. FileRows \in [1..n -> Seq(R)]
    BY <1>2, <1>3 DEF FileRows
  <2>2. FileRows \in Seq(Seq(R)) /\ DOMAIN FileRows = 1..n
    BY <1>2, <2>1, SeqDef
  <2> QED BY <1>2, <2>2, LenProperties
<1>5. ASSUME NEW m \in 0..n PROVE Selected(m) = Joined(FileRows, m)
  <2>1. \A k \in 1..m : FileRows[k] = PassingRows(files[k])
    BY <1>2 DEF FileRows
  <2> QED BY <2>1 DEF Selected, Joined
<1> QED BY <1>2, <1>4, <1>5 DEF R

\* The stream gives no more than what was counted.
LEMMA TotalIs ==
  ASSUME input \in Inputs
  PROVE  Wanted \in Seq(AllRows) /\ Total \in Nat /\ Len(Readable) \in Nat /\ Len(Readable) <= Total
<1> DEFINE n == Len(input.files)
           bad == {k \in DOMAIN input.files : ~input.files[k].named}
<1>1. /\ n \in Nat /\ DOMAIN input.files = 1..n
      /\ FileRows \in Seq(Seq(AllRows)) /\ Len(FileRows) = n
      /\ \A m \in 0..n : Selected(m) = Joined(FileRows, m)
  BY FileRowsAre
<1>2. \A m \in 0..n : Selected(m) \in Seq(AllRows) /\ Len(Selected(m)) <= Len(Selected(n))
  <2> SUFFICES ASSUME NEW m \in 0..n
               PROVE  Selected(m) \in Seq(AllRows) /\ Len(Selected(m)) <= Len(Selected(n))
    OBVIOUS
  <2> HIDE DEF n
  <2>1. m \in 0..Len(FileRows) /\ n \in m..Len(FileRows) /\ n \in 0..n
    BY <1>1
  <2>2. Joined(FileRows, m) \in Seq(AllRows)
    BY <1>1, <2>1, JoinedType
  <2>3. Len(Joined(FileRows, m)) <= Len(Joined(FileRows, n))
    BY <1>1, <2>1, JoinedGrows
  <2> QED BY <1>1, <2>1, <2>2, <2>3
<1>3. Wanted = Selected(n) /\ n \in 0..n
  BY <1>1 DEF Wanted
<1>4. \E m \in 0..n : Readable = Selected(m)
  <2>1. CASE bad = {}
    BY <1>3, <2>1 DEF Readable
  <2>2. CASE bad # {}
    <3> DEFINE first == CHOOSE k \in bad : \A j \in bad : k <= j
               S == {m \in Nat : \A k \in 0..m : k \notin bad}
    <3>1. \A k \in bad : k \in 1..n
      BY <1>1
    <3> HIDE DEF bad
    <3>2. \E k \in bad : \A j \in bad : k <= j
      <4> SUFFICES ASSUME \A k \in bad : \E j \in bad : ~(k <= j) PROVE FALSE
        OBVIOUS
      <4>1. 0 \in S
        BY <3>1
      <4>2. ASSUME NEW m \in Nat, m \in S PROVE m + 1 \in S
        <5>1. \A k \in 0..(m + 1) : k \in 0..m \/ k = m + 1
          OBVIOUS
        <5>2. m + 1 \notin bad
          <6> SUFFICES ASSUME m + 1 \in bad PROVE FALSE
            OBVIOUS
          <6>1. PICK j \in bad : ~(m + 1 <= j)
            OBVIOUS
          <6>2. j \in 0..m
            BY <3>1, <6>1
          <6> QED BY <4>2, <6>2
        <5> QED BY <4>2, <5>1, <5>2
      <4>3. n \in S
        <5> HIDE DEF S
        <5> QED BY <1>1, <4>1, <4>2, SetInduction
      <4>4. \A k \in bad : k \in 0..n
        BY <3>1
      <4> QED BY <2>2, <4>3, <4>4
    <3>3. first \in 1..n
      BY <3>1, <3>2
    <3>4. first - 1 \in 0..n
      BY <1>1, <3>3
    <3>5. Readable = Selected(first - 1)
      BY <2>2 DEF Readable, bad
    <3> QED BY <3>4, <3>5
  <2> QED BY <2>1, <2>2
<1> HIDE DEF n
<1>5. PICK m \in 0..n : Readable = Selected(m)
  BY <1>4
<1>6. /\ Wanted \in Seq(AllRows) /\ Readable \in Seq(AllRows)
      /\ Len(Readable) <= Len(Wanted)
  BY <1>2, <1>3, <1>5
<1> QED BY <1>6, LenProperties DEF Total

\* What InputsAssumption says of the log and of the rows.
LEMMA InputIs ==
  ASSUME input \in Inputs
  PROVE  IsLog(input.log) /\ \A row \in ToSet(Wanted) : row.at \in Int
<1>1. \A r \in AllRows : r.at \in Int
  BY InputsAssumption DEF AllRows
<1>2. Wanted \in Seq(AllRows)
  BY TotalIs
<1>3. DOMAIN Wanted = 1..Len(Wanted)
  BY <1>2, LenProperties
<1>4. \A row \in ToSet(Wanted) : row \in AllRows
  BY <1>2, <1>3, ElementOfSeq DEF ToSet
<1>5. IsLog(input.log)
  BY InputsAssumption DEF IsLog
<1> QED BY <1>1, <1>4, <1>5

\* What a stream keeps: its files, and a history that its log has.
StreamInv == input \in Inputs /\ history \in {ByAgent(es) : es \in Sorted(input.log)}

\* What the stream was made of does not change, nor who reads it.
LEMMA NextStream == [Next]_vars => UNCHANGED <<reader, input, where, history>>
<1> SUFFICES ASSUME [Next]_vars PROVE UNCHANGED <<reader, input, where, history>>
  OBVIOUS
<1>1. CASE UNCHANGED vars
  BY <1>1 DEF vars, streamVars
<1>2. CASE Parquet(ParquetNext)
  BY <1>2 DEF Parquet, ParquetNext, ParquetStep, RefuseFlags, CountRows, CreateOutput, StartExport,
              AppendRow, Write, WriteFails, IngestEnds, Tick, TickerEnds, Report, CloseIngester,
              DieExporting, GiveRow, GiveError, EndStream, streamVars
<1>3. CASE Loader(IngestNext)
  BY <1>3 DEF Loader, IngestNext, Producer, Pull, Send, SendCanceled, ProducerEnds, Worker, Take,
              Gather, InsertFull, WorkerFails, StreamFails, WorkerEnds, Ingest, GroupFailed,
              FlushRest, FlushFails, IngestSucceeds, IngestReturns, Interrupt, GiveRow, GiveError,
              EndStream, streamVars
<1> QED BY <1>1, <1>2, <1>3 DEF Next

\* The stream's files stay as they were.
THEOREM StreamInvariance == Spec => []StreamInv
<1>1. Init => StreamInv
  BY DEF Init, StreamInit, StreamInv
<1>2. StreamInv /\ [Next]_vars => StreamInv'
  BY NextStream DEF StreamInv
<1> QED BY <1>1, <1>2, PTL DEF Spec

\* The address that a full FIE gets is the one of a last event of its agent.
THEOREM AddressAlwaysCurrent == Spec => []AddressIsCurrent
<1>1. StreamInv => AddressIsCurrent
  <2> SUFFICES ASSUME StreamInv, NEW row \in ToSet(Wanted), NEW pd \in ToSet(Directives(input.log))
               PROVE  AddressAt(history, pd.agent, row.at) \in
                        IF Latest(Past(input.log, pd.agent, row.at)) = {} THEN {NoAddress}
                        ELSE {AddressOf(e) : e \in Latest(Past(input.log, pd.agent, row.at))}
    BY Zenon DEF AddressIsCurrent, Past, Latest
  <2>1. PICK es \in Sorted(input.log) : history = ByAgent(es)
    BY DEF StreamInv
  <2>2. IsLog(input.log) /\ row.at \in Int
    BY InputIs DEF StreamInv
  <2> QED BY <2>1, <2>2, AddressFound
<1> QED BY <1>1, StreamInvariance, PTL
-----------------------------------------------------------------------------
\* The rows that a worker has: those of its batch, and the one in its hands.
Held(w) == batch[w] \cup ({item[w]} \ {NoItem})

\* The items are counted, one at a time, when they are given, put and taken.
ItemsCounted ==
  /\ given \in Nat /\ put \in Nat /\ taken \in Nat
  /\ taken <= put /\ put <= given /\ given <= put + 1
  /\ streamEnd \in {"more", "ended", "failed"}
  /\ streamEnd = "more" => given <= Total
  /\ streamEnd = "ended" => given = Total
  /\ streamEnd = "failed" => given >= 1 /\ given - 1 <= Total

LoaderType ==
  /\ producing \in BOOLEAN
  /\ working \in [Workers -> BOOLEAN]
  /\ item \in [Workers -> Nat]
  /\ batch \in [Workers -> SUBSET Nat]
  /\ table \in [1..Total -> {0, 1}]
  /\ flushed \in 0..NWorkers
  /\ cause \in {"none", "canceled", "append", "stream"}

\* The workers have the items that were taken, none of them twice, and the
\* rows that no worker has any more are in the table.
ItemsHeld ==
  /\ \A w \in Workers : item[w] <= taken
  /\ \A w \in Workers : \A i \in batch[w] : i \in 1..taken /\ i <= Total /\ ~IsError(i)
  /\ \A w, v \in Workers : w # v => Held(w) \cap Held(v) = {}
  /\ \A i \in 1..Total : i <= taken /\ ~IsError(i) =>
       table[i] = 1 \/ \E w \in Workers : i \in Held(w)
  /\ \A i \in 1..taken : IsError(i) => \E w \in Workers : item[w] = i

\* The table has no row that was not taken, or that somebody still will insert.
NotInserted ==
  /\ \A i \in 1..Total : i > taken => table[i] = 0
  /\ \A w \in Workers : (working[w] \/ cause = "none") /\ ingested = "none" =>
       \A i \in 1..Total : i \in Held(w) => table[i] = 0

\* Without an error the producer ends when the stream has, a worker when
\* there is nothing to take, and Ingest when it has inserted every batch.
EndsInOrder ==
  /\ ~producing /\ cause = "none" => put = given /\ streamEnd # "more"
  /\ \A w \in Workers : ~working[w] /\ cause = "none" =>
       item[w] = NoItem /\ ~producing /\ taken = put
  /\ flushed > 0 \/ ingested # "none" => GroupReturned
  /\ \A w \in Workers : w <= flushed => batch[w] = {}
  /\ ingested = "success" => cause = "none" /\ flushed = NWorkers

\* An error has its reason.
CausesTrue ==
  /\ cause = "canceled" \/ ingested = "canceled" => interrupted
  /\ cause = "stream" \/ ingested = "stream" => streamEnd = "failed"

LoaderInv ==
  /\ ItemsCounted /\ LoaderType /\ ItemsHeld /\ NotInserted /\ EndsInOrder /\ CausesTrue

\* The total of the stream does not change.
LEMMA TotalStays ==
  ASSUME UNCHANGED <<input, where>>
  PROVE  Total' = Total
BY DEF Total, Wanted, Selected, PassingRows, Passes

\* The numbers of the rows that a worker has.
LEMMA HeldIs ==
  ASSUME ItemsCounted, LoaderType, ItemsHeld, NEW w \in Workers
  PROVE  /\ \A i \in Held(w) : i \in 1..taken
         /\ \A i : i \in Held(w) <=> i \in batch[w] \/ (i = item[w] /\ item[w] # NoItem)
  BY DEF ItemsCounted, LoaderType, ItemsHeld, Held, NoItem

\* Rows that the table has not are in it once when they are inserted.
LEMMA InsertedIs ==
  ASSUME Total \in Nat, table \in [1..Total -> {0, 1}], NEW S,
         \A i \in 1..Total : i \in S => table[i] = 0
  PROVE  /\ Inserted(S) \in [1..Total -> {0, 1}]
         /\ \A i \in 1..Total : Inserted(S)[i] = IF i \in S THEN 1 ELSE table[i]
  BY DEF Inserted

\* The producer gets a row.
LEMMA PullRowKeeps ==
  ASSUME LoaderInv, Total \in Nat, Len(Readable) <= Total, Len(Readable) \in Nat,
         Total' = Total, producing /\ put = given /\ GiveRow /\ UNCHANGED ingestVars
  PROVE  LoaderInv'
<1> USE DEF GiveRow,
           streamVars, ingestVars, Workers, NoItem, IsError
<1>1. ItemsCounted'
  BY DEF LoaderInv, ItemsCounted, LoaderType
<1>2. LoaderType'
  BY IngestAssumption DEF LoaderInv, ItemsCounted, LoaderType, ItemsHeld
<1>3. ItemsHeld'
  BY DEF LoaderInv, ItemsCounted, LoaderType, ItemsHeld, Held, NotInserted
<1>4. NotInserted'
  BY DEF LoaderInv, ItemsCounted, LoaderType, ItemsHeld, NotInserted, Held, EndsInOrder,
         GroupReturned
<1>5. EndsInOrder'
  BY IngestAssumption DEF LoaderInv, ItemsCounted, LoaderType, ItemsHeld, EndsInOrder, GroupReturned
<1>6. CausesTrue'
  BY DEF LoaderInv, ItemsCounted, LoaderType, EndsInOrder, CausesTrue, GroupReturned
<1> QED BY <1>1, <1>2, <1>3, <1>4, <1>5, <1>6 DEF LoaderInv

\* It gets an error.
LEMMA PullErrorKeeps ==
  ASSUME LoaderInv, Total \in Nat, Len(Readable) <= Total, Len(Readable) \in Nat,
         Total' = Total, producing /\ put = given /\ GiveError /\ UNCHANGED ingestVars
  PROVE  LoaderInv'
<1> USE DEF GiveError,
           streamVars, ingestVars, Workers, NoItem, IsError
<1>1. ItemsCounted'
  BY DEF LoaderInv, ItemsCounted, LoaderType
<1>2. LoaderType'
  BY IngestAssumption DEF LoaderInv, ItemsCounted, LoaderType, ItemsHeld
<1>3. ItemsHeld'
  BY DEF LoaderInv, ItemsCounted, LoaderType, ItemsHeld, Held, NotInserted
<1>4. NotInserted'
  BY DEF LoaderInv, ItemsCounted, LoaderType, ItemsHeld, NotInserted, Held, EndsInOrder,
         GroupReturned
<1>5. EndsInOrder'
  BY IngestAssumption DEF LoaderInv, ItemsCounted, LoaderType, ItemsHeld, EndsInOrder, GroupReturned
<1>6. CausesTrue'
  BY DEF LoaderInv, ItemsCounted, LoaderType, EndsInOrder, CausesTrue, GroupReturned
<1> QED BY <1>1, <1>2, <1>3, <1>4, <1>5, <1>6 DEF LoaderInv

\* It is told that the stream has ended.
LEMMA PullEndKeeps ==
  ASSUME LoaderInv, Total \in Nat, Len(Readable) <= Total, Len(Readable) \in Nat,
         Total' = Total, producing /\ put = given /\ EndStream /\ UNCHANGED ingestVars
  PROVE  LoaderInv'
<1> USE DEF EndStream,
           streamVars, ingestVars, Workers, NoItem, IsError
<1>1. ItemsCounted'
  BY DEF LoaderInv, ItemsCounted, LoaderType
<1>2. LoaderType'
  BY IngestAssumption DEF LoaderInv, ItemsCounted, LoaderType, ItemsHeld
<1>3. ItemsHeld'
  BY DEF LoaderInv, ItemsCounted, LoaderType, ItemsHeld, Held, NotInserted
<1>4. NotInserted'
  BY DEF LoaderInv, ItemsCounted, LoaderType, ItemsHeld, NotInserted, Held, EndsInOrder,
         GroupReturned
<1>5. EndsInOrder'
  BY IngestAssumption DEF LoaderInv, ItemsCounted, LoaderType, ItemsHeld, EndsInOrder, GroupReturned
<1>6. CausesTrue'
  BY DEF LoaderInv, ItemsCounted, LoaderType, EndsInOrder, CausesTrue, GroupReturned
<1> QED BY <1>1, <1>2, <1>3, <1>4, <1>5, <1>6 DEF LoaderInv

\* It puts the item into the channel.
LEMMA SendKeeps ==
  ASSUME LoaderInv, Total \in Nat, Len(Readable) <= Total, Len(Readable) \in Nat,
         Total' = Total, Send
  PROVE  LoaderInv'
<1> USE DEF Send,
           streamVars, ingestVars, Workers, NoItem, IsError
<1>1. ItemsCounted'
  BY DEF LoaderInv, ItemsCounted, LoaderType
<1>2. LoaderType'
  BY IngestAssumption DEF LoaderInv, ItemsCounted, LoaderType, ItemsHeld
<1>3. ItemsHeld'
  BY DEF LoaderInv, ItemsCounted, LoaderType, ItemsHeld, Held, NotInserted
<1>4. NotInserted'
  BY DEF LoaderInv, ItemsCounted, LoaderType, ItemsHeld, NotInserted, Held, EndsInOrder,
         GroupReturned
<1>5. EndsInOrder'
  BY IngestAssumption DEF LoaderInv, ItemsCounted, LoaderType, ItemsHeld, EndsInOrder, GroupReturned
<1>6. CausesTrue'
  BY DEF LoaderInv, ItemsCounted, LoaderType, EndsInOrder, CausesTrue, GroupReturned
<1> QED BY <1>1, <1>2, <1>3, <1>4, <1>5, <1>6 DEF LoaderInv

\* It leaves the item when the group is done.
LEMMA SendCanceledKeeps ==
  ASSUME LoaderInv, Total \in Nat, Len(Readable) <= Total, Len(Readable) \in Nat,
         Total' = Total, SendCanceled
  PROVE  LoaderInv'
<1> USE DEF SendCanceled, GroupDone, FirstError,
           streamVars, ingestVars, Workers, NoItem, IsError
<1>1. ItemsCounted'
  BY DEF LoaderInv, ItemsCounted, LoaderType
<1>2. LoaderType'
  BY IngestAssumption DEF LoaderInv, ItemsCounted, LoaderType, ItemsHeld
<1>3. ItemsHeld'
  BY DEF LoaderInv, ItemsCounted, LoaderType, ItemsHeld, Held, NotInserted
<1>4. NotInserted'
  BY DEF LoaderInv, ItemsCounted, LoaderType, ItemsHeld, NotInserted, Held, EndsInOrder,
         GroupReturned
<1>5. EndsInOrder'
  BY IngestAssumption DEF LoaderInv, ItemsCounted, LoaderType, ItemsHeld, EndsInOrder, GroupReturned
<1>6. CausesTrue'
  BY DEF LoaderInv, ItemsCounted, LoaderType, EndsInOrder, CausesTrue, GroupReturned
<1> QED BY <1>1, <1>2, <1>3, <1>4, <1>5, <1>6 DEF LoaderInv

\* It closes the channel.
LEMMA ProducerEndsKeeps ==
  ASSUME LoaderInv, Total \in Nat, Len(Readable) <= Total, Len(Readable) \in Nat,
         Total' = Total, ProducerEnds
  PROVE  LoaderInv'
<1> USE DEF ProducerEnds,
           streamVars, ingestVars, Workers, NoItem, IsError
<1>1. ItemsCounted'
  BY DEF LoaderInv, ItemsCounted, LoaderType
<1>2. LoaderType'
  BY IngestAssumption DEF LoaderInv, ItemsCounted, LoaderType, ItemsHeld
<1>3. ItemsHeld'
  BY DEF LoaderInv, ItemsCounted, LoaderType, ItemsHeld, Held, NotInserted
<1>4. NotInserted'
  BY DEF LoaderInv, ItemsCounted, LoaderType, ItemsHeld, NotInserted, Held, EndsInOrder,
         GroupReturned
<1>5. EndsInOrder'
  BY IngestAssumption DEF LoaderInv, ItemsCounted, LoaderType, ItemsHeld, EndsInOrder, GroupReturned
<1>6. CausesTrue'
  BY DEF LoaderInv, ItemsCounted, LoaderType, EndsInOrder, CausesTrue, GroupReturned
<1> QED BY <1>1, <1>2, <1>3, <1>4, <1>5, <1>6 DEF LoaderInv

\* A worker takes an item: it is nobody else's.
LEMMA TakeKeeps ==
  ASSUME LoaderInv, Total \in Nat, Len(Readable) <= Total, Len(Readable) \in Nat,
         Total' = Total, NEW w \in Workers, working[w], Take(w)
  PROVE  LoaderInv'
<1> USE DEF Take, Idle,
           streamVars, ingestVars, Workers, NoItem, IsError
<1>1. ItemsCounted'
  BY DEF LoaderInv, ItemsCounted, LoaderType
<1>2. LoaderType'
  BY IngestAssumption DEF LoaderInv, ItemsCounted, LoaderType, ItemsHeld
<1>3. ItemsHeld'
  <2>1. taken \in Nat /\ taken' = taken + 1 /\ w \in Workers /\ item[w] = 0
    BY DEF LoaderInv, ItemsCounted
  <2>2. /\ item'[w] = taken + 1 /\ \A v \in Workers : v # w => item'[v] = item[v]
        /\ \A v \in Workers : batch'[v] = batch[v]
    BY DEF LoaderInv, LoaderType
  <2>3. \A v \in Workers : \A i \in Held(v) : i \in 1..taken
    BY HeldIs DEF LoaderInv
  <2>4. /\ \A i : i \in Held(w)' <=> i \in Held(w) \/ i = taken + 1
        /\ \A v \in Workers : v # w => Held(v)' = Held(v)
    BY <2>1, <2>2 DEF Held
  <2>5. \A v \in Workers : item'[v] <= taken'
    BY <2>1, <2>2 DEF LoaderInv, LoaderType, ItemsHeld
  <2>6. \A v \in Workers : \A i \in batch'[v] : i \in 1..taken' /\ i <= Total' /\ ~IsError(i)'
    BY <2>1, <2>2 DEF LoaderInv, ItemsHeld
  <2>7. \A v, u \in Workers : v # u => Held(v)' \cap Held(u)' = {}
    <3>1. \A v, u \in Workers : v # u => Held(v) \cap Held(u) = {}
      BY DEF LoaderInv, ItemsHeld
    <3>2. \A v \in Workers : taken + 1 \notin Held(v)
      BY <2>1, <2>3
    <3> QED BY <2>4, <3>1, <3>2
  <2>8. \A i \in 1..Total' : i <= taken' /\ ~IsError(i)' =>
          table'[i] = 1 \/ \E v \in Workers : i \in Held(v)'
    BY <2>1, <2>4 DEF LoaderInv, ItemsHeld
  <2>9. \A i \in 1..taken' : IsError(i)' => \E v \in Workers : item'[v] = i
    <3>1. ASSUME NEW i \in 1..taken', IsError(i)' PROVE \E v \in Workers : item'[v] = i
      <4>1. CASE i = taken + 1
        BY <2>2, <4>1
      <4>2. CASE i \in 1..taken
        <5>1. PICK v \in Workers : item[v] = i
          BY <3>1, <4>2 DEF LoaderInv, ItemsHeld
        <5> QED BY <2>1, <2>2, <4>2, <5>1
      <4> QED BY <2>1, <4>1, <4>2
    <3> QED BY <3>1
  <2> QED BY <2>5, <2>6, <2>7, <2>8, <2>9 DEF ItemsHeld
<1>4. NotInserted'
  BY DEF LoaderInv, ItemsCounted, LoaderType, ItemsHeld, NotInserted, Held, EndsInOrder,
         GroupReturned
<1>5. EndsInOrder'
  BY IngestAssumption DEF LoaderInv, ItemsCounted, LoaderType, ItemsHeld, EndsInOrder, GroupReturned
<1>6. CausesTrue'
  BY DEF LoaderInv, ItemsCounted, LoaderType, EndsInOrder, CausesTrue, GroupReturned
<1> QED BY <1>1, <1>2, <1>3, <1>4, <1>5, <1>6 DEF LoaderInv

\* It puts a row into its batch.
LEMMA GatherKeeps ==
  ASSUME LoaderInv, Total \in Nat, Len(Readable) <= Total, Len(Readable) \in Nat,
         Total' = Total, NEW w \in Workers, working[w], Gather(w)
  PROVE  LoaderInv'
<1> USE DEF Gather,
           streamVars, ingestVars, Workers, NoItem, IsError
<1>1. ItemsCounted'
  BY DEF LoaderInv, ItemsCounted, LoaderType
<1>2. LoaderType'
  BY IngestAssumption DEF LoaderInv, ItemsCounted, LoaderType, ItemsHeld
<1>3. ItemsHeld'
  <2>1. Held(w)' = Held(w) /\ \A v \in Workers : v # w => Held(v)' = Held(v)
    BY DEF LoaderInv, LoaderType, Held
  <2>2. /\ item[w] \in 1..taken /\ item[w] <= given
        /\ item'[w] = 0 /\ \A v \in Workers : v # w => item'[v] = item[v]
        /\ \A i : i \in batch'[w] => i \in batch[w] \/ i = item[w]
        /\ \A v \in Workers : v # w => batch'[v] = batch[v]
    BY DEF LoaderInv, ItemsCounted, LoaderType, ItemsHeld
  <2>3. item[w] <= Total
    BY <2>2 DEF LoaderInv, ItemsCounted
  <2>4. \A v \in Workers : item'[v] <= taken'
    BY <2>2 DEF LoaderInv, ItemsCounted, ItemsHeld
  <2>5. \A v \in Workers : \A i \in batch'[v] : i \in 1..taken' /\ i <= Total' /\ ~IsError(i)'
    BY <2>2, <2>3 DEF LoaderInv, ItemsHeld
  <2>6. \A v, u \in Workers : v # u => Held(v)' \cap Held(u)' = {}
    BY <2>1 DEF LoaderInv, ItemsHeld
  <2>7. \A i \in 1..Total' : i <= taken' /\ ~IsError(i)' =>
          table'[i] = 1 \/ \E v \in Workers : i \in Held(v)'
    BY <2>1 DEF LoaderInv, ItemsHeld
  <2>8. \A i \in 1..taken' : IsError(i)' => \E v \in Workers : item'[v] = i
    BY <2>2 DEF LoaderInv, ItemsHeld
  <2> QED BY <2>4, <2>5, <2>6, <2>7, <2>8 DEF ItemsHeld
<1>4. NotInserted'
  BY DEF LoaderInv, ItemsCounted, LoaderType, ItemsHeld, NotInserted, Held, EndsInOrder,
         GroupReturned
<1>5. EndsInOrder'
  BY IngestAssumption DEF LoaderInv, ItemsCounted, LoaderType, ItemsHeld, EndsInOrder, GroupReturned
<1>6. CausesTrue'
  BY DEF LoaderInv, ItemsCounted, LoaderType, EndsInOrder, CausesTrue, GroupReturned
<1> QED BY <1>1, <1>2, <1>3, <1>4, <1>5, <1>6 DEF LoaderInv

\* It inserts a full batch: these rows were not in the table.
LEMMA InsertFullKeeps ==
  ASSUME LoaderInv, Total \in Nat, Len(Readable) <= Total, Len(Readable) \in Nat,
         Total' = Total, NEW w \in Workers, working[w], InsertFull(w)
  PROVE  LoaderInv'
<1> USE DEF InsertFull, Inserted,
           streamVars, ingestVars, Workers, NoItem, IsError
<1>1. ItemsCounted'
  BY DEF LoaderInv, ItemsCounted, LoaderType
<1>0. /\ table' \in [1..Total -> {0, 1}]
      /\ \A i \in 1..Total : table'[i] = IF i \in Held(w) THEN 1 ELSE table[i]
  <2>1. Held(w) = batch[w] \cup {item[w]}
    BY DEF Held
  <2>2. \A i \in 1..Total : i \in Held(w) => table[i] = 0
    BY DEF LoaderInv, NotInserted, EndsInOrder, GroupReturned
  <2>3. table' = Inserted(Held(w)) /\ table \in [1..Total -> {0, 1}]
    BY <2>1 DEF LoaderInv, LoaderType
  <2> QED BY ONLY Total \in Nat, <2>2, <2>3, InsertedIs
<1>2. LoaderType'
  BY <1>0 DEF LoaderInv, LoaderType
<1>3. ItemsHeld'
  <2>1. Held(w)' = {} /\ \A v \in Workers : v # w => Held(v)' = Held(v)
    BY DEF LoaderInv, LoaderType, Held
  <2>2. /\ item'[w] = 0 /\ \A v \in Workers : v # w => item'[v] = item[v]
        /\ batch'[w] = {} /\ \A v \in Workers : v # w => batch'[v] = batch[v]
    BY DEF LoaderInv, LoaderType
  <2>4. \A v \in Workers : item'[v] <= taken'
    BY <2>2 DEF LoaderInv, ItemsCounted, ItemsHeld
  <2>5. \A v \in Workers : \A i \in batch'[v] : i \in 1..taken' /\ i <= Total' /\ ~IsError(i)'
    BY <2>2 DEF LoaderInv, ItemsHeld
  <2>6. \A v, u \in Workers : v # u => Held(v)' \cap Held(u)' = {}
    BY <2>1 DEF LoaderInv, ItemsHeld
  <2>7. \A i \in 1..Total' : i <= taken' /\ ~IsError(i)' =>
          table'[i] = 1 \/ \E v \in Workers : i \in Held(v)'
    BY <1>0, <2>1 DEF LoaderInv, ItemsHeld
  <2>8. \A i \in 1..taken' : IsError(i)' => \E v \in Workers : item'[v] = i
    BY <2>2 DEF LoaderInv, ItemsHeld
  <2> QED BY <2>4, <2>5, <2>6, <2>7, <2>8 DEF ItemsHeld
<1>4. NotInserted'
  <2>1. Held(w)' = {} /\ \A v \in Workers : v # w => Held(v)' = Held(v)
    BY DEF LoaderInv, LoaderType, Held
  <2>2. \A i \in 1..Total : i > taken => table'[i] = 0
    BY <1>0, HeldIs DEF LoaderInv, ItemsCounted, NotInserted
  <2>3. \A v \in Workers : v # w => Held(v) \cap Held(w) = {}
    BY DEF LoaderInv, ItemsHeld
  <2> QED BY <1>0, <2>1, <2>2, <2>3 DEF LoaderInv, NotInserted
<1>5. EndsInOrder'
  BY IngestAssumption DEF LoaderInv, ItemsCounted, LoaderType, ItemsHeld, EndsInOrder, GroupReturned
<1>6. CausesTrue'
  BY DEF LoaderInv, ItemsCounted, LoaderType, EndsInOrder, CausesTrue, GroupReturned
<1> QED BY <1>1, <1>2, <1>3, <1>4, <1>5, <1>6 DEF LoaderInv

\* It fails, and nobody will insert its rows once more.
LEMMA WorkerFailsKeeps ==
  ASSUME LoaderInv, Total \in Nat, Len(Readable) <= Total, Len(Readable) \in Nat,
         Total' = Total, NEW w \in Workers, working[w], WorkerFails(w)
  PROVE  LoaderInv'
<1> USE DEF WorkerFails, Inserted, FirstError, BatchContextDone,
           streamVars, ingestVars, Workers, NoItem, IsError
<1>1. ItemsCounted'
  BY DEF LoaderInv, ItemsCounted, LoaderType
<1>0. /\ table' \in [1..Total -> {0, 1}]
      /\ \A i \in 1..Total : i \notin Held(w) => table'[i] = table[i]
      /\ \A i \in 1..Total : table[i] = 1 => table'[i] = 1
  <2>1. batch'[w] = batch[w] \cup {item[w]} /\ Held(w) = batch[w] \cup {item[w]}
    BY DEF LoaderInv, LoaderType, Held
  <2>2. \A i \in 1..Total : i \in Held(w) => table[i] = 0
    BY DEF LoaderInv, NotInserted, EndsInOrder, GroupReturned
  <2>3. table' \in {table, Inserted(Held(w))} /\ table \in [1..Total -> {0, 1}]
    BY <2>1 DEF LoaderInv, LoaderType
  <2>4. /\ Inserted(Held(w)) \in [1..Total -> {0, 1}]
        /\ \A i \in 1..Total : Inserted(Held(w))[i] = IF i \in Held(w) THEN 1 ELSE table[i]
    BY ONLY Total \in Nat, <2>2, <2>3, InsertedIs
  <2> QED BY ONLY <2>2, <2>3, <2>4
<1>2. LoaderType'
  <2>1. working' \in [Workers -> BOOLEAN] /\ item' \in [Workers -> Nat] /\ producing' \in BOOLEAN
    BY DEF LoaderInv, LoaderType
  <2>2. batch' \in [Workers -> SUBSET Nat]
    BY DEF LoaderInv, LoaderType
  <2>3. cause' \in {"none", "canceled", "append", "stream"} /\ flushed' \in 0..NWorkers
    BY DEF LoaderInv, LoaderType
  <2> QED BY <1>0, <2>1, <2>2, <2>3 DEF LoaderType
<1>3. ItemsHeld'
  <2>1. /\ batch' = [batch EXCEPT ![w] = @ \cup {item[w]}] /\ batch \in [Workers -> SUBSET Nat]
        /\ item' = item /\ item \in [Workers -> Nat]
    BY DEF LoaderInv, LoaderType
  <2>2. batch'[w] = batch[w] \cup {item[w]} /\ \A v \in Workers : v # w => batch'[v] = batch[v]
    BY <2>1
  <2>3. \A v \in Workers : Held(v)' = Held(v)
    BY <2>1, <2>2 DEF Held
  <2>4. item[w] \in 1..taken /\ item[w] <= Total /\ ~IsError(item[w])
    BY <2>1 DEF LoaderInv, ItemsCounted, ItemsHeld
  <2>5. \A v \in Workers : \A i \in batch'[v] : i \in 1..taken' /\ i <= Total' /\ ~IsError(i)'
    BY <2>2, <2>4 DEF LoaderInv, ItemsHeld
  <2>6. \A v, u \in Workers : v # u => Held(v)' \cap Held(u)' = {}
    BY <2>3 DEF LoaderInv, ItemsHeld
  <2>7. \A i \in 1..Total' : i <= taken' /\ ~IsError(i)' =>
          table'[i] = 1 \/ \E v \in Workers : i \in Held(v)'
    BY <1>0, <2>3 DEF LoaderInv, ItemsHeld
  <2> QED BY <2>1, <2>5, <2>6, <2>7 DEF LoaderInv, ItemsHeld
<1>4. NotInserted'
  BY DEF LoaderInv, ItemsCounted, LoaderType, ItemsHeld, NotInserted, Held, EndsInOrder,
         GroupReturned
<1>5. EndsInOrder'
  BY IngestAssumption DEF LoaderInv, ItemsCounted, LoaderType, ItemsHeld, EndsInOrder, GroupReturned
<1>6. CausesTrue'
  BY DEF LoaderInv, ItemsCounted, LoaderType, EndsInOrder, CausesTrue, GroupReturned
<1> QED BY <1>1, <1>2, <1>3, <1>4, <1>5, <1>6 DEF LoaderInv

\* It gets the stream's error.
LEMMA StreamFailsKeeps ==
  ASSUME LoaderInv, Total \in Nat, Len(Readable) <= Total, Len(Readable) \in Nat,
         Total' = Total, NEW w \in Workers, working[w], StreamFails(w)
  PROVE  LoaderInv'
<1> USE DEF StreamFails, FirstError,
           streamVars, ingestVars, Workers, NoItem, IsError
<1>1. ItemsCounted'
  BY DEF LoaderInv, ItemsCounted, LoaderType
<1>2. LoaderType'
  BY IngestAssumption DEF LoaderInv, ItemsCounted, LoaderType, ItemsHeld
<1>3. ItemsHeld'
  BY DEF LoaderInv, ItemsCounted, LoaderType, ItemsHeld, Held, NotInserted
<1>4. NotInserted'
  BY DEF LoaderInv, ItemsCounted, LoaderType, ItemsHeld, NotInserted, Held, EndsInOrder,
         GroupReturned
<1>5. EndsInOrder'
  BY IngestAssumption DEF LoaderInv, ItemsCounted, LoaderType, ItemsHeld, EndsInOrder, GroupReturned
<1>6. CausesTrue'
  BY DEF LoaderInv, ItemsCounted, LoaderType, EndsInOrder, CausesTrue, GroupReturned
<1> QED BY <1>1, <1>2, <1>3, <1>4, <1>5, <1>6 DEF LoaderInv

\* It ends when there is nothing more to come.
LEMMA WorkerEndsKeeps ==
  ASSUME LoaderInv, Total \in Nat, Len(Readable) <= Total, Len(Readable) \in Nat,
         Total' = Total, NEW w \in Workers, working[w], WorkerEnds(w)
  PROVE  LoaderInv'
<1> USE DEF WorkerEnds, Idle,
           streamVars, ingestVars, Workers, NoItem, IsError
<1>1. ItemsCounted'
  BY DEF LoaderInv, ItemsCounted, LoaderType
<1>2. LoaderType'
  BY IngestAssumption DEF LoaderInv, ItemsCounted, LoaderType, ItemsHeld
<1>3. ItemsHeld'
  BY DEF LoaderInv, ItemsCounted, LoaderType, ItemsHeld, Held, NotInserted
<1>4. NotInserted'
  BY DEF LoaderInv, ItemsCounted, LoaderType, ItemsHeld, NotInserted, Held, EndsInOrder,
         GroupReturned
<1>5. EndsInOrder'
  BY IngestAssumption DEF LoaderInv, ItemsCounted, LoaderType, ItemsHeld, EndsInOrder, GroupReturned
<1>6. CausesTrue'
  BY DEF LoaderInv, ItemsCounted, LoaderType, EndsInOrder, CausesTrue, GroupReturned
<1> QED BY <1>1, <1>2, <1>3, <1>4, <1>5, <1>6 DEF LoaderInv

\* Ingest returns the group's error.
LEMMA GroupFailedKeeps ==
  ASSUME LoaderInv, Total \in Nat, Len(Readable) <= Total, Len(Readable) \in Nat,
         Total' = Total, GroupFailed
  PROVE  LoaderInv'
<1> USE DEF GroupFailed, IngestReturns,
           streamVars, ingestVars, Workers, NoItem, IsError
<1>1. ItemsCounted'
  BY DEF LoaderInv, ItemsCounted, LoaderType
<1>2. LoaderType'
  BY IngestAssumption DEF LoaderInv, ItemsCounted, LoaderType, ItemsHeld
<1>3. ItemsHeld'
  BY DEF LoaderInv, ItemsCounted, LoaderType, ItemsHeld, Held, NotInserted
<1>4. NotInserted'
  BY DEF LoaderInv, ItemsCounted, LoaderType, ItemsHeld, NotInserted, Held, EndsInOrder,
         GroupReturned
<1>5. EndsInOrder'
  BY IngestAssumption DEF LoaderInv, ItemsCounted, LoaderType, ItemsHeld, EndsInOrder, GroupReturned
<1>6. CausesTrue'
  BY DEF LoaderInv, ItemsCounted, LoaderType, EndsInOrder, CausesTrue, GroupReturned
<1> QED BY <1>1, <1>2, <1>3, <1>4, <1>5, <1>6 DEF LoaderInv

\* It inserts a worker's last batch.
LEMMA FlushRestKeeps ==
  ASSUME LoaderInv, Total \in Nat, Len(Readable) <= Total, Len(Readable) \in Nat,
         Total' = Total, FlushRest, NEW f, f = flushed + 1
  PROVE  LoaderInv'
<1> USE DEF FlushRest, Inserted,
           streamVars, ingestVars, Workers, NoItem, IsError
<1>1. ItemsCounted'
  BY DEF LoaderInv, ItemsCounted, LoaderType
<1>0. f \in Workers /\ item[f] = 0 /\ Held(f) = batch[f] /\ ingested = "none"
  <2>1. f \in Workers
    BY IngestAssumption DEF LoaderInv, LoaderType
  <2>2. item[f] = 0
    BY <2>1 DEF LoaderInv, EndsInOrder, GroupReturned
  <2>3. Held(f) = batch[f]
    BY <2>2 DEF Held
  <2> QED BY <2>1, <2>2, <2>3
<1>7. /\ table' \in [1..Total -> {0, 1}]
      /\ \A i \in 1..Total : i \notin Held(f) => table'[i] = table[i]
      /\ \A i \in 1..Total : i \in Held(f) => table'[i] = 1
  <2>1. \A i \in 1..Total : i \in Held(f) => table[i] = 0
    BY <1>0 DEF LoaderInv, NotInserted
  <2>2. table' = Inserted(Held(f)) /\ table \in [1..Total -> {0, 1}]
    BY <1>0 DEF LoaderInv, LoaderType
  <2>3. /\ Inserted(Held(f)) \in [1..Total -> {0, 1}]
        /\ \A i \in 1..Total : Inserted(Held(f))[i] = IF i \in Held(f) THEN 1 ELSE table[i]
    BY ONLY Total \in Nat, <2>1, <2>2, InsertedIs
  <2> QED BY ONLY <2>1, <2>2, <2>3
<1>2. LoaderType'
  BY IngestAssumption, <1>0, <1>7 DEF LoaderInv, LoaderType
<1>8. batch' = [batch EXCEPT ![f] = {}] /\ batch \in [Workers -> SUBSET Nat] /\ item' = item
  BY DEF LoaderInv, LoaderType
<1>9. batch'[f] = {} /\ \A v \in Workers : v # f => batch'[v] = batch[v]
  BY <1>0, <1>8
<1>10. Held(f)' = {} /\ \A v \in Workers : v # f => Held(v)' = Held(v)
  <2>1. item'[f] = 0 /\ batch'[f] = {}
    BY <1>0, <1>8, <1>9
  <2>2. Held(f)' = {}
    BY <2>1 DEF Held
  <2> QED BY <1>8, <1>9, <2>2 DEF Held
<1>3. ItemsHeld'
  <2>1. \A v \in Workers : \A i \in batch'[v] : i \in 1..taken' /\ i <= Total' /\ ~IsError(i)'
    BY <1>0, <1>8, <1>9 DEF LoaderInv, ItemsHeld
  <2>2. \A v, u \in Workers : v # u => Held(v)' \cap Held(u)' = {}
    <3>1. \A v, u \in Workers : v # u => Held(v) \cap Held(u) = {}
      BY DEF LoaderInv, ItemsHeld
    <3> QED BY <1>10, <3>1
  <2>3. \A i \in 1..Total' : i <= taken' /\ ~IsError(i)' =>
          table'[i] = 1 \/ \E v \in Workers : i \in Held(v)'
    BY <1>0, <1>7, <1>10 DEF LoaderInv, ItemsHeld
  <2> QED BY <2>1, <2>2, <2>3 DEF LoaderInv, ItemsHeld
<1>4. NotInserted'
  <2>1. \A i \in 1..Total : i > taken => table'[i] = 0
    BY <1>0, <1>7, HeldIs DEF LoaderInv, ItemsCounted, NotInserted
  <2>2. \A v \in Workers : v # f => Held(v) \cap Held(f) = {}
    BY <1>0 DEF LoaderInv, ItemsHeld
  <2>3. ASSUME NEW v \in Workers, NEW i \in 1..Total, i \in Held(v)', ingested = "none"
        PROVE  table'[i] = 0
    <3>1. v # f /\ i \in Held(v) /\ i \notin Held(f)
      BY <1>0, <1>10, <2>2, <2>3
    <3>2. table[i] = 0
      BY <2>3, <3>1 DEF LoaderInv, NotInserted
    <3> QED BY <1>7, <3>1, <3>2
  <2> QED BY <2>1, <2>3 DEF NotInserted
<1>5. EndsInOrder'
  BY IngestAssumption DEF LoaderInv, ItemsCounted, LoaderType, ItemsHeld, EndsInOrder, GroupReturned
<1>6. CausesTrue'
  BY DEF LoaderInv, ItemsCounted, LoaderType, EndsInOrder, CausesTrue, GroupReturned
<1> QED BY <1>1, <1>2, <1>3, <1>4, <1>5, <1>6 DEF LoaderInv

\* It fails in that, and ends.
LEMMA FlushFailsKeeps ==
  ASSUME LoaderInv, Total \in Nat, Len(Readable) <= Total, Len(Readable) \in Nat,
         Total' = Total, FlushFails, NEW f, f = flushed + 1
  PROVE  LoaderInv'
<1> USE DEF FlushFails, Inserted, IngestReturns, BatchContextDone,
           streamVars, ingestVars, Workers, NoItem, IsError
<1>1. ItemsCounted'
  BY DEF LoaderInv, ItemsCounted, LoaderType
<1>0. f \in Workers /\ item[f] = 0 /\ Held(f) = batch[f] /\ ingested = "none"
  <2>1. f \in Workers
    BY IngestAssumption DEF LoaderInv, LoaderType
  <2>2. item[f] = 0
    BY <2>1 DEF LoaderInv, EndsInOrder, GroupReturned
  <2>3. Held(f) = batch[f]
    BY <2>2 DEF Held
  <2> QED BY <2>1, <2>2, <2>3
<1>7. /\ table' \in [1..Total -> {0, 1}]
      /\ \A i \in 1..Total : i \notin Held(f) => table'[i] = table[i]
      /\ \A i \in 1..Total : i \in Held(f) => table'[i] \in {0, 1}
  <2>1. \A i \in 1..Total : i \in Held(f) => table[i] = 0
    BY <1>0 DEF LoaderInv, NotInserted
  <2>2. table' \in {table, Inserted(Held(f))} /\ table \in [1..Total -> {0, 1}]
    BY <1>0 DEF LoaderInv, LoaderType
  <2>3. /\ Inserted(Held(f)) \in [1..Total -> {0, 1}]
        /\ \A i \in 1..Total : Inserted(Held(f))[i] = IF i \in Held(f) THEN 1 ELSE table[i]
    BY ONLY Total \in Nat, <2>1, <2>2, InsertedIs
  <2> QED BY ONLY <2>1, <2>2, <2>3
<1>2. LoaderType'
  BY IngestAssumption, <1>0, <1>7 DEF LoaderInv, LoaderType
<1>9. \A i \in 1..Total : table[i] = 1 => table'[i] = 1
  <2>1. \A i \in 1..Total : i \in Held(f) => table[i] = 0
    BY <1>0 DEF LoaderInv, NotInserted
  <2> QED BY <1>7, <2>1
<1>8. \A v \in Workers : Held(v)' = Held(v)
  BY DEF Held
<1>3. ItemsHeld'
  BY <1>7, <1>8, <1>9 DEF LoaderInv, ItemsHeld
<1>4. NotInserted'
  <2>1. \A i \in 1..Total : i > taken => table'[i] = 0
    BY <1>0, <1>7, HeldIs DEF LoaderInv, ItemsCounted, NotInserted
  <2>2. ingested' # "none"
    OBVIOUS
  <2> QED BY <2>1, <2>2 DEF NotInserted
<1>5. EndsInOrder'
  BY IngestAssumption DEF LoaderInv, ItemsCounted, LoaderType, ItemsHeld, EndsInOrder, GroupReturned
<1>6. CausesTrue'
  BY DEF LoaderInv, ItemsCounted, LoaderType, EndsInOrder, CausesTrue, GroupReturned
<1> QED BY <1>1, <1>2, <1>3, <1>4, <1>5, <1>6 DEF LoaderInv

\* It ends when all batches are inserted.
LEMMA IngestSucceedsKeeps ==
  ASSUME LoaderInv, Total \in Nat, Len(Readable) <= Total, Len(Readable) \in Nat,
         Total' = Total, IngestSucceeds
  PROVE  LoaderInv'
<1> USE DEF IngestSucceeds, IngestReturns,
           streamVars, ingestVars, Workers, NoItem, IsError
<1>1. ItemsCounted'
  BY DEF LoaderInv, ItemsCounted, LoaderType
<1>2. LoaderType'
  BY IngestAssumption DEF LoaderInv, ItemsCounted, LoaderType, ItemsHeld
<1>3. ItemsHeld'
  BY DEF LoaderInv, ItemsCounted, LoaderType, ItemsHeld, Held, NotInserted
<1>4. NotInserted'
  BY DEF LoaderInv, ItemsCounted, LoaderType, ItemsHeld, NotInserted, Held, EndsInOrder,
         GroupReturned
<1>5. EndsInOrder'
  BY IngestAssumption DEF LoaderInv, ItemsCounted, LoaderType, ItemsHeld, EndsInOrder, GroupReturned
<1>6. CausesTrue'
  BY DEF LoaderInv, ItemsCounted, LoaderType, EndsInOrder, CausesTrue, GroupReturned
<1> QED BY <1>1, <1>2, <1>3, <1>4, <1>5, <1>6 DEF LoaderInv

\* The caller cancels.
LEMMA InterruptKeeps ==
  ASSUME LoaderInv, Total \in Nat, Len(Readable) <= Total, Len(Readable) \in Nat,
         Total' = Total, Interrupt
  PROVE  LoaderInv'
<1> USE DEF Interrupt,
           streamVars, ingestVars, Workers, NoItem, IsError
<1>1. ItemsCounted'
  BY DEF LoaderInv, ItemsCounted, LoaderType
<1>2. LoaderType'
  BY IngestAssumption DEF LoaderInv, ItemsCounted, LoaderType, ItemsHeld
<1>3. ItemsHeld'
  BY DEF LoaderInv, ItemsCounted, LoaderType, ItemsHeld, Held, NotInserted
<1>4. NotInserted'
  BY DEF LoaderInv, ItemsCounted, LoaderType, ItemsHeld, NotInserted, Held, EndsInOrder,
         GroupReturned
<1>5. EndsInOrder'
  BY IngestAssumption DEF LoaderInv, ItemsCounted, LoaderType, ItemsHeld, EndsInOrder, GroupReturned
<1>6. CausesTrue'
  BY DEF LoaderInv, ItemsCounted, LoaderType, EndsInOrder, CausesTrue, GroupReturned
<1> QED BY <1>1, <1>2, <1>3, <1>4, <1>5, <1>6 DEF LoaderInv

\* The loader of a reader that is not running does not start.
LoaderIdle == table = [i \in 1..Total |-> 0] /\ ingested = "none"

LoadingInv == StreamInv /\ IF reader = "ingest" THEN LoaderInv ELSE LoaderIdle

\* It holds at the start.
LEMMA InitLoading == Init => LoadingInv
<1> SUFFICES ASSUME Init PROVE LoadingInv
  OBVIOUS
<1>1. StreamInv
  BY DEF Init, StreamInit, StreamInv
<1>2. Total \in Nat
  BY <1>1, TotalIs DEF StreamInv
<1>3. LoaderIdle
  BY DEF Init, IngestInit, LoaderIdle
<1>4. LoaderInv
  <2> USE IngestAssumption DEF Init, IngestInit, StreamInit, NoItem, Workers
  <2>1. ItemsCounted
    BY <1>2 DEF ItemsCounted
  <2>2. LoaderType
    BY <1>2 DEF LoaderType
  <2>3. \A w \in Workers : Held(w) = {}
    BY DEF Held
  <2>4. ItemsHeld
    BY <1>2, <2>3 DEF ItemsHeld, IsError
  <2>5. NotInserted
    BY <1>2, <2>3 DEF NotInserted
  <2>6. EndsInOrder /\ CausesTrue
    BY DEF EndsInOrder, CausesTrue
  <2> QED BY <2>1, <2>2, <2>4, <2>5, <2>6 DEF LoaderInv
<1> QED BY <1>1, <1>3, <1>4 DEF LoadingInv

\* Every action of the loader keeps its invariant.
LEMMA LoaderKeeps ==
  ASSUME StreamInv, LoaderInv, Total' = Total, IngestNext
  PROVE  LoaderInv'
<1>1. Total \in Nat /\ Len(Readable) <= Total /\ Len(Readable) \in Nat
  BY TotalIs DEF StreamInv
<1>2. CASE Producer
  BY <1>1, <1>2, PullRowKeeps, PullErrorKeeps, PullEndKeeps, SendKeeps, SendCanceledKeeps,
     ProducerEndsKeeps DEF Producer, Pull
<1>3. CASE \E w \in Workers : Worker(w)
  <2>1. PICK w \in Workers : Worker(w)
    BY <1>3
  <2>2. working[w]
    BY <2>1 DEF Worker, Take, WorkerEnds, Idle
  <2> QED BY <1>1, <2>1, <2>2, TakeKeeps, GatherKeeps, InsertFullKeeps, WorkerFailsKeeps,
             StreamFailsKeeps, WorkerEndsKeeps DEF Worker
<1>4. CASE Ingest
  <2>1. PICK f : f = flushed + 1
    OBVIOUS
  <2> QED BY <1>1, <1>4, <2>1, GroupFailedKeeps, FlushRestKeeps, FlushFailsKeeps,
             IngestSucceedsKeeps DEF Ingest
<1>5. CASE Interrupt
  BY <1>1, <1>5, InterruptKeeps
<1> QED BY <1>2, <1>3, <1>4, <1>5 DEF IngestNext

\* A step of either reader keeps it.
LEMMA NextLoading == LoadingInv /\ [Next]_vars => LoadingInv'
<1> SUFFICES ASSUME LoadingInv, [Next]_vars PROVE LoadingInv'
  OBVIOUS
<1>1. StreamInv /\ StreamInv'
  BY NextStream DEF LoadingInv, StreamInv
<1>2. Total' = Total /\ reader' = reader
  BY NextStream, TotalStays
<1>3. CASE UNCHANGED vars
  <2>1. CASE reader = "ingest"
    <3>1. LoaderInv
      BY <2>1 DEF LoadingInv
    <3> USE <1>2, <1>3, <3>1 DEF LoaderInv, vars, streamVars, ingestVars
    <3>2. ItemsCounted' /\ LoaderType'
      BY DEF ItemsCounted, LoaderType
    <3>3. ItemsHeld'
      BY DEF ItemsHeld, Held, IsError
    <3>4. NotInserted'
      BY DEF NotInserted, Held
    <3>5. EndsInOrder' /\ CausesTrue'
      BY DEF EndsInOrder, CausesTrue, GroupReturned
    <3>6. LoaderInv'
      BY <3>2, <3>3, <3>4, <3>5
    <3> QED BY <1>1, <2>1, <3>6 DEF LoadingInv
  <2>2. CASE reader # "ingest"
    BY <1>1, <1>2, <1>3, <2>2 DEF LoadingInv, LoaderIdle, vars, ingestVars
  <2> QED BY <2>1, <2>2
<1>4. CASE Parquet(ParquetNext)
  BY <1>1, <1>2, <1>4 DEF Parquet, LoadingInv, LoaderIdle, ingestVars
<1>5. CASE Loader(IngestNext)
  BY <1>1, <1>2, <1>5, LoaderKeeps DEF Loader, LoadingInv
<1> QED BY <1>3, <1>4, <1>5 DEF Next

\* The loader's invariant, with the stream's.
THEOREM LoadingInvariance == Spec => []LoadingInv
<1> QED BY InitLoading, NextLoading, PTL DEF Spec

\* No row is inserted twice, and success means that every row is in the table.
THEOREM AlwaysIngestedOnce == Spec => []IngestedOnce
<1>1. LoadingInv => IngestedOnce
  <2> SUFFICES ASSUME LoadingInv PROVE IngestedOnce
    OBVIOUS
  <2>1. Total \in Nat
    BY TotalIs DEF LoadingInv, StreamInv
  <2>2. CASE reader # "ingest"
    BY <2>2 DEF LoadingInv, LoaderIdle, IngestedOnce
  <2>3. CASE reader = "ingest"
    <3> USE <2>3 DEF LoadingInv, LoaderInv
    <3>1. DOMAIN table = 1..Total /\ \A i \in DOMAIN table : table[i] \in {0, 1}
      BY DEF LoaderType
    <3>2. ASSUME ingested = "success"
          PROVE  streamEnd = "ended" /\ given = Total /\ \A i \in DOMAIN table : table[i] = 1
      <4>1. NWorkers \in Nat \ {0} /\ 1 \in Workers
        BY IngestAssumption DEF Workers
      <4>2. /\ cause = "none" /\ flushed = NWorkers /\ ~producing
            /\ \A w \in Workers : batch[w] = {} /\ item[w] = NoItem
        BY <3>2, <4>1 DEF EndsInOrder, GroupReturned, Workers
      <4>3. put = given /\ streamEnd # "more" /\ taken = put
        BY <3>2, <4>1, <4>2 DEF EndsInOrder, GroupReturned
      <4>4. streamEnd # "failed"
        <5> SUFFICES ASSUME streamEnd = "failed" PROVE FALSE
          OBVIOUS
        <5>1. given \in 1..taken /\ IsError(given)
          BY <4>3 DEF ItemsCounted, IsError
        <5>2. PICK w \in Workers : item[w] = given
          BY <5>1 DEF ItemsHeld
        <5> QED BY <4>2, <5>1, <5>2 DEF NoItem
      <4>5. streamEnd = "ended" /\ given = Total
        BY <4>3, <4>4 DEF ItemsCounted
      <4>6. \A w \in Workers : Held(w) = {}
        BY <4>2 DEF Held
      <4> QED BY <2>1, <3>1, <4>3, <4>5, <4>6 DEF ItemsHeld, IsError
    <3> QED BY <3>1, <3>2 DEF IngestedOnce
  <2> QED BY <2>2, <2>3
<1> QED BY <1>1, LoadingInvariance, PTL

\* Ingest returns the error that made it fail.
THEOREM IngestCauseAlwaysTrue == Spec => []IngestCause
<1>1. LoadingInv => IngestCause
  BY DEF LoadingInv, LoaderInv, LoaderIdle, CausesTrue, IngestCause
<1> QED BY <1>1, LoadingInvariance, PTL
-----------------------------------------------------------------------------
\* What is in the file, and how many rows that is.
Written == FlattenSeq(groups)
Whole == Len(Written)

Numbered(s, from) == s = [i \in 1..Len(s) |-> from + i]

\* What the parquet command has written, gathered and counted.
ExportType ==
  /\ given \in Nat /\ count \in Nat /\ shown \in Nat
  /\ rows \in Seq(Nat) /\ groups \in Seq(Seq(Nat))
  /\ batchSize \in {0, BatchSize}

\* The file has the first rows, no fewer than the counters say.
FileWhole ==
  /\ Numbered(Written, 0)
  /\ shown <= count /\ count <= Whole
  /\ \A g \in ToSet(groups) : Len(g) \in 1..BatchSize

\* The rows that were given follow those in the file, until something fails.
RowsFollow ==
  /\ exporting \in {"flags", "counted", "created"} =>
       groups = <<>> /\ rows = <<>> /\ given = 0 /\ count = 0 /\ streamEnd = "more"
  /\ exporting = "ingesting" =>
       /\ batchSize > 0 /\ Len(rows) <= batchSize
       /\ count = Whole
       /\ Numbered(rows, Whole)
       /\ given = Whole + Len(rows)
       /\ given <= Total
       /\ streamEnd = "ended" => given = Total
       /\ streamEnd # "failed"
  /\ exporting = "written" => Whole = Total /\ count = Whole

\* "complete" is said of a whole file only.
ReportTrue ==
  /\ exported = "complete" => Whole = Total /\ count = Whole /\ shown = count
  /\ exporting \notin {"closing", "ended"} => exported = "none"

ExportInv == ExportType /\ FileWhole /\ RowsFollow /\ ReportTrue

\* A row group more makes the file longer by its rows.
LEMMA GroupAppended ==
  ASSUME ExportType, FileWhole, Numbered(rows, Whole), Len(rows) \in 1..BatchSize
  PROVE  LET gs == Append(groups, rows)
         IN  /\ gs \in Seq(Seq(Nat))
             /\ Numbered(FlattenSeq(gs), 0) /\ Len(FlattenSeq(gs)) = Whole + Len(rows)
             /\ \A g \in ToSet(gs) : Len(g) \in 1..BatchSize
<1> DEFINE gs == Append(groups, rows)
           n == Len(groups)
<1>1. groups \in Seq(Seq(Nat)) /\ rows \in Seq(Nat) /\ n \in Nat
  BY LenProperties DEF ExportType
<1>2. /\ gs \in Seq(Seq(Nat)) /\ Len(gs) = n + 1 /\ gs[n + 1] = rows
      /\ \A i \in 1..n : gs[i] = groups[i]
  BY <1>1, AppendProperties
<1> HIDE DEF gs
<1>3. Joined(gs, n) = Written
  <2>1. Joined(gs, n) = Joined(groups, n)
    BY <1>1, <1>2, JoinedSame
  <2>2. n \in 0..Len(groups)
    BY <1>1
  <2>3. Joined(groups, Len(groups)) = FlattenSeq(groups)
    BY <1>1, <2>2, JoinedType
  <2> QED BY <2>1, <2>3 DEF Written
<1>4. FlattenSeq(gs) = Written \o rows /\ Written \in Seq(Nat)
  <2>1. n + 1 <= Len(gs) /\ n + 1 \in 0..Len(gs)
    BY <1>1, <1>2
  <2>2. Joined(gs, n + 1) = Joined(gs, n) \o gs[n + 1] /\ Joined(gs, n) \in Seq(Nat)
    BY <1>1, <1>2, <2>1, JoinedNext
  <2>3. Joined(gs, Len(gs)) = FlattenSeq(gs)
    BY <1>2, <2>1, JoinedType
  <2> QED BY <1>2, <1>3, <2>2, <2>3
<1> DEFINE all == FlattenSeq(gs)
           l == Len(rows)
<1>5. Whole \in Nat /\ l \in Nat
  BY <1>1, <1>4, LenProperties DEF Whole
<1>6. /\ all \in Seq(Nat) /\ Len(all) = Whole + l
      /\ \A i \in 1..(Whole + l) : all[i] = IF i <= Whole THEN Written[i] ELSE rows[i - Whole]
  BY <1>1, <1>4, ConcatProperties DEF Whole
<1> HIDE DEF all, l
<1>7. \A i \in 1..(Whole + l) : all[i] = 0 + i
  <2>1. \A i \in 1..Whole : Written[i] = 0 + i
    BY DEF FileWhole, Numbered, Whole
  <2>2. \A i \in 1..l : rows[i] = Whole + i
    BY DEF Numbered, l
  <2> SUFFICES ASSUME NEW i \in 1..(Whole + l) PROVE all[i] = 0 + i
    OBVIOUS
  <2>3. CASE i <= Whole
    BY <1>5, <1>6, <2>1, <2>3
  <2>4. CASE ~(i <= Whole)
    <3>1. i - Whole \in 1..l /\ Whole + (i - Whole) = i
      BY <1>5, <2>4
    <3> QED BY <1>6, <2>2, <2>4, <3>1
  <2> QED BY <2>3, <2>4
<1>8. Numbered(all, 0)
  <2>1. all = [i \in 1..Len(all) |-> all[i]]
    BY <1>6, LenProperties
  <2> QED BY <1>6, <1>7, <2>1 DEF Numbered
<1>9. \A g \in ToSet(gs) : Len(g) \in 1..BatchSize
  <2>1. DOMAIN gs = 1..(n + 1) /\ DOMAIN groups = 1..n
    BY <1>1, <1>2, LenProperties
  <2>2. \A i \in 1..(n + 1) : i = n + 1 \/ i \in 1..n
    BY <1>1
  <2>3. \A i \in 1..n : groups[i] \in ToSet(groups)
    BY <2>1 DEF ToSet
  <2> QED BY <1>2, <2>1, <2>2, <2>3 DEF ToSet, FileWhole
<1> QED BY <1>2, <1>6, <1>8, <1>9 DEF all, l, gs

\* Steps that leave the file and the counters alone, but for the progress, and
\* do not go into a state that says something of the rows.
LEMMA OtherStep ==
  ASSUME ExportInv, Total' = Total, UNCHANGED <<batchSize, rows, groups, count>>,
         given' \in Nat, shown' \in {shown, count},
         RowsFollow', ReportTrue'
  PROVE  ExportInv'
<1>1. ExportType'
  BY DEF ExportInv, ExportType
<1>2. Whole' = Whole /\ Written' = Written
  BY DEF Whole, Written
<1>3. FileWhole'
  BY <1>2 DEF ExportInv, ExportType, FileWhole
<1> QED BY <1>1, <1>3 DEF ExportInv

\* Each step of the command keeps it.
LEMMA ParquetKeeps ==
  ASSUME ExportInv, Total' = Total, Total \in Nat, Len(Readable) \in Nat, Len(Readable) <= Total,
         ParquetNext
  PROVE  ExportInv'
<1>1. ExportType /\ FileWhole /\ RowsFollow /\ ReportTrue
  BY DEF ExportInv
<1>2. BatchSize \in Nat \ {0} /\ batchSize \in Nat /\ batchSize <= BatchSize
  BY <1>1, IngestAssumption DEF ExportType
<1>3. Len(rows) \in Nat /\ Whole \in Nat
  <2>1. Len(groups) \in 0..Len(groups) /\ Len(rows) \in Nat
    BY <1>1, LenProperties DEF ExportType
  <2>2. Joined(groups, Len(groups)) = Written /\ Joined(groups, Len(groups)) \in Seq(Nat)
    BY <1>1, <2>1, JoinedType DEF ExportType, Written
  <2> QED BY <2>1, <2>2, LenProperties DEF Whole
<1>4. ASSUME UNCHANGED groups PROVE Whole' = Whole
  BY <1>4 DEF Whole, Written
<1>5. CASE RefuseFlags \/ CountRows \/ CreateOutput
  <2>1. /\ UNCHANGED <<batchSize, rows, groups, count, shown, given, streamEnd>>
        /\ exporting \in {"flags", "counted"}
        /\ \/ exporting' \in {"counted", "created"} /\ exported' = exported
           \/ exporting' = "ended" /\ exported' = "failed"
    BY <1>5 DEF RefuseFlags, CountRows, CreateOutput, ExportFails, streamVars
  <2>2. RowsFollow'
    BY <1>1, <2>1 DEF RowsFollow
  <2>3. ReportTrue'
    BY <1>1, <2>1 DEF ReportTrue
  <2> QED BY <1>1, <2>1, <2>2, <2>3, OtherStep DEF ExportType
<1>6. CASE StartExport
  <2>1. /\ UNCHANGED <<batchSize, rows, groups, count, shown, given, streamEnd>>
        /\ exporting = "created"
        /\ \/ batchSize > 0 /\ exporting' = "ingesting" /\ exported' = exported
           \/ exporting' = "ended" /\ exported' = "failed"
    BY <1>2, <1>6 DEF StartExport, ExportFails, streamVars
  <2>2. Whole = 0 /\ Len(rows) = 0 /\ rows = <<>> /\ Numbered(rows, Whole)
    <3>1. groups = <<>> /\ rows = <<>>
      BY <1>1, <2>1 DEF RowsFollow
    <3>2. Written = <<>>
      BY <3>1, FlattenEmpty DEF Written
    <3>3. Whole = 0
      BY <3>2, EmptySeq DEF Whole
    <3> QED BY <3>1, <3>3 DEF Numbered
  <2>3. Whole' = Whole /\ Numbered(rows', Whole')
    BY <1>4, <2>1, <2>2
  <2>4. RowsFollow'
    BY <1>1, <1>2, <2>1, <2>2, <2>3 DEF RowsFollow
  <2>5. ReportTrue'
    BY <1>1, <2>1 DEF ReportTrue
  <2> QED BY <1>1, <2>1, <2>4, <2>5, OtherStep DEF ExportType
<1>7. CASE AppendRow
  <2>1. /\ UNCHANGED <<batchSize, groups, count, shown, exporting, exported, streamEnd>>
        /\ exporting = "ingesting" /\ streamEnd = "more"
        /\ given < Len(Readable) /\ given' = given + 1
        /\ rows' = Append(rows, given + 1) /\ Len(rows) < batchSize
    BY <1>2, <1>3, <1>7 DEF AppendRow, ShouldWrite, ShouldWriteFull, GiveRow
  <2>2. rows \in Seq(Nat) /\ given \in Nat /\ given = Whole + Len(rows) /\ Numbered(rows, Whole)
    BY <1>1, <2>1 DEF ExportType, RowsFollow
  <2> DEFINE l == Len(rows)
  <2>3. /\ rows' \in Seq(Nat) /\ Len(rows') = l + 1
        /\ \A i \in 1..l : rows'[i] = rows[i]
        /\ rows'[l + 1] = Whole + (l + 1)
    <3>1. rows' \in Seq(Nat) /\ Len(rows') = l + 1 /\ rows'[l + 1] = given + 1
          /\ \A i \in 1..l : rows'[i] = rows[i]
      BY <2>1, <2>2, AppendProperties
    <3> QED BY <1>3, <2>2, <3>1
  <2>4. Numbered(rows', Whole)
    <3>1. rows' = [i \in 1..(l + 1) |-> rows'[i]]
      BY <2>3, LenProperties
    <3>2. \A i \in 1..l : rows[i] = Whole + i
      BY <2>2 DEF Numbered
    <3> HIDE DEF l
    <3>3. \A i \in 1..(l + 1) : i \in 1..l \/ i = l + 1
      BY <1>3 DEF l
    <3>4. \A i \in 1..(l + 1) : rows'[i] = Whole + i
      BY <2>3, <3>2, <3>3
    <3> QED BY <2>3, <3>1, <3>4 DEF Numbered
  <2>5. Whole' = Whole
    BY <1>4, <2>1
  <2>6. RowsFollow'
    <3>1. given' <= Total' /\ Len(rows') <= batchSize' /\ given' = Whole' + Len(rows')
      BY <1>2, <1>3, <2>1, <2>2, <2>3, <2>5
    <3> QED BY <1>1, <2>1, <2>4, <2>5, <3>1 DEF RowsFollow
  <2>7. ReportTrue'
    BY <1>1, <2>1, <2>5 DEF ReportTrue
  <2>8. ExportType'
    BY <1>1, <2>1, <2>2, <2>3 DEF ExportType
  <2>9. FileWhole'
    BY <1>1, <2>1 DEF FileWhole, Written, Whole
  <2> QED BY <2>6, <2>7, <2>8, <2>9 DEF ExportInv
<1>8. CASE Write \/ WriteFails
  <2>1. exporting = "ingesting" /\ Len(rows) \in 1..BatchSize /\ Numbered(rows, Whole)
    <3>1. exporting = "ingesting" /\ ShouldWrite
      BY <1>8 DEF Write, WriteFails
    <3>2. batchSize > 0 /\ Len(rows) <= batchSize /\ Numbered(rows, Whole)
      BY <1>1, <3>1 DEF RowsFollow
    <3>3. Len(rows) # 0
      BY <1>1, <1>2, <1>3, <3>1, <3>2, EmptySeq DEF ShouldWrite, ShouldWriteFull, ExportType
    <3> QED BY <1>2, <1>3, <3>1, <3>2, <3>3
  <2> DEFINE gs == Append(groups, rows)
  <2>2. /\ gs \in Seq(Seq(Nat))
        /\ Numbered(FlattenSeq(gs), 0) /\ Len(FlattenSeq(gs)) = Whole + Len(rows)
        /\ \A g \in ToSet(gs) : Len(g) \in 1..BatchSize
    BY <1>1, <2>1, GroupAppended
  <2> HIDE DEF gs
  <2>3. count = Whole /\ given = Whole + Len(rows) /\ exported = "none"
    BY <1>1, <2>1 DEF RowsFollow, ReportTrue
  <2>4. CASE Write
    <3>1. /\ groups' = gs /\ count' = count + Len(rows) /\ rows' = <<>>
          /\ UNCHANGED <<given, streamEnd, batchSize, exporting, shown, exported>>
      BY <2>4 DEF Write, streamVars, gs
    <3>2. Whole' = Whole + Len(rows) /\ Written' = FlattenSeq(gs)
      BY <2>2, <3>1 DEF Whole, Written
    <3>3. ExportType'
      BY <1>1, <1>3, <2>2, <3>1 DEF ExportType
    <3>4. FileWhole'
      BY <1>1, <1>3, <2>2, <2>3, <3>1, <3>2 DEF FileWhole, ExportType
    <3>5. RowsFollow'
      <4>1. rows' = <<>> /\ Len(rows') = 0
        BY <3>1
      <4>2. Numbered(rows', Whole')
        BY ONLY <4>1 DEF Numbered
      <4> QED BY <1>1, <1>2, <1>3, <2>1, <2>3, <3>1, <3>2, <4>1, <4>2 DEF RowsFollow
    <3>6. ReportTrue'
      BY <2>1, <2>3, <3>1 DEF ReportTrue
    <3> QED BY <3>3, <3>4, <3>5, <3>6 DEF ExportInv
  <2>5. CASE WriteFails
    <3>1. /\ groups' \in {groups, gs} /\ exporting' = "failed"
          /\ UNCHANGED <<given, streamEnd, batchSize, rows, count, shown, exported>>
      BY <2>5 DEF WriteFails, streamVars, gs
    <3>2. /\ Written' \in {Written, FlattenSeq(gs)} /\ Whole' = Len(Written')
      BY <3>1 DEF Whole, Written
    <3>3. ExportType'
      BY <1>1, <2>2, <3>1 DEF ExportType
    <3>4. Numbered(Written', 0) /\ Whole' \in {Whole, Whole + Len(rows)}
      BY <1>1, <2>2, <3>2 DEF FileWhole, Whole
    <3>5. FileWhole'
      BY <1>1, <1>3, <2>2, <3>1, <3>4 DEF FileWhole, ExportType
    <3>6. RowsFollow' /\ ReportTrue'
      BY <2>3, <3>1 DEF RowsFollow, ReportTrue
    <3> QED BY <3>3, <3>5, <3>6 DEF ExportInv
  <2> QED BY <1>8, <2>4, <2>5
<1>9. CASE IngestEnds
  <2>1. /\ UNCHANGED <<batchSize, rows, groups, count, shown, exported>>
        /\ exporting = "ingesting" /\ ~ShouldWrite
        /\ \/ UNCHANGED <<exporting, given>> /\ streamEnd' = "ended" /\ given = Total
           \/ exporting' = "failed" /\ given' = given + 1
           \/ exporting' = "written" /\ streamEnd = "ended" /\ UNCHANGED <<given, streamEnd>>
    BY <1>9 DEF IngestEnds, EndStream, GiveError, streamVars
  <2>2. Whole' = Whole /\ Numbered(rows', Whole')
    BY <1>1, <1>4, <2>1 DEF RowsFollow
  <2>3. streamEnd = "ended" => Whole = Total
    <3>1. ASSUME streamEnd = "ended" PROVE Len(rows) = 0
      BY <2>1, <3>1 DEF ShouldWrite
    <3> QED BY <1>1, <1>3, <2>1, <3>1 DEF RowsFollow
  <2>4. RowsFollow'
    BY <1>1, <2>1, <2>2, <2>3 DEF RowsFollow
  <2>5. ReportTrue'
    BY <1>1, <2>1 DEF ReportTrue
  <2> QED BY <1>1, <2>1, <2>4, <2>5, OtherStep DEF ExportType
<1>10. CASE Tick \/ TickerEnds \/ CloseIngester
  <2>1. /\ UNCHANGED <<batchSize, rows, groups, count, given, streamEnd, exported>>
        /\ shown' \in {shown, count}
        /\ exporting' = exporting \/ (exporting = "closing" /\ exporting' = "ended")
    BY <1>10 DEF Tick, TickerEnds, CloseIngester, streamVars
  <2>2. Whole' = Whole
    BY <1>4, <2>1
  <2>3. RowsFollow'
    BY <1>1, <2>1, <2>2 DEF RowsFollow
  <2>4. ReportTrue'
    BY <1>1, <2>1, <2>2 DEF ReportTrue
  <2> QED BY <1>1, <2>1, <2>3, <2>4, OtherStep DEF ExportType
<1>11. CASE Report \/ DieExporting
  <2>1. /\ UNCHANGED <<batchSize, rows, groups, count, given, streamEnd>>
        /\ shown' \in {shown, count}
        /\ exporting' \in {"closing", "ended"}
        /\ exported' = "complete" => exporting = "written" /\ shown' = count
    BY <1>11 DEF Report, DieExporting, streamVars
  <2>2. Whole' = Whole
    BY <1>4, <2>1
  <2>3. RowsFollow'
    BY <2>1 DEF RowsFollow
  <2>4. ReportTrue'
    BY <1>1, <2>1, <2>2 DEF ReportTrue, RowsFollow
  <2> QED BY <1>1, <2>1, <2>3, <2>4, OtherStep DEF ExportType
<1> QED BY <1>5, <1>6, <1>7, <1>8, <1>9, <1>10, <1>11 DEF ParquetNext, ParquetStep

\* The command of a reader that is not running does not start.
ExportIdle == groups = <<>> /\ count = 0 /\ shown = 0 /\ exported = "none"

ExportingInv == StreamInv /\ IF reader = "parquet" THEN ExportInv ELSE ExportIdle

\* Nothing is written at the start, and nothing changes in a step of nobody.
LEMMA InitExporting == Init => ExportingInv
<1> SUFFICES ASSUME Init PROVE ExportingInv
  OBVIOUS
<1>1. StreamInv /\ ExportIdle
  BY DEF Init, StreamInit, ParquetInit, StreamInv, ExportIdle
<1>2. Written = <<>> /\ Whole = 0
  BY <1>1, FlattenEmpty, EmptySeq DEF ExportIdle, Written, Whole
<1>3. Numbered(Written, 0)
  BY ONLY <1>2 DEF Numbered, Whole
<1>4. ExportType /\ RowsFollow /\ ReportTrue
  BY DEF Init, StreamInit, ParquetInit, ExportType, RowsFollow, ReportTrue
<1>5. ToSet(groups) = {}
  BY <1>1 DEF ExportIdle, ToSet
<1>6. FileWhole
  BY <1>1, <1>2, <1>3, <1>5 DEF ExportIdle, FileWhole
<1> QED BY <1>1, <1>4, <1>6 DEF ExportingInv, ExportInv

\* A step of either reader keeps it.
LEMMA NextExporting == ExportingInv /\ [Next]_vars => ExportingInv'
<1> SUFFICES ASSUME ExportingInv, [Next]_vars PROVE ExportingInv'
  OBVIOUS
<1>1. StreamInv /\ StreamInv'
  BY NextStream DEF ExportingInv, StreamInv
<1>2. Total' = Total /\ reader' = reader
  BY NextStream, TotalStays
<1>3. CASE UNCHANGED vars
  <2>1. UNCHANGED <<groups, rows, count, shown, given, batchSize, streamEnd, exporting, exported>>
    BY <1>3 DEF vars, streamVars, parquetVars
  <2>2. CASE reader = "parquet"
    <3>1. ExportInv
      BY <2>2 DEF ExportingInv
    <3>2. Whole' = Whole
      BY <2>1 DEF Whole, Written
    <3>3. RowsFollow' /\ ReportTrue'
      BY <1>2, <2>1, <3>1, <3>2 DEF ExportInv, RowsFollow, ReportTrue
    <3> QED BY <1>1, <1>2, <2>1, <2>2, <3>1, <3>3, OtherStep DEF ExportingInv, ExportInv, ExportType
  <2>3. CASE reader # "parquet"
    BY <1>1, <1>2, <2>1, <2>3 DEF ExportingInv, ExportIdle
  <2> QED BY <2>2, <2>3
<1>4. CASE Parquet(ParquetNext)
  BY <1>1, <1>2, <1>4, TotalIs, ParquetKeeps DEF Parquet, ExportingInv, StreamInv
<1>5. CASE Loader(IngestNext)
  BY <1>1, <1>2, <1>5 DEF Loader, ExportingInv, ExportIdle, parquetVars
<1> QED BY <1>3, <1>4, <1>5 DEF Next

\* The export's invariant, with the stream's.
THEOREM ExportingInvariance == Spec => []ExportingInv
<1> QED BY InitExporting, NextExporting, PTL DEF Spec

\* The file has the first rows at every moment, and all when "complete" is said.
THEOREM ExportAlwaysWhole == Spec => []ExportIsWhole
<1>1. ExportingInv => ExportIsWhole
  <2> SUFFICES ASSUME ExportingInv PROVE ExportIsWhole
    OBVIOUS
  <2>1. CASE reader = "parquet"
    <3>1. Written = [i \in 1..Whole |-> i]
      BY <2>1 DEF ExportingInv, ExportInv, FileWhole, Numbered, Whole
    <3> QED BY <2>1, <3>1 DEF ExportingInv, ExportInv, FileWhole, ReportTrue,
                            ExportIsWhole, Written, Whole
  <2>2. CASE reader # "parquet"
    <3>1. ExportIdle
      BY <2>2 DEF ExportingInv
    <3>2. FlattenSeq(groups) = <<>> /\ Len(FlattenSeq(groups)) = 0
      BY <3>1, FlattenEmpty, EmptySeq DEF ExportIdle
    <3>3. ToSet(groups) = {}
      BY <3>1 DEF ExportIdle, ToSet
    <3> DEFINE s == FlattenSeq(groups)
    <3>4. s = <<>> /\ Len(s) = 0
      BY <3>2
    <3> HIDE DEF s
    <3>5. s = [i \in 1..Len(s) |-> i]
      BY ONLY <3>4
    <3> QED BY <3>1, <3>3, <3>4, <3>5 DEF ExportIdle, ExportIsWhole, s
  <2> QED BY <2>1, <2>2
<1> QED BY <1>1, ExportingInvariance, PTL
=============================================================================
