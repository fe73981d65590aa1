----------------------------- MODULE MergeProofs -----------------------------
(***************************************************************************)
(* Proofs about Source and MergeRows, for every directory, filter, offset  *)
(* and limit, every damage to the merged file and every resolution of the  *)
(* clock: first what Window plans and the filter lets through, then what   *)
(* CheckLayout accepts and Verify finds, then that the rows read are those *)
(* asked for, and that the merged file has the rows of the uploaded table. *)
(*                                                                         *)
(* And about MergeFile: what is at the output is always a whole merged     *)
(* file, whatever fails, whenever a run is killed, and whatever other      *)
(* programs do there, but for the file of a run that another overlapped.   *)
(***************************************************************************)
EXTENDS MergeRows, MergeFile, FlattenProofs

\* ceilSeconds is the ceiling of a division: a whole second is not before it
\* exactly when it is not before the time it was computed from.
LEMMA Ceil ==
  ASSUME NEW d \in Int, NEW s \in Int
  PROVE  /\ ceilSeconds(d) \in Int
         /\ s >= ceilSeconds(d) <=> s * TicksPerSecond >= d
<1> DEFINE T == TicksPerSecond
           q == (-d) \div T
           r == (-d) % T
<1>1. T \in Nat /\ T > 0
  BY TicksAssumption
<1>2. q \in Int /\ r \in 0..(T - 1) /\ -d = T * q + r
  BY <1>1
<1>3. ceilSeconds(d) = -q
  BY DEF ceilSeconds
<1> HIDE DEF T, q, r
<1>4. ASSUME s >= -q PROVE s * T >= d
  <2>1. PICK k \in Nat : s = k - q
    <3>1. s + q \in Nat /\ s = (s + q) - q
      BY <1>2, <1>4
    <3> QED BY <3>1
  <2>2. s * T = k * T - T * q
    BY <2>1, <1>1, <1>2
  <2>3. k * T >= 0
    BY <1>1, <2>1
  <2> QED BY <2>2, <2>3, <1>1, <1>2
<1>5. ASSUME s < -q PROVE s * T < d
  <2>1. PICK k \in Nat : s = -q - 1 - k
    <3>1. -q - 1 - s \in Nat /\ s = -q - 1 - (-q - 1 - s)
      BY <1>2, <1>5
    <3> QED BY <3>1
  <2>2. s * T = -(T * q) - T - k * T
    BY <2>1, <1>1, <1>2
  <2>3. k * T >= 0
    BY <1>1, <2>1
  <2> QED BY <2>2, <2>3, <1>1, <1>2
<1>6. s >= -q <=> s * T >= d
  <2>1. s >= -q \/ s < -q
    BY <1>2
  <2>2. s * T \in Int
    BY <1>1
  <2> QED BY <2>1, <2>2, <1>2, <1>4, <1>5
<1> QED BY ONLY <1>2, <1>3, <1>6 DEF T

(***************************************************************************)
(* Keeping the files that overlap the time asked for and filtering their   *)
(* rows with the WHERE clause selects exactly the rows captured at or      *)
(* after --start and before --end, whatever fraction of a second the       *)
(* bounds and the file's start have: overlaps leaves out no file with such *)
(* a row, and where leaves out a bound only where it cannot cut the file.  *)
(***************************************************************************)
THEOREM FilterIsExact ==
  ASSUME NEW f \in Files, NEW r \in Rows, r.second < f.seconds,
         filter.start \subseteq Int, filter.end \subseteq Int
  PROVE  overlaps(f) /\ where(f, r) <=> Matches(f, r)
<1> DEFINE T == TicksPerSecond
<1>1. f.start \in Int /\ f.seconds \in Nat \ {0} /\ r.second \in Nat
  BY DEF Files, Rows
<1>2. T \in Nat \ {0}
  BY TicksAssumption
<1>3. r.second * T \in Int /\ r.second * T >= 0
      /\ f.seconds * T \in Int /\ f.seconds * T >= r.second * T + T
  <2>1. PICK k \in Nat : f.seconds = r.second + 1 + k
    <3>1. f.seconds - r.second - 1 \in Nat
      BY <1>1
    <3>2. f.seconds = r.second + 1 + (f.seconds - r.second - 1)
      BY <1>1
    <3> QED BY <3>1, <3>2
  <2>2. f.seconds * T = r.second * T + T + k * T
    BY <2>1, <1>1, <1>2
  <2>3. k * T >= 0 /\ k * T \in Int /\ r.second * T \in Int /\ r.second * T >= 0
    BY <1>1, <1>2, <2>1
  <2> QED BY <2>2, <2>3, <1>1, <1>2
<1>4. ASSUME NEW t \in filter.start
      PROVE  /\ f.start + r.second * T >= t => f.start + f.seconds * T > t
             /\ f.start + r.second * T >= t <=>
                  (ceilSeconds(t - f.start) > 0 => r.second >= ceilSeconds(t - f.start))
  <2>1. t \in Int /\ t - f.start \in Int
    BY <1>1
  <2>2. /\ ceilSeconds(t - f.start) \in Int
        /\ r.second >= ceilSeconds(t - f.start) <=> r.second * T >= t - f.start
    BY <2>1, <1>1, Ceil
  <2>3. r.second * T >= t - f.start <=> f.start + r.second * T >= t
    BY <2>1, <1>1, <1>3
  <2> QED BY <2>1, <2>2, <2>3, <1>1, <1>2, <1>3
<1>5. ASSUME NEW t \in filter.end
      PROVE  /\ f.start + r.second * T < t => f.start < t
             /\ f.start + r.second * T < t <=>
                  (ceilSeconds(t - f.start) < f.seconds => r.second < ceilSeconds(t - f.start))
  <2>1. t \in Int /\ t - f.start \in Int
    BY <1>1
  <2>2. /\ ceilSeconds(t - f.start) \in Int
        /\ r.second >= ceilSeconds(t - f.start) <=> r.second * T >= t - f.start
    BY <2>1, <1>1, Ceil
  <2>3. r.second * T >= t - f.start <=> f.start + r.second * T >= t
    BY <2>1, <1>1, <1>3
  <2>4. r.second < ceilSeconds(t - f.start) <=> f.start + r.second * T < t
    BY <2>1, <2>2, <2>3, <1>1, <1>3
  <2> QED BY <2>1, <2>2, <2>4, <1>1, <1>2, <1>3
<1> HIDE DEF T
<1>6. Matches(f, r) <=> /\ r.pd \in filter.pds
                        /\ \A t \in filter.start : f.start + r.second * T >= t
                        /\ \A t \in filter.end : f.start + r.second * T < t
  BY DEF Matches, Captured, T
<1>7. overlaps(f) <=> /\ \A t \in filter.start : f.start + f.seconds * T > t
                      /\ \A t \in filter.end : f.start < t
  BY DEF overlaps, T
<1>8. where(f, r) <=>
        /\ r.pd \in filter.pds
        /\ \A t \in filter.start :
             ceilSeconds(t - f.start) > 0 => r.second >= ceilSeconds(t - f.start)
        /\ \A t \in filter.end :
             ceilSeconds(t - f.start) < f.seconds => r.second < ceilSeconds(t - f.start)
  BY DEF where
<1> QED BY <1>4, <1>5, <1>6, <1>7, <1>8

-----------------------------------------------------------------------------
\* A function on 1..n is a sequence.
LEMMA SeqOfFunction ==
  \A S : \A n \in Nat : \A f \in [1..n -> S] : f \in Seq(S)
  BY SeqDef

\* A count is a number.
LEMMA CountType ==
  ASSUME NEW f \in Files
  PROVE  Count(f) \in Nat
<1>1. f.rows \in Seq(Rows)
  BY DEF Files
<1>2. Len(f.rows) \in Nat
  BY <1>1
<1>3. IsFiniteSet(1..Len(f.rows))
  BY <1>2, FS_Interval
<1>4. {i \in 1..Len(f.rows) : where(f, f.rows[i])} \subseteq 1..Len(f.rows)
  OBVIOUS
<1> QED BY <1>3, <1>4, FS_Subset, FS_CardinalityType DEF Count

\* The records of reads.
ReadRecords == [file : Nat, offset : Nat, limit : Nat, from : Nat]

\* Before Open there is no file, no read, and nothing passed.
LEMMA InitInv == Init => WindowInv
<1> SUFFICES ASSUME Init PROVE WindowInv
  OBVIOUS
<1>1. asked \in [offset : Nat, limit : Int]
  BY WindowAssumption DEF Init
<1>2. asked.offset \in Nat /\ asked.limit \in Int
  BY <1>1
<1> QED BY <1>1, <1>2 DEF Init, WindowInv, TypeOK

\* A round of the loop that skips a file.
LEMMA SkipInv ==
  ASSUME WindowInv, SkipFile
  PROVE  WindowInv'
<1> DEFINE c == counts[next]
<1>1. /\ TypeOK
      /\ Len(counts) = Len(files)
      /\ LoopInv
      /\ ReadsInv
      /\ step = "window"
  BY DEF WindowInv, SkipFile
<1>2. /\ c \in Nat
      /\ asked.offset \in Nat /\ asked.limit \in Int
      /\ offset \in Nat /\ limit \in Int /\ passed \in Nat /\ next \in Nat \ {0}
      /\ Len(counts) \in Nat
      /\ next <= Len(counts)
  <2>1. /\ asked.offset \in Nat /\ asked.limit \in Int
        /\ offset \in Nat /\ limit \in Int /\ passed \in Nat /\ next \in Nat \ {0}
        /\ counts \in Seq(Nat)
    BY <1>1 DEF TypeOK
  <2>2. next <= Len(counts)
    BY <1>1 DEF SkipFile
  <2> QED BY ONLY <2>1, <2>2
<1>3. /\ limit # 0 /\ offset >= c
      /\ offset' = offset - c
      /\ passed' = passed + c
      /\ next' = next + 1
      /\ UNCHANGED <<dir, filter, asked, step, files, counts, limit, reads, out>>
  BY DEF SkipFile, flags
<1> HIDE DEF c
<1>4. TypeOK'
  BY <1>1, <1>2, <1>3 DEF TypeOK
<1>5. Upto' = Upto \/ (reads = <<>> /\ Upto' <= asked.offset /\ Upto <= asked.offset)
  <2>1. CASE c = 0
    <3>1. passed' = passed /\ asked' = asked
      BY <1>2, <1>3, <2>1
    <3> QED BY <3>1 DEF Upto
  <2>2. CASE c # 0
    <3>1. passed + c <= asked.offset
      BY <1>1, <1>2, <1>3, <2>2 DEF LoopInv
    <3>2. \A x \in Int : x <= asked.offset =>
            (IF asked.limit < 0 \/ x < asked.offset + asked.limit
             THEN x ELSE asked.offset + asked.limit) <= asked.offset
      BY <1>2
    <3>3. Upto <= asked.offset
      BY <1>2, <3>1, <3>2 DEF Upto
    <3>4. Upto' <= asked.offset
      BY <1>2, <1>3, <3>1, <3>2 DEF Upto
    <3>5. reads = <<>>
      BY <1>1, <3>3 DEF LoopInv
    <3> QED BY <3>3, <3>4, <3>5
  <2> QED BY <2>1, <2>2
<1>6. LoopInv'
  <2>1. offset' = IF passed' < asked.offset THEN asked.offset - passed' ELSE 0
    <3>1. offset = IF passed < asked.offset THEN asked.offset - passed ELSE 0
      BY <1>1 DEF LoopInv
    <3> QED BY ONLY <1>2, <1>3, <3>1
  <2>2. Upto \in Int /\ Upto' \in Int
    BY <1>2, <1>3 DEF Upto
  <2>3. asked' = asked /\ limit' = limit /\ reads' = reads
    BY <1>3
  <2>4. Upto' = Upto \/ (reads = <<>> /\ Upto' <= asked.offset /\ Upto <= asked.offset)
    BY <1>5
  <2>5. CASE Upto' = Upto
    BY <1>1, <2>1, <2>3, <2>5 DEF LoopInv
  <2>6. CASE reads = <<>> /\ Upto' <= asked.offset /\ Upto <= asked.offset
    <3>1. ~(Upto' > asked.offset) /\ ~(Upto > asked.offset)
      BY <1>2, <2>2, <2>6
    <3> QED BY <1>1, <2>1, <2>3, <2>6, <3>1 DEF LoopInv
  <2> QED BY <2>4, <2>5, <2>6
<1>7. ReadsInv'
  <2>1. \A i \in 1..Len(reads) : reads[i].file < next => reads[i].file < next'
    <3>1. reads \in Seq(ReadRecords)
      BY <1>1 DEF TypeOK, ReadRecords
    <3>2. ASSUME NEW i \in 1..Len(reads) PROVE reads[i].file \in Nat
      <4>1. reads[i] \in ReadRecords
        BY <3>1
      <4> QED BY <4>1 DEF ReadRecords
    <3> SUFFICES ASSUME NEW i \in 1..Len(reads), reads[i].file < next
                 PROVE  reads[i].file < next'
      OBVIOUS
    <3>3. reads[i].file \in Nat
      BY <3>2
    <3>4. next \in Nat /\ next' = next + 1
      BY <1>2, <1>3
    <3> QED BY <3>3, <3>4
  <2>2. reads # <<>> => Upto' = Upto
    BY <1>5
  <2> QED BY <1>1, <1>3, <2>1, <2>2 DEF ReadsInv
<1> QED BY <1>1, <1>3, <1>4, <1>6, <1>7 DEF WindowInv

\* A round of the loop that takes a part of a file.
LEMMA TakeInv ==
  ASSUME WindowInv, TakeFile
  PROVE  WindowInv'
<1> DEFINE c == counts[next]
           n == Taken
           r == [file |-> next, offset |-> offset, limit |-> n, from |-> passed]
<1>1. /\ TypeOK
      /\ Len(counts) = Len(files)
      /\ LoopInv
      /\ ReadsInv
      /\ step = "window"
  BY DEF WindowInv, TakeFile
<1>2. /\ c \in Nat
      /\ asked.offset \in Nat /\ asked.limit \in Int
      /\ offset \in Nat /\ limit \in Int /\ passed \in Nat /\ next \in Nat \ {0}
      /\ Len(counts) \in Nat
      /\ next <= Len(counts)
  <2>1. /\ asked.offset \in Nat /\ asked.limit \in Int
        /\ offset \in Nat /\ limit \in Int /\ passed \in Nat /\ next \in Nat \ {0}
        /\ counts \in Seq(Nat)
    BY <1>1 DEF TypeOK
  <2>2. next <= Len(counts)
    BY <1>1 DEF TakeFile
  <2> QED BY ONLY <2>1, <2>2
<1>3. /\ limit # 0 /\ offset < c
      /\ offset' = 0
      /\ limit' = IF limit > 0 THEN limit - n ELSE limit
      /\ passed' = passed + c
      /\ next' = next + 1
      /\ reads' = Append(reads, r)
      /\ UNCHANGED <<dir, filter, asked, step, files, counts, out>>
  BY DEF TakeFile, flags
<1>4. /\ n \in Nat \ {0}
      /\ n = IF limit > 0 /\ limit < c - offset THEN limit ELSE c - offset
  BY <1>2, <1>3 DEF Taken
<1>5. r \in ReadRecords /\ r.file = next /\ r.offset = offset /\ r.limit = n /\ r.from = passed
  BY <1>2, <1>4 DEF ReadRecords
<1>6. reads \in Seq(ReadRecords)
  BY <1>1 DEF TypeOK, ReadRecords
<1> HIDE DEF c, n, r
<1>7. /\ reads' \in Seq(ReadRecords)
      /\ Len(reads') = Len(reads) + 1
      /\ Len(reads) \in Nat
      /\ \A i \in 1..Len(reads) : reads'[i] = reads[i]
      /\ reads'[Len(reads) + 1] = r
      /\ reads' # <<>>
  BY <1>3, <1>5, <1>6
<1>8. Upto \in Int /\ Upto' \in Int
  BY <1>2, <1>3 DEF Upto
<1>9. passed + offset = IF reads = <<>> THEN asked.offset ELSE Upto
  BY <1>1, <1>2, <1>3 DEF LoopInv, Upto
<1>10. passed + offset + n = Upto'
  <2>1. Upto' = IF asked.limit < 0 \/ passed + c < asked.offset + asked.limit
                THEN passed + c ELSE asked.offset + asked.limit
    BY <1>3 DEF Upto
  <2>2. CASE asked.limit < 0
    <3>1. n = c - offset
      BY <1>1, <1>2, <1>4, <2>2 DEF LoopInv
    <3> QED BY <1>2, <2>1, <2>2, <3>1
  <2>3. CASE asked.limit >= 0
    <3>1. limit = asked.limit - (passed + offset - asked.offset)
      <4>1. CASE reads = <<>>
        <5>1. Upto <= asked.offset
          BY <1>1, <4>1 DEF LoopInv
        <5>2. passed + offset = asked.offset
          BY <1>9, <4>1
        <5>3. limit = asked.limit
          BY <1>1, <1>2, <1>8, <2>3, <5>1 DEF LoopInv
        <5> QED BY <1>2, <5>2, <5>3
      <4>2. CASE reads # <<>>
        <5>1. Upto > asked.offset /\ Upto = passed + offset
          BY <1>1, <1>2, <1>8, <1>9, <4>2 DEF LoopInv
        <5> QED BY <1>1, <1>2, <2>3, <5>1 DEF LoopInv
      <4> QED BY <4>1, <4>2
    <3>2. limit > 0
      <4>1. Upto <= asked.offset + asked.limit
        BY <1>2, <2>3 DEF Upto
      <4>2. limit >= 0
        BY <1>1, <1>2, <1>8, <2>3, <4>1 DEF LoopInv
      <4> QED BY <1>2, <1>3, <4>2
    <3>3. CASE limit < c - offset
      <4>1. n = limit
        BY <1>4, <3>2, <3>3
      <4>2. ~(passed + c < asked.offset + asked.limit)
        BY <1>2, <3>1, <3>3
      <4>3. Upto' = asked.offset + asked.limit
        BY <2>1, <2>3, <4>2, <1>2
      <4>4. n = asked.limit - (passed + offset - asked.offset)
        BY ONLY <3>1, <4>1
      <4>5. asked.offset \in Int /\ asked.limit \in Int /\ passed \in Int /\ offset \in Int
        BY ONLY <1>2
      <4> QED BY ONLY <4>3, <4>4, <4>5
    <3>4. CASE limit >= c - offset
      <4>1. n = c - offset
        BY <1>2, <1>4, <3>4
      <4>2. asked.offset + asked.limit >= passed + c
        BY ONLY <1>2, <3>1, <3>4
      <4>3. Upto' = passed + c
        BY ONLY <1>2, <2>1, <4>2
      <4> QED BY ONLY <1>2, <4>1, <4>3
    <3> QED BY <1>2, <3>3, <3>4
  <2> QED BY <1>2, <2>2, <2>3
<1>11. passed + offset >= asked.offset
  BY <1>1, <1>2 DEF LoopInv
<1>12. TypeOK'
  <2>1. limit' \in Int /\ passed' \in Nat /\ next' \in Nat \ {0} /\ offset' \in Nat
    BY <1>2, <1>3, <1>4
  <2> QED BY <1>1, <1>3, <1>7, <2>1 DEF TypeOK, ReadRecords
<1>13. LoopInv'
  <2>1. offset' = IF passed' < asked'.offset THEN asked'.offset - passed' ELSE 0
    BY <1>2, <1>3, <1>11
  <2>2. asked'.limit < 0 => limit' = asked'.limit
    BY <1>1, <1>2, <1>3 DEF LoopInv
  <2>3. Upto' > asked.offset
    BY <1>2, <1>4, <1>8, <1>10, <1>11
  <2>4. asked.limit >= 0 => limit > 0 /\ limit' = limit - n
    BY <1>1, <1>2, <1>3 DEF LoopInv, Upto
  <2>5. asked.limit >= 0
          => limit = asked.limit - (passed + offset - asked.offset)
    <3>1. CASE reads = <<>>
      <4>1. Upto <= asked.offset
        BY <1>1, <3>1 DEF LoopInv
      <4>2. passed + offset = asked.offset
        BY <1>9, <3>1
      <4>3. asked.limit >= 0 => limit = asked.limit
        BY <1>1, <1>2, <1>8, <4>1 DEF LoopInv
      <4> QED BY <1>2, <4>2, <4>3
    <3>2. CASE reads # <<>>
      <4>1. Upto > asked.offset /\ Upto = passed + offset
        BY <1>1, <1>2, <1>8, <1>9, <3>2 DEF LoopInv
      <4> QED BY <1>1, <1>2, <4>1 DEF LoopInv
    <3> QED BY <3>1, <3>2
  <2>6. ASSUME asked.limit >= 0
        PROVE  limit' = asked.limit - (Upto' - asked.offset)
    <3>1. n \in Int
      BY <1>4
    <3>2. limit' = asked.limit - (passed + offset - asked.offset) - n
      BY <2>4, <2>5, <2>6
    <3>3. asked.offset \in Int /\ asked.limit \in Int /\ passed \in Int /\ offset \in Int
      BY <1>2
    <3> QED BY ONLY <1>8, <1>10, <3>1, <3>2, <3>3
  <2> QED BY <1>2, <1>3, <1>7, <1>8, <2>1, <2>2, <2>3, <2>6 DEF LoopInv
<1>14. ReadsInv'
  <2>1. \A i \in 1..Len(reads) : reads[i] \in ReadRecords
    BY <1>6
  <2>2. ASSUME NEW i \in 1..Len(reads)
        PROVE  /\ reads'[i].file < next'
               /\ reads'[i].file <= Len(counts')
               /\ reads'[i].limit > 0
               /\ reads'[i].offset + reads'[i].limit <= counts'[reads'[i].file]
               /\ reads'[i].offset # 0 => i = 1
               /\ reads'[i].from + reads'[i].offset =
                    IF i = 1
                    THEN asked'.offset
                    ELSE reads'[i - 1].from + reads'[i - 1].offset + reads'[i - 1].limit
    <3>1. reads'[i] = reads[i]
      BY <1>7
    <3>2. i # 1 => i - 1 \in 1..Len(reads) /\ reads'[i - 1] = reads[i - 1]
      BY <1>7
    <3>3. reads[i].file \in Nat
      BY <2>1 DEF ReadRecords
    <3> QED BY <1>1, <1>2, <1>3, <3>1, <3>2, <3>3 DEF ReadsInv
  <2>3. r.offset # 0 => Len(reads) + 1 = 1
    <3>1. reads = <<>> => Len(reads) = 0
      OBVIOUS
    <3>2. reads # <<>> => offset = 0
      BY <1>1, <1>2, <1>3, <1>8, <1>9 DEF LoopInv, Upto
    <3> QED BY <1>5, <3>1, <3>2
  <2>4. r.from + r.offset =
          IF Len(reads) + 1 = 1
          THEN asked.offset
          ELSE reads[Len(reads)].from + reads[Len(reads)].offset + reads[Len(reads)].limit
    <3>1. Len(reads) + 1 = 1 <=> reads = <<>>
      BY <1>6, <1>7
    <3>2. reads # <<>> => reads[Len(reads)].from + reads[Len(reads)].offset
                            + reads[Len(reads)].limit = Upto
      BY <1>1 DEF ReadsInv
    <3> QED BY <1>5, <1>9, <3>1, <3>2
  <2>5. r.offset + r.limit <= counts[r.file]
    BY <1>2, <1>3, <1>4, <1>5 DEF c
  <2>6. Len(reads) + 1 # 1 => reads'[Len(reads)] = reads[Len(reads)]
    BY <1>7
  <2>7. LET i == Len(reads) + 1
        IN  /\ reads'[i].file < next'
            /\ reads'[i].file <= Len(counts')
            /\ reads'[i].limit > 0
            /\ reads'[i].offset + reads'[i].limit <= counts'[reads'[i].file]
            /\ reads'[i].offset # 0 => i = 1
            /\ reads'[i].from + reads'[i].offset =
                 IF i = 1
                 THEN asked'.offset
                 ELSE reads'[i - 1].from + reads'[i - 1].offset + reads'[i - 1].limit
    <3> DEFINE i == Len(reads) + 1
    <3>1. reads'[i] = r /\ i - 1 = Len(reads) /\ i \in Int
      BY <1>7
    <3>2. r.file < next' /\ r.file <= Len(counts') /\ r.limit > 0
      BY <1>2, <1>3, <1>4, <1>5
    <3>3. counts' = counts /\ asked' = asked
      BY <1>3
    <3>4. i # 1 => reads'[i - 1] = reads[Len(reads)]
      BY <2>6, <3>1
    <3> HIDE DEF i
    <3>5. r.from + r.offset =
            IF i = 1 THEN asked.offset
            ELSE reads'[i - 1].from + reads'[i - 1].offset + reads'[i - 1].limit
      BY <2>4, <3>4 DEF i
    <3>6. r.offset # 0 => i = 1
      BY <2>3 DEF i
    <3> QED BY <2>5, <3>1, <3>2, <3>3, <3>5, <3>6 DEF i
  <2>8. r.from + r.offset + r.limit = Upto'
    BY <1>5, <1>10
  <2>9. 1..Len(reads') = 1..Len(reads) \cup {Len(reads) + 1}
    BY <1>7
  <2> QED BY <1>7, <2>2, <2>7, <2>8, <2>9 DEF ReadsInv
<1> QED BY <1>1, <1>3, <1>12, <1>13, <1>14 DEF WindowInv

\* Every step of Open, Plan, Window and Rows keeps the loop invariant.
LEMMA NextInv == WindowInv /\ [Next]_vars => WindowInv'
<1> SUFFICES ASSUME WindowInv, [Next]_vars PROVE WindowInv'
  OBVIOUS
<1> USE DEF WindowInv, flags
<1>1. CASE Open
  <2>1. PICK p \in Sorted({i \in DOMAIN dir : overlaps(dir[i])}) :
          files' = [i \in DOMAIN p |-> dir[p[i]]]
    BY <1>1 DEF Open
  <2> DEFINE K == {i \in DOMAIN dir : overlaps(dir[i])}
  <2>2. dir \in Seq(Files)
    BY DirsAssumption DEF TypeOK
  <2>3. IsFiniteSet(K)
    <3>1. K \subseteq 1..Len(dir) /\ Len(dir) \in Nat
      BY <2>2
    <3> QED BY <3>1, FS_Interval, FS_Subset
  <2>4. Cardinality(K) \in Nat
    BY <2>3, FS_CardinalityType
  <2>5. p \in [1..Cardinality(K) -> K]
    BY <2>1 DEF Sorted
  <2>6. files' \in Seq(Files)
    <3>1. DOMAIN p = 1..Cardinality(K) /\ \A i \in DOMAIN p : dir[p[i]] \in Files
      BY <2>2, <2>5
    <3>2. files' \in [1..Cardinality(K) -> Files]
      BY <2>1, <3>1
    <3> QED BY ONLY <2>4, <3>2, SeqOfFunction
  <2> QED BY <1>1, <2>6 DEF Open, TypeOK
<1>2. CASE OpenFails
  BY <1>2 DEF OpenFails, TypeOK
<1>3. CASE PlanFile
  <2>1. files[Len(counts) + 1] \in Files
    BY <1>3 DEF PlanFile, TypeOK
  <2>2. Count(files[Len(counts) + 1]) \in Nat
    BY <2>1, CountType
  <2> QED BY <1>3, <2>2 DEF PlanFile, TypeOK
<1>4. CASE PlanFails
  BY <1>4 DEF PlanFails, TypeOK
<1>5. CASE Planned
  <2>1. TypeOK'
    BY <1>5 DEF Planned, TypeOK
  <2>2. /\ asked'.offset \in Nat /\ asked'.limit \in Int
        /\ offset' = asked'.offset /\ limit' = asked'.limit /\ passed' = 0
        /\ reads' = <<>> /\ Len(counts') = Len(files') /\ step' = "window"
    BY <1>5 DEF Planned, TypeOK
  <2>3. LoopInv'
    BY <2>2 DEF LoopInv, Upto
  <2>4. ReadsInv'
    <3>1. Len(reads') = 0
      BY <2>2
    <3> QED BY <2>2, <3>1 DEF ReadsInv
  <2> QED BY <2>1, <2>2, <2>3, <2>4
<1>6. CASE SkipFile
  BY <1>6, SkipInv
<1>7. CASE TakeFile
  BY <1>7, TakeInv
<1>8. CASE WindowEnds
  BY <1>8 DEF WindowEnds, TypeOK
<1>9. CASE ReadFile
  BY <1>9 DEF ReadFile, TypeOK
<1>10. CASE ReadsEnd
  BY <1>10 DEF ReadsEnd, TypeOK
<1>11. CASE UNCHANGED vars
  BY <1>11 DEF vars, TypeOK, LoopInv, ReadsInv, Upto
<1> QED BY <1>1, <1>2, <1>3, <1>4, <1>5, <1>6, <1>7, <1>8, <1>9, <1>10, <1>11
        DEF Next, Ended

(***************************************************************************)
(* In every state of every run Window's variables agree with the rows it   *)
(* went past, and its reads lie behind each other from the offset on.      *)
(***************************************************************************)
THEOREM WindowInvariance == Spec => []WindowInv
<1> QED BY InitInv, NextInv, PTL DEF Spec

(***************************************************************************)
(* When Window's loop ends its reads are exactly the rows from the offset  *)
(* on, up to the limit or the end of the files.                            *)
(***************************************************************************)
THEOREM WindowCorrect == Spec => []WindowIsExact
<1>1. WindowInv => WindowIsExact
  <2> SUFFICES ASSUME WindowInv, step = "window", next > Len(files) \/ limit = 0
               PROVE  /\ ReadsInv
                      /\ reads = <<>> => Upto <= asked.offset
                      /\ next <= Len(files)
                           => /\ asked.limit >= 0
                              /\ reads # <<>> => Upto = asked.offset + asked.limit
    BY DEF WindowIsExact
  <2>1. TypeOK /\ LoopInv /\ ReadsInv /\ Len(counts) = Len(files)
    BY DEF WindowInv
  <2>2. asked.offset \in Nat /\ asked.limit \in Int /\ passed \in Nat /\ limit \in Int
        /\ next \in Nat /\ Len(counts) \in Nat
    BY <2>1 DEF TypeOK
  <2>3. reads = <<>> => Upto <= asked.offset
    BY <2>1 DEF LoopInv
  <2>4. ASSUME next <= Len(files) PROVE limit = 0
    BY <2>1, <2>2, <2>4
  <2>5. limit = 0 => asked.limit >= 0
    BY <2>1, <2>2 DEF LoopInv
  <2>6. ASSUME limit = 0, reads # <<>>
        PROVE  Upto = asked.offset + asked.limit
    <3>1. Upto > asked.offset /\ Upto \in Int
      BY <2>1, <2>2, <2>6 DEF LoopInv, Upto
    <3> QED BY <2>1, <2>2, <2>5, <2>6, <3>1 DEF LoopInv
  <2> QED BY <2>1, <2>3, <2>4, <2>5, <2>6
<1> QED BY <1>1, WindowInvariance, PTL
-----------------------------------------------------------------------------
\* A division that rounds down, by what lies before and after its result.
LEMMA Division ==
  ASSUME NEW x \in Int, NEW d \in Nat \ {0}, NEW q \in Int
  PROVE  /\ x \div d \in Int
         /\ q * d \in Int
         /\ x \div d <= q <=> x < q * d + d
         /\ x \div d >= q <=> x >= q * d
         /\ x \div d = q <=> q * d <= x /\ x < q * d + d
<1> DEFINE p == x \div d
           r == x % d
<1>1. p \in Int /\ r \in 0..(d - 1) /\ x = d * p + r
  OBVIOUS
<1>2. d \in Nat /\ d > 0 /\ q * d \in Int /\ p * d \in Int /\ d * p = p * d
  BY <1>1
<1> HIDE DEF p, r
<1>3. p * d <= x /\ x < p * d + d
  BY <1>1, <1>2
<1>4. ASSUME NEW a \in Int, NEW b \in Int, a < b PROVE b * d >= a * d + d
  <2>1. PICK k \in Nat : b = a + 1 + k
    <3>1. b - a - 1 \in Nat /\ b = a + 1 + (b - a - 1)
      BY <1>4
    <3> QED BY <3>1
  <2>2. b * d = a * d + d + k * d
    BY <2>1, <1>2
  <2>3. k * d >= 0 /\ k * d \in Int /\ a * d \in Int
    BY <1>2, <2>1
  <2> QED BY <2>2, <2>3, <1>2
<1>5. p <= q <=> x < q * d + d
  <2>1. CASE p < q
    BY <2>1, <1>1, <1>2, <1>3, <1>4
  <2>2. CASE p = q
    BY <2>2, <1>3
  <2>3. CASE p > q
    <3>1. p * d >= q * d + d
      BY <2>3, <1>1, <1>4
    <3> QED BY <2>3, <3>1, <1>1, <1>2, <1>3
  <2> QED BY <2>1, <2>2, <2>3, <1>1
<1>6. p >= q <=> x >= q * d
  <2>1. CASE p > q
    <3>1. p * d >= q * d + d
      BY <2>1, <1>1, <1>4
    <3> QED BY <2>1, <3>1, <1>1, <1>2, <1>3
  <2>2. CASE p = q
    BY <2>2, <1>3, <1>1
  <2>3. CASE p < q
    <3>1. q * d >= p * d + d
      BY <2>3, <1>1, <1>4
    <3> QED BY <2>3, <3>1, <1>1, <1>2, <1>3
  <2> QED BY <2>1, <2>2, <2>3, <1>1
<1>7. p = q <=> q * d <= x /\ x < q * d + d
  BY <1>1, <1>2, <1>5, <1>6
<1> QED BY <1>1, <1>2, <1>5, <1>6, <1>7 DEF p

\* A division without a remainder.
LEMMA Divides ==
  ASSUME NEW x \in Int, NEW d \in Nat \ {0}
  PROVE  x % d = 0 => x \div d \in Int /\ (x \div d) * d = x
<1> DEFINE p == x \div d
           r == x % d
<1>1. p \in Int /\ r \in 0..(d - 1) /\ x = d * p + r
  OBVIOUS
<1>2. d * p = p * d /\ p * d \in Int
  BY <1>1
<1> HIDE DEF p, r
<1>3. r = 0 => p * d = x
  BY <1>1, <1>2
<1> QED BY <1>1, <1>3 DEF p, r

\* Whole seconds added to a time are added to its Unix time.
LEMMA UnixShift ==
  ASSUME NEW t \in Int, NEW n \in Int
  PROVE  /\ Unix(t) \in Int
         /\ t + n * TicksPerSecond \in Int
         /\ Unix(t + n * TicksPerSecond) = Unix(t) + n
<1> DEFINE T == TicksPerSecond
           u == t \div T
<1>1. T \in Nat \ {0} /\ T \in Int
  BY TicksAssumption
<1>2. u \in Int /\ u * T \in Int /\ n * T \in Int
  BY <1>1, Division
<1>3. u * T <= t /\ t < u * T + T
  BY <1>1, <1>2, Division
<1>4. u + n \in Int /\ (u + n) * T = u * T + n * T
  BY <1>1, <1>2
<1> HIDE DEF u
<1>5. t + n * T \in Int
  BY <1>2
<1>6. (u + n) * T <= t + n * T /\ t + n * T < (u + n) * T + T
  BY <1>1, <1>2, <1>3, <1>4
<1>7. (t + n * T) \div T = u + n
  BY ONLY <1>1, <1>4, <1>5, <1>6, Division
<1> QED BY <1>2, <1>5, <1>7 DEF Unix, u

\* A later time is not of an earlier second.
LEMMA UnixMonotone ==
  ASSUME NEW s \in Int, NEW t \in Int, s <= t
  PROVE  Unix(s) <= Unix(t)
<1> DEFINE T == TicksPerSecond
           u == t \div T
<1>1. T \in Nat \ {0} /\ T \in Int
  BY TicksAssumption
<1>2. u \in Int /\ t < u * T + T /\ u * T \in Int
  BY <1>1, Division
<1> HIDE DEF u
<1>3. s < u * T + T
  BY <1>1, <1>2
<1>4. s \div T <= u
  BY <1>1, <1>2, <1>3, Division
<1> QED BY <1>4 DEF Unix, u

\* An interval is not empty.
LEMMA EndAfterStart ==
  ASSUME NEW f \in Files
  PROVE  /\ f.start \in Int /\ f.seconds \in Nat \ {0}
         /\ end(f) \in Int
         /\ f.start < end(f)
<1>1. f.start \in Int /\ f.seconds \in Nat \ {0} /\ TicksPerSecond \in Nat \ {0}
  BY TicksAssumption DEF Files
<1>2. PICK k \in Nat : f.seconds = k + 1
  <2>1. f.seconds - 1 \in Nat /\ f.seconds = (f.seconds - 1) + 1
    BY <1>1
  <2> QED BY <2>1
<1>3. f.seconds * TicksPerSecond = k * TicksPerSecond + TicksPerSecond
  BY <1>1, <1>2
<1>4. k * TicksPerSecond \in Nat
  BY <1>1, <1>2
<1> QED BY <1>1, <1>3, <1>4 DEF end

(***************************************************************************)
(* The merged row's times are those of the uploaded row, cut down to whole *)
(* seconds, for every start of the interval and every resolution of the    *)
(* clock: subtracting the transit and the age step by step from the second *)
(* a file starts in is the same as summing them up and subtracting them    *)
(* from the start itself (mergeSQL against Convert2a and recvTime).  A     *)
(* merged time is NULL when the transit or the age is, an uploaded one     *)
(* also when the address is missing.                                       *)
(***************************************************************************)
THEOREM RowsAgree ==
  ASSUME NEW f \in Files, NEW r \in Rows,
         Fie[r.id].transit \subseteq 0..255, Fie[r.id].age \subseteq 0..255
  PROVE  LET m == mergedRow(f, r)
             u == Convert2a(f, r)
         IN  /\ SameFie(m, u)
             /\ m.reply = {} <=> Fie[r.id].transit = {} \/ Fie[r.id].age = {}
             /\ u.reply = {} <=> m.reply = {} \/ ~Fie[r.id].addr
<1> DEFINE fie == Fie[r.id]
           T == TicksPerSecond
           c == f.start + r.second * T
           n == Unix(f.start) + r.second
           parts == {n - t - a : t \in fie.transit, a \in fie.age}
           both == {c - (t + a) * T : t \in fie.transit, a \in fie.age}
<1>1. f.start \in Int /\ r.second \in Int /\ T \in Int
  BY TicksAssumption DEF Files, Rows
<1>2. c \in Int /\ n \in Int /\ Unix(c) = n
  <2>1. Unix(f.start) \in Int /\ f.start + r.second * TicksPerSecond \in Int
    BY <1>1, UnixShift
  <2>2. Unix(f.start + r.second * TicksPerSecond) = Unix(f.start) + r.second
    BY <1>1, UnixShift
  <2> QED BY <1>1, <2>1, <2>2
<1>3. ASSUME NEW t \in fie.transit, NEW a \in fie.age
      PROVE  Unix(c - (t + a) * T) = n - t - a
  <2>1. t \in 0..255 /\ a \in 0..255
    OBVIOUS
  <2> HIDE DEF c, n, fie
  <2>4. t \in Int /\ a \in Int /\ -(t + a) \in Int
    BY <2>1
  <2>2. c - (t + a) * T = c + (-(t + a)) * T
    BY <1>1, <1>2, <2>4
  <2>3. Unix(c + (-(t + a)) * T) = n + (-(t + a))
    BY <1>2, <2>4, UnixShift
  <2> QED BY <1>2, <2>4, <2>2, <2>3
<1>4. minus(minus({n}, fie.transit), fie.age) = parts
  BY DEF minus
<1>5. {Unix(x) : x \in both} = parts
  BY <1>3
<1>6. mergedRow(f, r).pd = r.pd /\ mergedRow(f, r).capture = n
      /\ mergedRow(f, r).reply = minus(minus({n}, fie.transit), fie.age)
  BY DEF mergedRow
<1>7. Convert2a(f, r).pd = r.pd /\ Convert2a(f, r).capture = c
      /\ Convert2a(f, r).addr = fie.addr
      /\ Convert2a(f, r).reply = IF fie.addr THEN both ELSE {}
  BY DEF Convert2a, recvTime
<1>8. both = {} <=> fie.transit = {} \/ fie.age = {}
  <2> HIDE DEF c, n, fie, parts
  <2>1. ASSUME NEW t \in fie.transit, NEW a \in fie.age PROVE both # {}
    <3>1. c - (t + a) * T \in both
      OBVIOUS
    <3> HIDE DEF both
    <3> QED BY <3>1
  <2>2. ASSUME NEW x \in both PROVE \E t \in fie.transit, a \in fie.age : TRUE
    OBVIOUS
  <2> HIDE DEF both
  <2> QED BY <2>1, <2>2
<1> HIDE DEF c, n, both, parts
<1>9. fie.transit = Fie[r.id].transit /\ fie.age = Fie[r.id].age /\ fie.addr = Fie[r.id].addr
  OBVIOUS
<1> HIDE DEF fie
<1>10. mergedRow(f, r).reply = {Unix(x) : x \in both}
  BY <1>4, <1>5, <1>6
<1>11. mergedRow(f, r).reply = {} <=> both = {}
  BY <1>10
<1>12. fie.addr => Convert2a(f, r).reply = both
  BY <1>7
<1>13. SameFie(mergedRow(f, r), Convert2a(f, r))
  BY <1>2, <1>6, <1>7, <1>10, <1>12 DEF SameFie
<1>14. Convert2a(f, r).reply = {} <=> both = {} \/ ~fie.addr
  BY <1>7
<1> QED BY <1>11, <1>8, <1>9, <1>13, <1>14
-----------------------------------------------------------------------------
Gaps == [from : Int, to : Int]

\* CheckLayout's next round: what fits behind the last file fits behind all.
LEMMA LaidNext ==
  ASSUME files \in Seq(Files), gaps \in Seq(Gaps), NEW n \in 1..Len(files) - 1,
         LaidUpTo(n), fits(files[n], files[n + 1]), files' = files,
         gaps' = IF files[n + 1].start > end(files[n])
                 THEN Append(gaps, [from |-> end(files[n]), to |-> files[n + 1].start])
                 ELSE gaps
  PROVE  gaps' \in Seq(Gaps) /\ LaidUpTo(n + 1)'
<1> DEFINE a(i) == files[i].start
           b(i) == end(files[i])
           gap == [from |-> b(n), to |-> a(n + 1)]
           more == a(n + 1) > b(n)
<1>1. n \in Nat /\ n >= 1 /\ n + 1 <= Len(files) /\ Len(files) \in Nat
  OBVIOUS
<1>2. \A i \in 1..n + 1 : a(i) \in Int /\ b(i) \in Int /\ a(i) < b(i)
  <2> SUFFICES ASSUME NEW i \in 1..n + 1 PROVE a(i) \in Int /\ b(i) \in Int /\ a(i) < b(i)
    OBVIOUS
  <2>1. files[i] \in Files
    BY <1>1
  <2> QED BY <2>1, EndAfterStart
<1>3. a(n + 1) >= b(n)
  BY DEF fits
<1>4. /\ \A i \in 1..n : \A j \in 1..i - 1 : b(j) <= a(i)
      /\ \A g \in 1..Len(gaps) : gaps[g].to <= a(n)
      /\ \A t \in a(1)..b(n) - 1 :
           (\E g \in 1..Len(gaps) : gaps[g].from <= t /\ t < gaps[g].to)
             <=> ~ \E i \in 1..n : a(i) <= t /\ t < b(i)
  BY DEF LaidUpTo
<1>5. \A g \in 1..Len(gaps) : gaps[g].from \in Int /\ gaps[g].to \in Int
  <2> SUFFICES ASSUME NEW g \in 1..Len(gaps)
               PROVE  gaps[g].from \in Int /\ gaps[g].to \in Int
    OBVIOUS
  <2>1. gaps[g] \in Gaps
    OBVIOUS
  <2> QED BY <2>1 DEF Gaps
<1>6. gap \in Gaps /\ gap.from = b(n) /\ gap.to = a(n + 1)
  <2>1. b(n) \in Int /\ a(n + 1) \in Int
    <3>1. n \in 1..n + 1 /\ n + 1 \in 1..n + 1
      BY <1>1
    <3> QED BY <1>2, <3>1
  <2> HIDE DEF a, b
  <2> QED BY ONLY <2>1 DEF Gaps
<1>7. gaps' = IF more THEN Append(gaps, gap) ELSE gaps
  OBVIOUS
<1>8. LaidUpTo(n + 1)' <=>
        /\ \A i \in 1..n + 1 : \A j \in 1..i - 1 : b(j) <= a(i)
        /\ \A g \in 1..Len(gaps') : gaps'[g].to <= a(n + 1)
        /\ \A t \in a(1)..b(n + 1) - 1 :
             (\E g \in 1..Len(gaps') : gaps'[g].from <= t /\ t < gaps'[g].to)
               <=> ~ \E i \in 1..n + 1 : a(i) <= t /\ t < b(i)
  BY DEF LaidUpTo, end
<1> HIDE DEF a, b, gap, more
<1>9. /\ gaps' \in Seq(Gaps)
      /\ Len(gaps) \in Nat
      /\ \A g \in 1..Len(gaps) : gaps'[g] = gaps[g]
      /\ more => Len(gaps') = Len(gaps) + 1 /\ gaps'[Len(gaps) + 1] = gap
      /\ ~more => gaps' = gaps
  BY <1>6, <1>7
<1>10. \A i \in 1..n : b(i) <= a(n + 1) /\ a(1) <= a(i) /\ b(i) <= b(n)
  <2> SUFFICES ASSUME NEW i \in 1..n
               PROVE  b(i) <= a(n + 1) /\ a(1) <= a(i) /\ b(i) <= b(n)
    OBVIOUS
  <2>1. a(1) <= a(i)
    <3>1. CASE i = 1
      BY <3>1, <1>1, <1>2
    <3>2. CASE i # 1
      <4>1. 1 \in 1..i - 1 /\ 1 \in 1..n + 1
        BY <3>2, <1>1
      <4>2. b(1) <= a(i)
        BY <1>4, <4>1
      <4> QED BY <4>1, <4>2, <1>1, <1>2
    <3> QED BY <3>1, <3>2
  <2>2. b(i) <= b(n)
    <3>1. CASE i = n
      BY <3>1, <1>1, <1>2
    <3>2. CASE i # n
      <4>1. i \in 1..n - 1 /\ n \in 1..n
        BY <3>2, <1>1
      <4>2. b(i) <= a(n)
        BY <1>4, <4>1
      <4> QED BY <4>1, <4>2, <1>1, <1>2
    <3> QED BY <3>1, <3>2
  <2> QED BY <2>1, <2>2, <1>1, <1>2, <1>3
<1>11. \A i \in 1..n + 1 : \A j \in 1..i - 1 : b(j) <= a(i)
  <2> SUFFICES ASSUME NEW i \in 1..n + 1, NEW j \in 1..i - 1 PROVE b(j) <= a(i)
    OBVIOUS
  <2>1. CASE i = n + 1
    BY <2>1, <1>1, <1>10
  <2>2. CASE i # n + 1
    <3>1. i \in 1..n
      BY <2>2, <1>1
    <3> QED BY <3>1, <1>4
  <2> QED BY <2>1, <2>2
<1>12. \A g \in 1..Len(gaps) : gaps[g].to < b(n)
  <2> SUFFICES ASSUME NEW g \in 1..Len(gaps) PROVE gaps[g].to < b(n)
    OBVIOUS
  <2>1. n \in 1..n + 1
    BY <1>1
  <2>2. a(n) \in Int /\ b(n) \in Int /\ a(n) < b(n)
    BY <2>1, <1>2
  <2>3. gaps[g].to <= a(n) /\ gaps[g].to \in Int
    BY <1>4, <1>5
  <2> QED BY ONLY <2>2, <2>3
<1>13. \A g \in 1..Len(gaps') : gaps'[g].to <= a(n + 1)
  <2> SUFFICES ASSUME NEW g \in 1..Len(gaps') PROVE gaps'[g].to <= a(n + 1)
    OBVIOUS
  <2>0. a(n + 1) \in Int /\ b(n) \in Int
    BY <1>1, <1>2
  <2>1. CASE g \in 1..Len(gaps)
    BY <2>0, <2>1, <1>3, <1>5, <1>9, <1>12
  <2>2. CASE g \notin 1..Len(gaps)
    <3>1. more /\ g = Len(gaps) + 1
      BY <2>2, <1>9
    <3> QED BY <3>1, <2>0, <1>6, <1>9
  <2> QED BY <2>1, <2>2
<1>14. ASSUME NEW t \in a(1)..b(n + 1) - 1
       PROVE  (\E g \in 1..Len(gaps') : gaps'[g].from <= t /\ t < gaps'[g].to)
                <=> ~ \E i \in 1..n + 1 : a(i) <= t /\ t < b(i)
  <2>0. /\ a(1) \in Int /\ a(n + 1) \in Int /\ b(n) \in Int /\ b(n + 1) \in Int
        /\ t \in Int /\ a(1) <= t /\ t < b(n + 1)
        /\ a(n + 1) < b(n + 1)
    <3>1. 1 \in 1..n + 1 /\ n \in 1..n + 1 /\ n + 1 \in 1..n + 1
      BY <1>1
    <3>2. a(1) \in Int /\ a(n + 1) \in Int /\ b(n) \in Int /\ b(n + 1) \in Int
          /\ a(n + 1) < b(n + 1)
      BY <3>1, <1>2
    <3> QED BY <3>2
  <2>1. (\E g \in 1..Len(gaps') : gaps'[g].from <= t /\ t < gaps'[g].to)
          <=> \/ \E g \in 1..Len(gaps) : gaps[g].from <= t /\ t < gaps[g].to
              \/ more /\ b(n) <= t /\ t < a(n + 1)
    <3>1. CASE more
      <4>1. 1..Len(gaps') = 1..Len(gaps) \cup {Len(gaps) + 1}
        BY <3>1, <1>9
      <4> QED BY <3>1, <4>1, <1>6, <1>9
    <3>2. CASE ~more
      BY <3>2, <1>9
    <3> QED BY <3>1, <3>2
  <2>2. (\E i \in 1..n + 1 : a(i) <= t /\ t < b(i))
          <=> \/ \E i \in 1..n : a(i) <= t /\ t < b(i)
              \/ a(n + 1) <= t /\ t < b(n + 1)
    <3>1. 1..n + 1 = 1..n \cup {n + 1}
      BY <1>1
    <3> QED BY <3>1
  <2>3. CASE t < b(n)
    <3>1. t \in a(1)..b(n) - 1
      BY <2>0, <2>3
    <3>2. ~(b(n) <= t) /\ ~(a(n + 1) <= t)
      BY <2>0, <2>3, <1>3
    <3> QED BY <2>1, <2>2, <3>1, <3>2, <1>4
  <2>4. CASE b(n) <= t
    <3>1. ~ \E g \in 1..Len(gaps) : gaps[g].from <= t /\ t < gaps[g].to
      <4> SUFFICES ASSUME NEW g \in 1..Len(gaps) PROVE ~(t < gaps[g].to)
        OBVIOUS
      <4>1. gaps[g].to < b(n) /\ gaps[g].to \in Int
        BY <1>5, <1>12
      <4> QED BY ONLY <4>1, <2>0, <2>4
    <3>2. ~ \E i \in 1..n : a(i) <= t /\ t < b(i)
      <4> SUFFICES ASSUME NEW i \in 1..n PROVE ~(t < b(i))
        OBVIOUS
      <4>1. i \in 1..n + 1
        BY <1>1
      <4>2. b(i) \in Int /\ b(i) <= b(n)
        BY <4>1, <1>2, <1>10
      <4> QED BY <4>2, <2>0, <2>4
    <3>3. more <=> a(n + 1) > b(n)
      BY DEF more
    <3>4. CASE t < a(n + 1)
      <4>1. more /\ ~(a(n + 1) <= t)
        BY <2>0, <2>4, <3>3, <3>4
      <4> QED BY <2>1, <2>2, <2>4, <3>2, <3>4, <4>1
    <3>5. CASE a(n + 1) <= t
      <4>1. ~(t < a(n + 1))
        BY <2>0, <3>5
      <4> QED BY <2>0, <2>1, <2>2, <3>1, <3>5, <4>1
    <3>6. t < a(n + 1) \/ a(n + 1) <= t
      BY <2>0
    <3> QED BY <3>4, <3>5, <3>6
  <2>5. t < b(n) \/ b(n) <= t
    BY <2>0
  <2> QED BY <2>3, <2>4, <2>5
<1> QED BY <1>8, <1>9, <1>11, <1>13, <1>14

\* One more row that Verify compares with the row before it only.
LEMMA ScanNext ==
  ASSUME merged \in Seq(MergedRows), at \in Nat \ {0}, back \in Nat, unsorted \in Nat,
         origin \in Int, secs \in Nat \ {0}, ScannedUpTo(at - 1), VerifyRow
  PROVE  back' \in Nat /\ unsorted' \in Nat /\ ScannedUpTo(at - 1)'
<1> DEFINE seg(k) == segment(merged[k].capture)
           pd(k) == merged[k].pd
           c(k) == merged[k].capture
           P(j, k) == seg(j) < seg(k) \/ (seg(j) = seg(k)
                        /\ (pd(j) < pd(k) \/ (pd(j) = pd(k) /\ c(j) <= c(k))))
           backward == at > 1 /\ seg(at) < seg(at - 1)
           mixed == at > 1 /\ seg(at) = seg(at - 1)
                    /\ (pd(at) < pd(at - 1) \/ (pd(at) = pd(at - 1) /\ c(at) < c(at - 1)))
<1>1. at <= Len(merged) /\ at \in 1..Len(merged) /\ Len(merged) \in Nat
  BY DEF VerifyRow
<1>2. \A k \in 1..at : seg(k) \in Int /\ pd(k) \in Int /\ c(k) \in Int
  <2> SUFFICES ASSUME NEW k \in 1..at PROVE seg(k) \in Int /\ pd(k) \in Int /\ c(k) \in Int
    OBVIOUS
  <2>1. merged[k] \in MergedRows
    BY <1>1
  <2>2. pd(k) \in PDs /\ c(k) \in Int
    BY <2>1 DEF MergedRows
  <2>3. pd(k) \in Int
    <3> HIDE DEF pd
    <3>1. PDs \subseteq Nat
      BY PDsAssumption
    <3>2. \A x \in PDs : x \in Nat
      BY <3>1
    <3>3. pd(k) \in Nat
      BY <2>2, <3>2, Zenon
    <3> QED BY <3>3
  <2>4. c(k) - origin \in Int
    BY <2>2
  <2>5. (c(k) - origin) \div secs \in Int
    BY <2>4, Division
  <2> QED BY <2>2, <2>3, <2>5 DEF segment
<1>3. /\ back' = IF backward THEN back + 1 ELSE back
      /\ unsorted' = IF mixed THEN unsorted + 1 ELSE unsorted
  BY DEF VerifyRow, misplaced
<1>4. ScannedUpTo(at - 1) <=>
        (back = 0 /\ unsorted = 0 <=> \A k \in 1..at - 1 : \A j \in 1..k - 1 : P(j, k))
  BY DEF ScannedUpTo, Precedes, NotAfter
<1>5. ScannedUpTo(at - 1)' <=>
        (back' = 0 /\ unsorted' = 0 <=> \A k \in 1..at : \A j \in 1..k - 1 : P(j, k))
  <2>1. merged' = merged /\ files' = files /\ at' - 1 = at
    BY DEF VerifyRow, vars
  <2> QED BY <2>1 DEF ScannedUpTo, Precedes, NotAfter, segment, origin, secs
<1> HIDE DEF seg, pd, c
<1>6. \A i, j, k \in 1..at : P(i, j) /\ P(j, k) => P(i, k)
  <2> SUFFICES ASSUME NEW i \in 1..at, NEW j \in 1..at, NEW k \in 1..at, P(i, j), P(j, k)
               PROVE  P(i, k)
    OBVIOUS
  <2>1. /\ seg(i) \in Int /\ pd(i) \in Int /\ c(i) \in Int
        /\ seg(j) \in Int /\ pd(j) \in Int /\ c(j) \in Int
        /\ seg(k) \in Int /\ pd(k) \in Int /\ c(k) \in Int
    BY <1>2
  <2>2. P(i, j) /\ P(j, k)
    OBVIOUS
  <2> QED BY ONLY <2>1, <2>2
<1>7. backward \/ mixed <=> at > 1 /\ ~P(at - 1, at)
  <2>1. CASE at > 1
    <3>1. at - 1 \in 1..at /\ at \in 1..at
      BY <2>1
    <3> QED BY <2>1, <3>1, <1>2
  <2>2. CASE ~(at > 1)
    BY <2>2
  <2> QED BY <2>1, <2>2
<1> HIDE DEF P, backward, mixed
<1>8. /\ back' \in Nat /\ unsorted' \in Nat
      /\ back' = 0 /\ unsorted' = 0
           <=> back = 0 /\ unsorted = 0 /\ ~(backward \/ mixed)
  BY <1>3
<1>9. (\A k \in 1..at : \A j \in 1..k - 1 : P(j, k))
        <=> /\ \A k \in 1..at - 1 : \A j \in 1..k - 1 : P(j, k)
            /\ at > 1 => P(at - 1, at)
  <2>1. ASSUME \A k \in 1..at : \A j \in 1..k - 1 : P(j, k)
        PROVE  /\ \A k \in 1..at - 1 : \A j \in 1..k - 1 : P(j, k)
               /\ at > 1 => P(at - 1, at)
    <3>1. at > 1 => at - 1 \in 1..at - 1 /\ at \in 1..at
      OBVIOUS
    <3>2. 1..at - 1 \subseteq 1..at
      OBVIOUS
    <3> QED BY <2>1, <3>1, <3>2
  <2>2. ASSUME \A k \in 1..at - 1 : \A j \in 1..k - 1 : P(j, k),
               at > 1 => P(at - 1, at),
               NEW k \in 1..at, NEW j \in 1..k - 1
        PROVE  P(j, k)
    <3>1. CASE k \in 1..at - 1
      BY <2>2, <3>1
    <3>2. CASE k = at /\ j = at - 1
      <4>1. at > 1
        BY <2>2, <3>2
      <4> QED BY <2>2, <3>2, <4>1
    <3>3. CASE k = at /\ j # at - 1
      <4>1. at - 1 \in 1..at - 1 /\ j \in 1..(at - 1) - 1 /\ at > 1
        BY <2>2, <3>3
      <4>2. P(j, at - 1) /\ P(at - 1, at)
        BY <2>2, <4>1
      <4>3. j \in 1..at /\ at - 1 \in 1..at /\ at \in 1..at
        BY <4>1
      <4> QED BY <1>6, <3>3, <4>2, <4>3
    <3>4. k \in 1..at - 1 \/ k = at
      BY <2>2
    <3> QED BY <3>1, <3>2, <3>3, <3>4
  <2> QED BY <2>1, <2>2
<1> QED BY <1>4, <1>5, <1>7, <1>8, <1>9

\* Before CheckLayout nothing is laid out and nothing merged.
LEMMA MergeInitInv == MergeInit => MergeInv
<1> SUFFICES ASSUME MergeInit PROVE MergeInv
  OBVIOUS
<1> QED BY FaultsAssumption DEF MergeInit, Init, MergeInv, LaidOut

\* With the zero filter Open keeps every file of the directory.
LEMMA OpenKeepsAll ==
  ASSUME TypeOK, TypeOK', Open, filter = [pds |-> PDs, start |-> {}, end |-> {}]
  PROVE  FilesInv'
<1> DEFINE K == {i \in DOMAIN dir : overlaps(dir[i])}
           n == Cardinality(K)
<1>1. dir \in Seq(Files) /\ dir # <<>> /\ dir' = dir
  BY DirsAssumption DEF TypeOK, Open, CanOpen, flags
<1>2. Len(dir) \in Nat /\ Len(dir) > 0
  BY <1>1
<1>3. K = 1..Len(dir)
  <2>1. filter.start = {} /\ filter.end = {}
    OBVIOUS
  <2>2. \A i \in DOMAIN dir : overlaps(dir[i])
    BY <2>1 DEF overlaps
  <2> QED BY <1>1, <2>2
<1>4. n = Len(dir)
  <2>1. Cardinality(1..Len(dir)) = IF 1 > Len(dir) THEN 0 ELSE Len(dir) - 1 + 1
    BY <1>2, FS_Interval
  <2>2. n = Cardinality(1..Len(dir))
    BY <1>3, Zenon
  <2> HIDE DEF n, K
  <2> QED BY <1>2, <2>1, <2>2
<1>5. PICK p \in Sorted(K) : files' = [i \in DOMAIN p |-> dir[p[i]]]
  BY DEF Open
<1>6. /\ p \in [1..n -> K]
      /\ \A i, j \in 1..n : i < j => dir[p[i]].start <= dir[p[j]].start
  BY <1>5 DEF Sorted
<1> HIDE DEF K, n
<1>7. DOMAIN files' = 1..n /\ \A i \in 1..n : p[i] \in DOMAIN dir /\ files'[i] = dir[p[i]]
  BY <1>1, <1>3, <1>5, <1>6
<1>8. Len(files') = n
  <2>1. files' \in Seq(Files)
    BY DEF TypeOK
  <2>2. Len(files') \in Nat /\ DOMAIN files' = 1..Len(files')
    BY <2>1
  <2>3. n \in DOMAIN files' /\ Len(files') \in 1..n
    <3>1. n \in 1..n
      BY <1>2, <1>4
    <3>2. n \in 1..Len(files')
      BY <1>7, <2>2, <3>1
    <3>3. Len(files') \in 1..Len(files')
      BY <2>2, <3>2
    <3> QED BY <1>7, <2>2, <3>1, <3>3
  <2> QED BY <2>2, <2>3
<1>9. \A i \in DOMAIN files' : \A j \in 1..i - 1 : files'[j].start <= files'[i].start
  <2> SUFFICES ASSUME NEW i \in 1..n, NEW j \in 1..i - 1
               PROVE  files'[j].start <= files'[i].start
    BY <1>7
  <2>1. j \in 1..n /\ j < i
    BY <1>2, <1>4
  <2> QED BY <1>6, <1>7, <2>1
<1> QED BY <1>1, <1>2, <1>4, <1>7, <1>8, <1>9 DEF FilesInv

\* What a row of a directory has besides Rows are bytes.
LEMMA FieType ==
  ASSUME dir \in Dirs, NEW d \in DOMAIN dir, NEW k \in DOMAIN dir[d].rows
  PROVE  /\ Fie[dir[d].rows[k].id].transit \subseteq 0..255
         /\ Fie[dir[d].rows[k].id].age \subseteq 0..255
<1>1. \A e \in DOMAIN dir : \A l \in DOMAIN dir[e].rows :
        \A v \in {Fie[dir[e].rows[l].id].transit, Fie[dir[e].rows[l].id].age} :
          v \subseteq 0..255 /\ \A x, y \in v : x = y
  BY FieAssumption, ZenonT(40)
<1>2. \A v \in {Fie[dir[d].rows[k].id].transit, Fie[dir[d].rows[k].id].age} :
        v \subseteq 0..255 /\ \A x, y \in v : x = y
  BY ONLY <1>1, d \in DOMAIN dir, k \in DOMAIN dir[d].rows, Zenon
<1> QED BY <1>2

\* The COPY makes rows of the merged file.
LEMMA MergedRowType ==
  ASSUME NEW f, NEW r \in Rows, f.start \in Int,
         Fie[r.id].transit \subseteq 0..255, Fie[r.id].age \subseteq 0..255
  PROVE  mergedRow(f, r) \in MergedRows
<1>1. r.pd \in PDs /\ r.second \in Nat
  BY DEF Rows
<1>2. Unix(f.start) \in Int
  BY UnixShift
<1>3. Unix(f.start) + r.second \in Int
  BY <1>1, <1>2
<1>4. \A a, b : a \subseteq Int /\ b \subseteq 0..255 => minus(a, b) \subseteq Int
  <2>1. \A x \in Int, y \in 0..255 : x - y \in Int
    OBVIOUS
  <2> QED BY ONLY <2>1 DEF minus
<1>5. minus({Unix(f.start) + r.second}, Fie[r.id].transit) \subseteq Int
  BY <1>3, <1>4
<1>6. minus(minus({Unix(f.start) + r.second}, Fie[r.id].transit), Fie[r.id].age) \subseteq Int
  BY <1>4, <1>5
<1>7. mergedRow(f, r) = [pd |-> r.pd, capture |-> Unix(f.start) + r.second,
                         built |-> minus({Unix(f.start) + r.second}, Fie[r.id].transit),
                         reply |-> minus(minus({Unix(f.start) + r.second},
                                               Fie[r.id].transit), Fie[r.id].age)]
  BY DEF mergedRow
<1>8. \A pd \in PDs, c \in Int, b, t \in SUBSET Int :
        [pd |-> pd, capture |-> c, built |-> b, reply |-> t] \in MergedRows
  BY DEF MergedRows
<1> QED BY <1>1, <1>3, <1>5, <1>6, <1>7, <1>8

\* What the COPY writes are rows of the merged file.
LEMMA CopyType ==
  ASSUME TypeOK, FilesInv, NEW i \in DOMAIN files, merged \in Seq(MergedRows)
  PROVE  merged \o [k \in DOMAIN files[i].rows |-> mergedRow(files[i], files[i].rows[k])]
           \in Seq(MergedRows)
<1> DEFINE f == files[i]
<1>1. PICK d \in DOMAIN dir : f = dir[d]
  BY DEF FilesInv
<1>2. f \in Files /\ dir \in Dirs
  BY DEF TypeOK
<1>3. f.rows \in Seq(Rows) /\ f.start \in Int
  BY <1>2 DEF Files
<1>4. ASSUME NEW k \in DOMAIN f.rows PROVE mergedRow(f, f.rows[k]) \in MergedRows
  <2>1. k \in DOMAIN dir[d].rows /\ f.rows[k] = dir[d].rows[k]
    BY <1>1
  <2>2. /\ Fie[f.rows[k].id].transit \subseteq 0..255
        /\ Fie[f.rows[k].id].age \subseteq 0..255
    <3>1. /\ Fie[dir[d].rows[k].id].transit \subseteq 0..255
          /\ Fie[dir[d].rows[k].id].age \subseteq 0..255
      BY <1>2, <2>1, FieType
    <3> QED BY ONLY <2>1, <3>1
  <2>3. f.rows[k] \in Rows
    BY <1>3
  <2> QED BY <1>3, <2>2, <2>3, MergedRowType
<1>5. DOMAIN f.rows = 1..Len(f.rows) /\ Len(f.rows) \in Nat
  BY <1>3
<1>6. [k \in DOMAIN f.rows |-> mergedRow(f, f.rows[k])] \in [1..Len(f.rows) -> MergedRows]
  BY <1>4, <1>5
<1>7. [k \in DOMAIN f.rows |-> mergedRow(f, f.rows[k])] \in Seq(MergedRows)
  BY ONLY <1>5, <1>6, SeqOfFunction
<1> QED BY <1>7

\* Every step is one of Source, or leaves all of it as it is.
LEMMA SourceStep == [MergeNext]_allVars => [Next]_vars
<1> QED BY DEF MergeNext, OpenAndPlan, StartLayout, FileFits, FileOverlaps, LayoutDone,
           CopyFile, Copied, Damage, NotVerified, Verify, VerifyRow, Verified,
           MergeEnded, Next, allVars

\* Verify's divisor and its zero.
LEMMA OriginType ==
  ASSUME TypeOK, FilesInv
  PROVE  origin \in Int /\ secs \in Nat \ {0}
<1>1. files[1] \in Files
  BY DEF TypeOK, FilesInv
<1>2. files[1].start \in Int /\ files[1].seconds \in Nat \ {0}
  BY <1>1 DEF Files
<1> QED BY <1>2, UnixShift DEF origin, secs

\* Whether the counts agree depends on the files, the counts and the merged rows.
LEMMA CountsStay ==
  ASSUME UNCHANGED <<files, merged, counts>>
  PROVE  CountsAgree' <=> CountsAgree
<1>1. want' = want
  BY DEF want, segment, secs, origin
<1>2. \A x : inSegment(x)' = inSegment(x)
  BY DEF inSegment, segment, secs, origin
<1>3. \A x : segment(x)' = segment(x)
  BY DEF segment, secs, origin
<1> QED BY <1>1, <1>2, <1>3 DEF CountsAgree

\* What a step that leaves the files, the gaps and the rows alone keeps.
LEMMA LaidStays ==
  ASSUME UNCHANGED <<vars, gaps>>, NEW n \in Int
  PROVE  LaidUpTo(n)' <=> LaidUpTo(n)
BY DEF vars, LaidUpTo, end

\* Every step of CheckLayout, Merge and Verify keeps the invariant.
LEMMA MergeStepInv ==
  ASSUME TypeOK, TypeOK', MergeInv, [MergeNext]_allVars
  PROVE  MergeInv'
<1> USE DEF MergeInv
<1>1. CASE stage = "upload" /\ Next /\ UNCHANGED mergeVars
  BY <1>1 DEF mergeVars, LaidOut
<1>2. CASE OpenAndPlan
  <2>1. CASE Open
    <3>1. FilesInv'
      BY <1>2, <2>1, OpenKeepsAll DEF OpenAndPlan
    <3> QED BY <1>2, <2>1, <3>1 DEF OpenAndPlan, Open, mergeVars, LaidOut, flags
  <2>2. CASE OpenFails \/ PlanFile \/ PlanFails
    <3>1. FilesInv' <=> FilesInv
      BY <2>2 DEF OpenFails, PlanFile, PlanFails, FilesInv, flags
    <3> QED BY <1>2, <2>2, <3>1
            DEF OpenAndPlan, OpenFails, PlanFile, PlanFails, mergeVars, LaidOut, flags
  <2> QED BY <1>2, <2>1, <2>2 DEF OpenAndPlan
<1>3. ASSUME UNCHANGED vars, stage \notin {"upload"}
      PROVE  /\ files' = files /\ counts' = counts /\ step' = step
             /\ FilesInv' <=> FilesInv
  BY <1>3 DEF vars, FilesInv
<1>4. CASE StartLayout
  <2>1. FilesInv /\ FilesInv' /\ UNCHANGED vars /\ stage' = "layout"
    BY <1>3, <1>4 DEF StartLayout
  <2>2. Len(files) \in Nat /\ Len(files) > 0 /\ files[1] \in Files
    <3>1. files \in Seq(Files)
      BY DEF TypeOK
    <3>2. Len(files) \in Nat /\ Len(files) > 0
      BY ONLY <2>1, <3>1 DEF FilesInv
    <3> QED BY ONLY <3>1, <3>2
  <2>3. files[1].start \in Int /\ end(files[1]) \in Int
    BY <2>2, EndAfterStart
  <2>4. gaps = <<>> /\ at = 2 /\ gaps' = gaps /\ at' = at
    BY <1>4 DEF StartLayout
  <2>5. LaidUpTo(1)
    <3>1. Len(gaps) = 0
      BY <2>4
    <3> QED BY <2>3, <3>1 DEF LaidUpTo
  <2>6. LaidUpTo(at - 1)'
    BY <2>1, <2>4, <2>5, LaidStays
  <2>7. at' \in 2..Len(files') + 1
    <3>1. at' = 2 /\ files' = files
      BY ONLY <2>1, <2>4 DEF vars
    <3> QED BY ONLY <2>2, <3>1
  <2> QED BY <1>3, <1>4, <2>1, <2>4, <2>6, <2>7 DEF StartLayout, LaidOut
<1>5. CASE FileFits
  <2>1. at \in Int /\ at - 1 \in 1..Len(files) - 1 /\ at = (at - 1) + 1
    <3>1. files \in Seq(Files) /\ at \in 2..Len(files) + 1 /\ at <= Len(files)
      BY <1>5 DEF FileFits, TypeOK
    <3> QED BY ONLY <3>1
  <2>2. PICK n \in 1..Len(files) - 1 : n = at - 1 /\ at = n + 1
    BY ONLY <2>1
  <2>3. gaps' \in Seq(Gaps) /\ LaidUpTo(n + 1)'
    <3>1. files \in Seq(Files) /\ gaps \in Seq(Gaps) /\ files' = files
      BY <1>3, <1>5 DEF FileFits, TypeOK, Gaps
    <3>2. LaidUpTo(n) /\ fits(files[n], files[n + 1])
      BY <1>5, <2>2 DEF FileFits
    <3>3. gaps' = IF files[n + 1].start > end(files[n])
                  THEN Append(gaps, [from |-> end(files[n]), to |-> files[n + 1].start])
                  ELSE gaps
      BY <1>5, <2>2 DEF FileFits
    <3> QED BY ONLY <2>2, <3>1, <3>2, <3>3, LaidNext
  <2>4. LaidUpTo(at - 1)'
    <3>1. at' - 1 = n + 1
      BY <1>5, <2>2 DEF FileFits
    <3> QED BY ONLY <2>3, <3>1 DEF LaidUpTo
  <2>5. at' \in 2..Len(files') + 1
    <3>1. at' = at + 1 /\ files' = files /\ files \in Seq(Files)
      BY <1>3, <1>5 DEF FileFits, TypeOK
    <3>2. Len(files) \in Nat
      BY ONLY <3>1
    <3> QED BY ONLY <2>1, <3>1, <3>2
  <2>6. gaps' \in Seq([from : Int, to : Int])
    BY <2>3 DEF Gaps
  <2> QED BY <1>3, <1>5, <2>4, <2>5, <2>6 DEF FileFits, LaidOut
<1>6. CASE FileOverlaps
  <2>1. LaidUpTo(at - 1)'
    BY <1>6, LaidStays DEF FileOverlaps
  <2>2. fits(files[at - 1], files[at])' <=> fits(files[at - 1], files[at])
    BY <1>6 DEF FileOverlaps, vars, fits, end
  <2> QED BY <1>3, <1>6, <2>1, <2>2 DEF FileOverlaps, LaidOut
<1>7. CASE LayoutDone
  <2>1. at - 1 = Len(files) /\ Len(files) \in Nat
    <3>1. files \in Seq(Files) /\ at \in 2..Len(files) + 1 /\ at > Len(files)
      BY <1>7 DEF LayoutDone, TypeOK
    <3> QED BY ONLY <3>1
  <2>2. LaidUpTo(Len(files))
    BY <1>7, <2>1 DEF LayoutDone
  <2>3. LaidUpTo(Len(files))'
    BY <1>3, <1>7, <2>1, <2>2, LaidStays DEF LayoutDone
  <2> QED BY <1>3, <1>7, <2>3 DEF LayoutDone, LaidOut
<1>8. ASSUME UNCHANGED <<vars, gaps>>, LaidOut
      PROVE  LaidUpTo(Len(files))'
  <2>1. Len(files) \in Int /\ files' = files
    BY <1>8 DEF TypeOK, vars
  <2>2. LaidUpTo(Len(files))
    BY <1>8
  <2>3. \A n \in Int : LaidUpTo(n)' <=> LaidUpTo(n)
    BY <1>8, LaidStays
  <2> QED BY <2>1, <2>2, <2>3 DEF LaidUpTo
<1>9. CASE CopyFile
  <2>1. FilesInv /\ at \in DOMAIN files
    BY <1>9 DEF CopyFile, TypeOK
  <2>2. merged' \in Seq(MergedRows)
    BY <1>9, <2>1, CopyType DEF CopyFile
  <2> QED BY <1>3, <1>8, <1>9, <2>2 DEF CopyFile, LaidOut
<1>10. CASE Copied
  BY <1>3, <1>8, <1>10 DEF Copied, LaidOut
<1>11. CASE Damage
  <2>1. merged' \in Seq(MergedRows)
    <3>1. CASE \E i, j \in DOMAIN merged :
                 merged' = [merged EXCEPT ![i] = merged[j], ![j] = merged[i]]
      <4>1. PICK i, j \in DOMAIN merged :
              merged' = [merged EXCEPT ![i] = merged[j], ![j] = merged[i]]
        BY <3>1
      <4>2. merged \in Seq(MergedRows) /\ merged[i] \in MergedRows /\ merged[j] \in MergedRows
        OBVIOUS
      <4> QED BY ONLY <4>1, <4>2
    <3>2. CASE \E i, j \in DOMAIN merged : merged' = [merged EXCEPT ![i] = merged[j]]
      <4>1. PICK i, j \in DOMAIN merged : merged' = [merged EXCEPT ![i] = merged[j]]
        BY <3>2
      <4>2. merged \in Seq(MergedRows) /\ merged[j] \in MergedRows
        OBVIOUS
      <4> QED BY ONLY <4>1, <4>2
    <3>3. CASE merged # <<>> /\ merged' = Tail(merged)
      BY <3>3
    <3> QED BY <1>11, <3>1, <3>2, <3>3 DEF Damage
  <2>2. faults' \in 0..MaxFaults
    BY <1>11, FaultsAssumption DEF Damage
  <2> QED BY <1>3, <1>8, <1>11, <2>1, <2>2 DEF Damage, LaidOut
<1>12. CASE NotVerified
  BY <1>3, <1>8, <1>12 DEF NotVerified, LaidOut
<1>13. CASE Verify
  <2>1. Aligned' <=> Aligned
    BY <1>13 DEF Verify, vars, Aligned, secs, origin
  <2>2. ScannedUpTo(at - 1)'
    <3>1. at' - 1 = 0 /\ back' = 0 /\ unsorted' = 0
      BY <1>13 DEF Verify
    <3> QED BY <3>1 DEF ScannedUpTo
  <2>3. at' <= Len(merged') + 1 /\ at' \in Nat \ {0}
    BY <1>13 DEF Verify
  <2> QED BY <1>3, <1>8, <1>13, <2>1, <2>2, <2>3 DEF Verify, LaidOut
<1>14. CASE VerifyRow
  <2>1. origin \in Int /\ secs \in Nat \ {0}
    BY <1>14, OriginType DEF VerifyRow
  <2>2. back' \in Nat /\ unsorted' \in Nat /\ ScannedUpTo(at - 1)'
    BY <1>14, <2>1, ScanNext DEF VerifyRow
  <2>3. Aligned' <=> Aligned
    BY <1>14 DEF VerifyRow, vars, Aligned, secs, origin
  <2>4. at' <= Len(merged') + 1 /\ at' \in Nat \ {0}
    BY <1>14 DEF VerifyRow
  <2> QED BY <1>3, <1>8, <1>14, <2>2, <2>3, <2>4 DEF VerifyRow, LaidOut
<1>15. CASE Verified
  <2>1. UNCHANGED <<files, merged, counts>>
    BY <1>15 DEF Verified, vars
  <2>2. Aligned' <=> Aligned
    BY <2>1 DEF Aligned, secs, origin
  <2>3. ScannedUpTo(at - 1)' <=> ScannedUpTo(at - 1)
    BY <1>15, <2>1 DEF Verified, ScannedUpTo, Precedes, NotAfter, segment, secs, origin
  <2>4. CountsAgree' <=> CountsAgree
    BY <2>1, CountsStay
  <2>5. at = Len(merged) + 1
    <3>1. /\ merged \in Seq(MergedRows) /\ at \in Nat \ {0}
          /\ at <= Len(merged) + 1 /\ at > Len(merged)
      BY <1>15 DEF Verified
    <3> QED BY ONLY <3>1
  <2> QED BY <1>3, <1>8, <1>15, <2>1, <2>2, <2>3, <2>4, <2>5 DEF Verified, LaidOut
<1>16. CASE MergeEnded \/ UNCHANGED allVars
  <2>1. UNCHANGED allVars
    BY <1>16 DEF MergeEnded
  <2>2. UNCHANGED <<vars, mergeVars>>
    BY <2>1 DEF allVars
  <2>3. /\ UNCHANGED <<step, dir, filter, files, counts>>
        /\ UNCHANGED <<stage, at, gaps, merged, faults, back, unsorted>>
    BY <2>2 DEF vars, mergeVars
  <2>4. LaidUpTo(at - 1)' <=> LaidUpTo(at - 1)
    BY <2>3 DEF LaidUpTo, end
  <2>5. LaidUpTo(Len(files))' <=> LaidUpTo(Len(files))
    BY <2>3 DEF LaidUpTo, end
  <2>6. FilesInv' <=> FilesInv
    BY <2>3 DEF FilesInv
  <2>7. Aligned' <=> Aligned
    BY <2>3 DEF Aligned, secs, origin
  <2>8. ScannedUpTo(at - 1)' <=> ScannedUpTo(at - 1)
    BY <2>3 DEF ScannedUpTo, Precedes, NotAfter, segment, secs, origin
  <2>9. CountsAgree' <=> CountsAgree
    BY <2>3, CountsStay
  <2>10. fits(files[at - 1], files[at])' <=> fits(files[at - 1], files[at])
    BY <2>3 DEF fits, end
  <2> QED BY <2>3, <2>4, <2>5, <2>6, <2>7, <2>8, <2>9, <2>10 DEF LaidOut
<1> QED BY <1>1, <1>2, <1>4, <1>5, <1>6, <1>7, <1>9, <1>10, <1>11, <1>12, <1>13, <1>14,
           <1>15, <1>16 DEF MergeNext

(***************************************************************************)
(* In every state of every run of merge-fies the files looked at so far do *)
(* not overlap and the gaps lie between them, and Verify's counters are 0  *)
(* exactly when any two of the rows read so far are in order.              *)
(***************************************************************************)
THEOREM MergeInvariance == MergeSpec => [](WindowInv /\ MergeInv)
<1>1. MergeInit => WindowInv /\ MergeInv
  BY InitInv, MergeInitInv DEF MergeInit
<1>2. WindowInv /\ MergeInv /\ [MergeNext]_allVars => (WindowInv /\ MergeInv)'
  <2> SUFFICES ASSUME WindowInv, MergeInv, [MergeNext]_allVars
               PROVE  WindowInv' /\ MergeInv'
    OBVIOUS
  <2>1. WindowInv'
    BY SourceStep, NextInv
  <2>2. TypeOK /\ TypeOK'
    BY <2>1 DEF WindowInv
  <2> QED BY <2>1, <2>2, MergeStepInv
<1> QED BY <1>1, <1>2, PTL DEF MergeSpec

\* The types of the files' starts and ends.
LEMMA FileTypes ==
  ASSUME TypeOK, NEW i \in DOMAIN files
  PROVE  /\ i \in Nat
         /\ files[i] \in Files
         /\ files[i].start \in Int /\ files[i].seconds \in Nat \ {0}
         /\ end(files[i]) \in Int
         /\ files[i].start < end(files[i])
<1>1. files[i] \in Files /\ i \in Nat
  BY DEF TypeOK
<1> QED BY <1>1, EndAfterStart

(***************************************************************************)
(* CheckLayout lets through exactly the directories without two files that *)
(* overlap, though it compares neighbours only, and the gaps it warns of   *)
(* are exactly the times that no file covers - for every number of files   *)
(* and every length of theirs.                                             *)
(***************************************************************************)
THEOREM LayoutAlwaysExact == MergeSpec => []LayoutIsExact
<1>1. WindowInv /\ MergeInv => LayoutIsExact
  <2> SUFFICES ASSUME WindowInv, MergeInv PROVE LayoutIsExact
    OBVIOUS
  <2>1. TypeOK
    BY DEF WindowInv
  <2>2. files \in Seq(Files) /\ gaps \in Seq([from : Int, to : Int])
    BY <2>1 DEF TypeOK, MergeInv
  <2>3. DOMAIN files = 1..Len(files) /\ DOMAIN gaps = 1..Len(gaps)
    BY <2>2
  <2>4. ASSUME LaidOut
        PROVE  /\ \A i \in DOMAIN files : \A j \in 1..i - 1 : end(files[j]) <= files[i].start
               /\ \A t \in files[1].start..end(files[Len(files)]) - 1 :
                    (\E g \in DOMAIN gaps : gaps[g].from <= t /\ t < gaps[g].to)
                      <=> ~ \E i \in DOMAIN files :
                              files[i].start <= t /\ t < end(files[i])
    <3>1. LaidUpTo(Len(files))
      BY <2>4 DEF MergeInv
    <3> QED BY <2>3, <3>1 DEF LaidUpTo
  <2>5. ASSUME stage = "overlap"
        PROVE  \E i, j \in DOMAIN files :
                 i # j /\ files[i].start < end(files[j]) /\ files[j].start < end(files[i])
    <3>1. FilesInv /\ at \in 2..Len(files) + 1 /\ at <= Len(files)
          /\ ~fits(files[at - 1], files[at])
      BY <2>5 DEF MergeInv
    <3>2. Len(files) \in Nat
      BY <2>2
    <3>3. at \in DOMAIN files /\ at - 1 \in DOMAIN files /\ at - 1 # at
          /\ at - 1 \in 1..at - 1
      BY <2>3, <3>1, <3>2
    <3>4. files[at - 1].start <= files[at].start
      BY <3>1, <3>3 DEF FilesInv
    <3>5. /\ files[at].start \in Int /\ end(files[at]) \in Int
          /\ files[at].start < end(files[at])
          /\ files[at - 1].start \in Int /\ end(files[at - 1]) \in Int
      BY <2>1, <3>3, FileTypes
    <3>6. files[at].start < end(files[at - 1]) /\ files[at - 1].start < end(files[at])
      BY <3>1, <3>4, <3>5 DEF fits
    <3> QED BY <3>3, <3>6
  <2> QED BY <2>4, <2>5 DEF LayoutIsExact
<1> QED BY <1>1, MergeInvariance, PTL
-----------------------------------------------------------------------------
second(i) == Unix(files[i].start)

\* Verify's integer division puts a second into the segment of a file exactly
\* when it is in the file's interval, and orders it against that segment as it
\* is ordered against the interval.
LEMMA SegmentIsInterval ==
  ASSUME TypeOK, FilesInv, Aligned, NEW i \in DOMAIN files, NEW c \in Int
  PROVE  /\ second(i) \in Int /\ files[i].seconds = secs /\ secs \in Nat \ {0}
         /\ segment(c) \in Int /\ segment(second(i)) \in Int
         /\ segment(c) <= segment(second(i)) <=> c < second(i) + secs
         /\ segment(c) >= segment(second(i)) <=> c >= second(i)
<1> DEFINE u == second(i)
           w == secs
           o == origin
           q == (u - o) \div w
<1>1. o \in Int /\ w \in Nat \ {0}
  BY OriginType
<1>2. u \in Int
  <2>1. files[i].start \in Int /\ 0 \in Int
    BY FileTypes
  <2> QED BY <2>1, UnixShift DEF second
<1>3. files[i].seconds = w /\ (u - o) % w = 0
  BY DEF Aligned, second
<1>4. segment(c) = (c - o) \div w /\ segment(u) = q
  BY DEF segment
<1> HIDE DEF u, w, o
<1>5. u - o \in Int /\ c - o \in Int
  BY <1>1, <1>2
<1>6. q \in Int /\ q * w \in Int /\ q * w = u - o
  BY <1>1, <1>3, <1>5, Divides
<1> HIDE DEF q
<1>7. /\ (c - o) \div w \in Int
      /\ (c - o) \div w <= q <=> c - o < q * w + w
      /\ (c - o) \div w >= q <=> c - o >= q * w
  BY <1>1, <1>5, <1>6, Division
<1>8. (c - o < q * w + w <=> c < u + w) /\ (c - o >= q * w <=> c >= u)
  BY <1>1, <1>2, <1>6
<1> QED BY <1>1, <1>2, <1>3, <1>4, <1>6, <1>7, <1>8 DEF u, w

\* Files that do not overlap have different segments.
LEMMA SegmentsDiffer ==
  ASSUME TypeOK, FilesInv, Aligned, LaidUpTo(Len(files)),
         NEW i \in DOMAIN files, NEW j \in DOMAIN files, i # j
  PROVE  segment(second(i)) # segment(second(j))
<1>1. ASSUME NEW k \in DOMAIN files, NEW l \in DOMAIN files, k < l
      PROVE  segment(second(k)) # segment(second(l))
  <2>1. /\ files[k].start \in Int /\ files[l].start \in Int
        /\ end(files[k]) \in Int /\ k \in Nat /\ l \in Nat
        /\ files[k].seconds \in Int
    BY FileTypes
  <2>2. end(files[k]) <= files[l].start
    <3>1. k \in 1..l - 1 /\ l \in 1..Len(files)
      BY <1>1, <2>1 DEF TypeOK
    <3> QED BY <3>1 DEF LaidUpTo
  <2>3. Unix(end(files[k])) = second(k) + files[k].seconds
    BY <2>1, UnixShift DEF end, second
  <2>4. Unix(end(files[k])) <= second(l)
    BY <2>1, <2>2, UnixMonotone DEF second
  <2>5. second(k) \in Int /\ second(l) \in Int /\ files[k].seconds = secs
        /\ secs \in Int
    <3>1. 0 \in Int
      OBVIOUS
    <3> QED BY <3>1, SegmentIsInterval
  <2>6. ~(second(l) < second(k) + secs)
    BY <2>3, <2>4, <2>5
  <2>7. segment(second(l)) \in Int /\ segment(second(k)) \in Int
        /\ ~(segment(second(l)) <= segment(second(k)))
    BY <2>5, <2>6, SegmentIsInterval
  <2> QED BY <2>7
<1>2. i \in Nat /\ j \in Nat
  BY FileTypes
<1>3. i < j \/ j < i
  BY <1>2
<1> QED BY <1>1, <1>3

\* So each segment is wanted with the rows of its one file.
LEMMA WantedRows ==
  ASSUME TypeOK, FilesInv, Aligned, LaidUpTo(Len(files))
  PROVE  /\ DOMAIN want = {segment(second(i)) : i \in DOMAIN files}
         /\ \A i \in DOMAIN files : want[segment(second(i))] = counts[i]
<1> DEFINE seg == [i \in DOMAIN files |-> segment(second(i))]
           last(x) == CHOOSE i \in DOMAIN files :
                        seg[i] = x /\ \A j \in DOMAIN files : seg[j] = x => j <= i
<1>1. want = [x \in {seg[i] : i \in DOMAIN files} |-> counts[last(x)]]
  BY DEF want, second
<1>2. ASSUME NEW i \in DOMAIN files PROVE last(seg[i]) = i
  <2>1. \A j \in DOMAIN files : seg[j] = seg[i] => j = i
    BY <1>2, SegmentsDiffer
  <2>2. i <= i
    BY FileTypes
  <2>3. seg[i] = seg[i] /\ \A j \in DOMAIN files : seg[j] = seg[i] => j <= i
    BY <2>1, <2>2
  <2>4. /\ last(seg[i]) \in DOMAIN files
        /\ seg[last(seg[i])] = seg[i]
    BY <2>3
  <2> QED BY <2>1, <2>4
<1>3. \A i \in DOMAIN files : seg[i] = segment(second(i))
  OBVIOUS
<1> HIDE DEF seg, last
<1>4. DOMAIN want = {seg[i] : i \in DOMAIN files}
  BY <1>1
<1>5. \A i \in DOMAIN files : want[seg[i]] = counts[i]
  BY <1>1, <1>2
<1> QED BY <1>3, <1>4, <1>5

\* A row is within a file's interval exactly when Verify counts it there.
LEMMA WithinIsSegment ==
  ASSUME TypeOK, FilesInv, Aligned, merged \in Seq(MergedRows),
         NEW k \in DOMAIN merged, NEW i \in DOMAIN files
  PROVE  /\ segment(merged[k].capture) \in Int /\ segment(second(i)) \in Int
         /\ Within(merged[k], files[i])
              <=> segment(merged[k].capture) = segment(second(i))
         /\ merged[k].capture < Unix(files[i].start) + files[i].seconds
              <=> segment(merged[k].capture) <= segment(second(i))
<1> DEFINE c == merged[k].capture
<1>1. c \in Int
  <2>1. merged[k] \in MergedRows
    OBVIOUS
  <2> QED BY <2>1 DEF MergedRows
<1>2. Within(merged[k], files[i])
        <=> second(i) <= c /\ c < second(i) + files[i].seconds
  BY DEF Within, second
<1>3. merged[k].capture < Unix(files[i].start) + files[i].seconds
        <=> c < second(i) + files[i].seconds
  BY DEF second
<1> HIDE DEF c
<1>4. /\ second(i) \in Int /\ files[i].seconds = secs
      /\ segment(c) \in Int /\ segment(second(i)) \in Int
      /\ segment(c) <= segment(second(i)) <=> c < second(i) + secs
      /\ segment(c) >= segment(second(i)) <=> c >= second(i)
  BY <1>1, SegmentIsInterval
<1>5. Within(merged[k], files[i]) <=> segment(c) = segment(second(i))
  BY <1>1, <1>2, <1>4
<1> QED BY <1>3, <1>4, <1>5 DEF c

\* What Verify compares, against what it is for.
LEMMA VerdictIsWellMerged ==
  ASSUME TypeOK, FilesInv, Aligned, LaidUpTo(Len(files)), merged \in Seq(MergedRows)
  PROVE  WellMerged <=>
           /\ CountsAgree
           /\ \A k \in 1..Len(merged) : \A j \in 1..k - 1 : Precedes(merged[j], merged[k])
<1> DEFINE seg(k) == segment(merged[k].capture)
           in(k, i) == Within(merged[k], files[i])
           covered == \A k \in DOMAIN merged : \E i \in DOMAIN files : in(k, i)
<1>1. DOMAIN merged = 1..Len(merged) /\ Len(merged) \in Nat
  OBVIOUS
<1>2. \A k \in DOMAIN merged, i \in DOMAIN files :
        /\ seg(k) \in Int /\ segment(second(i)) \in Int
        /\ in(k, i) <=> seg(k) = segment(second(i))
        /\ merged[k].capture < Unix(files[i].start) + files[i].seconds
             <=> seg(k) <= segment(second(i))
  BY WithinIsSegment
<1>3. /\ DOMAIN want = {segment(second(i)) : i \in DOMAIN files}
      /\ \A i \in DOMAIN files : want[segment(second(i))] = counts[i]
  BY WantedRows
<1>4. covered <=> \A k \in DOMAIN merged : seg(k) \in DOMAIN want
  <2> HIDE DEF seg, in
  <2> QED BY <1>2, <1>3
<1>5. (\A i \in DOMAIN files : Cardinality({k \in DOMAIN merged : in(k, i)}) = counts[i])
        <=> \A x \in DOMAIN want : inSegment(x) = want[x]
  <2>1. ASSUME NEW i \in DOMAIN files
        PROVE  Cardinality({k \in DOMAIN merged : in(k, i)}) = inSegment(segment(second(i)))
    <3>1. {k \in DOMAIN merged : in(k, i)}
            = {k \in 1..Len(merged) : seg(k) = segment(second(i))}
      <4> HIDE DEF seg, in
      <4> QED BY <1>1, <1>2
    <3> QED BY <3>1 DEF inSegment
  <2> HIDE DEF in
  <2> QED BY <1>3, <2>1
<1>6. ASSUME covered, NEW k \in DOMAIN merged, NEW j \in 1..k - 1
      PROVE  InOrder(merged[j], merged[k]) <=> Precedes(merged[j], merged[k])
  <2>1. j \in DOMAIN merged
    BY <1>1
  <2>2. PICK i \in DOMAIN files : in(k, i)
    BY <1>6
  <2>3. seg(k) = segment(second(i)) /\ seg(j) \in Int /\ seg(k) \in Int
    BY <1>2, <2>1, <2>2
  <2>4. (\A f \in {files[l] : l \in DOMAIN files} :
           Within(merged[k], f) => merged[j].capture < Unix(f.start) + f.seconds)
          <=> seg(j) <= seg(k)
    <3>1. \A l \in DOMAIN files :
            (in(k, l) => merged[j].capture < Unix(files[l].start) + files[l].seconds)
              <=> (seg(k) = segment(second(l)) => seg(j) <= segment(second(l)))
      BY <1>2, <2>1
    <3> QED BY <2>2, <2>3, <3>1
  <2>5. (\E l \in DOMAIN files : in(j, l) /\ in(k, l)) <=> seg(j) = seg(k)
    <3> HIDE DEF seg, in
    <3> QED BY <1>2, <2>1, <2>2, <2>3
  <2>6. InOrder(merged[j], merged[k])
          <=> seg(j) <= seg(k) /\ (seg(j) = seg(k) => NotAfter(merged[j], merged[k]))
    BY <2>4, <2>5 DEF InOrder
  <2>7. Precedes(merged[j], merged[k])
          <=> seg(j) < seg(k) \/ (seg(j) = seg(k) /\ NotAfter(merged[j], merged[k]))
    BY DEF Precedes
  <2> HIDE DEF seg
  <2> QED BY <2>3, <2>6, <2>7
<1>7. WellMerged <=>
        /\ covered
        /\ \A i \in DOMAIN files : Cardinality({k \in DOMAIN merged : in(k, i)}) = counts[i]
        /\ \A k \in DOMAIN merged : \A j \in 1..k - 1 : InOrder(merged[j], merged[k])
  BY DEF WellMerged
<1>8. CountsAgree <=> /\ \A k \in DOMAIN merged : seg(k) \in DOMAIN want
                      /\ \A x \in DOMAIN want : inSegment(x) = want[x]
  BY DEF CountsAgree
<1> HIDE DEF covered, seg, in
<1> QED BY <1>1, <1>4, <1>5, <1>6, <1>7, <1>8

(***************************************************************************)
(* --verify accepts a merged file exactly when any two of its rows are in  *)
(* the order of the files and sorted within one, and every interval has    *)
(* its rows - for every number of files, every length of the intervals     *)
(* and every damage to the file, though each row is compared with the one  *)
(* before it only and the intervals are told apart by integer division.    *)
(***************************************************************************)
THEOREM VerdictAlwaysExact == MergeSpec => []VerifyIsExact
<1>1. WindowInv /\ MergeInv => VerifyIsExact
  <2> SUFFICES ASSUME WindowInv, MergeInv, stage \in {"verified", "refuted"}
               PROVE  stage = "verified" <=> WellMerged
    BY DEF VerifyIsExact
  <2>1. TypeOK /\ FilesInv /\ Aligned /\ merged \in Seq(MergedRows)
    BY DEF WindowInv, MergeInv
  <2>2. LaidUpTo(Len(files))
    BY DEF MergeInv, LaidOut
  <2>3. /\ ScannedUpTo(at - 1)
        /\ at = Len(merged) + 1
        /\ stage = "verified" <=> back = 0 /\ unsorted = 0 /\ CountsAgree
    BY DEF MergeInv
  <2>4. at - 1 = Len(merged)
    BY <2>1, <2>3
  <2>5. back = 0 /\ unsorted = 0
          <=> \A k \in 1..Len(merged) : \A j \in 1..k - 1 : Precedes(merged[j], merged[k])
    BY <2>3, <2>4 DEF ScannedUpTo
  <2> QED BY <2>1, <2>2, <2>3, <2>5, VerdictIsWellMerged
<1> QED BY <1>1, MergeInvariance, PTL
-----------------------------------------------------------------------------
Kept == {i \in DOMAIN dir : overlaps(dir[i])}

\* The rows that pass, file by file, all of them in one, and how many the
\* first n files have.
Chosen == [i \in 1..Len(files) |-> Passing(files[i])]
AllRows == FlattenSeq(Chosen)
Behind(n) == Len(Joined(Chosen, n))

\* The position of the last row asked for.
Stop == Smaller(IF asked.limit < 0 THEN Len(AllRows) ELSE asked.offset + asked.limit,
                Len(AllRows))

From(r) == r.from + r.offset

OrderInv ==
  step \notin {"open", "failed"} =>
    \E p \in Sorted(Kept) : files = [i \in DOMAIN p |-> dir[p[i]]]

CountInv ==
  /\ step = "open" => counts = <<>>
  /\ Len(counts) <= Len(files)
  /\ \A i \in 1..Len(counts) : counts[i] = Count(files[i])
  /\ step \in {"window", "read", "done"} => Len(counts) = Len(files)

PartsInv ==
  /\ step = "window" => next <= Len(files) + 1 /\ passed = Behind(next - 1)
  /\ \A i \in 1..Len(reads) :
       /\ reads[i].file \in 1..Len(files)
       /\ reads[i].file <= Len(counts)
       /\ reads[i].from = Behind(reads[i].file - 1)
       /\ reads[i].offset + reads[i].limit <= counts[reads[i].file]

ReadInv ==
  /\ step \in {"open", "plan", "window"} => out = <<>>
  /\ step = "read" =>
       /\ \A i \in 1..Len(reads) :
            From(reads[i]) + reads[i].limit
              = IF i = Len(reads) THEN Stop ELSE From(reads[i + 1])
       /\ reads = <<>> => out = SubSeq(AllRows, asked.offset + 1, Stop)
       /\ reads # <<>> =>
            /\ asked.offset <= From(reads[1])
            /\ out = SubSeq(AllRows, asked.offset + 1, From(reads[1]))
  /\ step = "done" => out = SubSeq(AllRows, asked.offset + 1, Stop)

RowsInv ==
  /\ WindowInv
  /\ filter \in Filters
  /\ OrderInv /\ CountInv /\ PartsInv /\ ReadInv

\* The rows that pass are as many as count(*) says.
LEMMA PassingType ==
  ASSUME NEW f \in Files
  PROVE  Passing(f) \in Seq(Rows) /\ Len(Passing(f)) = Count(f)
<1> DEFINE ss == [k \in DOMAIN f.rows |-> IF where(f, f.rows[k]) THEN <<f.rows[k]>> ELSE <<>>]
           n == Len(f.rows)
<1>1. f.rows \in Seq(Rows)
  BY DEF Files
<1>2. n \in Nat /\ DOMAIN f.rows = 1..n /\ \A k \in 1..n : f.rows[k] \in Rows
  BY <1>1, LenProperties, ElementOfSeq
<1>3. \A k \in 1..n : ss[k] \in Seq(Rows)
  BY <1>2
<1>4. ss \in Seq(Seq(Rows)) /\ Len(ss) = n
  <2>1. ss = [k \in 1..n |-> ss[k]]
    BY <1>2
  <2>2. ss \in Seq(Seq(Rows))
    BY <1>2, <1>3, <2>1, IsASeq
  <2>3. DOMAIN ss = 1..n
    BY <1>2
  <2> QED BY <1>2, <2>2, <2>3, LenProperties
<1>5. \A k \in 1..n : /\ ss[k] = <<>> \/ Len(ss[k]) = 1
                      /\ ss[k] # <<>> <=> where(f, f.rows[k])
  BY <1>2
<1>6. Passing(f) = FlattenSeq(ss)
  BY DEF Passing
<1> HIDE DEF ss
<1>7. Len(ss) \in 0..Len(ss)
  BY <1>2, <1>4
<1>8. FlattenSeq(ss) \in Seq(Rows)
  BY <1>4, <1>7, JoinedType
<1>9. Len(FlattenSeq(ss)) = Cardinality({k \in 1..Len(ss) : ss[k] # <<>>})
  BY <1>4, <1>5, FlattenCount
<1>10. {k \in 1..Len(ss) : ss[k] # <<>>} = {k \in 1..n : where(f, f.rows[k])}
  BY <1>4, <1>5
<1> QED BY <1>6, <1>8, <1>9, <1>10 DEF Count

\* The rows of the files, one file behind the other.
LEMMA ChosenType ==
  ASSUME TypeOK
  PROVE  /\ Chosen \in Seq(Seq(Rows)) /\ Len(Chosen) = Len(files)
         /\ Len(files) \in Nat
         /\ AllRows \in Seq(Rows) /\ Len(AllRows) \in Nat
         /\ Behind(0) = 0 /\ Behind(Len(files)) = Len(AllRows)
         /\ \A n \in 0..Len(files) : Behind(n) \in Nat /\ Behind(n) <= Len(AllRows)
         /\ \A n \in 1..Len(files) :
              /\ Chosen[n] = Passing(files[n])
              /\ Count(files[n]) \in Nat
              /\ Len(Chosen[n]) = Count(files[n])
              /\ Behind(n) = Behind(n - 1) + Count(files[n])
<1>0. Len(files) \in Nat /\ \A i \in 1..Len(files) : files[i] \in Files
  BY LenProperties, ElementOfSeq DEF TypeOK
<1>1. \A i \in 1..Len(files) : /\ Chosen[i] = Passing(files[i])
                               /\ Chosen[i] \in Seq(Rows)
                               /\ Count(files[i]) \in Nat
                               /\ Len(Chosen[i]) = Count(files[i])
  BY <1>0, PassingType, CountType DEF Chosen
<1>2. Chosen \in Seq(Seq(Rows)) /\ Len(Chosen) = Len(files)
  <2>1. Chosen = [i \in 1..Len(files) |-> Chosen[i]] /\ DOMAIN Chosen = 1..Len(files)
    BY DEF Chosen
  <2>2. Chosen \in Seq(Seq(Rows))
    BY <1>0, <1>1, <2>1, IsASeq
  <2> QED BY <1>0, <2>1, <2>2, LenProperties
<1>3. \A n \in 0..Len(files) : Joined(Chosen, n) \in Seq(Rows)
  BY <1>2, JoinedType
<1>4. Joined(Chosen, Len(files)) = AllRows
  <2>1. Len(files) \in 0..Len(Chosen)
    BY <1>0, <1>2
  <2> QED BY <1>2, <2>1, JoinedType DEF AllRows
<1>5. AllRows \in Seq(Rows)
  <2>1. Len(files) \in 0..Len(files)
    BY <1>0
  <2> QED BY <1>3, <1>4, <2>1
<1>6. Behind(0) = 0
  BY <1>2, JoinedStep, EmptySeq DEF Behind
<1>7. ASSUME NEW n \in 0..Len(files)
      PROVE  Behind(n) \in Nat /\ Behind(n) <= Len(AllRows)
  <2>1. Len(files) \in n..Len(Chosen) /\ n \in 0..Len(Chosen)
    BY <1>0, <1>2
  <2>2. Len(Joined(Chosen, n)) <= Len(Joined(Chosen, Len(files)))
    BY <1>2, <2>1, JoinedGrows
  <2> QED BY <1>3, <1>4, <2>2, LenProperties DEF Behind
<1>8. ASSUME NEW n \in 1..Len(files) PROVE Behind(n) = Behind(n - 1) + Count(files[n])
  <2>1. n - 1 \in Nat /\ (n - 1) + 1 <= Len(Chosen) /\ (n - 1) + 1 = n
    BY <1>0, <1>2
  <2>2. Len(Joined(Chosen, (n - 1) + 1)) = Len(Joined(Chosen, n - 1)) + Len(Chosen[(n - 1) + 1])
    BY <1>2, <2>1, JoinedNext
  <2> QED BY <1>1, <2>1, <2>2 DEF Behind
<1>9. Len(AllRows) \in Nat
  BY <1>5, LenProperties
<1>10. Behind(Len(files)) = Len(AllRows)
  BY <1>4 DEF Behind
<1> QED BY <1>0, <1>1, <1>2, <1>5, <1>6, <1>7, <1>8, <1>9, <1>10

\* Nothing of this changes after Open.
LEMMA ChosenStays ==
  ASSUME UNCHANGED <<files, filter, asked>>
  PROVE  /\ UNCHANGED <<Chosen, AllRows, Stop>>
         /\ \A n : Behind(n)' = Behind(n)
         /\ \A f : Count(f)' = Count(f)
<1>1. \A f, r : where(f, r)' <=> where(f, r)
  BY DEF where
<1>2. \A f : Passing(f)' = Passing(f) /\ Count(f)' = Count(f)
  BY <1>1 DEF Passing, Count
<1>3. Chosen' = Chosen
  BY <1>2 DEF Chosen
<1> QED BY <1>2, <1>3 DEF AllRows, Stop, Behind, Smaller

\* What stays when the files, the filter and the counts do.
LEMMA PlanStays ==
  ASSUME CountInv, UNCHANGED <<flags, files, counts>>,
         step' = step \/ (step = "window" /\ step' = "read") \/ (step = "read" /\ step' = "done")
  PROVE  CountInv'
<1>1. UNCHANGED <<files, filter, asked, counts>>
  BY DEF flags
<1>2. \A f : Count(f)' = Count(f)
  BY <1>1, ChosenStays
<1>3. \A i \in 1..Len(counts) : (counts[i] = Count(files[i]))'
  BY <1>1, <1>2 DEF CountInv
<1> QED BY <1>1, <1>3 DEF CountInv

\* The files stay in their order.
LEMMA OrderStays ==
  ASSUME OrderInv, UNCHANGED <<flags, files>>, step \notin {"open", "failed"}
  PROVE  OrderInv'
<1>1. UNCHANGED <<dir, filter, files>>
  BY DEF flags
<1>2. Kept' = Kept
  BY <1>1 DEF Kept, overlaps
<1>3. \A K : Sorted(K)' = Sorted(K)
  BY <1>1 DEF Sorted
<1>4. PICK p \in Sorted(Kept) : files = [i \in DOMAIN p |-> dir[p[i]]]
  BY DEF OrderInv
<1>5. p \in Sorted(Kept)'
  BY <1>2, <1>3, <1>4
<1>6. files' = [i \in DOMAIN p |-> dir'[p[i]]]
  BY <1>1, <1>4
<1> QED BY <1>5, <1>6 DEF OrderInv

\* Open sorts the files it keeps, and nothing is counted yet.
LEMMA OpenRows ==
  ASSUME RowsInv, Open
  PROVE  OrderInv' /\ CountInv' /\ PartsInv' /\ ReadInv'
<1>1. step = "open" /\ step' = "plan" /\ UNCHANGED <<dir, filter, asked, counts, reads, out>>
  BY DEF Open, flags
<1>2. counts = <<>> /\ reads = <<>> /\ out = <<>>
  BY <1>1 DEF RowsInv, CountInv, WindowInv, ReadInv
<1>3. PICK p \in Sorted(Kept) : files' = [i \in DOMAIN p |-> dir[p[i]]]
  BY DEF Open, Kept
<1>4. OrderInv'
  <2>1. Kept' = Kept
    BY <1>1 DEF Kept, overlaps
  <2>2. \A K : Sorted(K)' = Sorted(K)
    BY <1>1 DEF Sorted
  <2>3. p \in Sorted(Kept)'
    BY <1>3, <2>1, <2>2
  <2>4. files' = [i \in DOMAIN p |-> dir'[p[i]]]
    BY <1>1, <1>3
  <2> QED BY <2>3, <2>4 DEF OrderInv
<1>5. Len(counts') = 0 /\ Len(reads') = 0 /\ Len(files') >= 0
  <2>1. Cardinality(Kept) \in Nat
    <3>1. dir \in Seq(Files)
      BY DirsAssumption DEF RowsInv, WindowInv, TypeOK
    <3>2. Len(dir) \in Nat /\ DOMAIN dir = 1..Len(dir)
      BY <3>1, LenProperties
    <3>3. IsFiniteSet(DOMAIN dir)
      BY <3>2, FS_Interval
    <3>4. Kept \in SUBSET DOMAIN dir
      BY DEF Kept
    <3> QED BY <3>3, <3>4, FS_Subset, FS_CardinalityType
  <2>2. DOMAIN p = 1..Cardinality(Kept)
    BY <1>3 DEF Sorted
  <2>3. Len(files') \in Nat
    BY <1>3, <2>1, <2>2
  <2> QED BY <1>1, <1>2, <2>3, EmptySeq
<1>6. CountInv'
  BY <1>1, <1>5 DEF CountInv
<1>7. PartsInv'
  BY <1>1, <1>5 DEF PartsInv
<1>8. ReadInv'
  BY <1>1, <1>2 DEF ReadInv
<1> QED BY <1>4, <1>6, <1>7, <1>8

\* Plan counts the next file.
LEMMA PlanRows ==
  ASSUME RowsInv, PlanFile \/ PlanFails \/ Planned \/ OpenFails
  PROVE  OrderInv' /\ CountInv' /\ PartsInv' /\ ReadInv'
<1>1. /\ step \in {"open", "plan"} /\ reads = <<>> /\ out = <<>> /\ next = 1 /\ passed = 0
      /\ UNCHANGED <<flags, files, next, passed, reads, out>>
  BY DEF RowsInv, WindowInv, ReadInv, PlanFile, PlanFails, Planned, OpenFails
<1>2. UNCHANGED <<dir, filter, asked>>
  BY <1>1 DEF flags
<1>3. /\ UNCHANGED <<Chosen, AllRows, Stop>>
      /\ \A n : Behind(n)' = Behind(n)
      /\ \A f : Count(f)' = Count(f)
  BY <1>1, <1>2, ChosenStays
<1>4. TypeOK /\ CountInv /\ OrderInv
  BY DEF RowsInv, WindowInv
<1>5. OrderInv'
  <2>1. CASE step' = "failed"
    BY <2>1 DEF OrderInv
  <2>2. CASE step' # "failed"
    <3>1. step = "plan"
      BY <1>1, <2>2 DEF PlanFile, PlanFails, Planned, OpenFails
    <3> QED BY <1>1, <1>4, <3>1, OrderStays
  <2> QED BY <2>1, <2>2
<1>6. CountInv'
  <2>1. CASE PlanFile
    <3>1. Len(counts) < Len(files) /\ counts' = Append(counts, Count(files[Len(counts) + 1]))
          /\ step' = step /\ step = "plan"
      BY <2>1 DEF PlanFile
    <3>2. counts \in Seq(Nat) /\ Len(counts) \in Nat /\ files \in Seq(Files) /\ Len(files) \in Nat
      BY <1>4, LenProperties DEF TypeOK
    <3>3. files[Len(counts) + 1] \in Files
      BY <3>1, <3>2, ElementOfSeq
    <3>4. Count(files[Len(counts) + 1]) \in Nat
      BY <3>3, CountType
    <3>5. /\ Len(counts') = Len(counts) + 1
          /\ \A i \in 1..Len(counts) : counts'[i] = counts[i]
          /\ counts'[Len(counts) + 1] = Count(files[Len(counts) + 1])
      BY <3>1, <3>2, <3>4, AppendProperties
    <3>6. ASSUME NEW i \in 1..Len(counts') PROVE (counts[i] = Count(files[i]))'
      <4>1. i \in 1..Len(counts) \/ i = Len(counts) + 1
        BY <3>2, <3>5
      <4>2. counts'[i] = Count(files[i])
        BY <1>4, <3>5, <4>1 DEF CountInv
      <4> QED BY <1>1, <1>3, <4>2
    <3>7. Len(counts') <= Len(files')
      BY <1>1, <3>1, <3>2, <3>5
    <3> QED BY <3>1, <3>6, <3>7 DEF CountInv
  <2>2. CASE PlanFails \/ Planned \/ OpenFails
    <3>1. UNCHANGED <<counts, files>>
      BY <2>2 DEF PlanFails, Planned, OpenFails
    <3>2. \A i \in 1..Len(counts) : (counts[i] = Count(files[i]))'
      BY <1>3, <1>4, <3>1 DEF CountInv
    <3>3. step' \in {"failed", "window"} /\ (step' = "window" => Len(counts) = Len(files))
      BY <2>2 DEF PlanFails, Planned, OpenFails
    <3> QED BY <1>4, <3>1, <3>2, <3>3 DEF CountInv
  <2> QED BY <2>1, <2>2
<1>7. PartsInv'
  <2>1. Len(reads') = 0 /\ next' = 1 /\ passed' = 0
    BY <1>1, EmptySeq
  <2>2. Behind(0)' = 0 /\ Len(files') \in Nat
    BY <1>1, <1>3, <1>4, ChosenType
  <2>3. step' = "window" => Len(files') + 1 >= 1
    BY <2>2
  <2>4. next' - 1 = 0
    BY <2>1
  <2> QED BY <2>1, <2>2, <2>3, <2>4 DEF PartsInv, Behind
<1>8. ReadInv'
  <2>1. step' \in {"plan", "window", "failed"} /\ out' = <<>>
    BY <1>1 DEF PlanFile, PlanFails, Planned, OpenFails
  <2> QED BY <2>1 DEF ReadInv
<1> QED BY <1>5, <1>6, <1>7, <1>8

\* What holds of reads as long as Window goes on, and when it is done.
LEMMA WindowRows ==
  ASSUME RowsInv, SkipFile \/ TakeFile
  PROVE  OrderInv' /\ CountInv' /\ PartsInv' /\ ReadInv'
<1>1. /\ step = "window" /\ step' = step /\ next <= Len(files)
      /\ UNCHANGED <<flags, files, counts, out>>
      /\ passed' = passed + counts[next] /\ next' = next + 1
  BY DEF SkipFile, TakeFile
<1>2. UNCHANGED <<dir, filter, asked, files>>
  BY <1>1 DEF flags
<1>3. /\ UNCHANGED <<Chosen, AllRows, Stop>>
      /\ \A n : Behind(n)' = Behind(n)
      /\ \A f : Count(f)' = Count(f)
  BY <1>2, ChosenStays
<1>4. TypeOK /\ CountInv /\ OrderInv /\ PartsInv
  BY DEF RowsInv, WindowInv
<1>5. OrderInv' /\ CountInv'
  BY <1>1, <1>4, OrderStays, PlanStays
<1>6. ReadInv'
  BY <1>1 DEF ReadInv, RowsInv
<1>7. /\ Len(files) \in Nat /\ next \in 1..Len(files) /\ next - 1 \in 0..Len(files)
      /\ Len(counts) = Len(files) /\ counts[next] = Count(files[next])
      /\ Behind(next) = Behind(next - 1) + Count(files[next])
      /\ passed = Behind(next - 1)
  <2>1. Len(files) \in Nat /\ next \in Nat \ {0}
    BY <1>4, LenProperties DEF TypeOK
  <2>2. next \in 1..Len(files) /\ next - 1 \in 0..Len(files)
    BY <1>1, <2>1
  <2>3. Behind(next) = Behind(next - 1) + Count(files[next])
    BY <1>4, <2>2, ChosenType
  <2>4. Len(counts) = Len(files) /\ counts[next] = Count(files[next])
    BY <1>1, <1>4, <2>2 DEF CountInv
  <2>5. passed = Behind(next - 1)
    BY <1>1, <1>4 DEF PartsInv
  <2> QED BY <2>1, <2>2, <2>3, <2>4, <2>5
<1>8. (next <= Len(files) + 1 /\ passed = Behind(next - 1))'
  <2>1. next' - 1 = next /\ next' <= Len(files) + 1
    BY <1>1, <1>7
  <2>2. passed' = Len(Joined(Chosen, next))
    BY <1>1, <1>7 DEF Behind
  <2>3. passed' = Len(Joined(Chosen', next' - 1))
    BY <1>3, <2>1, <2>2
  <2> QED BY <1>2, <2>1, <2>3 DEF Behind
<1> DEFINE ReadPart(r) == /\ r.file \in 1..Len(files)
                      /\ r.file <= Len(counts)
                      /\ r.from = Behind(r.file - 1)
                      /\ r.offset + r.limit <= counts[r.file]
<1>9. \A i \in 1..Len(reads) : ReadPart(reads[i])
  BY <1>4 DEF PartsInv
<1>10. \A i \in 1..Len(reads') : ReadPart(reads'[i])
  <2>1. CASE SkipFile
    <3>1. reads' = reads
      BY <2>1 DEF SkipFile
    <3> QED BY <1>9, <3>1
  <2>2. CASE TakeFile
    <3> DEFINE r == [file |-> next, offset |-> offset, limit |-> Taken, from |-> passed]
    <3>1. reads' = Append(reads, r) /\ offset < counts[next] /\ limit # 0
      BY <2>2 DEF TakeFile
    <3>2. /\ offset \in Nat /\ limit \in Int /\ counts[next] \in Nat /\ passed \in Nat
          /\ reads \in Seq(ReadRecords) /\ next \in Nat
      BY <1>1, <1>4, <1>7 DEF TypeOK, ReadRecords
    <3>3. Taken \in Nat /\ offset + Taken <= counts[next]
      BY <3>1, <3>2 DEF Taken
    <3>4. r \in ReadRecords
      BY <3>2, <3>3 DEF ReadRecords
    <3>5. ReadPart(r)
      BY <1>7, <3>3
    <3> HIDE DEF r, ReadPart
    <3>6. /\ Len(reads) \in Nat /\ Len(reads') = Len(reads) + 1
          /\ \A i \in 1..Len(reads) : reads'[i] = reads[i]
          /\ reads'[Len(reads) + 1] = r
      BY <3>1, <3>2, <3>4, AppendProperties, LenProperties
    <3> SUFFICES ASSUME NEW i \in 1..Len(reads') PROVE ReadPart(reads'[i])
      OBVIOUS
    <3>7. i \in 1..Len(reads) \/ i = Len(reads) + 1
      BY <3>6
    <3> QED BY <1>9, <3>5, <3>6, <3>7
  <2> QED BY <2>1, <2>2
<1>11. \A i \in 1..Len(reads') :
         /\ reads'[i].file \in 1..Len(files')
         /\ reads'[i].file <= Len(counts')
         /\ reads'[i].from = Len(Joined(Chosen', reads'[i].file - 1))
         /\ reads'[i].offset + reads'[i].limit <= counts'[reads'[i].file]
  BY <1>1, <1>2, <1>3, <1>10 DEF Behind
<1>12. PartsInv'
  BY <1>8, <1>11 DEF PartsInv, Behind
<1> QED BY <1>5, <1>6, <1>12

\* When Window is done, what its reads end with is the last row asked for.
LEMMA WindowStops ==
  ASSUME RowsInv, WindowEnds
  PROVE  /\ reads = <<>> => Stop <= asked.offset
         /\ reads # <<>> => Upto = Stop
         /\ Stop \in Int
<1>1. step = "window" /\ (next > Len(files) \/ limit = 0)
  BY DEF WindowEnds
<1>2. TypeOK /\ LoopInv /\ PartsInv
  BY <1>1 DEF RowsInv, WindowInv
<1>3. /\ asked.offset \in Nat /\ asked.limit \in Int /\ limit \in Int
      /\ passed \in Nat /\ next \in Nat \ {0} /\ Len(files) \in Nat
  BY <1>2, LenProperties DEF TypeOK
<1> DEFINE N == Len(AllRows)
<1>4. /\ N \in Nat /\ Behind(Len(files)) = N
      /\ \A n \in 0..Len(files) : Behind(n) <= N
  BY <1>2, ChosenType
<1>5. next <= Len(files) + 1 /\ passed = Behind(next - 1)
  BY <1>1, <1>2 DEF PartsInv
<1>6. next - 1 \in 0..Len(files)
  BY <1>3, <1>5
<1>7. passed <= N
  BY <1>4, <1>5, <1>6
<1>8. next > Len(files) => passed = N
  <2> SUFFICES ASSUME next > Len(files) PROVE passed = N
    OBVIOUS
  <2>1. next - 1 = Len(files)
    BY <1>3, <1>5
  <2> QED BY <1>4, <1>5, <2>1
<1>9. Stop = IF asked.limit < 0 THEN N
             ELSE IF asked.offset + asked.limit < N THEN asked.offset + asked.limit ELSE N
  BY <1>3, <1>4 DEF Stop, Smaller
<1> HIDE DEF N
<1>10. Upto = IF asked.limit < 0 \/ passed < asked.offset + asked.limit
              THEN passed ELSE asked.offset + asked.limit
  BY DEF Upto
<1>11. CASE next > Len(files)
  <2>1. passed = N
    BY <1>8, <1>11
  <2>2. Upto = Stop
    BY <1>3, <1>4, <1>9, <1>10, <2>1
  <2>3. reads = <<>> <=> Upto <= asked.offset
    BY <1>2 DEF LoopInv
  <2> QED BY <1>3, <1>4, <1>9, <2>2, <2>3
<1>12. CASE limit = 0
  <2>1. asked.limit >= 0
    BY <1>2, <1>3, <1>12 DEF LoopInv
  <2>2. asked.limit = IF Upto > asked.offset THEN Upto - asked.offset ELSE 0
    BY <1>2, <1>3, <1>10, <1>12, <2>1 DEF LoopInv
  <2>3. reads = <<>> <=> Upto <= asked.offset
    BY <1>2 DEF LoopInv
  <2>4. Upto \in Int /\ Upto <= passed
    BY <1>3, <1>10, <2>1
  <2> QED BY <1>3, <1>4, <1>7, <1>9, <2>1, <2>2, <2>3, <2>4
<1> QED BY <1>1, <1>11, <1>12

\* When Window ends, its reads follow each other up to the last row asked for.
LEMMA WindowEndsRows ==
  ASSUME RowsInv, WindowEnds
  PROVE  OrderInv' /\ CountInv' /\ PartsInv' /\ ReadInv'
<1>1. /\ step = "window" /\ step' = "read"
      /\ UNCHANGED <<flags, files, counts, offset, limit, next, passed, reads, out>>
  BY DEF WindowEnds
<1>2. UNCHANGED <<dir, filter, asked, files>>
  BY <1>1 DEF flags
<1>3. UNCHANGED <<Chosen, AllRows, Stop>>
  BY <1>2, ChosenStays
<1>4. TypeOK /\ CountInv /\ OrderInv /\ PartsInv /\ ReadsInv /\ ReadInv
  BY <1>1 DEF RowsInv, WindowInv
<1>5. OrderInv' /\ CountInv'
  BY <1>1, <1>4, OrderStays, PlanStays
<1>6. PartsInv'
  BY <1>1, <1>3, <1>4 DEF PartsInv, Behind
<1>7. /\ reads = <<>> => Stop <= asked.offset
      /\ reads # <<>> => Upto = Stop
      /\ Stop \in Int
  BY WindowStops
<1>8. asked.offset \in Nat /\ reads \in Seq(ReadRecords) /\ Len(reads) \in Nat
      /\ out = <<>>
  BY <1>1, <1>4, LenProperties DEF TypeOK, ReadRecords, ReadInv
<1>9. ASSUME NEW i \in 1..Len(reads)
      PROVE  From(reads[i]) + reads[i].limit
               = IF i = Len(reads) THEN Stop ELSE From(reads[i + 1])
  <2>1. CASE i = Len(reads)
    <3>1. reads # <<>>
      BY <1>8, <2>1
    <3> QED BY <1>4, <1>7, <2>1, <3>1 DEF ReadsInv, From
  <2>2. CASE i # Len(reads)
    <3>1. i + 1 \in 1..Len(reads) /\ i + 1 # 1 /\ (i + 1) - 1 = i
      BY <1>8, <2>2
    <3>2. reads[i + 1].from + reads[i + 1].offset
            = reads[i].from + reads[i].offset + reads[i].limit
      BY <1>4, <3>1 DEF ReadsInv
    <3> QED BY <2>2, <3>2 DEF From
  <2> QED BY <2>1, <2>2
<1>10. reads = <<>> => out = SubSeq(AllRows, asked.offset + 1, Stop)
  <2> SUFFICES ASSUME reads = <<>> PROVE out = SubSeq(AllRows, asked.offset + 1, Stop)
    OBVIOUS
  <2>1. Stop < asked.offset + 1 /\ asked.offset + 1 \in Int
    BY <1>7, <1>8
  <2> QED BY <1>7, <1>8, <2>1, SubSeqEmpty
<1>11. reads # <<>> => /\ asked.offset <= From(reads[1])
                       /\ out = SubSeq(AllRows, asked.offset + 1, From(reads[1]))
  <2> SUFFICES ASSUME reads # <<>>
               PROVE  /\ asked.offset <= From(reads[1])
                      /\ out = SubSeq(AllRows, asked.offset + 1, From(reads[1]))
    OBVIOUS
  <2>1. 1 \in 1..Len(reads)
    BY <1>8, EmptySeq
  <2>2. From(reads[1]) = asked.offset
    BY <1>4, <2>1 DEF ReadsInv, From
  <2>3. asked.offset < asked.offset + 1 /\ asked.offset + 1 \in Int
    BY <1>8
  <2>4. SubSeq(AllRows, asked.offset + 1, asked.offset) = <<>>
    BY <1>8, <2>3, SubSeqEmpty
  <2> QED BY <1>8, <2>2, <2>4
<1>12. ReadInv'
  BY <1>1, <1>2, <1>3, <1>9, <1>10, <1>11 DEF ReadInv, From
<1> QED BY <1>5, <1>6, <1>12

\* The rows of a read are a part of all rows.
LEMMA ReadRows ==
  ASSUME RowsInv, step = "read", NEW i \in 1..Len(reads)
  PROVE  LET r == reads[i]
         IN  /\ From(r) \in Nat /\ r.limit \in Nat
             /\ From(r) + r.limit <= Len(AllRows)
             /\ SubSeq(Passing(files[r.file]), r.offset + 1, r.offset + r.limit)
                  = SubSeq(AllRows, From(r) + 1, From(r) + r.limit)
<1> DEFINE r == reads[i]
           n == r.file - 1
<1>1. TypeOK /\ PartsInv /\ CountInv
  BY DEF RowsInv, WindowInv
<1>2. reads \in Seq(ReadRecords)
  BY <1>1 DEF TypeOK, ReadRecords
<1>3. r \in ReadRecords
  BY <1>2, ElementOfSeq
<1>4. r.from \in Nat /\ r.offset \in Nat /\ r.limit \in Nat
  BY <1>3 DEF ReadRecords
<1>5. /\ r.file \in 1..Len(files) /\ r.from = Behind(n)
      /\ r.offset + r.limit <= counts[r.file] /\ r.file <= Len(counts)
  BY <1>1 DEF PartsInv
<1>6. Len(files) \in Nat /\ Len(counts) = Len(files)
  BY <1>1, LenProperties DEF TypeOK, CountInv
<1> HIDE DEF r
<1>7. n \in Nat /\ n + 1 = r.file /\ n + 1 \in 1..Len(files) /\ n + 1 <= Len(files)
  BY <1>5, <1>6
<1>8. /\ Chosen \in Seq(Seq(Rows)) /\ Len(Chosen) = Len(files)
      /\ Chosen[n + 1] = Passing(files[n + 1])
      /\ Len(Chosen[n + 1]) = Count(files[n + 1])
      /\ Behind(n + 1) = Behind(n) + Count(files[n + 1])
      /\ Behind(n + 1) <= Len(AllRows)
      /\ Len(AllRows) \in Nat
      /\ Count(files[n + 1]) \in Nat
  <2>1. (n + 1) - 1 = n /\ n + 1 \in 0..Len(files)
    BY <1>6, <1>7
  <2> QED BY <1>1, <1>7, <2>1, ChosenType
<1>9. counts[r.file] = Count(files[n + 1])
  BY <1>1, <1>5, <1>6, <1>7 DEF CountInv
<1> HIDE DEF n
<1>10. r.offset + r.limit <= Len(Chosen[n + 1])
  BY <1>5, <1>8, <1>9
<1>12. From(r) = Len(Joined(Chosen, n)) + r.offset
  BY <1>5 DEF From, Behind
<1>11. SubSeq(Chosen[n + 1], r.offset + 1, r.offset + r.limit)
         = SubSeq(FlattenSeq(Chosen), From(r) + 1, From(r) + r.limit)
  <2> DEFINE a == r.offset
             b == r.limit
             c == From(r)
             ss == Chosen
  <2>1. /\ a \in Nat /\ b \in Nat /\ n \in Nat /\ ss \in Seq(Seq(Rows))
        /\ n + 1 <= Len(ss) /\ a + b <= Len(ss[n + 1])
        /\ c = Len(Joined(ss, n)) + a
    BY <1>4, <1>7, <1>8, <1>10, <1>12
  <2> HIDE DEF a, b, c, ss
  <2>2. IsPart(Rows, ss, n, a, b, c)
    BY ONLY <2>1 DEF IsPart
  <2>3. Part(ss[n + 1], a + 1, a + b) = Part(FlattenSeq(ss), c + 1, c + b)
    BY ONLY <2>2, FlattenSegment
  <2> QED BY <2>3 DEF a, b, c, ss, Part
<1>13. From(r) \in Nat /\ From(r) + r.limit <= Len(AllRows)
  <2>1. From(r) = Behind(n) + r.offset /\ Behind(n) \in Nat
    BY <1>4, <1>5 DEF From
  <2> DEFINE x == Behind(n)
             y == Behind(n + 1)
             c == Count(files[n + 1])
  <2>2. /\ x \in Nat /\ c \in Nat /\ y = x + c /\ y <= Len(AllRows)
        /\ r.offset + r.limit <= c /\ From(r) = x + r.offset
    BY <1>8, <1>10, <2>1
  <2> DEFINE z == From(r)
             a == r.offset
             b == r.limit
             m == Len(AllRows)
  <2>3. /\ x \in Nat /\ c \in Nat /\ y = x + c /\ y <= m /\ m \in Nat
        /\ a \in Nat /\ b \in Nat /\ a + b <= c /\ z = x + a
    BY <1>4, <1>8, <2>2
  <2> HIDE DEF x, y, c, z, a, b, m
  <2>4. z \in Nat /\ z + b <= m
    BY ONLY <2>3
  <2> QED BY <2>4 DEF z, b, m
<1> QED BY <1>4, <1>7, <1>8, <1>11, <1>13 DEF AllRows, r

\* The parts of a sequence that follow each other are a part of it.
LEMMA PartsJoin ==
  ASSUME NEW R, NEW s \in Seq(R), NEW a \in Nat, NEW b \in Nat, NEW n \in Nat,
         a <= b, b + n <= Len(s)
  PROVE  SubSeq(s, a + 1, b) \o SubSeq(s, b + 1, b + n) = SubSeq(s, a + 1, b + n)
<1>1. Len(s) \in Nat
  BY LenProperties
<1>2. /\ a + 1 \in 1..Len(s) + 1
      /\ b \in (a + 1) - 1 .. Len(s)
      /\ b + n \in b..Len(s)
  BY <1>1
<1> QED BY <1>2, ConcatAdjacentSubSeq

\* Rows appends the rows of one read, and they follow those it has.
LEMMA ReadFileRows ==
  ASSUME RowsInv, ReadFile
  PROVE  OrderInv' /\ CountInv' /\ PartsInv' /\ ReadInv'
<1>1. /\ step = "read" /\ step' = step /\ reads # <<>> /\ reads' = Tail(reads)
      /\ UNCHANGED <<flags, files, counts>>
      /\ UNCHANGED <<dir, filter, asked, files>>
  BY DEF ReadFile, flags
<1>2. TypeOK /\ OrderInv /\ CountInv /\ PartsInv /\ ReadInv
  BY DEF RowsInv, WindowInv
<1>3. OrderInv' /\ CountInv'
  BY <1>1, <1>2, OrderStays, PlanStays
<1>4. UNCHANGED <<Chosen, AllRows, Stop>>
  BY <1>1, ChosenStays
<1>5. reads \in Seq(ReadRecords) /\ Len(reads) \in Nat \ {0}
  <2>1. reads \in Seq(ReadRecords)
    BY <1>2 DEF TypeOK, ReadRecords
  <2> QED BY <1>1, <2>1, EmptySeq
<1>6. /\ Len(Tail(reads)) = Len(reads) - 1
      /\ \A i \in 1..(Len(reads) - 1) : Tail(reads)[i] = reads[i + 1]
  BY <1>1, <1>5, HeadTailProperties
<1>7. \A i \in 1..Len(reads') : reads'[i] = reads[i + 1] /\ i + 1 \in 1..Len(reads)
  BY <1>1, <1>5, <1>6
<1>8. PartsInv'
  <2> SUFFICES ASSUME NEW i \in 1..Len(reads')
               PROVE  /\ reads'[i].file \in 1..Len(files)
                      /\ reads'[i].file <= Len(counts)
                      /\ reads'[i].from = Behind(reads'[i].file - 1)
                      /\ reads'[i].offset + reads'[i].limit <= counts[reads'[i].file]
    BY <1>1, <1>4 DEF PartsInv, Behind
  <2>1. reads'[i] = reads[i + 1] /\ i + 1 \in 1..Len(reads)
    BY <1>7
  <2> QED BY <1>2, <2>1 DEF PartsInv
<1>9. 1 \in 1..Len(reads) /\ Head(reads) = reads[1]
  BY <1>1, <1>5
<1> DEFINE r == reads[1]
           x == From(r)
           n == r.limit
           a == asked.offset
<1>10. /\ x \in Nat /\ n \in Nat /\ x + n <= Len(AllRows)
       /\ SubSeq(Passing(files[r.file]), r.offset + 1, r.offset + r.limit)
            = SubSeq(AllRows, x + 1, x + n)
  BY <1>1, <1>9, ReadRows
<1>11. a \in Nat /\ a <= x /\ out = SubSeq(AllRows, a + 1, x)
  BY <1>1, <1>2 DEF ReadInv, TypeOK
<1>12. AllRows \in Seq(Rows)
  BY <1>2, ChosenType
<1>13. out' = out \o SubSeq(AllRows, x + 1, x + n)
  BY <1>9, <1>10 DEF ReadFile
<1> HIDE DEF r, x, n, a
<1>14. out' = SubSeq(AllRows, a + 1, x + n) /\ a <= x + n
  BY <1>10, <1>11, <1>12, <1>13, PartsJoin
<1>15. \A i \in 1..Len(reads) :
         From(reads[i]) + reads[i].limit = IF i = Len(reads) THEN Stop ELSE From(reads[i + 1])
  BY <1>1, <1>2 DEF ReadInv
<1>16. x + n = IF 1 = Len(reads) THEN Stop ELSE From(reads[2])
  <2>1. From(reads[1]) + reads[1].limit = IF 1 = Len(reads) THEN Stop ELSE From(reads[1 + 1])
    BY <1>9, <1>15
  <2> QED BY <2>1 DEF x, n, r
<1>17. Len(reads') = Len(reads) - 1 /\ (reads' = <<>> => Len(reads) = 1)
  BY <1>1, <1>5, <1>6
<1>18. reads' # <<>> => Len(reads) # 1 /\ 1 \in 1..Len(reads') /\ reads'[1] = reads[2]
  <2> SUFFICES ASSUME reads' # <<>>
               PROVE  Len(reads) # 1 /\ 1 \in 1..Len(reads') /\ reads'[1] = reads[2]
    OBVIOUS
  <2>1. reads' \in Seq(ReadRecords)
    BY <1>1, <1>5, HeadTailProperties
  <2>2. Len(reads') \in Nat \ {0}
    BY <2>1, EmptySeq
  <2>3. 1 \in 1..Len(reads')
    BY <2>2
  <2>4. reads'[1] = reads[1 + 1]
    BY <1>7, <2>3
  <2> QED BY <1>5, <1>17, <2>2, <2>3, <2>4
<1>19. ASSUME NEW i \in 1..Len(reads')
       PROVE  From(reads'[i]) + reads'[i].limit
                = IF i = Len(reads') THEN Stop ELSE From(reads'[i + 1])
  <2>1. reads'[i] = reads[i + 1] /\ i + 1 \in 1..Len(reads)
    BY <1>7
  <2>2. From(reads[i + 1]) + reads[i + 1].limit
          = IF i + 1 = Len(reads) THEN Stop ELSE From(reads[(i + 1) + 1])
    BY <1>15, <2>1
  <2>3. i = Len(reads') <=> i + 1 = Len(reads)
    BY <1>5, <1>17
  <2>4. i # Len(reads') => reads'[i + 1] = reads[(i + 1) + 1]
    <3> SUFFICES ASSUME i # Len(reads') PROVE reads'[i + 1] = reads[(i + 1) + 1]
      OBVIOUS
    <3>1. i + 1 \in 1..Len(reads')
      BY <1>5, <1>17
    <3> QED BY <1>7, <3>1
  <2> QED BY <2>1, <2>2, <2>3, <2>4
<1>20. ReadInv'
  <2>1. reads' = <<>> => out' = SubSeq(AllRows, a + 1, Stop)
    BY <1>14, <1>16, <1>17
  <2>2. reads' # <<>> => a <= From(reads'[1]) /\ out' = SubSeq(AllRows, a + 1, From(reads'[1]))
    BY <1>14, <1>16, <1>18
  <2> QED BY <1>1, <1>4, <1>19, <2>1, <2>2 DEF ReadInv, From, a
<1> QED BY <1>3, <1>8, <1>20

\* The rows read are exact when Rows is done.
LEMMA ReadsEndRows ==
  ASSUME RowsInv, ReadsEnd
  PROVE  OrderInv' /\ CountInv' /\ PartsInv' /\ ReadInv'
<1>1. /\ step = "read" /\ step' = "done" /\ reads = <<>>
      /\ UNCHANGED <<flags, files, counts, reads, out>>
      /\ UNCHANGED <<dir, filter, asked, files>>
  BY DEF ReadsEnd, flags
<1>2. TypeOK /\ OrderInv /\ CountInv /\ PartsInv /\ ReadInv
  BY DEF RowsInv, WindowInv
<1>3. OrderInv' /\ CountInv'
  BY <1>1, <1>2, OrderStays, PlanStays
<1>4. UNCHANGED <<Chosen, AllRows, Stop>>
  BY <1>1, ChosenStays
<1>5. PartsInv'
  BY <1>1, <1>2, <1>4 DEF PartsInv, Behind
<1>6. out = SubSeq(AllRows, asked.offset + 1, Stop)
  BY <1>1, <1>2 DEF ReadInv
<1>7. ReadInv'
  BY <1>1, <1>4, <1>6 DEF ReadInv
<1> QED BY <1>3, <1>5, <1>7

\* Before Open there is nothing.
LEMMA InitRows == Init => RowsInv
<1> SUFFICES ASSUME Init PROVE RowsInv
  OBVIOUS
<1>1. WindowInv
  BY InitInv
<1>2. /\ step = "open" /\ files = <<>> /\ counts = <<>> /\ reads = <<>> /\ out = <<>>
      /\ filter \in Filters
  BY DEF Init
<1>3. Len(counts) = 0 /\ Len(files) = 0 /\ Len(reads) = 0
  BY <1>2
<1>4. OrderInv /\ CountInv /\ PartsInv /\ ReadInv
  BY <1>2, <1>3 DEF OrderInv, CountInv, PartsInv, ReadInv
<1> QED BY <1>1, <1>2, <1>4 DEF RowsInv

\* Every step keeps what is known of the counts, the reads and the rows read.
LEMMA NextRows == RowsInv /\ [Next]_vars => RowsInv'
<1> SUFFICES ASSUME RowsInv, [Next]_vars PROVE RowsInv'
  OBVIOUS
<1>1. WindowInv'
  BY NextInv DEF RowsInv
<1>2. filter' \in Filters
  BY DEF RowsInv, Next, vars, flags, Open, OpenFails, PlanFile, PlanFails, Planned, SkipFile,
         TakeFile, WindowEnds, ReadFile, ReadsEnd, Ended
<1>3. CASE UNCHANGED vars
  <2>1. UNCHANGED <<flags, files, counts, step, next, passed, reads, out>>
    BY <1>3 DEF vars, flags
  <2>2. UNCHANGED <<dir, filter, asked, files>>
    BY <2>1 DEF flags
  <2>3. UNCHANGED <<Chosen, AllRows, Stop>>
    BY <2>2, ChosenStays
  <2>4. CountInv'
    BY <2>1, PlanStays DEF RowsInv
  <2>5. PartsInv' /\ ReadInv'
    BY <2>1, <2>2, <2>3 DEF RowsInv, PartsInv, ReadInv, Behind
  <2>6. OrderInv'
    <3>1. CASE step \in {"open", "failed"}
      BY <2>1, <3>1 DEF OrderInv
    <3>2. CASE step \notin {"open", "failed"}
      BY <2>1, <3>2, OrderStays DEF RowsInv
    <3> QED BY <3>1, <3>2
  <2> QED BY <1>1, <1>2, <2>4, <2>5, <2>6 DEF RowsInv
<1>4. CASE Next
  <2>1. CASE Open
    BY <1>1, <1>2, <2>1, OpenRows DEF RowsInv
  <2>2. CASE PlanFile \/ PlanFails \/ Planned \/ OpenFails
    BY <1>1, <1>2, <2>2, PlanRows DEF RowsInv
  <2>3. CASE SkipFile \/ TakeFile
    BY <1>1, <1>2, <2>3, WindowRows DEF RowsInv
  <2>4. CASE WindowEnds
    BY <1>1, <1>2, <2>4, WindowEndsRows DEF RowsInv
  <2>5. CASE ReadFile
    BY <1>1, <1>2, <2>5, ReadFileRows DEF RowsInv
  <2>6. CASE ReadsEnd
    BY <1>1, <1>2, <2>6, ReadsEndRows DEF RowsInv
  <2>7. CASE Ended
    BY <1>3, <2>7 DEF Ended
  <2> QED BY <1>4, <2>1, <2>2, <2>3, <2>4, <2>5, <2>6, <2>7 DEF Next
<1> QED BY <1>3, <1>4

(***************************************************************************)
(* What Plan, Window and Rows know of the rows: the files are an order of  *)
(* those kept, the counts are theirs, a read's place among all rows is     *)
(* where its file begins, and what was read ends where the next read       *)
(* begins.                                                                 *)
(***************************************************************************)
THEOREM RowsInvariance == Spec => []RowsInv
<1> QED BY InitRows, NextRows, PTL DEF Spec

\* The WHERE clause of a file kept lets through what matches, and a file that
\* is not kept has nothing that matches.
LEMMA KeptRows ==
  ASSUME dir \in Dirs, filter \in Filters, NEW i \in DOMAIN dir
  PROVE  /\ MatchingRows(dir[i]) \in Seq(Rows)
         /\ overlaps(dir[i]) => Passing(dir[i]) = MatchingRows(dir[i])
         /\ ~overlaps(dir[i]) => MatchingRows(dir[i]) = <<>>
<1> DEFINE f == dir[i]
           ss == [k \in DOMAIN f.rows |-> IF Matches(f, f.rows[k]) THEN <<f.rows[k]>> ELSE <<>>]
           n == Len(f.rows)
<1>1. f \in Files /\ \A k \in DOMAIN f.rows : f.rows[k].second < f.seconds
  BY DirsAssumption, LenProperties, ElementOfSeq
<1>2. f.rows \in Seq(Rows)
  BY <1>1 DEF Files
<1>3. n \in Nat /\ DOMAIN f.rows = 1..n /\ \A k \in 1..n : f.rows[k] \in Rows
  BY <1>2, LenProperties, ElementOfSeq
<1>4. filter.start \subseteq Int /\ filter.end \subseteq Int
  BY FiltersAssumption
<1>5. \A k \in DOMAIN f.rows : overlaps(f) /\ where(f, f.rows[k]) <=> Matches(f, f.rows[k])
  BY <1>1, <1>3, <1>4, FilterIsExact
<1>6. ss \in Seq(Seq(Rows)) /\ Len(ss) = n
  <2>1. ss = [k \in 1..n |-> ss[k]] /\ \A k \in 1..n : ss[k] \in Seq(Rows)
    BY <1>3
  <2>2. ss \in Seq(Seq(Rows))
    BY <1>3, <2>1, IsASeq
  <2>3. DOMAIN ss = 1..n
    BY <1>3
  <2> QED BY <1>3, <2>2, <2>3, LenProperties
<1>7. MatchingRows(f) = FlattenSeq(ss)
  BY DEF MatchingRows
<1>8. overlaps(f) => Passing(f) = MatchingRows(f)
  <2> SUFFICES ASSUME overlaps(f) PROVE Passing(f) = MatchingRows(f)
    OBVIOUS
  <2>1. ss = [k \in DOMAIN f.rows |-> IF where(f, f.rows[k]) THEN <<f.rows[k]>> ELSE <<>>]
    BY <1>5
  <2> QED BY <2>1 DEF MatchingRows, Passing
<1>9. ~overlaps(f) => \A k \in 1..Len(ss) : ss[k] = <<>>
  BY <1>3, <1>5, <1>6
<1> HIDE DEF ss
<1>10. FlattenSeq(ss) \in Seq(Rows)
  <2>1. Len(ss) \in 0..Len(ss)
    BY <1>3, <1>6
  <2> QED BY <1>6, <2>1, JoinedType
<1>11. ~overlaps(f) => FlattenSeq(ss) = <<>>
  BY <1>6, <1>9, FlattenNothing
<1> QED BY <1>7, <1>8, <1>10, <1>11

\* The files of an order that start no later than s come before the others.
LEMMA SortedSplit ==
  ASSUME NEW m \in Nat, NEW t \in [1..m -> Int], NEW s \in Int,
         \A i, j \in 1..m : i < j => t[i] <= t[j]
  PROVE  \E j \in 0..m : /\ \A i \in 1..m : i <= j => t[i] <= s
                         /\ \A i \in 1..m : i > j => t[i] > s
<1> DEFINE Split(n, j) == /\ \A i \in 1..n : i <= j => t[i] <= s
                          /\ \A i \in 1..n : i > j => t[i] > s
           S == {n \in Nat : n <= m => \E j \in 0..n : Split(n, j)}
<1>1. 0 \in S
  <2>1. Split(0, 0) /\ 0 \in 0..0
    OBVIOUS
  <2> QED BY <2>1
<1>2. ASSUME NEW n \in Nat, n \in S PROVE n + 1 \in S
  <2> SUFFICES ASSUME n + 1 <= m PROVE \E j \in 0..(n + 1) : Split(n + 1, j)
    OBVIOUS
  <2>1. PICK j \in 0..n : Split(n, j)
    BY <1>2
  <2>2. /\ n + 1 \in 1..m /\ t[n + 1] \in Int
        /\ \A i \in 1..n : i \in 1..m /\ t[i] \in Int /\ i < n + 1
    OBVIOUS
  <2>3. \A i \in 1..n : t[i] <= t[n + 1]
    BY <2>2
  <2>4. \A i \in 1..(n + 1) : i = n + 1 \/ i \in 1..n
    OBVIOUS
  <2>5. CASE t[n + 1] <= s
    <3>1. ASSUME NEW i \in 1..(n + 1) PROVE i <= n + 1 /\ t[i] <= s
      <4>1. CASE i = n + 1 BY <2>5, <4>1
      <4>2. CASE i \in 1..n
        <5>1. t[i] <= t[n + 1] /\ t[i] \in Int /\ t[n + 1] \in Int
          BY <2>2, <2>3, <4>2
        <5>2. t[i] <= s
          BY <2>5, <5>1
        <5> QED BY <4>2, <5>2
      <4> QED BY <2>4, <4>1, <4>2
    <3>2. \A i \in 1..(n + 1) : i > n + 1 => FALSE
      BY <2>2
    <3>3. Split(n + 1, n + 1) /\ n + 1 \in 0..(n + 1)
      BY <3>1, <3>2
    <3> QED BY <3>3
  <2>6. CASE t[n + 1] > s
    <3>1. ASSUME NEW i \in 1..(n + 1)
          PROVE  (i <= j => t[i] <= s) /\ (i > j => t[i] > s)
      <4>1. CASE i = n + 1
        <5>1. ~(i <= j)
          BY <4>1
        <5> QED BY <2>6, <4>1, <5>1
      <4>2. CASE i \in 1..n
        BY <2>1, <4>2
      <4> QED BY <2>4, <4>1, <4>2
    <3>2. Split(n + 1, j) /\ j \in 0..(n + 1)
      BY <3>1
    <3> QED BY <3>2
  <2> QED BY <2>2, <2>5, <2>6
<1> HIDE DEF S
<1>3. Nat \subseteq S
  BY <1>1, <1>2, SetInduction
<1>4. m \in S
  BY <1>3
<1> QED BY <1>4 DEF S

\* A file can be put into an order of others.
LEMMA SortedInsert ==
  ASSUME dir \in Dirs, NEW K \in SUBSET DOMAIN dir, NEW d \in DOMAIN dir, d \notin K,
         NEW p \in Sorted(K)
  PROVE  LET m == Cardinality(K)
         IN  /\ m \in Nat
             /\ DOMAIN p = 1..m
             /\ \E q \in Sorted(K \cup {d}), j \in 0..m :
                  /\ DOMAIN q = 1..m + 1
                  /\ \A i \in 1..m + 1 :
                       q[i] = IF i <= j THEN p[i] ELSE IF i = j + 1 THEN d ELSE p[i - 1]
<1> DEFINE m == Cardinality(K)
           t == [i \in 1..m |-> dir[p[i]].start]
           s == dir[d].start
<1>1. \A i \in DOMAIN dir : dir[i].start \in Int
  <2> SUFFICES ASSUME NEW i \in DOMAIN dir PROVE dir[i].start \in Int
    OBVIOUS
  <2>1. dir \in Seq(Files)
    BY DirsAssumption
  <2>2. dir[i] \in Files
    BY <2>1, LenProperties, ElementOfSeq
  <2> QED BY <2>2 DEF Files
<1>2. IsFiniteSet(K)
  <2>1. dir \in Seq(Files)
    BY DirsAssumption
  <2>2. Len(dir) \in Nat /\ DOMAIN dir = 1..Len(dir)
    BY <2>1, LenProperties
  <2>3. IsFiniteSet(1..Len(dir))
    BY <2>2, FS_Interval
  <2> QED BY <2>2, <2>3, FS_Subset
<1>3. m \in Nat /\ Cardinality(K \cup {d}) = m + 1
  BY <1>2, FS_CardinalityType, FS_AddElement
<1>4. /\ p \in [1..m -> K]
      /\ \A i, j \in 1..m : i < j => p[i] # p[j] /\ dir[p[i]].start <= dir[p[j]].start
  BY DEF Sorted
<1>5. t \in [1..m -> Int] /\ s \in Int /\ \A i, j \in 1..m : i < j => t[i] <= t[j]
  BY <1>1, <1>4
<1> HIDE DEF m
<1>6. PICK j \in 0..m : /\ \A i \in 1..m : i <= j => t[i] <= s
                        /\ \A i \in 1..m : i > j => t[i] > s
  <2> HIDE DEF t, s
  <2> QED BY <1>3, <1>5, SortedSplit
<1> DEFINE q == [i \in 1..m + 1 |-> IF i <= j THEN p[i] ELSE IF i = j + 1 THEN d ELSE p[i - 1]]
<1>7. j \in Nat /\ j <= m
  BY <1>3
<1>8. \A i \in 1..m + 1 : i = j + 1 \/ (i <= j /\ i \in 1..m) \/ (i > j + 1 /\ i - 1 \in 1..m)
  BY <1>3, <1>7
<1>9. q \in [1..m + 1 -> K \cup {d}]
  BY <1>4, <1>8
<1>10. ASSUME NEW a \in 1..m + 1, NEW b \in 1..m + 1, a < b
       PROVE  q[a] # q[b] /\ dir[q[a]].start <= dir[q[b]].start
  <2>0. \A i \in 1..m : /\ p[i] \in K /\ p[i] # d /\ dir[p[i]].start = t[i] /\ t[i] \in Int
    BY <1>4, <1>5
  <2>1. CASE a <= j /\ b <= j
    <3>1. a \in 1..m /\ b \in 1..m /\ q[a] = p[a] /\ q[b] = p[b]
      BY <1>3, <1>7, <2>1
    <3> QED BY <1>4, <1>10, <3>1
  <2>2. CASE a <= j /\ b = j + 1
    <3>1. a \in 1..m /\ q[a] = p[a] /\ q[b] = d
      BY <1>3, <1>7, <2>2
    <3>2. t[a] <= s
      BY <1>6, <2>2, <3>1
    <3> QED BY <2>0, <3>1, <3>2
  <2>3. CASE a <= j /\ b > j + 1
    <3>1. a \in 1..m /\ b - 1 \in 1..m /\ a < b - 1 /\ q[a] = p[a] /\ q[b] = p[b - 1]
      BY <1>3, <1>7, <2>3
    <3> QED BY <1>4, <3>1
  <2>4. CASE a = j + 1 /\ b > j + 1
    <3>1. b - 1 \in 1..m /\ b - 1 > j /\ q[a] = d /\ q[b] = p[b - 1]
      BY <1>3, <1>7, <2>4
    <3>2. t[b - 1] > s
      BY <1>6, <3>1
    <3>3. t[b - 1] \in Int /\ p[b - 1] # d /\ dir[p[b - 1]].start = t[b - 1]
      BY <2>0, <3>1
    <3>4. s <= t[b - 1]
      BY <1>5, <3>2, <3>3
    <3> QED BY <3>1, <3>3, <3>4
  <2>5. CASE a > j + 1
    <3>1. a - 1 \in 1..m /\ b - 1 \in 1..m /\ a - 1 < b - 1 /\ q[a] = p[a - 1] /\ q[b] = p[b - 1]
      BY <1>3, <1>7, <1>10, <2>5
    <3> QED BY <1>4, <3>1
  <2> QED BY <1>7, <1>10, <2>1, <2>2, <2>3, <2>4, <2>5
<1>11. q \in Sorted(K \cup {d})
  BY <1>3, <1>9, <1>10 DEF Sorted, m
<1>12. DOMAIN p = 1..m
  BY <1>4
<1> QED BY <1>3, <1>11, <1>12 DEF m

\* The matching rows of an order of some files, as one sequence per file.
MatchingOf(p) == [n \in DOMAIN p |-> MatchingRows(dir[p[n]])]

\* They are sequences of rows.
LEMMA MatchingType ==
  ASSUME dir \in Dirs, filter \in Filters, NEW m \in Nat, NEW p, DOMAIN p = 1..m,
         \A i \in 1..m : p[i] \in DOMAIN dir
  PROVE  MatchingOf(p) \in Seq(Seq(Rows)) /\ Len(MatchingOf(p)) = m
<1> DEFINE ss == MatchingOf(p)
<1>1. ss = [n \in 1..m |-> ss[n]] /\ DOMAIN ss = 1..m
  BY DEF MatchingOf
<1>2. \A n \in 1..m : ss[n] \in Seq(Rows)
  BY KeptRows DEF MatchingOf
<1>3. ss \in Seq(Seq(Rows))
  BY <1>1, <1>2, IsASeq
<1> QED BY <1>1, <1>3, LenProperties

\* A file that nothing matches of can be put into an order of others.
LEMMA MatchingInsert ==
  ASSUME dir \in Dirs, filter \in Filters, NEW K \in SUBSET DOMAIN dir,
         NEW d \in DOMAIN dir, d \notin K, ~overlaps(dir[d]), NEW p \in Sorted(K)
  PROVE  \E q \in Sorted(K \cup {d}) : Matching(q) = Matching(p)
<1> DEFINE m == Cardinality(K)
<1>1. m \in Nat /\ DOMAIN p = 1..m
  BY SortedInsert
<1>2. \E q \in Sorted(K \cup {d}), j \in 0..m :
        /\ DOMAIN q = 1..m + 1
        /\ \A i \in 1..m + 1 :
             q[i] = IF i <= j THEN p[i] ELSE IF i = j + 1 THEN d ELSE p[i - 1]
  BY SortedInsert
<1>3. \A i \in 1..m : p[i] \in DOMAIN dir
  BY DEF Sorted
<1> HIDE DEF m
<1>4. PICK q \in Sorted(K \cup {d}), j \in 0..m :
        /\ DOMAIN q = 1..m + 1
        /\ \A i \in 1..m + 1 :
             q[i] = IF i <= j THEN p[i] ELSE IF i = j + 1 THEN d ELSE p[i - 1]
  BY <1>2
<1>5. j \in Nat /\ j <= m /\ m + 1 \in Nat
  BY <1>1
<1>6. \A i \in 1..m + 1 : i = j + 1 \/ (i <= j /\ i \in 1..m) \/ (i > j + 1 /\ i - 1 \in 1..m)
  BY <1>1, <1>5
<1>7. \A i \in 1..m + 1 : q[i] \in DOMAIN dir
  BY <1>3, <1>4, <1>6
<1> DEFINE ss == MatchingOf(p)
           tt == MatchingOf(q)
<1>8. ss \in Seq(Seq(Rows)) /\ Len(ss) = m
  BY <1>1, <1>3, MatchingType
<1>9. tt \in Seq(Seq(Rows)) /\ Len(tt) = m + 1
  BY <1>4, <1>5, <1>7, MatchingType
<1>10. ASSUME NEW i \in 1..m + 1
       PROVE  tt[i] = IF i <= j THEN ss[i] ELSE IF i = j + 1 THEN <<>> ELSE ss[i - 1]
  <2>1. tt[i] = MatchingRows(dir[q[i]])
    BY <1>4 DEF MatchingOf
  <2>2. CASE i = j + 1
    <3>1. q[i] = d /\ ~(i <= j)
      BY <1>4, <1>5, <2>2
    <3>2. MatchingRows(dir[d]) = <<>>
      BY KeptRows
    <3> QED BY <2>1, <2>2, <3>1, <3>2
  <2>3. CASE i <= j /\ i \in 1..m
    BY <1>1, <1>4, <2>1, <2>3 DEF MatchingOf
  <2>4. CASE i > j + 1 /\ i - 1 \in 1..m
    <3>1. q[i] = p[i - 1] /\ ~(i <= j) /\ i # j + 1
      BY <1>4, <1>5, <2>4
    <3> QED BY <1>1, <2>1, <2>4, <3>1 DEF MatchingOf
  <2> QED BY <1>6, <2>2, <2>3, <2>4
<1> HIDE DEF ss, tt
<1>11. FlattenSeq(tt) = FlattenSeq(ss)
  <2>1. j \in 0..Len(ss) /\ Len(tt) = Len(ss) + 1
    BY <1>8, <1>9
  <2>2. \A i \in 1..Len(tt) :
          tt[i] = IF i <= j THEN ss[i] ELSE IF i = j + 1 THEN <<>> ELSE ss[i - 1]
    BY <1>9, <1>10
  <2> QED BY <1>8, <1>9, <2>1, <2>2, FlattenInserted
<1>12. Matching(q) = Matching(p)
  BY <1>11 DEF Matching, MatchingOf, ss, tt
<1> QED BY <1>4, <1>12

\* What Open keeps has every row that matches: an order of the files kept is
\* one of all files but for files without such rows.
LEMMA AllRowsMatch ==
  ASSUME RowsInv, step \notin {"open", "failed"}
  PROVE  \E p \in Sorted(DOMAIN dir) : Matching(p) = AllRows
<1> DEFINE K(n) == Kept \cup (1..n)
           S == {n \in Nat : n <= Len(dir) => \E p \in Sorted(K(n)) : Matching(p) = AllRows}
<1>1. dir \in Dirs /\ filter \in Filters /\ OrderInv
  BY DEF RowsInv, WindowInv, TypeOK
<1>2. Len(dir) \in Nat /\ DOMAIN dir = 1..Len(dir)
  BY <1>1, DirsAssumption, LenProperties
<1>3. Kept \subseteq DOMAIN dir
  BY DEF Kept
<1>31. /\ K(0) = Kept /\ K(Len(dir)) = DOMAIN dir
       /\ \A n \in Nat : /\ K(n + 1) = K(n) \cup {n + 1}
                         /\ Kept \subseteq K(n)
                         /\ n <= Len(dir) => K(n) \in SUBSET DOMAIN dir
  BY <1>2, <1>3
<1> HIDE DEF K
<1>4. 0 \in S
  <2>1. PICK p \in Sorted(Kept) : files = [i \in DOMAIN p |-> dir[p[i]]]
    BY <1>1 DEF OrderInv
  <2> DEFINE m == Cardinality(Kept)
  <2>2. m \in Nat
    <3>1. IsFiniteSet(DOMAIN dir)
      BY <1>2, FS_Interval
    <3>2. IsFiniteSet(Kept)
      BY <1>3, <3>1, FS_Subset
    <3> QED BY <3>2, FS_CardinalityType
  <2>3. p \in [1..m -> Kept]
    BY DEF Sorted
  <2> HIDE DEF m
  <2>4. DOMAIN p = 1..m /\ files = [i \in 1..m |-> dir[p[i]]] /\ files \in Seq(Files)
    BY <2>1, <2>3 DEF RowsInv, WindowInv, TypeOK
  <2>5. Len(files) = m
    BY <2>2, <2>4
  <2>6. \A i \in 1..m : Passing(files[i]) = MatchingRows(dir[p[i]])
    <3> SUFFICES ASSUME NEW i \in 1..m PROVE Passing(files[i]) = MatchingRows(dir[p[i]])
      OBVIOUS
    <3>1. files[i] = dir[p[i]] /\ p[i] \in DOMAIN dir /\ overlaps(dir[p[i]])
      BY <2>3, <2>4 DEF Kept
    <3> QED BY <1>1, <3>1, KeptRows
  <2>7. Chosen = [i \in DOMAIN p |-> MatchingRows(dir[p[i]])]
    BY <2>4, <2>5, <2>6 DEF Chosen
  <2>8. Matching(p) = AllRows
    BY <2>7 DEF Matching, AllRows
  <2> QED BY <1>31, <2>8
<1>5. ASSUME NEW n \in Nat, n \in S PROVE n + 1 \in S
  <2> SUFFICES ASSUME n + 1 <= Len(dir)
               PROVE  \E p \in Sorted(K(n + 1)) : Matching(p) = AllRows
    OBVIOUS
  <2>1. PICK p \in Sorted(K(n)) : Matching(p) = AllRows
    BY <1>2, <1>5
  <2>2. K(n + 1) = K(n) \cup {n + 1}
    BY <1>31
  <2>3. K(n) \in SUBSET DOMAIN dir /\ n + 1 \in DOMAIN dir
    BY <1>2, <1>31
  <2>4. CASE n + 1 \in K(n)
    <3>1. K(n + 1) = K(n)
      BY <2>2, <2>4
    <3> QED BY <2>1, <3>1
  <2>5. CASE n + 1 \notin K(n)
    <3>1. ~overlaps(dir[n + 1])
      BY <1>31, <2>3, <2>5 DEF Kept
    <3>2. \E q \in Sorted(K(n) \cup {n + 1}) : Matching(q) = Matching(p)
      BY <1>1, <2>3, <2>5, <3>1, MatchingInsert
    <3> QED BY <2>1, <2>2, <3>2
  <2> QED BY <2>4, <2>5
<1> HIDE DEF S
<1>6. Nat \subseteq S
  BY <1>4, <1>5, SetInduction
<1>7. Len(dir) \in S
  BY <1>2, <1>6
<1> QED BY <1>2, <1>31, <1>7 DEF S

\* So the rows read are those that match, from the offset on.
LEMMA RowsAreExact == RowsInv => SelectionIsExact
<1> SUFFICES ASSUME RowsInv, step = "done" PROVE SelectionIsExact
  BY DEF SelectionIsExact
<1>1. PICK p \in Sorted(DOMAIN dir) : Matching(p) = AllRows
  BY AllRowsMatch
<1>2. out = SubSeq(AllRows, asked.offset + 1, Stop)
  BY DEF RowsInv, ReadInv
<1> QED BY <1>1, <1>2 DEF SelectionIsExact, Stop

(***************************************************************************)
(* For every directory, filter, offset and limit upload-fies reads exactly *)
(* the rows that were captured in the time asked for, of the PDs asked     *)
(* for, from the offset on, in the order of the files.                     *)
(***************************************************************************)
THEOREM SelectionAlwaysExact == Spec => []SelectionIsExact
<1> QED BY RowsInvariance, RowsAreExact, PTL

(***************************************************************************)
(* The same where upload-fies runs beside merge-fies, the specification    *)
(* that the run checks.                                                    *)
(***************************************************************************)
THEOREM MergeSelection == MergeSpec => []SelectionIsExact
<1>1. MergeInit => Init
  BY DEF MergeInit
<1> QED BY <1>1, InitRows, NextRows, SourceStep, RowsAreExact, PTL DEF MergeSpec
-----------------------------------------------------------------------------
\* What the COPY makes of each of the files.
Copies == [i \in 1..Len(files) |->
             [k \in DOMAIN files[i].rows |-> mergedRow(files[i], files[i].rows[k])]]

\* The merged file so far; nobody asked merge-fies for less than everything.
MergedInv ==
  /\ stage # "upload" => filter = [pds |-> PDs, start |-> {}, end |-> {}]
  /\ stage \in {"upload", "plan", "layout", "overlap"} => merged = <<>>
  /\ stage = "copy" => at <= Len(files) + 1 /\ merged = Joined(Copies, at - 1)
  /\ LaidOut /\ stage # "copy" /\ faults = 0 => merged = FlattenSeq(Copies)
  /\ ~LaidOut \/ stage = "copy" => faults = 0

\* The rows of a file as the COPY makes them, and as upload-fies does.
UploadedRows == {Convert2a(f, r) : f \in Files, r \in Rows}

SameRows ==
  {pair \in MergedRows \X UploadedRows : SameFie(pair[1], pair[2])}

\* The COPY of a file, row by row.
LEMMA CopyOfFile ==
  ASSUME TypeOK, NEW f, NEW d \in DOMAIN dir, f = dir[d]
  PROVE  LET m == [k \in DOMAIN f.rows |-> mergedRow(f, f.rows[k])]
             u == [k \in DOMAIN f.rows |-> Convert2a(f, f.rows[k])]
         IN  /\ m \in Seq(MergedRows) /\ u \in Seq(UploadedRows)
             /\ Len(m) = Len(f.rows) /\ Len(u) = Len(f.rows)
             /\ \A k \in 1..Len(f.rows) : <<m[k], u[k]>> \in SameRows
<1> DEFINE m == [k \in DOMAIN f.rows |-> mergedRow(f, f.rows[k])]
           u == [k \in DOMAIN f.rows |-> Convert2a(f, f.rows[k])]
           n == Len(f.rows)
<1>1. dir \in Dirs /\ f \in Files
  <2>1. dir \in Dirs /\ dir \in Seq(Files)
    BY DirsAssumption DEF TypeOK
  <2> QED BY <2>1, LenProperties, ElementOfSeq
<1>2. f.rows \in Seq(Rows) /\ f.start \in Int
  BY <1>1 DEF Files
<1>3. n \in Nat /\ DOMAIN f.rows = 1..n /\ \A k \in 1..n : f.rows[k] \in Rows
  BY <1>2, LenProperties, ElementOfSeq
<1>4. ASSUME NEW k \in 1..n
      PROVE  /\ mergedRow(f, f.rows[k]) \in MergedRows
             /\ Convert2a(f, f.rows[k]) \in UploadedRows
             /\ <<mergedRow(f, f.rows[k]), Convert2a(f, f.rows[k])>> \in SameRows
  <2> DEFINE r == f.rows[k]
             M == mergedRow(f, r)
             U == Convert2a(f, r)
  <2>1. r \in Rows /\ f \in Files
    BY <1>1, <1>3
  <2>2. Fie[r.id].transit \subseteq 0..255 /\ Fie[r.id].age \subseteq 0..255
    <3>1. k \in DOMAIN dir[d].rows /\ r = dir[d].rows[k]
      BY <1>3
    <3> QED BY <1>1, <3>1, FieType
  <2>3. mergedRow(f, r) \in MergedRows
    BY <1>2, <2>1, <2>2, MergedRowType
  <2>4. U \in UploadedRows
    BY <2>1 DEF UploadedRows
  <2> HIDE DEF r
  <2>5. SameFie(M, U)
    BY <2>1, <2>2, RowsAgree
  <2> HIDE DEF M, U
  <2>6. <<M, U>> \in SameRows
    BY <2>3, <2>4, <2>5 DEF SameRows, M
  <2> QED BY <2>3, <2>4, <2>6 DEF M, U, r
<1>5. m \in Seq(MergedRows) /\ Len(m) = n
  <2>1. m \in [1..n -> MergedRows] /\ DOMAIN m = 1..n
    BY <1>3, <1>4
  <2>2. m \in Seq(MergedRows)
    BY ONLY <1>3, <2>1, SeqOfFunction
  <2> QED BY <1>3, <2>1, <2>2, LenProperties
<1>6. u \in Seq(UploadedRows) /\ Len(u) = n
  <2>1. u \in [1..n -> UploadedRows] /\ DOMAIN u = 1..n
    BY <1>3, <1>4
  <2>2. u \in Seq(UploadedRows)
    BY ONLY <1>3, <2>1, SeqOfFunction
  <2> QED BY <1>3, <2>1, <2>2, LenProperties
<1>7. \A k \in 1..n : <<m[k], u[k]>> \in SameRows
  BY <1>3, <1>4
<1> QED BY <1>5, <1>6, <1>7

\* What upload-fies makes of the rows of the same files.
Conversions == [i \in 1..Len(files) |->
                  [k \in DOMAIN files[i].rows |-> Convert2a(files[i], files[i].rows[k])]]

\* File by file and row by row they are the same.
LEMMA CopiesPaired ==
  ASSUME TypeOK, FilesInv
  PROVE  Paired(SameRows, MergedRows, UploadedRows, Copies, Conversions)
<1> DEFINE n == Len(files)
<1>1. n \in Nat /\ DOMAIN files = 1..n
  BY LenProperties DEF TypeOK
<1>2. ASSUME NEW i \in 1..n
      PROVE  /\ Copies[i] \in Seq(MergedRows) /\ Conversions[i] \in Seq(UploadedRows)
             /\ Len(Conversions[i]) = Len(Copies[i])
             /\ \A k \in 1..Len(Copies[i]) : <<Copies[i][k], Conversions[i][k]>> \in SameRows
  <2> DEFINE f == files[i]
             m == [k \in DOMAIN f.rows |-> mergedRow(f, f.rows[k])]
             u == [k \in DOMAIN f.rows |-> Convert2a(f, f.rows[k])]
  <2>1. PICK d \in DOMAIN dir : f = dir[d]
    BY <1>1 DEF FilesInv
  <2>2. /\ m \in Seq(MergedRows) /\ u \in Seq(UploadedRows)
        /\ Len(m) = Len(f.rows) /\ Len(u) = Len(f.rows)
        /\ \A k \in 1..Len(f.rows) : <<m[k], u[k]>> \in SameRows
    BY <2>1, CopyOfFile
  <2>3. Copies[i] = m /\ Conversions[i] = u
    BY DEF Copies, Conversions
  <2> HIDE DEF m, u
  <2> QED BY <2>2, <2>3
<1>3. Copies \in Seq(Seq(MergedRows)) /\ Len(Copies) = n
  <2>1. Copies \in [1..n -> Seq(MergedRows)] /\ DOMAIN Copies = 1..n
    BY <1>2 DEF Copies
  <2>2. Copies \in Seq(Seq(MergedRows))
    BY ONLY <1>1, <2>1, SeqOfFunction
  <2> QED BY <1>1, <2>1, <2>2, LenProperties
<1>4. Conversions \in Seq(Seq(UploadedRows)) /\ Len(Conversions) = n
  <2>1. Conversions \in [1..n -> Seq(UploadedRows)] /\ DOMAIN Conversions = 1..n
    BY <1>2 DEF Conversions
  <2>2. Conversions \in Seq(Seq(UploadedRows))
    BY ONLY <1>1, <2>1, SeqOfFunction
  <2> QED BY <1>1, <2>1, <2>2, LenProperties
<1> QED BY <1>2, <1>3, <1>4 DEF Paired

\* The COPY reads the same files all the time.
LEMMA CopiesStay == ASSUME UNCHANGED files PROVE UNCHANGED Copies
<1>1. \A f, r : mergedRow(f, r)' = mergedRow(f, r)
  BY DEF mergedRow, Unix, minus
<1> QED BY <1>1 DEF Copies

\* merge-fies starts with nothing in its file.
LEMMA InitMerged == MergeInit => MergedInv
<1> SUFFICES ASSUME MergeInit PROVE MergedInv
  OBVIOUS
<1> QED BY DEF MergeInit, MergedInv, LaidOut

\* Each step of the COPY appends the rows of the next file.
LEMMA NextMerged ==
  ASSUME WindowInv, MergeInv, MergedInv, [MergeNext]_allVars
  PROVE  MergedInv'
<1>0. TypeOK /\ files \in Seq(Files) /\ Len(files) \in Nat
  BY LenProperties DEF WindowInv, TypeOK
<1>1. CASE stage = "upload" /\ Next /\ UNCHANGED mergeVars
  BY <1>1 DEF MergedInv, mergeVars, LaidOut
<1>2. CASE OpenAndPlan
  BY <1>2 DEF MergedInv, OpenAndPlan, mergeVars, LaidOut, Open, OpenFails, PlanFile, PlanFails,
              flags
<1>3. CASE StartLayout \/ FileFits \/ FileOverlaps
  BY <1>3 DEF MergedInv, StartLayout, FileFits, FileOverlaps, LaidOut, vars
<1>4. CASE LayoutDone
  <2>1. /\ stage = "layout" /\ stage' = "copy" /\ at' = 1
        /\ UNCHANGED <<files, filter, merged, faults>>
    BY <1>4 DEF LayoutDone, vars
  <2>2. merged = <<>> /\ faults = 0 /\ FilesInv
    BY <2>1 DEF MergedInv, MergeInv, LaidOut
  <2>3. UNCHANGED Copies
    BY <2>1, CopiesStay
  <2>4. Joined(Copies, 0) = <<>>
    BY <1>0, <2>2, CopiesPaired, JoinedStep DEF Paired
  <2>5. Joined(Copies, 1 - 1)' = <<>>
    BY <2>3, <2>4 DEF Joined
  <2> QED BY <1>0, <2>1, <2>2, <2>3, <2>4 DEF MergedInv, LaidOut, Joined
<1>5. CASE CopyFile
  <2>1. /\ stage = "copy" /\ stage' = stage /\ at <= Len(files) /\ at' = at + 1
        /\ merged' = merged \o [k \in DOMAIN files[at].rows |->
                                  mergedRow(files[at], files[at].rows[k])]
        /\ UNCHANGED <<files, filter, faults>>
    BY <1>5 DEF CopyFile, vars
  <2>2. /\ merged = Joined(Copies, at - 1) /\ FilesInv /\ at \in Nat \ {0}
    BY <2>1 DEF MergedInv, MergeInv
  <2>3. UNCHANGED Copies
    BY <2>1, CopiesStay
  <2>4. /\ Copies \in Seq(Seq(MergedRows)) /\ Len(Copies) = Len(files)
    <3>1. DOMAIN Copies = 1..Len(files)
      BY DEF Copies
    <3>2. Copies \in Seq(Seq(MergedRows))
      BY <1>0, <2>2, CopiesPaired DEF Paired
    <3> QED BY <1>0, <3>1, <3>2, LenProperties
  <2>5. at - 1 \in Nat /\ (at - 1) + 1 = at /\ (at - 1) + 1 <= Len(Copies) /\ at \in 1..Len(files)
    BY <1>0, <2>1, <2>2, <2>4
  <2>6. Joined(Copies, (at - 1) + 1) = Joined(Copies, at - 1) \o Copies[(at - 1) + 1]
    BY <2>4, <2>5, JoinedNext
  <2>7. merged' = Joined(Copies, at)
    BY <2>1, <2>2, <2>5, <2>6 DEF Copies
  <2>8. at' - 1 = at /\ at' <= Len(files) + 1
    BY <1>0, <2>1, <2>2
  <2>9. (merged = Joined(Copies, at - 1))'
    BY <2>3, <2>7, <2>8 DEF Joined
  <2> QED BY <2>1, <2>8, <2>9 DEF MergedInv, LaidOut
<1>6. CASE Copied
  <2>1. /\ stage = "copy" /\ stage' = "merged" /\ at > Len(files)
        /\ UNCHANGED <<files, filter, merged, faults>>
    BY <1>6 DEF Copied, vars
  <2>2. /\ merged = Joined(Copies, at - 1) /\ at \in Nat \ {0} /\ at <= Len(files) + 1 /\ FilesInv
    BY <2>1 DEF MergedInv, MergeInv
  <2>3. at - 1 = Len(files)
    BY <1>0, <2>1, <2>2
  <2>4. Joined(Copies, Len(files)) = FlattenSeq(Copies)
    <3>1. DOMAIN Copies = 1..Len(files)
      BY DEF Copies
    <3> QED BY <3>1 DEF Joined, Copies
  <2>5. UNCHANGED Copies
    BY <2>1, CopiesStay
  <2> QED BY <2>1, <2>2, <2>3, <2>4, <2>5 DEF MergedInv, LaidOut
<1>7. CASE Damage
  <2>1. /\ stage = "merged" /\ stage' = stage /\ faults' = faults + 1 /\ UNCHANGED filter
        /\ faults \in 0..MaxFaults
    BY <1>7 DEF Damage, vars, MergeInv
  <2>2. faults' # 0
    BY <2>1, FaultsAssumption
  <2> QED BY <2>1, <2>2 DEF MergedInv, LaidOut
<1>8. CASE NotVerified \/ Verify \/ VerifyRow \/ Verified \/ UNCHANGED allVars
  <2>1. UNCHANGED <<files, filter, merged, faults>>
    BY <1>8 DEF NotVerified, Verify, VerifyRow, Verified, vars, allVars, mergeVars
  <2>2. UNCHANGED Copies
    BY <2>1, CopiesStay
  <2>3. UNCHANGED <<stage, at>> \/ (/\ stage \in {"merged", "verify"}
                                    /\ stage' \in {"done", "verify", "unverifiable",
                                                    "verified", "refuted"})
    BY <1>8 DEF NotVerified, Verify, VerifyRow, Verified, allVars, mergeVars
  <2>4. CASE UNCHANGED <<stage, at>>
    BY <2>1, <2>2, <2>4 DEF MergedInv, LaidOut, Joined
  <2>5. CASE /\ stage \in {"merged", "verify"}
             /\ stage' \in {"done", "verify", "unverifiable", "verified", "refuted"}
    BY <2>1, <2>2, <2>5 DEF MergedInv, LaidOut
  <2> QED BY <2>3, <2>4, <2>5
<1> QED BY <1>1, <1>2, <1>3, <1>4, <1>5, <1>6, <1>7, <1>8 DEF MergeNext, MergeEnded

\* Of the same files, and all of them, the copies and the conversions are in
\* the same order.
LEMMA MergedAgrees == RowsInv /\ MergeInv /\ MergedInv => MergeAgreesWithUpload
<1> SUFFICES ASSUME RowsInv, MergeInv, MergedInv, LaidOut, stage # "copy", faults = 0
             PROVE  \E p \in Sorted(DOMAIN dir) :
                      LET table == Uploaded(p)
                      IN  /\ Len(merged) = Len(table)
                          /\ \A k \in DOMAIN table : SameFie(merged[k], table[k])
  BY DEF MergeAgreesWithUpload
<1>1. TypeOK /\ FilesInv /\ OrderInv /\ step = "plan" /\ stage # "upload"
  BY DEF RowsInv, WindowInv, MergeInv, LaidOut
<1>2. filter.start = {} /\ filter.end = {}
  BY <1>1 DEF MergedInv
<1>3. Kept = DOMAIN dir
  BY <1>2 DEF Kept, overlaps
<1>4. PICK p \in Sorted(DOMAIN dir) : files = [i \in DOMAIN p |-> dir[p[i]]]
  BY <1>1, <1>3 DEF OrderInv
<1>5. DOMAIN p = 1..Len(files)
  <2>1. files \in Seq(Files) /\ DOMAIN files = 1..Len(files)
    BY <1>1, LenProperties DEF TypeOK
  <2>2. DOMAIN files = DOMAIN p
    BY <1>4
  <2> QED BY <2>1, <2>2
<1>6. Uploaded(p) = FlattenSeq(Conversions)
  <2>1. Conversions = [n \in DOMAIN p |-> [k \in DOMAIN dir[p[n]].rows |->
                                             Convert2a(dir[p[n]], dir[p[n]].rows[k])]]
    BY <1>4, <1>5 DEF Conversions
  <2> QED BY <2>1 DEF Uploaded
<1>7. merged = FlattenSeq(Copies)
  BY DEF MergedInv
<1>8. Paired(SameRows, MergedRows, UploadedRows, Copies, Conversions)
  BY <1>1, CopiesPaired
<1>9. /\ FlattenSeq(Conversions) \in Seq(UploadedRows)
      /\ Len(FlattenSeq(Conversions)) = Len(FlattenSeq(Copies))
      /\ \A k \in 1..Len(FlattenSeq(Copies)) :
           <<FlattenSeq(Copies)[k], FlattenSeq(Conversions)[k]>> \in SameRows
  BY <1>8, FlattenPaired
<1> DEFINE table == Uploaded(p)
<1>10. /\ Len(merged) = Len(table) /\ DOMAIN table = 1..Len(merged)
       /\ \A k \in DOMAIN table : <<merged[k], table[k]>> \in SameRows
  BY <1>6, <1>7, <1>9, LenProperties
<1> HIDE DEF table
<1>11. ASSUME NEW k \in DOMAIN table
       PROVE  SameFie(merged[k], table[k])
  <2>1. <<merged[k], table[k]>> \in SameRows
    BY <1>10
  <2> QED BY <2>1 DEF SameRows
<1> QED BY <1>4, <1>10, <1>11 DEF table

(***************************************************************************)
(* For every directory the merged file has the rows of the table that      *)
(* upload-fies makes of the same directory, in the same order, with the    *)
(* same times in whole seconds and the same NULLs, but for replies without *)
(* an address.                                                             *)
(***************************************************************************)
THEOREM MergeAlwaysAgrees == MergeSpec => []MergeAgreesWithUpload
<1>1. MergeInit => RowsInv /\ MergeInv /\ MergedInv
  BY InitRows, MergeInitInv, InitMerged DEF MergeInit
<1>2. RowsInv /\ MergeInv /\ MergedInv /\ [MergeNext]_allVars
        => (RowsInv /\ MergeInv /\ MergedInv)'
  <2> SUFFICES ASSUME RowsInv, MergeInv, MergedInv, [MergeNext]_allVars
               PROVE  RowsInv' /\ MergeInv' /\ MergedInv'
    OBVIOUS
  <2>1. RowsInv'
    BY SourceStep, NextRows
  <2>2. WindowInv /\ TypeOK /\ TypeOK'
    BY <2>1 DEF RowsInv, WindowInv
  <2> QED BY <2>1, <2>2, MergeStepInv, NextMerged
<1> QED BY <1>1, <1>2, MergedAgrees, PTL DEF MergeSpec
-----------------------------------------------------------------------------
(***************************************************************************)
(* A run's step leaves what the other runs know of themselves alone.       *)
(***************************************************************************)
Local(r) ==
  \A q \in Runs \ {r} :
    /\ pc'[q] = pc[q]
    /\ err'[q] = err[q]
    /\ file'[q] = file[q] \/ q \in met[r]
    /\ met'[q] = met[q] \/ r \in met'[q]

(***************************************************************************)
(* Every step of a run keeps the types and is local.                       *)
(***************************************************************************)
LEMMA StepTypes ==
  ASSUME FileTypeOK, NEW r \in Runs, RunStep(r)
  PROVE  FileTypeOK' /\ Local(r) /\ UNCHANGED runFlags
<1> USE TotalAssumption DEF FileTypeOK, Over, Goto, Fail, runFlags, Local, history
<1>1. CASE Start(r)
  <2>1. met' \in [Runs -> SUBSET Runs]
    BY <1>1 DEF Start
  <2>2. \A q \in Runs \ {r} : met'[q] = met[q] \/ r \in met'[q]
    BY <1>1 DEF Start
  <2> QED BY <1>1, <2>1, <2>2 DEF Start
<1>2. CASE Check(r) BY <1>2 DEF Check
<1>3. CASE Plan(r) BY <1>3 DEF Plan
<1>4. CASE Recheck(r) BY <1>4 DEF Recheck
<1>5. CASE RemoveTmp(r) BY <1>5 DEF RemoveTmp
<1>6. CASE CopyStarts(r) BY <1>6 DEF CopyStarts
<1>7. CASE CopyEnds(r) BY <1>7 DEF CopyEnds, Counts
<1>8. CASE CopyFails(r) BY <1>8 DEF CopyFails
<1>9. CASE ReadBack(r) BY <1>9 DEF ReadBack
<1>10. CASE ReadBackFails(r) BY <1>10 DEF ReadBackFails
<1>11. CASE Rename(r) BY <1>11 DEF Rename
<1>12. CASE RenameFails(r) BY <1>12 DEF RenameFails
<1>13. CASE Stat(r) BY <1>13 DEF Stat
<1>14. CASE VerifyOutput(r) BY <1>14 DEF VerifyOutput
<1>15. CASE Kill(r) BY <1>15 DEF Kill
<1>16. CASE WriteShared(r)
  <2>0. PICK q \in met[r], whole \in BOOLEAN :
          \E n \in Counts(q) : file' = [file EXCEPT ![q] = [rows |-> n, complete |-> whole]]
    BY <1>16 DEF WriteShared
  <2>1. PICK n \in Counts(q) :
          file' = [file EXCEPT ![q] = [rows |-> n, complete |-> whole]]
    BY <2>0
  <2>2. q \in Runs /\ [rows |-> n, complete |-> whole] \in [rows : Nat, complete : BOOLEAN]
    BY <2>1 DEF Counts
  <2> QED BY <1>16, <2>1, <2>2 DEF WriteShared
<1> QED BY <1>1, <1>2, <1>3, <1>4, <1>5, <1>6, <1>7, <1>8, <1>9, <1>10,
           <1>11, <1>12, <1>13, <1>14, <1>15, <1>16 DEF RunStep

\* Only Start makes runs meet, and a step that is not Start is one of a run
\* that is under way.
LEMMA StepActive ==
  ASSUME FileTypeOK, NEW r \in Runs, RunStep(r)
  PROVE  Start(r) \/ (Active(r) /\ UNCHANGED met /\ pc'[r] # "idle")
<1> USE DEF FileTypeOK, Active, Over, Goto, Fail, history
<1>1. CASE Start(r) BY <1>1
<1>2. CASE Check(r) BY <1>2 DEF Check
<1>3. CASE Plan(r) BY <1>3 DEF Plan
<1>4. CASE Recheck(r) BY <1>4 DEF Recheck
<1>5. CASE RemoveTmp(r) BY <1>5 DEF RemoveTmp
<1>6. CASE CopyStarts(r) BY <1>6 DEF CopyStarts
<1>7. CASE CopyEnds(r) BY <1>7 DEF CopyEnds
<1>8. CASE WriteShared(r) BY <1>8 DEF WriteShared
<1>9. CASE CopyFails(r) BY <1>9 DEF CopyFails
<1>10. CASE ReadBack(r) BY <1>10 DEF ReadBack
<1>11. CASE ReadBackFails(r) BY <1>11 DEF ReadBackFails
<1>12. CASE Rename(r) BY <1>12 DEF Rename
<1>13. CASE RenameFails(r) BY <1>13 DEF RenameFails
<1>14. CASE Stat(r) BY <1>14 DEF Stat
<1>15. CASE VerifyOutput(r) BY <1>15 DEF VerifyOutput
<1>16. CASE Kill(r) BY <1>16 DEF Kill
<1> QED BY <1>1, <1>2, <1>3, <1>4, <1>5, <1>6, <1>7, <1>8, <1>9, <1>10, <1>11,
          <1>12, <1>13, <1>14, <1>15, <1>16 DEF RunStep

(***************************************************************************)
(* A run that starts is put down with every run that is under way, and     *)
(* each of them with it.                                                   *)
(***************************************************************************)
LEMMA StepMeetings ==
  ASSUME FileTypeOK, MeetingsKnown, NEW r \in Runs, RunStep(r)
  PROVE  MeetingsKnown' /\ \A q \in Runs : Alone(q)' => Alone(q)
<1>0. FileTypeOK' /\ Local(r)
  BY StepTypes
<1>1. CASE Start(r)
  <2>1. /\ pc[r] = "idle" /\ ~Active(r) /\ met[r] = {}
        /\ pc' = [pc EXCEPT ![r] = "check"]
        /\ met'[r] = {p \in Runs : Active(p)}
    BY <1>1 DEF Start, Goto, Active, MeetingsKnown, FileTypeOK
  <2>2. \A q \in Runs \ {r} : met'[q] = IF Active(q) THEN met[q] \cup {r} ELSE met[q]
    BY <1>1 DEF Start, FileTypeOK
  <2>3. \A q \in Runs \ {r} : Active(q)' <=> Active(q)
    BY <2>1 DEF Active, FileTypeOK
  <2>4. Active(r)'
    BY <1>0, <2>1 DEF Active, Over, FileTypeOK
  <2>5. ASSUME NEW p \in Runs, NEW q \in Runs, Active(p)', Active(q)', p # q
        PROVE  q \in met'[p]
    BY <2>1, <2>2, <2>3, <2>4, <2>5 DEF MeetingsKnown
  <2>6. ASSUME NEW p \in Runs, NEW q \in Runs, q \in met'[p]
        PROVE  p \in met'[q] /\ pc'[q] # "idle"
    <3>1. CASE p = r
      BY <2>1, <2>2, <2>6, <3>1 DEF Active, FileTypeOK
    <3>2. CASE p # r /\ q = r
      BY <2>1, <2>2, <2>6, <3>2 DEF FileTypeOK, MeetingsKnown
    <3>3. CASE p # r /\ q # r
      <4>1. q \in met[p]
        BY <2>2, <2>6, <3>3
      <4>2. p \in met[q] /\ pc[q] # "idle"
        BY <4>1 DEF MeetingsKnown
      <4>3. p \in met'[q]
        BY <2>2, <3>3, <4>2
      <4>4. pc'[q] = pc[q]
        BY <1>0, <3>3 DEF Local
      <4> QED BY <4>2, <4>3, <4>4
    <3> QED BY <3>1, <3>2, <3>3
  <2> QED BY <2>1, <2>2, <2>5, <2>6 DEF MeetingsKnown, Alone
<1>2. CASE Active(r) /\ UNCHANGED met /\ pc'[r] # "idle"
  <2>1. \A q \in Runs : Active(q)' => Active(q)
    BY <1>0, <1>2 DEF Local, Active
  <2> QED BY <1>0, <1>2, <2>1 DEF MeetingsKnown, Alone, Local
<1> QED BY <1>1, <1>2, StepActive

\* While a run that is under way is alone, no other is.
LEMMA AloneIsOnly ==
  ASSUME MeetingsKnown, NEW r \in Runs, Alone(r), Active(r)
  PROVE  \A q \in Runs \ {r} : ~Active(q)
BY DEF MeetingsKnown, Alone

(***************************************************************************)
(* A run's own step keeps what it knows of its file, when it is alone: the *)
(* case of each action.                                                    *)
(***************************************************************************)
LEMMA StepPlaced ==
  ASSUME FileInv, NEW r \in Runs, RunStep(r), Alone(r)
  PROVE  Placed(r)'
<1>0. FileTypeOK' /\ Local(r) /\ UNCHANGED runFlags
  BY StepTypes DEF FileInv
<1>1. FileTypeOK /\ Placed(r) /\ met[r] = {}
  BY DEF FileInv, Alone
<1> USE <1>0, <1>1, RunsAssumption, TotalAssumption
    DEF FileTypeOK, Placed, Whole, Goto, Fail, runFlags, history
<1>2. CASE Start(r) BY <1>2 DEF Start
<1>3. CASE Check(r) BY <1>3 DEF Check
<1>4. CASE Plan(r) BY <1>4 DEF Plan
<1>5. CASE Recheck(r) BY <1>5 DEF Recheck
<1>6. CASE RemoveTmp(r) BY <1>6 DEF RemoveTmp
<1>7. CASE CopyStarts(r) BY <1>7 DEF CopyStarts
<1>8. CASE CopyEnds(r)
  <2>1. PICK n \in Counts(r) :
          file' = [file EXCEPT ![r] = [rows |-> n, complete |-> TRUE]]
    BY <1>8 DEF CopyEnds
  <2>2. file'[r] = [rows |-> n, complete |-> TRUE]
    BY <2>1
  <2>3. /\ pc[r] = "copying" /\ pc'[r] = "readback"
        /\ UNCHANGED <<err, tmp, output>>
    BY <1>8 DEF CopyEnds
  <2>4. tmp' = r /\ output' # r
    BY <2>3
  <2> QED BY <2>2, <2>3, <2>4
<1>9. CASE CopyFails(r) BY <1>9 DEF CopyFails
<1>10. CASE ReadBack(r) BY <1>10 DEF ReadBack, CountMatches, Readable
<1>11. CASE ReadBackFails(r) BY <1>11 DEF ReadBackFails
<1>12. CASE Rename(r) BY <1>12 DEF Rename
<1>13. CASE RenameFails(r) BY <1>13 DEF RenameFails
<1>14. CASE Stat(r) BY <1>14 DEF Stat
<1>15. CASE VerifyOutput(r) BY <1>15 DEF VerifyOutput
<1>16. CASE Kill(r) BY <1>16 DEF Kill, Active, Over
<1>17. CASE WriteShared(r) BY <1>17 DEF WriteShared
<1> QED BY <1>2, <1>3, <1>4, <1>5, <1>6, <1>7, <1>8, <1>9, <1>10,
           <1>11, <1>12, <1>13, <1>14, <1>15, <1>16, <1>17 DEF RunStep

(***************************************************************************)
(* The step of one run puts no other run's file at the output, but for a   *)
(* rename, which takes what is at <output>.tmp.                            *)
(***************************************************************************)
LEMMA StepPaths ==
  ASSUME FileTypeOK, NEW r \in Runs, RunStep(r)
  PROVE  /\ tmp' \in {tmp, r, Nobody}
         /\ tmp' = r => tmp = r \/ pc'[r] \in {"copying", "readback"}
         /\ output' = output \/ (pc[r] = "rename" /\ output' = tmp)
         /\ stale' = stale \/ stale' = stale \ {r} \/ stale' = Runs \ {r}
         /\ output' = output \/ stale' = Runs \ {r}
<1> USE RunsAssumption DEF FileTypeOK, Goto, history
<1>1. CASE Start(r) BY <1>1 DEF Start
<1>2. CASE Check(r) BY <1>2 DEF Check
<1>3. CASE Plan(r) BY <1>3 DEF Plan
<1>4. CASE Recheck(r) BY <1>4 DEF Recheck
<1>5. CASE RemoveTmp(r) BY <1>5 DEF RemoveTmp
<1>6. CASE CopyStarts(r) BY <1>6 DEF CopyStarts
<1>7. CASE CopyEnds(r) BY <1>7 DEF CopyEnds
<1>8. CASE WriteShared(r) BY <1>8 DEF WriteShared
<1>9. CASE CopyFails(r) BY <1>9 DEF CopyFails
<1>10. CASE ReadBack(r) BY <1>10 DEF ReadBack
<1>11. CASE ReadBackFails(r) BY <1>11 DEF ReadBackFails
<1>12. CASE Rename(r) BY <1>12 DEF Rename
<1>13. CASE RenameFails(r) BY <1>13 DEF RenameFails
<1>14. CASE Stat(r) BY <1>14 DEF Stat
<1>15. CASE VerifyOutput(r) BY <1>15 DEF VerifyOutput
<1>16. CASE Kill(r) BY <1>16 DEF Kill
<1> QED BY <1>1, <1>2, <1>3, <1>4, <1>5, <1>6, <1>7, <1>8, <1>9, <1>10, <1>11,
          <1>12, <1>13, <1>14, <1>15, <1>16 DEF RunStep

(***************************************************************************)
(* What an earlier run left at <output>.tmp stays there only until the     *)
(* next one removes it.                                                    *)
(***************************************************************************)
LEMMA StepLeftover ==
  ASSUME FileInv, NEW r \in Runs, RunStep(r)
  PROVE  LeftoverGoesFirst'
<1>0. FileTypeOK /\ FileTypeOK' /\ Local(r) /\ MeetingsKnown /\ MeetingsKnown'
      /\ \A q \in Runs : Alone(q)' => Alone(q)
  BY StepTypes, StepMeetings DEF FileInv
<1> SUFFICES ASSUME NEW p \in Runs, NEW q \in Runs,
                    Alone(p)', tmp' = p, ~Active(p)', Active(q)'
             PROVE  pc'[q] \in {"check", "plan", "recheck", "remove"}
  BY DEF LeftoverGoesFirst
<1>1. Alone(p) /\ p # q
  BY <1>0
<1>2. CASE Active(p)
  \* The run that ends was the only one under way.
  <2>1. \A x \in Runs \ {p} : ~Active(x)
    BY <1>0, <1>1, <1>2, AloneIsOnly
  <2>2. p = r
    BY <1>0, <1>2 DEF Local, Active
  <2> QED BY <1>0, <1>1, <2>1, <2>2 DEF Local, Active
<1>3. CASE ~Active(p)
  <2>1. p # r \/ Start(r)
    BY <1>3, StepActive, <1>0
  <2>2. p # r
    BY <1>0, <2>1 DEF Start, Goto, Active, Over, FileTypeOK
  <2>3. tmp = p
    BY <1>0, <2>2, StepPaths, RunsAssumption
  <2>4. CASE q # r
    BY <1>0, <1>1, <1>3, <2>3, <2>4 DEF Local, Active, FileInv, LeftoverGoesFirst
  <2>5. CASE q = r /\ Start(r)
    BY <1>0, <2>5 DEF Start, Goto, FileTypeOK
  <2>6. CASE q = r /\ Active(r)
    <3>1. pc[r] \in {"check", "plan", "recheck", "remove"}
      BY <1>1, <1>3, <2>3, <2>6 DEF FileInv, LeftoverGoesFirst
    <3>2. pc[r] # "remove" \/ pc'[r] = "killed"
      BY <1>0, <2>2, <2>3, <2>6, RunsAssumption
         DEF RunStep, Start, Check, Plan, Recheck, RemoveTmp, CopyStarts, CopyEnds, WriteShared,
             CopyFails, ReadBack, ReadBackFails, Rename, RenameFails, Stat, VerifyOutput, Kill,
             Goto, FileTypeOK
    <3>3. pc'[r] \in {"check", "plan", "recheck", "remove", "failed", "killed"}
      BY <1>0, <3>1, <3>2
         DEF RunStep, Start, Check, Plan, Recheck, RemoveTmp, CopyStarts, CopyEnds, WriteShared,
             CopyFails, ReadBack, ReadBackFails, Rename, RenameFails, Stat, VerifyOutput, Kill,
             Goto, Fail, FileTypeOK
    <3> QED BY <2>6, <3>3 DEF Active, Over
  <2> QED BY <2>4, <2>5, <2>6, StepActive, <1>0
<1> QED BY <1>2, <1>3

(***************************************************************************)
(* The inductive invariant holds initially and every step keeps it.        *)
(***************************************************************************)
LEMMA InitFileInv == FileInit => FileInv
<1> SUFFICES ASSUME FileInit PROVE FileInv
  OBVIOUS
<1>1. FileTypeOK
  BY DEF FileInit, FileTypeOK
<1>2. \A r \in Runs : ~Active(r) /\ met[r] = {} /\ pc[r] = "idle"
  BY DEF FileInit, Active
<1>3. tmp = Nobody /\ output \notin Runs
  BY RunsAssumption DEF FileInit
<1>4. MeetingsKnown /\ LeftoverGoesFirst
  BY <1>2 DEF MeetingsKnown, LeftoverGoesFirst
<1>5. ASSUME NEW r \in Runs PROVE Placed(r) /\ Owned(r) /\ Checked(r)
  BY <1>2, <1>3, RunsAssumption DEF Placed, Owned, Checked
<1> QED BY <1>1, <1>4, <1>5 DEF FileInv

\* A run's step keeps what holds of a run that was alone at another time.
LEMMA StepPlacedOther ==
  ASSUME FileInv, NEW r \in Runs, RunStep(r), NEW q \in Runs, q # r, Alone(q)'
  PROVE  Placed(q)'
<1>0. FileTypeOK /\ FileTypeOK' /\ Local(r) /\ MeetingsKnown /\ MeetingsKnown'
      /\ Alone(q) /\ Placed(q)
  BY StepTypes, StepMeetings DEF FileInv
<1>1. pc'[q] = pc[q] /\ err'[q] = err[q] /\ file'[q] = file[q]
  <2>1. q \notin met[r]
    BY <1>0 DEF MeetingsKnown, Alone
  <2> QED BY <1>0, <2>1 DEF Local
<1>2. ~Active(q)
  <2>1. CASE Start(r)
    BY <1>0, <2>1 DEF Start, Alone, FileTypeOK
  <2>2. CASE Active(r)
    BY <1>0, <2>2, AloneIsOnly
  <2> QED BY <1>0, <2>1, <2>2, StepActive
<1>3. pc[q] \in {"idle"} \cup Over
  BY <1>2 DEF Active
<1>4. (tmp' = q => tmp = q) /\ (output' = q => output = q)
  <2>1. tmp' = q => tmp = q
    BY <1>0, StepPaths, RunsAssumption
  <2>2. ASSUME pc[r] = "rename", tmp = q PROVE FALSE
    BY <1>0, <1>2, <2>2 DEF FileInv, LeftoverGoesFirst, Active, Over
  <2> QED BY <1>0, <2>1, <2>2, StepPaths
<1> QED BY <1>0, <1>1, <1>3, <1>4 DEF Placed, Whole, Over

\* A run's step keeps what holds of the file at <output>.tmp and of the checks.
LEMMA StepOwned ==
  ASSUME FileInv, NEW r \in Runs, RunStep(r), NEW q \in Runs
  PROVE  Owned(q)' /\ Checked(q)'
<1>0. FileTypeOK /\ FileTypeOK' /\ Local(r) /\ UNCHANGED runFlags /\ Owned(q) /\ Checked(q)
  BY StepTypes DEF FileInv
<1>1. CASE q # r
  <2>1. pc'[q] = pc[q] /\ err'[q] = err[q] /\ (tmp' = q => tmp = q)
    BY <1>0, <1>1, StepPaths, RunsAssumption DEF Local
  <2>2. (output' = output /\ (q \in stale => q \in stale')) \/ q \in stale'
    BY <1>0, <1>1, StepPaths
  <2> QED BY <1>0, <2>1, <2>2 DEF Owned, Checked, runFlags
<1>2. CASE q = r
  <2> USE <1>0, <1>2, RunsAssumption
      DEF FileTypeOK, Owned, Checked, CheckOutput, Goto, Fail, runFlags, history
  <2>1. CASE Start(r) BY <2>1 DEF Start
  <2>2. CASE Check(r) BY <2>2 DEF Check
  <2>3. CASE Plan(r) BY <2>3 DEF Plan
  <2>4. CASE Recheck(r) BY <2>4 DEF Recheck
  <2>5. CASE RemoveTmp(r) BY <2>5 DEF RemoveTmp
  <2>6. CASE CopyStarts(r) BY <2>6 DEF CopyStarts
  <2>7. CASE CopyEnds(r) BY <2>7 DEF CopyEnds
  <2>8. CASE WriteShared(r) BY <2>8 DEF WriteShared
  <2>9. CASE CopyFails(r) BY <2>9 DEF CopyFails
  <2>10. CASE ReadBack(r) BY <2>10 DEF ReadBack
  <2>11. CASE ReadBackFails(r) BY <2>11 DEF ReadBackFails
  <2>12. CASE Rename(r) BY <2>12 DEF Rename
  <2>13. CASE RenameFails(r) BY <2>13 DEF RenameFails
  <2>14. CASE Stat(r) BY <2>14 DEF Stat
  <2>15. CASE VerifyOutput(r) BY <2>15 DEF VerifyOutput
  <2>16. CASE Kill(r) BY <2>16 DEF Kill, Active, Over
  <2> QED BY <2>1, <2>2, <2>3, <2>4, <2>5, <2>6, <2>7, <2>8, <2>9, <2>10,
             <2>11, <2>12, <2>13, <2>14, <2>15, <2>16 DEF RunStep
<1> QED BY <1>1, <1>2

\* A step of a run keeps all of it.
LEMMA StepFileInv ==
  ASSUME FileInv, NEW r \in Runs, RunStep(r)
  PROVE  FileInv'
<1>1. FileTypeOK' /\ MeetingsKnown' /\ (\A q \in Runs : Alone(q)' => Alone(q))
  BY StepTypes, StepMeetings DEF FileInv
<1>2. LeftoverGoesFirst'
  BY StepLeftover
<1>3. ASSUME NEW q \in Runs, Alone(q)' PROVE Placed(q)'
  BY <1>1, <1>3, StepPlaced, StepPlacedOther
<1>4. \A q \in Runs : Owned(q)' /\ Checked(q)'
  BY StepOwned
<1> QED BY <1>1, <1>2, <1>3, <1>4 DEF FileInv

\* So does another program, whatever it does to the output.
LEMMA OtherKeepsFileInv ==
  ASSUME FileInv, OtherWrites
  PROVE  FileInv'
<1>1. /\ UNCHANGED <<pc, err, overwrite, verify, file, tmp, met>>
      /\ output' \in {Nobody, Other} /\ stale' = Runs
  BY DEF OtherWrites, runFlags
<1>2. FileTypeOK' /\ \A r \in Runs : output' # r
  BY <1>1, RunsAssumption DEF FileInv, FileTypeOK
<1>3. MeetingsKnown' /\ LeftoverGoesFirst'
  BY <1>1 DEF FileInv, MeetingsKnown, LeftoverGoesFirst, Active, Alone
<1>4. ASSUME NEW r \in Runs
      PROVE  (Alone(r) => Placed(r))' /\ Owned(r)' /\ Checked(r)'
  <2>1. (Alone(r) => Placed(r)) /\ Owned(r) /\ Checked(r)
    BY DEF FileInv
  <2> QED BY <1>1, <1>2, <2>1 DEF Alone, Placed, Owned, Checked, Whole
<1> QED BY <1>2, <1>3, <1>4 DEF FileInv

(***************************************************************************)
(* FileInv is an invariant of merge-fies, for every set of runs, however   *)
(* they overlap, every count of their inputs, and whatever other programs  *)
(* do to the output.                                                       *)
(***************************************************************************)
THEOREM FileInvariance == FileSpec => []FileInv
<1>1. FileInv /\ [FileNext]_fileVars => FileInv'
  <2> SUFFICES ASSUME FileInv, [FileNext]_fileVars
               PROVE  FileInv'
    OBVIOUS
  <2>1. CASE UNCHANGED fileVars
    BY <2>1 DEF fileVars, FileInv, FileTypeOK, MeetingsKnown, LeftoverGoesFirst, Alone, Placed,
       Owned, Checked, Active, Whole
  <2>2. CASE FileNext
    BY <2>2, StepFileInv, OtherKeepsFileInv DEF FileNext
  <2> QED BY <2>1, <2>2
<1> QED BY InitFileInv, <1>1, PTL DEF FileSpec

(***************************************************************************)
(* What is at the output is a whole merged file, but for the file of a run *)
(* that another one overlapped.                                            *)
(***************************************************************************)
THEOREM OutputAlwaysWhole == FileSpec => []OutputIsWhole
<1>1. FileInv => OutputIsWhole
  BY DEF FileInv, Placed, OutputIsWhole
<1> QED BY FileInvariance, <1>1, PTL

(***************************************************************************)
(* A run that ended by itself left no temporary file but for a rename that *)
(* failed.                                                                 *)
(***************************************************************************)
THEOREM TmpAlwaysCleaned == FileSpec => []TmpIsCleaned
<1>1. FileInv => TmpIsCleaned
  BY DEF FileInv, Owned, TmpIsCleaned, Active, Over
<1> QED BY FileInvariance, <1>1, PTL

(***************************************************************************)
(* A run that ends in success, and that nobody interfered with, has its    *)
(* own whole file at the output.                                           *)
(***************************************************************************)
THEOREM SuccessAlwaysOwn == FileSpec => SuccessIsOwn
<1>1. FileInv /\ [FileNext]_fileVars
        => [\A r \in Runs :
              pc'[r] = "ok" /\ pc[r] # "ok" /\ Alone(r) /\ r \notin stale
                => output = r /\ Whole(r)]_fileVars
  <2> SUFFICES ASSUME FileInv, FileNext, NEW r \in Runs,
                      pc'[r] = "ok", pc[r] # "ok", Alone(r), r \notin stale
               PROVE  output = r /\ Whole(r)
    OBVIOUS
  <2>1. PICK q \in Runs : RunStep(q)
    BY DEF FileNext, OtherWrites
  <2>2. q = r
    BY <2>1, StepTypes DEF FileInv, Local
  <2>3. pc[r] \in {"stat", "verify"}
    BY <2>1, <2>2 DEF FileInv, FileTypeOK, RunStep, Start, Check, Plan, Recheck,
       RemoveTmp, CopyStarts, CopyEnds, WriteShared, CopyFails, ReadBack, ReadBackFails,
       Rename, RenameFails, Stat, VerifyOutput, Kill, Goto, Fail
  <2> QED BY <2>3 DEF FileInv, Placed
<1> QED BY FileInvariance, <1>1, PTL DEF FileSpec, SuccessIsOwn

(***************************************************************************)
(* No run without --overwrite replaces an output that was there when it    *)
(* checked.                                                                *)
(***************************************************************************)
THEOREM KnownOutputAlwaysKept == FileSpec => KnownOutputIsKept
<1>1. FileInv /\ [FileNext]_fileVars
        => [\A r \in Runs :
              pc[r] = "rename" /\ pc'[r] = "stat" /\ output # Nobody
                => overwrite[r] \/ r \in stale]_fileVars
  BY DEF FileInv, Checked
<1> QED BY FileInvariance, <1>1, PTL DEF FileSpec, KnownOutputIsKept
=============================================================================
