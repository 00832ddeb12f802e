---------------------------- MODULE NetworkProofs ----------------------------
(***************************************************************************)
(* The network module as a whole: the window of a link_downed counter      *)
(* (LinkWindow), and the strikes of the checks (NetworkChecks), for every  *)
(* window, interval, set of checks and limit.                              *)
(*                                                                         *)
(* First the window.  The bounded deque decides as the whole history       *)
(* would: it is a suffix of the history (Suffix), readings are at least an *)
(* interval apart (Spaced), and so a full deque spans the window: what it  *)
(* dropped is older than the cutoff.  That a first reading at or after a   *)
(* cutoff exists (HasOldest) is carried along, reading by reading.         *)
(***************************************************************************)
EXTENDS NetworkChecks, LinkWindow, TLAPS

(* The deque is one slot longer than the intervals that cover the window. *)
LEMMA MaxLenCovers ==
    MaxLen \in Nat /\ MaxLen >= 2 /\ (MaxLen - 1) * Interval >= Window
<1> DEFINE q == (Window + Interval - 1) \div Interval
<1>1. Window \in Nat /\ Interval \in Nat /\ Window >= 1 /\ Interval >= 1
    BY LinkWindowAssumption
<1>2. q \in Int /\ Window + Interval - 1 < (q + 1) * Interval /\ q * Interval <= Window + Interval - 1
    BY <1>1
<1>3. q >= 1
    <2>1. SUFFICES ASSUME q <= 0 PROVE FALSE
        BY <1>2
    <2>2. (q + 1) * Interval <= Interval
        BY <2>1, <1>1, <1>2
    <2> QED
        BY <2>2, <1>1, <1>2
<1>4. (q + 1) * Interval = q * Interval + Interval
    BY <1>1, <1>2
<1> QED
    BY <1>1, <1>2, <1>3, <1>4 DEF MaxLen, CeilDiv

(* Counters and readings keep their types; a counter never exceeds the     *)
(* link-down events there were.                                            *)
Sample == [value : 0..MaxDowns, ts : Nat]
Reads == [value : 0..MaxDowns, ts : Nat, read : BOOLEAN,
             downs : 0..MaxDowns, restarted : BOOLEAN]

Typed ==
    /\ LinkTypeOK
    /\ counter <= downs

LEMMA RecordTyped ==
    ASSUME NEW s \in Seq(Sample), Len(s) <= MaxLen, NEW x \in Sample
    PROVE  /\ Record(s, x) \in Seq(Sample)
           /\ Len(Record(s, x)) <= MaxLen
           /\ Len(Record(s, x)) = IF Len(s) < MaxLen THEN Len(s) + 1 ELSE Len(s)
           /\ Record(s, x)[Len(Record(s, x))] = x
           /\ \A i \in 1..(Len(Record(s, x)) - 1) :
                 Record(s, x)[i] = IF Len(s) < MaxLen THEN s[i] ELSE s[i + 1]
<1>1. MaxLen \in Nat /\ MaxLen >= 2
    BY MaxLenCovers
<1>2. CASE Len(s) < MaxLen
    BY <1>1, <1>2 DEF Record
<1>3. CASE ~(Len(s) < MaxLen)
    BY <1>1, <1>3 DEF Record
<1> QED
    BY <1>2, <1>3

LEMMA EvaluateTyped == \A s : Evaluate(s) \in LinkLevels
    BY DEF Evaluate, LinkLevels

(* A poll appends one reading, at least an interval after the last one.    *)
LEMMA CheckFieldAppends ==
    ASSUME Typed, CheckField
    PROVE  \E r \in Reads :
             /\ history' = Append(history, r)
             /\ samples' = Record(samples, [value |-> r.value, ts |-> r.ts])
             /\ history # <<>> => r.ts >= history[Len(history)].ts + Interval
             /\ r.value = IF r.read THEN counter ELSE 0
             /\ r.downs = downs /\ r.restarted = restarted
<1>1. PICK read \in BOOLEAN, gap \in Gaps :
         LET ts == IF history = <<>> THEN 0 ELSE Last(history).ts + gap
         IN  /\ samples' = Record(samples, [value |-> Reading(read), ts |-> ts])
             /\ history' = Append(history,
                    [value |-> Reading(read), ts |-> ts, read |-> read,
                     downs |-> downs, restarted |-> restarted])
    BY DEF CheckField
<1> DEFINE ts == IF history = <<>> THEN 0 ELSE Last(history).ts + gap
<1> DEFINE r == [value |-> Reading(read), ts |-> ts, read |-> read,
                 downs |-> downs, restarted |-> restarted]
<1>2. history \in Seq(Reads)
    BY DEF Typed, LinkTypeOK, Reads
<1>3. gap \in Nat /\ gap >= Interval /\ Interval \in Nat
    BY LinkWindowAssumption
<1>4. history # <<>> => history[Len(history)] \in Reads
    BY <1>2
<1>5. ts \in Nat
    BY <1>3, <1>4 DEF Reads, Last
<1>6. Reading(read) \in 0..MaxDowns
    <2>1. CASE read
        BY <2>1 DEF Reading, Typed, LinkTypeOK
    <2>2. CASE ~read
        BY <2>2, LinkWindowAssumption DEF Reading
    <2> QED
        BY <2>1, <2>2
<1>7. history # <<>> => ts >= history[Len(history)].ts + Interval
    BY <1>3, <1>4 DEF Reads, Last
<1>8. /\ history' = Append(history, r)
      /\ samples' = Record(samples, [value |-> r.value, ts |-> r.ts])
    BY <1>1
<1>9. r \in Reads
    <2> HIDE DEF ts
    <2> QED
        BY <1>5, <1>6 DEF Reads, Typed, LinkTypeOK
<1>10. /\ r.ts = ts
       /\ r.value = (IF r.read THEN counter ELSE 0)
       /\ r.downs = downs /\ r.restarted = restarted
    BY DEF Reading
<1> HIDE DEF r, ts
<1> QED
    BY <1>7, <1>8, <1>9, <1>10

LEMMA TypedInit == LinkInit => Typed
<1> SUFFICES ASSUME LinkInit PROVE Typed
    OBVIOUS
<1>1. MaxLen \in Nat /\ MaxLen >= 0 /\ 0 \in 0..MaxDowns
    BY MaxLenCovers, LinkWindowAssumption
<1>2. /\ samples \in Seq([value : 0..MaxDowns, ts : Nat]) /\ Len(samples) <= MaxLen
      /\ history \in Seq([value : 0..MaxDowns, ts : Nat, read : BOOLEAN,
                         downs : 0..MaxDowns, restarted : BOOLEAN])
    BY <1>1 DEF LinkInit
<1>3. counter \in 0..MaxDowns /\ downs \in 0..MaxDowns /\ counter <= downs
    BY <1>1 DEF LinkInit
<1> QED
    BY <1>2, <1>3 DEF LinkInit, Typed, LinkTypeOK, LinkLevels

LEMMA TypedNext == Typed /\ [LinkNext]_linkVars => Typed'
<1> SUFFICES ASSUME Typed, [LinkNext]_linkVars PROVE Typed'
    OBVIOUS
<1> USE LinkWindowAssumption
<1>1. CASE LinkDown
    <2>1. downs \in Nat /\ counter \in Nat /\ counter <= downs /\ downs < MaxDowns
        BY <1>1 DEF Typed, LinkTypeOK, LinkDown
    <2>2. counter' = counter + 1 /\ downs' = downs + 1
        BY <1>1 DEF LinkDown
    <2>3. counter' \in 0..MaxDowns /\ downs' \in 0..MaxDowns /\ counter' <= downs'
        BY <2>1, <2>2
    <2> QED
        BY <1>1, <2>3 DEF Typed, LinkTypeOK, LinkDown
<1>2. CASE Reset
    BY <1>2 DEF Typed, LinkTypeOK, Reset
<1>3. CASE CheckField
    <2>1. PICK r \in Reads :
             /\ history' = Append(history, r)
             /\ samples' = Record(samples, [value |-> r.value, ts |-> r.ts])
        BY <1>3, CheckFieldAppends
    <2>2. samples' \in Seq(Sample) /\ Len(samples') <= MaxLen
        <3>1. [value |-> r.value, ts |-> r.ts] \in Sample
            BY DEF Sample, Reads
        <3>2. samples \in Seq(Sample) /\ Len(samples) <= MaxLen
            BY DEF Typed, LinkTypeOK, Sample
        <3> QED
            BY <2>1, <3>1, <3>2, RecordTyped
    <2>3. history' \in Seq(Reads)
        BY <2>1 DEF Typed, LinkTypeOK, Reads
    <2>4. level' \in LinkLevels
        BY <1>3, EvaluateTyped DEF CheckField
    <2> QED
        BY <1>3, <2>2, <2>3, <2>4 DEF CheckField, Typed, LinkTypeOK, Sample, Reads
<1>4. CASE UNCHANGED linkVars
    BY <1>4 DEF Typed, LinkTypeOK, linkVars
<1> QED
    BY <1>1, <1>2, <1>3, <1>4 DEF LinkNext

THEOREM TypedInvariant == LinkSpec => []Typed
    BY TypedInit, TypedNext, PTL DEF LinkSpec

(* The window, the readings and the counter keep their types (LinkTypeOK).     *)
THEOREM LinkTypeCorrect == LinkSpec => []LinkTypeOK
<1>1. Typed => LinkTypeOK
    BY DEF Typed
<1> QED
    BY <1>1, TypedInvariant, PTL

-----------------------------------------------------------------------------
(* The deque holds the last readings, all of them until it is full.        *)
Suffix ==
    /\ Len(samples) = IF Len(history) < MaxLen THEN Len(history) ELSE MaxLen
    /\ \A i \in 1..Len(samples) :
          LET h == history[Len(history) - Len(samples) + i]
          IN  samples[i] = [value |-> h.value, ts |-> h.ts]

(* Readings are at least an interval apart. *)
Spaced ==
    \A i, j \in 1..Len(history) :
        i <= j => history[j].ts - history[i].ts >= (j - i) * Interval

(* Every cutoff up to the last reading has a first reading at or after it. *)
First(s, c, i) ==
    i \in 1..Len(s) /\ s[i].ts >= c /\ \A j \in 1..Len(s) : s[j].ts >= c => i <= j

HasOldest ==
    history # <<>> =>
        \A c \in Int : c <= history[Len(history)].ts => \E i \in Nat : First(history, c, i)

Decided == level = IF history = <<>> THEN "none" ELSE Evaluate(history)

Ring == Typed /\ Suffix /\ Spaced /\ HasOldest

(* Oldest is the first reading at or after the cutoff. *)
LEMMA OldestIsFirst ==
    ASSUME NEW s, NEW i \in Nat, Len(s) \in Nat, First(s, Last(s).ts - Window, i)
    PROVE  Oldest(s) = s[i]
<1> DEFINE S == {k \in 1..Len(s) : s[k].ts >= Last(s).ts - Window}
<1>1. i \in S /\ \A j \in S : i <= j
    BY DEF First
<1>2. S \subseteq Int
    OBVIOUS
<1>3. \A x \in S : (\A j \in S : x <= j) => x = i
    BY <1>1, <1>2
<1>4. Min(S) = i
    <2> HIDE DEF S
    <2> QED
        BY <1>1, <1>3 DEF Min
<1> QED
    BY <1>4 DEF Oldest

(* A deque and a history that agree as Ring says decide alike. *)
LEMMA DequeDecides ==
    Ring /\ history # <<>> => Evaluate(samples) = Evaluate(history)
<1> SUFFICES ASSUME Ring, history # <<>>
             PROVE  Evaluate(samples) = Evaluate(history)
    OBVIOUS
<1> DEFINE n == Len(history)
<1> DEFINE m == Len(samples)
<1> DEFINE d == n - m
<1> DEFINE last == history[n].ts
<1>1. MaxLen \in Nat /\ MaxLen >= 2 /\ (MaxLen - 1) * Interval >= Window
    BY MaxLenCovers
<1>2. Window \in Nat /\ Window >= 1 /\ Interval \in Nat /\ Interval >= 1
    BY LinkWindowAssumption
<1>3. history \in Seq(Reads) /\ samples \in Seq(Sample) /\ n \in Nat /\ n >= 1
    BY DEF Ring, Typed, LinkTypeOK, Reads, Sample
<1>4. m \in Nat /\ m >= 1 /\ d \in Nat /\ (d > 0 => m = MaxLen)
    BY <1>1, <1>3 DEF Ring, Suffix
<1>5. \A i \in 1..n : history[i].ts \in Nat /\ history[i].value \in Int
    <2>1. \A i \in 1..n : history[i] \in Reads
        BY <1>3
    <2> QED
        BY <2>1, LinkWindowAssumption DEF Reads
<1>6. \A i \in 1..m : /\ samples[i].ts = history[d + i].ts
                      /\ samples[i].value = history[d + i].value
    <2>1. \A i \in 1..m :
             samples[i] = [value |-> history[d + i].value, ts |-> history[d + i].ts]
        BY DEF Ring, Suffix
    <2> SUFFICES ASSUME NEW i \in 1..m
                 PROVE  /\ samples[i].ts = history[d + i].ts
                        /\ samples[i].value = history[d + i].value
        OBVIOUS
    <2>2. samples[i] = [value |-> history[d + i].value, ts |-> history[d + i].ts]
        BY <2>1
    <2> HIDE DEF m, d
    <2> QED
        BY <2>2
<1>0. \A i, j \in 1..n : i <= j => history[j].ts - history[i].ts >= (j - i) * Interval
    BY DEF Ring, Spaced
<1>7. Last(samples).ts = last /\ Last(samples).value = history[n].value
    BY <1>4, <1>6, <1>3 DEF Last
<1>8. Last(history).ts = last /\ Last(history).value = history[n].value
    BY DEF Last
<1>18. d + m = n /\ last = history[n].ts /\ n = Len(history) /\ m = Len(samples)
    BY <1>3, <1>4
<1> HIDE DEF n, m, d, last
(* What the deque dropped is older than the cutoff. *)
<1>9. \A j \in 1..d : history[j].ts < last - Window
    <2> SUFFICES ASSUME NEW j \in 1..d PROVE history[j].ts < last - Window
        OBVIOUS
    <2>1. last - history[j].ts >= (n - j) * Interval
        <3>1. j \in 1..n /\ n \in 1..n /\ j <= n
            BY <1>3, <1>4, <1>18
        <3> QED
            BY <3>1, <1>0, <1>18
    <2>2. n - j \in Nat /\ n - j >= MaxLen
        BY <1>4, <1>3, <1>1, <1>18
    <2>3. (n - j) * Interval >= MaxLen * Interval
        BY <2>2, <1>1, <1>2
    <2>4. MaxLen * Interval = (MaxLen - 1) * Interval + Interval
        BY <1>1, <1>2
    <2>5. j \in 1..n /\ n \in 1..n
        BY <1>3, <1>4, <1>18
    <2>6. history[j].ts \in Int /\ last \in Int
        BY <2>5, <1>5, <1>18
    <2>7. MaxLen * Interval \in Int /\ (n - j) * Interval \in Int /\ (MaxLen - 1) * Interval \in Int
        BY <2>2, <1>1, <1>2
    <2>8. (n - j) * Interval > Window
        BY <2>3, <2>4, <2>7, <1>1, <1>2
    <2> QED
        BY <2>1, <2>6, <2>7, <2>8, <1>2
(* A full deque, and with it the history, spans the window. *)
<1>10. Sufficient(samples) = Sufficient(history)
    <2>1. Span(samples) = last - history[d + 1].ts /\ Span(history) = last - history[1].ts
        BY <1>3, <1>4, <1>6, <1>7, <1>8, <1>18 DEF Span
    <2>2. CASE d = 0
        BY <2>1, <2>2, <1>3, <1>4, <1>18 DEF Sufficient
    <2>3. CASE d > 0
        <3>1. m = MaxLen /\ n >= m /\ 1 \in 1..d /\ d + 1 \in 1..n
            BY <2>3, <1>1, <1>4, <1>3, <1>18
        <3>2. last - history[d + 1].ts >= (n - (d + 1)) * Interval
            BY <3>1, <1>0, <1>3, <1>4, <1>18
        <3>3. n - (d + 1) = MaxLen - 1
            BY <3>1, <1>1, <1>3, <1>4, <1>18
        <3>4. last - history[d + 1].ts >= (MaxLen - 1) * Interval
            BY <3>2, <3>3
        <3>5. /\ history[d + 1].ts \in Int /\ history[1].ts \in Int /\ last \in Int
              /\ (MaxLen - 1) * Interval \in Int
            BY <3>1, <1>5, <1>3, <1>18, <1>1, <1>2
        <3>6. last - history[d + 1].ts >= Window
            BY <3>4, <3>5, <1>1, <1>2
        <3>7. last - history[1].ts >= Window
            BY <3>1, <3>5, <1>9, <1>2
        <3> QED
            BY <2>1, <3>1, <3>6, <3>7, <1>1, <1>3, <1>4, <1>18 DEF Sufficient
    <2> QED
        BY <2>2, <2>3, <1>4
<1>11. PICK k \in Nat : First(history, last - Window, k)
    <2>1. last - Window \in Int /\ last - Window <= history[Len(history)].ts
        BY <1>2, <1>3, <1>5, <1>18
    <2> QED
        BY <2>1, <1>18 DEF Ring, HasOldest
<1>12. k > d /\ k \in 1..n
    <2>1. k \in 1..n /\ history[k].ts >= last - Window
        BY <1>11, <1>18 DEF First
    <2>2. ~(k \in 1..d)
        <3>1. history[k].ts \in Int /\ last \in Int
            <4>1. n \in 1..n
                BY <1>3
            <4> QED
                BY <2>1, <4>1, <1>5, <1>18
        <3> QED
            BY <2>1, <3>1, <1>9, <1>2
    <2> QED
        BY <2>1, <2>2, <1>3, <1>4, <1>18
<1>13. First(samples, last - Window, k - d)
    <2>1. k - d \in 1..m /\ samples[k - d].ts = history[k].ts
        BY <1>12, <1>6, <1>3, <1>4, <1>18
    <2>2. ASSUME NEW j \in 1..m, samples[j].ts >= last - Window PROVE k - d <= j
        <3>1. d + j \in 1..n /\ history[d + j].ts >= last - Window
            BY <2>2, <1>6, <1>3, <1>4, <1>18
        <3> QED
            BY <3>1, <1>11, <1>3, <1>4, <1>18 DEF First
    <2> QED
        BY <2>1, <2>2, <1>11, <1>18 DEF First
<1>14. Oldest(history) = history[k]
    BY <1>3, <1>8, <1>11, <1>18, OldestIsFirst
<1>15. Oldest(samples) = samples[k - d]
    <2>1. k - d \in Nat
        BY <1>12, <1>4
    <2> QED
        BY <2>1, <1>4, <1>7, <1>13, <1>18, OldestIsFirst
<1>16. samples[k - d].value = history[k].value
    <2>1. k - d \in 1..m /\ d + (k - d) = k
        BY <1>12, <1>3, <1>4, <1>18
    <2> QED
        BY <2>1, <1>6
<1>17. Delta(samples) = Delta(history)
    BY <1>7, <1>8, <1>14, <1>15, <1>16 DEF Delta
<1> QED
    BY <1>10, <1>17 DEF Evaluate

-----------------------------------------------------------------------------
LEMMA RingInit == LinkInit => Ring
<1> SUFFICES ASSUME LinkInit PROVE Ring
    OBVIOUS
<1>1. MaxLen \in Nat /\ MaxLen >= 2
    BY MaxLenCovers
<1>2. Typed
    BY TypedInit
<1> QED
    BY <1>1, <1>2 DEF LinkInit, Ring, Suffix, Spaced, HasOldest

LEMMA RingCheckField ==
    ASSUME Ring, CheckField, Typed'
    PROVE  Ring'
<1> DEFINE n == Len(history)
<1> DEFINE m == Len(samples)
<1>1. PICK r \in Reads :
         /\ history' = Append(history, r)
         /\ samples' = Record(samples, [value |-> r.value, ts |-> r.ts])
         /\ history # <<>> => r.ts >= history[Len(history)].ts + Interval
    BY CheckFieldAppends DEF Ring
<1>2. MaxLen \in Nat /\ MaxLen >= 2 /\ Interval \in Nat /\ Interval >= 1
    BY MaxLenCovers, LinkWindowAssumption
<1>3. history \in Seq(Reads) /\ n \in Nat /\ samples \in Seq(Sample) /\ m \in Nat
    BY DEF Ring, Typed, LinkTypeOK, Reads, Sample
<1>4. /\ history' \in Seq(Reads) /\ Len(history') = n + 1 /\ history'[n + 1] = r
      /\ \A i \in 1..n : history'[i] = history[i]
    BY <1>1, <1>3
<1>5. r.ts \in Nat /\ \A i \in 1..n : history[i].ts \in Nat
    <2>1. \A i \in 1..n : history[i] \in Reads
        BY <1>3
    <2> QED
        BY <2>1 DEF Reads
<1>6. Suffix'
    <2>1. [value |-> r.value, ts |-> r.ts] \in Sample /\ m <= MaxLen
        BY DEF Sample, Reads, Ring, Typed, LinkTypeOK
    <2> DEFINE x == [value |-> r.value, ts |-> r.ts]
    <2>2. /\ Len(samples') = IF m < MaxLen THEN m + 1 ELSE m
          /\ samples'[Len(samples')] = x
          /\ \A i \in 1..(Len(samples') - 1) :
                samples'[i] = IF m < MaxLen THEN samples[i] ELSE samples[i + 1]
        <3> HIDE DEF x
        <3>1. samples' = Record(samples, x) /\ x \in Sample
            BY <1>1, <2>1 DEF x
        <3> QED
            BY <3>1, <2>1, <1>3, RecordTyped
    <2>3. m = IF n < MaxLen THEN n ELSE MaxLen
        BY DEF Ring, Suffix
    <2>4. \A i \in 1..m : samples[i] = [value |-> history[n - m + i].value,
                                        ts |-> history[n - m + i].ts]
        BY DEF Ring, Suffix
    <2>5. \A i \in 1..Len(samples') :
             samples'[i] = [value |-> history'[n + 1 - Len(samples') + i].value,
                            ts |-> history'[n + 1 - Len(samples') + i].ts]
        <3> SUFFICES ASSUME NEW i \in 1..Len(samples')
                     PROVE  samples'[i] = [value |-> history'[n + 1 - Len(samples') + i].value,
                                           ts |-> history'[n + 1 - Len(samples') + i].ts]
            OBVIOUS
        <3>1. CASE i = Len(samples')
            <4>1. n + 1 - Len(samples') + i = n + 1
                BY <3>1, <1>2, <1>3, <2>2
            <4> QED
                BY <3>1, <4>1, <2>2, <1>4
        <3>2. CASE i # Len(samples') /\ m < MaxLen
            <4>1. Len(samples') = m + 1 /\ i \in Nat /\ i >= 1 /\ i <= m /\ m = n
                BY <3>2, <1>3, <2>2, <2>3, <1>2
            <4>2. i \in 1..m /\ i \in 1..((m + 1) - 1)
                BY <4>1, <1>3
            <4>3. n + 1 - (m + 1) + i = n - m + i /\ n - m + i \in 1..n
                BY <4>1, <1>3
            <4> HIDE DEF n, m
            <4> QED
                <5>1. samples'[i] = samples[i]
                    BY <4>1, <4>2, <3>2, <2>2
                <5>2. history'[n - m + i] = history[n - m + i]
                    BY <4>3, <1>4
                <5>3. n + 1 - Len(samples') + i = n - m + i
                    BY <4>1, <4>3
                <5> QED
                    BY <5>1, <5>2, <5>3, <4>2, <2>4
        <3>3. CASE i # Len(samples') /\ ~(m < MaxLen)
            <4>1. Len(samples') = m /\ i \in Nat /\ i >= 1 /\ i <= m
                BY <3>3, <1>3, <2>2
            <4>2. m <= n
                BY <2>3, <1>2, <1>3
            <4>3. i + 1 \in 1..m /\ i \in 1..(m - 1)
                BY <4>1, <3>3, <1>3
            <4>4. n + 1 - m + i = n - m + (i + 1) /\ n - m + (i + 1) \in 1..n
                BY <4>1, <4>2, <4>3, <1>3
            <4> HIDE DEF n, m
            <4> QED
                BY <4>1, <4>3, <4>4, <3>3, <2>2, <2>4, <1>4
        <3> QED
            BY <3>1, <3>2, <3>3
    <2>6. Len(samples') = IF n + 1 < MaxLen THEN n + 1 ELSE MaxLen
        BY <2>2, <2>3, <1>2, <1>3
    <2>7. Len(history') = n + 1
        BY <1>4
    <2>8. Len(samples') = IF Len(history') < MaxLen THEN Len(history') ELSE MaxLen
        BY <2>6, <2>7
    <2>9. ASSUME NEW i \in 1..Len(samples')
          PROVE  samples'[i] = [value |-> history'[Len(history') - Len(samples') + i].value,
                                ts |-> history'[Len(history') - Len(samples') + i].ts]
        BY <2>5, <2>7
    <2> QED
        BY <2>8, <2>9, Zenon DEF Suffix
<1>7. Spaced'
    <2> SUFFICES ASSUME NEW i \in 1..(n + 1), NEW j \in 1..(n + 1), i <= j
                 PROVE  history'[j].ts - history'[i].ts >= (j - i) * Interval
        BY <1>4 DEF Spaced
    <2>0. i \in Nat /\ j \in Nat
        BY <1>3
    <2>1. CASE j <= n
        <3>1. i \in 1..n /\ j \in 1..n
            BY <2>1, <2>0, <1>3
        <3>2. history[j].ts - history[i].ts >= (j - i) * Interval
            BY <3>1 DEF Ring, Spaced
        <3> QED
            BY <3>1, <3>2, <1>4
    <2>2. CASE i = j
        <3>1. history'[i].ts \in Int
            BY <1>4, <1>5, <2>0, <1>3
        <3>2. (j - i) * Interval = 0
            BY <2>2, <2>0, <1>2
        <3> QED
            BY <2>2, <3>1, <3>2
    <2>3. CASE j = n + 1 /\ i <= n
        <3>1. i \in 1..n /\ n \in 1..n /\ history # <<>> /\ i <= n
            BY <2>3, <2>0, <1>3
        <3>2. history[n].ts - history[i].ts >= (n - i) * Interval
            BY <3>1 DEF Ring, Spaced
        <3>3. r.ts >= history[n].ts + Interval
            BY <3>1, <1>1
        <3>4. (j - i) * Interval = (n - i) * Interval + Interval
            BY <2>3, <3>1, <1>2, <1>3
        <3>5. (n - i) * Interval \in Int /\ history[n].ts \in Int /\ history[i].ts \in Int
            BY <3>1, <1>2, <1>3, <1>5
        <3>6. r.ts - history[i].ts >= (n - i) * Interval + Interval
            <4> HIDE DEF n
            <4> QED
              BY <3>2, <3>3, <3>5, <1>2, <1>5
        <3> QED
            BY <2>3, <3>1, <3>4, <3>6, <1>4
    <2> QED
        BY <2>1, <2>2, <2>3, <2>0, <1>3
<1>8. HasOldest'
    <2> SUFFICES ASSUME NEW c \in Int, c <= r.ts
                 PROVE  \E i \in Nat : First(history', c, i)
        BY <1>4 DEF HasOldest
    <2>1. CASE history # <<>> /\ c <= history[n].ts
        <3>1. PICK i \in Nat : First(history, c, i)
            BY <2>1 DEF Ring, HasOldest
        <3>2. i \in 1..n /\ history[i].ts >= c /\ \A j \in 1..n : history[j].ts >= c => i <= j
            BY <3>1 DEF First
        <3>3. \A j \in 1..(n + 1) : history'[j].ts >= c => i <= j
            <4> SUFFICES ASSUME NEW j \in 1..(n + 1), history'[j].ts >= c PROVE i <= j
                OBVIOUS
            <4>1. j \in 1..n \/ j = n + 1
                BY <1>3
            <4> QED
                BY <4>1, <3>2, <1>3, <1>4
        <3>4. i \in 1..(n + 1) /\ history'[i].ts >= c
            BY <3>2, <1>3, <1>4
        <3> QED
            BY <3>3, <3>4, <1>4 DEF First
    <2>2. CASE ~(history # <<>> /\ c <= history[n].ts)
        <3>1. \A j \in 1..n : ~(history'[j].ts >= c)
            <4> SUFFICES ASSUME NEW j \in 1..n PROVE ~(history'[j].ts >= c)
                OBVIOUS
            <4>1. n \in 1..n /\ history # <<>> /\ j <= n
                BY <1>3
            <4>2. history[n].ts - history[j].ts >= (n - j) * Interval
                BY <4>1 DEF Ring, Spaced
            <4>3. (n - j) * Interval >= 0 /\ (n - j) * Interval \in Int
                BY <4>1, <1>2, <1>3
            <4>4. /\ history[n].ts \in Int /\ history[j].ts \in Int
                  /\ history'[j] = history[j] /\ ~(c <= history[n].ts)
                BY <2>2, <4>1, <1>4, <1>5
            <4> HIDE DEF n
            <4> QED
                BY <4>2, <4>3, <4>4
        <3>2. \A j \in 1..(n + 1) : history'[j].ts >= c => n + 1 <= j
            <4> SUFFICES ASSUME NEW j \in 1..(n + 1), history'[j].ts >= c PROVE n + 1 <= j
                OBVIOUS
            <4>1. j \in 1..n \/ j = n + 1
                BY <1>3
            <4> QED
                BY <4>1, <3>1, <1>3
        <3>3. n + 1 \in 1..(n + 1) /\ history'[n + 1].ts >= c
            BY <1>3, <1>4
        <3> QED
            BY <3>2, <3>3, <1>3, <1>4 DEF First
    <2> QED
        BY <2>1, <2>2
<1> QED
    BY <1>6, <1>7, <1>8 DEF Ring

THEOREM RingInvariant == LinkSpec => [](Ring /\ Decided)
<1>1. LinkInit => Ring /\ Decided
    BY RingInit DEF LinkInit, Decided
<1>2. Ring /\ Decided /\ [LinkNext]_linkVars => (Ring /\ Decided)'
    <2> SUFFICES ASSUME Ring, Decided, [LinkNext]_linkVars PROVE (Ring /\ Decided)'
        OBVIOUS
    <2>1. Typed'
        BY TypedNext DEF Ring
    <2>2. CASE CheckField
        <3>1. Ring'
            BY <2>1, <2>2, RingCheckField
        <3>2. history' # <<>>
            <4>1. PICK r \in Reads : history' = Append(history, r)
                BY <2>2, CheckFieldAppends DEF Ring
            <4>2. history \in Seq(Reads)
                BY DEF Ring, Typed, LinkTypeOK, Reads
            <4>3. Len(history') = Len(history) + 1 /\ Len(history) \in Nat
                BY <4>1, <4>2
            <4> QED
                BY <4>3
        <3>3. level' = Evaluate(samples')
            BY <2>2 DEF CheckField
        <3>4. (Ring /\ history # <<>>)'
            BY <3>1, <3>2
        <3>5. (Evaluate(samples) = Evaluate(history))'
            BY <3>4, DequeDecides, PTL
        <3>6. Evaluate(samples') = Evaluate(samples)' /\ Evaluate(history') = Evaluate(history)'
            BY DEF Evaluate, Sufficient, Delta, Oldest, Span, Last
        <3> QED
            BY <3>1, <3>2, <3>3, <3>5, <3>6 DEF Decided
    <2>3. CASE UNCHANGED <<samples, level, history>>
        BY <2>1, <2>3 DEF Ring, Suffix, Spaced, HasOldest, Decided, First
    <2> QED
        BY <2>2, <2>3 DEF LinkNext, LinkDown, Reset, linkVars
<1> QED
    BY <1>1, <1>2, PTL DEF LinkSpec

(* What the deque of ceil(window / 60) + 1 samples dropped is never missed *)
(* (RingIsEnough), whatever the window, the levels and the gaps.           *)
THEOREM DequeIsEnough == LinkSpec => []RingIsEnough
<1>1. Decided => RingIsEnough
    BY DEF Decided, RingIsEnough
<1> QED
    BY <1>1, RingInvariant, PTL

-----------------------------------------------------------------------------
(* What a reading that succeeded says of the link, against every reading   *)
(* before it: the counter grew by no more than the link-down events in     *)
(* between (it may have started again), and by no less when it did not     *)
(* start again.  An earlier reading that failed is a 0, below the counter. *)
NotMore(i, value, since) == history[i].read => value - history[i].value <= since - history[i].downs
NotLess(i, value, since) == value - history[i].value >= since - history[i].downs

NoRestart(i, j) == \A m \in (i + 1)..j : ~history[m].restarted

Growth ==
    \A i, j \in 1..Len(history) : i <= j =>
        /\ NotMore(i, history[j].value, history[j].downs)
        /\ history[j].read /\ NoRestart(i, j) => NotLess(i, history[j].value, history[j].downs)

(* The same for the counter itself, which the next reading shows. *)
GrowthNow ==
    \A i \in 1..Len(history) :
        /\ history[i].downs <= downs
        /\ NotMore(i, counter, downs)
        /\ ~restarted /\ NoRestart(i, Len(history)) => NotLess(i, counter, downs)

LEMMA GrowthInit == LinkInit => Growth /\ GrowthNow
    BY DEF LinkInit, Growth, GrowthNow

(* The readings of the history are numbers. *)
LEMMA ReadingsTyped ==
    ASSUME Typed
    PROVE  /\ Len(history) \in Nat
           /\ counter \in Nat /\ downs \in Nat
           /\ \A i \in 1..Len(history) :
                 /\ history[i].value \in Nat /\ history[i].ts \in Nat
                 /\ history[i].downs \in Nat
                 /\ history[i].read \in BOOLEAN /\ history[i].restarted \in BOOLEAN
<1>1. history \in Seq(Reads) /\ counter \in Nat /\ downs \in Nat
    BY LinkWindowAssumption DEF Typed, LinkTypeOK, Reads
<1>2. \A i \in 1..Len(history) : history[i] \in Reads
    BY <1>1
<1> QED
    BY <1>1, <1>2, LinkWindowAssumption DEF Reads

LEMMA GrowthLinkDown ==
    ASSUME Typed, GrowthNow, LinkDown
    PROVE  GrowthNow'
<1>1. downs' = downs + 1 /\ counter' = counter + 1 /\ restarted' = restarted /\ history' = history
    BY DEF LinkDown
<1> SUFFICES ASSUME NEW i \in 1..Len(history)
             PROVE  /\ history[i].downs <= downs'
                    /\ NotMore(i, counter', downs')
                    /\ ~restarted /\ NoRestart(i, Len(history)) => NotLess(i, counter', downs')
    BY <1>1 DEF GrowthNow, NotMore, NotLess, NoRestart
<1>2. /\ history[i].value \in Nat /\ history[i].downs \in Nat
      /\ counter \in Nat /\ downs \in Nat
    BY ReadingsTyped
<1>3. /\ history[i].downs <= downs /\ NotMore(i, counter, downs)
      /\ ~restarted /\ NoRestart(i, Len(history)) => NotLess(i, counter, downs)
    BY DEF GrowthNow
<1>4. NotMore(i, counter, downs) => NotMore(i, counter + 1, downs + 1)
    BY <1>2 DEF NotMore
<1>5. NotLess(i, counter, downs) => NotLess(i, counter + 1, downs + 1)
    BY <1>2 DEF NotLess
<1> QED
    BY <1>1, <1>2, <1>3, <1>4, <1>5

(* A counter that starts again is behind, and says so. *)
LEMMA GrowthReset ==
    ASSUME Typed, GrowthNow, Reset
    PROVE  GrowthNow'
<1>1. downs' = downs /\ counter' = 0 /\ restarted' = TRUE /\ history' = history
    BY DEF Reset
<1> SUFFICES ASSUME NEW i \in 1..Len(history)
             PROVE  history[i].downs <= downs /\ NotMore(i, 0, downs)
    BY <1>1 DEF GrowthNow, NotMore, NotLess, NoRestart
<1>2. /\ history[i].value \in Nat /\ history[i].downs \in Nat /\ downs \in Nat
    BY ReadingsTyped
<1> QED
    BY <1>2 DEF GrowthNow, NotMore

LEMMA GrowthCheckField ==
    ASSUME Typed, Growth, GrowthNow, CheckField
    PROVE  Growth' /\ GrowthNow'
<1> DEFINE n == Len(history)
<1>1. PICK r \in Reads :
         /\ history' = Append(history, r)
         /\ r.value = IF r.read THEN counter ELSE 0
         /\ r.downs = downs /\ r.restarted = restarted
    BY CheckFieldAppends
<1>2. restarted' = FALSE /\ counter' = counter /\ downs' = downs
    BY DEF CheckField
<1>3. history \in Seq(Reads) /\ n \in Nat /\ counter \in Nat /\ downs \in Nat /\ counter <= downs
    BY LinkWindowAssumption DEF Typed, LinkTypeOK, Reads
<1>4. /\ Len(history') = n + 1 /\ history'[n + 1] = r
      /\ \A i \in 1..n : history'[i] = history[i]
    BY <1>1, <1>3
<1>5. \A i \in 1..n : /\ history[i].value \in Nat /\ history[i].downs \in Nat
                      /\ history[i].read \in BOOLEAN /\ history[i].restarted \in BOOLEAN
    BY ReadingsTyped
<1>6. /\ r.value \in Nat /\ r.downs \in Nat /\ r.restarted = restarted /\ r.downs = downs
      /\ r.value <= counter /\ (r.read => r.value = counter)
    BY <1>1, <1>3
<1> HIDE DEF n
(* The new reading against those before it. *)
<1>7. ASSUME NEW i \in 1..n
      PROVE  /\ history[i].read => r.value - history[i].value <= downs - history[i].downs
             /\ r.read /\ ~r.restarted /\ NoRestart(i, n) =>
                   r.value - history[i].value >= downs - history[i].downs
             /\ history[i].downs <= downs
    <2>1. /\ history[i].downs <= downs /\ NotMore(i, counter, downs)
          /\ ~restarted /\ NoRestart(i, n) => NotLess(i, counter, downs)
        BY DEF GrowthNow, n
    <2> QED
        BY <2>1, <1>3, <1>5, <1>6 DEF NotMore, NotLess
<1>8. ASSUME NEW i \in 1..n, \A m \in (i + 1)..(n + 1) : ~history'[m].restarted
      PROVE  NoRestart(i, n) /\ ~r.restarted
    BY <1>8, <1>3, <1>4 DEF NoRestart
<1>9. Growth'
    <2> SUFFICES ASSUME NEW i \in 1..(n + 1), NEW j \in 1..(n + 1), i <= j
                 PROVE  /\ history'[i].read =>
                              history'[j].value - history'[i].value
                                  <= history'[j].downs - history'[i].downs
                        /\ history'[j].read /\ (\A m \in (i + 1)..j : ~history'[m].restarted) =>
                              history'[j].value - history'[i].value
                                  >= history'[j].downs - history'[i].downs
        BY <1>4 DEF Growth, NotMore, NotLess, NoRestart
    <2>1. CASE j \in 1..n
        <3>1. i \in 1..n /\ \A m \in (i + 1)..j : m \in 1..n
            BY <2>1, <1>3
        <3>2. /\ NotMore(i, history[j].value, history[j].downs)
              /\ history[j].read /\ NoRestart(i, j) => NotLess(i, history[j].value, history[j].downs)
            BY <2>1, <3>1 DEF Growth, n
        <3>3. history'[i] = history[i] /\ history'[j] = history[j]
            BY <2>1, <3>1, <1>4
        <3>4. (\A m \in (i + 1)..j : ~history'[m].restarted) => NoRestart(i, j)
            BY <3>1, <1>4 DEF NoRestart
        <3> QED
            BY <3>2, <3>3, <3>4 DEF NotMore, NotLess
    <2>2. CASE j = n + 1 /\ i \in 1..n
        <3>1. history'[i] = history[i] /\ history'[j] = r
            BY <2>2, <1>4
        <3> QED
            BY <2>2, <3>1, <1>6, <1>7, <1>8
    <2>3. CASE j = n + 1 /\ i = n + 1
        <3>1. history'[i] = r /\ history'[j] = r
            BY <2>3, <1>4
        <3> QED
            BY <3>1, <1>6
    <2> QED
        BY <2>1, <2>2, <2>3, <1>3
<1>10. GrowthNow'
    <2> SUFFICES ASSUME NEW i \in 1..(n + 1)
                 PROVE  /\ history'[i].downs <= downs
                        /\ history'[i].read =>
                              counter - history'[i].value <= downs - history'[i].downs
                        /\ (\A m \in (i + 1)..(n + 1) : ~history'[m].restarted) =>
                              counter - history'[i].value >= downs - history'[i].downs
        BY <1>2, <1>4 DEF GrowthNow, NotMore, NotLess, NoRestart
    <2>1. CASE i \in 1..n
        <3>1. /\ history[i].downs <= downs /\ NotMore(i, counter, downs)
              /\ ~restarted /\ NoRestart(i, n) => NotLess(i, counter, downs)
            BY <2>1 DEF GrowthNow, n
        <3>2. history'[i] = history[i]
            BY <2>1, <1>4
        <3> QED
            BY <2>1, <3>1, <3>2, <1>6, <1>8 DEF NotMore, NotLess
    <2>2. CASE i = n + 1
        <3>1. history'[i] = r
            BY <2>2, <1>4
        <3> QED
            BY <3>1, <1>3, <1>6
    <2> QED
        BY <2>1, <2>2, <1>3
<1> QED
    BY <1>9, <1>10

THEOREM GrowthInvariant == LinkSpec => [](Growth /\ GrowthNow)
<1>1. Typed /\ Growth /\ GrowthNow /\ [LinkNext]_linkVars => (Growth /\ GrowthNow)'
    <2> SUFFICES ASSUME Typed, Growth, GrowthNow, [LinkNext]_linkVars
                 PROVE  Growth' /\ GrowthNow'
        OBVIOUS
    <2>1. CASE LinkDown
        BY <2>1, GrowthLinkDown DEF LinkDown, Growth, NotMore, NotLess, NoRestart
    <2>2. CASE Reset
        BY <2>2, GrowthReset DEF Reset, Growth, NotMore, NotLess, NoRestart
    <2>3. CASE CheckField
        BY <2>3, GrowthCheckField
    <2>4. CASE UNCHANGED linkVars
        BY <2>4 DEF linkVars, Growth, GrowthNow, NotMore, NotLess, NoRestart
    <2> QED
        BY <2>1, <2>2, <2>3, <2>4 DEF LinkNext
<1> QED
    BY <1>1, GrowthInit, TypedInvariant, PTL DEF LinkSpec


(* The oldest reading in the window and the last one, and what an error    *)
(* and no error say of their values.                                       *)
LEMMA WindowOfHistory ==
    ASSUME Ring, Decided, history # <<>>
    PROVE  /\ Len(history) \in 1..Len(history) /\ Last(history) = history[Len(history)]
           /\ \E k \in 1..Len(history) :
                 /\ Oldest(history) = history[k]
                 /\ level = "error" <=>
                       /\ Span(history) >= Window
                       /\ history[Len(history)].value - history[k].value >= Error
<1>0. Len(history) \in Nat /\ Len(history) >= 1
    BY ReadingsTyped DEF Ring, Typed, LinkTypeOK
<1>1. \A i \in 1..Len(history) : history[i].value \in Nat /\ history[i].ts \in Nat
    BY ReadingsTyped DEF Ring
<1>2. Window \in Nat /\ Window >= 1 /\ Error \in Nat /\ Error >= 1
    BY LinkWindowAssumption
<1> DEFINE n == Len(history)
<1>3. n \in 1..n /\ Last(history) = history[n]
    BY <1>0 DEF Last
<1>4. PICK k \in Nat : First(history, history[n].ts - Window, k)
    <2>1. history[n].ts - Window \in Int /\ history[n].ts - Window <= history[n].ts
        BY <1>1, <1>2, <1>3
    <2> QED
        BY <2>1 DEF Ring, HasOldest
<1>5. k \in 1..n /\ Oldest(history) = history[k]
    BY <1>0, <1>3, <1>4, OldestIsFirst DEF First
(* One reading spans nothing. *)
<1>6. Sufficient(history) <=> Span(history) >= Window
    <2>1. Span(history) = history[n].ts - history[1].ts
        BY <1>3 DEF Span
    <2>2. n = 1 => Span(history) = 0
        BY <2>1, <1>1, <1>3
    <2>3. CASE n = 1
        BY <2>2, <2>3, <1>2 DEF Sufficient
    <2>4. CASE n >= 2
        BY <2>4 DEF Sufficient
    <2>5. n = 1 \/ n >= 2
        BY <1>0
    <2> QED
        BY <2>3, <2>4, <2>5, Zenon
<1>7. level = "error" <=> Sufficient(history) /\ Delta(history) >= Error
    BY DEF Decided, Evaluate
<1>8. Delta(history) >= Error <=> history[n].value - history[k].value >= Error
    <2>1. history[n].value \in Nat /\ history[k].value \in Nat
        BY <1>1, <1>3, <1>5
    <2> QED
        BY <2>1, <1>2, <1>3, <1>5 DEF Delta
<1> QED
    BY <1>3, <1>5, <1>6, <1>7, <1>8

(* What an error says of the link (ErrorMeansFlapping), for any window,    *)
(* interval, levels and gaps: the link went down that often within a       *)
(* window that was fully observed, unless its oldest reading had failed.   *)
THEOREM ErrorsAreFlaps == LinkSpec => []ErrorMeansFlapping
<1>1. Ring /\ Decided /\ Growth => ErrorMeansFlapping
    <2> SUFFICES ASSUME Ring, Decided, Growth, level = "error"
                 PROVE  /\ Span(history) >= Window
                        /\ Oldest(history).read => Flaps >= Error
        BY DEF ErrorMeansFlapping
    <2>1. history # <<>>
        BY DEF Decided
    <2>2. PICK k \in 1..Len(history) :
             /\ Oldest(history) = history[k]
             /\ Span(history) >= Window
             /\ history[Len(history)].value - history[k].value >= Error
        BY <2>1, WindowOfHistory
    <2>3. Len(history) \in 1..Len(history) /\ Last(history) = history[Len(history)]
        BY <2>1, WindowOfHistory
    <2>4. \A i \in 1..Len(history) : history[i].value \in Nat /\ history[i].downs \in Nat
        BY ReadingsTyped DEF Ring
    <2>5. NotMore(k, history[Len(history)].value, history[Len(history)].downs)
        BY <2>2, <2>3 DEF Growth
    <2> QED
        BY <2>2, <2>3, <2>4, <2>5, LinkWindowAssumption DEF Flaps, NotMore
<1> QED
    BY <1>1, RingInvariant, GrowthInvariant, PTL

(* And the other way round (FlappingIsError): no flaps between two         *)
(* readings of a fully observed window are missed, unless the counter      *)
(* started again within it or the last reading failed.                     *)
THEOREM FlapsAreErrors == LinkSpec => []FlappingIsError
<1>1. Ring /\ Decided /\ Growth => FlappingIsError
    <2> SUFFICES ASSUME Ring, Decided, Growth, history # <<>>,
                        Span(history) >= Window, Flaps >= Error,
                        Last(history).read, ~RestartedInWindow
                 PROVE  level = "error"
        BY DEF FlappingIsError
    <2>1. PICK k \in 1..Len(history) :
             /\ Oldest(history) = history[k]
             /\ level = "error" <=>
                   /\ Span(history) >= Window
                   /\ history[Len(history)].value - history[k].value >= Error
        BY WindowOfHistory
    <2>2. Len(history) \in 1..Len(history) /\ Last(history) = history[Len(history)]
        BY WindowOfHistory
    <2>3. \A i \in 1..Len(history) :
             history[i].value \in Nat /\ history[i].downs \in Nat /\ history[i].ts \in Nat
        BY ReadingsTyped DEF Ring
    <2>4. NoRestart(k, Len(history))
        <3> SUFFICES ASSUME NEW m \in (k + 1)..Len(history) PROVE ~history[m].restarted
            BY DEF NoRestart
        <3>1. m \in 1..Len(history) /\ k < m
            BY <2>2
        <3>2. history[m].ts - history[k].ts >= (m - k) * Interval
            BY <3>1 DEF Ring, Spaced
        <3>3. (m - k) * Interval >= 1
            BY <3>1, LinkWindowAssumption
        <3>4. history[m].ts > history[k].ts
            <4>1. (m - k) * Interval \in Int
                BY <3>1, LinkWindowAssumption
            <4> QED
                BY <3>1, <3>2, <3>3, <4>1, <2>3
        <3> QED
            BY <3>1, <3>4, <2>1 DEF RestartedInWindow
    <2>5. NotLess(k, history[Len(history)].value, history[Len(history)].downs)
        BY <2>2, <2>4 DEF Growth
    <2> QED
        BY <2>1, <2>2, <2>3, <2>5, LinkWindowAssumption DEF Flaps, NotLess
<1> QED
    BY <1>1, RingInvariant, GrowthInvariant, PTL


-----------------------------------------------------------------------------
USE NetworkAssumption

(* _in_error remembers exactly the errors that were shown, and a check     *)
(* that used up its strikes shows one: without the first part an episode   *)
(* could be counted twice or not at all, without the second a degraded     *)
(* check could recover.                                                    *)
Coherent ==
    \A k \in Keys : Strikes[k] > 0 =>
        /\ in_error[k] <=> verdict[k] = "error"
        /\ Permanent(k) => verdict[k] = "error"

LEMMA InitCorrect == Init => TypeOK /\ Coherent
BY DEF Init, TypeOK, Coherent, Levels, Categories, Permanent

LEMMA WorstLevel == ASSUME NEW S PROVE Worst(S) \in Levels
BY DEF Worst, Levels

LEMMA CategoriesKnown ==
    ASSUME NEW evaluated \in SUBSET Keys, NEW seen,
           NEW g \in GhrCategories(evaluated, seen)
    PROVE  g \in Categories \cup {NoCategory}
BY DEF GhrCategories, Categories

(* Every poll keeps the types and the counts within their limits. *)
LEMMA PollTypes ==
    ASSUME TypeOK, NEW present \in SUBSET Keys, NEW seen \in [Keys -> Levels],
           Poll(present, seen)
    PROVE  TypeOK'
<1>1. in_error' \in [Keys -> BOOLEAN]
  <2>1. \A k \in Keys : InErrorAfter(k, seen) \in BOOLEAN
    BY DEF InErrorAfter, TypeOK
  <2> QED BY <2>1, Zenon DEF Poll, TypeOK
<1>2. trigger_count' \in [Keys -> Nat] /\ \A k \in Keys : trigger_count'[k] <= Strikes[k]
  BY DEF Poll, TypeOK, Permanent, StrikesNow
<1>3. report' \in [status : Levels, ghr_category : Categories \cup {NoCategory}]
  <2> DEFINE evaluated == {k \in present : ~Permanent(k)}
             shown == {Shown(k, seen) : k \in present}
  <2>1. PICK g \in GhrCategories(evaluated, seen) :
            report' = [status |-> Worst(shown), ghr_category |-> g]
    BY Zenon DEF Poll
  <2>2. g \in Categories \cup {NoCategory}
    BY CategoriesKnown
  <2>3. Worst(shown) \in Levels
    BY WorstLevel
  <2> QED BY <2>1, <2>2, <2>3
<1>4. verdict' \in [Keys -> Levels]
  BY DEF Poll, TypeOK, Shown, Levels
<1>5. looked_at' \subseteq Keys
  BY DEF Poll
<1> QED BY <1>1, <1>2, <1>3, <1>4, <1>5 DEF TypeOK

(* What a poll does to one check with a limit: it was not there, it shows  *)
(* the error it is degraded for, or it was evaluated.                      *)
LEMMA PollOfOne ==
    ASSUME TypeOK, Coherent,
           NEW present \in SUBSET Keys, NEW seen \in [Keys -> Levels],
           Poll(present, seen), NEW k \in Keys, Strikes[k] > 0
    PROVE  \/ /\ ~Permanent(k)
              /\ verdict'[k] = seen[k]
              /\ in_error'[k] <=> seen[k] = "error"
              /\ trigger_count'[k] = IF seen[k] = "error" /\ verdict[k] # "error"
                                     THEN trigger_count[k] + 1 ELSE trigger_count[k]
           \/ /\ verdict'[k] = verdict[k] /\ in_error'[k] = in_error[k]
              /\ trigger_count'[k] = trigger_count[k]
<1>1. CASE k \notin present
  BY <1>1 DEF Poll, TypeOK
<1>2. CASE k \in present /\ Permanent(k)
  BY <1>2 DEF Poll, TypeOK, Coherent, Shown
<1>3. CASE k \in present /\ ~Permanent(k)
  <2>1. in_error'[k] <=> seen[k] = "error"
    BY <1>3 DEF Poll, InErrorAfter, TypeOK
  <2>2. verdict'[k] = seen[k]
    BY <1>3 DEF Poll, Shown
  <2>3. trigger_count'[k] = IF seen[k] = "error" /\ verdict[k] # "error"
                            THEN trigger_count[k] + 1 ELSE trigger_count[k]
    BY <1>3 DEF Poll, StrikesNow, TypeOK, Coherent
  <2> QED BY <1>3, <2>1, <2>2, <2>3
<1> QED BY <1>1, <1>2, <1>3

LEMMA PollCoherent ==
    ASSUME TypeOK, Coherent,
           NEW present \in SUBSET Keys, NEW seen \in [Keys -> Levels],
           Poll(present, seen)
    PROVE  Coherent'
<1> SUFFICES ASSUME NEW k \in Keys, Strikes[k] > 0
             PROVE  /\ in_error'[k] <=> verdict'[k] = "error"
                    /\ trigger_count'[k] >= Strikes[k] => verdict'[k] = "error"
  BY DEF Coherent, Permanent
<1>1. /\ in_error[k] <=> verdict[k] = "error"
      /\ trigger_count[k] >= Strikes[k] => verdict[k] = "error"
  BY DEF Coherent, Permanent
<1>2. trigger_count[k] \in Nat /\ Strikes[k] \in Nat
  BY DEF TypeOK
<1> QED BY <1>1, <1>2, PollOfOne DEF Permanent

LEMMA StepCorrect == TypeOK /\ Coherent /\ [Next]_vars => TypeOK' /\ Coherent'
<1> SUFFICES ASSUME TypeOK, Coherent, [Next]_vars PROVE TypeOK' /\ Coherent'
  OBVIOUS
<1>1. CASE Next
  <2>1. PICK present \in SUBSET Keys, seen \in [Keys -> Levels] : Poll(present, seen)
    BY <1>1 DEF Next
  <2> QED BY <2>1, PollTypes, PollCoherent
<1>2. CASE UNCHANGED vars
  BY <1>2 DEF vars, TypeOK, Coherent, Permanent
<1> QED BY <1>1, <1>2

(* Types, for any checks, limits and categories, and interfaces that come  *)
(* and go.                                                                 *)
THEOREM TypeCorrect == Spec => []TypeOK
<1>1. Spec => [](TypeOK /\ Coherent)
  BY InitCorrect, StepCorrect, PTL DEF Spec
<1> QED BY <1>1, PTL

-----------------------------------------------------------------------------
LEMMA LatchInit == Init => Latch!Init
BY DEF Init, Latch!Init

LEMMA LatchStep == TypeOK /\ Coherent /\ [Next]_vars => [Latch!Next]_<<verdict, trigger_count>>
<1> SUFFICES ASSUME TypeOK, Coherent, [Next]_vars
             PROVE  [Latch!Next]_<<verdict, trigger_count>>
  OBVIOUS
<1>1. CASE Next
  <2>1. PICK present \in SUBSET Keys, seen \in [Keys -> Levels] : Poll(present, seen)
    BY <1>1 DEF Next
  <2> SUFFICES ASSUME NEW k \in Keys, Strikes[k] > 0
               PROVE  Latch!Begins(k) \/ Latch!Stays(k) \/ Latch!Recovers(k)
    BY DEF Latch!Next
  <2>2. trigger_count[k] \in Nat /\ Strikes[k] \in Nat
    BY DEF TypeOK
  <2>3. trigger_count[k] >= Strikes[k] => verdict[k] = "error"
    BY DEF Coherent, Permanent
  <2> QED BY <2>1, <2>2, <2>3, PollOfOne
          DEF Permanent, Latch!Begins, Latch!Stays, Latch!Recovers
<1>2. CASE UNCHANGED vars
  BY <1>2 DEF vars
<1> QED BY <1>1, <1>2

(* The dictionaries of run_network_checks implement what strikes promise,  *)
(* for every limit: each episode counts once and the last is never taken   *)
(* back, also when the interface vanishes during it.                       *)
THEOREM StrikesImplementLatch == Spec => StrikesHold
<1>1. Spec => [](TypeOK /\ Coherent)
  BY InitCorrect, StepCorrect, PTL DEF Spec
<1> QED BY <1>1, LatchInit, LatchStep, PTL DEF Spec, StrikesHold, Latch!Spec

-----------------------------------------------------------------------------
(* The report of a poll shows the verdict of every check it looked at. *)
Shows == \A k \in looked_at : verdict[k] = "error" => report.status = "error"

LEMMA ShowsStep == TypeOK /\ Shows /\ [Next]_vars => Shows'
<1> SUFFICES ASSUME TypeOK, Shows, [Next]_vars
             PROVE  Shows'
  OBVIOUS
<1>1. CASE Next
  <2>1. PICK present \in SUBSET Keys, seen \in [Keys -> Levels] : Poll(present, seen)
    BY <1>1 DEF Next
  <2>2. report'.status = Worst({Shown(k, seen) : k \in present}) /\ looked_at' = present
    BY <2>1 DEF Poll
  <2>3. \A k \in present : verdict'[k] = Shown(k, seen)
    BY <2>1 DEF Poll
  <2> QED BY <2>2, <2>3 DEF Shows, Worst
<1>2. CASE UNCHANGED vars
  BY <1>2 DEF vars, Shows
<1> QED BY <1>1, <1>2

(* The documented permanence of strikes, under the condition that makes it *)
(* true: the interface of the degraded check is there to be looked at.     *)
THEOREM DegradedStaysReported == Spec => []DegradedIsPermanent
<1>1. Init => Shows
  BY DEF Init, Shows
<1>2. TypeOK /\ Coherent /\ Shows => DegradedIsPermanent
  BY DEF Coherent, Shows, DegradedIsPermanent, Permanent, TypeOK
<1> QED BY <1>1, <1>2, ShowsStep, InitCorrect, StepCorrect, PTL DEF Spec
=============================================================================
