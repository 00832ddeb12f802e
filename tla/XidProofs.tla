------------------------------ MODULE XidProofs ------------------------------
(* What holds of the XID history for any XIDs, times and numbers of saves, *)
(* threads that end in any order, failing writes and reconnections.        *)
EXTENDS XidHistory, TLAPS

USE XidAssumption

LEMMA EmptySupported == Supported(Empty)
BY DEF Supported, Empty

LEMMA EmptyHistory == Empty \in Histories
BY DEF Empty, Histories

(* Removing an element leaves elements. *)
LEMMA RemoveAtIsSeq ==
    ASSUME NEW S, NEW s \in Seq(S), NEW i \in 1..Len(s)
    PROVE  RemoveAt(s, i) \in Seq(S) /\ Len(RemoveAt(s, i)) = Len(s) - 1
<1> DEFINE a == SubSeq(s, 1, i - 1)
           b == SubSeq(s, i + 1, Len(s))
<1>1. a \in Seq(S) /\ Len(a) = i - 1
  OBVIOUS
<1>2. b \in Seq(S) /\ Len(b) = Len(s) - i
  OBVIOUS
<1>3. RemoveAt(s, i) = a \o b
  BY DEF RemoveAt
<1> HIDE DEF a, b
<1>4. a \o b \in Seq(S) /\ Len(a \o b) = Len(a) + Len(b)
  BY <1>1, <1>2
<1> QED BY <1>1, <1>2, <1>3, <1>4

(* The writes whose data was reported since the last boot. *)
Writes == [data : {h \in Histories : Supported(h)}, step : {"start", "temp"}]

(* What a thread, a reload or a late save may bring back is supported      *)
(* wherever it waits: in the process, in a thread or in the file.          *)
AllSupported ==
    /\ agent # "down" => Supported(xid_history)
    /\ writing \in Seq(Writes)
    /\ agent = "down" => writing = <<>> /\ scheduled = 0
    /\ ~predates => Supported(file)

Inv == TypeOK /\ AllSupported

LEMMA InitCorrect == Init => Inv
<1> SUFFICES ASSUME Init PROVE Inv
  OBVIOUS
<1>1. writing \in Seq(Writes)
  BY DEF Init
<1>2. writing \in Seq([data : Histories, step : {"start", "temp"}])
  BY DEF Init
<1>3. scheduled \in 0..MaxSaves /\ scheduled + Len(writing) <= MaxSaves
  BY DEF Init, XidAssumption
<1> QED BY <1>1, <1>2, <1>3, EmptyHistory, EmptySupported
        DEF Init, Inv, TypeOK, AllSupported

(* An earlier report supports what a later one did. *)
LEMMA ReportSupports ==
    ASSUME TypeOK, NEW x \in Xids, NEW time \in Times,
           seen' = [seen EXCEPT ![x] = Earliest(seen[x], time)]
    PROVE  /\ seen' \in Histories
           /\ seen'[x] \in Times /\ seen'[x] <= time
           /\ \A h \in Histories : Supported(h) => Supported(h)'
<1>1. seen[x] \in Times \cup {Never} /\ Earliest(seen[x], time) \in Times
  BY DEF TypeOK, Histories, Earliest
<1>2. seen' \in Histories
  BY <1>1 DEF TypeOK, Histories
<1>3. seen'[x] = Earliest(seen[x], time) /\ seen'[x] <= time
  BY <1>1 DEF TypeOK, Histories, Earliest, Times
<1>4. ASSUME NEW h \in Histories, Supported(h), NEW y \in Xids, h[y] # Never
      PROVE  seen'[y] # Never /\ h[y] >= seen'[y]
  <2>1. seen[y] # Never /\ h[y] >= seen[y] /\ h[y] \in Times /\ seen[y] \in Times
    BY <1>4 DEF Supported, TypeOK, Histories
  <2>2. CASE y = x
    BY <2>1, <2>2, <1>1, <1>3 DEF Earliest, Times
  <2>3. CASE y # x
    BY <2>1, <2>3 DEF TypeOK, Histories
  <2> QED BY <2>2, <2>3
<1>5. ASSUME NEW h \in Histories, Supported(h) PROVE Supported(h)'
  <2>1. \A y \in Xids : h[y] # Never => seen'[y] # Never /\ h[y] >= seen'[y]
    BY <1>4, <1>5
  <2> QED BY <2>1 DEF Supported
<1> QED BY <1>1, <1>2, <1>3, <1>5

LEMMA SeqMonotone == ASSUME NEW S, NEW T, S \subseteq T PROVE Seq(S) \subseteq Seq(T)
OBVIOUS

LEMMA ReportStep ==
    ASSUME Inv, NEW x \in Xids, NEW time \in Times, HandlePolicyViolation(x, time)
    PROVE  Inv'
<1> USE DEF Inv
<1>1. /\ seen' \in Histories
      /\ seen'[x] \in Times /\ seen'[x] <= time
      /\ \A h \in Histories : Supported(h) => Supported(h)'
  BY ReportSupports DEF HandlePolicyViolation
<1>2. Writes \subseteq Writes'
  BY <1>1 DEF Writes
<1>3. writing' \in Seq(Writes')
  BY <1>2, SeqMonotone DEF HandlePolicyViolation, AllSupported
<1>4. xid_history' \in Histories
  BY DEF HandlePolicyViolation, TypeOK, Histories
<1>5. scheduled' \in 0..MaxSaves /\ scheduled' + Len(writing') <= MaxSaves
  <2>1. Len(writing) \in Nat
    BY DEF TypeOK
  <2> QED BY <2>1 DEF HandlePolicyViolation, TypeOK, XidAssumption
<1>6. Supported(xid_history)'
  <2>1. Supported(xid_history) /\ xid_history \in Histories
    BY DEF HandlePolicyViolation, AllSupported, TypeOK
  <2>2. ASSUME NEW y \in Xids, xid_history'[y] # Never
        PROVE  seen'[y] # Never /\ xid_history'[y] >= seen'[y]
    <3>1. CASE xid_history' = xid_history
      BY <3>1, <2>1, <2>2, <1>1 DEF Supported
    <3>2. CASE xid_history' = [xid_history EXCEPT ![x] = time] /\ y = x
      BY <3>2, <2>1, <1>1, XidAssumption DEF Histories, Times
    <3>3. CASE xid_history' = [xid_history EXCEPT ![x] = time] /\ y # x
      <4>1. xid_history'[y] = xid_history[y]
        BY <3>3, <2>1 DEF Histories
      <4> QED BY <4>1, <2>1, <2>2, <1>1 DEF Supported
    <3> QED BY <3>1, <3>2, <3>3 DEF HandlePolicyViolation
  <2> QED BY <2>2 DEF Supported
<1>7. ~predates' => Supported(file)'
  <2>1. file' = file /\ predates' = predates /\ file \in Histories
    BY DEF HandlePolicyViolation, TypeOK
  <2> QED BY <2>1, <1>1 DEF AllSupported, Supported
<1> QED BY <1>1, <1>3, <1>4, <1>5, <1>6, <1>7
        DEF TypeOK, AllSupported, HandlePolicyViolation

(* A merged history has the earlier of two times. *)
LEMMA MergedIsEarliest ==
    ASSUME NEW h \in Histories, NEW samples \in Histories
    PROVE  /\ Merged(h, samples) \in Histories
           /\ \A x \in Xids :
                 Merged(h, samples)[x] = IF samples[x] = Never THEN h[x]
                     ELSE IF h[x] = Never \/ samples[x] < h[x] THEN samples[x] ELSE h[x]
<1>1. \A x \in Xids : h[x] \in Times \cup {Never} /\ samples[x] \in Times \cup {Never}
  BY DEF Histories
<1>2. ASSUME NEW x \in Xids
      PROVE  /\ Merged(h, samples)[x] = IF samples[x] = Never THEN h[x]
                     ELSE IF h[x] = Never \/ samples[x] < h[x] THEN samples[x] ELSE h[x]
             /\ Merged(h, samples)[x] \in Times \cup {Never}
  BY <1>1 DEF Merged, Earliest
<1>3. Merged(h, samples) = [x \in Xids |-> Merged(h, samples)[x]]
  BY DEF Merged
<1> QED BY <1>2, <1>3 DEF Histories

(* Merging the same samples keeps a history supported by what was seen. *)
LEMMA MergedSupports ==
    ASSUME TypeOK, NEW samples \in Histories, seen' = Merged(seen, samples),
           NEW h \in Histories, Supported(h)
    PROVE  /\ Supported(h)'
           /\ \A x \in Xids : Merged(h, samples)[x] # Never =>
                 seen'[x] # Never /\ Merged(h, samples)[x] >= seen'[x]
<1> SUFFICES ASSUME NEW x \in Xids
             PROVE  /\ h[x] # Never => seen'[x] # Never /\ h[x] >= seen'[x]
                    /\ Merged(h, samples)[x] # Never =>
                          seen'[x] # Never /\ Merged(h, samples)[x] >= seen'[x]
  BY DEF Supported
<1>1. /\ h[x] \in Times \cup {Never} /\ samples[x] \in Times \cup {Never}
      /\ seen[x] \in Times \cup {Never} /\ Never \notin Times
  BY XidAssumption DEF TypeOK, Histories, Times
<1>2. seen'[x] = IF samples[x] = Never THEN seen[x]
                 ELSE IF seen[x] = Never \/ samples[x] < seen[x] THEN samples[x] ELSE seen[x]
  BY MergedIsEarliest DEF TypeOK
<1>3. Merged(h, samples)[x] = IF samples[x] = Never THEN h[x]
                 ELSE IF h[x] = Never \/ samples[x] < h[x] THEN samples[x] ELSE h[x]
  BY MergedIsEarliest
<1>4. h[x] # Never => seen[x] # Never /\ h[x] >= seen[x]
  BY DEF Supported
<1>5. \A a, b \in Times : a \in Int /\ b \in Int
  BY DEF Times
<1> QED BY <1>1, <1>2, <1>3, <1>4, <1>5

LEMMA TrackStep ==
    ASSUME Inv, NEW samples \in Histories,
           TrackFields(samples) \/ TrackFieldsRaises(samples)
    PROVE  Inv'
<1> USE DEF Inv
<1>1. /\ seen' = Merged(seen, samples) /\ xid_history' = Merged(xid_history, samples)
      /\ writing' = writing /\ file' = file /\ predates' = predates
      /\ agent' = agent /\ agent # "down" /\ orderly' = orderly
      /\ skipped' \in BOOLEAN
  BY DEF TrackFields, TrackFieldsRaises, TypeOK
<1>2. seen' \in Histories /\ xid_history' \in Histories
  BY <1>1, MergedIsEarliest DEF TypeOK
<1>3. \A h \in Histories : Supported(h) => Supported(h)'
  BY <1>1, MergedSupports
<1>4. Writes \subseteq Writes'
  BY <1>3 DEF Writes
<1>5. writing' \in Seq(Writes')
  BY <1>1, <1>4, SeqMonotone DEF AllSupported
<1>6. Supported(xid_history)'
  <2>1. \A x \in Xids : Merged(xid_history, samples)[x] # Never =>
           seen'[x] # Never /\ Merged(xid_history, samples)[x] >= seen'[x]
    BY <1>1, MergedSupports DEF TypeOK, AllSupported
  <2> QED BY <2>1, <1>1 DEF Supported
<1>7. ~predates' => Supported(file)'
  BY <1>1, <1>3 DEF TypeOK, AllSupported, Supported
<1>8. scheduled' \in 0..MaxSaves /\ scheduled' + Len(writing') <= MaxSaves
  <2>1. Len(writing) \in Nat
    BY DEF TypeOK
  <2> QED BY <2>1 DEF TrackFields, TrackFieldsRaises, TypeOK, XidAssumption
<1> QED BY <1>1, <1>2, <1>5, <1>6, <1>7, <1>8 DEF TypeOK, AllSupported

LEMMA SaveStep == Inv /\ SaveXidHistory => Inv'
<1> SUFFICES ASSUME Inv, SaveXidHistory PROVE Inv'
  OBVIOUS
<1> USE DEF Inv
<1> DEFINE write == [data |-> xid_history, step |-> "start"]
<1>1. write \in Writes /\ write \in [data : Histories, step : {"start", "temp"}]
  BY DEF SaveXidHistory, TypeOK, AllSupported, Writes
<1>2. Writes' = Writes
  BY DEF SaveXidHistory, Writes, Supported
<1> HIDE DEF write
<1>3. writing' = Append(writing, write)
  BY DEF SaveXidHistory, write
<1>4. /\ writing' \in Seq(Writes)
      /\ writing' \in Seq([data : Histories, step : {"start", "temp"}])
      /\ Len(writing') = Len(writing) + 1
  BY <1>1, <1>3 DEF TypeOK, AllSupported
<1>5. scheduled' \in 0..MaxSaves /\ scheduled' + Len(writing') <= MaxSaves
  <2>1. Len(writing) \in Nat
    BY DEF TypeOK
  <2> QED BY <2>1, <1>4 DEF SaveXidHistory, TypeOK, XidAssumption
<1> QED BY <1>2, <1>4, <1>5 DEF SaveXidHistory, TypeOK, AllSupported, Supported

(* The steps of the threads. *)
LEMMA WriteStep ==
    ASSUME Inv, NEW i \in 1..Len(writing), WriteTemp(i) \/ Replace(i) \/ WriteFails(i)
    PROVE  Inv'
<1> USE DEF Inv
<1>1. /\ writing[i] \in Writes /\ writing[i].data \in Histories
      /\ Supported(writing[i].data) /\ Writes' = Writes
      /\ Len(writing) \in Nat /\ scheduled \in Nat
  <2>1. writing[i] \in Writes
    BY DEF AllSupported
  <2>2. writing[i].data \in Histories /\ Supported(writing[i].data)
    BY <2>1 DEF Writes
  <2>3. seen' = seen
    BY DEF WriteTemp, Replace, WriteFails
  <2>4. Writes' = Writes
    BY <2>3 DEF Writes, Supported
  <2>5. Len(writing) \in Nat /\ scheduled \in Nat
    BY DEF TypeOK
  <2> QED BY <2>1, <2>2, <2>4, <2>5
<1>2. CASE WriteTemp(i)
  <2>1. writing' = [writing EXCEPT ![i] = [writing[i] EXCEPT !.step = "temp"]]
    BY <1>2 DEF WriteTemp
  <2>2. [writing[i] EXCEPT !.step = "temp"] \in Writes
    BY <1>1 DEF Writes
  <2>3. writing' \in Seq(Writes) /\ Len(writing') = Len(writing)
    BY <2>1, <2>2 DEF AllSupported
  <2> DEFINE T == [data : Histories, step : {"start", "temp"}]
  <2>4. writing' \in Seq(T)
    <3>1. Writes \subseteq T
      BY DEF Writes
    <3> HIDE DEF T
    <3> QED BY <2>3, <3>1, SeqMonotone
  <2> QED BY <1>1, <1>2, <2>3, <2>4 DEF WriteTemp, TypeOK, AllSupported, Supported
<1>3. CASE Replace(i)
  <2>1. writing' = RemoveAt(writing, i)
    BY <1>3 DEF Replace
  <2>2. writing' \in Seq(Writes) /\ Len(writing') = Len(writing) - 1
    BY <2>1, RemoveAtIsSeq DEF AllSupported
  <2>3. writing' \in Seq([data : Histories, step : {"start", "temp"}])
    BY <2>1, RemoveAtIsSeq DEF TypeOK
  <2>4. scheduled' + Len(writing') <= MaxSaves
    BY <1>1, <1>3, <2>2 DEF Replace, TypeOK, XidAssumption
  <2> QED BY <1>1, <1>3, <2>2, <2>3, <2>4 DEF Replace, TypeOK, AllSupported, Supported
<1>4. CASE WriteFails(i)
  <2>1. writing' = RemoveAt(writing, i)
    BY <1>4 DEF WriteFails
  <2>2. writing' \in Seq(Writes) /\ Len(writing') = Len(writing) - 1
    BY <2>1, RemoveAtIsSeq DEF AllSupported
  <2>3. writing' \in Seq([data : Histories, step : {"start", "temp"}])
    BY <2>1, RemoveAtIsSeq DEF TypeOK
  <2>4. scheduled' + Len(writing') <= MaxSaves
    BY <1>1, <1>4, <2>2 DEF WriteFails, TypeOK, XidAssumption
  <2> QED BY <1>1, <1>4, <2>2, <2>3, <2>4 DEF WriteFails, TypeOK, AllSupported, Supported
<1> QED BY <1>2, <1>3, <1>4

(* A file that is loaded is of this boot, or is not there any more. *)
LEMMA LoadStep == Inv /\ (Start \/ Reconnect) => Inv'
<1> SUFFICES ASSUME Inv, Start \/ Reconnect PROVE Inv'
  OBVIOUS
<1> USE DEF Inv
<1>1. seen' = seen /\ scheduled' = scheduled /\ writing' = writing /\ Writes' = Writes
  BY DEF Start, Reconnect, Writes, Supported
<1>2. /\ xid_history' = IF predates THEN Empty ELSE file
      /\ file' = IF predates THEN Empty ELSE file
      /\ predates' = FALSE
  BY DEF Start, Reconnect, LoadXidHistory
<1>3. xid_history' \in Histories /\ file' \in Histories
  BY <1>2, EmptyHistory DEF TypeOK
<1>4. Supported(xid_history)' /\ Supported(file)'
  BY <1>1, <1>2, EmptySupported DEF AllSupported, Supported
<1> QED BY <1>1, <1>2, <1>3, <1>4 DEF Start, Reconnect, TypeOK, AllSupported

(* A stop keeps everything, a crash loses the threads, a boot the support  *)
(* of the file.                                                            *)
LEMMA ProcessStep == Inv /\ (Stop \/ Exit \/ Crash \/ Reboot) => Inv'
<1> SUFFICES ASSUME Inv, Stop \/ Exit \/ Crash \/ Reboot PROVE Inv'
  OBVIOUS
<1> USE DEF Inv
<1>1. CASE Stop \/ Exit
  <2>1. Writes' = Writes
    BY <1>1 DEF Stop, Exit, Writes, Supported
  <2> QED BY <1>1, <2>1 DEF Stop, Exit, TypeOK, AllSupported, Supported
<1>2. CASE Crash \/ Reboot
  <2>1. writing' = <<>> /\ scheduled' = 0 /\ agent' = "down"
    BY <1>2 DEF Crash, Reboot
  <2>2. /\ writing' \in Seq(Writes')
        /\ writing' \in Seq([data : Histories, step : {"start", "temp"}])
        /\ scheduled' \in 0..MaxSaves /\ scheduled' + Len(writing') <= MaxSaves
    BY <2>1, XidAssumption
  <2>3. ~predates' => Supported(file)'
    BY <1>2 DEF Crash, Reboot, AllSupported, Supported
  <2>4. seen' \in Histories /\ predates' \in BOOLEAN
    BY <1>2, EmptyHistory DEF Crash, Reboot, TypeOK
  <2> QED BY <1>2, <2>1, <2>2, <2>3, <2>4 DEF Crash, Reboot, TypeOK, AllSupported
<1> QED BY <1>1, <1>2

LEMMA StepCorrect == Inv /\ [Next]_vars => Inv'
<1> SUFFICES ASSUME Inv, [Next]_vars PROVE Inv'
  OBVIOUS
<1>1. CASE UNCHANGED vars
  <2>1. Writes' = Writes
    BY <1>1 DEF vars, Writes, Supported
  <2> QED BY <1>1, <2>1 DEF vars, Inv, TypeOK, AllSupported, Supported
<1>2. CASE Next
  BY <1>2, ReportStep, TrackStep, SaveStep, WriteStep, LoadStep, ProcessStep DEF Next
<1> QED BY <1>1, <1>2

(* Types, for any XIDs, times and numbers of saves. *)
THEOREM TypeCorrect == Spec => []TypeOK
<1>1. Inv => TypeOK
  BY DEF Inv
<1> QED BY <1>1, InitCorrect, StepCorrect, PTL DEF Spec

(* Wherever threads, crashes, reconnections and boots fall, neither the    *)
(* process nor a file it would load tells an XID that was not reported     *)
(* since the last boot, nor a time before the XID was first reported.      *)
THEOREM HistorySupported == Spec => []NothingStale
<1>1. Inv => NothingStale
  BY DEF Inv, AllSupported, NothingStale
<1> QED BY <1>1, InitCorrect, StepCorrect, PTL DEF Spec

-----------------------------------------------------------------------------
(* b tells every XID a tells, and none of them later. *)
Covers(b, a) == \A x \in Xids : a[x] # Never => b[x] # Never /\ b[x] <= a[x]

(* In an orderly process what waits to be written is a chain from the file *)
(* to what the process knows, each history covering those before it.       *)
Chain ==
    orderly /\ agent # "down" =>
        /\ Covers(xid_history, file)
        /\ \A i \in 1..Len(writing) :
              /\ Covers(writing[i].data, file)
              /\ Covers(xid_history, writing[i].data)
              /\ \A j \in i..Len(writing) : Covers(writing[j].data, writing[i].data)

(* Unless a save is scheduled, or was left out by an exception, the last   *)
(* one has all the process knows.                                          *)
Fresh ==
    orderly /\ ~skipped /\ agent = "up" /\ scheduled = 0 =>
        xid_history = IF writing = <<>> THEN file ELSE writing[Len(writing)].data

Saves ==
    /\ Inv
    /\ agent # "down" => ~predates
    /\ Chain
    /\ Fresh

LEMMA CoversItself == \A h \in Histories : Covers(h, h)
BY DEF Covers, Histories, Times

LEMMA CoversMore ==
    ASSUME NEW a \in Histories, NEW b \in Histories, NEW c \in Histories,
           Covers(b, a), Covers(c, b)
    PROVE  Covers(c, a)
<1> SUFFICES ASSUME NEW x \in Xids, a[x] # Never PROVE c[x] # Never /\ c[x] <= a[x]
  BY DEF Covers
<1>1. b[x] # Never /\ b[x] <= a[x] /\ c[x] # Never /\ c[x] <= b[x]
  BY DEF Covers
<1>2. a[x] \in Times /\ b[x] \in Times /\ c[x] \in Times
  BY <1>1 DEF Histories
<1> QED BY <1>1, <1>2 DEF Times

LEMMA MergedCovers ==
    ASSUME NEW h \in Histories, NEW samples \in Histories
    PROVE  Covers(Merged(h, samples), h)
<1> SUFFICES ASSUME NEW x \in Xids, h[x] # Never
             PROVE  Merged(h, samples)[x] # Never /\ Merged(h, samples)[x] <= h[x]
  BY DEF Covers
<1>1. h[x] \in Times /\ samples[x] \in Times \cup {Never} /\ Never \notin Times
  BY DEF Histories, Times
<1>2. Merged(h, samples)[x] = IF samples[x] = Never THEN h[x]
          ELSE IF h[x] = Never \/ samples[x] < h[x] THEN samples[x] ELSE h[x]
  BY MergedIsEarliest
<1> QED BY <1>1, <1>2 DEF Times

LEMMA WritingTyped ==
    ASSUME TypeOK
    PROVE  /\ \A i \in 1..Len(writing) : writing[i].data \in Histories
           /\ Len(writing) \in Nat
<1> DEFINE W == [data : Histories, step : {"start", "temp"}]
<1>1. writing \in Seq(W)
  BY DEF TypeOK
<1>2. ASSUME NEW w \in W PROVE w.data \in Histories
  OBVIOUS
<1> HIDE DEF W
<1>3. Len(writing) \in Nat /\ \A i \in 1..Len(writing) : writing[i] \in W
  BY <1>1
<1> QED BY <1>2, <1>3

LEMMA SavesInit == Init => Saves
<1> SUFFICES ASSUME Init PROVE Saves
  OBVIOUS
<1>1. Chain
  BY EmptyHistory, CoversItself DEF Init, Chain
<1> QED BY <1>1, InitCorrect DEF Init, Saves, Fresh

(* What the process learns is scheduled to be saved, or known not to be. *)
LEMMA SavesReport ==
    ASSUME Saves, Inv',
           \/ \E x \in Xids, time \in Times : HandlePolicyViolation(x, time)
           \/ \E samples \in Histories : TrackFields(samples) \/ TrackFieldsRaises(samples)
    PROVE  Saves'
<1> USE DEF Saves, Inv
<1>1. /\ agent' = agent /\ agent # "down" /\ orderly' = orderly /\ file' = file
      /\ writing' = writing /\ predates' = predates
  BY DEF HandlePolicyViolation, TrackFields, TrackFieldsRaises
<1>2. Covers(xid_history', xid_history)
  <2>1. CASE \E x \in Xids, time \in Times : HandlePolicyViolation(x, time)
    <3> PICK x \in Xids, time \in Times : HandlePolicyViolation(x, time)
      BY <2>1
    <3>1. CASE xid_history' = xid_history
      BY <3>1, CoversItself DEF TypeOK
    <3>2. CASE Records(x, time) /\ xid_history' = [xid_history EXCEPT ![x] = time]
      <4> SUFFICES ASSUME NEW y \in Xids, xid_history[y] # Never
                   PROVE  xid_history'[y] # Never /\ xid_history'[y] <= xid_history[y]
        BY DEF Covers
      <4>1. xid_history[y] \in Times /\ Never \notin Times
        BY DEF TypeOK, Histories, Times
      <4>2. CASE y = x
        BY <3>2, <4>1, <4>2 DEF Records, TypeOK, Histories, Times
      <4>3. CASE y # x
        BY <3>2, <4>1, <4>3 DEF TypeOK, Histories, Times
      <4> QED BY <4>2, <4>3
    <3> QED BY <3>1, <3>2 DEF HandlePolicyViolation
  <2>2. CASE \E samples \in Histories : TrackFields(samples) \/ TrackFieldsRaises(samples)
    BY <2>2, MergedCovers DEF TrackFields, TrackFieldsRaises, TypeOK
  <2> QED BY <2>1, <2>2
<1>3. xid_history' \in Histories /\ xid_history \in Histories /\ file \in Histories
      /\ \A i \in 1..Len(writing) : writing[i].data \in Histories
  BY WritingTyped DEF TypeOK
<1>4. Chain'
  <2> SUFFICES ASSUME orderly
               PROVE  /\ Covers(xid_history', file)
                      /\ \A i \in 1..Len(writing) : Covers(xid_history', writing[i].data)
    BY <1>1 DEF Chain, Covers
  <2> QED BY <1>1, <1>2, <1>3, CoversMore DEF Chain
<1>5. Fresh'
  <2> SUFFICES ASSUME orderly, ~skipped', agent = "up", scheduled' = 0
               PROVE  xid_history' = xid_history /\ scheduled = 0 /\ ~skipped
    BY <1>1 DEF Fresh
  <2>1. scheduled \in Nat /\ scheduled + 1 # 0
    BY DEF TypeOK
  <2>2. CASE \E x \in Xids, time \in Times : HandlePolicyViolation(x, time)
    BY <2>1, <2>2 DEF HandlePolicyViolation
  <2>3. CASE \E samples \in Histories : TrackFields(samples)
    BY <2>1, <2>3 DEF TrackFields
  <2>4. CASE \E samples \in Histories : TrackFieldsRaises(samples)
    <3>1. skipped' = (skipped \/ xid_history' # xid_history) /\ scheduled' = scheduled
      BY <2>4 DEF TrackFieldsRaises
    <3>2. ~skipped /\ xid_history' = xid_history
      BY <3>1, Zenon
    <3> QED BY <3>1, <3>2
  <2> QED BY <2>2, <2>3, <2>4
<1> QED BY <1>1, <1>4, <1>5

(* A snapshot is the new end of the chain. *)
LEMMA SavesSnapshot ==
    ASSUME Saves, Inv', SaveXidHistory
    PROVE  Saves'
<1> USE DEF Saves, Inv
<1> DEFINE write == [data |-> xid_history, step |-> "start"]
<1> DEFINE n == Len(writing)
<1>1. /\ agent' = agent /\ agent # "down" /\ orderly' = orderly /\ file' = file
      /\ predates' = predates /\ xid_history' = xid_history
  BY DEF SaveXidHistory
<1>2. n \in Nat /\ xid_history \in Histories
  BY WritingTyped DEF TypeOK
<1>3. /\ Len(writing') = n + 1 /\ writing' # <<>>
      /\ writing'[n + 1].data = xid_history
      /\ \A i \in 1..n : writing'[i] = writing[i]
  BY <1>2 DEF SaveXidHistory, TypeOK
<1>4. Chain'
  <2> SUFFICES ASSUME orderly, NEW i \in 1..(n + 1)
               PROVE  /\ Covers(writing'[i].data, file)
                      /\ Covers(xid_history, writing'[i].data)
                      /\ \A j \in i..(n + 1) : Covers(writing'[j].data, writing'[i].data)
    BY <1>1, <1>3 DEF Chain, Covers
  <2>1. CASE i = n + 1
    BY <2>1, <1>1, <1>2, <1>3, CoversItself DEF Chain
  <2>2. CASE i \in 1..n
    <3>1. /\ Covers(writing[i].data, file) /\ Covers(xid_history, writing[i].data)
          /\ \A j \in i..n : Covers(writing[j].data, writing[i].data)
      BY <2>2, <1>1 DEF Chain
    <3>2. ASSUME NEW j \in i..(n + 1) PROVE Covers(writing'[j].data, writing'[i].data)
      <4>1. CASE j = n + 1
        BY <4>1, <3>1, <2>2, <1>3
      <4>2. CASE j # n + 1
        <5>1. j \in i..n /\ j \in 1..n
          BY <4>2, <2>2, <1>2
        <5> QED BY <5>1, <3>1, <2>2, <1>3
      <4> QED BY <4>1, <4>2
    <3> QED BY <3>1, <3>2, <2>2, <1>3
  <2> QED BY <2>1, <2>2, <1>2
<1>5. Fresh'
  BY <1>1, <1>3 DEF Fresh
<1> QED BY <1>1, <1>4, <1>5

(* What is left of a sequence without its first element. *)
LEMMA RemoveAtFirst ==
    ASSUME NEW S, NEW s \in Seq(S), s # <<>>
    PROVE  /\ Len(RemoveAt(s, 1)) = Len(s) - 1
           /\ \A i \in 1..(Len(s) - 1) : RemoveAt(s, 1)[i] = s[i + 1]
<1>1. RemoveAt(s, 1) = SubSeq(s, 1, 0) \o SubSeq(s, 2, Len(s))
  BY DEF RemoveAt
<1>2. SubSeq(s, 1, 0) = <<>>
  OBVIOUS
<1>3. Len(s) \in Nat /\ Len(s) >= 1
  OBVIOUS
<1>4. /\ SubSeq(s, 2, Len(s)) \in Seq(S)
      /\ Len(SubSeq(s, 2, Len(s))) = Len(s) - 1
      /\ \A i \in 1..(Len(s) - 1) : SubSeq(s, 2, Len(s))[i] = s[i + 1]
  <2>1. SubSeq(s, 2, Len(s)) \in Seq(S)
    OBVIOUS
  <2>2. Len(SubSeq(s, 2, Len(s))) = Len(s) - 1
    <3>1. ASSUME NEW k \in 1..Len(s) PROVE Len(SubSeq(s, k + 1, Len(s))) = Len(s) - k
      OBVIOUS
    <3>2. 1 \in 1..Len(s) /\ 1 + 1 = 2
      BY <1>3
    <3> QED BY <3>1, <3>2
  <2>3. ASSUME NEW i \in 1..(Len(s) - 1) PROVE SubSeq(s, 2, Len(s))[i] = s[i + 1]
    BY <1>3
  <2> QED BY <2>1, <2>2, <2>3
<1>5. RemoveAt(s, 1) = SubSeq(s, 2, Len(s))
  <2> DEFINE t == SubSeq(s, 2, Len(s))
  <2>1. t \in Seq(S)
    BY <1>4
  <2> HIDE DEF t
  <2>2. <<>> \o t = t
    BY <2>1
  <2> QED BY <1>1, <1>2, <2>2 DEF t
<1> QED BY <1>4, <1>5

(* A thread that ends in order makes the first of the chain the file. *)
LEMMA SavesWrite ==
    ASSUME Saves, Inv', NEW i \in 1..Len(writing),
           WriteTemp(i) \/ Replace(i) \/ WriteFails(i)
    PROVE  Saves'
<1> USE DEF Saves, Inv
<1> DEFINE n == Len(writing)
<1>1. /\ agent' = agent /\ agent # "down" /\ xid_history' = xid_history
      /\ scheduled' = scheduled /\ ~predates' /\ skipped' = skipped
  BY DEF WriteTemp, Replace, WriteFails
<1> DEFINE W == [data : Histories, step : {"start", "temp"}]
<1>2. n \in Nat /\ n >= 1
  BY WritingTyped DEF TypeOK
<1>6. writing \in Seq(W) /\ writing # <<>>
  BY <1>2 DEF TypeOK
<1>3. CASE WriteTemp(i)
  <2>1. /\ Len(writing') = n /\ file' = file /\ orderly' = orderly
        /\ \A j \in 1..n : writing'[j].data = writing[j].data
    BY <1>2, <1>3, <1>6 DEF WriteTemp
  <2>2. Chain'
    <3> SUFFICES ASSUME orderly, NEW k \in 1..n
                 PROVE  /\ Covers(writing'[k].data, file)
                        /\ Covers(xid_history, writing'[k].data)
                        /\ \A j \in k..n : Covers(writing'[j].data, writing'[k].data)
      BY <1>1, <2>1 DEF Chain, Covers
    <3>1. \A j \in k..n : j \in 1..n
      BY <1>2
    <3> QED BY <3>1, <1>1, <2>1 DEF Chain
  <2>3. Fresh'
    <3>1. writing' # <<>> /\ writing # <<>> /\ n \in 1..n
      BY <1>2, <2>1
    <3> QED BY <3>1, <1>1, <2>1 DEF Fresh
  <2> QED BY <1>1, <2>2, <2>3
<1>4. CASE Replace(i) /\ i = 1
  <2>1. /\ Len(writing') = n - 1 /\ file' = writing[1].data /\ orderly' = orderly
        /\ \A j \in 1..(n - 1) : writing'[j] = writing[j + 1]
    <3>1. writing' = RemoveAt(writing, 1) /\ file' = writing[1].data /\ orderly' = orderly
      BY <1>4 DEF Replace, TypeOK
    <3> HIDE DEF W
    <3> QED BY <1>6, <3>1, RemoveAtFirst
  <2>2. Chain'
    <3> SUFFICES ASSUME orderly
                 PROVE  /\ Covers(xid_history, writing[1].data)
                        /\ \A k \in 1..(n - 1) :
                              /\ Covers(writing'[k].data, writing[1].data)
                              /\ Covers(xid_history, writing'[k].data)
                              /\ \A j \in k..(n - 1) : Covers(writing'[j].data, writing'[k].data)
      BY <1>1, <2>1 DEF Chain, Covers
    <3>1. ASSUME NEW k \in 1..(n - 1)
          PROVE  /\ Covers(writing'[k].data, writing[1].data)
                 /\ Covers(xid_history, writing'[k].data)
      <4>1. k + 1 \in 1..n /\ 1 \in 1..n /\ k + 1 \in 1..Len(writing)
        BY <1>2
      <4> QED BY <4>1, <1>1, <2>1 DEF Chain
    <3>2. ASSUME NEW k \in 1..(n - 1), NEW j \in k..(n - 1)
          PROVE  Covers(writing'[j].data, writing'[k].data)
      <4>1. k + 1 \in 1..n /\ j + 1 \in (k + 1)..n /\ j \in 1..(n - 1)
        BY <1>2
      <4> QED BY <4>1, <1>1, <2>1 DEF Chain
    <3> QED BY <3>1, <3>2, <1>1, <1>2 DEF Chain
  <2>3. Fresh'
    <3> SUFFICES ASSUME orderly, ~skipped, agent = "up", scheduled = 0
                 PROVE  xid_history = IF writing' = <<>> THEN file'
                                      ELSE writing'[Len(writing')].data
      BY <1>1, <2>1 DEF Fresh
    <3>1. xid_history = writing[n].data
      BY <1>2 DEF Fresh
    <3>2. CASE n = 1
      BY <3>1, <3>2, <2>1, <1>2, RemoveAtIsSeq, <1>4 DEF Replace
    <3>3. CASE n # 1
      <4>1. n - 1 \in 1..(n - 1) /\ (n - 1) + 1 = n
        <5> HIDE DEF n
        <5> QED BY <1>2, <3>3
      <4>2. writing' # <<>>
        BY <4>1, <2>1
      <4> QED BY <3>1, <4>1, <4>2, <2>1
    <3> QED BY <3>2, <3>3
  <2> QED BY <1>1, <2>2, <2>3
<1>5. CASE WriteFails(i) \/ (Replace(i) /\ i # 1)
  <2>1. ~orderly'
    BY <1>5 DEF WriteFails, Replace
  <2> QED BY <1>1, <2>1 DEF Chain, Fresh
<1> QED BY <1>3, <1>4, <1>5

(* The process starts from the file, and so does a reconnection. *)
LEMMA SavesLoad ==
    ASSUME Saves, Inv', Start \/ Reconnect
    PROVE  Saves'
<1> USE DEF Saves, Inv
<1>1. /\ xid_history' = file' /\ ~predates' /\ file' \in Histories
      /\ writing' = writing /\ scheduled' = scheduled
  BY DEF Start, Reconnect, LoadXidHistory, TypeOK
<1>2. orderly' => writing = <<>>
  BY DEF Start, Reconnect, AllSupported
<1>3. Chain'
  BY <1>1, <1>2, CoversItself DEF Chain
<1>4. Fresh'
  BY <1>1, <1>2 DEF Fresh
<1> QED BY <1>1, <1>3, <1>4

LEMMA SavesProcess ==
    ASSUME Saves, Inv', Stop \/ Exit \/ Crash \/ Reboot
    PROVE  Saves'
<1> USE DEF Saves, Inv
<1>1. CASE Stop
  BY <1>1 DEF Stop, Chain, Fresh, Covers
<1>2. CASE Exit \/ Crash \/ Reboot
  <2>1. agent' = "down"
    BY <1>2 DEF Exit, Crash, Reboot
  <2> QED BY <2>1 DEF Chain, Fresh
<1> QED BY <1>1, <1>2

LEMMA SavesStep == Saves /\ [Next]_vars => Saves'
<1> SUFFICES ASSUME Saves, [Next]_vars PROVE Saves'
  OBVIOUS
<1>1. Inv'
  BY StepCorrect DEF Saves
<1>2. CASE UNCHANGED vars
  BY <1>1, <1>2 DEF vars, Saves, Chain, Fresh, Covers
<1>3. CASE Next
  BY <1>1, <1>3, SavesReport, SavesSnapshot, SavesWrite, SavesLoad, SavesProcess DEF Next
<1> QED BY <1>2, <1>3

LEMMA SavesInvariant == Spec => []Saves
BY SavesInit, SavesStep, PTL DEF Spec

(* However records, saves and threads interleave, when no save is under    *)
(* way and none was left out since the last one (by an exception in        *)
(* track_fieldsv2, or a write that failed or came too late), the file has  *)
(* what the process knows.                                                 *)
THEOREM NothingUnsaved == Spec => []SavedWhenQuiet
<1>1. Saves => SavedWhenQuiet
  BY DEF Saves, Fresh, SavedWhenQuiet, Quiet
<1> QED BY <1>1, SavesInvariant, PTL

(* Until the node boots no save and no reconnection takes an XID out of    *)
(* the file, or makes it later.                                            *)
THEOREM FileOnlyGrows == Spec => FileKeepsXids
<1> DEFINE Kept == orderly' /\ ~predates => Covers(file', file)
<1>1. Saves /\ [Next]_vars => Kept \/ UNCHANGED vars
  <2> SUFFICES ASSUME Saves, Next, orderly', ~predates PROVE Covers(file', file)
    OBVIOUS
  <2>1. file \in Histories
    BY DEF Saves, Inv, TypeOK
  <2>2. CASE file' = file
    BY <2>1, <2>2, CoversItself
  <2>3. CASE \E i \in 1..Len(writing) : Replace(i)
    <3>1. PICK i \in 1..Len(writing) : Replace(i)
      BY <2>3
    <3>2. i = 1 /\ orderly /\ agent # "down" /\ file' = writing[1].data
      BY <3>1 DEF Replace
    <3> QED BY <3>2 DEF Saves, Chain
  <2>4. file' = file \/ \E i \in 1..Len(writing) : Replace(i)
    BY DEF Next, SaveXidHistory, Reconnect, LoadXidHistory, Stop, Exit, Crash, Reboot,
           Start, HandlePolicyViolation, TrackFields, TrackFieldsRaises, WriteTemp, WriteFails
  <2> QED BY <2>2, <2>3, <2>4
<1>2. Saves /\ [Next]_vars =>
         [orderly' /\ ~predates =>
             \A x \in Xids : file[x] # Never =>
                 file'[x] # Never /\ file'[x] <= file[x]]_vars
  BY <1>1 DEF Covers
<1> QED BY <1>2, SavesInvariant, PTL DEF Spec, FileKeepsXids
=============================================================================
