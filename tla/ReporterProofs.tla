--------------------------- MODULE ReporterProofs ---------------------------
(* Theorems about Reporter, for any set of checks and reports, with        *)
(* crashes, restarts, failing and reordered jetpack processes.             *)
EXTENDS Reporter, SequenceTheorems, TLAPS

(* The part of the types the safety proofs need: every function has the    *)
(* names as its domain, and the two flags are what they should be.         *)
Shape ==
    /\ module \in [Names -> {"none", "up", "half", "out"}]
    /\ store \in [Names -> HealthReport \cup {NoReport}]
    /\ file \in [Names -> HealthReport \cup {NoReport}]
    /\ sent \in [Names -> Commands \cup {Nothing}]
    /\ reported \in [Names -> BOOLEAN]

LEMMA NormalisedType == \A r \in HealthReport : Normalised(r) \in HealthReport
BY DEF Normalised, HealthReport, Messages

LEMMA CommandType == \A r \in HealthReport : CommandOf(r) \in Commands
BY DEF CommandOf, DefaultReport, HealthReport, Commands, Statuses, Messages, GhrCategories

LEMMA DefaultType == DefaultReport \in HealthReport
BY DEF DefaultReport, HealthReport, Statuses, Messages, GhrCategories

(* What update_report does to the store and to the command last started.   *)
LEMMA UpdateStep ==
  ASSUME Shape, NEW n \in Names, NEW r \in HealthReport, UpdateReport(n, r)
  PROVE  /\ store' \in [Names -> HealthReport \cup {NoReport}]
         /\ sent' \in [Names -> Commands \cup {Nothing}]
         /\ store'[n] = Normalised(r)
         /\ \A m \in Names \ {n} : store'[m] = store[m] /\ sent'[m] = sent[m]
         /\ \/ store' = store /\ sent' = sent
            \/ stopped
            \/ sent'[n] = CommandOf(store'[n])
<1>1. Normalised(r) \in HealthReport /\ CommandOf(Normalised(r)) \in Commands
  BY NormalisedType, CommandType
<1>2. CASE Changes(n, r)
  BY <1>1, <1>2 DEF UpdateReport, Publish, Shape
<1>3. CASE ~Changes(n, r)
  BY <1>1, <1>3 DEF UpdateReport, Changes, Shape
<1> QED
  BY <1>2, <1>3

(* clear_all_errors leaves the report alone or makes it OK.                *)
LEMMA ClearStep ==
  ASSUME Shape, NEW n \in Names, ClearAllErrors(n)
  PROVE  /\ store' \in [Names -> HealthReport \cup {NoReport}]
         /\ sent' \in [Names -> Commands \cup {Nothing}]
         /\ n \in ClearOnCreate => store'[n] = NoReport \/ store'[n] = DefaultReport
         /\ \A m \in Names \ {n} : store'[m] = store[m] /\ sent'[m] = sent[m]
         /\ \/ store' = store /\ sent' = sent
            \/ stopped
            \/ store'[n] \in HealthReport /\ sent'[n] = CommandOf(store'[n])
<1>1. Normalised(DefaultReport) = DefaultReport
  BY DEF Normalised, DefaultReport
<1>2. CASE n \in ClearOnCreate /\ store[n] # NoReport
  <2>1. UpdateReport(n, DefaultReport)
    BY <1>2 DEF ClearAllErrors
  <2> QED
    BY <2>1, <1>1, UpdateStep, DefaultType
<1>3. CASE ~(n \in ClearOnCreate /\ store[n] # NoReport)
  <2>1. UNCHANGED <<store, sent>>
    BY <1>3 DEF ClearAllErrors
  <2> QED
    BY <2>1, <1>3 DEF Shape
<1> QED
  BY <1>2, <1>3
-----------------------------------------------------------------------------
LEMMA ShapeInit == Init => Shape
BY DEF Init, Shape

(* A report of a check, or the clearing of one, keeps the shape. *)
LEMMA ShapeStep == Shape /\ [Next]_vars => Shape'
<1> SUFFICES ASSUME Shape, [Next]_vars PROVE Shape'
  OBVIOUS
<1>1. CASE Boot
  BY <1>1 DEF Boot, Shape
<1>2. CASE Initialized \/ Stop \/ BeginSave \/ Exit \/ Crash \/ UNCHANGED vars
  BY <1>2 DEF Initialized, Stop, BeginSave, Exit, Crash, Down, Shape, vars
<1>3. ASSUME NEW n \in Names, Create(n) \/ CreateFails(n) PROVE Shape'
  <2>1. store' \in [Names -> HealthReport \cup {NoReport}]
        /\ sent' \in [Names -> Commands \cup {Nothing}]
    BY <1>3, ClearStep DEF Create, CreateFails, Shape
  <2>2. UNCHANGED <<file, reported>> /\ module' \in [Names -> {"none", "up", "half", "out"}]
    BY <1>3 DEF Create, CreateFails, Shape
  <2> QED
    BY <2>1, <2>2 DEF Shape
<1>4. ASSUME NEW n \in Names, SaveReporter(n) PROVE Shape'
  BY <1>4 DEF SaveReporter, Shape
<1>5. ASSUME NEW n \in Names, NEW r \in Reports, Report(n, r) PROVE Shape'
  <2>1. r \in HealthReport
    BY ReporterAssumption
  <2>2. store' \in [Names -> HealthReport \cup {NoReport}]
        /\ sent' \in [Names -> Commands \cup {Nothing}]
    BY <1>5, <2>1, UpdateStep DEF Report
  <2> QED
    BY <1>5, <2>2 DEF Report, Shape
<1>6. ASSUME NEW i \in 1..Len(inflight), JetpackEnds(i) \/ JetpackFails(i) PROVE Shape'
  BY <1>6 DEF JetpackEnds, JetpackFails, Shape
<1> QED
  BY <1>1, <1>2, <1>3, <1>4, <1>5, <1>6 DEF Next

-----------------------------------------------------------------------------
(* One name at a time: what ChangesArePublished says of n. *)
Published(n) ==
    IF sent[n] = Nothing THEN store[n] = file[n]
    ELSE store[n] # NoReport /\ sent[n] = CommandOf(store[n])

LEMMA CommandIsSome == \A r \in HealthReport : CommandOf(r) # Nothing /\ r # NoReport
BY CommandType, ReporterAssumption

LEMMA PublishedStep ==
  Shape /\ ChangesArePublished /\ [Next]_vars => ChangesArePublished'
<1> SUFFICES ASSUME Shape, ChangesArePublished, [Next]_vars,
                    agent' \in {"starting", "running"}, ~stopped',
                    NEW m \in Names
             PROVE  Published(m)'
  BY DEF ChangesArePublished, Published
<1>1. CASE Boot
  BY <1>1 DEF Boot, Published
<1>2. ASSUME agent \in {"starting", "running"}, ~stopped PROVE Published(m)
  BY <1>2 DEF ChangesArePublished, Published
<1>3. CASE UNCHANGED <<store, sent, file, stopped>> /\ agent \in {"starting", "running"}
  BY <1>2, <1>3 DEF Published
<1>4. CASE Initialized \/ Stop \/ BeginSave \/ Exit \/ Crash \/ UNCHANGED vars
  BY <1>3, <1>4 DEF Initialized, Stop, BeginSave, Exit, Crash, Down, vars
<1>5. ASSUME NEW n \in Names, Create(n) \/ CreateFails(n) PROVE Published(m)'
  <2>1. agent \in {"starting", "running"} /\ ~stopped /\ file' = file
    BY <1>5 DEF Create, CreateFails
  <2>2. CASE UNCHANGED <<store, sent>>
    BY <1>2, <2>1, <2>2 DEF Published
  <2>3. CASE ClearAllErrors(n)
    <3>1. m # n => Published(m)'
      BY <1>2, <2>1, <2>3, ClearStep DEF Published
    <3>2. \/ store' = store /\ sent' = sent
          \/ store'[n] \in HealthReport /\ sent'[n] = CommandOf(store'[n])
      BY <2>1, <2>3, ClearStep
    <3>3. m = n => Published(m)'
      BY <1>2, <2>1, <3>2, CommandIsSome DEF Published
    <3> QED
      BY <3>1, <3>3
  <2> QED
    BY <1>5, <2>2, <2>3 DEF Create, CreateFails
<1>6. ASSUME NEW n \in Names, SaveReporter(n) PROVE Published(m)'
  BY <1>6 DEF SaveReporter
<1>7. ASSUME NEW n \in Names, NEW r \in Reports, Report(n, r) PROVE Published(m)'
  <2>1. agent \in {"starting", "running"} /\ ~stopped /\ file' = file
    BY <1>7 DEF Report
  <2>2. UpdateReport(n, r) /\ r \in HealthReport
    BY <1>7, ReporterAssumption DEF Report
  <2>3. m # n => Published(m)'
    BY <1>2, <2>1, <2>2, UpdateStep DEF Published
  <2>4. store'[n] = Normalised(r) /\ Normalised(r) \in HealthReport
    BY <2>2, UpdateStep, NormalisedType
  <2>5. (store' = store /\ sent' = sent) \/ sent'[n] = CommandOf(store'[n])
    BY <2>1, <2>2, UpdateStep
  <2>6. m = n => Published(m)'
    BY <1>2, <2>1, <2>4, <2>5, CommandIsSome DEF Published
  <2> QED
    BY <2>3, <2>6
<1>8. ASSUME NEW i \in 1..Len(inflight), JetpackEnds(i) \/ JetpackFails(i)
      PROVE  Published(m)'
  BY <1>3, <1>8 DEF JetpackEnds, JetpackFails
<1> QED
  BY <1>1, <1>4, <1>5, <1>6, <1>7, <1>8 DEF Next

(* Every change of a report since the process started is handed to jetpack *)
(* as it is stored (Reporter.update_report, publish_cc_status).            *)
THEOREM ChangesPublished == Spec => []ChangesArePublished
<1>1. Init => ChangesArePublished
  BY DEF Init, ChangesArePublished
<1> QED
  BY <1>1, ShapeInit, ShapeStep, PublishedStep, PTL DEF Spec

-----------------------------------------------------------------------------
LEMMA InheritedStep == Shape /\ NothingInherited /\ [Next]_vars => NothingInherited'
<1> SUFFICES ASSUME Shape, NothingInherited, [Next]_vars, NEW m \in ClearOnCreate,
                    Up(m)', store'[m] # NoReport, store'[m].status # "OK"
             PROVE  reported'[m]
  BY DEF NothingInherited
<1> m \in Names
  BY ReporterAssumption
<1>1. ASSUME Up(m), store'[m] = store[m] PROVE reported[m]
  BY <1>1 DEF NothingInherited
<1>2. CASE Boot
  BY <1>2 DEF Boot, Up
<1>3. CASE Initialized \/ Stop \/ BeginSave \/ Exit \/ Crash \/ UNCHANGED vars
  BY <1>1, <1>3 DEF Initialized, Stop, BeginSave, Exit, Crash, Down, Up, vars
<1>4. ASSUME NEW n \in Names, Create(n) \/ CreateFails(n) PROVE reported'[m]
  <2>1. CASE n # m
    <3>1. Up(m) /\ store'[m] = store[m] /\ reported' = reported
      BY <1>4, <2>1, ClearStep DEF Create, CreateFails, Up, Shape
    <3> QED
      BY <1>1, <3>1
  <2>2. CASE n = m
    <3>1. ClearAllErrors(m) /\ module'[m] = "up"
      BY <1>4, <2>2 DEF Create, CreateFails, Up, Shape
    <3>2. store'[m] = NoReport \/ store'[m] = DefaultReport
      BY <3>1, ClearStep
    <3> QED
      BY <3>2 DEF DefaultReport
  <2> QED
    BY <2>1, <2>2
<1>5. ASSUME NEW n \in Names, SaveReporter(n) PROVE reported'[m]
  BY <1>1, <1>5 DEF SaveReporter, Up
<1>6. ASSUME NEW n \in Names, NEW r \in Reports, Report(n, r) PROVE reported'[m]
  <2>1. CASE n = m
    BY <1>6, <2>1 DEF Report, Shape
  <2>2. CASE n # m
    <3>1. Up(m) /\ store'[m] = store[m] /\ reported'[m] = reported[m]
      BY <1>6, <2>2, UpdateStep, ReporterAssumption DEF Report, Up, Shape
    <3> QED
      BY <1>1, <3>1
  <2> QED
    BY <2>1, <2>2
<1>7. ASSUME NEW i \in 1..Len(inflight), JetpackEnds(i) \/ JetpackFails(i)
      PROVE  reported'[m]
  BY <1>1, <1>7 DEF JetpackEnds, JetpackFails, Up
<1> QED
  BY <1>2, <1>3, <1>4, <1>5, <1>6, <1>7 DEF Next

(* A module that clears on create holds the node degraded only for what    *)
(* its check saw in this process (Reporter.clear_all_errors in create()).  *)
THEOREM NoInheritedErrors == Spec => []NothingInherited
<1>1. Init => NothingInherited
  BY DEF Init, NothingInherited, Up
<1> QED
  BY <1>1, ShapeInit, ShapeStep, InheritedStep, PTL DEF Spec
-----------------------------------------------------------------------------
(* Taking one element out of a sequence moves the later ones down.         *)
LEMMA RemoveAtMoves ==
  ASSUME NEW S, NEW s \in Seq(S), NEW i \in 1..Len(s)
  PROVE  /\ RemoveAt(s, i) \in Seq(S)
         /\ Len(RemoveAt(s, i)) = Len(s) - 1
         /\ \A k \in 1..(Len(s) - 1) :
                RemoveAt(s, i)[k] = IF k < i THEN s[k] ELSE s[k + 1]
<1> DEFINE a == SubSeq(s, 1, i - 1)
           b == SubSeq(s, i + 1, Len(s))
<1>1. a \in Seq(S) /\ Len(a) = i - 1 /\ \A k \in 1..(i - 1) : a[k] = s[k]
  OBVIOUS
<1>2. b \in Seq(S) /\ Len(b) = Len(s) - i /\ \A k \in 1..(Len(s) - i) : b[k] = s[i + k]
  OBVIOUS
<1>3. RemoveAt(s, i) = a \o b
  BY DEF RemoveAt
<1> HIDE DEF a, b
<1>4. /\ a \o b \in Seq(S) /\ Len(a \o b) = Len(a) + Len(b)
      /\ \A k \in 1..(Len(a) + Len(b)) :
             (a \o b)[k] = IF k <= Len(a) THEN a[k] ELSE b[k - Len(a)]
  BY <1>1, <1>2, ConcatProperties
<1>5. ASSUME NEW k \in 1..(Len(s) - 1)
      PROVE  (a \o b)[k] = IF k < i THEN s[k] ELSE s[k + 1]
  <2>0. k \in 1..(Len(a) + Len(b)) /\ Len(a) = i - 1 /\ Len(s) \in Nat
    BY <1>1, <1>2
  <2>1. CASE k < i
    <3>1. k <= Len(a) /\ k \in 1..(i - 1)
      BY <2>0, <2>1
    <3> QED
      BY <1>1, <1>4, <2>0, <2>1, <3>1
  <2>2. CASE k >= i
    <3>1. (a \o b)[k] = b[k - (i - 1)]
      BY <1>1, <1>2, <1>4, <2>2
    <3>2. k - (i - 1) \in 1..(Len(s) - i) /\ i + (k - (i - 1)) = k + 1
      BY <2>2
    <3>3. b[k - (i - 1)] = s[k + 1]
      BY <1>2, <3>2
    <3> QED
      BY <2>0, <2>2, <3>1, <3>3
  <2>3. k < i \/ k >= i
    BY <2>0
  <2> QED
    BY <2>1, <2>2, <2>3
<1> QED
  BY <1>1, <1>2, <1>3, <1>4, <1>5

Processes == [name : Names, command : Commands]

(* update_report starts one jetpack process, or none.                      *)
LEMMA UpdateSends ==
  ASSUME Shape, NEW n \in Names, NEW r \in HealthReport, UpdateReport(n, r)
  PROVE  \/ UNCHANGED <<inflight, sent>>
         \/ \E c \in Commands :
               /\ inflight' = Append(inflight, [name |-> n, command |-> c])
               /\ sent' = [sent EXCEPT ![n] = c]
BY NormalisedType, CommandType DEF UpdateReport, Publish

(* So does whatever creates a module, and whatever reports. *)
LEMMA StepSends ==
  ASSUME Shape, NEW n \in Names,
         \/ Create(n) \/ CreateFails(n)
         \/ \E r \in Reports : Report(n, r)
  PROVE  \/ UNCHANGED <<inflight, sent>>
         \/ \E c \in Commands :
               /\ inflight' = Append(inflight, [name |-> n, command |-> c])
               /\ sent' = [sent EXCEPT ![n] = c]
<1>1. CASE \E r \in Reports : Report(n, r)
  BY <1>1, UpdateSends, ReporterAssumption DEF Report
<1>2. CASE Create(n) \/ CreateFails(n)
  <2>1. CASE ClearAllErrors(n)
    BY <2>1, UpdateSends, DefaultType DEF ClearAllErrors
  <2> QED
    BY <1>2, <2>1 DEF Create, CreateFails
<1> QED
  BY <1>1, <1>2

LEMMA TypeInit == Init => TypeOK
<1> SUFFICES ASSUME Init PROVE TypeOK
  OBVIOUS
<1>1. inflight \in Seq(Processes)
  BY DEF Init
<1> QED
  BY <1>1 DEF Init, TypeOK, Processes

LEMMA TypeStep == TypeOK /\ [Next]_vars => TypeOK'
<1> SUFFICES ASSUME TypeOK, [Next]_vars PROVE TypeOK'
  OBVIOUS
<1>s. Shape /\ Shape'
  BY ShapeStep DEF TypeOK, Shape
<1> DEFINE Control == /\ agent' \in {"new", "starting", "running", "saving", "down"}
                      /\ stopped' \in BOOLEAN /\ orderly' \in BOOLEAN
                      /\ unsaved' \subseteq Names
                      /\ cc' \in [Names -> Commands \cup {Nothing}]
           Flight == inflight' \in Seq(Processes)
<1>t. inflight \in Seq(Processes)
  BY DEF TypeOK, Processes
<1> SUFFICES Control /\ Flight
  BY <1>s DEF TypeOK, Shape, Processes
<1>1. CASE Boot \/ Initialized \/ Stop \/ BeginSave \/ Exit \/ Crash \/ UNCHANGED vars
  <2>1. Control
    BY <1>1 DEF TypeOK, Boot, Initialized, Stop, BeginSave, Exit, Crash, Down, vars
  <2>2. inflight' = inflight \/ inflight' = <<>>
    BY <1>1 DEF Boot, Initialized, Stop, BeginSave, Exit, Crash, Down, vars
  <2>3. <<>> \in Seq(Processes)
    OBVIOUS
  <2>4. Flight
    BY <1>t, <2>2, <2>3
  <2> QED
    BY <2>1, <2>4
<1>2. ASSUME NEW n \in Names,
             Create(n) \/ CreateFails(n) \/ \E r \in Reports : Report(n, r)
      PROVE  Control /\ Flight
  <2>1. Control
    BY <1>2 DEF TypeOK, Create, CreateFails, Report
  <2>2. inflight' = inflight
        \/ \E c \in Commands : inflight' = Append(inflight, [name |-> n, command |-> c])
    BY <1>2, <1>s, StepSends
  <2>3. \A c \in Commands : [name |-> n, command |-> c] \in Processes
    BY DEF Processes
  <2>4. Flight
    BY <1>t, <2>2, <2>3, AppendProperties
  <2> QED
    BY <2>1, <2>4
<1>3. ASSUME NEW n \in Names, SaveReporter(n) PROVE Control /\ Flight
  BY <1>3, <1>t DEF TypeOK, SaveReporter
<1>4. ASSUME NEW i \in 1..Len(inflight), JetpackEnds(i) \/ JetpackFails(i)
      PROVE  Control /\ Flight
  <2>1. inflight[i] \in Processes
    BY <1>t
  <2>2. inflight' = RemoveAt(inflight, i)
    BY <1>4 DEF JetpackEnds, JetpackFails
  <2>3. Control
    BY <1>4, <2>1 DEF TypeOK, JetpackEnds, JetpackFails, Processes
  <2> QED
    BY <1>t, <2>2, <2>3, RemoveAtMoves
<1> QED
  BY <1>1, <1>2, <1>3, <1>4 DEF Next

(* The variables keep their types, for any checks, reports and number of   *)
(* jetpack processes (Reporter and Healthagent).                           *)
THEOREM TypeCorrect == Spec => []TypeOK
BY TypeInit, TypeStep, PTL DEF Spec

-----------------------------------------------------------------------------
(* The youngest process of a name. *)
IsYoungest(i) == \A k \in (i + 1)..Len(inflight) : inflight[k].name # inflight[i].name

(* The last command started for n is on its way, with none of the same     *)
(* name behind it, or it has arrived.                                      *)
OnItsWay(n) ==
    \E i \in 1..Len(inflight) :
        inflight[i].name = n /\ inflight[i].command = sent[n] /\ IsYoungest(i)
Arrived(n) ==
    /\ \A i \in 1..Len(inflight) : inflight[i].name # n
    /\ cc[n] = sent[n]

Delivered ==
    agent # "down" /\ orderly =>
        \A n \in Names : sent[n] # Nothing => OnItsWay(n) \/ Arrived(n)

LEMMA SendDelivers ==
  ASSUME TypeOK, NEW n \in Names, NEW c \in Commands, NEW m \in Names,
         inflight' = Append(inflight, [name |-> n, command |-> c]),
         sent' = [sent EXCEPT ![n] = c], cc' = cc,
         m # n => OnItsWay(m) \/ Arrived(m)
  PROVE  (OnItsWay(m) \/ Arrived(m))'
<1>1. inflight \in Seq(Processes)
  BY DEF TypeOK, Processes
<1>2. /\ Len(inflight') = Len(inflight) + 1
      /\ inflight'[Len(inflight) + 1] = [name |-> n, command |-> c]
      /\ \A i \in 1..Len(inflight) : inflight'[i] = inflight[i]
      /\ Len(inflight) \in Nat
  BY <1>1
<1>3. CASE m = n
  <2>1. sent'[m] = c
    BY <1>3 DEF TypeOK
  <2>2. OnItsWay(m)'
    BY <1>2, <1>3, <2>1 DEF OnItsWay, IsYoungest
  <2> QED
    BY <2>2
<1>4. CASE m # n /\ OnItsWay(m)
  <2>1. PICK i \in 1..Len(inflight) :
           inflight[i].name = m /\ inflight[i].command = sent[m] /\ IsYoungest(i)
    BY <1>4 DEF OnItsWay
  <2>2. sent'[m] = sent[m]
    BY <1>4 DEF TypeOK
  <2>3. IsYoungest(i)'
    <3> SUFFICES ASSUME NEW k \in (i + 1)..(Len(inflight) + 1)
                 PROVE  inflight'[k].name # inflight'[i].name
      BY <1>2 DEF IsYoungest
    <3>1. CASE k = Len(inflight) + 1
      BY <1>2, <1>4, <2>1, <3>1
    <3>2. CASE k \in (i + 1)..Len(inflight)
      BY <1>2, <2>1, <3>2 DEF IsYoungest
    <3> QED
      BY <1>2, <3>1, <3>2
  <2> QED
    BY <1>2, <2>1, <2>2, <2>3 DEF OnItsWay
<1>5. CASE m # n /\ Arrived(m)
  <2>1. sent'[m] = sent[m]
    BY <1>5 DEF TypeOK
  <2>2. \A i \in 1..(Len(inflight) + 1) : inflight'[i].name # m
    BY <1>2, <1>5 DEF Arrived
  <2> QED
    BY <1>2, <1>5, <2>1, <2>2 DEF Arrived
<1> QED
  BY <1>3, <1>4, <1>5

LEMMA EndDelivers ==
  ASSUME TypeOK, Delivered, NEW i \in 1..Len(inflight), JetpackEnds(i),
         agent' # "down", orderly',
         NEW m \in Names, sent'[m] # Nothing
  PROVE  (OnItsWay(m) \/ Arrived(m))'
<1>1. inflight \in Seq(Processes) /\ Len(inflight) \in Nat
  BY DEF TypeOK, Processes
<1>2. /\ Len(inflight') = Len(inflight) - 1
      /\ \A k \in 1..(Len(inflight) - 1) :
            inflight'[k] = IF k < i THEN inflight[k] ELSE inflight[k + 1]
  BY <1>1, RemoveAtMoves DEF JetpackEnds
<1>3. orderly /\ IsOldest(i) /\ sent' = sent
      /\ cc' = [cc EXCEPT ![inflight[i].name] = inflight[i].command]
      /\ agent # "down"
  BY DEF JetpackEnds
<1>4. inflight[i] \in Processes /\ cc \in [Names -> Commands \cup {Nothing}]
  BY <1>1 DEF TypeOK
<1>5. CASE OnItsWay(m)
  <2>1. PICK j \in 1..Len(inflight) :
           inflight[j].name = m /\ inflight[j].command = sent[m] /\ IsYoungest(j)
    BY <1>5 DEF OnItsWay
  <2>2. CASE j = i
    <3>1. \A k \in 1..Len(inflight) : k # i => inflight[k].name # m
      BY <1>1, <1>3, <2>1, <2>2 DEF IsOldest, IsYoungest
    <3>2. \A k \in 1..(Len(inflight) - 1) : inflight'[k].name # m
      BY <1>1, <1>2, <3>1
    <3>3. cc'[m] = sent'[m]
      BY <1>3, <1>4, <2>1, <2>2 DEF Processes
    <3> QED
      BY <1>2, <3>2, <3>3 DEF Arrived
  <2>3. CASE j < i
    <3>1. j \in 1..(Len(inflight) - 1) /\ inflight'[j] = inflight[j]
      BY <1>1, <1>2, <2>3
    <3>2. \A k \in (j + 1)..(Len(inflight) - 1) : inflight'[k].name # m
      BY <1>1, <1>2, <2>1 DEF IsYoungest
    <3> QED
      BY <1>2, <1>3, <2>1, <3>1, <3>2 DEF OnItsWay, IsYoungest
  <2>4. CASE j > i
    <3>1. j - 1 \in 1..(Len(inflight) - 1) /\ inflight'[j - 1] = inflight[j]
      BY <1>1, <1>2, <2>4
    <3>2. \A k \in j..(Len(inflight) - 1) : inflight'[k].name # m
      BY <1>1, <1>2, <2>1, <2>4 DEF IsYoungest
    <3>3. (j - 1) + 1 = j
      OBVIOUS
    <3> QED
      BY <1>2, <1>3, <2>1, <3>1, <3>2, <3>3 DEF OnItsWay, IsYoungest
  <2> QED
    BY <2>2, <2>3, <2>4
<1>6. CASE Arrived(m)
  <2>1. inflight[i].name # m
    BY <1>6 DEF Arrived
  <2>2. cc'[m] = cc[m]
    BY <1>3, <1>4, <2>1
  <2>3. \A k \in 1..(Len(inflight) - 1) : inflight'[k].name # m
    BY <1>1, <1>2, <1>6 DEF Arrived
  <2> QED
    BY <1>2, <1>3, <1>6, <2>2, <2>3 DEF Arrived
<1> QED
  BY <1>3, <1>5, <1>6 DEF Delivered

LEMMA DeliveredStep == TypeOK /\ Delivered /\ [Next]_vars => Delivered'
<1> SUFFICES ASSUME TypeOK, Delivered, [Next]_vars, NEW m \in Names,
                    agent' # "down", orderly', sent'[m] # Nothing
             PROVE  (OnItsWay(m) \/ Arrived(m))'
  BY DEF Delivered
<1>1. CASE Boot
  BY <1>1 DEF Boot
<1>2. CASE UNCHANGED <<inflight, sent, cc, orderly>> /\ agent # "down"
  BY <1>2 DEF Delivered, OnItsWay, Arrived, IsYoungest
<1>3. CASE Initialized \/ Stop \/ BeginSave \/ UNCHANGED vars
  BY <1>2, <1>3 DEF Initialized, Stop, BeginSave, vars
<1>4. CASE Exit \/ Crash
  BY <1>4 DEF Exit, Crash, Down
<1>5. ASSUME NEW n \in Names,
             Create(n) \/ CreateFails(n) \/ \E r \in Reports : Report(n, r)
      PROVE  (OnItsWay(m) \/ Arrived(m))'
  <2>1. UNCHANGED <<cc, orderly, agent>>
    BY <1>5 DEF Create, CreateFails, Report
  <2>2. CASE UNCHANGED <<inflight, sent>>
    BY <1>2, <2>1, <2>2
  <2>3. CASE \E c \in Commands :
               /\ inflight' = Append(inflight, [name |-> n, command |-> c])
               /\ sent' = [sent EXCEPT ![n] = c]
    <3>1. PICK c \in Commands :
               /\ inflight' = Append(inflight, [name |-> n, command |-> c])
               /\ sent' = [sent EXCEPT ![n] = c]
      BY <2>3
    <3>2. m # n => OnItsWay(m) \/ Arrived(m)
      BY <2>1, <3>1 DEF Delivered, TypeOK
    <3> QED
      BY <2>1, <3>1, <3>2, SendDelivers
  <2>4. Shape
    BY DEF TypeOK, Shape
  <2> QED
    BY <1>5, <2>2, <2>3, <2>4, StepSends
<1>6. ASSUME NEW n \in Names, SaveReporter(n) PROVE (OnItsWay(m) \/ Arrived(m))'
  BY <1>2, <1>6 DEF SaveReporter
<1>7. ASSUME NEW i \in 1..Len(inflight), JetpackEnds(i)
      PROVE  (OnItsWay(m) \/ Arrived(m))'
  BY <1>7, EndDelivers
<1>8. ASSUME NEW i \in 1..Len(inflight), JetpackFails(i)
      PROVE  (OnItsWay(m) \/ Arrived(m))'
  BY <1>8 DEF JetpackFails
<1> QED
  BY <1>1, <1>3, <1>4, <1>5, <1>6, <1>7, <1>8 DEF Next

(* Whatever stopped, crashed or restarted before, and however many reports *)
(* were published at once: what a check reported last in this process is   *)
(* what CycleCloud shows, once its processes have ended in order           *)
(* (Reporter.update_report, publish_cc_status).                            *)
THEOREM ConditionsCurrent == Spec => []ConditionIsCurrent
<1>1. Init => Delivered
  BY DEF Init, Delivered
<1>2. Init => ChangesArePublished
  BY DEF Init, ChangesArePublished
<1>3. ChangesArePublished /\ Delivered => ConditionIsCurrent
  <2> SUFFICES ASSUME ChangesArePublished, Delivered,
                      NEW n \in Names, Settled(n), orderly, sent[n] # Nothing
               PROVE  cc[n] = CommandOf(store[n])
    BY DEF ConditionIsCurrent
  <2>1. sent[n] = CommandOf(store[n])
    BY DEF ChangesArePublished, Settled
  <2>2. Arrived(n)
    BY DEF Delivered, Settled, OnItsWay
  <2> QED
    BY <2>1, <2>2 DEF Arrived
<1> QED
  BY <1>1, <1>2, <1>3, ShapeInit, ShapeStep, PublishedStep, TypeInit, TypeStep,
     DeliveredStep, PTL DEF Spec
=============================================================================
