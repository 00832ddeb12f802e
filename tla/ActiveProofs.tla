---------------------------- MODULE ActiveProofs ----------------------------
(***************************************************************************)
(* The active checks of any number of slots: types, exclusion and draining *)
(* for every set of slots whose jobs hold GPUs of their own.  What makes   *)
(* them hold: the requests at the lock are distinct, the first under test, *)
(* the others queued (Locked); a request is handled only for an epilog     *)
(* that waits, unless its client is gone (Waits); and an error that was    *)
(* found stays with its epilog (Kept).                                     *)
(***************************************************************************)
EXTENDS ActiveChecks, TLAPS

Jobs == {"running", "epilog", "released", "drained"}
States == {"none", "memory", "queued", "diag", "hung", "answer"}
AtLock == {"queued", "diag", "hung"}

Typed ==
    /\ job \in [Slots -> Jobs]
    /\ handler \in [Slots -> States]
    /\ found \in [Slots -> {"healthy", "error"}]
    /\ lock \in Seq(Slots)
    /\ agent \in {"up", "stopping", "down"}
    /\ unheard \subseteq Slots /\ faulty \subseteq Slots

(* The order of the requests at the lock is what their handlers say. *)
Orderly(h, l) ==
    /\ \A i, j \in 1..Len(l) : l[i] = l[j] => i = j
    /\ \A i \in 1..Len(l) :
          h[l[i]] \in (IF i = 1 THEN {"diag", "hung"} ELSE {"queued"})
    /\ \A s \in Slots : h[s] \in AtLock => \E i \in 1..Len(l) : l[i] = s

Locked == Orderly(handler, lock)

Waits == \A s \in Slots : handler[s] # "none" /\ s \notin unheard => job[s] = "epilog"

Kept ==
    \A s \in faulty \ unheard :
        /\ job[s] = "epilog" => found[s] = "error"
        /\ job[s] # "released"

Inv == Typed /\ Locked /\ Waits /\ Kept

-----------------------------------------------------------------------------
(* A handler that stays as far from the lock as it was changes nothing. *)
LEMMA OrderlyElsewhere ==
    ASSUME NEW h \in [Slots -> States], NEW l \in Seq(Slots), Orderly(h, l),
           NEW s \in Slots, NEW x \in States,
           \/ h[s] \notin AtLock /\ x \notin AtLock
           \/ h[s] = "diag" /\ x = "hung"
    PROVE  Orderly([h EXCEPT ![s] = x], l)
<1> DEFINE g == [h EXCEPT ![s] = x]
<1>1. \A t \in Slots : g[t] = IF t = s THEN x ELSE h[t]
    OBVIOUS
<1>2. \A i \in 1..Len(l) : l[i] \in Slots
    OBVIOUS
<1> HIDE DEF g
<1>3. \A i \in 1..Len(l) : g[l[i]] \in (IF i = 1 THEN {"diag", "hung"} ELSE {"queued"})
    BY <1>1, <1>2 DEF Orderly, AtLock
<1>4. \A t \in Slots : g[t] \in AtLock => \E i \in 1..Len(l) : l[i] = t
    BY <1>1 DEF Orderly, AtLock
<1>5. Orderly(g, l)
    BY <1>3, <1>4 DEF Orderly
<1> QED
    BY <1>5 DEF g

(* A request that comes to the lock is the last. *)
LEMMA OrderlyAppend ==
    ASSUME NEW h \in [Slots -> States], NEW l \in Seq(Slots), Orderly(h, l),
           NEW s \in Slots, h[s] \notin AtLock
    PROVE  Orderly([h EXCEPT ![s] = IF l = <<>> THEN "diag" ELSE "queued"], Append(l, s))
<1> DEFINE x == IF l = <<>> THEN "diag" ELSE "queued"
<1> DEFINE g == [h EXCEPT ![s] = x]
<1> DEFINE m == Append(l, s)
<1>1. \A t \in Slots : g[t] = IF t = s THEN x ELSE h[t]
    OBVIOUS
<1>2. /\ Len(l) \in Nat /\ Len(m) = Len(l) + 1 /\ m[Len(l) + 1] = s
      /\ \A i \in 1..Len(l) : m[i] = l[i] /\ l[i] \in Slots /\ l[i] # s
    BY DEF Orderly, AtLock
<1>3. l = <<>> <=> Len(l) = 0
    OBVIOUS
<1> HIDE DEF g, m
<1>4. ASSUME NEW i \in 1..Len(m)
      PROVE  g[m[i]] \in (IF i = 1 THEN {"diag", "hung"} ELSE {"queued"})
    <2>1. CASE i = Len(l) + 1
        BY <2>1, <1>1, <1>2, <1>3
    <2>2. CASE i \in 1..Len(l)
        <3>1. g[m[i]] = h[l[i]]
            BY <2>2, <1>1, <1>2
        <3> QED
            BY <3>1, <2>2 DEF Orderly
    <2> QED
        BY <2>1, <2>2, <1>2
<1>5. ASSUME NEW i \in 1..Len(m), NEW j \in 1..Len(m), m[i] = m[j]
      PROVE  i = j
    <2>1. i \in 1..Len(l) \/ i = Len(l) + 1
        BY <1>2
    <2>2. j \in 1..Len(l) \/ j = Len(l) + 1
        BY <1>2
    <2> QED
        BY <2>1, <2>2, <1>2, <1>5 DEF Orderly
<1>6. ASSUME NEW t \in Slots, g[t] \in AtLock
      PROVE  \E i \in 1..Len(m) : m[i] = t
    <2>1. CASE t = s
        BY <2>1, <1>2
    <2>2. CASE t # s
        <3>1. PICK i \in 1..Len(l) : l[i] = t
            BY <2>2, <1>1, <1>6 DEF Orderly
        <3> QED
            BY <3>1, <1>2
    <2> QED
        BY <2>1, <2>2
<1>7. Orderly(g, m)
    BY <1>4, <1>5, <1>6 DEF Orderly
<1> QED
    BY <1>7 DEF g, m

(* The holder leaves and the next request is under test. *)
LEMMA OrderlyRelease ==
    ASSUME NEW h \in [Slots -> States], NEW l \in Seq(Slots), Orderly(h, l),
           NEW s \in Slots, h[s] = "diag",
           NEW g, g = [t \in Slots |->
               IF t = s THEN "answer"
               ELSE IF Tail(l) # <<>> /\ t = Head(Tail(l)) THEN "diag" ELSE h[t]]
    PROVE  l # <<>> /\ Tail(l) \in Seq(Slots) /\ g \in [Slots -> States] /\ Orderly(g, Tail(l))
<1> DEFINE m == Tail(l)
<1>1. PICK k \in 1..Len(l) : l[k] = s
    BY DEF Orderly, AtLock
<1>2. k = 1
    BY <1>1 DEF Orderly
<1>3. l # <<>> /\ l[1] = s
    BY <1>1, <1>2
<1>4. /\ m \in Seq(Slots) /\ Len(l) \in Nat /\ Len(m) = Len(l) - 1
      /\ \A i \in 1..Len(m) : m[i] = l[i + 1] /\ i + 1 \in 1..Len(l) /\ l[i + 1] \in Slots
    BY <1>3
<1>5. (m # <<>> <=> Len(m) > 0) /\ (m # <<>> => Head(m) = m[1])
    <2> HIDE DEF m
    <2>1. m \in Seq(Slots)
        BY <1>4
    <2> QED
        BY <2>1
<1>6. \A i \in 1..Len(m) : m[i] # s
    BY <1>3, <1>4 DEF Orderly
<1>7. \A t \in Slots : g[t] = IF t = s THEN "answer"
                              ELSE IF Len(m) > 0 /\ t = m[1] THEN "diag" ELSE h[t]
    BY <1>5
<1> HIDE DEF m
<1>8. ASSUME NEW i \in 1..Len(m), NEW j \in 1..Len(m), m[i] = m[j]
      PROVE  i = j
    <2>1. i + 1 = j + 1
        BY <1>8, <1>4 DEF Orderly
    <2> QED
        BY <2>1
<1>9. ASSUME NEW i \in 1..Len(m)
      PROVE  g[m[i]] \in (IF i = 1 THEN {"diag", "hung"} ELSE {"queued"})
    <2>1. CASE i = 1
        BY <2>1, <1>4, <1>6, <1>7
    <2>2. CASE i # 1
        <3>1. m[i] # m[1] /\ m[i] # s /\ m[i] \in Slots
            BY <2>2, <1>4, <1>6, <1>8
        <3>2. g[m[i]] = h[l[i + 1]]
            BY <3>1, <1>4, <1>7
        <3>3. i + 1 # 1
            BY <2>2
        <3> QED
            BY <3>2, <3>3, <2>2, <1>4 DEF Orderly
    <2> QED
        BY <2>1, <2>2
<1>10. ASSUME NEW t \in Slots, g[t] \in AtLock
       PROVE  \E i \in 1..Len(m) : m[i] = t
    <2>1. CASE Len(m) > 0 /\ t = m[1]
        BY <2>1, <1>4
    <2>2. CASE ~(Len(m) > 0 /\ t = m[1])
        <3>1. t # s /\ h[t] \in AtLock
            BY <2>2, <1>7, <1>10 DEF AtLock
        <3>2. PICK i \in 1..Len(l) : l[i] = t
            BY <3>1 DEF Orderly
        <3>3. i # 1
            BY <3>1, <3>2, <1>3
        <3>4. i - 1 \in 1..Len(m) /\ m[i - 1] = l[i]
            BY <3>3, <1>4
        <3> QED
            BY <3>2, <3>4
    <2> QED
        BY <2>1, <2>2
<1>11. Orderly(g, m)
    BY <1>8, <1>9, <1>10 DEF Orderly
<1>12. g \in [Slots -> States]
    BY DEF States
<1> QED
    BY <1>3, <1>4, <1>11, <1>12 DEF m

-----------------------------------------------------------------------------
LEMMA InvInit == Init => Inv
    BY DEF Init, Inv, Typed, Jobs, States, Locked, Orderly, AtLock, Waits, Kept

(* The request's response is sent, or left, as the epilog's own state says. *)
LEMMA ExitsTyped == \A r : Exits(r) \in {"drained", "released"}
    BY DEF Exits

LEMMA StepJobEnds ==
    ASSUME Inv, NEW s \in Slots, JobEnds(s) PROVE Inv'
<1> USE DEF Inv
<1>0. job[s] = "running" /\ handler[s] = "none" /\ UNCHANGED <<lock, agent>>
    BY DEF JobEnds
<1>1. CASE /\ agent # "down"
           /\ job' = [job EXCEPT ![s] = "epilog"]
           /\ handler' = [handler EXCEPT ![s] = IF agent = "up" THEN "memory" ELSE "answer"]
           /\ found' = [found EXCEPT ![s] = "healthy"]
           /\ unheard' = unheard \ {s} /\ faulty' = faulty \ {s}
    <2>1. Locked'
        <3> DEFINE x == IF agent = "up" THEN "memory" ELSE "answer"
        <3>1. x \in States /\ x \notin AtLock /\ handler[s] \notin AtLock
            BY <1>0 DEF States, AtLock
        <3> HIDE DEF x
        <3>2. Orderly([handler EXCEPT ![s] = x], lock)
            BY <3>1, OrderlyElsewhere DEF Typed, Locked
        <3> QED
            BY <3>2, <1>0, <1>1 DEF Locked, x
    <2>2. Typed'
        BY <1>0, <1>1 DEF Typed, Jobs, States
    <2>3. Waits'
        BY <1>1 DEF Typed, Waits
    <2>4. Kept'
        BY <1>1 DEF Typed, Kept
    <2> QED
        BY <2>1, <2>2, <2>3, <2>4
<1>2. CASE /\ agent # "up"
           /\ job' = [job EXCEPT ![s] = Exits("none")]
           /\ unheard' = unheard \cup {s}
           /\ UNCHANGED <<handler, found, faulty>>
    <2>1. Typed'
        BY <1>0, <1>2, ExitsTyped DEF Typed, Jobs
    <2>2. Locked'
        BY <1>0, <1>2 DEF Locked, Orderly
    <2>3. Waits' /\ Kept'
        BY <1>2 DEF Typed, Waits, Kept
    <2> QED
        BY <2>1, <2>2, <2>3
<1> QED
    BY <1>1, <1>2 DEF JobEnds

(* What a check finds is kept, or the epilog counts as unheard. *)
LEMMA StepTestEnds ==
    ASSUME Inv, NEW s \in Slots, TestEnds(s), UNCHANGED job, handler[s] # "none"
    PROVE  /\ found' \in [Slots -> {"healthy", "error"}]
           /\ faulty' \subseteq Slots /\ unheard' \subseteq Slots
           /\ unheard \subseteq unheard'
           /\ Kept'
<1> USE DEF Inv
<1>1. PICK result \in {"healthy", "error"} :
         /\ faulty' = IF result = "error" THEN faulty \cup {s} ELSE faulty
         /\ \/ found' = Worse(s, result) /\ UNCHANGED unheard
            \/ agent = "stopping" /\ unheard' = unheard \cup {s} /\ UNCHANGED found
    BY DEF TestEnds
<1>2. CASE found' = Worse(s, result) /\ UNCHANGED unheard
    <2>1. \A t \in Slots : found'[t] = IF t = s /\ found[t] # "error" THEN result ELSE found[t]
        BY <1>2 DEF Worse, Typed
    <2>2. found' \in [Slots -> {"healthy", "error"}]
        BY <1>2 DEF Worse, Typed
    <2>3. Kept'
        <3> SUFFICES ASSUME NEW t \in faulty' \ unheard'
                     PROVE  /\ job[t] = "epilog" => found'[t] = "error"
                            /\ job[t] # "released"
            BY DEF Kept
        <3>1. CASE t \in faulty
            BY <3>1, <1>2, <2>1, <1>1 DEF Kept, Typed
        <3>2. CASE t \notin faulty
            <4>1. t = s /\ result = "error" /\ job[s] = "epilog"
                BY <3>2, <1>1, <1>2 DEF Waits
            <4> QED
                BY <4>1, <2>1
        <3> QED
            BY <3>1, <3>2
    <2> QED
        BY <1>1, <1>2, <2>2, <2>3 DEF Typed
<1>3. CASE unheard' = unheard \cup {s} /\ UNCHANGED found
    BY <1>1, <1>3 DEF Typed, Kept
<1> QED
    BY <1>1, <1>2, <1>3

LEMMA StepMemoryEnds ==
    ASSUME Inv, NEW s \in Slots, MemoryEnds(s) PROVE Inv'
<1> USE DEF Inv
<1>0. handler[s] = "memory" /\ TestEnds(s) /\ AfterMemory(s) /\ UNCHANGED <<agent, job>>
    BY DEF MemoryEnds, AfterMemory
<1>1. /\ found' \in [Slots -> {"healthy", "error"}]
      /\ faulty' \subseteq Slots /\ unheard' \subseteq Slots
      /\ unheard \subseteq unheard' /\ Kept'
    BY <1>0, StepTestEnds
<1>2. /\ handler' \in [Slots -> States] /\ lock' \in Seq(Slots) /\ Locked'
      /\ \A t \in Slots : handler'[t] # "none" => handler[t] # "none"
    <2>1. CASE agent = "up"
        <3>1. /\ lock' = Append(lock, s)
              /\ handler' = [handler EXCEPT ![s] = IF lock = <<>> THEN "diag" ELSE "queued"]
            BY <2>1, <1>0 DEF AfterMemory
        <3>2. Orderly([handler EXCEPT ![s] = IF lock = <<>> THEN "diag" ELSE "queued"],
                      Append(lock, s))
            BY <1>0, OrderlyAppend DEF Typed, Locked, AtLock
        <3> QED
            BY <3>1, <3>2, <1>0 DEF Typed, Locked, States
    <2>2. CASE agent # "up"
        <3>1. lock' = lock /\ handler' = [handler EXCEPT ![s] = "answer"]
            BY <2>2, <1>0 DEF AfterMemory
        <3>2. Orderly([handler EXCEPT ![s] = "answer"], lock)
            BY <1>0, OrderlyElsewhere DEF Typed, Locked, AtLock, States
        <3> QED
            BY <3>1, <3>2, <1>0 DEF Typed, Locked, States
    <2> QED
        BY <2>1, <2>2
<1>3. Typed'
    BY <1>0, <1>1, <1>2 DEF Typed
<1>4. Waits'
    BY <1>0, <1>1, <1>2 DEF Waits
<1> QED
    BY <1>1, <1>2, <1>3, <1>4

LEMMA StepDiagEnds ==
    ASSUME Inv, NEW s \in Slots, DiagEnds(s) PROVE Inv'
<1> USE DEF Inv
<1>0. handler[s] = "diag" /\ TestEnds(s) /\ Release(s) /\ UNCHANGED <<agent, job>>
    BY DEF DiagEnds
<1>1. /\ found' \in [Slots -> {"healthy", "error"}]
      /\ faulty' \subseteq Slots /\ unheard' \subseteq Slots
      /\ unheard \subseteq unheard' /\ Kept'
    BY <1>0, StepTestEnds
<1>2. /\ lock' = Tail(lock)
      /\ handler' = [t \in Slots |->
             IF t = s THEN "answer"
             ELSE IF Tail(lock) # <<>> /\ t = Head(Tail(lock)) THEN "diag" ELSE handler[t]]
    BY <1>0 DEF Release
<1>3. /\ lock # <<>> /\ Tail(lock) \in Seq(Slots)
      /\ handler' \in [Slots -> States] /\ Orderly(handler', Tail(lock))
    BY <1>0, <1>2, OrderlyRelease DEF Typed, Locked
<1>4. \A t \in Slots : handler'[t] # "none" => handler[t] # "none"
    <2> SUFFICES ASSUME NEW t \in Slots, handler'[t] # "none" PROVE handler[t] # "none"
        OBVIOUS
    <2>1. CASE Tail(lock) # <<>> /\ t = Head(Tail(lock))
        <3>1. 2 \in 1..Len(lock) /\ t = lock[2]
            BY <2>1, <1>3 DEF Typed
        <3>2. handler[lock[2]] = "queued"
            BY <3>1 DEF Locked, Orderly
        <3> QED
            BY <3>1, <3>2
    <2>2. CASE ~(Tail(lock) # <<>> /\ t = Head(Tail(lock)))
        BY <2>2, <1>0, <1>2
    <2> QED
        BY <2>1, <2>2
<1>5. Typed' /\ Locked'
    BY <1>0, <1>1, <1>2, <1>3 DEF Typed, Locked
<1>6. Waits'
    BY <1>0, <1>1, <1>4 DEF Waits
<1> QED
    BY <1>1, <1>5, <1>6

LEMMA StepDiagHangs ==
    ASSUME Inv, NEW s \in Slots, DiagHangs(s) PROVE Inv'
<1> USE DEF Inv, DiagHangs
<1>1. Orderly([handler EXCEPT ![s] = "hung"], lock)
    BY OrderlyElsewhere DEF Typed, Locked, States
<1>2. Locked'
    BY <1>1 DEF Locked
<1> QED
    BY <1>2 DEF Typed, States, Waits, Kept

LEMMA StepRespond ==
    ASSUME Inv, NEW s \in Slots, Respond(s) PROVE Inv'
<1> USE DEF Inv, Respond
<1>1. Orderly([handler EXCEPT ![s] = "none"], lock)
    BY OrderlyElsewhere DEF Typed, Locked, States, AtLock
<1>2. Locked'
    BY <1>1 DEF Locked
<1>3. Typed'
    BY ExitsTyped DEF Typed, States, Jobs
<1>4. Waits'
    BY DEF Typed, Waits
<1>5. Kept'
    BY DEF Typed, Kept, Exits
<1> QED
    BY <1>2, <1>3, <1>4, <1>5

LEMMA StepClient ==
    ASSUME Inv, NEW s \in Slots, Timeout(s) \/ NextJob(s) PROVE Inv'
<1> USE DEF Inv
<1>1. UNCHANGED <<handler, found, lock, agent, faulty>>
    BY DEF Timeout, NextJob
<1>2. Locked'
    BY <1>1 DEF Locked, Orderly
<1>3. Typed'
    BY <1>1, ExitsTyped DEF Typed, Jobs, Timeout, NextJob
<1>4. Waits'
    BY <1>1 DEF Typed, Waits, Timeout, NextJob
<1>5. Kept'
    BY <1>1 DEF Typed, Kept, Timeout, NextJob
<1> QED
    BY <1>2, <1>3, <1>4, <1>5

LEMMA StepAgent ==
    ASSUME Inv, Stop \/ Exit \/ Restart PROVE Inv'
<1> USE DEF Inv
<1>1. CASE Stop \/ Restart
    <2>1. UNCHANGED <<job, handler, found, lock, unheard, faulty>>
        BY <1>1 DEF Stop, Restart
    <2>2. Locked' /\ Waits' /\ Kept'
        BY <2>1 DEF Locked, Orderly, Waits, Kept
    <2> QED
        BY <1>1, <2>1, <2>2 DEF Typed, Stop, Restart
<1>2. CASE Exit
    <2>1. /\ agent' = "down" /\ lock' = <<>> /\ handler' = [s \in Slots |-> "none"]
          /\ job' = [s \in Slots |-> IF job[s] = "epilog" THEN Exits("none") ELSE job[s]]
          /\ unheard' = unheard \cup {s \in Slots : job[s] = "epilog"}
          /\ UNCHANGED <<found, faulty>>
        BY <1>2 DEF Exit
    <2>2. Typed'
        BY <2>1, ExitsTyped DEF Typed, Jobs, States
    <2>3. Locked' /\ Waits'
        BY <2>1 DEF Locked, Orderly, AtLock, Waits
    <2>4. Kept'
        BY <2>1 DEF Typed, Kept
    <2> QED
        BY <2>2, <2>3, <2>4
<1> QED
    BY <1>1, <1>2

THEOREM InvHolds == Spec => []Inv
<1>1. Inv /\ [Next]_vars => Inv'
    <2> SUFFICES ASSUME Inv, [Next]_vars PROVE Inv'
        OBVIOUS
    <2>1. CASE UNCHANGED vars
        BY <2>1 DEF vars, Inv, Typed, Locked, Orderly, Waits, Kept
    <2> QED
        BY <2>1, StepJobEnds, StepMemoryEnds, StepDiagEnds, StepDiagHangs, StepRespond,
           StepClient, StepAgent DEF Next
<1> QED
    BY <1>1, InvInit, PTL DEF Spec

LEMMA InvTyped == Inv => TypeOK
<1> SUFFICES ASSUME Inv PROVE TypeOK
    OBVIOUS
<1>1. ASSUME NEW s \in Slots
      PROVE  handler[s] \in {"diag", "hung"} <=> lock # <<>> /\ Head(lock) = s
    <2>1. ASSUME handler[s] \in {"diag", "hung"} PROVE lock # <<>> /\ Head(lock) = s
        <3>1. PICK i \in 1..Len(lock) : lock[i] = s
            BY <2>1 DEF Inv, Locked, Orderly, AtLock
        <3>2. i = 1
            BY <2>1, <3>1 DEF Inv, Locked, Orderly
        <3> QED
            BY <3>1, <3>2 DEF Inv, Typed
    <2>2. ASSUME lock # <<>>, Head(lock) = s PROVE handler[s] \in {"diag", "hung"}
        <3>1. 1 \in 1..Len(lock) /\ lock[1] = s
            BY <2>2 DEF Inv, Typed
        <3> QED
            BY <3>1 DEF Inv, Locked, Orderly
    <2> QED
        BY <2>1, <2>2
<1> QED
    BY <1>1 DEF Inv, Typed, Jobs, States, TypeOK

(* Types, and the holder of the lock is the one request under test. *)
THEOREM TypeCorrect == Spec => []TypeOK
BY InvTyped, InvHolds, PTL

-----------------------------------------------------------------------------
(* First come, first served: the line of FifoLock is the requests at the   *)
(* lock, and it empties when the process ends.                             *)
Under == {s \in Slots : handler[s] \in {"diag", "hung"}}

(* The one under test is the first at the lock. *)
UnderFirst == Under = Lock!First(lock)

LEMMA UnderIsFirst == Inv => UnderFirst
<1> SUFFICES ASSUME Inv PROVE Under = IF lock = <<>> THEN {} ELSE {Head(lock)}
    BY DEF UnderFirst, Lock!First
<1>1. \A s \in Slots : s \in Under <=> lock # <<>> /\ Head(lock) = s
    BY InvTyped DEF TypeOK, Under
<1>2. lock # <<>> => Head(lock) \in Slots
    BY DEF Inv, Typed
<1> QED
    BY <1>1, <1>2 DEF Under

LEMMA LockStep ==
    Inv /\ UnderFirst /\ [Next]_vars /\ UnderFirst'
        => [Lock!Next \/ Lock!Vanish]_<<lock, Under>>
<1> SUFFICES ASSUME Inv, UnderFirst, [Next]_vars, UnderFirst'
             PROVE  Lock!Next \/ Lock!Vanish \/ UNCHANGED <<lock, Under>>
    OBVIOUS
<1>1. Under = Lock!First(lock) /\ Under' = Lock!First(lock')
    BY DEF UnderFirst
<1>2. ASSUME UNCHANGED lock PROVE UNCHANGED <<lock, Under>>
    BY <1>1, <1>2
<1>3. ASSUME NEW s \in Slots, MemoryEnds(s), ~UNCHANGED lock PROVE Lock!Arrive(s)
    <2>1. handler[s] = "memory" /\ lock' = Append(lock, s)
        BY <1>3 DEF MemoryEnds, AfterMemory
    <2>2. \A i \in 1..Len(lock) : lock[i] # s
        BY <2>1 DEF Inv, Locked, Orderly
    <2>3. lock \in Seq(Slots)
        BY DEF Inv, Typed
    <2>4. Lock!First(lock') = IF lock = <<>> THEN {s} ELSE Lock!First(lock)
        <3> DEFINE l == Append(lock, s)
        <3>1. /\ l \in Seq(Slots) /\ Len(l) = Len(lock) + 1 /\ Len(lock) \in Nat
              /\ l[1] = IF Len(lock) = 0 THEN s ELSE lock[1]
            BY <2>3
        <3>2. l # <<>> /\ Head(l) = l[1]
            <4> HIDE DEF l
            <4> QED
                BY <3>1
        <3>3. (lock = <<>> <=> Len(lock) = 0) /\ (lock # <<>> => Head(lock) = lock[1])
            BY <2>3
        <3> QED
            BY <2>1, <3>1, <3>2, <3>3 DEF Lock!First
    <2> QED
        BY <1>1, <2>1, <2>2, <2>4 DEF Lock!Arrive, Under
<1>4. ASSUME NEW s \in Slots, DiagEnds(s) PROVE Lock!Leave
    <2>1. s \in Under /\ lock' = Tail(lock)
        BY <1>4 DEF DiagEnds, Release, Under
    <2>2. lock # <<>>
        BY <1>1, <2>1 DEF Lock!First
    <2> QED
        BY <1>1, <2>1, <2>2 DEF Lock!Leave, Lock!First, Under
<1>5. CASE Exit
    BY <1>1, <1>5 DEF Exit, Lock!Vanish, Lock!First, Under
<1>6. ASSUME NEW s \in Slots,
             JobEnds(s) \/ DiagHangs(s) \/ Respond(s) \/ Timeout(s) \/ NextJob(s)
      PROVE  UNCHANGED lock
    BY <1>6 DEF JobEnds, DiagHangs, Respond, Timeout, NextJob
<1>7. CASE Stop \/ Restart \/ UNCHANGED vars
    BY <1>2, <1>7 DEF Stop, Restart, vars
<1> QED
    BY <1>2, <1>3, <1>4, <1>5, <1>6, <1>7 DEF Next, Lock!Next

(* Requests reach the diagnostics in the order they came to the lock, one  *)
(* at a time, until the process ends.                                      *)
THEOREM ImplementsFifo == Spec => ServedInOrder
<1>1. Init => Lock!Init
    BY DEF Init, Lock!Init
<1> QED
    BY <1>1, InvHolds, UnderIsFirst, LockStep, PTL DEF ServedInOrder, Spec, Lock!SpecWithExit, Under

-----------------------------------------------------------------------------
(* No job runs on a GPU under test, but for clients that timed out          *)
(* (JobsExclusive), wherever the agent stops, dies and starts again.        *)
THEOREM ExclusiveJobs == Spec => []JobsExclusive
<1>1. Inv => JobsExclusive
    <2> SUFFICES ASSUME Inv, NEW s \in Slots, NEW t \in Slots,
                        Testing(s), job[t] = "running", s \notin unheard
                 PROVE  Gpus[s] \cap Gpus[t] = {}
        BY DEF JobsExclusive
    <2>1. job[s] = "epilog"
        BY DEF Inv, Waits, Testing
    <2> QED
        BY <2>1, ActiveAssumption
<1> QED
    BY <1>1, InvHolds, PTL

(* A slot in whose GPUs an error was found is not released, if the client   *)
(* heard the whole answer (ErrorDrains).                                    *)
THEOREM ErrorsDrain == Spec => []ErrorDrains
<1>1. Inv => ErrorDrains
    BY DEF Inv, Kept, ErrorDrains
<1> QED
    BY <1>1, InvHolds, PTL
=============================================================================
