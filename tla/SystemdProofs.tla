---------------------------- MODULE SystemdProofs ----------------------------
(* What holds of the systemd module for any services and coroutines and    *)
(* any number of signals and tasks under way: its types, one callback for  *)
(* a unit, no loaded unit unwatched, failures and recoveries reported.     *)
EXTENDS SystemdMonitor, TLAPS

USE SystemdAssumption

-----------------------------------------------------------------------------
(* Types. *)

LEMMA StatesTyped ==
    \A u \in UnitStates : ActiveState(u) \in ActiveStates /\ SubState(u) \in SubStates
BY DEF UnitStates, ActiveState, SubState, ActiveStates, SubStates

LEMMA SuccessorsTyped == \A u \in UnitStates : Successors(u) \subseteq UnitStates
BY DEF UnitStates, Successors

LEMMA SignalTyped ==
    ASSUME NEW kind \in {"UnitNew", "PropertiesChanged"}, NEW s \in Services,
           NEW u \in UnitStates
    PROVE  Signal(kind, s, u) \in Message
BY StatesTyped DEF Signal, Message

(* The first of a queue, and what is left of it. *)
LEMMA HeadAndTail ==
    ASSUME NEW S, NEW q \in Seq(S), q # <<>>
    PROVE  /\ Head(q) \in S /\ Head(q) = q[1] /\ 1 \in 1..Len(q)
           /\ Tail(q) \in Seq(S) /\ Len(q) \in Nat /\ Len(Tail(q)) = Len(q) - 1
           /\ \A i \in 1..Len(Tail(q)) : Tail(q)[i] = q[i + 1]
OBVIOUS

(* The oldest task is taken out. *)
LEMMA RemoveOldest ==
    ASSUME NEW S, NEW q \in Seq(S), q # <<>>
    PROVE  RemoveAt(q, 1) = Tail(q)
<1> DEFINE t == SubSeq(q, 2, Len(q))
<1>1. Len(q) \in Nat /\ Len(q) >= 1
  OBVIOUS
<1>2. t \in Seq(S) /\ SubSeq(q, 1, 0) = <<>>
  OBVIOUS
<1>3. t = Tail(q)
  OBVIOUS
<1>4. RemoveAt(q, 1) = SubSeq(q, 1, 0) \o t
  BY DEF RemoveAt
<1> HIDE DEF t
<1>5. <<>> \o t = t
  BY <1>2
<1> QED BY <1>2, <1>3, <1>4, <1>5

(* The tasks the callbacks of a unit add. *)
LEMMA CopiesTyped ==
    ASSUME NEW m \in Message, NEW n \in Nat
    PROVE  [i \in 1..n |-> m] \in Seq(Message)
OBVIOUS

(* What a report and a recorded state may be, whatever is recorded. *)
LEMMA RecordTyped ==
    ASSUME TypeOK, NEW s \in Services, NEW active \in ActiveStates, NEW sub \in SubStates,
           SetCurrentState(s, active, sub) \/ SetCurrentStateRaises(s, active, sub)
    PROVE  /\ state' \in [Services -> {None, "active", "failed"}]
           /\ report' \subseteq Services /\ unread' \in BOOLEAN
           /\ \A t \in Services : t # s => state'[t] = state[t]
<1>1. state' = state \/ (Records(s, active, sub) /\ state' = [state EXCEPT ![s] = active])
  BY DEF SetCurrentState, SetCurrentStateRaises
<1>2. Records(s, active, sub) => active \in {"active", "failed"}
  BY DEF Records
<1>3. /\ state' \in [Services -> {None, "active", "failed"}]
      /\ \A t \in Services : t # s => state'[t] = state[t]
  BY <1>1, <1>2 DEF TypeOK
<1>4. report' \subseteq Services /\ unread' \in BOOLEAN
  BY DEF SetCurrentState, SetCurrentStateRaises, UpdateServices, UpdateServicesRaises,
         Failed, TypeOK
<1> QED BY <1>3, <1>4

LEMMA IdleTyped == Idle \in Coroutine
BY DEF Idle, Coroutine

LEMMA AddedTyped ==
    \A s \in Services : [Idle EXCEPT !.phase = "added", !.service = s] \in Coroutine
BY DEF Idle, Coroutine

LEMMA TypedInit == Init => TypeOK
<1> SUFFICES ASSUME Init PROVE TypeOK
  OBVIOUS
<1>1. co \in [Coroutines -> Coroutine]
  BY IdleTyped DEF Init
<1>2. real \in [Services -> UnitStates]
  BY DEF Init, UnitStates
<1>3. bus \in Seq(Message) /\ tasks \in Seq(Message)
  BY DEF Init
<1> QED BY <1>1, <1>2, <1>3 DEF Init, TypeOK

LEMMA TypedRestart == TypeOK /\ Restart => TypeOK'
<1> SUFFICES ASSUME TypeOK, Restart PROVE TypeOK'
  OBVIOUS
<1>1. co' \in [Coroutines -> Coroutine]
  BY IdleTyped DEF Restart
<1>3. bus' \in Seq(Message) /\ tasks' \in Seq(Message)
  BY DEF Restart
<1> QED BY <1>1, <1>3 DEF Restart, TypeOK

LEMMA TypedSystemd ==
    ASSUME TypeOK, NEW s \in Services, UnitChanges(s) \/ MatchInstalled(s)
    PROVE  TypeOK'
<1>1. CASE UnitChanges(s)
  <2>1. PICK u \in Successors(real[s]) :
           /\ real' = [real EXCEPT ![s] = u]
           /\ \/ bus' = Append(bus, Signal("UnitNew", s, u))
              \/ bus' = Append(bus, Signal("PropertiesChanged", s, u))
              \/ bus' = bus
    BY <1>1 DEF UnitChanges
  <2>2. real[s] \in UnitStates /\ u \in UnitStates
    BY SuccessorsTyped DEF TypeOK
  <2>3. bus' \in Seq(Message)
    <3>1. bus \in Seq(Message)
      BY DEF TypeOK
    <3>2. \A kind \in {"UnitNew", "PropertiesChanged"} : Signal(kind, s, u) \in Message
      BY <2>2, SignalTyped
    <3>3. \A m \in Message : Append(bus, m) \in Seq(Message)
      BY <3>1
    <3> QED BY <2>1, <3>1, <3>2, <3>3
  <2>4. real' \in [Services -> UnitStates] /\ missed' \subseteq Services
    BY <1>1, <2>1, <2>2 DEF UnitChanges, TypeOK
  <2> QED BY <1>1, <2>3, <2>4 DEF UnitChanges, TypeOK, agent
<1>2. CASE MatchInstalled(s)
  BY <1>2 DEF MatchInstalled, TypeOK, agent, faults
<1> QED BY <1>1, <1>2

LEMMA TypedUnits ==
    ASSUME TypeOK, (\E s \in Services : GetUnit(s)) \/ HandleUnitNew
    PROVE  TypeOK'
<1>0. Main \in Coroutines /\ Workers \subseteq Coroutines
  BY DEF Coroutines
<1>1. CASE \E s \in Services : GetUnit(s)
  <2>1. PICK s \in Services : GetUnit(s)
    BY <1>1
  <2>2. /\ co' \in [Coroutines -> Coroutine]
        /\ unit_paths' \subseteq Services /\ not_enabled' \subseteq Services
        /\ todo' \subseteq Services
    BY <2>1, <1>0, AddedTyped DEF GetUnit, TypeOK
  <2> QED BY <2>1, <2>2 DEF GetUnit, TypeOK, faults
<1>2. CASE HandleUnitNew
  <2>1. Head(bus) \in Message /\ bus' \in Seq(Message)
    BY <1>2, HeadAndTail DEF HandleUnitNew, TypeOK
  <2>2. Head(bus).service \in Services
    BY <2>1 DEF Message
  <2>3. co' \in [Coroutines -> Coroutine] /\ unit_paths' \subseteq Services
    BY <1>2, <2>2, <1>0, AddedTyped DEF HandleUnitNew, TypeOK
  <2> QED BY <1>2, <2>1, <2>3 DEF HandleUnitNew, TypeOK, faults
<1> QED BY <1>1, <1>2

(* Between its beginning and its end a coroutine has a service. *)
LEMMA ServiceTyped ==
    ASSUME TypeOK, NEW c \in Coroutines
    PROVE  /\ co[c] \in Coroutine
           /\ co[c].service \in Services \cup {None}
           /\ co[c].active \in ActiveStates \cup {None}
BY DEF TypeOK, Coroutine

(* Coroutines that are idle have no service, the others have one and, once *)
(* they read it, its state.                                                *)
Busy ==
    \A c \in Coroutines :
        /\ co[c].phase = "idle" => co[c].service = None
        /\ co[c].phase # "idle" => co[c].service \in Services
        /\ co[c].phase \in {"active", "set"} => co[c].active \in ActiveStates

LEMMA TypedCoroutine ==
    ASSUME TypeOK, Busy, NEW c \in Coroutines,
           AddHandler(c) \/ AddHandlerRaises(c) \/ InitialStateRaises(c)
    PROVE  TypeOK'
<1>1. co[c] \in Coroutine /\ co[c].service \in Services
  BY ServiceTyped DEF Busy, AddHandler, ReadActiveState, SetInitialState, RegisterHandler,
                      AddHandlerRaises, InitialStateRaises
<1>2. real[co[c].service] \in UnitStates
  BY <1>1 DEF TypeOK
<1>3. /\ ActiveState(real[co[c].service]) \in ActiveStates
      /\ SubState(real[co[c].service]) \in SubStates
  BY <1>2, StatesTyped
<1>4. CASE ReadActiveState(c)
  <2>1. [co[c] EXCEPT !.phase = "active", !.active = ActiveState(real[co[c].service])]
           \in Coroutine
    BY <1>1, <1>3 DEF Coroutine
  <2>2. co' \in [Coroutines -> Coroutine]
    BY <1>4, <2>1 DEF ReadActiveState, TypeOK
  <2> QED BY <1>4, <2>2 DEF ReadActiveState, TypeOK, faults
<1>5. CASE SetInitialState(c)
  <2>1. [co[c] EXCEPT !.phase = "set"] \in Coroutine
    BY <1>1 DEF Coroutine
  <2>2. co' \in [Coroutines -> Coroutine]
    BY <1>5, <2>1 DEF SetInitialState, TypeOK
  <2>3. co[c].active \in ActiveStates
    BY <1>5 DEF SetInitialState, Busy
  <2>4. /\ state' \in [Services -> {None, "active", "failed"}]
        /\ report' \subseteq Services /\ unread' \in BOOLEAN
    BY <1>1, <1>3, <1>5, <2>3, RecordTyped DEF SetInitialState
  <2> QED BY <1>5, <2>2, <2>4 DEF SetInitialState, TypeOK
<1>6. CASE RegisterHandler(c)
  <2>1. co' \in [Coroutines -> Coroutine] /\ handlers' \in [Services -> Nat]
        /\ asked' \subseteq Services
    BY <1>1, <1>6, IdleTyped DEF RegisterHandler, TypeOK
  <2> QED BY <1>6, <2>1 DEF RegisterHandler, TypeOK, faults
<1>7. CASE AddHandlerRaises(c)
  <2>1. co' \in [Coroutines -> Coroutine] /\ given_up' \subseteq Services
    BY <1>1, <1>7, IdleTyped DEF AddHandlerRaises, TypeOK
  <2> QED BY <1>7, <2>1 DEF AddHandlerRaises, TypeOK
<1>8. CASE InitialStateRaises(c)
  <2>1. co' \in [Coroutines -> Coroutine] /\ given_up' \subseteq Services
    BY <1>1, <1>8, IdleTyped DEF InitialStateRaises, TypeOK
  <2>3. co[c].active \in ActiveStates
    BY <1>8 DEF InitialStateRaises, Busy
  <2>4. /\ state' \in [Services -> {None, "active", "failed"}]
        /\ report' \subseteq Services /\ unread' \in BOOLEAN
    BY <1>1, <1>3, <1>8, <2>3, RecordTyped DEF InitialStateRaises
  <2> QED BY <1>8, <2>1, <2>4 DEF InitialStateRaises, TypeOK
<1> QED BY <1>4, <1>5, <1>6, <1>7, <1>8 DEF AddHandler

LEMMA TypedSignals ==
    ASSUME TypeOK, HandlePropertiesChanged \/ RunTask \/ Stop
    PROVE  TypeOK'
<1>1. CASE HandlePropertiesChanged
  <2>1. Head(bus) \in Message /\ bus' \in Seq(Message)
    BY <1>1, HeadAndTail DEF HandlePropertiesChanged, TypeOK
  <2>2. handlers[Head(bus).service] \in Nat
    BY <2>1 DEF Message, TypeOK
  <2>3. [i \in 1..handlers[Head(bus).service] |-> Head(bus)] \in Seq(Message)
    BY <2>1, <2>2, CopiesTyped
  <2>4. tasks' \in Seq(Message)
    BY <1>1, <2>3 DEF HandlePropertiesChanged, TypeOK
  <2> QED BY <1>1, <2>1, <2>4 DEF HandlePropertiesChanged, TypeOK, faults
<1>2. CASE RunTask
  <2>1. tasks[1] \in Message /\ tasks' \in Seq(Message)
    <3>1. tasks \in Seq(Message) /\ tasks # <<>> /\ tasks' = RemoveAt(tasks, 1)
      BY <1>2 DEF RunTask, NextTask, TypeOK
    <3>2. tasks[1] \in Message /\ Tail(tasks) \in Seq(Message)
      BY <3>1, HeadAndTail
    <3> QED BY <3>1, <3>2, RemoveOldest
  <2>2. /\ tasks[1].service \in Services
        /\ tasks[1].active \in ActiveStates /\ tasks[1].sub \in SubStates
    BY <2>1 DEF Message
  <2>3. /\ state' \in [Services -> {None, "active", "failed"}]
        /\ report' \subseteq Services /\ unread' \in BOOLEAN
    BY <1>2, <2>2, RecordTyped DEF RunTask, NextTask
  <2> QED BY <1>2, <2>1, <2>3 DEF RunTask, TypeOK
<1>3. CASE Stop
  BY <1>3 DEF Stop, TypeOK, faults
<1> QED BY <1>1, <1>2, <1>3

-----------------------------------------------------------------------------
(* One callback for each unit. *)

(* A unit gets its callback at the end of the one coroutine that adds it,  *)
(* and unit_paths says that there was one.                                 *)
OneWatcher ==
    /\ \A c \in Coroutines : co[c].phase # "idle" =>
          /\ co[c].service \in unit_paths
          /\ handlers[co[c].service] = 0
          /\ \A d \in Coroutines : d # c => co[d].service # co[c].service
    /\ \A s \in Services :
          /\ handlers[s] \in {0, 1}
          /\ handlers[s] = 1 => s \in unit_paths
          /\ handlers[s] = 1 <=> s \in matched \cup asked

(* Only what systemd was asked to signal is signalled. *)
OnlyMatched ==
    /\ \A i \in 1..Len(bus) : bus[i].kind = "PropertiesChanged" => bus[i].service \in matched
    /\ \A i \in 1..Len(tasks) :
          tasks[i].kind = "PropertiesChanged" /\ tasks[i].service \in matched

Watched == TypeOK /\ Busy /\ OneWatcher /\ OnlyMatched

LEMMA WatchedInit == Init => Watched
<1> SUFFICES ASSUME Init PROVE Watched
  OBVIOUS
<1>1. Busy /\ OneWatcher
  BY DEF Init, Busy, OneWatcher, Idle
<1>2. OnlyMatched
  BY DEF Init, OnlyMatched
<1> QED BY <1>1, <1>2, TypedInit DEF Watched

LEMMA WatchedRestart == Watched /\ Restart => Watched'
<1> SUFFICES ASSUME Watched, Restart PROVE Watched'
  OBVIOUS
<1>1. Busy' /\ OneWatcher'
  BY DEF Restart, Busy, OneWatcher, Idle
<1>2. OnlyMatched'
  BY DEF Restart, OnlyMatched
<1> QED BY <1>1, <1>2, TypedRestart DEF Watched

(* A queue that got one more message, and one that lost its first. *)
LEMMA AppendedTo ==
    ASSUME NEW S, NEW q \in Seq(S), NEW m \in S
    PROVE  /\ Len(Append(q, m)) = Len(q) + 1 /\ Len(q) \in Nat
           /\ Append(q, m)[Len(q) + 1] = m
           /\ \A i \in 1..Len(q) : Append(q, m)[i] = q[i]
OBVIOUS

(* What a change of a unit does to the bus. *)
LEMMA ChangeSignals ==
    ASSUME TypeOK, NEW s \in Services, UnitChanges(s)
    PROVE  \E u \in Successors(real[s]) :
              /\ u \in UnitStates /\ real[s] \in UnitStates
              /\ real' = [real EXCEPT ![s] = u]
              /\ \A kind \in {"UnitNew", "PropertiesChanged"} : Signal(kind, s, u) \in Message
              /\ \/ real[s] = "unloaded" /\ bus' = Append(bus, Signal("UnitNew", s, u))
                 \/ /\ real[s] # "unloaded" /\ u # "unloaded" /\ s \in matched
                    /\ bus' = Append(bus, Signal("PropertiesChanged", s, u))
                 \/ /\ real[s] # "unloaded" /\ (u = "unloaded" \/ s \notin matched)
                    /\ bus' = bus
<1>1. PICK u \in Successors(real[s]) :
         /\ real' = [real EXCEPT ![s] = u]
         /\ bus' = IF real[s] = "unloaded" THEN Append(bus, Signal("UnitNew", s, u))
                   ELSE IF u # "unloaded" /\ s \in matched
                   THEN Append(bus, Signal("PropertiesChanged", s, u))
                   ELSE bus
  BY DEF UnitChanges
<1>2. real[s] \in UnitStates /\ u \in UnitStates
  BY SuccessorsTyped DEF TypeOK
<1>3. \A kind \in {"UnitNew", "PropertiesChanged"} : Signal(kind, s, u) \in Message
  BY <1>2, SignalTyped
<1>4. \/ real[s] = "unloaded" /\ bus' = Append(bus, Signal("UnitNew", s, u))
      \/ /\ real[s] # "unloaded" /\ u # "unloaded" /\ s \in matched
         /\ bus' = Append(bus, Signal("PropertiesChanged", s, u))
      \/ /\ real[s] # "unloaded" /\ (u = "unloaded" \/ s \notin matched)
         /\ bus' = bus
  BY <1>1
<1> QED BY <1>1, <1>2, <1>3, <1>4

LEMMA WatchedSystemd ==
    ASSUME Watched, NEW s \in Services, UnitChanges(s) \/ MatchInstalled(s)
    PROVE  Watched'
<1> USE DEF Watched
<1>1. TypeOK'
  BY TypedSystemd
<1>2. CASE UnitChanges(s)
  <2>1. Busy' /\ OneWatcher'
    BY <1>2 DEF UnitChanges, agent, Busy, OneWatcher
  <2>2. tasks' = tasks /\ matched' = matched
    BY <1>2 DEF UnitChanges, agent
  <2>3. \A i \in 1..Len(bus') :
           bus'[i].kind = "PropertiesChanged" => bus'[i].service \in matched
    <3>1. PICK u \in Successors(real[s]) :
             /\ \A kind \in {"UnitNew", "PropertiesChanged"} : Signal(kind, s, u) \in Message
             /\ \/ bus' = Append(bus, Signal("UnitNew", s, u))
                \/ s \in matched /\ bus' = Append(bus, Signal("PropertiesChanged", s, u))
                \/ bus' = bus
      BY <1>2, ChangeSignals
    <3>2. bus \in Seq(Message)
      BY DEF TypeOK
    <3>3. CASE bus' = bus
      BY <3>3 DEF OnlyMatched
    <3>4. CASE bus' = Append(bus, Signal("UnitNew", s, u))
      <4>1. Signal("UnitNew", s, u) \in Message /\ Signal("UnitNew", s, u).kind = "UnitNew"
        BY <3>1 DEF Signal
      <4>2. /\ Len(bus') = Len(bus) + 1 /\ Len(bus) \in Nat
            /\ bus'[Len(bus) + 1].kind = "UnitNew"
            /\ \A i \in 1..Len(bus) : bus'[i] = bus[i]
        BY <3>2, <3>4, <4>1, AppendedTo
      <4> QED BY <4>2 DEF OnlyMatched
    <3>5. CASE s \in matched /\ bus' = Append(bus, Signal("PropertiesChanged", s, u))
      <4>1. /\ Signal("PropertiesChanged", s, u) \in Message
            /\ Signal("PropertiesChanged", s, u).service = s
        BY <3>1 DEF Signal
      <4>2. /\ Len(bus') = Len(bus) + 1 /\ Len(bus) \in Nat
            /\ bus'[Len(bus) + 1].service = s
            /\ \A i \in 1..Len(bus) : bus'[i] = bus[i]
        BY <3>2, <3>5, <4>1, AppendedTo
      <4> QED BY <4>2, <3>5 DEF OnlyMatched
    <3> QED BY <3>1, <3>3, <3>4, <3>5
  <2> QED BY <1>1, <2>1, <2>2, <2>3 DEF OnlyMatched
<1>3. CASE MatchInstalled(s)
  <2>1. Busy' /\ OneWatcher'
    BY <1>3 DEF MatchInstalled, agent, Busy, OneWatcher
  <2>2. OnlyMatched'
    BY <1>3 DEF MatchInstalled, agent, OnlyMatched
  <2> QED BY <1>1, <2>1, <2>2
<1> QED BY <1>2, <1>3

(* A coroutine begins only for a unit that is not in unit_paths. *)
LEMMA WatchedBegins ==
    ASSUME Watched, NEW c \in Coroutines, NEW s \in Services, s \notin unit_paths,
           co[c].phase = "idle",
           unit_paths' = unit_paths \cup {s},
           co' = [co EXCEPT ![c] = [Idle EXCEPT !.phase = "added", !.service = s]],
           handlers' = handlers, matched' = matched, asked' = asked
    PROVE  Busy' /\ OneWatcher'
<1> USE DEF Watched
<1>1. /\ co'[c].phase = "added" /\ co'[c].service = s
      /\ \A d \in Coroutines : d # c => co'[d] = co[d]
  BY DEF TypeOK, Idle
<1>2. Busy'
  BY <1>1 DEF Busy
<1>3. \A d \in Coroutines : co[d].service # s
  BY DEF OneWatcher, Busy
<1>4. handlers[s] = 0
  BY DEF OneWatcher
<1>5. \A d \in Coroutines : co'[d].phase # "idle" =>
         /\ co'[d].service \in unit_paths'
         /\ handlers'[co'[d].service] = 0
         /\ \A e \in Coroutines : e # d => co'[e].service # co'[d].service
  <2> SUFFICES ASSUME NEW d \in Coroutines, co'[d].phase # "idle"
               PROVE  /\ co'[d].service \in unit_paths'
                      /\ handlers'[co'[d].service] = 0
                      /\ \A e \in Coroutines : e # d => co'[e].service # co'[d].service
    OBVIOUS
  <2>1. CASE d = c
    BY <2>1, <1>1, <1>3, <1>4
  <2>2. CASE d # c
    <3>1. co'[d] = co[d] /\ co[d].service # s
      BY <2>2, <1>1, <1>3
    <3> QED BY <2>2, <3>1, <1>1 DEF OneWatcher
  <2> QED BY <2>1, <2>2
<1>6. OneWatcher'
  BY <1>5 DEF OneWatcher
<1> QED BY <1>2, <1>6

LEMMA WatchedUnits ==
    ASSUME Watched, (\E s \in Services : GetUnit(s)) \/ HandleUnitNew
    PROVE  Watched'
<1> USE DEF Watched
<1>1. TypeOK'
  BY TypedUnits
<1>0. Main \in Coroutines /\ Workers \subseteq Coroutines
  BY DEF Coroutines
<1>2. CASE \E s \in Services : GetUnit(s)
  <2>1. PICK s \in Services : GetUnit(s)
    BY <1>2
  <2>2. Busy' /\ OneWatcher'
    <3>1. CASE co' = co /\ unit_paths' = unit_paths
      BY <2>1, <3>1 DEF GetUnit, Busy, OneWatcher
    <3>2. CASE ~(co' = co /\ unit_paths' = unit_paths)
      BY <2>1, <3>2, <1>0, WatchedBegins DEF GetUnit
    <3> QED BY <3>1, <3>2
  <2>3. OnlyMatched'
    BY <2>1 DEF GetUnit, OnlyMatched
  <2> QED BY <1>1, <2>2, <2>3
<1>3. CASE HandleUnitNew
  <2>1. bus \in Seq(Message) /\ bus # <<>> /\ bus' = Tail(bus)
    BY <1>3 DEF HandleUnitNew, TypeOK
  <2>2. Head(bus) \in Message
    BY <2>1, HeadAndTail
  <2>3. Head(bus).service \in Services
    BY <2>2 DEF Message
  <2>4. Busy' /\ OneWatcher'
    <3>1. CASE co' = co /\ unit_paths' = unit_paths
      BY <1>3, <3>1 DEF HandleUnitNew, Busy, OneWatcher
    <3>2. CASE ~(co' = co /\ unit_paths' = unit_paths)
      <4>1. PICK w \in Workers :
               /\ Watches(Head(bus).service)
               /\ co[w].phase = "idle"
               /\ unit_paths' = unit_paths \cup {Head(bus).service}
               /\ co' = [co EXCEPT ![w] = [Idle EXCEPT !.phase = "added",
                                                       !.service = Head(bus).service]]
        BY <1>3, <3>2 DEF HandleUnitNew
      <4>2. handlers' = handlers /\ matched' = matched /\ asked' = asked
        BY <1>3 DEF HandleUnitNew
      <4>3. Head(bus).service \notin unit_paths
        BY <4>1 DEF Watches
      <4> QED BY <4>1, <4>2, <4>3, <2>3, <1>0, WatchedBegins
    <3> QED BY <3>1, <3>2
  <2>5. OnlyMatched'
    <3>1. /\ Len(bus') = Len(bus) - 1 /\ Len(bus) \in Nat
          /\ \A i \in 1..Len(bus') : bus'[i] = bus[i + 1]
      BY <2>1, HeadAndTail
    <3>2. \A i \in 1..Len(bus') : i + 1 \in 1..Len(bus)
      BY <3>1
    <3> QED BY <3>1, <3>2, <1>3 DEF OnlyMatched, HandleUnitNew
  <2> QED BY <1>1, <2>4, <2>5
<1> QED BY <1>2, <1>3

(* A coroutine that goes on keeps its unit. *)
LEMMA WatchedGoesOn ==
    ASSUME OneWatcher, unit_paths' = unit_paths, handlers' = handlers,
           matched' = matched, asked' = asked,
           \A d \in Coroutines : /\ co'[d].service = co[d].service
                                 /\ co'[d].phase # "idle" => co[d].phase # "idle"
    PROVE  OneWatcher'
<1>1. \A d \in Coroutines : co'[d].phase # "idle" =>
         /\ co'[d].service \in unit_paths
         /\ handlers[co'[d].service] = 0
         /\ \A e \in Coroutines : e # d => co'[e].service # co'[d].service
  BY DEF OneWatcher
<1> QED BY <1>1 DEF OneWatcher

LEMMA WatchedCoroutine ==
    ASSUME Watched, NEW c \in Coroutines,
           AddHandler(c) \/ AddHandlerRaises(c) \/ InitialStateRaises(c)
    PROVE  Watched'
<1> USE DEF Watched
<1>1. TypeOK'
  BY TypedCoroutine
<1>2. OnlyMatched'
  BY DEF OnlyMatched, AddHandler, ReadActiveState, SetInitialState, RegisterHandler,
         AddHandlerRaises, InitialStateRaises
<1>3. co[c].phase # "idle" /\ co[c].service \in Services
  BY DEF Busy, AddHandler, ReadActiveState, SetInitialState, RegisterHandler,
         AddHandlerRaises, InitialStateRaises
<1>4. CASE ReadActiveState(c)
  <2>1. /\ co'[c].phase = "active" /\ co'[c].service = co[c].service
        /\ co'[c].active = ActiveState(real[co[c].service])
        /\ \A d \in Coroutines : d # c => co'[d] = co[d]
    BY <1>4 DEF ReadActiveState, TypeOK, Coroutine
  <2>2. co'[c].active \in ActiveStates
    BY <2>1, <1>3, StatesTyped DEF TypeOK
  <2>3. Busy'
    BY <2>1, <2>2, <1>3 DEF Busy
  <2>4. OneWatcher'
    BY <2>1, <1>3, <1>4, WatchedGoesOn DEF ReadActiveState
  <2> QED BY <1>1, <1>2, <2>3, <2>4
<1>5. CASE SetInitialState(c)
  <2>1. /\ co'[c].phase = "set" /\ co'[c].service = co[c].service
        /\ co'[c].active = co[c].active
        /\ \A d \in Coroutines : d # c => co'[d] = co[d]
    BY <1>5 DEF SetInitialState, TypeOK, Coroutine
  <2>3. Busy'
    BY <2>1, <1>3, <1>5 DEF Busy, SetInitialState
  <2>4. OneWatcher'
    BY <2>1, <1>3, <1>5, WatchedGoesOn DEF SetInitialState
  <2> QED BY <1>1, <1>2, <2>3, <2>4
<1>6. CASE RegisterHandler(c)
  <2> DEFINE s == co[c].service
  <2>1. /\ co'[c] = Idle
        /\ \A d \in Coroutines : d # c => co'[d] = co[d]
    BY <1>6 DEF RegisterHandler, TypeOK
  <2>2. /\ s \in unit_paths /\ handlers[s] = 0 /\ s \notin matched \cup asked
        /\ \A d \in Coroutines : d # c => co[d].service # s
    BY <1>3 DEF OneWatcher
  <2>3. /\ handlers'[s] = 1
        /\ \A t \in Services : t # s => handlers'[t] = handlers[t]
        /\ asked' = asked \cup {s} /\ matched' = matched /\ unit_paths' = unit_paths
    BY <1>3, <1>6, <2>2 DEF RegisterHandler, TypeOK
  <2>4. Busy'
    BY <2>1 DEF Busy, Idle
  <2>5. OneWatcher'
    <3>1. ASSUME NEW d \in Coroutines, co'[d].phase # "idle"
          PROVE  /\ co'[d].service \in unit_paths'
                 /\ handlers'[co'[d].service] = 0
                 /\ \A e \in Coroutines : e # d => co'[e].service # co'[d].service
      <4>1. d # c /\ co'[d] = co[d] /\ co[d].service \in Services /\ co[d].service # s
        BY <3>1, <2>1, <2>2 DEF Idle, Busy
      <4>2. \A e \in Coroutines : co'[e].service \in {None, co[e].service}
        BY <2>1 DEF Idle
      <4> QED BY <4>1, <4>2, <2>3, <3>1 DEF OneWatcher
    <3>2. \A t \in Services :
             /\ handlers'[t] \in {0, 1}
             /\ handlers'[t] = 1 => t \in unit_paths'
             /\ handlers'[t] = 1 <=> t \in matched' \cup asked'
      BY <2>2, <2>3, <1>3 DEF OneWatcher
    <3> QED BY <3>1, <3>2 DEF OneWatcher
  <2> QED BY <1>1, <1>2, <2>4, <2>5
<1>7. CASE AddHandlerRaises(c) \/ InitialStateRaises(c)
  <2>1. /\ co'[c] = Idle
        /\ \A d \in Coroutines : d # c => co'[d] = co[d]
        /\ unit_paths' = unit_paths /\ handlers' = handlers
        /\ matched' = matched /\ asked' = asked
    BY <1>7 DEF AddHandlerRaises, InitialStateRaises, TypeOK
  <2>2. Busy'
    BY <2>1 DEF Busy, Idle
  <2>3. OneWatcher'
    <3>1. ASSUME NEW d \in Coroutines, co'[d].phase # "idle"
          PROVE  /\ co'[d].service \in unit_paths'
                 /\ handlers'[co'[d].service] = 0
                 /\ \A e \in Coroutines : e # d => co'[e].service # co'[d].service
      <4>1. d # c /\ co'[d] = co[d] /\ co[d].service \in Services
        BY <3>1, <2>1 DEF Idle, Busy
      <4>2. \A e \in Coroutines : co'[e].service \in {None, co[e].service}
        BY <2>1 DEF Idle
      <4> QED BY <4>1, <4>2, <2>1, <3>1 DEF OneWatcher
    <3> QED BY <3>1, <2>1 DEF OneWatcher
  <2> QED BY <1>1, <1>2, <2>2, <2>3
<1> QED BY <1>4, <1>5, <1>6, <1>7 DEF AddHandler

(* The callback of a unit adds one task, of that unit. *)
LEMMA WatchedSignals ==
    ASSUME Watched, HandlePropertiesChanged \/ RunTask \/ Stop
    PROVE  Watched'
<1> USE DEF Watched
<1>1. TypeOK'
  BY TypedSignals
<1>2. Busy' /\ OneWatcher'
  BY DEF HandlePropertiesChanged, RunTask, Stop, faults, Busy, OneWatcher
<1>3. OnlyMatched'
  <2>1. CASE HandlePropertiesChanged
    <3> DEFINE m == Head(bus)
    <3>1. bus \in Seq(Message) /\ bus # <<>> /\ bus' = Tail(bus) /\ tasks \in Seq(Message)
      BY <2>1 DEF HandlePropertiesChanged, TypeOK
    <3>2. /\ m \in Message /\ m = bus[1] /\ 1 \in 1..Len(bus)
          /\ Len(bus') = Len(bus) - 1 /\ Len(bus) \in Nat
          /\ \A i \in 1..Len(bus') : bus'[i] = bus[i + 1]
      BY <3>1, HeadAndTail
    <3>3. \A i \in 1..Len(bus') : i + 1 \in 1..Len(bus)
      BY <3>2
    <3>4. m.kind = "PropertiesChanged" /\ m.service \in matched /\ matched' = matched
      BY <2>1, <3>2 DEF OnlyMatched, HandlePropertiesChanged
    <3>5. m.service \in Services /\ handlers[m.service] = 1
      BY <3>2, <3>4 DEF Message, OneWatcher
    <3>6. tasks' = tasks \/ tasks' = Append(tasks, m)
      <4>1. tasks' = tasks \/ tasks' = tasks \o [i \in 1..handlers[m.service] |-> m]
        BY <2>1 DEF HandlePropertiesChanged
      <4> HIDE DEF m
      <4>2. [i \in 1..1 |-> m] = <<m>>
        OBVIOUS
      <4>3. tasks \o <<m>> = Append(tasks, m)
        BY <3>1, <3>2
      <4> QED BY <4>1, <4>2, <4>3, <3>5
    <3>7. \A i \in 1..Len(tasks') :
             tasks'[i].kind = "PropertiesChanged" /\ tasks'[i].service \in matched
      <4>1. CASE tasks' = tasks
        BY <4>1 DEF OnlyMatched
      <4>2. CASE tasks' = Append(tasks, m)
        <5>1. /\ Len(tasks') = Len(tasks) + 1 /\ Len(tasks) \in Nat
              /\ tasks'[Len(tasks) + 1] = m
              /\ \A i \in 1..Len(tasks) : tasks'[i] = tasks[i]
          <6> HIDE DEF m
          <6> QED BY <4>2, <3>1, <3>2, AppendedTo
        <5> QED BY <5>1, <3>4 DEF OnlyMatched
      <4> QED BY <4>1, <4>2, <3>6
    <3> QED BY <3>2, <3>3, <3>4, <3>7 DEF OnlyMatched
  <2>2. CASE RunTask
    <3>1. tasks \in Seq(Message) /\ tasks # <<>> /\ tasks' = RemoveAt(tasks, 1)
      BY <2>2 DEF RunTask, NextTask, TypeOK
    <3>2. /\ Len(tasks') = Len(tasks) - 1 /\ Len(tasks) \in Nat
          /\ \A i \in 1..Len(tasks') : tasks'[i] = tasks[i + 1]
      BY <3>1, RemoveOldest, HeadAndTail
    <3>3. \A i \in 1..Len(tasks') : i + 1 \in 1..Len(tasks)
      BY <3>2
    <3> QED BY <3>2, <3>3, <2>2 DEF RunTask, OnlyMatched
  <2>3. CASE Stop
    BY <2>3 DEF Stop, OnlyMatched
  <2> QED BY <2>1, <2>2, <2>3
<1> QED BY <1>1, <1>2, <1>3

LEMMA WatchedNext == Watched /\ [Next]_vars => Watched'
<1> SUFFICES ASSUME Watched, [Next]_vars PROVE Watched'
  OBVIOUS
<1>1. CASE UNCHANGED vars
  BY <1>1 DEF vars, agent, faults, Watched, TypeOK, Busy, OneWatcher, OnlyMatched
<1>2. CASE Next
  <2>1. Workers \subseteq Coroutines
    BY DEF Coroutines
  <2> QED BY <1>2, <2>1, WatchedSystemd, WatchedUnits, WatchedCoroutine, WatchedSignals,
             WatchedRestart DEF Next, AddMonitorRaises, Crash
<1> QED BY <1>1, <1>2

LEMMA WatchedInvariant == Spec => []Watched
BY WatchedInit, WatchedNext, PTL DEF Spec

(* Types, for any services, coroutines and bounds. *)
THEOREM TypeCorrect == Spec => []TypeOK
<1>1. Watched => TypeOK
  BY DEF Watched
<1> QED BY <1>1, WatchedInvariant, PTL

(* One callback watches a unit, however often systemd loads it and         *)
(* whichever coroutine of add_monitor or handle_unit_new finds it.         *)
THEOREM OneCallback == Spec => []OneHandlerPerUnit
<1>1. Watched => OneHandlerPerUnit
  BY DEF Watched, OneWatcher, OneHandlerPerUnit
<1> QED BY <1>1, WatchedInvariant, PTL

-----------------------------------------------------------------------------
(* No loaded unit unwatched. *)

Announced(s) == \E i \in 1..Len(bus) : bus[i].kind = "UnitNew" /\ bus[i].service = s

(* A unit in unit_paths has its callback or a coroutine that will register *)
(* it, and one that is not was seen unloaded and is announced if it is     *)
(* loaded by now.                                                          *)
Monitored ==
    /\ \A s \in unit_paths \ given_up :
          handlers[s] = 1 \/ \E c \in Coroutines : co[c].service = s
    /\ \A s \in Services \ (todo \cup unit_paths) :
          s \in not_enabled /\ (real[s] # "unloaded" => Announced(s))

LEMMA MonitoredSystemd ==
    ASSUME Watched, Monitored, NEW s \in Services, UnitChanges(s) \/ MatchInstalled(s)
    PROVE  Monitored'
<1>1. CASE UnitChanges(s)
  <2>1. PICK u \in Successors(real[s]) :
           /\ u \in UnitStates /\ real[s] \in UnitStates
           /\ real' = [real EXCEPT ![s] = u]
           /\ \A kind \in {"UnitNew", "PropertiesChanged"} : Signal(kind, s, u) \in Message
           /\ \/ real[s] = "unloaded" /\ bus' = Append(bus, Signal("UnitNew", s, u))
              \/ real[s] # "unloaded" /\ bus' = Append(bus, Signal("PropertiesChanged", s, u))
              \/ real[s] # "unloaded" /\ bus' = bus
    <3> HIDE DEF Watched
    <3>1. TypeOK
      BY DEF Watched
    <3> QED BY <3>1, <1>1, ChangeSignals
  <2>2. bus \in Seq(Message)
    BY DEF Watched, TypeOK
  <2>3. \A t \in Services : Announced(t) => Announced(t)'
    <3>1. CASE bus' = bus
      BY <3>1 DEF Announced
    <3>2. ASSUME NEW m \in Message, bus' = Append(bus, m)
          PROVE  \A t \in Services : Announced(t) => Announced(t)'
      <4>1. /\ Len(bus') = Len(bus) + 1 /\ Len(bus) \in Nat
            /\ \A i \in 1..Len(bus) : bus'[i] = bus[i]
        BY <2>2, <3>2, AppendedTo
      <4> QED BY <4>1 DEF Announced
    <3> QED BY <2>1, <3>1, <3>2
  <2>4. real[s] = "unloaded" => Announced(s)'
    <3> SUFFICES ASSUME real[s] = "unloaded" PROVE Announced(s)'
      OBVIOUS
    <3> DEFINE m == Signal("UnitNew", s, u)
    <3>1. m \in Message /\ bus' = Append(bus, m) /\ m.kind = "UnitNew" /\ m.service = s
      BY <2>1 DEF Signal
    <3> HIDE DEF m
    <3>2. Len(bus') = Len(bus) + 1 /\ Len(bus) \in Nat /\ bus'[Len(bus) + 1] = m
      BY <3>1, <2>2, AppendedTo
    <3> QED BY <3>1, <3>2 DEF Announced
  <2>5. \A t \in Services : t # s => real'[t] = real[t]
    BY <2>1 DEF Watched, TypeOK
  <2>6. /\ todo' = todo /\ unit_paths' = unit_paths /\ not_enabled' = not_enabled
        /\ handlers' = handlers /\ co' = co /\ given_up' = given_up
    BY <1>1 DEF UnitChanges, agent
  <2> QED BY <2>3, <2>4, <2>5, <2>6 DEF Monitored
<1>2. CASE MatchInstalled(s)
  BY <1>2 DEF MatchInstalled, agent, faults, Monitored, Announced
<1> QED BY <1>1, <1>2

(* A message that is taken from the bus was its first. *)
LEMMA StaysAnnounced ==
    ASSUME bus \in Seq(Message), bus # <<>>, bus' = Tail(bus), NEW s \in Services,
           Announced(s), Head(bus).kind # "UnitNew" \/ Head(bus).service # s
    PROVE  Announced(s)'
<1>1. PICK i \in 1..Len(bus) : bus[i].kind = "UnitNew" /\ bus[i].service = s
  BY DEF Announced
<1>2. /\ Head(bus) = bus[1] /\ Len(bus') = Len(bus) - 1 /\ Len(bus) \in Nat
      /\ \A j \in 1..Len(bus') : bus'[j] = bus[j + 1]
  BY HeadAndTail
<1>3. i # 1
  BY <1>1, <1>2
<1>4. i - 1 \in 1..Len(bus') /\ (i - 1) + 1 = i
  BY <1>2, <1>3
<1>5. bus'[i - 1] = bus[i]
  BY <1>2, <1>4
<1> QED BY <1>1, <1>4, <1>5 DEF Announced

LEMMA MonitoredUnits ==
    ASSUME Watched, Monitored, (\E s \in Services : GetUnit(s)) \/ HandleUnitNew
    PROVE  Monitored'
<1>0. Main \in Coroutines /\ Workers \subseteq Coroutines
  BY DEF Coroutines
(* The unit that a coroutine begins with, if one does. *)
<1>1. ASSUME NEW c \in Coroutines, NEW s \in Services,
             co[c].phase = "idle", unit_paths' = unit_paths \cup {s},
             co' = [co EXCEPT ![c] = [Idle EXCEPT !.phase = "added", !.service = s]],
             handlers' = handlers, given_up' = given_up
      PROVE  \A t \in unit_paths' \ given_up' :
                handlers'[t] = 1 \/ \E d \in Coroutines : co'[d].service = t
  <2>1. /\ co'[c].service = s
        /\ \A d \in Coroutines : d # c => co'[d] = co[d]
    BY <1>1 DEF Watched, TypeOK, Idle
  <2>2. co[c].service \notin unit_paths
    BY <1>1 DEF Watched, Busy, TypeOK
  <2> QED BY <1>1, <2>1, <2>2 DEF Monitored
<1>2. CASE \E s \in Services : GetUnit(s)
  <2>1. PICK s \in Services : GetUnit(s)
    BY <1>2
  <2>2. \A t \in unit_paths' \ given_up' :
           handlers'[t] = 1 \/ \E d \in Coroutines : co'[d].service = t
    <3>1. CASE co' = co /\ unit_paths' = unit_paths
      BY <2>1, <3>1 DEF GetUnit, faults, Monitored
    <3>2. CASE ~(co' = co /\ unit_paths' = unit_paths)
      BY <2>1, <3>2, <1>0, <1>1 DEF GetUnit, faults
    <3> QED BY <3>1, <3>2
  <2>3. \A t \in Services \ (todo' \cup unit_paths') :
           t \in not_enabled' /\ (real'[t] # "unloaded" => Announced(t)')
    <3>1. bus' = bus /\ real' = real /\ todo' = todo \ {s}
      BY <2>1 DEF GetUnit
    <3>2. unit_paths \subseteq unit_paths' /\ not_enabled \subseteq not_enabled'
      BY <2>1 DEF GetUnit
    <3>3. s \notin unit_paths' => s \in not_enabled' /\ real[s] = "unloaded"
      BY <2>1 DEF GetUnit
    <3>4. \A t \in Services : Announced(t) => Announced(t)'
      BY <3>1 DEF Announced
    <3> QED BY <3>1, <3>2, <3>3, <3>4 DEF Monitored
  <2> QED BY <2>2, <2>3 DEF Monitored
<1>3. CASE HandleUnitNew
  <2> DEFINE s == Head(bus).service
  <2>1. bus \in Seq(Message) /\ bus # <<>> /\ bus' = Tail(bus)
    BY <1>3 DEF HandleUnitNew, Watched, TypeOK
  <2>2. Head(bus) \in Message
    BY <2>1, HeadAndTail
  <2>3. s \in Services
    BY <2>2 DEF Message
  <2>4. \/ ~Watches(s) /\ co' = co /\ unit_paths' = unit_paths
        \/ \E w \in Workers :
              /\ co[w].phase = "idle"
              /\ unit_paths' = unit_paths \cup {s}
              /\ co' = [co EXCEPT ![w] = [Idle EXCEPT !.phase = "added", !.service = s]]
    BY <1>3 DEF HandleUnitNew
  <2>5. /\ handlers' = handlers /\ given_up' = given_up /\ todo' = todo
        /\ not_enabled' = not_enabled /\ real' = real
    BY <1>3 DEF HandleUnitNew, faults
  <2> HIDE DEF s
  <2>6. \A t \in unit_paths' \ given_up' :
           handlers'[t] = 1 \/ \E d \in Coroutines : co'[d].service = t
    <3>1. CASE co' = co /\ unit_paths' = unit_paths
      BY <2>5, <3>1 DEF Monitored
    <3>2. CASE ~(co' = co /\ unit_paths' = unit_paths)
      BY <2>3, <2>4, <2>5, <3>2, <1>0, <1>1
    <3> QED BY <3>1, <3>2
  <2>7. s \in todo \cup unit_paths'
    BY <2>3, <2>4 DEF Watches, Monitored
  <2>8. \A t \in Services : t # s /\ Announced(t) => Announced(t)'
    BY <2>1, StaysAnnounced DEF s
  <2>9. unit_paths \subseteq unit_paths'
    BY <2>4
  <2> QED BY <2>5, <2>6, <2>7, <2>8, <2>9 DEF Monitored
<1> QED BY <1>2, <1>3

LEMMA MonitoredCoroutine ==
    ASSUME Watched, Monitored, NEW c \in Coroutines,
           AddHandler(c) \/ AddHandlerRaises(c) \/ InitialStateRaises(c)
    PROVE  Monitored'
<1>1. /\ bus' = bus /\ real' = real /\ todo' = todo
      /\ unit_paths' = unit_paths /\ not_enabled' = not_enabled
  BY DEF AddHandler, ReadActiveState, SetInitialState, RegisterHandler,
         AddHandlerRaises, InitialStateRaises
<1>2. \A t \in Services : Announced(t) => Announced(t)'
  BY <1>1 DEF Announced
<1>3. \A d \in Coroutines : d # c => co'[d] = co[d]
  BY DEF AddHandler, ReadActiveState, SetInitialState, RegisterHandler,
         AddHandlerRaises, InitialStateRaises, Watched, TypeOK
<1>4. \/ co'[c].service = co[c].service /\ handlers' = handlers /\ given_up' = given_up
      \/ handlers' = [handlers EXCEPT ![co[c].service] = @ + 1] /\ given_up' = given_up
      \/ given_up' = given_up \cup {co[c].service} /\ handlers' = handlers
  BY DEF AddHandler, ReadActiveState, SetInitialState, RegisterHandler,
         AddHandlerRaises, InitialStateRaises, Watched, TypeOK, Coroutine, faults
<1>5. \A t \in unit_paths \ given_up' :
         handlers'[t] = 1 \/ \E d \in Coroutines : co'[d].service = t
  <2>1. CASE co'[c].service = co[c].service /\ handlers' = handlers /\ given_up' = given_up
    BY <2>1, <1>3 DEF Monitored
  <2>2. CASE given_up' = given_up \cup {co[c].service} /\ handlers' = handlers
    BY <2>2, <1>3 DEF Monitored
  <2>3. CASE /\ handlers' = [handlers EXCEPT ![co[c].service] = @ + 1]
             /\ given_up' = given_up /\ co[c].phase # "idle"
    <3>1. co[c].service \in Services /\ handlers[co[c].service] = 0
      BY <2>3 DEF Watched, Busy, OneWatcher
    <3>2. /\ handlers'[co[c].service] = 1
          /\ \A t \in Services : t # co[c].service => handlers'[t] = handlers[t]
      BY <2>3, <3>1 DEF Watched, TypeOK
    <3>3. unit_paths \subseteq Services
      BY DEF Watched, TypeOK
    <3> QED BY <2>3, <3>1, <3>2, <3>3, <1>3 DEF Monitored
  <2>4. co[c].phase # "idle"
    BY DEF AddHandler, ReadActiveState, SetInitialState, RegisterHandler,
           AddHandlerRaises, InitialStateRaises
  <2> QED BY <1>4, <2>1, <2>2, <2>3, <2>4
<1> QED BY <1>1, <1>2, <1>5 DEF Monitored

LEMMA MonitoredSignals ==
    ASSUME Watched, Monitored, HandlePropertiesChanged \/ RunTask \/ Stop
    PROVE  Monitored'
<1>1. /\ real' = real /\ todo' = todo /\ unit_paths' = unit_paths /\ co' = co
      /\ not_enabled' = not_enabled /\ handlers' = handlers /\ given_up' = given_up
  BY DEF HandlePropertiesChanged, RunTask, Stop, faults
<1>2. ASSUME NEW t \in Services, Announced(t) PROVE Announced(t)'
  <2>1. CASE HandlePropertiesChanged
    <3>1. bus \in Seq(Message) /\ bus # <<>> /\ bus' = Tail(bus)
          /\ Head(bus).kind # "UnitNew"
      BY <2>1 DEF HandlePropertiesChanged, Watched, TypeOK
    <3> QED BY <1>2, <3>1, StaysAnnounced
  <2>2. CASE RunTask \/ Stop
    BY <1>2, <2>2 DEF RunTask, Stop, Announced
  <2> QED BY <2>1, <2>2
<1> QED BY <1>1, <1>2 DEF Monitored

LEMMA MonitoredRestart == Restart => Monitored'
BY DEF Restart, Monitored

LEMMA MonitoredNext == Watched /\ Monitored /\ [Next]_vars => Monitored'
<1> SUFFICES ASSUME Watched, Monitored, [Next]_vars PROVE Monitored'
  OBVIOUS
<1>1. CASE UNCHANGED vars
  BY <1>1 DEF vars, agent, faults, Monitored, Announced
<1>2. CASE Next
  <2>1. Workers \subseteq Coroutines
    BY DEF Coroutines
  <2> QED BY <1>2, <2>1, MonitoredSystemd, MonitoredUnits, MonitoredCoroutine,
             MonitoredSignals, MonitoredRestart DEF Next, AddMonitorRaises, Crash
<1> QED BY <1>1, <1>2

LEMMA MonitoredInvariant == Spec => []Monitored
<1>1. Init => Monitored
  BY DEF Init, Monitored
<1> QED BY <1>1, MonitoredNext, WatchedInvariant, PTL DEF Spec

(* A service that is loaded is watched once everything the bus sent was    *)
(* handled, also when it was loaded long after the agent had started.      *)
THEOREM LoadedIsWatched == Spec => []MonitoringBegins
<1>1. ASSUME Watched, Monitored PROVE MonitoringBegins
  <2> SUFFICES ASSUME NEW s \in Services \ given_up, Quiet(s), real[s] # "unloaded"
               PROVE  s \in matched /\ handlers[s] > 0
    BY DEF MonitoringBegins
  <2>1. ~Announced(s) /\ s \notin todo /\ s \notin asked
    BY DEF Quiet, Announced
  <2>2. s \in unit_paths
    BY <2>1, <1>1 DEF Monitored
  <2>3. handlers[s] = 1
    BY <2>2, <1>1 DEF Monitored, Quiet
  <2> QED BY <2>1, <2>3, <1>1 DEF Watched, OneWatcher
<1> QED BY <1>1, WatchedInvariant, MonitoredInvariant, PTL

-----------------------------------------------------------------------------
(* Failures and recoveries reach the report. *)

(* The report is that of the recorded states. *)
Reported == ~stopped /\ ~unread => report = Failed(state)

(* A message says that s is in state u now. *)
Change(m, s) == m.kind = "PropertiesChanged" /\ m.service = s
Tells(m, u) == m.active = ActiveState(u) /\ m.sub = SubState(u)

NoChange(q, s) == \A i \in 1..Len(q) : ~Change(q[i], s)

(* The last message about s in the queue q. *)
LastTells(q, s, u) ==
    \E i \in 1..Len(q) :
        /\ Change(q[i], s) /\ Tells(q[i], u)
        /\ \A j \in 1..Len(q) : j > i => ~Change(q[j], s)

(* What has to be recorded of a service in state u. *)
Shows(v, u) == (u = "failed" => v = "failed") /\ (u = "running" => v = "active")

(* Whether a service failed or runs is in the last message about it, the   *)
(* bus being behind the tasks, or was recorded.                            *)
Agrees(s) ==
    real[s] \in {"failed", "running"} =>
        \/ LastTells(bus, s, real[s])
        \/ NoChange(bus, s) /\ LastTells(tasks, s, real[s])
        \/ NoChange(bus, s) /\ NoChange(tasks, s) /\ Shows(state[s], real[s])

(* What a coroutine has read of a service that has not changed since is    *)
(* true of it, and later the messages about the service are.               *)
Tracked ==
    /\ \A c \in Coroutines : co[c].service \notin missed =>
          /\ co[c].phase = "active" => co[c].active = ActiveState(real[co[c].service])
          /\ co[c].phase = "set" => Shows(state[co[c].service], real[co[c].service])
    /\ ~stopped =>
          \A s \in Services : handlers[s] = 1 /\ s \notin missed => Agrees(s)

LEMMA RecordReports ==
    ASSUME Reported, NEW s, NEW active, NEW sub, stopped' = stopped,
           SetCurrentState(s, active, sub) \/ SetCurrentStateRaises(s, active, sub)
    PROVE  Reported'
<1>1. CASE SetCurrentState(s, active, sub)
  BY <1>1 DEF SetCurrentState, UpdateServices, Reported, Failed
<1>2. CASE SetCurrentStateRaises(s, active, sub)
  BY <1>2 DEF SetCurrentStateRaises, UpdateServicesRaises, Reported, Failed
<1> QED BY <1>1, <1>2

LEMMA ReportedNext == Reported /\ [Next]_vars => Reported'
<1> SUFFICES ASSUME Reported, [Next]_vars PROVE Reported'
  OBVIOUS
<1>1. ASSUME NEW c, SetInitialState(c) \/ InitialStateRaises(c) PROVE Reported'
  <2>1. stopped' = stopped
    BY <1>1 DEF SetInitialState, InitialStateRaises
  <2> QED BY <1>1, <2>1, RecordReports DEF SetInitialState, InitialStateRaises
<1>2. CASE RunTask
  <2>1. stopped' = stopped
    BY <1>2 DEF RunTask
  <2> QED BY <1>2, <2>1, RecordReports DEF RunTask
<1>3. CASE Restart
  BY <1>3 DEF Restart, Reported, Failed
<1>4. CASE Stop
  BY <1>4 DEF Stop, Reported
<1>5. CASE stopped' = stopped /\ unread' = unread /\ report' = report /\ state' = state
  BY <1>5 DEF Reported, Failed
<1>6. \/ \E c \in Coroutines : SetInitialState(c)
      \/ \E w \in Workers : InitialStateRaises(w)
      \/ RunTask \/ Restart \/ Stop
      \/ stopped' = stopped /\ unread' = unread /\ report' = report /\ state' = state
  BY DEF Next, vars, agent, faults, UnitChanges, MatchInstalled, GetUnit, HandleUnitNew,
         AddHandler, ReadActiveState, RegisterHandler, AddHandlerRaises, AddMonitorRaises,
         Crash, HandlePropertiesChanged
<1> QED BY <1>1, <1>2, <1>3, <1>4, <1>5, <1>6

(* Recording a failed or a running service shows it. *)
LEMMA RecordShows ==
    ASSUME TypeOK, NEW s \in Services, NEW u \in {"failed", "running"},
           \/ SetCurrentState(s, ActiveState(u), SubState(u))
           \/ SetCurrentStateRaises(s, ActiveState(u), SubState(u))
    PROVE  Shows(state'[s], u)
<1>1. /\ u = "failed" => ActiveState(u) = "failed"
      /\ u = "running" => ActiveState(u) = "active" /\ SubState(u) = "running"
  BY DEF ActiveState, SubState
<1>2. IF Records(s, ActiveState(u), SubState(u))
      THEN state' = [state EXCEPT ![s] = ActiveState(u)] ELSE state' = state
  BY DEF SetCurrentState, SetCurrentStateRaises
<1>3. state[s] \in {None, "active", "failed"} /\ state \in [Services -> {None, "active", "failed"}]
  BY DEF TypeOK
<1>4. CASE Records(s, ActiveState(u), SubState(u))
  BY <1>1, <1>2, <1>3, <1>4 DEF Shows
<1>5. CASE ~Records(s, ActiveState(u), SubState(u))
  BY <1>1, <1>2, <1>3, <1>5 DEF Shows, Records
<1> QED BY <1>4, <1>5

(* Queues: the last message about a service stays the last. *)
LEMMA AppendTells ==
    ASSUME NEW q \in Seq(Message), NEW m \in Message, NEW s, NEW u,
           Change(m, s), Tells(m, u)
    PROVE  LastTells(Append(q, m), s, u)
<1>1. /\ Len(Append(q, m)) = Len(q) + 1 /\ Len(q) \in Nat
      /\ Append(q, m)[Len(q) + 1] = m
  BY AppendedTo
<1> QED BY <1>1 DEF LastTells

LEMMA AppendOther ==
    ASSUME NEW q \in Seq(Message), NEW m \in Message, NEW s, ~Change(m, s)
    PROVE  /\ NoChange(q, s) => NoChange(Append(q, m), s)
           /\ \A u : LastTells(q, s, u) => LastTells(Append(q, m), s, u)
<1> DEFINE r == Append(q, m)
<1>1. /\ Len(r) = Len(q) + 1 /\ Len(q) \in Nat /\ r[Len(q) + 1] = m
      /\ \A i \in 1..Len(q) : r[i] = q[i]
  BY AppendedTo
<1> HIDE DEF r
<1>2. NoChange(q, s) => NoChange(r, s)
  BY <1>1 DEF NoChange
<1>3. ASSUME NEW u, LastTells(q, s, u) PROVE LastTells(r, s, u)
  <2>1. PICK i \in 1..Len(q) : /\ Change(q[i], s) /\ Tells(q[i], u)
                               /\ \A j \in 1..Len(q) : j > i => ~Change(q[j], s)
    BY <1>3 DEF LastTells
  <2>2. i \in 1..Len(r) /\ Change(r[i], s) /\ Tells(r[i], u)
    BY <1>1, <2>1
  <2>3. \A j \in 1..Len(r) : j > i => ~Change(r[j], s)
    BY <1>1, <2>1
  <2> QED BY <2>2, <2>3 DEF LastTells
<1> QED BY <1>2, <1>3 DEF r

LEMMA TailTells ==
    ASSUME NEW q \in Seq(Message), q # <<>>, NEW s
    PROVE  /\ NoChange(q, s) => NoChange(Tail(q), s) /\ ~Change(Head(q), s)
           /\ \A u : LastTells(q, s, u) =>
                 \/ LastTells(Tail(q), s, u)
                 \/ NoChange(Tail(q), s) /\ Change(Head(q), s) /\ Tells(Head(q), u)
<1> DEFINE r == Tail(q)
<1>1. /\ Head(q) = q[1] /\ 1 \in 1..Len(q) /\ Len(q) \in Nat
      /\ Len(r) = Len(q) - 1 /\ \A i \in 1..Len(r) : r[i] = q[i + 1]
  BY HeadAndTail
<1> HIDE DEF r
<1>2. \A i \in 1..Len(r) : i + 1 \in 1..Len(q) /\ i + 1 > 1
  BY <1>1
<1>3. NoChange(q, s) => NoChange(r, s) /\ ~Change(Head(q), s)
  BY <1>1, <1>2 DEF NoChange
<1>4. ASSUME NEW u, LastTells(q, s, u)
      PROVE  \/ LastTells(r, s, u)
             \/ NoChange(r, s) /\ Change(Head(q), s) /\ Tells(Head(q), u)
  <2>1. PICK i \in 1..Len(q) : /\ Change(q[i], s) /\ Tells(q[i], u)
                               /\ \A j \in 1..Len(q) : j > i => ~Change(q[j], s)
    BY <1>4 DEF LastTells
  <2>2. CASE i = 1
    BY <2>1, <2>2, <1>1, <1>2 DEF NoChange
  <2>3. CASE i # 1
    <3>1. i - 1 \in 1..Len(r) /\ (i - 1) + 1 = i
      BY <2>3, <1>1
    <3>2. r[i - 1] = q[i]
      BY <3>1, <1>1
    <3>3. \A j \in 1..Len(r) : j > i - 1 => j + 1 > i
      BY <3>1, <1>1
    <3>4. \A j \in 1..Len(r) : j > i - 1 => ~Change(r[j], s)
      BY <3>3, <2>1, <1>1, <1>2
    <3> QED BY <3>1, <3>2, <3>4, <2>1 DEF LastTells
  <2> QED BY <2>2, <2>3
<1> QED BY <1>3, <1>4 DEF r

(* Nothing the statement about s looks at has changed. *)
LEMMA AgreesStays ==
    ASSUME NEW s, Agrees(s), bus' = bus, tasks' = tasks,
           real'[s] = real[s], state'[s] = state[s]
    PROVE  Agrees(s)'
BY DEF Agrees

LEMMA TrackedSystemd ==
    ASSUME Watched, Tracked, NEW s \in Services, UnitChanges(s) \/ MatchInstalled(s)
    PROVE  Tracked'
<1>1. CASE UnitChanges(s)
  <2>1. PICK u \in Successors(real[s]) :
           /\ u \in UnitStates /\ real[s] \in UnitStates
           /\ real' = [real EXCEPT ![s] = u]
           /\ \A kind \in {"UnitNew", "PropertiesChanged"} : Signal(kind, s, u) \in Message
           /\ \/ real[s] = "unloaded" /\ bus' = Append(bus, Signal("UnitNew", s, u))
              \/ /\ real[s] # "unloaded" /\ u # "unloaded" /\ s \in matched
                 /\ bus' = Append(bus, Signal("PropertiesChanged", s, u))
              \/ /\ real[s] # "unloaded" /\ (u = "unloaded" \/ s \notin matched)
                 /\ bus' = bus
    <3>1. TypeOK
      BY DEF Watched
    <3> QED BY <3>1, <1>1, ChangeSignals
  <2>2. bus \in Seq(Message)
    BY DEF Watched, TypeOK
  <2>3. /\ tasks' = tasks /\ state' = state /\ co' = co /\ handlers' = handlers
        /\ stopped' = stopped /\ matched' = matched /\ asked' = asked
    BY <1>1 DEF UnitChanges, agent
  <2>4. /\ BeingAdded(s) => s \in missed'
        /\ \A t \in Services : t # s => real'[t] = real[t] /\ (t \in missed' <=> t \in missed)
        /\ real'[s] = u
    BY <1>1, <2>1 DEF UnitChanges, Watched, TypeOK
  <2>5. ASSUME NEW c \in Coroutines, co[c].service \notin missed'
        PROVE  /\ co[c].phase = "active" =>
                     co[c].active = ActiveState(real'[co[c].service])
               /\ co[c].phase = "set" => Shows(state[co[c].service], real'[co[c].service])
    <3>1. CASE co[c].service = s
      BY <3>1, <2>4, <2>5 DEF BeingAdded
    <3>2. CASE co[c].service # s /\ co[c].phase \in {"active", "set"}
      <4>1. co[c].service \in Services
        BY <3>2 DEF Watched, Busy
      <4> QED BY <3>2, <4>1, <2>4, <2>5 DEF Tracked
    <3> QED BY <3>1, <3>2
  <2>6. ASSUME ~stopped, NEW t \in Services, handlers[t] = 1, t \notin missed'
        PROVE  Agrees(t)'
    <3>1. CASE t # s
      <4>1. Agrees(t) /\ real'[t] = real[t]
        BY <2>4, <2>6, <3>1 DEF Tracked
      <4>2. CASE bus' = bus
        BY <4>1, <4>2, <2>3, AgreesStays
      <4>3. ASSUME NEW kind \in {"UnitNew", "PropertiesChanged"},
                   bus' = Append(bus, Signal(kind, s, u))
            PROVE  Agrees(t)'
        <5>1. Signal(kind, s, u) \in Message /\ ~Change(Signal(kind, s, u), t)
          BY <2>1, <3>1 DEF Signal, Change
        <5>2. /\ NoChange(bus, t) => NoChange(bus', t)
              /\ \A v : LastTells(bus, t, v) => LastTells(bus', t, v)
          BY <2>2, <4>3, <5>1, AppendOther
        <5> QED BY <4>1, <5>2, <2>3 DEF Agrees
      <4> QED BY <2>1, <4>2, <4>3
    <3>2. CASE t = s
      <4>1. s \in matched
        BY <2>4, <2>6, <3>2 DEF BeingAdded, Watched, OneWatcher
      <4>2. CASE real[s] = "unloaded" \/ u = "unloaded"
        <5>1. u \notin {"failed", "running"}
          BY <4>2 DEF Successors
        <5> QED BY <5>1, <3>2, <2>4 DEF Agrees
      <4>3. CASE ~(real[s] = "unloaded" \/ u = "unloaded")
        <5> DEFINE m == Signal("PropertiesChanged", s, u)
        <5>1. bus' = Append(bus, m) /\ m \in Message /\ Change(m, s) /\ Tells(m, u)
          BY <2>1, <4>1, <4>3 DEF Signal, Change, Tells
        <5> HIDE DEF m
        <5>2. LastTells(bus', s, u)
          BY <2>2, <5>1, AppendTells
        <5> QED BY <5>2, <3>2, <2>4 DEF Agrees
      <4> QED BY <4>2, <4>3
    <3> QED BY <3>1, <3>2
  <2> QED BY <2>3, <2>5, <2>6 DEF Tracked
<1>2. CASE MatchInstalled(s)
  BY <1>2 DEF MatchInstalled, agent, faults, Tracked, Agrees
<1> QED BY <1>1, <1>2

LEMMA TrackedUnits ==
    ASSUME Watched, Tracked, (\E s \in Services : GetUnit(s)) \/ HandleUnitNew
    PROVE  Tracked'
<1>0. Main \in Coroutines /\ Workers \subseteq Coroutines
  BY DEF Coroutines
<1>1. /\ real' = real /\ state' = state /\ tasks' = tasks /\ handlers' = handlers
      /\ stopped' = stopped /\ missed' = missed
  BY DEF GetUnit, HandleUnitNew, faults
<1>2. \A c \in Coroutines : co'[c] = co[c] \/ co'[c].phase = "added"
  <2>1. \/ co' = co
        \/ \E c \in Coroutines, s \in {Head(bus).service} \cup Services :
              co' = [co EXCEPT ![c] = [Idle EXCEPT !.phase = "added", !.service = s]]
    BY <1>0 DEF GetUnit, HandleUnitNew
  <2> QED BY <2>1 DEF Watched, TypeOK, Idle
<1>3. ASSUME NEW t \in Services, Agrees(t) PROVE Agrees(t)'
  <2>1. CASE bus' = bus
    BY <1>1, <1>3, <2>1, AgreesStays
  <2>2. CASE HandleUnitNew
    <3>1. bus \in Seq(Message) /\ bus # <<>> /\ bus' = Tail(bus)
      BY <2>2 DEF HandleUnitNew, Watched, TypeOK
    <3>2. ~Change(Head(bus), t)
      BY <2>2 DEF HandleUnitNew, Change
    <3>3. /\ NoChange(bus, t) => NoChange(bus', t)
          /\ \A u : LastTells(bus, t, u) => LastTells(bus', t, u)
      BY <3>1, <3>2, TailTells
    <3> QED BY <3>3, <1>1, <1>3 DEF Agrees
  <2> QED BY <2>1, <2>2 DEF GetUnit
<1> QED BY <1>1, <1>2, <1>3 DEF Tracked

(* A coroutine records what it read before it registers the callback, and  *)
(* no message about its service can have come before.                      *)
LEMMA TrackedCoroutine ==
    ASSUME Watched, Tracked, NEW c \in Coroutines,
           AddHandler(c) \/ AddHandlerRaises(c) \/ InitialStateRaises(c)
    PROVE  Tracked'
<1>0. co[c].service \in Services
  BY DEF AddHandler, ReadActiveState, SetInitialState, RegisterHandler,
         AddHandlerRaises, InitialStateRaises, Watched, Busy
<1> PICK s \in Services : s = co[c].service
  BY <1>0
<1>1. /\ real' = real /\ bus' = bus /\ tasks' = tasks /\ matched' = matched
      /\ stopped' = stopped /\ missed' = missed
  BY DEF AddHandler, ReadActiveState, SetInitialState, RegisterHandler,
         AddHandlerRaises, InitialStateRaises, faults
<1>2. /\ co[c].phase # "idle" /\ s \in Services /\ handlers[s] = 0
      /\ \A d \in Coroutines : d # c => co[d].service # s /\ co'[d] = co[d]
  BY DEF AddHandler, ReadActiveState, SetInitialState, RegisterHandler,
         AddHandlerRaises, InitialStateRaises, Watched, Busy, OneWatcher, TypeOK
<1>3. \A t \in Services : t # s => state'[t] = state[t]
  <2>1. CASE state' = state
    BY <2>1
  <2>2. CASE SetInitialState(c) \/ InitialStateRaises(c)
    <3>1. co[c].active \in ActiveStates /\ SubState(real[s]) \in SubStates
      BY <2>2, <1>2, StatesTyped
         DEF SetInitialState, InitialStateRaises, Watched, Busy, TypeOK
    <3>2. TypeOK
      BY DEF Watched
    <3> QED BY <2>2, <3>1, <3>2, <1>2, RecordTyped DEF SetInitialState, InitialStateRaises
  <2> QED BY <2>1, <2>2 DEF AddHandler, ReadActiveState, RegisterHandler, AddHandlerRaises
<1>4. \A t \in Services : t # s /\ Agrees(t) => Agrees(t)'
  BY <1>1, <1>3, AgreesStays
<1>5. ASSUME NEW d \in Coroutines, d # c, co[d].service \notin missed
      PROVE  /\ co'[d].phase = "active" =>
                   co'[d].active = ActiveState(real[co'[d].service])
             /\ co'[d].phase = "set" => Shows(state'[co'[d].service], real[co'[d].service])
  <2>1. co'[d] = co[d] /\ co[d].service # s
    BY <1>2, <1>5
  <2>2. CASE co[d].phase \in {"active", "set"}
    <3>1. co[d].service \in Services
      BY <2>2 DEF Watched, Busy
    <3> QED BY <2>1, <3>1, <1>3, <1>5 DEF Tracked
  <2> QED BY <2>1, <2>2
<1>6. CASE ReadActiveState(c)
  <2>1. /\ co'[c].phase = "active" /\ co'[c].service = s
        /\ co'[c].active = ActiveState(real[s])
    BY <1>6 DEF ReadActiveState, Watched, TypeOK, Coroutine
  <2>2. handlers' = handlers
    BY <1>6 DEF ReadActiveState
  <2> QED BY <1>1, <1>2, <1>4, <1>5, <2>1, <2>2 DEF Tracked
<1>7. CASE SetInitialState(c)
  <2>1. /\ co'[c].phase = "set" /\ co'[c].service = s /\ handlers' = handlers
        /\ SetCurrentState(s, co[c].active, SubState(real[s])) /\ co[c].phase = "active"
    BY <1>7 DEF SetInitialState, Watched, TypeOK, Coroutine
  <2>2. s \notin missed => Shows(state'[s], real[s])
    <3> SUFFICES ASSUME s \notin missed PROVE Shows(state'[s], real[s])
      OBVIOUS
    <3>1. co[c].active = ActiveState(real[s])
      BY <2>1 DEF Tracked
    <3>2. CASE real[s] \in {"failed", "running"}
      <4>1. TypeOK
        BY DEF Watched
      <4> QED BY <4>1, <3>1, <3>2, <2>1, <1>2, RecordShows
    <3>3. CASE real[s] \notin {"failed", "running"}
      BY <3>3 DEF Shows
    <3> QED BY <3>2, <3>3
  <2> QED BY <1>1, <1>2, <1>4, <1>5, <2>1, <2>2 DEF Tracked
<1>8. CASE RegisterHandler(c)
  <2>1. /\ co'[c].phase = "idle" /\ co[c].phase = "set" /\ state' = state
        /\ \A t \in Services : t # s => handlers'[t] = handlers[t]
    BY <1>2, <1>8 DEF RegisterHandler, Watched, TypeOK, Idle
  <2>2. NoChange(bus, s) /\ NoChange(tasks, s)
    <3>1. s \notin matched
      BY <1>2 DEF Watched, OneWatcher
    <3> QED BY <3>1 DEF NoChange, Change, Watched, OnlyMatched
  <2>3. s \notin missed => Agrees(s)'
    BY <1>1, <2>1, <2>2 DEF Tracked, Agrees
  <2> QED BY <1>1, <1>2, <1>4, <1>5, <2>1, <2>3 DEF Tracked
<1>9. CASE AddHandlerRaises(c) \/ InitialStateRaises(c)
  <2>1. co'[c].phase = "idle" /\ handlers' = handlers
    BY <1>9 DEF AddHandlerRaises, InitialStateRaises, Watched, TypeOK, Idle
  <2> QED BY <1>1, <1>2, <1>4, <1>5, <2>1 DEF Tracked
<1> QED BY <1>6, <1>7, <1>8, <1>9 DEF AddHandler

(* A callback moves the last message of its service to the tasks, and what *)
(* it leaves out says neither failed nor active.                           *)
LEMMA TrackedCallback ==
    ASSUME Watched, Watched', Tracked, HandlePropertiesChanged
    PROVE  Tracked'
<1> DEFINE m == Head(bus)
<1>1. /\ real' = real /\ state' = state /\ co' = co /\ handlers' = handlers
      /\ stopped' = stopped /\ missed' = missed
  BY DEF HandlePropertiesChanged, faults
<1>2. /\ bus \in Seq(Message) /\ bus # <<>> /\ bus' = Tail(bus)
      /\ tasks \in Seq(Message) /\ m.kind = "PropertiesChanged"
  BY DEF HandlePropertiesChanged, Watched, TypeOK
<1>3. m \in Message /\ m = bus[1] /\ 1 \in 1..Len(bus)
  BY <1>2, HeadAndTail
<1>4. m.service \in Services /\ handlers[m.service] = 1
  BY <1>2, <1>3 DEF Message, Watched, OnlyMatched, OneWatcher
<1>5. ~stopped => tasks' = IF m.active \in {"failed", "active", "inactive"}
                           THEN Append(tasks, m) ELSE tasks
  <2>1. ~stopped => tasks' = IF m.active \in {"failed", "active", "inactive"}
                             THEN tasks \o [i \in 1..handlers[m.service] |-> m] ELSE tasks
    BY DEF HandlePropertiesChanged
  <2> HIDE DEF m
  <2>2. [i \in 1..1 |-> m] = <<m>>
    OBVIOUS
  <2>3. tasks \o <<m>> = Append(tasks, m)
    BY <1>2, <1>3
  <2> QED BY <2>1, <2>2, <2>3, <1>4
<1> HIDE DEF m
<1>6. ASSUME ~stopped, NEW s \in Services, Agrees(s), real[s] \in {"failed", "running"}
      PROVE  Agrees(s)'
  <2>1. CASE Change(m, s)
    <3>1. ~NoChange(bus, s)
      BY <2>1, <1>3 DEF NoChange
    <3>2. LastTells(bus, s, real[s])
      BY <3>1, <1>6 DEF Agrees
    <3>3. CASE LastTells(bus', s, real[s])
      BY <3>3, <1>1 DEF Agrees
    <3>4. CASE NoChange(bus', s) /\ Tells(m, real[s])
      <4>1. m.active \in {"failed", "active"}
        BY <3>4, <1>6 DEF Tells, ActiveState
      <4>2. tasks' = Append(tasks, m)
        BY <4>1, <1>5, <1>6
      <4>3. LastTells(tasks', s, real[s])
        BY <4>2, <2>1, <3>4, <1>2, <1>3, AppendTells
      <4> QED BY <3>4, <4>3, <1>1 DEF Agrees
    <3> QED BY <3>2, <3>3, <3>4, <1>2, TailTells DEF m
  <2>2. CASE ~Change(m, s)
    <3>1. /\ NoChange(bus, s) => NoChange(bus', s)
          /\ LastTells(bus, s, real[s]) => LastTells(bus', s, real[s])
      BY <2>2, <1>2, TailTells DEF m
    <3>2. /\ NoChange(tasks, s) => NoChange(tasks', s)
          /\ LastTells(tasks, s, real[s]) => LastTells(tasks', s, real[s])
      <4>1. CASE tasks' = tasks
        BY <4>1
      <4>2. CASE tasks' = Append(tasks, m)
        <5>1. /\ NoChange(tasks, s) => NoChange(Append(tasks, m), s)
              /\ \A u : LastTells(tasks, s, u) => LastTells(Append(tasks, m), s, u)
          BY <2>2, <1>2, <1>3, AppendOther
        <5> QED BY <4>2, <5>1
      <4> QED BY <4>1, <4>2, <1>5, <1>6
    <3> QED BY <3>1, <3>2, <1>1, <1>6 DEF Agrees
  <2> QED BY <2>1, <2>2
<1>7. ASSUME ~stopped, NEW s \in Services, Agrees(s) PROVE Agrees(s)'
  <2>1. CASE real[s] \notin {"failed", "running"}
    BY <2>1, <1>1 DEF Agrees
  <2> QED BY <2>1, <1>6, <1>7
<1> QED BY <1>1, <1>7 DEF Tracked

(* A task that was the last message of its service leaves it recorded. *)
LEMMA TrackedTask ==
    ASSUME Watched, Tracked, RunTask
    PROVE  Tracked'
<1> DEFINE m == Head(tasks)
<1>1. /\ real' = real /\ bus' = bus /\ co' = co /\ handlers' = handlers
      /\ stopped' = stopped /\ missed' = missed
  BY DEF RunTask
<1>2. tasks \in Seq(Message) /\ tasks # <<>> /\ tasks' = RemoveAt(tasks, 1)
  BY DEF RunTask, NextTask, Watched, TypeOK
<1>3. /\ m \in Message /\ m = tasks[1] /\ 1 \in 1..Len(tasks) /\ tasks' = Tail(tasks)
  BY <1>2, HeadAndTail, RemoveOldest
<1>4. /\ m.service \in Services /\ m.service \in matched /\ m.kind = "PropertiesChanged"
      /\ m.active \in ActiveStates /\ m.sub \in SubStates
  BY <1>3 DEF Message, Watched, OnlyMatched
<1>5. \/ SetCurrentState(m.service, m.active, m.sub)
      \/ SetCurrentStateRaises(m.service, m.active, m.sub)
  BY <1>3 DEF RunTask, NextTask
<1>6. TypeOK
  BY DEF Watched
<1> HIDE DEF m
<1>7. \A t \in Services : t # m.service => state'[t] = state[t]
  BY <1>4, <1>5, <1>6, RecordTyped
<1>8. ASSUME NEW s \in Services, Agrees(s), real[s] \in {"failed", "running"}
      PROVE  Agrees(s)'
  <2>1. CASE Change(m, s)
    <3>1. ~NoChange(tasks, s)
      BY <2>1, <1>3 DEF NoChange
    <3>2. CASE LastTells(bus, s, real[s])
      BY <3>2, <1>1 DEF Agrees
    <3>3. CASE NoChange(bus, s) /\ LastTells(tasks', s, real[s])
      BY <3>3, <1>1 DEF Agrees
    <3>4. CASE NoChange(bus, s) /\ NoChange(tasks', s) /\ Tells(m, real[s])
      <4>1. Shows(state'[s], real[s])
        BY <3>4, <2>1, <1>5, <1>6, <1>8, RecordShows DEF Tells, Change
      <4> QED BY <3>4, <4>1, <1>1 DEF Agrees
    <3>5. LastTells(tasks, s, real[s]) =>
             LastTells(tasks', s, real[s]) \/ (NoChange(tasks', s) /\ Tells(m, real[s]))
      BY <1>2, <1>3, TailTells DEF m
    <3> QED BY <3>1, <3>2, <3>3, <3>4, <3>5, <1>8 DEF Agrees
  <2>2. CASE ~Change(m, s)
    <3>1. /\ NoChange(tasks, s) => NoChange(tasks', s)
          /\ LastTells(tasks, s, real[s]) => LastTells(tasks', s, real[s])
      BY <2>2, <1>2, <1>3, TailTells DEF m
    <3>2. state'[s] = state[s]
      BY <2>2, <1>4, <1>7 DEF Change
    <3> QED BY <3>1, <3>2, <1>1, <1>8 DEF Agrees
  <2> QED BY <2>1, <2>2
<1>9. ASSUME NEW s \in Services, Agrees(s) PROVE Agrees(s)'
  <2>1. CASE real[s] \notin {"failed", "running"}
    BY <2>1, <1>1 DEF Agrees
  <2> QED BY <2>1, <1>8, <1>9
<1>10. ASSUME NEW c \in Coroutines, co[c].service \notin missed, co[c].phase = "set"
       PROVE  Shows(state'[co[c].service], real[co[c].service])
  <2>1. co[c].service \in Services /\ co[c].service # m.service
    BY <1>4, <1>10 DEF Watched, Busy, OneWatcher
  <2> QED BY <2>1, <1>7, <1>10 DEF Tracked
<1> QED BY <1>1, <1>9, <1>10 DEF Tracked

LEMMA TrackedNext == Watched /\ Watched' /\ Tracked /\ [Next]_vars => Tracked'
<1> SUFFICES ASSUME Watched, Watched', Tracked, [Next]_vars PROVE Tracked'
  OBVIOUS
<1>1. CASE UNCHANGED vars
  BY <1>1 DEF vars, agent, faults, Tracked, Agrees
<1>2. CASE Restart
  BY <1>2 DEF Restart, Tracked, Idle
<1>3. CASE Stop
  BY <1>3 DEF Stop, faults, Tracked
<1>4. CASE Next
  <2>1. Workers \subseteq Coroutines
    BY DEF Coroutines
  <2> QED BY <1>2, <1>3, <1>4, <2>1, TrackedSystemd, TrackedUnits, TrackedCoroutine,
             TrackedCallback, TrackedTask DEF Next, AddMonitorRaises, Crash
<1> QED BY <1>1, <1>4

LEMMA TrackedInvariant == Spec => [](Watched /\ Monitored /\ Reported /\ Tracked)
<1>1. Init => Reported /\ Tracked
  BY DEF Init, Reported, Failed, Tracked, Idle
<1> QED BY <1>1, TrackedNext, ReportedNext, WatchedInvariant, MonitoredInvariant, PTL
        DEF Spec

(* Nothing that could be said of a settled service is under way. *)
LEMMA SettledShows ==
    ASSUME Watched, Monitored, Reported, Tracked, NEW s \in Services, Settled(s),
           real[s] \in {"failed", "running"}
    PROVE  Shows(state[s], real[s]) /\ report = Failed(state)
<1>1. /\ NoChange(bus, s) /\ NoChange(tasks, s) /\ ~Announced(s)
      /\ s \notin todo /\ s \notin missed \cup given_up /\ ~stopped /\ ~unread
      /\ \A c \in Coroutines : co[c].service # s
  BY DEF Settled, Quiet, NoChange, Change, Announced
<1>2. handlers[s] = 1
  BY <1>1 DEF Monitored
<1>3. Agrees(s)
  BY <1>1, <1>2 DEF Tracked
<1>4. \A u : ~LastTells(bus, s, u) /\ ~LastTells(tasks, s, u)
  BY <1>1 DEF NoChange, LastTells
<1> QED BY <1>1, <1>3, <1>4 DEF Agrees, Reported

(* A service that failed is in the report once everything the bus sent was *)
(* handled, but for the faults the module does not make up for.            *)
THEOREM FailuresReported == Spec => []FailureReported
<1>1. ASSUME Watched, Monitored, Reported, Tracked PROVE FailureReported
  <2> SUFFICES ASSUME NEW s \in Services, Settled(s), real[s] = "failed" PROVE s \in report
    BY DEF FailureReported
  <2> QED BY <1>1, SettledShows DEF Shows, Failed
<1> QED BY <1>1, TrackedInvariant, PTL

(* And one that runs is not. *)
THEOREM RecoveriesReported == Spec => []RecoveryReported
<1>1. ASSUME Watched, Monitored, Reported, Tracked PROVE RecoveryReported
  <2> SUFFICES ASSUME NEW s \in Services, Settled(s), real[s] = "running"
               PROVE  s \notin report
    BY DEF RecoveryReported
  <2> QED BY <1>1, SettledShows DEF Shows, Failed
<1> QED BY <1>1, TrackedInvariant, PTL
=============================================================================
