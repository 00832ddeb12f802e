--------------------------- MODULE NodeDrainProofs --------------------------
(***************************************************************************)
(* What the script does to a node, for any modules, checks and numbers of  *)
(* restarts.  An answer counts an error of every fault that is known and   *)
(* the agent's to tell, because no process serves before its first checks  *)
(* have run (Told); and a script that has read the node while the          *)
(* operator's drain stood will not touch it (Standing).                    *)
(***************************************************************************)
EXTENDS NodeDrain, TLAPS

(* A check that this process has run reports what is known and still there. *)
Reported ==
    \A c \in known : ModuleOf[c] \in loaded /\ c \notin due /\ c \notin blind => c \in errors

Served == agent = "up" => due = {}

(* What the script was told agrees with what was known then. *)
Told == stood = "some" => script.errors

Standing ==
    held /\ ~overtaken =>
        /\ node = "other"
        /\ script.at = "read" => script.state = "other"

IInv == TypeOK /\ Reported /\ Served /\ Told /\ Standing

LEMMA InitIInv == Init => IInv
<1> SUFFICES ASSUME Init PROVE IInv
    OBVIOUS
<1>1. troubles \in 0..MaxTroubles
    BY DrainAssumption DEF Init
<1>2. script \in [at : {"idle", "answered", "read"}, errors : BOOLEAN,
                  state : {"ok", "health", "other", "unknown"}]
    BY DEF Init, Idle
<1>3. TypeOK
    BY <1>1, <1>2, Zenon DEF Init, TypeOK
<1> QED
    BY <1>3 DEF Init, IInv, Reported, Served, Told, Standing

(* The node's own steps and the agent's leave Told and Standing alone. *)
LEMMA AgentStep ==
    ASSUME IInv, UNCHANGED <<script, slurmVars, stood>>,
           \/ \E c \in Background : Breaks(c) \/ Recovers(c) \/ Check(c) \/ CheckRaises(c)
           \/ \E c \in Checks \ Background : ActiveCheck(c)
           \/ Start \/ Serve \/ Dies \/ Hangs \/ Unblocks \/ Watchdog
    PROVE  IInv'
<1>1. Told' /\ Standing'
    BY DEF IInv, Told, Standing, slurmVars
<1>2. ASSUME NEW c \in Background, Breaks(c) PROVE TypeOK' /\ Reported' /\ Served'
    BY <1>2 DEF Breaks, IInv, TypeOK, Reported, Served, agentVars, slurmVars
<1>3. ASSUME NEW c \in Background, Recovers(c) PROVE TypeOK' /\ Reported' /\ Served'
    BY <1>3 DEF Recovers, IInv, TypeOK, Reported, Served, agentVars, slurmVars
<1>4. ASSUME NEW c \in Background, Check(c) PROVE TypeOK' /\ Reported' /\ Served'
    BY <1>4, DrainAssumption DEF Check, IInv, TypeOK, Reported, Served, slurmVars
<1>5. ASSUME NEW c \in Background, CheckRaises(c) PROVE TypeOK' /\ Reported' /\ Served'
    BY <1>5 DEF CheckRaises, IInv, TypeOK, Reported, Served, slurmVars
<1>6. ASSUME NEW c \in Checks \ Background, ActiveCheck(c) PROVE TypeOK' /\ Reported' /\ Served'
    BY <1>6 DEF ActiveCheck, IInv, TypeOK, Reported, Served, slurmVars
<1>7. CASE Start
    BY <1>1, <1>7 DEF Start, IInv, TypeOK, Reported, Served, slurmVars
<1>8. CASE Serve
    BY <1>1, <1>8 DEF Serve, ServeAtOnce, IInv, TypeOK, Reported, Served, slurmVars
<1>9. CASE Dies
    BY <1>1, <1>9, DrainAssumption DEF Dies, IInv, TypeOK, Reported, Served, slurmVars
<1>10. CASE Hangs
    BY <1>1, <1>10, DrainAssumption DEF Hangs, IInv, TypeOK, Reported, Served, slurmVars
<1>11. CASE Unblocks
    BY <1>1, <1>11 DEF Unblocks, IInv, TypeOK, Reported, Served, slurmVars
<1>12. CASE Watchdog
    BY <1>1, <1>12 DEF Watchdog, IInv, TypeOK, Reported, Served, slurmVars
<1> QED
    BY <1>1, <1>2, <1>3, <1>4, <1>5, <1>6, <1>7, <1>8, <1>9, <1>10, <1>11, <1>12 DEF IInv

(* What the answer counts is what the checks reported. *)
LEMMA AskStep ==
    ASSUME IInv, Ask
    PROVE  IInv'
<1>1. TypeOK' /\ Reported' /\ Served' /\ Standing'
    BY DEF Ask, Stood, Idle, IInv, TypeOK, Reported, Served, Standing, notScript, agentVars,
           slurmVars
<1>2. ASSUME stood' = "some" PROVE script'.errors
    <2>1. PICK c \in known : ModuleOf[c] \in loaded /\ c \notin blind /\ Network \in loaded
        BY <1>2 DEF Ask, Stood
    <2>2. c \in Counted
        BY <2>1 DEF Ask, IInv, Reported, Served, Counted
    <2> QED
        BY <2>2 DEF Ask, Idle
<1> QED
    BY <1>1, <1>2 DEF IInv, Told

LEMMA ScriptStep ==
    ASSUME IInv, ReadNode \/ SinfoFails \/ Drain \/ Resume \/ NoAction
    PROVE  IInv'
<1>1. Reported' /\ Served'
    BY DEF ReadNode, SinfoFails, Drain, Resume, NoAction, ScriptEnds, notScript, agentVars,
           IInv, Reported, Served
<1>2. CASE ReadNode
    BY <1>1, <1>2 DEF ReadNode, IInv, TypeOK, Told, Standing, notScript, agentVars, slurmVars
<1>3. CASE SinfoFails
    BY <1>1, <1>3 DEF SinfoFails, IInv, TypeOK, Told, Standing, notScript, agentVars
<1>4. CASE Drain
    BY <1>1, <1>4 DEF Drain, ScriptEnds, Idle, IInv, TypeOK, Told, Standing, notScript, agentVars
<1>5. CASE Resume
    BY <1>1, <1>5 DEF Resume, ScriptEnds, Idle, IInv, TypeOK, Told, Standing, notScript, agentVars
<1>6. CASE NoAction
    BY <1>1, <1>6 DEF NoAction, ScriptEnds, Idle, IInv, TypeOK, Told, Standing, notScript, agentVars
<1> QED
    BY <1>2, <1>3, <1>4, <1>5, <1>6

LEMMA OperatorStep ==
    ASSUME IInv, OperatorDrains \/ OperatorResumes
    PROVE  IInv'
<1>1. Reported' /\ Served' /\ Told'
    BY DEF OperatorDrains, OperatorResumes, IInv, Reported, Served, Told, notScript, agentVars
<1>2. overtaken' \in BOOLEAN
    BY Zenon DEF OperatorDrains, OperatorResumes
<1>3. TypeOK'
    BY <1>2 DEF OperatorDrains, OperatorResumes, IInv, TypeOK, notScript, agentVars
<1>4. Standing'
    BY DEF OperatorDrains, OperatorResumes, Standing
<1> QED
    BY <1>1, <1>3, <1>4 DEF IInv

LEMMA NextIInv == IInv /\ [Next]_vars => IInv'
<1> SUFFICES ASSUME IInv, [Next]_vars PROVE IInv'
    OBVIOUS
<1>1. CASE UNCHANGED vars
    BY <1>1 DEF vars, agentVars, slurmVars, IInv, TypeOK, Reported, Served, Told, Standing
<1>2. CASE \/ \E c \in Background : Breaks(c) \/ Recovers(c) \/ Check(c) \/ CheckRaises(c)
           \/ \E c \in Checks \ Background : ActiveCheck(c)
           \/ Start \/ Serve \/ Dies \/ Hangs \/ Unblocks \/ Watchdog
    <2>1. UNCHANGED <<script, slurmVars, stood>>
        BY <1>2 DEF Breaks, Recovers, Check, CheckRaises, ActiveCheck, Start, Serve,
                    ServeAtOnce, Dies, Hangs, Unblocks, Watchdog
    <2> QED
        BY <1>2, <2>1, AgentStep
<1> QED
    BY <1>1, <1>2, AskStep, ScriptStep, OperatorStep DEF Next

LEMMA SpecIInv == Spec => []IInv
BY InitIInv, NextIInv, PTL DEF Spec

-----------------------------------------------------------------------------
(* Every variable keeps its type. *)
THEOREM TypeCorrect == Spec => []TypeOK
<1>1. IInv => TypeOK
    BY DEF IInv
<1> QED
    BY <1>1, SpecIInv, PTL

(* Whatever the agent does, an operator's drain and its reason stay, but   *)
(* for a script that had read the node before or could not.                *)
THEOREM OperatorsDrainKept == Spec => []OperatorsDrainStands
<1>1. IInv => OperatorsDrainStands
    BY DEF IInv, Standing, OperatorsDrainStands
<1> QED
    BY <1>1, SpecIInv, PTL

(* However often the agent starts again, the script resumes no node with a *)
(* known error that was the agent's to tell.                               *)
THEOREM BrokenStaysDrained == Spec => NotResumedWhileBroken
<1>1. ASSUME IInv, [Next]_vars
      PROVE  [ScriptResumes => stood # "some"]_vars
    <2> SUFFICES ASSUME Next, ScriptResumes PROVE stood # "some"
        BY <1>1
    <2> USE DEF ScriptResumes
    <2>1. Resume
        BY <1>1 DEF Next, Breaks, Recovers, Check, CheckRaises, ActiveCheck, Start, Serve,
                    ServeAtOnce, Dies, Hangs, Unblocks, Watchdog, Ask, ReadNode, SinfoFails,
                    Drain, NoAction, OperatorDrains, OperatorResumes, slurmVars
    <2> QED
        BY <1>1, <2>1 DEF Resume, IInv, Told
<1> QED
    BY <1>1, SpecIInv, PTL DEF Spec, NotResumedWhileBroken
=============================================================================
