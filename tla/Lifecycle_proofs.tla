---------------------------- MODULE Lifecycle_proofs ----------------------------
(***************************************************************************)
(* Proofs about Lifecycle, for any handlers, loops, pool and faults: who   *)
(* holds the mutex of the statement cache, and under whom main closes it.  *)
(***************************************************************************)
EXTENDS Lifecycle, TLAPS

Busy == {"prepare", "preparing", "exec", "conn", "running"}

(* A goroutine at work is at one of its three statements. *)
Working == \A g \in Routines : pc[g] \in Busy => step[g] \in 1..3

(* ClosedUnderNobody from the moment the requests were waited for. *)
WaitedFor ==
  main \in {"stopping", "closing", "closingStmts", "closingDb"} /\ ~timedOut
    => \A h \in Handlers : pc[h] = "idle"

IInv == TypeOK /\ Working /\ WaitedFor

-----------------------------------------------------------------------------
LEMMA StmtType ==
  ASSUME NEW g \in Routines, step[g] \in 1..3
  PROVE  Stmt(g) \in Statements
<1>1. step[g] = 1 \/ step[g] = 2 \/ step[g] = 3
  OBVIOUS
<1> QED BY <1>1 DEF Stmt, Program, Statements

LEMMA RestType ==
  ASSUME NEW g
  PROVE  Rest(g) \in {"idle", "wait"} /\ (g \in Handlers => Rest(g) = "idle")
BY DEF Rest

LEMMA InitInv == Init => IInv
<1> SUFFICES ASSUME Init PROVE IInv
  OBVIOUS
<1>1. \A g \in Routines : pc[g] \in {"idle", "top"} /\ step[g] = 0 /\ mu # g
  BY LifecycleAssumption DEF Init
<1>2. pc \in [Routines -> {"idle", "top"}] /\ step \in [Routines -> {0}] /\ mu # Main
  BY LifecycleAssumption DEF Init
<1>3. TypeOK
  <2>1. \A g \in Routines : mu = g <=> pc[g] = "preparing"
    BY <1>1
  <2>2. mu \in Routines \cup {Main, Nobody} /\ (mu = Main <=> main = "closingStmts")
    BY <1>2 DEF Init
  <2>3. /\ pc \in [Routines -> {"idle", "top", "wait", "gone", "prepare", "preparing",
                               "exec", "conn", "running"}]
        /\ step \in [Routines -> 0..3]
    BY <1>2
  <2> QED BY <2>1, <2>2, <2>3 DEF Init, TypeOK
<1> QED BY <1>1, <1>3 DEF Init, IInv, Working, WaitedFor, Busy

-----------------------------------------------------------------------------
(* A goroutine goes to a label without the mutex. *)
LEMMA Moves ==
  ASSUME IInv, NEW g \in Routines, NEW l \in {"idle", "wait", "top", "gone", "prepare", "exec",
                                              "conn", "running"},
         NEW n \in 0..3, l \in Busy => n \in 1..3,
         pc[g] # "idle" \/ main = "serving",
         Enter(g, n, l), pc[g] = "preparing" => mu' = Nobody, pc[g] # "preparing" => mu' = mu,
         cached' \subseteq Statements, UNCHANGED <<mainVars, open>>
  PROVE  IInv'
<1>1. /\ pc' \in [Routines -> {"idle", "top", "wait", "gone", "prepare", "preparing",
                               "exec", "conn", "running"}]
      /\ step' \in [Routines -> 0..3]
  BY DEF IInv, TypeOK, Enter, Goto
<1>2. \A q \in Routines : pc'[q] = (IF q = g THEN l ELSE pc[q]) /\ step'[q] = (IF q = g THEN n ELSE step[q])
  BY DEF IInv, TypeOK, Enter, Goto
<1>3. Working'
  BY <1>2 DEF IInv, Working
<1>4. mu' \in Routines \cup {Main, Nobody} /\ (mu' = Main <=> main' = "closingStmts")
  <2>1. CASE pc[g] = "preparing" /\ main # "exited"
    BY <2>1, LifecycleAssumption DEF IInv, TypeOK, mainVars
  <2>2. CASE pc[g] = "preparing" /\ main = "exited"
    BY <2>2, LifecycleAssumption DEF IInv, TypeOK, mainVars
  <2>3. CASE pc[g] # "preparing"
    BY <2>3 DEF IInv, TypeOK, mainVars
  <2> QED BY <2>1, <2>2, <2>3
<1>5. main' # "exited" => \A q \in Routines : mu' = q <=> pc'[q] = "preparing"
  BY <1>2, LifecycleAssumption DEF IInv, TypeOK, mainVars
<1>6. WaitedFor'
  <2>1. pc[g] # "idle" /\ g \in Handlers /\ ~timedOut
          => main \notin {"stopping", "closing", "closingStmts", "closingDb"}
    BY DEF IInv, WaitedFor
  <2>2. main = "serving" => main \notin {"stopping", "closing", "closingStmts", "closingDb"}
    OBVIOUS
  <2>3. Handlers \subseteq Routines
    BY DEF Routines
  <2> QED BY <1>2, <2>1, <2>2, <2>3 DEF IInv, WaitedFor, mainVars
<1>7. main' \in {"serving", "draining", "stopping", "closing", "closingStmts", "closingDb", "exited"}
      /\ stopped' \in BOOLEAN /\ timedOut' \in BOOLEAN /\ open' \in BOOLEAN
  BY DEF IInv, TypeOK, mainVars
<1> QED BY <1>1, <1>3, <1>4, <1>5, <1>6, <1>7 DEF IInv, TypeOK

LEMMA AcceptInv == ASSUME IInv, NEW h \in Handlers, Accept(h) PROVE IInv'
<1>1. h \in Routines /\ pc[h] = "idle" /\ main = "serving" /\ Enter(h, 1, "prepare")
      /\ UNCHANGED <<mainVars, open, cached, mu>>
  BY DEF Accept, dbVars, Routines
<1>2. cached' \subseteq Statements /\ 1 \in 0..3 /\ 1 \in 1..3
  BY <1>1 DEF IInv, TypeOK
<1> QED BY <1>1, <1>2, Moves

LEMMA ReturnInv ==
  ASSUME IInv, NEW g \in Routines, pc[g] # "idle", Return(g),
         pc[g] = "preparing" => mu' = Nobody, pc[g] # "preparing" => mu' = mu,
         UNCHANGED <<mainVars, open, cached>>
  PROVE  IInv'
<1>1. Rest(g) \in {"idle", "wait"} /\ Rest(g) \notin Busy
  BY RestType DEF Busy
<1>2. Enter(g, 0, Rest(g)) /\ 0 \in 0..3
  BY DEF Return
<1>3. cached' \subseteq Statements
  BY DEF IInv, TypeOK
<1> QED BY <1>1, <1>2, <1>3, Moves

(* A goroutine's step without the mutex, to a label and not to another step.  *)
LEMMA GoesOn ==
  ASSUME IInv, NEW g \in Routines, pc[g] \notin {"idle", "preparing"},
         NEW l \in {"top", "gone", "exec", "conn", "running"}, Goto(g, l),
         l \in Busy => pc[g] \in Busy,
         UNCHANGED <<mainVars, open, cached, mu, step>>
  PROVE  IInv'
<1>1. step[g] \in 0..3 /\ (l \in Busy => step[g] \in 1..3)
  BY DEF IInv, TypeOK, Working
<1>2. Enter(g, step[g], l)
  BY DEF IInv, TypeOK, Enter
<1>3. cached' \subseteq Statements
  BY DEF IInv, TypeOK
<1> QED BY <1>1, <1>2, <1>3, Moves

LEMMA LoopInv == ASSUME IInv, NEW g \in Loops, Top(g) \/ Wait(g) PROVE IInv'
<1>1. g \in Routines
  BY DEF Routines
<1>2. CASE Top(g) /\ stopped
  BY <1>1, <1>2, GoesOn DEF Top, dbVars, Busy
<1>3. CASE Top(g) /\ ~stopped
  <2>1. pc[g] = "top" /\ Enter(g, 1, "prepare") /\ UNCHANGED <<mainVars, open, cached, mu>>
    BY <1>3 DEF Top, dbVars
  <2>2. cached' \subseteq Statements /\ 1 \in 0..3 /\ 1 \in 1..3
    BY <2>1 DEF IInv, TypeOK
  <2> QED BY <1>1, <2>1, <2>2, Moves
<1>4. CASE Wait(g)
  BY <1>1, <1>4, GoesOn DEF Wait, dbVars, Busy
<1> QED BY <1>2, <1>3, <1>4

(* The mutex is taken by one who finds it free. *)
LEMMA PrepareInv == ASSUME IInv, NEW g \in Routines, Prepare(g) PROVE IInv'
<1>1. CASE Stmt(g) \in cached
  BY <1>1, GoesOn DEF Prepare, Busy
<1>2. CASE Stmt(g) \notin cached
  <2>1. /\ pc[g] = "prepare" /\ mu = Nobody /\ mu' = g /\ pc' = [pc EXCEPT ![g] = "preparing"]
        /\ UNCHANGED <<mainVars, open, cached, leaked, step, faults>>
    BY <1>2 DEF Prepare, Goto
  <2>2. pc' \in [Routines -> {"idle", "top", "wait", "gone", "prepare", "preparing",
                              "exec", "conn", "running"}]
    BY <2>1 DEF IInv, TypeOK
  <2>3. \A q \in Routines : pc'[q] = IF q = g THEN "preparing" ELSE pc[q]
    BY <2>1 DEF IInv, TypeOK
  <2>4. mu' \in Routines \cup {Main, Nobody} /\ (mu' = Main <=> main' = "closingStmts")
    BY <2>1, LifecycleAssumption DEF IInv, TypeOK, mainVars
  <2>5. main' # "exited" => \A q \in Routines : mu' = q <=> pc'[q] = "preparing"
    BY <2>1, <2>3, LifecycleAssumption DEF IInv, TypeOK, mainVars
  <2>6. Working'
    BY <2>1, <2>3 DEF IInv, Working, Busy
  <2>7. WaitedFor'
    <3>1. Handlers \subseteq Routines
      BY DEF Routines
    <3> QED BY <2>1, <2>3, <3>1 DEF IInv, WaitedFor, mainVars
  <2> QED BY <2>1, <2>2, <2>4, <2>5, <2>6, <2>7 DEF IInv, TypeOK, mainVars
<1> QED BY <1>1, <1>2

LEMMA PreparedInv == ASSUME IInv, NEW g \in Routines, Prepared(g) PROVE IInv'
<1>1. step[g] \in 1..3 /\ step[g] \in 0..3 /\ Enter(g, step[g], "exec")
  BY DEF Prepared, IInv, TypeOK, Working, Busy, Enter
<1>2. cached' \subseteq Statements
  BY <1>1, StmtType DEF Prepared, IInv, TypeOK
<1> QED BY <1>1, <1>2, Moves DEF Prepared

LEMMA RunInv == ASSUME IInv, NEW g \in Routines, Run(g) PROVE IInv'
<1>1. CASE Prepare(g)
  BY <1>1, PrepareInv
<1>2. CASE Prepared(g)
  BY <1>2, PreparedInv
<1>3. CASE PrepareFails(g)
  BY <1>3, ReturnInv DEF PrepareFails
<1>4. CASE Call(g)
  <2>1. CASE Goto(g, "conn") /\ UNCHANGED step
    BY <1>4, <2>1, GoesOn DEF Call, dbVars, Busy
  <2>2. CASE Return(g)
    BY <1>4, <2>2, ReturnInv DEF Call, dbVars
  <2> QED BY <1>4, <2>1, <2>2 DEF Call
<1>5. CASE Connect(g)
  BY <1>5, GoesOn DEF Connect, dbVars, Busy
<1>6. CASE Answer(g)
  <2>1. CASE Return(g)
    BY <1>6, <2>1, ReturnInv DEF Answer, dbVars
  <2>2. CASE step[g] < Len(Program(g)) /\ Enter(g, step[g] + 1, "prepare")
    <3>1. step[g] \in 1..3 /\ Len(Program(g)) = 3
      BY <1>6 DEF Answer, IInv, Working, Busy, Program
    <3>2. step[g] + 1 \in 1..3 /\ step[g] + 1 \in 0..3
      BY <2>2, <3>1
    <3> DEFINE n == step[g] + 1
    <3>3. pc[g] = "running" /\ Enter(g, n, "prepare") /\ UNCHANGED <<mainVars, dbVars, faults>>
      BY <1>6, <2>2 DEF Answer
    <3>4. n \in 0..3 /\ n \in 1..3
      BY <3>2
    <3> HIDE DEF n
    <3>5. cached' \subseteq Statements /\ UNCHANGED <<open, cached, mu>>
      BY <3>3 DEF dbVars, IInv, TypeOK
    <3> QED BY <3>3, <3>4, <3>5, Moves
  <2> QED BY <1>6, <2>1, <2>2 DEF Answer
<1>7. CASE CallFails(g)
  BY <1>7, ReturnInv DEF CallFails, dbVars
<1> QED BY <1>1, <1>2, <1>3, <1>4, <1>5, <1>6, <1>7 DEF Run

LEMMA AbandonInv == ASSUME IInv, NEW h \in Handlers, Abandon(h) PROVE IInv'
BY ReturnInv DEF Abandon, Routines

-----------------------------------------------------------------------------
(* main *)

LEMMA MainInv == ASSUME IInv, Signal \/ TakeDown PROVE IInv'
<1>1. CASE Signal
  BY <1>1 DEF Signal, IInv, TypeOK, Working, WaitedFor, dbVars
<1>2. CASE Drained
  BY <1>2 DEF Drained, IInv, TypeOK, Working, WaitedFor, dbVars
<1>3. CASE Stop
  BY <1>3 DEF Stop, IInv, TypeOK, Working, WaitedFor, dbVars
<1>4. CASE CloseStmts
  BY <1>4, LifecycleAssumption DEF CloseStmts, IInv, TypeOK, Working, WaitedFor
<1>5. CASE \E s \in Statements : CloseStmt(s)
  BY <1>5 DEF CloseStmt, IInv, TypeOK, Working, WaitedFor, mainVars
<1>6. CASE StmtsClosed
  BY <1>6, LifecycleAssumption DEF StmtsClosed, IInv, TypeOK, Working, WaitedFor
<1>7. CASE CloseDb
  BY <1>7 DEF CloseDb, IInv, TypeOK, Working, WaitedFor, mainVars
<1>8. CASE Exit
  BY <1>8 DEF Exit, IInv, TypeOK, Working, WaitedFor, dbVars, Busy
<1> QED BY <1>1, <1>2, <1>3, <1>4, <1>5, <1>6, <1>7, <1>8 DEF TakeDown

LEMMA StepInv == IInv /\ [Next]_vars => IInv'
<1> SUFFICES ASSUME IInv, [Next]_vars PROVE IInv'
  OBVIOUS
<1>1. CASE UNCHANGED vars
  BY <1>1 DEF vars, mainVars, dbVars, IInv, TypeOK, Working, WaitedFor
<1>2. CASE Next
  BY <1>2, AcceptInv, AbandonInv, LoopInv, RunInv, MainInv DEF Next
<1> QED BY <1>1, <1>2

THEOREM Inductive == Spec => []IInv
BY InitInv, StepInv, PTL DEF Spec

(* Every variable keeps its type, and the mutex of the statement cache        *)
(* (prepareStmt, closeStmt) is held by the one goroutine that is preparing a  *)
(* statement, or by main while it closes them, through failures and the end.  *)
THEOREM TypeCorrect == Spec => []TypeOK
<1>1. IInv => TypeOK
  BY DEF IInv
<1> QED BY <1>1, Inductive, PTL

(* main.go: whatever pool and however many requests there are, a request      *)
(* finds its statements or the database closed only after the 30 s.           *)
THEOREM ClosedAfterRequests == Spec => []ClosedUnderNobody
<1>1. IInv => ClosedUnderNobody
  BY DEF IInv, WaitedFor, ClosedUnderNobody
<1> QED BY <1>1, Inductive, PTL
=============================================================================
