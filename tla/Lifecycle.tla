------------------------------- MODULE Lifecycle -------------------------------
(***************************************************************************)
(* The process from serving to its end: the HTTP handlers and the polling  *)
(* loops share one pool of MySQL connections and one cache of prepared     *)
(* statements under a mutex, and main takes them all down on a signal.     *)
(*                                                                         *)
(* A request finds its order ("find") and, while the rows of that query    *)
(* are still open, its products ("lines"); then it writes ("store").  A    *)
(* round of a loop reads its rows to the end ("fetch"), which gives the    *)
(* connection back, before it goes on with the same statements.            *)
(***************************************************************************)
EXTENDS Integers, Sequences, FiniteSets

CONSTANTS
  Handlers,     \* goroutines serving requests
  Loops,        \* the order loop and the customer loop
  Main,         \* the main goroutine
  Nobody,       \* the holder of a free mutex
  MaxConns,     \* connections in the pool (SetMaxOpenConns)
  MaxLeaks,     \* transactions that may be abandoned: the orders that can be (bounds the model)
  MaxFaults     \* statements that fail (bounds the model)

Routines == Handlers \cup Loops

ASSUME LifecycleAssumption ==
  /\ Handlers \cap Loops = {} /\ Main \notin Routines /\ Nobody \notin Routines \cup {Main}
  /\ MaxConns \in Nat \ {0} /\ MaxLeaks \in Nat /\ MaxFaults \in Nat

VARIABLES
  main,         \* where main is
  stopped,      \* stopCh is closed
  timedOut,     \* Shutdown gave up waiting for the requests
  open,         \* the database is
  cached,       \* statements in MySql.statements
  mu,           \* who holds MySql.mu
  pc, step,     \* each goroutine: where it is, and at which of its statements
  leaked,       \* connections kept by abandoned transactions
  faults        \* statements that failed

dbVars == <<open, cached, mu, leaked>>
mainVars == <<main, stopped, timedOut>>
vars == <<mainVars, dbVars, pc, step, faults>>

-----------------------------------------------------------------------------
Program(g) == <<IF g \in Handlers THEN "find" ELSE "fetch", "lines", "store">>
Statements == {"find", "fetch", "lines", "store"}
Stmt(g) == Program(g)[step[g]]

Goto(g, l) == pc' = [pc EXCEPT ![g] = l]
Enter(g, n, l) == Goto(g, l) /\ step' = [step EXCEPT ![g] = n]

(* A request is answered; a loop goes on to wait for its ticker. *)
Rest(g) == IF g \in Handlers THEN "idle" ELSE "wait"
Return(g) == Enter(g, 0, Rest(g))

(* Mutant: the loops too keep the rows of their first query open. *)
RowsOpenInLoops(g) == step[g] = 2

(* OrderSearchId and OrderSearchByZohoId read one row and return later. *)
RowsOpen(g) == g \in Handlers /\ step[g] = 2

InUse == leaked + Cardinality({g \in Routines : RowsOpen(g)})
                + Cardinality({g \in Routines : pc[g] = "running"})
FreeConn == InUse < MaxConns

Fault == faults < MaxFaults /\ faults' = faults + 1

-----------------------------------------------------------------------------
Init ==
  /\ main = "serving" /\ stopped = FALSE /\ timedOut = FALSE
  /\ open = TRUE /\ cached = {} /\ mu = Nobody /\ leaked = 0
  /\ pc = [g \in Routines |-> IF g \in Handlers THEN "idle" ELSE "top"]
  /\ step = [g \in Routines |-> 0]
  /\ faults = 0

(* The server accepts a request. *)
Accept(h) ==
  /\ main = "serving" /\ pc[h] = "idle"
  /\ Enter(h, 1, "prepare")
  /\ UNCHANGED <<mainVars, dbVars, faults>>

(* The two selects of a loop: before a round only stopCh counts, after it     *)
(* one of stopCh and the ticker, in whichever order if both are ready.        *)
Top(g) ==
  /\ pc[g] = "top"
  /\ IF stopped THEN Goto(g, "gone") /\ UNCHANGED step ELSE Enter(g, 1, "prepare")
  /\ UNCHANGED <<mainVars, dbVars, faults>>

Wait(g) ==
  /\ pc[g] = "wait"
  /\ Goto(g, "top") \/ (stopped /\ Goto(g, "gone"))
  /\ UNCHANGED <<mainVars, dbVars, step, faults>>

-----------------------------------------------------------------------------
(* One statement *)

(* prepareStmt, under the mutex: the statement is cached, or is prepared. *)
Prepare(g) ==
  /\ pc[g] = "prepare" /\ mu = Nobody
  /\ IF Stmt(g) \in cached
       THEN Goto(g, "exec") /\ UNCHANGED mu
       ELSE Goto(g, "preparing") /\ mu' = g
  /\ UNCHANGED <<mainVars, open, cached, leaked, step, faults>>

(* db.Prepare waits for a connection with the mutex held. *)
Prepared(g) ==
  /\ pc[g] = "preparing" /\ open /\ FreeConn
  /\ cached' = cached \cup {Stmt(g)} /\ mu' = Nobody
  /\ Goto(g, "exec")
  /\ UNCHANGED <<mainVars, open, leaked, step, faults>>

(* Mutant: the mutex is not released when the statement cannot be prepared. *)
PrepareFailsLocked(g) ==
  /\ pc[g] = "preparing"
  /\ (open /\ Fault) \/ (~open /\ UNCHANGED faults)
  /\ Return(g)
  /\ UNCHANGED <<mainVars, dbVars>>

PrepareFails(g) ==
  /\ pc[g] = "preparing"
  /\ (open /\ Fault) \/ (~open /\ UNCHANGED faults)
  /\ mu' = Nobody
  /\ Return(g)
  /\ UNCHANGED <<mainVars, open, cached, leaked>>

(* The statement is called, unless it has been closed meanwhile, and waits    *)
(* for a connection.                                                          *)
Call(g) ==
  /\ pc[g] = "exec"
  /\ IF Stmt(g) \in cached THEN Goto(g, "conn") /\ UNCHANGED step ELSE Return(g)
  /\ UNCHANGED <<mainVars, dbVars, faults>>

Connect(g) ==
  /\ pc[g] = "conn" /\ open /\ FreeConn
  /\ Goto(g, "running")
  /\ UNCHANGED <<mainVars, dbVars, step, faults>>

(* The statement has an answer; the next one follows. *)
Answer(g) ==
  /\ pc[g] = "running"
  /\ IF step[g] < Len(Program(g)) THEN Enter(g, step[g] + 1, "prepare") ELSE Return(g)
  /\ UNCHANGED <<mainVars, dbVars, faults>>

(* UpdateOrderWithTransaction returns without ending its transaction. *)
Abandon(h) ==
  /\ pc[h] = "running" /\ Stmt(h) = "store" /\ leaked < MaxLeaks
  /\ leaked' = leaked + 1
  /\ Return(h)
  /\ UNCHANGED <<mainVars, open, cached, mu, faults>>

(* The statement fails, or the database is closed. *)
CallFails(g) ==
  /\ \/ pc[g] = "running" /\ Fault
     \/ pc[g] \in {"conn", "running"} /\ ~open /\ UNCHANGED faults
  /\ Return(g)
  /\ UNCHANGED <<mainVars, dbVars>>

Run(g) ==
  \/ Prepare(g) \/ Prepared(g) \/ PrepareFails(g)
  \/ Call(g) \/ Connect(g) \/ Answer(g) \/ CallFails(g)

-----------------------------------------------------------------------------
(* main *)

Signal ==
  /\ main = "serving" /\ main' = "draining"
  /\ UNCHANGED <<stopped, timedOut, dbVars, pc, step, faults>>

(* Mutant: the requests are not waited for. *)
DrainedAtOnce ==
  /\ main = "draining" /\ main' = "stopping"
  /\ UNCHANGED <<stopped, timedOut, dbVars, pc, step, faults>>

(* server.Shutdown: no request is left, or 30 s are over. *)
Drained ==
  /\ main = "draining" /\ main' = "stopping"
  /\ IF \A h \in Handlers : pc[h] = "idle" THEN UNCHANGED timedOut ELSE timedOut' = TRUE
  /\ UNCHANGED <<stopped, dbVars, pc, step, faults>>

(* handler.Stop; the loops are not waited for. *)
Stop ==
  /\ main = "stopping" /\ main' = "closing"
  /\ stopped' = TRUE
  /\ UNCHANGED <<timedOut, dbVars, pc, step, faults>>

(* closeStmt takes the mutex; to close a statement is to wait for its calls.  *)
CloseStmts ==
  /\ main = "closing" /\ mu = Nobody
  /\ main' = "closingStmts" /\ mu' = Main
  /\ UNCHANGED <<stopped, timedOut, open, cached, leaked, pc, step, faults>>

CloseStmt(s) ==
  /\ main = "closingStmts" /\ s \in cached
  /\ \A g \in Routines : pc[g] \in {"conn", "running"} => Stmt(g) # s
  /\ cached' = cached \ {s}
  /\ UNCHANGED <<mainVars, open, mu, leaked, pc, step, faults>>

StmtsClosed ==
  /\ main = "closingStmts" /\ cached = {}
  /\ main' = "closingDb" /\ mu' = Nobody
  /\ UNCHANGED <<stopped, timedOut, open, cached, leaked, pc, step, faults>>

CloseDb ==
  /\ main = "closingDb" /\ open
  /\ open' = FALSE
  /\ UNCHANGED <<mainVars, cached, mu, leaked, pc, step, faults>>

(* main returns, and with it ends whatever still runs. *)
Exit ==
  /\ main = "closingDb" /\ ~open
  /\ main' = "exited"
  /\ pc' = [g \in Routines |-> "gone"] /\ step' = [g \in Routines |-> 0]
  /\ UNCHANGED <<stopped, timedOut, dbVars, faults>>

TakeDown ==
  \/ Drained \/ Stop \/ CloseStmts \/ (\E s \in Statements : CloseStmt(s))
  \/ StmtsClosed \/ CloseDb \/ Exit

-----------------------------------------------------------------------------
Next ==
  \/ \E h \in Handlers : Accept(h) \/ Abandon(h)
  \/ \E g \in Loops : Top(g) \/ Wait(g)
  \/ \E g \in Routines : Run(g)
  \/ Signal \/ TakeDown

Spec == Init /\ [][Next]_vars

(* The mutex and the pool serve those who wait for them in turn, and MySQL    *)
(* answers; nothing else is promised of the handlers, the loops and main.     *)
FairSpec ==
  /\ Spec
  /\ \A g \in Routines : SF_vars(Run(g))
  /\ SF_vars(TakeDown)

-----------------------------------------------------------------------------
(* Every variable has a value of its type, and the mutex is held by one who   *)
(* is preparing a statement or by main closing them.                          *)
TypeOK ==
  /\ main \in {"serving", "draining", "stopping", "closing", "closingStmts", "closingDb", "exited"}
  /\ stopped \in BOOLEAN /\ timedOut \in BOOLEAN /\ open \in BOOLEAN
  /\ cached \subseteq Statements
  /\ pc \in [Routines -> {"idle", "top", "wait", "gone", "prepare", "preparing",
                          "exec", "conn", "running"}]
  /\ step \in [Routines -> 0..3]
  /\ mu \in Routines \cup {Main, Nobody}
  /\ main # "exited" => \A g \in Routines : mu = g <=> pc[g] = "preparing"
  /\ mu = Main <=> main = "closingStmts"

(* main.go: a request finds its statements or the database closed only if the *)
(* 30 s for the requests were not enough.                                     *)
ClosedUnderNobody ==
  main \in {"closingStmts", "closingDb"} /\ ~timedOut => \A h \in Handlers : pc[h] = "idle"

(* prepareStmt and OrderSearchId: who waits for the mutex or for a connection *)
(* while holding another gets it, however many connections abandoned          *)
(* transactions have cost the pool, as long as it has one more than those and *)
(* the requests can hold at a time.                                           *)
RequestsEnd == \A h \in Handlers : pc[h] # "idle" ~> pc[h] \in {"idle", "gone"}

(* main.go: the process ends after the signal; closeStmt waits neither for a  *)
(* mutex nor for a statement in use for ever.                                 *)
ShutdownEnds == main = "draining" ~> main = "exited"
=============================================================================
