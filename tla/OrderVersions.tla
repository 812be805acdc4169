---------------------------- MODULE OrderVersions ----------------------------
(***************************************************************************)
(* The history of one order in MongoDB.  The order worker, push handlers   *)
(* and webhook handlers (Savers) append what they sent or applied, in two  *)
(* calls that nothing holds together; the cleanup goroutine deletes        *)
(* documents that have grown old.                                          *)
(***************************************************************************)
EXTENDS Integers, Sequences, FiniteSets

CONSTANTS
  Savers,       \* goroutines that save versions
  MaxSaves,     \* saves in all (bounds the model)
  Budget        \* Budget[k]: how often the environment does k (bounds the model)

Disturbances == {"fault", "crash", "expire"}

ASSUME VersionsAssumption ==
  MaxSaves \in Nat /\ Budget \in [Disturbances -> Nat]

VARIABLES
  docs,         \* the documents, each a sequence of versions [id, save]
  pc, job,      \* each saver: where it is, its save and the id it worked out
  saves,        \* saves begun; a save is its number
  kept,         \* saves reported as done
  deleted,      \* saves the cleanup deleted
  used          \* disturbances so far

vars == <<docs, pc, job, saves, kept, deleted, used>>

NoJob == [save |-> 0, next |-> 0]

Spend(k) == used[k] < Budget[k] /\ used' = [used EXCEPT ![k] = @ + 1]
Goto(s, l) == pc' = [pc EXCEPT ![s] = l]

(* SaveOrderVersion returns; an error is only logged by its callers.          *)
Return(s, done) ==
  /\ Goto(s, "idle") /\ job' = [job EXCEPT ![s] = NoJob]
  /\ kept' = IF done THEN kept \cup {job[s].save} ELSE kept

Version(s) == [id |-> job[s].next, save |-> job[s].save]

SavesIn(d) == {d[i].save : i \in DOMAIN d}

-----------------------------------------------------------------------------
Init ==
  /\ docs = {}
  /\ pc = [s \in Savers |-> "idle"] /\ job = [s \in Savers |-> NoJob]
  /\ saves = 0 /\ kept = {} /\ deleted = {}
  /\ used = [k \in Disturbances |-> 0]

Begin(s) ==
  /\ pc[s] = "idle" /\ saves < MaxSaves
  /\ saves' = saves + 1
  /\ job' = [job EXCEPT ![s] = [NoJob EXCEPT !.save = saves + 1]]
  /\ Goto(s, "find")
  /\ UNCHANGED <<docs, kept, deleted, used>>

(* Mutant: any error of the search is taken for "no such order". *)
FindOrInsert(s) ==
  /\ pc[s] = "find"
  /\ \/ docs = {} /\ Goto(s, "insert") /\ UNCHANGED <<job, used>>
     \/ Spend("fault") /\ Goto(s, "insert") /\ UNCHANGED job
     \/ \E d \in docs :
          /\ job' = [job EXCEPT ![s].next = Len(d)]
          /\ Goto(s, "push") /\ UNCHANGED used
  /\ UNCHANGED <<docs, saves, kept, deleted>>

(* FindOne: any of the documents of the order, if there is one. *)
FindOne(s) ==
  /\ pc[s] = "find"
  /\ \/ docs = {} /\ Goto(s, "insert") /\ UNCHANGED job
     \/ \E d \in docs :
          /\ job' = [job EXCEPT ![s].next = Len(d)]
          /\ Goto(s, "push")
  /\ UNCHANGED <<docs, saves, kept, deleted, used>>

(* InsertOne of a new document with version 0; the answer may be lost.        *)
InsertOne(s) ==
  /\ pc[s] = "insert"
  /\ docs' = docs \cup {<<[id |-> 0, save |-> job[s].save]>>}
  /\ \/ Return(s, TRUE) /\ UNCHANGED used
     \/ Return(s, FALSE) /\ Spend("fault")
  /\ UNCHANGED <<saves, deleted>>

(* Mutants: a lost answer has the push repeated; the versions are replaced    *)
(* ($set).                                                                    *)
PushAgain(s) ==
  /\ pc[s] = "push"
  /\ \E d \in docs : docs' = (docs \ {d}) \cup {Append(d, Version(s))}
  /\ \/ Return(s, TRUE) /\ UNCHANGED used
     \/ Spend("fault") /\ UNCHANGED <<pc, job, kept>>
  /\ UNCHANGED <<saves, deleted>>
SetVersions(s) ==
  /\ pc[s] = "push"
  /\ \E d \in docs : docs' = (docs \ {d}) \cup {<<Version(s)>>}
  /\ Return(s, TRUE)
  /\ UNCHANGED <<saves, deleted, used>>

(* UpdateOne with $push: atomic, on any document that matches by now.  When   *)
(* none does nothing is written, and that is not an error.                    *)
PushVersion(s) ==
  /\ pc[s] = "push"
  /\ \/ docs = {} /\ UNCHANGED docs
     \/ \E d \in docs : docs' = (docs \ {d}) \cup {Append(d, Version(s))}
  /\ \/ Return(s, TRUE) /\ UNCHANGED used
     \/ Return(s, FALSE) /\ Spend("fault")
  /\ UNCHANGED <<saves, deleted>>

(* Connecting, or any of the calls, fails. *)
Fails(s) ==
  /\ pc[s] # "idle" /\ Spend("fault")
  /\ Return(s, FALSE)
  /\ UNCHANGED <<docs, saves, deleted>>

-----------------------------------------------------------------------------
(* Time passes, and the cleanup looks at when a document was created. *)
DeleteExpired ==
  /\ docs # {} /\ Spend("expire")
  /\ \E old \in SUBSET docs :
       /\ old # {}
       /\ docs' = docs \ old
       /\ deleted' = deleted \cup UNION {SavesIn(d) : d \in old}
  /\ UNCHANGED <<pc, job, saves, kept>>

Crash ==
  /\ Spend("crash")
  /\ pc' = [s \in Savers |-> "idle"] /\ job' = [s \in Savers |-> NoJob]
  /\ UNCHANGED <<docs, saves, kept, deleted>>

SaveOrderVersion(s) == FindOne(s) \/ InsertOne(s) \/ PushVersion(s) \/ Fails(s)

Next == (\E s \in Savers : Begin(s) \/ SaveOrderVersion(s)) \/ DeleteExpired \/ Crash

Spec == Init /\ [][Next]_vars

-----------------------------------------------------------------------------
(* Documents hold at least one version, and only saves that were begun. *)
TypeOK ==
  /\ saves \in Nat
  /\ \A d \in docs : d \in Seq([id : Nat, save : 1..saves]) /\ d # <<>>
  /\ pc \in [Savers -> {"idle", "find", "insert", "push"}]
  /\ job \in [Savers -> [save : 0..saves, next : Nat]]
  /\ \A s \in Savers : pc[s] # "idle" => job[s].save \in 1..saves
  /\ kept \subseteq 1..saves /\ deleted \subseteq 1..saves
  /\ used \in [Disturbances -> Nat]

(* Nothing makes order_id unique, so savers that overlap may each insert a    *)
(* document; but never more than one each, whatever is deleted meanwhile.     *)
DocumentPerSaver ==
  Cardinality(docs) + Cardinality({s \in Savers : pc[s] = "insert"}) <= Cardinality(Savers)

(* A save that was reported as done is in some document: only the cleanup     *)
(* takes versions away, with their document or from under a push.             *)
SavedIsKept ==
  deleted = {} => \A n \in kept : \E d \in docs : n \in SavesIn(d)

(* What a saver has not been told is done it did at most once: however savers *)
(* and lost answers interleave, no save is recorded twice.                    *)
SavedOnce ==
  \A d, e \in docs : \A i \in DOMAIN d, k \in DOMAIN e :
    d[i].save = e[k].save => d = e /\ i = k

=============================================================================
