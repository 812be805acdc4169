------------------------- MODULE OrderVersions_proofs -------------------------
(***************************************************************************)
(* Proofs about OrderVersions, for any savers, saves and disturbances:     *)
(* what overlapping saves can never do to the history of an order.         *)
(***************************************************************************)
EXTENDS OrderVersions, SequenceTheorems, FiniteSetTheorems, TLAPS

Row     == [id : Nat, save : 1..saves]
JobRow  == [save : 0..saves, next : Nat]

LEMMA Kinds == {"fault", "crash", "expire"} \subseteq Disturbances
BY DEF Disturbances

LEMMA SpendType ==
  ASSUME TypeOK, NEW k \in Disturbances, Spend(k)
  PROVE  used' \in [Disturbances -> Nat]
BY DEF TypeOK, Spend

LEMMA NoJobType == ASSUME saves \in Nat PROVE NoJob \in JobRow
BY DEF NoJob, JobRow

(* The version a saver writes. *)
LEMMA VersionType ==
  ASSUME TypeOK, NEW s \in Savers, pc[s] # "idle"
  PROVE  Version(s) \in Row /\ [id |-> 0, save |-> job[s].save] \in Row
BY DEF TypeOK, Version, Row

(* A document with one version, and one with a version more. *)
LEMMA DocumentType ==
  ASSUME NEW S, NEW v \in S
  PROVE  <<v>> \in Seq(S) /\ <<v>> # <<>>
OBVIOUS

LEMMA LongerType ==
  ASSUME NEW S, NEW d \in Seq(S), NEW v \in S
  PROVE  Append(d, v) \in Seq(S) /\ Append(d, v) # <<>>
BY AppendProperties

LEMMA WiderType ==
  ASSUME NEW A, NEW B, A \subseteq B, NEW d \in Seq(A) PROVE d \in Seq(B)
<1>1. Len(d) \in Nat /\ DOMAIN d = 1..Len(d) /\ d \in [1..Len(d) -> B]
  BY LenProperties
<1> QED BY <1>1, SeqDef

LEMMA ReturnType ==
  ASSUME TypeOK, NEW s \in Savers, NEW done \in BOOLEAN, Return(s, done), UNCHANGED saves,
         pc[s] # "idle"
  PROVE  /\ pc' \in [Savers -> {"idle", "find", "insert", "push"}]
         /\ job' \in [Savers -> [save : 0..saves', next : Nat]]
         /\ \A q \in Savers : pc'[q] # "idle" => job'[q].save \in 1..saves'
         /\ kept' \subseteq 1..saves'
<1>1. NoJob \in JobRow
  BY NoJobType DEF TypeOK
<1> QED BY <1>1 DEF TypeOK, Return, Goto, JobRow

LEMMA InitType == Init => TypeOK
<1> SUFFICES ASSUME Init PROVE TypeOK
  OBVIOUS
<1>1. NoJob \in [save : 0..saves, next : Nat]
  BY NoJobType DEF Init, JobRow
<1> QED BY <1>1 DEF Init, TypeOK

LEMMA BeginType == ASSUME TypeOK, NEW s \in Savers, Begin(s) PROVE TypeOK'
<1>1. saves' = saves + 1 /\ UNCHANGED <<docs, kept, deleted, used>> /\ saves \in Nat
  BY DEF Begin, TypeOK
<1>2. 1..saves \subseteq 1..saves' /\ 0..saves \subseteq 0..saves' /\ saves' \in 1..saves'
  BY <1>1
<1>3. \A d \in docs : d \in Seq([id : Nat, save : 1..saves'])
  <2>1. [id : Nat, save : 1..saves] \subseteq [id : Nat, save : 1..saves']
    BY <1>2
  <2>2. \A d \in docs : d \in Seq([id : Nat, save : 1..saves])
    BY DEF TypeOK
  <2> QED BY <2>1, <2>2, WiderType
<1> DEFINE j == [NoJob EXCEPT !.save = saves + 1]
<1>4. j \in [save : 0..saves', next : Nat] /\ j.save = saves'
  BY <1>1, <1>2 DEF NoJob
<1> HIDE DEF j
<1>5. job' = [job EXCEPT ![s] = j] /\ pc' = [pc EXCEPT ![s] = "find"]
  BY DEF Begin, Goto, j
<1>6. job' \in [Savers -> [save : 0..saves', next : Nat]]
  BY <1>2, <1>4, <1>5 DEF TypeOK
<1>7. \A q \in Savers : pc'[q] # "idle" => job'[q].save \in 1..saves'
  BY <1>2, <1>4, <1>5 DEF TypeOK
<1>8. kept' \subseteq 1..saves' /\ deleted' \subseteq 1..saves'
  BY <1>1, <1>2 DEF TypeOK
<1>9. pc' \in [Savers -> {"idle", "find", "insert", "push"}] /\ used' \in [Disturbances -> Nat]
  BY <1>1, <1>5 DEF TypeOK
<1>10. saves' \in Nat /\ \A d \in docs' : d \in Seq([id : Nat, save : 1..saves']) /\ d # <<>>
  <2>1. \A d \in docs : d # <<>>
    BY DEF TypeOK
  <2>2. saves' \in Nat
    BY <1>1
  <2> QED BY <1>1, <1>3, <2>1, <2>2
<1> QED BY <1>6, <1>7, <1>8, <1>9, <1>10 DEF TypeOK

LEMMA SaverType == ASSUME TypeOK, NEW s \in Savers, SaveOrderVersion(s) PROVE TypeOK'
<1>1. UNCHANGED <<saves, deleted>> /\ pc[s] # "idle" /\ saves \in Nat
  BY DEF SaveOrderVersion, FindOne, InsertOne, PushVersion, Fails, TypeOK
<1>2. used' \in [Disturbances -> Nat]
  BY Kinds, SpendType DEF SaveOrderVersion, FindOne, InsertOne, PushVersion, Fails, TypeOK
<1>3. \A d \in docs' : d \in Seq(Row) /\ d # <<>>
  <2>1. \A d \in docs : d \in Seq(Row) /\ d # <<>>
    BY DEF TypeOK, Row
  <2>2. CASE docs' = docs
    BY <2>1, <2>2
  <2>3. CASE InsertOne(s)
    <3> DEFINE v == [id |-> 0, save |-> job[s].save]
    <3>1. v \in Row /\ docs' = docs \cup {<<v>>}
      BY <1>1, <2>3, VersionType DEF InsertOne
    <3> HIDE DEF v
    <3>2. <<v>> \in Seq(Row) /\ <<v>> # <<>>
      BY <3>1, DocumentType
    <3> QED BY <2>1, <3>1, <3>2
  <2>4. CASE PushVersion(s) /\ docs' # docs
    <3>1. PICK d \in docs : docs' = (docs \ {d}) \cup {Append(d, Version(s))}
      BY <2>4 DEF PushVersion
    <3>2. Append(d, Version(s)) \in Seq(Row) /\ Append(d, Version(s)) # <<>>
      BY <1>1, <2>1, VersionType, LongerType
    <3> QED BY <2>1, <3>1, <3>2
  <2> QED BY <2>2, <2>3, <2>4 DEF SaveOrderVersion, FindOne, Fails
<1>4. /\ pc' \in [Savers -> {"idle", "find", "insert", "push"}]
      /\ job' \in [Savers -> [save : 0..saves', next : Nat]]
      /\ \A q \in Savers : pc'[q] # "idle" => job'[q].save \in 1..saves'
      /\ kept' \subseteq 1..saves'
  <2>1. CASE InsertOne(s) \/ PushVersion(s) \/ Fails(s)
    <3>1. Return(s, TRUE) \/ Return(s, FALSE)
      BY <2>1 DEF InsertOne, PushVersion, Fails
    <3> QED BY <1>1, <3>1, ReturnType
  <2>2. CASE FindOne(s)
    <3>1. CASE docs = {} /\ Goto(s, "insert") /\ UNCHANGED job
      BY <1>1, <2>2, <3>1 DEF FindOne, Goto, TypeOK
    <3>2. CASE \E d \in docs : job' = [job EXCEPT ![s].next = Len(d)] /\ Goto(s, "push")
      <4>1. PICK d \in docs : job' = [job EXCEPT ![s].next = Len(d)] /\ Goto(s, "push")
        BY <3>2
      <4>2. Len(d) \in Nat
        BY DEF TypeOK
      <4> DEFINE n == Len(d)
                 j == [job[s] EXCEPT !.next = n]
      <4>3. j \in [save : 0..saves, next : Nat] /\ j.save = job[s].save
        <5> HIDE DEF n
        <5> QED BY <4>2 DEF TypeOK, n
      <4>4. job' = [job EXCEPT ![s] = j]
        BY <4>1
      <4> HIDE DEF j
      <4> QED BY <1>1, <2>2, <4>1, <4>3, <4>4 DEF FindOne, Goto, TypeOK
    <3> QED BY <2>2, <3>1, <3>2 DEF FindOne
  <2> QED BY <2>1, <2>2 DEF SaveOrderVersion
<1> QED BY <1>1, <1>2, <1>3, <1>4 DEF TypeOK, Row

LEMMA ExpireType == ASSUME TypeOK, DeleteExpired PROVE TypeOK'
<1>1. used' \in [Disturbances -> Nat]
  BY Kinds, SpendType DEF DeleteExpired
<1>2. PICK old \in SUBSET docs : /\ docs' = docs \ old
                                 /\ deleted' = deleted \cup UNION {SavesIn(d) : d \in old}
  BY DEF DeleteExpired
<1>3. \A d \in docs : SavesIn(d) \subseteq 1..saves
  <2> SUFFICES ASSUME NEW d \in docs, NEW i \in DOMAIN d PROVE d[i].save \in 1..saves
    BY DEF SavesIn
  <2>1. d \in Seq(Row)
    BY DEF TypeOK, Row
  <2>2. d[i] \in Row
    BY <2>1, LenProperties, ElementOfSeq
  <2> QED BY <2>2 DEF Row
<1>4. UNION {SavesIn(d) : d \in old} \subseteq 1..saves
  BY <1>3
<1> QED BY <1>1, <1>2, <1>4 DEF DeleteExpired, TypeOK

LEMMA CrashType == ASSUME TypeOK, Crash PROVE TypeOK'
<1>1. used' \in [Disturbances -> Nat] /\ NoJob \in [save : 0..saves, next : Nat]
  BY Kinds, SpendType, NoJobType DEF Crash, JobRow, TypeOK
<1> QED BY <1>1 DEF Crash, TypeOK

LEMMA TypeStep == TypeOK /\ [Next]_vars => TypeOK'
<1> SUFFICES ASSUME TypeOK, [Next]_vars PROVE TypeOK'
  OBVIOUS
<1>1. CASE UNCHANGED vars
  BY <1>1 DEF vars, TypeOK
<1> QED BY <1>1, BeginType, SaverType, ExpireType, CrashType DEF Next

(* The documents (mongo.go) and what each saver works out keep their types.   *)
THEOREM TypeCorrect == Spec => []TypeOK
BY InitType, TypeStep, PTL DEF Spec

-----------------------------------------------------------------------------
(* How many documents there can be *)

Inserting == {s \in Savers : pc[s] = "insert"}
Counted   == IsFiniteSet(docs) /\ DocumentPerSaver

LEMMA OneMore ==
  ASSUME NEW S, NEW x, IsFiniteSet(S)
  PROVE  /\ IsFiniteSet(S \cup {x}) /\ Cardinality(S \cup {x}) \in Nat
         /\ Cardinality(S \cup {x}) <= Cardinality(S) + 1
<1>1. IsFiniteSet(S \cup {x}) /\ Cardinality(S) \in Nat
  BY FS_AddElement, FS_CardinalityType
<1>2. Cardinality(S \cup {x}) \in {Cardinality(S), Cardinality(S) + 1}
  BY FS_AddElement
<1> QED BY <1>1, <1>2

LEMMA Replaced ==
  ASSUME NEW S, NEW d \in S, NEW x, IsFiniteSet(S)
  PROVE  /\ IsFiniteSet((S \ {d}) \cup {x}) /\ Cardinality((S \ {d}) \cup {x}) \in Nat
         /\ Cardinality((S \ {d}) \cup {x}) <= Cardinality(S)
<1>1. IsFiniteSet(S \ {d}) /\ Cardinality(S \ {d}) = Cardinality(S) - 1
  BY FS_RemoveElement
<1>2. Cardinality(S) \in Nat
  BY FS_CardinalityType
<1> DEFINE T == S \ {d}
<1>3. IsFiniteSet(T) /\ Cardinality(T) = Cardinality(S) - 1
  BY <1>1
<1> HIDE DEF T
<1>4. /\ IsFiniteSet(T \cup {x}) /\ Cardinality(T \cup {x}) \in Nat
      /\ Cardinality(T \cup {x}) <= Cardinality(T) + 1
  BY <1>3, OneMore
<1>5. Cardinality(T \cup {x}) <= Cardinality(S)
  BY <1>2, <1>3, <1>4
<1> QED BY <1>4, <1>5 DEF T

(* Nothing is added, and nobody gets ready to add anything. *)
LEMMA FewerDocuments ==
  ASSUME IsFiniteSet(Savers), Counted, docs' \subseteq docs, Inserting' \subseteq Inserting
  PROVE  Counted'
<1>1. IsFiniteSet(docs') /\ Cardinality(docs') <= Cardinality(docs)
  BY FS_Subset DEF Counted
<1>2. IsFiniteSet(Inserting)
  BY FS_Subset DEF Inserting
<1>3. Cardinality(Inserting') <= Cardinality(Inserting) /\ IsFiniteSet(Inserting')
  BY <1>2, FS_Subset
<1>4. Cardinality(docs) + Cardinality(Inserting) <= Cardinality(Savers)
  BY DEF Counted, DocumentPerSaver, Inserting
<1>5. /\ Cardinality(docs) \in Nat /\ Cardinality(docs') \in Nat /\ Cardinality(Savers) \in Nat
      /\ Cardinality(Inserting) \in Nat /\ Cardinality(Inserting') \in Nat
  BY <1>1, <1>2, <1>3, FS_CardinalityType DEF Counted
<1>6. Cardinality(docs') + Cardinality(Inserting') <= Cardinality(Savers)
  BY <1>1, <1>3, <1>4, <1>5
<1> QED BY <1>1, <1>6 DEF Counted, DocumentPerSaver, Inserting

LEMMA CountedSaver ==
  ASSUME IsFiniteSet(Savers), TypeOK, Counted, NEW s \in Savers, SaveOrderVersion(s)
  PROVE  Counted'
<1>1. IsFiniteSet(Inserting) /\ IsFiniteSet(Inserting \ {s}) /\ IsFiniteSet(docs)
  BY FS_Subset, FS_RemoveElement DEF Inserting, Counted
<1>2. Cardinality(docs) + Cardinality(Inserting) <= Cardinality(Savers)
  BY DEF Counted, DocumentPerSaver, Inserting
<1>3. /\ Cardinality(docs) \in Nat /\ Cardinality(Savers) \in Nat
      /\ Cardinality(Inserting) \in Nat
  BY <1>1, FS_CardinalityType
<1>4. CASE FindOne(s) /\ docs = {}
  <2>1. Inserting' \subseteq Savers /\ docs' = {}
    BY <1>4 DEF FindOne, Inserting
  <2>2. Cardinality(Inserting') <= Cardinality(Savers) /\ Cardinality(docs') = 0
    BY <2>1, FS_Subset, FS_EmptySet
  <2>3. IsFiniteSet(Inserting') /\ IsFiniteSet(docs')
    BY <2>1, FS_Subset, FS_EmptySet
  <2>4. Cardinality(Inserting') \in Nat
    BY <2>3, FS_CardinalityType
  <2>5. Cardinality(docs') + Cardinality(Inserting') <= Cardinality(Savers)
    BY <1>3, <2>2, <2>4
  <2> QED BY <2>3, <2>5 DEF Counted, DocumentPerSaver, Inserting
<1>5. CASE FindOne(s) /\ docs # {}
  <2>1. UNCHANGED docs /\ Inserting' \subseteq Inserting
    BY <1>5 DEF FindOne, Goto, Inserting, TypeOK
  <2> QED BY <2>1, FewerDocuments
<1>6. CASE InsertOne(s)
  <2>1. PICK x : docs' = docs \cup {x}
    BY <1>6 DEF InsertOne
  <2>2. s \in Inserting /\ Inserting' = Inserting \ {s}
    BY <1>6 DEF InsertOne, Return, Goto, Inserting, TypeOK
  <2>3. Cardinality(Inserting') = Cardinality(Inserting) - 1
    BY <1>1, <2>2, FS_RemoveElement
  <2>4. /\ IsFiniteSet(docs') /\ Cardinality(docs') <= Cardinality(docs) + 1
        /\ Cardinality(docs') \in Nat
    BY <1>1, <2>1, OneMore
  <2>5. Cardinality(docs') + Cardinality(Inserting') <= Cardinality(Savers)
    BY <1>2, <1>3, <2>3, <2>4
  <2> QED BY <2>4, <2>5 DEF Counted, DocumentPerSaver, Inserting
<1>7. CASE PushVersion(s) /\ docs # {}
  <2>0. PICK d \in docs : \E x : docs' = (docs \ {d}) \cup {x}
    BY <1>7 DEF PushVersion
  <2>1. PICK x : docs' = (docs \ {d}) \cup {x}
    BY <2>0
  <2>2. Inserting' = Inserting
    BY <1>7 DEF PushVersion, Return, Goto, Inserting, TypeOK
  <2>4. /\ IsFiniteSet(docs') /\ Cardinality(docs') <= Cardinality(docs)
        /\ Cardinality(docs') \in Nat
    BY <1>1, <2>1, Replaced
  <2>5. Cardinality(docs') + Cardinality(Inserting') <= Cardinality(Savers)
    BY <1>2, <1>3, <2>2, <2>4
  <2> QED BY <2>4, <2>5 DEF Counted, DocumentPerSaver, Inserting
<1>8. CASE PushVersion(s) /\ docs = {}
  <2>1. UNCHANGED docs /\ Inserting' \subseteq Inserting
    BY <1>8 DEF PushVersion, Return, Goto, Inserting, TypeOK
  <2> QED BY <2>1, FewerDocuments
<1>9. CASE Fails(s)
  <2>1. UNCHANGED docs /\ Inserting' \subseteq Inserting
    BY <1>9 DEF Fails, Return, Goto, Inserting, TypeOK
  <2> QED BY <2>1, FewerDocuments
<1> QED BY <1>4, <1>5, <1>6, <1>7, <1>8, <1>9 DEF SaveOrderVersion

LEMMA CountedStep ==
  ASSUME IsFiniteSet(Savers) PROVE TypeOK /\ Counted /\ [Next]_vars => Counted'
<1> SUFFICES ASSUME TypeOK, Counted, [Next]_vars PROVE Counted'
  OBVIOUS
<1>1. CASE \E s \in Savers : SaveOrderVersion(s)
  BY <1>1, CountedSaver
<1>2. CASE (\E s \in Savers : Begin(s)) \/ DeleteExpired \/ Crash \/ UNCHANGED vars
  <2>1. docs' \subseteq docs /\ Inserting' \subseteq Inserting
    BY <1>2 DEF Begin, Goto, DeleteExpired, Crash, vars, Inserting, TypeOK
  <2> QED BY <2>1, FewerDocuments
<1> QED BY <1>1, <1>2 DEF Next

(* SaveOrderVersion (mongo.go) searches and inserts in two calls: savers that *)
(* overlap leave as many documents of one order as there are savers at worst. *)
THEOREM DocumentsBounded == IsFiniteSet(Savers) => (Spec => []DocumentPerSaver)
<1> SUFFICES ASSUME IsFiniteSet(Savers) PROVE Spec => []DocumentPerSaver
  OBVIOUS
<1>1. Init => Counted
  <2> SUFFICES ASSUME Init PROVE Counted
    OBVIOUS
  <2>1. docs = {} /\ Inserting = {}
    BY DEF Init, Inserting
  <2>2. IsFiniteSet(docs) /\ Cardinality(docs) = 0 /\ Cardinality(Inserting) = 0
    BY <2>1, FS_EmptySet
  <2>3. Cardinality(Savers) \in Nat
    BY FS_CardinalityType
  <2> QED BY <2>2, <2>3 DEF Counted, DocumentPerSaver, Inserting
<1>2. TypeOK /\ Counted /\ [Next]_vars => Counted'
  BY CountedStep
<1>3. Spec => [](TypeOK /\ Counted)
  BY <1>1, <1>2, InitType, TypeStep, PTL DEF Spec
<1>4. Counted => DocumentPerSaver
  BY DEF Counted
<1> QED BY <1>3, <1>4, PTL

-----------------------------------------------------------------------------
(* Saves are recorded once *)

(* What a saver has in hand is nowhere yet, and nobody else has it in hand.   *)
Fresh ==
  /\ \A s \in Savers : pc[s] # "idle" =>
       \A d \in docs : \A i \in DOMAIN d : d[i].save # job[s].save
  /\ \A s, t \in Savers :
       pc[s] # "idle" /\ pc[t] # "idle" /\ job[s].save = job[t].save => s = t

(* Savers only let go of what they have, and no document changes. *)
LEMMA OnceFrame ==
  ASSUME SavedOnce, Fresh, docs' \subseteq docs,
         \A s \in Savers : pc'[s] # "idle" => pc[s] # "idle" /\ job'[s].save = job[s].save
  PROVE  SavedOnce' /\ Fresh'
<1>1. SavedOnce'
  BY DEF SavedOnce
<1>2. Fresh'
  BY DEF Fresh
<1> QED BY <1>1, <1>2

(* Saver s writes document x, which is old with one version more in place n;  *)
(* old is no longer there, or was empty.                                      *)
LEMMA OnceWritten ==
  ASSUME SavedOnce, Fresh, NEW s \in Savers, pc[s] # "idle",
         NEW rest \in SUBSET docs, NEW x, NEW old, NEW n, docs' = rest \cup {x},
         old \in docs \ rest \/ DOMAIN old = {},
         DOMAIN x = DOMAIN old \cup {n}, n \notin DOMAIN old,
         x[n].save = job[s].save, \A i \in DOMAIN old : x[i] = old[i],
         pc'[s] = "idle", \A q \in Savers \ {s} : pc'[q] = pc[q] /\ job'[q] = job[q]
  PROVE  SavedOnce' /\ Fresh'
<1>1. \A d \in rest : \A i \in DOMAIN d, k \in DOMAIN x : d[i].save # x[k].save
  <2> SUFFICES ASSUME NEW d \in rest, NEW i \in DOMAIN d, NEW k \in DOMAIN x
               PROVE  d[i].save # x[k].save
    OBVIOUS
  <2>1. CASE k = n
    BY <2>1 DEF Fresh
  <2>2. CASE k # n
    BY <2>2 DEF SavedOnce
  <2> QED BY <2>1, <2>2
<1>2. \A i, k \in DOMAIN x : x[i].save = x[k].save => i = k
  <2> SUFFICES ASSUME NEW i \in DOMAIN x, NEW k \in DOMAIN x, x[i].save = x[k].save PROVE i = k
    OBVIOUS
  <2>1. CASE i = n
    BY <2>1 DEF Fresh
  <2>2. CASE k = n
    BY <2>2 DEF Fresh
  <2>3. CASE i # n /\ k # n
    BY <2>3 DEF SavedOnce
  <2> QED BY <2>1, <2>2, <2>3
<1>3. SavedOnce'
  <2> SUFFICES ASSUME NEW d \in rest \cup {x}, NEW e \in rest \cup {x},
                      NEW i \in DOMAIN d, NEW k \in DOMAIN e, d[i].save = e[k].save
               PROVE  d = e /\ i = k
    BY DEF SavedOnce
  <2>1. CASE d \in rest /\ e \in rest
    BY <2>1 DEF SavedOnce
  <2>2. CASE d = x /\ e = x
    BY <1>2, <2>2
  <2>3. CASE d = x /\ e \in rest
    BY <1>1, <2>3
  <2>4. CASE d \in rest /\ e = x
    BY <1>1, <2>4
  <2> QED BY <2>1, <2>2, <2>3, <2>4
<1>4. ASSUME NEW q \in Savers, pc'[q] # "idle", NEW d \in docs', NEW i \in DOMAIN d
      PROVE  d[i].save # job'[q].save
  <2>1. q # s /\ pc[q] # "idle" /\ job'[q] = job[q]
    BY <1>4
  <2>2. CASE d \in rest
    BY <2>1, <2>2 DEF Fresh
  <2>3. CASE d = x /\ i = n
    BY <2>1, <2>3 DEF Fresh
  <2>4. CASE d = x /\ i # n
    BY <2>1, <2>4 DEF Fresh
  <2> QED BY <2>2, <2>3, <2>4
<1>5. \A q, t \in Savers :
        pc'[q] # "idle" /\ pc'[t] # "idle" /\ job'[q].save = job'[t].save => q = t
  BY DEF Fresh
<1> QED BY <1>3, <1>4, <1>5 DEF Fresh

LEMMA OnceSaver ==
  ASSUME TypeOK, SavedOnce, Fresh, NEW s \in Savers, SaveOrderVersion(s)
  PROVE  SavedOnce' /\ Fresh'
<1>1. \A done \in BOOLEAN : Return(s, done) =>
        pc'[s] = "idle" /\ \A q \in Savers \ {s} : pc'[q] = pc[q] /\ job'[q] = job[q]
  BY DEF Return, Goto, TypeOK
<1>2. CASE FindOne(s)
  <2>1. pc[s] = "find" /\ UNCHANGED docs
    BY <1>2 DEF FindOne
  <2>2. \A q \in Savers : pc'[q] # "idle" => pc[q] # "idle"
    BY <1>2, <2>1 DEF FindOne, Goto, TypeOK
  <2>3. \A q \in Savers : job'[q].save = job[q].save
    <3>1. CASE UNCHANGED job
      BY <3>1
    <3>2. CASE \E n : job' = [job EXCEPT ![s].next = n]
      BY <3>2 DEF TypeOK
    <3> QED BY <1>2, <3>1, <3>2 DEF FindOne
  <2> QED BY <2>1, <2>2, <2>3, OnceFrame
<1>3. CASE InsertOne(s)
  <2> DEFINE v == [id |-> 0, save |-> job[s].save]
  <2>1. docs' = docs \cup {<<v>>} /\ pc[s] # "idle"
    BY <1>3 DEF InsertOne
  <2>2. pc'[s] = "idle" /\ \A q \in Savers \ {s} : pc'[q] = pc[q] /\ job'[q] = job[q]
    BY <1>1, <1>3 DEF InsertOne
  <2>3. DOMAIN <<v>> = DOMAIN <<>> \cup {1} /\ DOMAIN <<>> = {} /\ <<v>>[1].save = job[s].save
    OBVIOUS
  <2> HIDE DEF v
  <2> QED BY <2>1, <2>2, <2>3, OnceWritten
<1>4. CASE PushVersion(s) /\ docs' # docs
  <2>1. PICK d \in docs : docs' = (docs \ {d}) \cup {Append(d, Version(s))}
    BY <1>4 DEF PushVersion
  <2>2. pc[s] # "idle"
    BY <1>4 DEF PushVersion
  <2>3. pc'[s] = "idle" /\ \A q \in Savers \ {s} : pc'[q] = pc[q] /\ job'[q] = job[q]
    BY <1>1, <1>4 DEF PushVersion
  <2>4. d \in Seq(Row) /\ Version(s) \in Row /\ Version(s).save = job[s].save
    BY <2>2, VersionType DEF TypeOK, Row, Version
  <2> DEFINE x == Append(d, Version(s))
             n == Len(d) + 1
  <2>5. /\ DOMAIN x = DOMAIN d \cup {n} /\ n \notin DOMAIN d /\ x[n].save = job[s].save
        /\ \A i \in DOMAIN d : x[i] = d[i]
    BY <2>4, AppendProperties, LenProperties
  <2> DEFINE rest == docs \ {d}
  <2>6. rest \in SUBSET docs /\ docs' = rest \cup {x} /\ d \in docs \ rest
    BY <2>1
  <2>7. x[n].save = job[s].save /\ DOMAIN x = DOMAIN d \cup {n} /\ n \notin DOMAIN d
        /\ \A i \in DOMAIN d : x[i] = d[i]
    BY <2>5
  <2> HIDE DEF x, n, rest
  <2> QED BY ONLY <2>2, <2>3, <2>6, <2>7, OnceWritten, SavedOnce, Fresh, s \in Savers
<1>5. CASE Fails(s) \/ (PushVersion(s) /\ docs' = docs)
  <2>1. UNCHANGED docs /\ pc[s] # "idle"
    BY <1>5 DEF Fails, PushVersion
  <2>2. pc'[s] = "idle" /\ \A q \in Savers \ {s} : pc'[q] = pc[q] /\ job'[q] = job[q]
    BY <1>1, <1>5 DEF Fails, PushVersion
  <2> QED BY <2>1, <2>2, OnceFrame
<1> QED BY <1>2, <1>3, <1>4, <1>5 DEF SaveOrderVersion

LEMMA OnceBegin ==
  ASSUME TypeOK, SavedOnce, Fresh, NEW s \in Savers, Begin(s)
  PROVE  SavedOnce' /\ Fresh'
<1>1. /\ UNCHANGED docs /\ job'[s].save = saves + 1 /\ saves \in Nat
      /\ \A q \in Savers \ {s} : pc'[q] = pc[q] /\ job'[q] = job[q]
  BY DEF Begin, Goto, NoJob, TypeOK
<1>2. \A d \in docs : \A i \in DOMAIN d : d[i].save \in 1..saves
  <2> SUFFICES ASSUME NEW d \in docs, NEW i \in DOMAIN d PROVE d[i].save \in 1..saves
    OBVIOUS
  <2>1. d \in Seq(Row)
    BY DEF TypeOK, Row
  <2>2. d[i] \in Row
    BY <2>1, LenProperties, ElementOfSeq
  <2> QED BY <2>2 DEF Row
<1>3. \A q \in Savers : pc[q] # "idle" => job[q].save \in 1..saves
  BY DEF TypeOK
<1>4. saves + 1 \notin 1..saves
  BY <1>1
<1>5. SavedOnce'
  BY <1>1 DEF SavedOnce
<1>6. \A q \in Savers : pc'[q] # "idle" =>
        \A d \in docs' : \A i \in DOMAIN d : d[i].save # job'[q].save
  BY <1>1, <1>2, <1>4 DEF Fresh
<1>7. \A q, t \in Savers :
        pc'[q] # "idle" /\ pc'[t] # "idle" /\ job'[q].save = job'[t].save => q = t
  BY <1>1, <1>3, <1>4 DEF Fresh
<1> QED BY <1>5, <1>6, <1>7 DEF Fresh

LEMMA OnceStep ==
  TypeOK /\ SavedOnce /\ Fresh /\ [Next]_vars => SavedOnce' /\ Fresh'
<1> SUFFICES ASSUME TypeOK, SavedOnce, Fresh, [Next]_vars PROVE SavedOnce' /\ Fresh'
  OBVIOUS
<1>1. CASE \E s \in Savers : Begin(s) \/ SaveOrderVersion(s)
  BY <1>1, OnceBegin, OnceSaver
<1>2. CASE DeleteExpired \/ Crash \/ UNCHANGED vars
  <2>1. /\ docs' \subseteq docs
        /\ \A s \in Savers : pc'[s] # "idle" => pc[s] # "idle" /\ job'[s].save = job[s].save
    BY <1>2 DEF DeleteExpired, Crash, vars
  <2> QED BY <2>1, OnceFrame
<1> QED BY <1>1, <1>2 DEF Next

(* However savers, lost answers, restarts and the cleanup interleave, no save *)
(* of SaveOrderVersion (mongo.go) is recorded in two places.                  *)
THEOREM SavesRecordedOnce == Spec => []SavedOnce
<1>1. Init => SavedOnce /\ Fresh
  BY DEF Init, SavedOnce, Fresh
<1>2. Spec => [](TypeOK /\ SavedOnce /\ Fresh)
  BY <1>1, InitType, TypeStep, OnceStep, PTL DEF Spec
<1> QED BY <1>2, PTL

-----------------------------------------------------------------------------
(* Saves that were reported are kept *)

(* A push was told of a document, and only the cleanup takes one away.        *)
PushHasDocument == deleted = {} => \A s \in Savers : pc[s] = "push" => docs # {}

KeptInv == SavedIsKept /\ PushHasDocument

(* The saves a document holds, and those it holds after an append. *)
LEMMA SavesOf ==
  ASSUME NEW S, NEW d \in Seq(S), NEW v \in S
  PROVE  SavesIn(Append(d, v)) = SavesIn(d) \cup {v.save}
<1> DEFINE n == Len(d) + 1
           x == Append(d, v)
<1>1. /\ DOMAIN x = DOMAIN d \cup {n} /\ n \notin DOMAIN d /\ x[n] = v
      /\ \A i \in DOMAIN d : x[i] = d[i]
  BY AppendProperties, LenProperties
<1> HIDE DEF n, x
<1>2. SavesIn(x) = SavesIn(d) \cup {v.save}
  BY <1>1 DEF SavesIn
<1> QED BY <1>2 DEF x

(* Every save kept so far is where it was, and so is one that s reports now. *)
LEMMA KeptSaver ==
  ASSUME TypeOK, KeptInv, NEW s \in Savers, SaveOrderVersion(s)
  PROVE  KeptInv'
<1>1. UNCHANGED deleted /\ pc[s] # "idle"
  BY DEF SaveOrderVersion, FindOne, InsertOne, PushVersion, Fails
<1> SUFFICES ASSUME deleted = {} PROVE KeptInv'
  BY <1>1 DEF KeptInv, SavedIsKept, PushHasDocument
<1>2. /\ \A n \in kept : \E d \in docs : n \in SavesIn(d)
      /\ \A q \in Savers : pc[q] = "push" => docs # {}
  BY DEF KeptInv, SavedIsKept, PushHasDocument
<1>3. CASE FindOne(s) \/ Fails(s)
  <2>1. docs' = docs /\ kept' = kept /\ \A q \in Savers : pc'[q] = "push" => docs # {}
    BY <1>2, <1>3 DEF FindOne, Fails, Return, Goto, TypeOK
  <2> QED BY <1>2, <2>1 DEF KeptInv, SavedIsKept, PushHasDocument
<1>4. CASE InsertOne(s)
  <2>1. docs' = docs \cup {<<[id |-> 0, save |-> job[s].save]>>} /\ kept' \subseteq kept \cup {job[s].save}
    BY <1>4 DEF InsertOne, Return
  <2>2. job[s].save \in SavesIn(<<[id |-> 0, save |-> job[s].save]>>)
    BY DEF SavesIn
  <2>3. \A n \in kept' : \E d \in docs' : n \in SavesIn(d)
    BY <1>2, <2>1, <2>2
  <2> QED BY <2>1, <2>3 DEF KeptInv, SavedIsKept, PushHasDocument
<1>5. CASE PushVersion(s)
  <2>1. pc[s] = "push" /\ docs # {}
    BY <1>2, <1>5 DEF PushVersion
  <2>2. PICK d \in docs : docs' = (docs \ {d}) \cup {Append(d, Version(s))}
    BY <1>5, <2>1 DEF PushVersion
  <2>3. d \in Seq(Row) /\ Version(s) \in Row /\ Version(s).save = job[s].save
    BY <2>1, VersionType DEF TypeOK, Row, Version
  <2>4. SavesIn(Append(d, Version(s))) = SavesIn(d) \cup {job[s].save}
    BY <2>3, SavesOf
  <2>5. kept' \subseteq kept \cup {job[s].save}
    BY <1>5 DEF PushVersion, Return
  <2>6. \A n \in kept' : \E e \in docs' : n \in SavesIn(e)
    BY <1>2, <2>2, <2>4, <2>5
  <2> QED BY <2>2, <2>6 DEF KeptInv, SavedIsKept, PushHasDocument
<1> QED BY <1>3, <1>4, <1>5 DEF SaveOrderVersion

LEMMA KeptStep == TypeOK /\ KeptInv /\ [Next]_vars => KeptInv'
<1> SUFFICES ASSUME TypeOK, KeptInv, [Next]_vars PROVE KeptInv'
  OBVIOUS
<1>1. CASE \E s \in Savers : SaveOrderVersion(s)
  BY <1>1, KeptSaver
<1>2. CASE (\E s \in Savers : Begin(s)) \/ Crash \/ UNCHANGED vars
  <2>1. /\ UNCHANGED <<docs, kept, deleted>>
        /\ \A q \in Savers : pc'[q] = "push" => pc[q] = "push"
    BY <1>2 DEF Begin, Goto, Crash, vars, TypeOK
  <2> QED BY <2>1 DEF KeptInv, SavedIsKept, PushHasDocument
<1>3. CASE DeleteExpired
  <2>1. PICK d \in docs : SavesIn(d) \subseteq deleted'
    BY <1>3 DEF DeleteExpired
  <2>2. d \in Seq(Row) /\ d # <<>>
    BY DEF TypeOK, Row
  <2>3. 1 \in DOMAIN d
    BY <2>2, LenProperties, EmptySeq
  <2>4. d[1].save \in SavesIn(d)
    BY <2>3 DEF SavesIn
  <2>5. deleted' # {}
    BY <2>1, <2>4
  <2> QED BY <2>5 DEF KeptInv, SavedIsKept, PushHasDocument
<1> QED BY <1>1, <1>2, <1>3 DEF Next

(* A version that SaveOrderVersion (mongo.go) reported as saved is in a       *)
(* document of the order, whatever savers, lost answers and restarts do, as   *)
(* long as the cleanup has deleted nothing.                                   *)
THEOREM ReportedSavesKept == Spec => []SavedIsKept
<1>1. Init => KeptInv
  BY DEF Init, KeptInv, SavedIsKept, PushHasDocument
<1>2. Spec => [](TypeOK /\ KeptInv)
  BY <1>1, InitType, TypeStep, KeptStep, PTL DEF Spec
<1>3. KeptInv => SavedIsKept
  BY DEF KeptInv
<1> QED BY <1>2, <1>3, PTL
=============================================================================
