--------------------------- MODULE B2BDeals_proofs ---------------------------
(***************************************************************************)
(* Proofs about B2BDeals, for any orders, handlers, chunk size and         *)
(* disturbances: handlers that share nothing but Zoho never write into one *)
(* another's Deals, an answered order is complete, and Deals beyond one    *)
(* per order, and Deals left without all their Goods, are accounted for.   *)
(***************************************************************************)
EXTENDS B2BDeals, FiniteSetTheorems, SequenceTheorems, TLAPS

Call(n) == [deal : 1..n, chunk : Nat, rows : SUBSET Nat]

-----------------------------------------------------------------------------
(* Chunks *)

LEMMA DivBounds ==
  ASSUME NEW n \in Nat, NEW d \in Nat \ {0}
  PROVE  /\ n \div d \in Nat
         /\ d * (n \div d) <= n
         /\ n < d * (n \div d) + d
BY SMT

LEMMA Monotone ==
  ASSUME NEW a \in Nat, NEW b \in Nat, NEW d \in Nat, a <= b
  PROVE  d * a <= d * b
BY SMT

LEMMA ItemsType ==
  ASSUME NEW o \in Orders
  PROVE  /\ Len(Items[o]) \in Nat \ {0}
         /\ ChunkSize \in Nat \ {0}
BY ItemsAssumption

(* There is a chunk, the first row of each is there, and a row is in one. *)
LEMMA ChunkFacts ==
  ASSUME NEW o \in Orders
  PROVE  /\ Chunks(o) \in Nat \ {0}
         /\ \A k \in 1..Chunks(o) : FirstOf(k) \in ChunkRows(o, k)
         /\ \A i \in 1..Len(Items[o]) : \E k \in 1..Chunks(o) : i \in ChunkRows(o, k)
<1> DEFINE L == Len(Items[o])
           C == ChunkSize
           q == (L + C - 1) \div C
<1>1. L \in Nat \ {0} /\ C \in Nat \ {0} /\ L + C - 1 \in Nat
  BY ItemsType
<1>2. q \in Nat /\ C * q <= L + C - 1 /\ L + C - 1 < C * q + C
  BY <1>1, DivBounds
<1> HIDE DEF q
<1>3. q # 0
  <2> SUFFICES ASSUME q = 0 PROVE FALSE
    OBVIOUS
  <2>1. C * q = 0
    BY <1>1
  <2> QED BY <1>1, <1>2, <2>1
<1>4. ASSUME NEW k \in 1..q PROVE FirstOf(k) \in ChunkRows(o, k)
  <2>1. C * k <= C * q
    BY <1>1, <1>2, Monotone
  <2>2. (k - 1) * C = C * k - C /\ k * C = C * k /\ C * k \in Nat /\ C * k - C \in Nat
    BY <1>1, SMT
  <2>3. FirstOf(k) = C * k - C + 1
    BY <2>2 DEF FirstOf
  <2>4. FirstOf(k) \in 1..L
    BY <1>1, <1>2, <2>1, <2>2, <2>3
  <2> QED BY <1>1, <2>2, <2>3, <2>4 DEF ChunkRows
<1>5. ASSUME NEW i \in 1..L PROVE \E k \in 1..q : i \in ChunkRows(o, k)
  <2> DEFINE m == (i - 1) \div C
             k == m + 1
  <2>1. m \in Nat /\ C * m <= i - 1 /\ i - 1 < C * m + C
    BY <1>1, DivBounds
  <2> HIDE DEF m
  <2>2. (k - 1) * C = C * m /\ k * C = C * m + C /\ C * m \in Nat
    BY <1>1, <2>1, SMT
  <2>3. i \in ChunkRows(o, k)
    BY <1>1, <2>1, <2>2 DEF ChunkRows
  <2>4. k <= q
    <3> SUFFICES ASSUME q <= m PROVE FALSE
      BY <1>2, <2>1
    <3>1. C * q <= C * m
      BY <1>1, <1>2, <2>1, Monotone
    <3> QED BY <1>1, <1>2, <2>1, <2>2, <3>1
  <2> QED BY <2>1, <2>3, <2>4
<1> QED BY <1>2, <1>3, <1>4, <1>5 DEF Chunks, q

LEMMA RowsType ==
  ASSUME NEW o \in Orders, NEW k PROVE ChunkRows(o, k) \in SUBSET Nat
BY ItemsType DEF ChunkRows

LEMMA WiderType ==
  ASSUME NEW A, NEW B, A \subseteq B, NEW d \in Seq(A) PROVE d \in Seq(B)
<1>1. Len(d) \in Nat /\ DOMAIN d = 1..Len(d) /\ d \in [1..Len(d) -> B]
  BY LenProperties
<1> QED BY <1>1, SeqDef

LEMMA Appended ==
  ASSUME NEW S, NEW s \in Seq(S), NEW e \in S, NEW t, t = Append(s, e)
  PROVE  /\ t \in Seq(S) /\ Len(t) = Len(s) + 1 /\ Len(s) \in Nat
         /\ DOMAIN s = 1..Len(s) /\ DOMAIN t = 1..(Len(s) + 1)
         /\ \A i \in 1..Len(s) : t[i] = s[i]
         /\ t[Len(s) + 1] = e
BY AppendProperties, LenProperties

-----------------------------------------------------------------------------
(* Types *)

Labels == {"idle", "resolve", "contact", "deal", "goods"}

LEMMA SpendType ==
  ASSUME TypeOK, NEW k \in Disturbances, Spend(k) PROVE used' \in [Disturbances -> Nat]
BY DEF TypeOK, Spend

LEMMA NoJobType == NoJob \in JobRow /\ NoJob.order = 0
BY DEF NoJob, JobRow, NoDeal

(* What a handler with job j at label l may have in hand. *)
JobOK(l, j) ==
  /\ l # "idle" => j.order \in Orders
  /\ l = "resolve" => j.item \in 1..Len(Items[j.order])
  /\ l = "goods" => j.chunk \in 1..Chunks(j.order)

(* A handler goes from l to m with job j. *)
LEMMA HandlerType ==
  ASSUME TypeOK, NEW h \in Handlers, NEW m \in Labels, NEW j \in JobRow, JobOK(m, j),
         pc' = [pc EXCEPT ![h] = m], job' = [job EXCEPT ![h] = j]
  PROVE  /\ pc' \in [Handlers -> Labels] /\ job' \in [Handlers -> JobRow]
         /\ \A g \in Handlers : JobOK(pc'[g], job'[g])
<1>1. pc \in [Handlers -> Labels] /\ job \in [Handlers -> JobRow]
  BY DEF TypeOK, Labels
<1>2. \A g \in Handlers : JobOK(pc[g], job[g])
  BY DEF TypeOK, JobOK
<1>3. \A g \in Handlers : /\ pc'[g] = IF g = h THEN m ELSE pc[g]
                          /\ job'[g] = IF g = h THEN j ELSE job[g]
  BY <1>1
<1> QED BY <1>1, <1>2, <1>3

(* An answer, the item loop, and the chunk loop. *)
LEMMA AnswerType ==
  ASSUME TypeOK, NEW h \in Handlers, Answer(h)
  PROVE  /\ pc' \in [Handlers -> Labels] /\ job' \in [Handlers -> JobRow]
         /\ \A g \in Handlers : JobOK(pc'[g], job'[g])
BY NoJobType, HandlerType DEF Answer, Goto, Labels, JobOK

LEMMA MoveType ==
  ASSUME TypeOK, NEW h \in Handlers, NEW m \in Labels, JobOK(m, job[h]), Goto(h, m), UNCHANGED job
  PROVE  /\ pc' \in [Handlers -> Labels] /\ job' \in [Handlers -> JobRow]
         /\ \A g \in Handlers : JobOK(pc'[g], job'[g])
<1>1. job[h] \in JobRow /\ job' = [job EXCEPT ![h] = job[h]]
  BY DEF TypeOK
<1> QED BY <1>1, HandlerType DEF Goto

LEMMA ItemType ==
  ASSUME TypeOK, NEW h \in Handlers, pc[h] = "resolve", ItemDone(h)
  PROVE  /\ pc' \in [Handlers -> Labels] /\ job' \in [Handlers -> JobRow]
         /\ \A g \in Handlers : JobOK(pc'[g], job'[g])
<1> DEFINE j == [job[h] EXCEPT !.item = @ + 1]
<1>1. job[h] \in JobRow /\ job[h].order \in Orders /\ job[h].item \in 1..Len(Items[job[h].order])
  BY DEF TypeOK
<1>2. CASE job[h].item < Len(Items[job[h].order])
  <2>1. job' = [job EXCEPT ![h] = j] /\ UNCHANGED pc
    BY <1>2 DEF ItemDone
  <2>2. j \in JobRow /\ j.order = job[h].order /\ j.item = job[h].item + 1
    BY <1>1 DEF JobRow
  <2>3. pc' = [pc EXCEPT ![h] = "resolve"]
    BY <2>1 DEF TypeOK
  <2>4. JobOK("resolve", j)
    BY <1>1, <1>2, <2>2, ItemsType DEF JobOK
  <2> QED
    <3> HIDE DEF j
    <3> QED BY <2>1, <2>2, <2>3, <2>4, HandlerType DEF Labels
<1>3. CASE ~(job[h].item < Len(Items[job[h].order]))
  BY <1>1, <1>3, MoveType DEF ItemDone, JobOK, Labels
<1> QED BY <1>2, <1>3

LEMMA ChunkType ==
  ASSUME TypeOK, NEW h \in Handlers, pc[h] = "goods", ChunkDone(h)
  PROVE  /\ pc' \in [Handlers -> Labels] /\ job' \in [Handlers -> JobRow]
         /\ \A g \in Handlers : JobOK(pc'[g], job'[g])
         /\ oks' \subseteq Answers
<1> DEFINE j == [job[h] EXCEPT !.chunk = @ + 1]
<1>1. job[h] \in JobRow /\ job[h].order \in Orders /\ job[h].chunk \in 1..Chunks(job[h].order)
  BY DEF TypeOK
<1>2. CASE job[h].chunk < Chunks(job[h].order)
  <2>1. job' = [job EXCEPT ![h] = j] /\ UNCHANGED <<pc, oks>>
    BY <1>2 DEF ChunkDone
  <2>2. j \in JobRow /\ j.order = job[h].order /\ j.chunk = job[h].chunk + 1
    BY <1>1 DEF JobRow
  <2>3. pc' = [pc EXCEPT ![h] = "goods"]
    BY <2>1 DEF TypeOK
  <2>4. JobOK("goods", j)
    BY <1>1, <1>2, <2>2, ChunkFacts DEF JobOK
  <2> QED
    <3> HIDE DEF j
    <3> QED BY <2>1, <2>2, <2>3, <2>4, HandlerType DEF Labels, TypeOK
<1>3. CASE ~(job[h].chunk < Chunks(job[h].order))
  <2>1. [order |-> job[h].order, deal |-> job[h].deal] \in Answers
    BY <1>1 DEF Answers, JobRow
  <2> QED BY <1>3, <2>1, AnswerType DEF ChunkDone, TypeOK
<1> QED BY <1>2, <1>3

LEMMA SentType ==
  ASSUME TypeOK, NEW h \in Handlers, job[h].deal \in 1..Len(deals), NEW S \in SUBSET Nat
  PROVE  /\ [deal |-> job[h].deal, chunk |-> job[h].chunk, rows |-> S] \in Call(Len(deals))
         /\ Sent(h, S) \in Seq(Call(Len(deals)))
<1>1. goods \in Seq(Call(Len(deals))) /\ job[h].chunk \in Nat
  BY DEF TypeOK, Call, JobRow
<1> QED BY <1>1, AppendProperties DEF Sent, Call

(* A Deal more. *)
LEMMA DealsType ==
  ASSUME TypeOK, NEW o \in Orders, deals' = Append(deals, o), UNCHANGED goods
  PROVE  /\ deals' \in Seq(Orders) /\ Len(deals') = Len(deals) + 1
         /\ goods' \in Seq(Call(Len(deals')))
<1>1. deals' \in Seq(Orders) /\ Len(deals') = Len(deals) + 1 /\ Len(deals) \in Nat
  BY Appended DEF TypeOK
<1>2. 1..Len(deals) \subseteq 1..Len(deals')
  BY <1>1
<1>3. Call(Len(deals)) \subseteq Call(Len(deals'))
  BY <1>2 DEF Call
<1>4. goods \in Seq(Call(Len(deals)))
  BY DEF TypeOK, Call
<1> QED BY <1>1, <1>3, <1>4, WiderType

LEMMA InitType == Init => TypeOK
BY NoJobType DEF Init, TypeOK, Disturbances

LEMMA Kinds == {"fault", "crash", "refuse"} \subseteq Disturbances
BY DEF Disturbances

LEMMA HandleType ==
  ASSUME TypeOK, NEW h \in Handlers, Handle(h),
         pc[h] = "goods" => job[h].deal \in 1..Len(deals)
  PROVE  TypeOK'
<1> USE DEF TypeOK
<1>1. CASE ResolveItem(h)
  <2>1. /\ linked' \subseteq Products /\ used' \in [Disturbances -> Nat]
        /\ ItemDone(h) \/ Answer(h)
    BY <1>1, SpendType, Kinds DEF ResolveItem
  <2>2. UNCHANGED <<catalog, deals, goods, tries, oks>> /\ pc[h] = "resolve"
    BY <1>1 DEF ResolveItem
  <2>3. /\ pc' \in [Handlers -> Labels] /\ job' \in [Handlers -> JobRow]
        /\ \A g \in Handlers : JobOK(pc'[g], job'[g])
    BY <2>1, <2>2, ItemType, AnswerType
  <2> QED BY <2>1, <2>2, <2>3 DEF Labels, JobOK
<1>2. CASE ResolveContact(h)
  <2>1. /\ used' \in [Disturbances -> Nat]
        /\ UNCHANGED <<linked, catalog, deals, goods, tries, oks>>
    BY <1>2, SpendType, Kinds DEF ResolveContact
  <2>2. JobOK("deal", job[h]) /\ "deal" \in Labels
    BY <1>2 DEF ResolveContact, JobOK, Labels
  <2>3. /\ pc' \in [Handlers -> Labels] /\ job' \in [Handlers -> JobRow]
        /\ \A g \in Handlers : JobOK(pc'[g], job'[g])
    BY <1>2, <2>2, MoveType, AnswerType DEF ResolveContact
  <2> QED BY <2>1, <2>3 DEF Labels, JobOK
<1>3. CASE CreateDeal(h)
  <2>1. /\ used' \in [Disturbances -> Nat]
        /\ UNCHANGED <<linked, catalog, goods, tries, oks>>
        /\ job[h].order \in Orders /\ job[h] \in JobRow
    BY <1>3, SpendType, Kinds DEF CreateDeal
  <2>2. /\ Len(deals) \in Nat
        /\ deals' = deals \/ deals' = Append(deals, job[h].order)
    BY <1>3 DEF CreateDeal
  <2>3. /\ deals' \in Seq(Orders)
        /\ goods' \in Seq([deal : 1..Len(deals'), chunk : Nat, rows : SUBSET Nat])
    BY <2>1, <2>2, DealsType DEF Call
  <2>4. /\ pc' \in [Handlers -> Labels] /\ job' \in [Handlers -> JobRow]
        /\ \A g \in Handlers : JobOK(pc'[g], job'[g])
    <3>1. CASE Answer(h)
      BY <3>1, AnswerType
    <3>2. CASE ~Answer(h)
      <4> DEFINE j == [job[h] EXCEPT !.deal = Len(deals) + 1, !.chunk = 1]
      <4>1. /\ job' = [job EXCEPT ![h] = j] /\ pc' = [pc EXCEPT ![h] = "goods"]
        BY <1>3, <3>2 DEF CreateDeal, Goto
      <4>2. j \in JobRow /\ JobOK("goods", j) /\ "goods" \in Labels
        <5>1. j.order = job[h].order /\ j.deal \in Nat /\ j.chunk = 1 /\ j \in JobRow
          <6>1. Len(deals) + 1 \in Nat /\ 1 \in Nat
            BY <2>2
          <6> QED BY <2>1, <6>1, Zenon DEF JobRow
        <5>2. 1 \in 1..Chunks(job[h].order)
          BY <2>1, ChunkFacts
        <5> HIDE DEF j
        <5> QED BY <2>1, <5>1, <5>2 DEF JobOK, Labels
      <4> QED
        <5> HIDE DEF j
        <5> QED BY <4>1, <4>2, HandlerType
    <3> QED BY <3>1, <3>2
  <2> QED BY <2>1, <2>3, <2>4 DEF Labels, JobOK
<1>4. CASE AddChunk(h)
  <2>1. /\ used' \in [Disturbances -> Nat] /\ pc[h] = "goods"
        /\ UNCHANGED <<linked, catalog, deals, tries>> /\ job[h].order \in Orders
    BY <1>4, SpendType, Kinds DEF AddChunk
  <2>0. job[h].deal \in 1..Len(deals)
    BY <1>4 DEF AddChunk
  <2>2. \A S \in SUBSET ChunkRows(job[h].order, job[h].chunk) :
          Sent(h, S) \in Seq(Call(Len(deals)))
    BY <2>0, <2>1, RowsType, SentType
  <2>3. goods' \in Seq(Call(Len(deals)))
    BY <1>4, <2>2 DEF AddChunk, Call
  <2>4. ChunkDone(h) \/ (Answer(h) /\ UNCHANGED oks)
    BY <1>4 DEF AddChunk
  <2>5. /\ pc' \in [Handlers -> Labels] /\ job' \in [Handlers -> JobRow]
        /\ \A g \in Handlers : JobOK(pc'[g], job'[g])
        /\ oks' \subseteq Answers
    BY <2>1, <2>4, ChunkType, AnswerType
  <2> QED BY <2>1, <2>3, <2>5 DEF Call, Labels, JobOK
<1> QED BY <1>1, <1>2, <1>3, <1>4 DEF Handle

-----------------------------------------------------------------------------
(* Chunks in turn *)

ChunksOf(d) == {goods[n].chunk : n \in CallsFor(d)}

(* The rows of a call are those of its chunk, the first of them at least. *)
Sound(n) ==
  /\ FirstOf(goods[n].chunk) \in goods[n].rows
  /\ used["refuse"] = 0 => goods[n].rows = ChunkRows(deals[goods[n].deal], goods[n].chunk)

(* A Deal d of order o, k chunks of which went through. *)
Built(d, o, k) ==
  /\ d \in DOMAIN deals /\ deals[d] = o
  /\ ChunksOf(d) = 1..k
  /\ \A n \in CallsFor(d) : Sound(n)

(* A handler that sends Goods is the only one at its Deal. *)
Sending(h) ==
  pc[h] = "goods" =>
    /\ Built(job[h].deal, job[h].order, job[h].chunk - 1)
    /\ \A g \in Handlers \ {h} : pc[g] = "goods" => job[g].deal # job[h].deal

(* An answered Deal is left alone. *)
Finished(a) ==
  /\ Built(a.deal, a.order, Chunks(a.order))
  /\ \A h \in Handlers : pc[h] = "goods" => job[h].deal # a.deal

IInv ==
  /\ TypeOK
  /\ \A h \in Handlers : Sending(h)
  /\ \A a \in oks : Finished(a)
  /\ ChunksInTurn

LEMMA InitInv == Init => IInv
<1> SUFFICES ASSUME Init PROVE IInv
  OBVIOUS
<1>1. TypeOK
  BY InitType
<1>2. DOMAIN goods = {} /\ oks = {} /\ \A h \in Handlers : pc[h] = "idle"
  BY DEF Init
<1> QED BY <1>1, <1>2 DEF IInv, Sending, ChunksInTurn

LEMMA CallType ==
  ASSUME TypeOK
  PROVE  /\ goods \in Seq(Call(Len(deals)))
         /\ \A n \in DOMAIN goods : goods[n] \in Call(Len(deals)) /\ goods[n].deal \in DOMAIN deals
<1>1. goods \in Seq(Call(Len(deals))) /\ deals \in Seq(Orders)
  BY DEF TypeOK, Call
<1>2. DOMAIN deals = 1..Len(deals) /\ \A n \in DOMAIN goods : goods[n] \in Call(Len(deals))
  BY <1>1, ElementOfSeq, LenProperties
<1> QED BY <1>1, <1>2 DEF Call

LEMMA DealsKept ==
  ASSUME TypeOK, deals' = deals \/ \E q \in Orders : deals' = Append(deals, q)
  PROVE  /\ DOMAIN deals \subseteq DOMAIN deals'
         /\ \A i \in DOMAIN deals : deals'[i] = deals[i]
<1>1. deals \in Seq(Orders)
  BY DEF TypeOK
<1>2. CASE deals' = deals
  BY <1>2
<1>3. ASSUME NEW q \in Orders, deals' = Append(deals, q)
      PROVE  /\ DOMAIN deals \subseteq DOMAIN deals'
             /\ \A i \in DOMAIN deals : deals'[i] = deals[i]
  <2>1. /\ Len(deals) \in Nat /\ DOMAIN deals = 1..Len(deals)
        /\ DOMAIN deals' = 1..(Len(deals) + 1)
        /\ \A i \in 1..Len(deals) : deals'[i] = deals[i]
    BY <1>1, <1>3, Appended
  <2> QED BY <2>1
<1> QED BY <1>2, <1>3

(* What a Deal has stays, if the call that is added, if any, is another's. *)
LEMMA BuiltKept ==
  ASSUME TypeOK, NEW d, NEW o, NEW k, Built(d, o, k),
         deals' = deals \/ \E q \in Orders : deals' = Append(deals, q),
         goods' = goods \/ \E c \in Call(Len(deals)) : c.deal # d /\ goods' = Append(goods, c),
         used'["refuse"] = 0 => used["refuse"] = 0
  PROVE  Built(d, o, k)'
<1>1. /\ DOMAIN deals \subseteq DOMAIN deals'
      /\ \A i \in DOMAIN deals : deals'[i] = deals[i]
  BY DealsKept
<1>2. /\ DOMAIN goods \subseteq DOMAIN goods'
      /\ \A n \in DOMAIN goods : goods'[n] = goods[n]
      /\ \A n \in DOMAIN goods' \ DOMAIN goods : goods'[n].deal # d
  <2>1. goods \in Seq(Call(Len(deals)))
    BY DEF TypeOK, Call
  <2> QED BY <2>1, Appended
<1>3. CallsFor(d)' = CallsFor(d)
  BY <1>2 DEF CallsFor
<1>4. CallsFor(d) \subseteq DOMAIN goods /\ \A n \in CallsFor(d) : goods[n].deal = d
  BY DEF CallsFor
<1>5. ChunksOf(d)' = ChunksOf(d)
  BY <1>2, <1>3, <1>4 DEF ChunksOf
<1>6. d \in DOMAIN deals /\ deals[d] = o
  BY DEF Built
<1>7. ASSUME NEW n \in CallsFor(d) PROVE Sound(n)'
  BY <1>1, <1>2, <1>4, <1>6 DEF Built, Sound
<1> QED BY <1>1, <1>3, <1>5, <1>6, <1>7 DEF Built

(* Handlers that were not sending Goods before are not, and nothing is sent. *)
LEMMA QuietStep ==
  ASSUME IInv, TypeOK', goods' = goods, oks' = oks,
         deals' = deals \/ \E q \in Orders : deals' = Append(deals, q),
         used'["refuse"] = 0 => used["refuse"] = 0,
         \A h \in Handlers : pc'[h] = "goods" => pc[h] = "goods" /\ job'[h] = job[h]
  PROVE  IInv'
<1>1. \A d, o, k : Built(d, o, k) => Built(d, o, k)'
  BY BuiltKept DEF IInv
<1>2. \A h \in Handlers : Sending(h)'
  BY <1>1 DEF IInv, Sending
<1>3. \A a \in oks' : Finished(a)'
  BY <1>1 DEF IInv, Finished
<1>4. ChunksInTurn'
  <2>1. \A i \in DOMAIN deals : deals'[i] = deals[i]
    BY DealsKept DEF IInv
  <2>2. \A n \in DOMAIN goods : goods[n].deal \in DOMAIN deals
    BY CallType DEF IInv
  <2>3. \A d : CallsFor(d)' = CallsFor(d)
    BY DEF CallsFor
  <2> QED BY <2>1, <2>2, <2>3 DEF IInv, ChunksInTurn
<1> QED BY <1>2, <1>3, <1>4 DEF IInv

LEMMA CreateStep ==
  ASSUME IInv, TypeOK', NEW h \in Handlers, CreateDeal(h)
  PROVE  IInv'
<1>0. PICK new : new = Len(deals) + 1
  OBVIOUS
<1> DEFINE j == [job[h] EXCEPT !.deal = new, !.chunk = 1]
<1>1. /\ goods' = goods /\ oks' = oks /\ job[h].order \in Orders /\ job[h] \in JobRow
      /\ deals \in Seq(Orders) /\ pc \in [Handlers -> Labels] /\ job \in [Handlers -> JobRow]
      /\ deals' = deals \/ deals' = Append(deals, job[h].order)
  BY DEF CreateDeal, IInv, TypeOK, Labels
<1>2. used'["refuse"] = 0 => used["refuse"] = 0
  BY DEF CreateDeal, Spend, IInv, TypeOK, Disturbances
<1>3. CASE Answer(h)
  <2>1. \A g \in Handlers : pc'[g] = "goods" => pc[g] = "goods" /\ job'[g] = job[g]
    BY <1>1, <1>3 DEF Answer, Goto
  <2> QED BY <1>1, <1>2, <2>1, QuietStep
<1>4. CASE ~Answer(h)
  <2>1. /\ deals' = Append(deals, job[h].order)
        /\ job' = [job EXCEPT ![h] = j] /\ pc' = [pc EXCEPT ![h] = "goods"]
    BY <1>0, <1>4 DEF CreateDeal, Goto
  <2>2. j.deal = new /\ j.chunk = 1 /\ j.order = job[h].order
    BY <1>1 DEF JobRow
  <2> HIDE DEF j
  <2>3. \A g \in Handlers : /\ pc'[g] = IF g = h THEN "goods" ELSE pc[g]
                            /\ job'[g] = IF g = h THEN j ELSE job[g]
    BY <1>1, <2>1
  <2>4. /\ Len(deals) \in Nat /\ DOMAIN deals = 1..Len(deals) /\ DOMAIN deals' = 1..new
        /\ deals'[new] = job[h].order
    BY <1>0, <1>1, <2>1, Appended
  <2>5. new \notin DOMAIN deals /\ new \in DOMAIN deals'
    BY <1>0, <2>4
  <2>6. CallsFor(new)' = {}
    BY <1>1, <2>5, CallType DEF CallsFor, IInv
  <2>7. \A o : o = job[h].order => Built(new, o, 0)'
    BY <2>4, <2>5, <2>6 DEF Built, ChunksOf
  <2>8. \A d, o, k : Built(d, o, k) => Built(d, o, k)' /\ d # new
    BY <1>1, <1>2, <2>1, <2>5, BuiltKept DEF IInv, Built
  <2>9. ASSUME NEW g \in Handlers PROVE Sending(g)'
    <3>1. CASE g = h
      <4>1. \A f \in Handlers \ {h} : pc'[f] = "goods" => job'[f].deal # new
        BY <2>3, <2>8 DEF IInv, Sending
      <4> QED BY <2>2, <2>3, <2>7, <3>1, <4>1 DEF Sending
    <3>2. CASE g # h
      BY <2>2, <2>3, <2>8, <3>2 DEF IInv, Sending
    <3> QED BY <3>1, <3>2
  <2>10. \A a \in oks' : Finished(a)'
    BY <1>1, <2>2, <2>3, <2>8 DEF IInv, Finished
  <2>11. ChunksInTurn'
    <3>1. \A i \in DOMAIN deals : deals'[i] = deals[i]
      BY <1>1, <2>1, DealsKept DEF IInv
    <3>2. \A n \in DOMAIN goods : goods[n].deal \in DOMAIN deals
      BY CallType DEF IInv
    <3>3. \A d : CallsFor(d)' = CallsFor(d)
      BY <1>1 DEF CallsFor
    <3> QED BY <1>1, <3>1, <3>2, <3>3 DEF IInv, ChunksInTurn
  <2> QED BY <2>9, <2>10, <2>11 DEF IInv
<1> QED BY <1>3, <1>4

(* A Goods call reaches Zoho. *)
InTurn(n, d) ==
  goods[n].deal = d =>
    /\ goods[n].rows \subseteq ChunkRows(deals[d], goods[n].chunk)
    /\ {goods[m].chunk : m \in {m \in CallsFor(d) : m < n}} = 1..(goods[n].chunk - 1)

LEMMA InTurnAll == ChunksInTurn <=> \A n \in DOMAIN goods : \A d : InTurn(n, d)
BY DEF ChunksInTurn, InTurn

LEMMA SentStep ==
  ASSUME IInv, NEW h \in Handlers, pc[h] = "goods", deals' = deals,
         NEW d, NEW o, NEW k, d = job[h].deal, o = job[h].order, k = job[h].chunk,
         NEW S \in SUBSET ChunkRows(o, k), goods' = Sent(h, S),
         used'["refuse"] = 0 => used["refuse"] = 0
  PROVE  /\ ChunksInTurn'
         /\ \A e, q, n : Built(e, q, n) /\ e # d => Built(e, q, n)'
         /\ FirstOf(k) \in S /\ (used'["refuse"] = 0 => S = ChunkRows(o, k)) => Built(d, o, k)'
<1>0. PICK new : new = Len(goods) + 1
  OBVIOUS
<1> DEFINE c == [deal |-> d, chunk |-> k, rows |-> S]
<1>1. /\ Built(d, o, k - 1) /\ TypeOK
      /\ o \in Orders /\ k \in Nat \ {0} /\ deals \in Seq(Orders)
  BY ChunkFacts DEF IInv, Sending, TypeOK, JobRow
<1>2. c \in Call(Len(deals)) /\ goods' = Append(goods, c)
  <2>1. S \in SUBSET Nat /\ d \in 1..Len(deals)
    BY <1>1, RowsType, LenProperties DEF Built
  <2> QED BY <1>1, <2>1, SentType DEF Sent
<1>3. c.deal = d /\ c.chunk = k /\ c.rows = S
  OBVIOUS
<1> HIDE DEF c
<1>4. /\ Len(goods) \in Nat /\ DOMAIN goods = 1..Len(goods) /\ DOMAIN goods' = 1..new
      /\ \A n \in DOMAIN goods : goods'[n] = goods[n]
      /\ goods'[new] = c
  BY <1>0, <1>1, <1>2, CallType, Appended
<1>5. \A e : CallsFor(e)' = IF e = d THEN CallsFor(e) \cup {new} ELSE CallsFor(e)
  <2>1. DOMAIN goods' = DOMAIN goods \cup {new}
    BY <1>0, <1>4
  <2> QED BY <1>3, <1>4, <2>1 DEF CallsFor
<1>6. \A e : \A n \in CallsFor(e) : n \in DOMAIN goods /\ n < new /\ goods[n].deal = e
  BY <1>0, <1>4 DEF CallsFor
<1>7. ChunksOf(d) = 1..(k - 1) /\ deals[d] = o
  BY <1>1 DEF Built
<1>8. ChunksInTurn'
  <2> SUFFICES ASSUME NEW n \in DOMAIN goods', NEW e PROVE InTurn(n, e)'
    BY DEF ChunksInTurn, InTurn
  <2>1. CASE n = new
    <3>1. {m \in CallsFor(d)' : m < n} = CallsFor(d)
      BY <1>0, <1>4, <1>5, <1>6, <2>1
    <3>2. {goods'[m].chunk : m \in CallsFor(d)} = ChunksOf(d)
      BY <1>4, <1>6 DEF ChunksOf
    <3>3. goods'[n].deal = d /\ goods'[n].chunk = k /\ goods'[n].rows = S
      BY <1>3, <1>4, <2>1
    <3> QED BY <1>7, <3>1, <3>2, <3>3 DEF InTurn
  <2>2. CASE n \in DOMAIN goods
    <3>1. {m \in CallsFor(e)' : m < n} = {m \in CallsFor(e) : m < n}
      BY <1>0, <1>4, <1>5, <2>2
    <3>2. \A m \in CallsFor(e) : goods'[m] = goods[m]
      BY <1>4, <1>6
    <3>3. goods'[n] = goods[n] /\ InTurn(n, e)
      BY <1>4, <2>2, InTurnAll DEF IInv
    <3>4. {goods'[m].chunk : m \in {m \in CallsFor(e) : m < n}}
            = {goods[m].chunk : m \in {m \in CallsFor(e) : m < n}}
      BY <3>2
    <3> QED BY <3>1, <3>3, <3>4 DEF InTurn
  <2> QED BY <1>0, <1>4, <2>1, <2>2
<1>9. \A e, q, n : Built(e, q, n) /\ e # d => Built(e, q, n)'
  BY <1>1, <1>2, <1>3, BuiltKept
<1>10. ASSUME FirstOf(k) \in S,
              used'["refuse"] = 0 => S = ChunkRows(o, k)
       PROVE  Built(d, o, k)'
  <2>1. ChunksOf(d)' = ChunksOf(d) \cup {k}
    BY <1>3, <1>4, <1>5, <1>6 DEF ChunksOf
  <2>2. 1..(k - 1) \cup {k} = 1..k
    BY <1>1
  <2>3. ASSUME NEW n \in CallsFor(d)' PROVE Sound(n)'
    <3>1. CASE n = new
      BY <1>3, <1>4, <1>7, <1>10, <3>1 DEF Sound
    <3>2. CASE n \in CallsFor(d)
      <4>1. Sound(n) /\ goods'[n] = goods[n]
        BY <1>1, <1>4, <1>6, <3>2 DEF Built
      <4> QED BY <4>1 DEF Sound
    <3> QED BY <1>5, <2>3, <3>1, <3>2
  <2> QED BY <1>1, <1>7, <2>1, <2>2, <2>3 DEF Built
<1> QED BY <1>8, <1>9, <1>10

(* The Deal in hand, and the others, when the chunk went through or did not. *)
LEMMA AddStep ==
  ASSUME IInv, TypeOK', NEW h \in Handlers, AddChunk(h)
  PROVE  IInv'
<1>0. PICK d, o, k : d = job[h].deal /\ o = job[h].order /\ k = job[h].chunk
  OBVIOUS
<1>1. /\ pc[h] = "goods" /\ deals' = deals /\ o \in Orders /\ k \in 1..Chunks(o)
      /\ pc \in [Handlers -> Labels] /\ job \in [Handlers -> JobRow] /\ job[h] \in JobRow
      /\ Chunks(o) \in Nat
  BY <1>0, ChunkFacts DEF AddChunk, IInv, TypeOK, Labels
<1>2. used'["refuse"] = 0 => used["refuse"] = 0
  BY DEF AddChunk, Spend, IInv, TypeOK, Disturbances
<1>3. \A g \in Handlers \ {h} : pc'[g] = pc[g] /\ job'[g] = job[g]
  BY <1>1 DEF AddChunk, ChunkDone, Answer, Goto
<1>4. CASE goods' = goods /\ Answer(h) /\ UNCHANGED oks
  <2>1. \A g \in Handlers : pc'[g] = "goods" => pc[g] = "goods" /\ job'[g] = job[g]
    BY <1>1, <1>4 DEF Answer, Goto
  <2> QED BY <1>1, <1>2, <1>4, <2>1, QuietStep
<1>5. ASSUME NEW S \in SUBSET ChunkRows(o, k), goods' = Sent(h, S), Answer(h), UNCHANGED oks
      PROVE  IInv'
  <2>1. ChunksInTurn' /\ \A e, q, n : Built(e, q, n) /\ e # d => Built(e, q, n)'
    BY <1>0, <1>1, <1>2, <1>5, SentStep
  <2>2. pc'[h] = "idle"
    BY <1>1, <1>5 DEF Answer, Goto
  <2>3. \A g \in Handlers : Sending(g)'
    BY <1>0, <1>1, <1>3, <2>1, <2>2 DEF IInv, Sending
  <2>4. \A a \in oks' : Finished(a)'
    BY <1>0, <1>1, <1>3, <1>5, <2>1, <2>2 DEF IInv, Finished
  <2> QED BY <2>1, <2>3, <2>4 DEF IInv
<1>6. ASSUME NEW S \in SUBSET ChunkRows(o, k), goods' = Sent(h, S), FirstOf(k) \in S,
             used'["refuse"] = 0 => S = ChunkRows(o, k), ChunkDone(h)
      PROVE  IInv'
  <2>1. /\ ChunksInTurn' /\ \A e, q, n : Built(e, q, n) /\ e # d => Built(e, q, n)'
        /\ Built(d, o, k)'
    BY <1>0, <1>1, <1>2, <1>6, SentStep
  <2>2. CASE k < Chunks(o)
    <3>1. pc' = pc /\ oks' = oks /\ job' = [job EXCEPT ![h].chunk = k + 1]
      BY <1>0, <1>6, <2>2 DEF ChunkDone
    <3>2. /\ job'[h].deal = d /\ job'[h].order = o /\ job'[h].chunk = k + 1
      BY <1>0, <1>1, <3>1 DEF JobRow
    <3>3. (k + 1) - 1 = k
      BY <1>1
    <3>4. \A g \in Handlers \ {h} : pc[g] = "goods" => job[g].deal # d
      BY <1>0, <1>1 DEF IInv, Sending
    <3>5. ASSUME NEW g \in Handlers PROVE Sending(g)'
      <4>1. CASE g = h
        BY <1>3, <2>1, <3>1, <3>2, <3>3, <3>4, <4>1 DEF Sending
      <4>2. CASE g # h
        BY <1>3, <2>1, <3>1, <3>2, <3>4, <4>2 DEF IInv, Sending
      <4> QED BY <4>1, <4>2
    <3>6. \A a \in oks' : Finished(a)'
      BY <1>0, <1>1, <1>3, <2>1, <3>1, <3>2 DEF IInv, Finished
    <3> QED BY <2>1, <3>5, <3>6 DEF IInv
  <2>3. CASE ~(k < Chunks(o))
    <3>1. Answer(h) /\ oks' = oks \cup {[order |-> o, deal |-> d]} /\ k = Chunks(o)
      BY <1>0, <1>1, <1>6, <2>3 DEF ChunkDone
    <3>2. pc'[h] = "idle"
      BY <1>1, <3>1 DEF Answer, Goto
    <3>3. \A g \in Handlers : Sending(g)'
      BY <1>0, <1>1, <1>3, <2>1, <3>2 DEF IInv, Sending
    <3>4. ASSUME NEW a \in oks' PROVE Finished(a)'
      <4>1. CASE a \in oks
        BY <1>0, <1>1, <1>3, <2>1, <3>2, <4>1 DEF IInv, Finished
      <4>2. CASE a = [order |-> o, deal |-> d]
        <5>1. a.order = o /\ a.deal = d /\ Built(a.deal, a.order, Chunks(a.order))'
          BY <2>1, <3>1, <4>2
        <5> QED BY <1>0, <1>1, <1>3, <3>2, <5>1 DEF IInv, Sending, Finished
      <4> QED BY <3>1, <4>1, <4>2
    <3> QED BY <2>1, <3>3, <3>4 DEF IInv
  <2> QED BY <2>2, <2>3
<1>7. FirstOf(k) \in ChunkRows(o, k)
  BY <1>1, ChunkFacts
<1>8. \A S : Spend("refuse") => used'["refuse"] # 0
  BY DEF Spend, IInv, TypeOK, Disturbances
<1> QED
  <2>1. CASE goods' = Sent(h, ChunkRows(o, k)) /\ ChunkDone(h)
    BY <1>6, <1>7, <2>1
  <2>2. CASE \E S \in SUBSET ChunkRows(o, k) :
               /\ Spend("refuse") /\ goods' = Sent(h, S)
               /\ FirstOf(k) \in S /\ ChunkDone(h)
    BY <1>6, <1>8, <2>2
  <2>3. CASE \E S \in SUBSET ChunkRows(o, k) : goods' = Sent(h, S) /\ Answer(h) /\ UNCHANGED oks
    BY <1>5, <2>3
  <2> QED BY <1>0, <1>4, <2>1, <2>2, <2>3 DEF AddChunk

LEMMA StepInv == IInv /\ [Next]_vars => IInv'
<1> SUFFICES ASSUME IInv, [Next]_vars PROVE IInv'
  OBVIOUS
<1>0. TypeOK /\ pc \in [Handlers -> Labels] /\ job \in [Handlers -> JobRow]
  BY DEF IInv, TypeOK, Labels
<1>1. ASSUME NEW h \in Handlers, Handle(h) PROVE IInv'
  <2>1. pc[h] = "goods" => job[h].deal \in 1..Len(deals)
    BY <1>0, LenProperties DEF IInv, Sending, Built, TypeOK
  <2>2. TypeOK'
    BY <1>0, <1>1, <2>1, HandleType
  <2>3. CASE ResolveItem(h) \/ ResolveContact(h)
    <3>1. /\ goods' = goods /\ oks' = oks /\ deals' = deals
          /\ used'["refuse"] = 0 => used["refuse"] = 0
      BY <1>0, <2>3 DEF ResolveItem, ResolveContact, Spend, TypeOK, Disturbances
    <3>2. \A g \in Handlers : pc'[g] = "goods" => pc[g] = "goods" /\ job'[g] = job[g]
      BY <1>0, <2>3 DEF ResolveItem, ResolveContact, ItemDone, Answer, Goto
    <3> QED BY <2>2, <3>1, <3>2, QuietStep
  <2> QED BY <1>1, <2>2, <2>3, CreateStep, AddStep DEF Handle
<1>2. ASSUME NEW h \in Handlers, NEW o \in Orders, Deliver(h, o) PROVE IInv'
  <2> DEFINE j == [NoJob EXCEPT !.order = o, !.item = 1]
  <2>1. j \in JobRow /\ JobOK("resolve", j) /\ "resolve" \in Labels
    <3>2. j \in JobRow /\ j.order = o /\ j.item = 1
      BY NoJobType DEF JobRow
    <3> HIDE DEF j
    <3>3. 1 \in 1..Len(Items[o])
      BY ItemsType
    <3> QED BY <3>2, <3>3 DEF JobOK, Labels
  <2>2. job' = [job EXCEPT ![h] = j] /\ pc' = [pc EXCEPT ![h] = "resolve"]
        /\ UNCHANGED <<linked, catalog, deals, goods, oks, used>>
        /\ tries' = [tries EXCEPT ![o] = @ + 1]
    BY <1>2 DEF Deliver, Goto
  <2> HIDE DEF j
  <2>3. TypeOK'
    <3>1. /\ pc' \in [Handlers -> Labels] /\ job' \in [Handlers -> JobRow]
          /\ \A g \in Handlers : JobOK(pc'[g], job'[g])
      BY <1>0, <2>1, <2>2, HandlerType
    <3> QED BY <1>0, <2>2, <3>1 DEF TypeOK, Labels, JobOK
  <2>4. \A g \in Handlers : pc'[g] = "goods" => pc[g] = "goods" /\ job'[g] = job[g]
    BY <1>0, <2>2
  <2> QED BY <2>2, <2>3, <2>4, QuietStep
<1>3. CASE Crash
  <2>1. \A g \in Handlers : pc'[g] = "idle"
    BY <1>3 DEF Crash
  <2>2. TypeOK'
    <3>1. used' \in [Disturbances -> Nat]
      BY <1>0, <1>3, SpendType, Kinds DEF Crash
    <3> QED BY <1>0, <1>3, <3>1, NoJobType DEF Crash, TypeOK
  <2>3. used'["refuse"] = 0 => used["refuse"] = 0
    BY <1>0, <1>3 DEF Crash, Spend, TypeOK, Disturbances
  <2> QED BY <1>3, <2>1, <2>2, <2>3, QuietStep DEF Crash
<1>4. CASE UNCHANGED <<linked, deals, goods, pc, job, tries, oks, used>> /\ catalog' \subseteq Products
  <2>1. TypeOK'
    BY <1>0, <1>4 DEF TypeOK
  <2> QED BY <1>4, <2>1, QuietStep
<1>5. ASSUME NEW p \in Products, CatalogAdds(p) PROVE IInv'
  BY <1>0, <1>4, <1>5 DEF CatalogAdds, TypeOK
<1>6. CASE UNCHANGED vars
  BY <1>0, <1>4, <1>6 DEF vars, TypeOK
<1> QED BY <1>1, <1>2, <1>3, <1>5, <1>6 DEF Next

THEOREM Inductive == Spec => []IInv
BY InitInv, StepInv, PTL DEF Spec

(* Every local value and record keeps its type, for any portal and any crash. *)
THEOREM TypeCorrect == Spec => []TypeOK
<1>1. IInv => TypeOK
  BY DEF IInv
<1> QED BY <1>1, Inductive, PTL

(* addGoods: however many handlers work, on whatever orders, a Deal gets the   *)
(* chunks of its own order, each once, from the first on.                     *)
THEOREM ChunksAlwaysInTurn == Spec => []ChunksInTurn
<1>1. IInv => ChunksInTurn
  BY DEF IInv
<1> QED BY <1>1, Inductive, PTL

-----------------------------------------------------------------------------
(* What is answered *)

(* As many calls as chunks: no two calls for a Deal carry the same chunk. *)
LEMMA CallsCounted ==
  ASSUME IInv, NEW d, NEW k \in Nat, ChunksOf(d) = 1..k
  PROVE  IsFiniteSet(CallsFor(d)) /\ Cardinality(CallsFor(d)) = k
<1> DEFINE f == [n \in CallsFor(d) |-> goods[n].chunk]
<1>1. f \in [CallsFor(d) -> 1..k] /\ \A c \in 1..k : \E n \in CallsFor(d) : f[n] = c
  BY DEF ChunksOf
<1>2. ASSUME NEW n \in CallsFor(d), NEW m \in CallsFor(d), n < m PROVE f[n] # f[m]
  <2>1. m \in DOMAIN goods /\ goods[m].deal = d /\ goods[m].chunk \in Nat
    BY CallType DEF CallsFor, Call, IInv
  <2>2. goods[n].chunk \in 1..(goods[m].chunk - 1)
    BY <1>2, <2>1 DEF IInv, ChunksInTurn
  <2> QED BY <2>1, <2>2
<1>3. \A n, m \in CallsFor(d) : n \in Nat /\ m \in Nat
  BY LenProperties, CallType DEF CallsFor, IInv
<1>4. f \in Injection(CallsFor(d), 1..k) /\ f \in Surjection(CallsFor(d), 1..k)
  <2>1. \A n, m \in CallsFor(d) : n # m => f[n] # f[m]
    BY <1>2, <1>3
  <2> HIDE DEF f
  <2> QED BY <1>1, <2>1 DEF Injection, Surjection, IsInjective
<1>5. IsFiniteSet(1..k) /\ Cardinality(1..k) = k
  BY FS_Interval
<1> QED BY <1>4, <1>5, FS_Injection

(* A call that did not bring all rows of its chunk. *)
Cut(d) == \E n \in CallsFor(d) : goods[n].rows # ChunkRows(deals[d], goods[n].chunk)

LEMMA Whole ==
  ASSUME NEW d, NEW o \in Orders, Built(d, o, Chunks(o)), ~Cut(d)
  PROVE  Complete(d)
<1>1. \A n \in CallsFor(d) : goods[n].rows = ChunkRows(o, goods[n].chunk)
  BY DEF Built, Cut
<1>2. ASSUME NEW n \in CallsFor(d) PROVE goods[n].rows \subseteq 1..Len(Items[o])
  BY <1>1 DEF ChunkRows
<1>3. ASSUME NEW i \in 1..Len(Items[o]) PROVE i \in RowsOf(d)
  <2>1. PICK k \in 1..Chunks(o) : i \in ChunkRows(o, k)
    BY ChunkFacts
  <2>2. PICK n \in CallsFor(d) : goods[n].chunk = k
    BY DEF Built, ChunksOf
  <2> QED BY <1>1, <2>1, <2>2 DEF RowsOf
<1>4. RowsOf(d) = 1..Len(Items[o])
  BY <1>2, <1>3 DEF RowsOf
<1> QED BY <1>4 DEF Built, Complete

LEMMA WholeNext == (\A d : \A o \in Orders : Built(d, o, Chunks(o)) /\ ~Cut(d) => Complete(d))'
<1>1. \A d : \A o \in Orders : Built(d, o, Chunks(o)) /\ ~Cut(d) => Complete(d)
  BY Whole
<1> QED BY <1>1, PTL

LEMMA AllSound ==
  ASSUME NEW d, NEW o \in Orders, Built(d, o, Chunks(o)), used["refuse"] = 0
  PROVE  Complete(d)
<1>1. ~Cut(d)
  BY DEF Built, Sound, Cut, CallsFor
<1> QED BY <1>1, Whole

(* B2BWebhook answers "Success": the Deal is of that order, got each of its    *)
(* chunks once, and lacks a line only if Zoho refused one beside the first.   *)
THEOREM AnsweredAlwaysInFull == Spec => []AnsweredInFull
<1>1. IInv => AnsweredInFull
  <2> SUFFICES ASSUME IInv, NEW a \in oks
               PROVE  /\ deals[a.deal] = a.order
                      /\ Cardinality(CallsFor(a.deal)) = Chunks(a.order)
                      /\ \A n \in CallsFor(a.deal) : FirstOf(goods[n].chunk) \in goods[n].rows
                      /\ ~Complete(a.deal) => used["refuse"] > 0
    BY DEF AnsweredInFull
  <2>1. Built(a.deal, a.order, Chunks(a.order)) /\ a.order \in Orders
    BY DEF IInv, Finished, TypeOK, Answers
  <2>2. Chunks(a.order) \in Nat
    BY <2>1, ChunkFacts
  <2>3. Cardinality(CallsFor(a.deal)) = Chunks(a.order)
    BY <2>1, <2>2, CallsCounted DEF Built
  <2>4. ~Complete(a.deal) => used["refuse"] # 0
    BY <2>1, AllSound
  <2>5. used["refuse"] \in Nat
    BY DEF IInv, TypeOK, Disturbances
  <2> QED BY <2>1, <2>3, <2>4, <2>5 DEF Built, Sound
<1> QED BY <1>1, Inductive, PTL

-----------------------------------------------------------------------------
(* One delivery, one Deal at most *)

(* Handlers that may still make a Deal for an order. *)
Pending(o) == {h \in Handlers : job[h].order = o /\ pc[h] # "goods"}

CInv ==
  /\ TypeOK
  /\ \A h \in Handlers : pc[h] = "idle" => job[h].order = 0
  /\ \A o \in Orders : IsFiniteSet(DealsOf(o))
  /\ DealsAccounted

LEMMA PendingFinite ==
  ASSUME IsFiniteSet(Handlers), NEW o PROVE IsFiniteSet(Pending(o))
BY FS_Subset DEF Pending

(* Nothing is delivered and no Deal is made: handlers go on or give up. *)
LEMMA NoneMade ==
  ASSUME IsFiniteSet(Handlers), CInv, UNCHANGED <<deals, tries>>,
         \A g \in Handlers : pc'[g] = "idle" => job'[g].order = 0,
         \A g \in Handlers : \/ pc'[g] = "idle"
                             \/ /\ job'[g].order = job[g].order
                                /\ pc'[g] # "goods" => pc[g] # "goods"
  PROVE  \A o \in Orders : IsFiniteSet(DealsOf(o)') /\ DealsAccounted'
<1>1. \A o : DealsOf(o)' = DealsOf(o)
  BY DEF DealsOf
<1>2. ASSUME NEW o \in Orders PROVE Cardinality(Pending(o)') <= Cardinality(Pending(o))
  <2>1. Pending(o)' \in SUBSET Pending(o)
    BY ItemsAssumption DEF Pending
  <2> QED BY <2>1, PendingFinite, FS_Subset
<1>3. ASSUME NEW o \in Orders
      PROVE  Cardinality(DealsOf(o)') + Cardinality(Pending(o)') <= tries'[o]
  <2>1. /\ Cardinality(DealsOf(o)) \in Nat /\ Cardinality(Pending(o)) \in Nat
        /\ tries[o] \in Nat
        /\ Cardinality(DealsOf(o)) + Cardinality(Pending(o)) <= tries[o]
    BY PendingFinite, FS_CardinalityType DEF CInv, DealsAccounted, Pending, TypeOK
  <2>2. IsFiniteSet(Pending(o)')
    BY FS_Subset DEF Pending
  <2>3. Cardinality(Pending(o)') \in Nat
    BY <2>2, FS_CardinalityType
  <2> QED BY <1>1, <1>2, <2>1, <2>3
<1> QED BY <1>1, <1>3 DEF CInv, DealsAccounted, Pending

(* A delivery: one more may come to a Deal. *)
LEMMA DeliverCounts ==
  ASSUME IsFiniteSet(Handlers), CInv, NEW h \in Handlers, NEW o \in Orders, Deliver(h, o)
  PROVE  /\ \A g \in Handlers : pc'[g] = "idle" => job'[g].order = 0
         /\ \A q \in Orders : IsFiniteSet(DealsOf(q)')
         /\ DealsAccounted'
<1>1. /\ pc[h] = "idle" /\ tries' = [tries EXCEPT ![o] = @ + 1] /\ deals' = deals
      /\ pc \in [Handlers -> Labels] /\ job \in [Handlers -> JobRow] /\ tries \in [Orders -> Nat]
  BY DEF Deliver, CInv, TypeOK, Labels
<1>2. \A g \in Handlers : /\ pc'[g] = IF g = h THEN "resolve" ELSE pc[g]
                          /\ job'[g].order = IF g = h THEN o ELSE job[g].order
  BY <1>1, NoJobType DEF Deliver, Goto, JobRow
<1>3. \A q : DealsOf(q)' = DealsOf(q)
  BY <1>1 DEF DealsOf
<1>4. job[h].order = 0
  BY <1>1 DEF CInv
<1>5. ASSUME NEW q \in Orders
      PROVE  Cardinality(DealsOf(q)') + Cardinality(Pending(q)') <= tries'[q]
  <2>1. /\ Cardinality(DealsOf(q)) \in Nat /\ Cardinality(Pending(q)) \in Nat
        /\ Cardinality(DealsOf(q)) + Cardinality(Pending(q)) <= tries[q]
    BY PendingFinite, FS_CardinalityType DEF CInv, DealsAccounted, Pending
  <2>2. Pending(q)' = IF q = o THEN Pending(q) \cup {h} ELSE Pending(q)
    <3>1. \A g \in Handlers : g \in Pending(q)' <=> g \in Pending(q) \/ (g = h /\ q = o)
      BY <1>1, <1>2, <1>4, ItemsAssumption DEF Pending
    <3>2. Pending(q) \subseteq Handlers /\ Pending(q)' \subseteq Handlers
      BY DEF Pending
    <3> QED BY <3>1, <3>2
  <2>3. /\ IsFiniteSet(Pending(q) \cup {h})
        /\ Cardinality(Pending(q) \cup {h})
             = IF h \in Pending(q) THEN Cardinality(Pending(q)) ELSE Cardinality(Pending(q)) + 1
    BY PendingFinite, FS_AddElement
  <2>4. Cardinality(Pending(q) \cup {h}) <= Cardinality(Pending(q)) + 1
    BY <2>1, <2>3
  <2>5. Cardinality(Pending(q) \cup {h}) \in Nat
    BY <2>1, <2>3
  <2> QED BY <1>1, <1>3, <2>1, <2>2, <2>4, <2>5
<1> QED BY <1>2, <1>3, <1>5 DEF CInv, DealsAccounted, Pending

(* A Deal: it takes the place of the handler that made it, which goes on to    *)
(* the Goods or gives up.                                                     *)
LEMMA CreateCounts ==
  ASSUME IsFiniteSet(Handlers), CInv, NEW h \in Handlers, pc[h] = "deal",
         deals' = Append(deals, job[h].order), tries' = tries,
         pc'[h] = "goods" \/ (pc'[h] = "idle" /\ job'[h].order = 0),
         \A g \in Handlers \ {h} : pc'[g] = pc[g] /\ job'[g] = job[g]
  PROVE  /\ \A g \in Handlers : pc'[g] = "idle" => job'[g].order = 0
         /\ \A q \in Orders : IsFiniteSet(DealsOf(q)')
         /\ DealsAccounted'
<1>0. PICK o \in Orders : o = job[h].order
  BY DEF CInv, TypeOK
<1>1. PICK new : new = Len(deals) + 1
  OBVIOUS
<1>2. /\ Len(deals) \in Nat /\ DOMAIN deals = 1..Len(deals) /\ DOMAIN deals' = 1..new
      /\ \A i \in DOMAIN deals : deals'[i] = deals[i]
      /\ deals'[new] = o
  BY <1>0, <1>1, Appended DEF CInv, TypeOK
<1>3. \A q : DealsOf(q)' = IF q = o THEN DealsOf(q) \cup {new} ELSE DealsOf(q)
  <2>1. DOMAIN deals' = DOMAIN deals \cup {new}
    BY <1>1, <1>2
  <2> QED BY <1>2, <2>1 DEF DealsOf
<1>4. ASSUME NEW q \in Orders PROVE Pending(q)' = IF q = o THEN Pending(q) \ {h} ELSE Pending(q)
  BY <1>0, ItemsAssumption DEF Pending
<1>5. h \in Pending(o)
  BY <1>0 DEF Pending
<1>6. ASSUME NEW q \in Orders
      PROVE  /\ IsFiniteSet(DealsOf(q)')
             /\ Cardinality(DealsOf(q)') + Cardinality(Pending(q)') <= tries'[q]
  <2>1. /\ IsFiniteSet(DealsOf(q)) /\ IsFiniteSet(Pending(q))
        /\ Cardinality(DealsOf(q)) \in Nat /\ Cardinality(Pending(q)) \in Nat
        /\ Cardinality(DealsOf(q)) + Cardinality(Pending(q)) <= tries[q]
    BY PendingFinite, FS_CardinalityType DEF CInv, DealsAccounted, Pending
  <2>2. CASE q # o
    BY <1>3, <1>4, <2>1, <2>2
  <2>3. CASE q = o
    <3>1. /\ IsFiniteSet(DealsOf(q) \cup {new})
          /\ Cardinality(DealsOf(q) \cup {new}) <= Cardinality(DealsOf(q)) + 1
          /\ Cardinality(DealsOf(q) \cup {new}) \in Nat
      <4>1. /\ IsFiniteSet(DealsOf(q) \cup {new})
            /\ Cardinality(DealsOf(q) \cup {new})
                 = IF new \in DealsOf(q) THEN Cardinality(DealsOf(q)) ELSE Cardinality(DealsOf(q)) + 1
        BY <2>1, FS_AddElement
      <4> QED BY <2>1, <4>1
    <3>2. Cardinality(Pending(q) \ {h}) = Cardinality(Pending(q)) - 1
      BY <1>5, <2>1, <2>3, FS_RemoveElement
    <3>3. tries'[q] = tries[q] /\ tries[q] \in Nat
      BY DEF CInv, TypeOK
    <3>4. DealsOf(q)' = DealsOf(q) \cup {new} /\ Pending(q)' = Pending(q) \ {h}
      BY <1>3, <1>4, <2>3
    <3>5. Cardinality(DealsOf(q) \cup {new}) + Cardinality(Pending(q) \ {h}) <= tries[q]
      BY <2>1, <3>1, <3>2, <3>3
    <3> QED BY <3>1, <3>3, <3>4, <3>5
  <2> QED BY <2>2, <2>3
<1> QED BY <1>6 DEF CInv, DealsAccounted, Pending

LEMMA CountStep ==
  ASSUME IsFiniteSet(Handlers), CInv, TypeOK', [Next]_vars
  PROVE  CInv'
<1>0. /\ TypeOK /\ pc \in [Handlers -> Labels] /\ job \in [Handlers -> JobRow]
      /\ \A g \in Handlers : pc[g] = "idle" => job[g].order = 0
  BY DEF CInv, TypeOK, Labels
<1>1. ASSUME NEW h \in Handlers, Handle(h) PROVE CInv'
  <2>1. CASE deals' = deals
    <3>1. tries' = tries /\ pc[h] # "idle"
      BY <1>1 DEF Handle, ResolveItem, ResolveContact, CreateDeal, AddChunk
    <3>2. \A g \in Handlers \ {h} : pc'[g] = pc[g] /\ job'[g] = job[g]
      BY <1>0, <1>1 DEF Handle, ResolveItem, ResolveContact, CreateDeal, AddChunk,
                        ItemDone, ChunkDone, Answer, Goto
    <3>3. \/ pc'[h] = "idle" /\ job'[h].order = 0
          \/ /\ job'[h].order = job[h].order /\ pc'[h] # "idle"
             /\ pc'[h] # "goods" => pc[h] # "goods"
      <4>1. CASE Answer(h)
        BY <1>0, <4>1, NoJobType DEF Answer, Goto
      <4>2. CASE ResolveItem(h) /\ ~Answer(h)
        BY <1>0, <4>2 DEF ResolveItem, ItemDone, Goto, JobRow
      <4>3. CASE ResolveContact(h) /\ ~Answer(h)
        BY <1>0, <4>3 DEF ResolveContact, Goto, JobRow
      <4>4. CASE CreateDeal(h) /\ ~Answer(h)
        BY <1>0, <4>4 DEF CreateDeal, Goto, JobRow
      <4>5. CASE AddChunk(h) /\ ~Answer(h)
        BY <1>0, <4>5 DEF AddChunk, ChunkDone, JobRow
      <4> QED BY <1>1, <4>1, <4>2, <4>3, <4>4, <4>5 DEF Handle
    <3>4. \A g \in Handlers : pc'[g] = "idle" => job'[g].order = 0
      BY <1>0, <3>2, <3>3
    <3>5. \A g \in Handlers : \/ pc'[g] = "idle"
                              \/ /\ job'[g].order = job[g].order
                                 /\ pc'[g] # "goods" => pc[g] # "goods"
      BY <3>2, <3>3
    <3>6. \A o \in Orders : IsFiniteSet(DealsOf(o)') /\ DealsAccounted'
      BY <2>1, <3>1, <3>4, <3>5, NoneMade
    <3> QED BY <3>4, <3>6 DEF CInv, DealsAccounted
  <2>2. CASE deals' # deals
    <3>1. CreateDeal(h)
      BY <1>1, <2>2 DEF Handle, ResolveItem, ResolveContact, AddChunk
    <3>2. /\ pc[h] = "deal" /\ deals' = Append(deals, job[h].order) /\ tries' = tries
          /\ \A g \in Handlers \ {h} : pc'[g] = pc[g] /\ job'[g] = job[g]
          /\ pc'[h] = "goods" \/ (pc'[h] = "idle" /\ job'[h].order = 0)
      BY <1>0, <2>2, <3>1, NoJobType DEF CreateDeal, Answer, Goto
    <3> QED BY <3>2, CreateCounts DEF CInv
  <2> QED BY <2>1, <2>2
<1>2. ASSUME NEW h \in Handlers, NEW o \in Orders, Deliver(h, o) PROVE CInv'
  BY <1>2, DeliverCounts DEF CInv
<1>3. CASE Crash \/ UNCHANGED <<deals, tries, pc, job>>
  <2>1. /\ \A g \in Handlers : pc'[g] = "idle" => job'[g].order = 0
        /\ \A g \in Handlers : \/ pc'[g] = "idle"
                               \/ /\ job'[g].order = job[g].order
                                  /\ pc'[g] # "goods" => pc[g] # "goods"
        /\ UNCHANGED <<deals, tries>>
    BY <1>0, <1>3, NoJobType DEF Crash
  <2>2. \A o \in Orders : IsFiniteSet(DealsOf(o)') /\ DealsAccounted'
    BY <2>1, NoneMade
  <2> QED BY <2>1, <2>2 DEF CInv, DealsAccounted
<1> QED BY <1>1, <1>2, <1>3 DEF Next, CatalogAdds, vars

(* B2BWebhook: nothing remembers what was handled, yet however deliveries      *)
(* overlap, fail and are cut short, an order never has more Deals than the     *)
(* portal delivered it.                                                       *)
THEOREM DealsAlwaysAccounted == IsFiniteSet(Handlers) => (Spec => []DealsAccounted)
<1> SUFFICES ASSUME IsFiniteSet(Handlers) PROVE Spec => []DealsAccounted
  OBVIOUS
<1>1. Init => CInv
  <2> SUFFICES ASSUME Init PROVE CInv
    OBVIOUS
  <2>1. \A o \in Orders : DealsOf(o) = {} /\ Pending(o) = {} /\ tries[o] = 0
    BY NoJobType, ItemsAssumption DEF Init, DealsOf, Pending
  <2>2. \A h \in Handlers : job[h].order = 0
    BY NoJobType DEF Init
  <2>3. IsFiniteSet({}) /\ Cardinality({}) = 0
    BY FS_EmptySet
  <2>4. DealsAccounted
    <3>1. \A o \in Orders : Cardinality(DealsOf(o)) + Cardinality(Pending(o)) <= tries[o]
      BY <2>1, <2>3
    <3> QED BY <3>1 DEF DealsAccounted, Pending
  <2> QED BY <2>1, <2>2, <2>3, <2>4, InitType DEF CInv
<1>2. CInv /\ [Next]_vars /\ TypeOK' => CInv'
  BY CountStep
<1>3. CInv => DealsAccounted
  BY DEF CInv
<1> QED BY <1>1, <1>2, <1>3, TypeCorrect, PTL DEF Spec

-----------------------------------------------------------------------------
(* The price of a Deal that lacks lines *)

(* Deals that were cut short: those abandoned, and those in hand of which a   *)
(* call already brought less than its chunk.                                  *)
Owing == {d \in DOMAIN deals : Cut(d) \/ (~InHand(d) /\ ~Complete(d))}
Price == used["fault"] + used["refuse"] + used["crash"] * Cardinality(Handlers)
Owed == IsFiniteSet(Owing) /\ Cardinality(Owing) <= Price

LEMMA PriceSteps ==
  ASSUME IsFiniteSet(Handlers), TypeOK
  PROVE  /\ Price \in Nat
         /\ UNCHANGED used => Price' = Price
         /\ Spend("fault") \/ Spend("refuse") => Price' = Price + 1
         /\ Spend("crash") => Price' = Price + Cardinality(Handlers)
<1> DEFINE H == Cardinality(Handlers)
<1>1. H \in Nat /\ used \in [Disturbances -> Nat]
  BY FS_CardinalityType DEF TypeOK
<1>2. used["fault"] \in Nat /\ used["refuse"] \in Nat /\ used["crash"] \in Nat
  BY <1>1 DEF Disturbances
<1>3. Price = used["fault"] + used["refuse"] + used["crash"] * H
  BY DEF Price
<1>4. Price' = used'["fault"] + used'["refuse"] + used'["crash"] * H
  BY DEF Price
<1> HIDE DEF H
<1>5. used["crash"] * H \in Nat
  BY <1>1, <1>2
<1>6. UNCHANGED used => Price' = Price
  BY <1>3, <1>4
<1>7. Spend("fault") \/ Spend("refuse") => Price' = Price + 1
  <2> SUFFICES ASSUME Spend("fault") \/ Spend("refuse") PROVE Price' = Price + 1
    OBVIOUS
  <2>1. \/ /\ used'["fault"] = used["fault"] + 1 /\ used'["refuse"] = used["refuse"]
        \/ /\ used'["fault"] = used["fault"] /\ used'["refuse"] = used["refuse"] + 1
    BY <1>1 DEF Spend, Disturbances
  <2>2. used'["crash"] = used["crash"]
    BY <1>1 DEF Spend, Disturbances
  <2> QED BY <1>2, <1>3, <1>4, <1>5, <2>1, <2>2
<1>8. Spend("crash") => Price' = Price + H
  <2> SUFFICES ASSUME Spend("crash") PROVE Price' = Price + H
    OBVIOUS
  <2>1. /\ used'["fault"] = used["fault"] /\ used'["refuse"] = used["refuse"]
        /\ used'["crash"] = used["crash"] + 1
    BY <1>1 DEF Spend, Disturbances
  <2>2. (used["crash"] + 1) * H = used["crash"] * H + H
    BY <1>1, <1>2
  <2> QED BY <1>1, <1>2, <1>3, <1>4, <1>5, <2>1, <2>2
<1>9. Price \in Nat
  BY <1>2, <1>3, <1>5
<1> QED BY <1>6, <1>7, <1>8, <1>9 DEF H

(* A Deal no call is added to stays as complete, and as cut short, as it was. *)
LEMMA Untouched ==
  ASSUME TypeOK, NEW d \in DOMAIN deals,
         deals' = deals \/ \E q \in Orders : deals' = Append(deals, q),
         goods' = goods \/ \E c \in Call(Len(deals)) : c.deal # d /\ goods' = Append(goods, c)
  PROVE  (Cut(d)' <=> Cut(d)) /\ (Complete(d)' <=> Complete(d))
<1>1. deals'[d] = deals[d]
  BY DealsKept
<1>2. /\ DOMAIN goods \subseteq DOMAIN goods'
      /\ \A n \in DOMAIN goods : goods'[n] = goods[n]
      /\ \A n \in DOMAIN goods' \ DOMAIN goods : goods'[n].deal # d
  <2>1. goods \in Seq(Call(Len(deals)))
    BY DEF TypeOK, Call
  <2> QED BY <2>1, Appended
<1>3. CallsFor(d)' = CallsFor(d) /\ \A n \in CallsFor(d) : goods'[n] = goods[n]
  BY <1>2 DEF CallsFor
<1>4. RowsOf(d)' = RowsOf(d)
  BY <1>3 DEF RowsOf
<1> QED BY <1>1, <1>3, <1>4 DEF Cut, Complete

(* The Deals a step may cut short: those it adds, calls for or gives up. *)
LEMMA OwingGrows ==
  ASSUME TypeOK, NEW D,
         deals' = deals \/ \E q \in Orders : deals' = Append(deals, q),
         goods' = goods \/ \E c \in Call(Len(deals)) : c.deal \in D /\ goods' = Append(goods, c),
         DOMAIN deals' \subseteq DOMAIN deals \cup D,
         \A d \in DOMAIN deals \ D : InHand(d) => InHand(d)'
  PROVE  Owing' \subseteq Owing \cup D
<1> SUFFICES ASSUME NEW d \in Owing', d \notin D PROVE d \in Owing
  OBVIOUS
<1>1. d \in DOMAIN deals
  BY DEF Owing
<1>2. (Cut(d)' <=> Cut(d)) /\ (Complete(d)' <=> Complete(d))
  BY <1>1, Untouched
<1> QED BY <1>1, <1>2 DEF Owing

(* What is cut short is paid for. *)
LEMMA Paid ==
  ASSUME IsFiniteSet(Handlers), TypeOK, Owed, NEW D, IsFiniteSet(D),
         Owing' \subseteq Owing \cup D, Price' \in Nat, Price' >= Price + Cardinality(D)
  PROVE  Owed'
<1>1. /\ Price \in Nat /\ Cardinality(Owing) \in Nat /\ Cardinality(D) \in Nat
      /\ Cardinality(Owing \cap D) \in Nat
  BY PriceSteps, FS_CardinalityType, FS_Subset DEF Owed
<1>2. /\ IsFiniteSet(Owing \cup D)
      /\ Cardinality(Owing \cup D) <= Cardinality(Owing) + Cardinality(D)
      /\ Cardinality(Owing \cup D) \in Nat
  <2>1. /\ IsFiniteSet(Owing \cup D)
        /\ Cardinality(Owing \cup D)
             = Cardinality(Owing) + Cardinality(D) - Cardinality(Owing \cap D)
    BY FS_Union DEF Owed
  <2> QED BY <1>1, <2>1, FS_CardinalityType
<1>3. /\ IsFiniteSet(Owing') /\ Cardinality(Owing') <= Cardinality(Owing \cup D)
      /\ Cardinality(Owing') \in Nat
  BY <1>2, FS_Subset, FS_CardinalityType
<1>4. Cardinality(Owing) <= Price
  BY DEF Owed
<1>5. Cardinality(Owing') <= Price'
  BY <1>1, <1>2, <1>3, <1>4
<1> QED BY <1>3, <1>5 DEF Owed

(* Nothing is cut short: nothing is to be paid. *)
LEMMA PaidNothing ==
  ASSUME IsFiniteSet(Handlers), TypeOK, Owed, Owing' \subseteq Owing,
         UNCHANGED used \/ Spend("fault") \/ Spend("refuse") \/ Spend("crash")
  PROVE  Owed'
<1>1. /\ Price \in Nat /\ Price' \in Nat /\ Price' >= Price + 0
  <2>1. Cardinality(Handlers) \in Nat
    BY FS_CardinalityType
  <2> QED BY <2>1, PriceSteps
<1>2. IsFiniteSet({}) /\ Cardinality({}) = 0
  BY FS_EmptySet
<1> QED BY <1>1, <1>2, Paid

LEMMA PaidOne ==
  ASSUME IsFiniteSet(Handlers), TypeOK, Owed, NEW d, Owing' \subseteq Owing \cup {d},
         Spend("fault") \/ Spend("refuse")
  PROVE  Owed'
<1>1. /\ Price \in Nat /\ Price' \in Nat /\ Price' >= Price + 1
  BY PriceSteps
<1>2. IsFiniteSet({d}) /\ Cardinality({d}) = 1
  BY FS_Singleton
<1> QED BY <1>1, <1>2, Paid

-----------------------------------------------------------------------------
LEMMA CreatePays ==
  ASSUME IsFiniteSet(Handlers), IInv, Owed, NEW h \in Handlers, CreateDeal(h)
  PROVE  Owed'
<1>0. PICK new : new = Len(deals) + 1
  OBVIOUS
<1>1. /\ TypeOK /\ goods' = goods /\ job[h].order \in Orders /\ job[h] \in JobRow
      /\ deals \in Seq(Orders) /\ pc \in [Handlers -> Labels] /\ job \in [Handlers -> JobRow]
      /\ pc[h] = "deal"
  BY DEF CreateDeal, IInv, TypeOK, Labels
<1>2. \A d : InHand(d) => InHand(d)'
  <2>1. \A g \in Handlers : pc[g] = "goods" => pc'[g] = "goods" /\ job'[g] = job[g]
    BY <1>1 DEF CreateDeal, Answer, Goto
  <2> QED BY <2>1 DEF InHand
<1>3. CASE deals' = deals
  <2>1. Owing' \subseteq Owing \cup {}
    BY <1>1, <1>2, <1>3, OwingGrows
  <2>2. UNCHANGED used \/ Spend("fault")
    BY DEF CreateDeal
  <2> QED BY <1>1, <2>1, <2>2, PaidNothing
<1>4. CASE deals' = Append(deals, job[h].order)
  <2>1. /\ Len(deals) \in Nat /\ DOMAIN deals = 1..Len(deals) /\ DOMAIN deals' = 1..new
    BY <1>0, <1>1, <1>4, Appended
  <2>2. DOMAIN deals' \subseteq DOMAIN deals \cup {new} /\ new \notin DOMAIN deals
    BY <1>0, <2>1
  <2>3. Owing' \subseteq Owing \cup {new}
    BY <1>1, <1>2, <1>4, <2>2, OwingGrows
  <2>4. CASE Spend("fault")
    BY <1>1, <2>3, <2>4, PaidOne
  <2>5. CASE ~Spend("fault")
    <3>1. /\ job' = [job EXCEPT ![h].deal = new, ![h].chunk = 1]
          /\ pc' = [pc EXCEPT ![h] = "goods"] /\ UNCHANGED used
      BY <1>0, <2>5 DEF CreateDeal, Goto
    <3>2. pc'[h] = "goods" /\ job'[h].deal = new
      BY <1>1, <3>1 DEF JobRow
    <3>3. InHand(new)'
      BY <3>2 DEF InHand
    <3>4. ~Cut(new)'
      <4>1. CallsFor(new)' = {}
        BY <1>1, <2>2, CallType DEF CallsFor
      <4> QED BY <4>1 DEF Cut
    <3>5. new \notin Owing'
      BY <3>3, <3>4 DEF Owing
    <3> QED BY <1>1, <2>3, <3>1, <3>5, PaidNothing
  <2> QED BY <2>4, <2>5
<1> QED BY <1>3, <1>4 DEF CreateDeal

LEMMA AddPays ==
  ASSUME IsFiniteSet(Handlers), IInv, IInv', Owed, NEW h \in Handlers, AddChunk(h)
  PROVE  Owed'
<1>0. PICK d, o, k : d = job[h].deal /\ o = job[h].order /\ k = job[h].chunk
  OBVIOUS
<1>1. /\ TypeOK /\ pc[h] = "goods" /\ deals' = deals /\ o \in Orders /\ k \in 1..Chunks(o)
      /\ pc \in [Handlers -> Labels] /\ job \in [Handlers -> JobRow] /\ job[h] \in JobRow
      /\ Chunks(o) \in Nat /\ Built(d, o, k - 1)
  BY <1>0, ChunkFacts DEF AddChunk, IInv, Sending, TypeOK, Labels
<1>2. \A S \in SUBSET ChunkRows(o, k) :
        goods' = Sent(h, S) => \E c \in Call(Len(deals)) : c.deal = d /\ goods' = Append(goods, c)
  <2> SUFFICES ASSUME NEW S \in SUBSET ChunkRows(o, k), goods' = Sent(h, S)
               PROVE  \E c \in Call(Len(deals)) : c.deal = d /\ goods' = Append(goods, c)
    OBVIOUS
  <2> DEFINE c == [deal |-> d, chunk |-> k, rows |-> S]
  <2>1. S \in SUBSET Nat /\ d \in 1..Len(deals)
    BY <1>1, RowsType, LenProperties DEF Built, TypeOK
  <2>2. c \in Call(Len(deals)) /\ goods' = Append(goods, c) /\ c.deal = d
    BY <1>0, <1>1, <2>1, SentType DEF Sent
  <2> HIDE DEF c
  <2> QED BY <2>2
<1>3. \A e : InHand(e) /\ e # d => InHand(e)'
  <2>1. \A g \in Handlers \ {h} : pc'[g] = pc[g] /\ job'[g] = job[g]
    BY <1>1 DEF AddChunk, ChunkDone, Answer, Goto
  <2> QED BY <1>0, <2>1 DEF InHand
<1>4. goods' = goods \/ \E c \in Call(Len(deals)) : c.deal = d /\ goods' = Append(goods, c)
  BY <1>0, <1>2 DEF AddChunk
<1>5. Owing' \subseteq Owing \cup {d}
  BY <1>1, <1>3, <1>4, OwingGrows
<1>6. CASE Spend("fault") \/ Spend("refuse")
  BY <1>1, <1>5, <1>6, PaidOne
<1>7. CASE ~(Spend("fault") \/ Spend("refuse"))
  <2>1. goods' = Sent(h, ChunkRows(o, k)) /\ ChunkDone(h) /\ UNCHANGED used
    BY <1>0, <1>7 DEF AddChunk
  <2>2. Cut(d)' => Cut(d)
    <3>0. PICK new, call : new = Len(goods) + 1 /\ call = [deal |-> d, chunk |-> k, rows |-> ChunkRows(o, k)]
      OBVIOUS
    <3>1. call \in Call(Len(deals)) /\ goods' = Append(goods, call)
      <4>1. ChunkRows(o, k) \in SUBSET Nat /\ d \in 1..Len(deals)
        BY <1>1, RowsType, LenProperties DEF Built, TypeOK
      <4> QED BY <1>0, <1>1, <2>1, <3>0, <4>1, SentType DEF Sent
    <3>2. /\ \A n \in DOMAIN goods : goods'[n] = goods[n]
          /\ DOMAIN goods' = DOMAIN goods \cup {new} /\ goods'[new] = call
      <4>1. /\ Len(goods) \in Nat /\ DOMAIN goods = 1..Len(goods) /\ DOMAIN goods' = 1..new
            /\ \A n \in DOMAIN goods : goods'[n] = goods[n]
            /\ goods'[new] = call
        BY <1>1, <3>0, <3>1, CallType, Appended
      <4> QED BY <3>0, <4>1
    <3>3. call.rows = ChunkRows(o, k) /\ call.chunk = k /\ deals[d] = o
      BY <1>1, <3>0 DEF Built
    <3> QED BY <1>1, <3>2, <3>3 DEF Cut, CallsFor
  <2>3. CASE k < Chunks(o)
    <3>1. pc' = pc /\ job' = [job EXCEPT ![h].chunk = k + 1]
      BY <1>0, <2>1, <2>3 DEF ChunkDone
    <3>2. pc'[h] = "goods" /\ job'[h].deal = d
      BY <1>0, <1>1, <3>1 DEF JobRow
    <3>3. InHand(d)'
      BY <3>2 DEF InHand
    <3>4. d \in Owing' => d \in Owing
      BY <1>1, <2>2, <3>3 DEF Owing
    <3> QED BY <1>1, <1>5, <2>1, <3>4, PaidNothing
  <2>4. CASE ~(k < Chunks(o))
    <3>1. [order |-> o, deal |-> d] \in oks'
      BY <1>0, <2>1, <2>4 DEF ChunkDone
    <3>2. PICK a \in oks' : a.order = o /\ a.deal = d
      BY <3>1
    <3>3. Built(d, o, Chunks(o))'
      BY <3>2 DEF IInv, Finished
    <3>4. ~Cut(d)' => Complete(d)'
      BY <1>1, <3>3, WholeNext
    <3>5. d \in Owing' => d \in Owing
      BY <1>1, <2>2, <3>4 DEF Owing
    <3> QED BY <1>1, <1>5, <2>1, <3>5, PaidNothing
  <2> QED BY <2>3, <2>4
<1> QED BY <1>6, <1>7

(* A restart cuts short what the handlers have in hand: one Deal each. *)
LEMMA CrashPays ==
  ASSUME IsFiniteSet(Handlers), TypeOK, Owed, Crash
  PROVE  Owed'
<1> DEFINE D == {job[h].deal : h \in Handlers}
           f == [h \in Handlers |-> job[h].deal]
<1>1. f \in Surjection(Handlers, D)
  BY DEF Surjection
<1>2. IsFiniteSet(D) /\ Cardinality(D) <= Cardinality(Handlers)
  <2> HIDE DEF f, D
  <2> QED BY <1>1, FS_Surjection
<1>3. Owing' \subseteq Owing \cup D
  <2>1. \A d \in DOMAIN deals \ D : ~InHand(d)
    BY DEF InHand
  <2> HIDE DEF D
  <2> QED BY <2>1, OwingGrows DEF Crash
<1>4. /\ Price \in Nat /\ Price' = Price + Cardinality(Handlers)
      /\ Cardinality(Handlers) \in Nat /\ Cardinality(D) \in Nat
  <2> HIDE DEF D
  <2> QED BY <1>2, PriceSteps, FS_CardinalityType DEF Crash
<1>5. Price' \in Nat /\ Price' >= Price + Cardinality(D)
  BY <1>2, <1>4
<1> HIDE DEF D
<1> QED BY <1>2, <1>3, <1>5, Paid

LEMMA OwedStep ==
  ASSUME IsFiniteSet(Handlers), IInv, IInv', Owed, [Next]_vars
  PROVE  Owed'
<1>0. TypeOK /\ pc \in [Handlers -> Labels] /\ job \in [Handlers -> JobRow]
  BY DEF IInv, TypeOK, Labels
<1>1. CASE /\ UNCHANGED <<deals, goods>>
           /\ UNCHANGED used \/ Spend("fault")
           /\ \A g \in Handlers : pc[g] = "goods" => pc'[g] = "goods" /\ job'[g] = job[g]
  <2>1. \A d : InHand(d) => InHand(d)'
    BY <1>1 DEF InHand
  <2>2. Owing' \subseteq Owing \cup {}
    BY <1>0, <1>1, <2>1, OwingGrows
  <2> QED BY <1>0, <1>1, <2>2, PaidNothing
<1>2. ASSUME NEW h \in Handlers, Handle(h) PROVE Owed'
  <2>1. CASE ResolveItem(h)
    BY <1>0, <1>1, <2>1 DEF ResolveItem, ItemDone, Answer, Goto
  <2>2. CASE ResolveContact(h)
    BY <1>0, <1>1, <2>2 DEF ResolveContact, Answer, Goto
  <2> QED BY <1>2, <2>1, <2>2, CreatePays, AddPays DEF Handle
<1>3. ASSUME NEW h \in Handlers, NEW o \in Orders, Deliver(h, o) PROVE Owed'
  BY <1>0, <1>1, <1>3 DEF Deliver, Goto
<1>4. CASE UNCHANGED <<deals, goods, used, pc, job>>
  BY <1>1, <1>4
<1> QED BY <1>0, <1>2, <1>3, <1>4, CrashPays DEF Next, CatalogAdds, vars

(* addGoods and B2BWebhook: a Deal that lacks lines and that nobody works on    *)
(* is the price of a call that failed or a line refused, one each, or of a     *)
(* restart, one per handler; overlapping deliveries alone never cut a Deal     *)
(* short.                                                                     *)
THEOREM AbandonedAlwaysAccounted == IsFiniteSet(Handlers) => (Spec => []AbandonedAccounted)
<1> SUFFICES ASSUME IsFiniteSet(Handlers) PROVE Spec => []AbandonedAccounted
  OBVIOUS
<1>1. Init => Owed
  <2> SUFFICES ASSUME Init PROVE Owed
    OBVIOUS
  <2>1. Owing = {} /\ Price \in Nat
    BY PriceSteps, InitType DEF Init, Owing
  <2> QED BY <2>1, FS_EmptySet DEF Owed
<1>2. IInv /\ IInv' /\ Owed /\ [Next]_vars => Owed'
  BY OwedStep
<1>3. IInv /\ Owed => AbandonedAccounted
  <2> SUFFICES ASSUME IInv, Owed PROVE AbandonedAccounted
    OBVIOUS
  <2>1. Abandoned \subseteq Owing
    BY DEF Abandoned, Owing
  <2>2. /\ IsFiniteSet(Abandoned) /\ Cardinality(Abandoned) <= Cardinality(Owing)
        /\ Cardinality(Abandoned) \in Nat /\ Cardinality(Owing) \in Nat
    BY <2>1, FS_Subset, FS_CardinalityType DEF Owed
  <2>3. Price \in Nat
    BY PriceSteps DEF IInv
  <2>4. Cardinality(Abandoned) <= Price
    BY <2>2, <2>3 DEF Owed
  <2> QED BY <2>4 DEF AbandonedAccounted, Price
<1> QED BY <1>1, <1>2, <1>3, Inductive, PTL DEF Spec
=============================================================================
