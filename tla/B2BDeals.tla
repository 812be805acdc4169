------------------------------- MODULE B2BDeals -------------------------------
(***************************************************************************)
(* The webhook of the wholesale portal: each confirmed order becomes a     *)
(* Zoho Deal with its Goods records.  The HTTP handlers run concurrently,  *)
(* keep nothing but the product ids they looked up, and do not record      *)
(* which orders were handled.                                              *)
(*                                                                         *)
(* A Deal's id is its position in deals.  Items of an order are known by   *)
(* their position in it.                                                   *)
(***************************************************************************)
EXTENDS Integers, Sequences, FiniteSets

CONSTANTS
  Orders,       \* orders of the portal
  Products,     \* product UIDs
  Items,        \* Items[o]: the products of order o, a sequence
  ChunkSize,    \* Goods sent in one call
  Handlers,     \* goroutines serving the webhook
  MaxTries,     \* how often the portal delivers an order (bounds the model)
  Budget,       \* Budget[k]: how often the environment does k (bounds the model)
  MaxTotal      \* how often it does anything at all (bounds the model)

Disturbances == {"fault", "crash", "refuse"}

ASSUME ItemsAssumption ==
  /\ Items \in [Orders -> Seq(Products)] /\ 0 \notin Orders
  /\ \A o \in Orders : Len(Items[o]) > 0
  /\ ChunkSize \in Nat \ {0}

ASSUME BoundsAssumption ==
  /\ MaxTries \in Nat /\ MaxTotal \in Nat
  /\ Budget \in [Disturbances -> Nat]

VARIABLES
  linked,       \* products whose oc_product.zoho_id is filled in
  catalog,      \* products the external repository has a Zoho id for
  deals,        \* Deals Zoho created: their orders
  goods,        \* Goods calls Zoho carried out: [deal, chunk, rows]
  pc, job,      \* where each handler is, and what it has in hand
  tries,        \* tries[o]: webhooks delivered for o
  oks,          \* answers "Success": [order, deal]
  used          \* disturbances so far

vars == <<linked, catalog, deals, goods, pc, job, tries, oks, used>>

-----------------------------------------------------------------------------
NoDeal == 0
NoJob == [order |-> 0, item |-> 0, deal |-> NoDeal, chunk |-> 0]

Spent == used["fault"] + used["crash"] + used["refuse"]
Spend(k) == /\ used[k] < Budget[k] /\ Spent < MaxTotal
            /\ used' = [used EXCEPT ![k] = @ + 1]

Goto(h, l) == pc' = [pc EXCEPT ![h] = l]

(* The handler answers, with an error or with the Deal's id, and is free again. *)
Answer(h) == Goto(h, "idle") /\ job' = [job EXCEPT ![h] = NoJob]

(* Mutant: the last chunk is dropped when it is not a full one. *)
FullChunks(o) == Len(Items[o]) \div ChunkSize

Chunks(o) == (Len(Items[o]) + ChunkSize - 1) \div ChunkSize

(* chunkSlice: the positions of chunk k. *)
ChunkRows(o, k) == {i \in 1..Len(Items[o]) : (k - 1) * ChunkSize < i /\ i <= k * ChunkSize}
FirstOf(k) == (k - 1) * ChunkSize + 1

-----------------------------------------------------------------------------
Init ==
  /\ linked \in SUBSET Products /\ catalog = {}
  /\ deals = <<>> /\ goods = <<>>
  /\ pc = [h \in Handlers |-> "idle"]
  /\ job = [h \in Handlers |-> NoJob]
  /\ tries = [o \in Orders |-> 0]
  /\ oks = {}
  /\ used = [k \in Disturbances |-> 0]

(* The portal sends an order, again as well: it got an error, no answer, or  *)
(* simply sends it twice.                                                    *)
Deliver(h, o) ==
  /\ pc[h] = "idle" /\ tries[o] < MaxTries
  /\ tries' = [tries EXCEPT ![o] = @ + 1]
  /\ job' = [job EXCEPT ![h] = [NoJob EXCEPT !.order = o, !.item = 1]]
  /\ Goto(h, "resolve")
  /\ UNCHANGED <<linked, catalog, deals, goods, oks, used>>

(* This item has an id: on to the one after it, or to the contact. *)
ItemDone(h) ==
  LET j == job[h] IN
  IF j.item < Len(Items[j.order])
    THEN job' = [job EXCEPT ![h].item = @ + 1] /\ UNCHANGED pc
    ELSE Goto(h, "contact") /\ UNCHANGED job

(* Mutant: an id that had to be looked up serves the next delivery only. *)
ResolveForNext(h) ==
  LET p == Items[job[h].order][job[h].item] IN
  /\ pc[h] = "resolve"
  /\ IF p \in linked THEN ItemDone(h) ELSE Answer(h)
  /\ linked' = linked \cup ({p} \cap catalog)
  /\ UNCHANGED <<catalog, deals, goods, tries, oks, used>>

(* resolveB2BWebhookProducts, one item: its row, and if need be the product *)
(* repository; that the id could not be stored is only logged.              *)
ResolveItem(h) ==
  LET p == Items[job[h].order][job[h].item] IN
  /\ pc[h] = "resolve"
  /\ \/ \* the shop has the id
        p \in linked /\ ItemDone(h) /\ UNCHANGED <<linked, used>>
     \/ \* the repository has it
        /\ p \in catalog \ linked
        /\ ItemDone(h)
        /\ \/ linked' = linked \cup {p} /\ UNCHANGED used
           \/ UNCHANGED linked /\ Spend("fault")
     \/ \* neither has it
        p \notin linked \cup catalog /\ Answer(h) /\ UNCHANGED <<linked, used>>
     \/ \* a query or the lookup failed
        Spend("fault") /\ Answer(h) /\ UNCHANGED linked
  /\ UNCHANGED <<catalog, deals, goods, tries, oks>>

(* resolveB2BWebhookContact: Zoho gives the client's contact, or refuses. *)
ResolveContact(h) ==
  /\ pc[h] = "contact"
  /\ \/ Goto(h, "deal") /\ UNCHANGED <<job, used>>
     \/ Spend("fault") /\ Answer(h)
  /\ UNCHANGED <<linked, catalog, deals, goods, tries, oks>>

(* Mutant: a call whose answer was lost is made again. *)
CreateDealAgain(h) ==
  /\ pc[h] = "deal"
  /\ deals' = Append(deals, job[h].order)
  /\ \/ /\ job' = [job EXCEPT ![h].deal = Len(deals) + 1, ![h].chunk = 1]
        /\ Goto(h, "goods") /\ UNCHANGED used
     \/ Spend("fault") /\ UNCHANGED <<pc, job>>
  /\ UNCHANGED <<linked, catalog, goods, tries, oks>>

(* CreateB2BOrder: created, refused or failed, or created with a lost answer. *)
CreateDeal(h) ==
  /\ pc[h] = "deal"
  /\ \/ /\ deals' = Append(deals, job[h].order)
        /\ job' = [job EXCEPT ![h].deal = Len(deals) + 1, ![h].chunk = 1]
        /\ Goto(h, "goods") /\ UNCHANGED used
     \/ Spend("fault") /\ Answer(h) /\ UNCHANGED deals
     \/ Spend("fault") /\ Answer(h) /\ deals' = Append(deals, job[h].order)
  /\ UNCHANGED <<linked, catalog, goods, tries, oks>>

Sent(h, S) == Append(goods, [deal |-> job[h].deal, chunk |-> job[h].chunk, rows |-> S])

(* A chunk went through: the next one, or the answer. *)
ChunkDone(h) ==
  LET j == job[h] IN
  IF j.chunk < Chunks(j.order)
    THEN job' = [job EXCEPT ![h].chunk = @ + 1] /\ UNCHANGED <<pc, oks>>
    ELSE Answer(h) /\ oks' = oks \cup {[order |-> j.order, deal |-> j.deal]}

(* Mutant: a chunk that failed is sent once more. *)
AddChunkAgain(h) ==
  LET rows == ChunkRows(job[h].order, job[h].chunk) IN
  /\ pc[h] = "goods"
  /\ goods' = Sent(h, rows)
  /\ \/ ChunkDone(h) /\ UNCHANGED used
     \/ Spend("fault") /\ UNCHANGED <<pc, job, oks>>
  /\ UNCHANGED <<linked, catalog, deals, tries>>

(* Mutant: a chunk that failed is passed over. *)
AddChunkOrSkip(h) ==
  LET rows == ChunkRows(job[h].order, job[h].chunk) IN
  /\ pc[h] = "goods"
  /\ ChunkDone(h)
  /\ \/ goods' = Sent(h, rows) /\ UNCHANGED used
     \/ Spend("fault") /\ UNCHANGED goods
  /\ UNCHANGED <<linked, catalog, deals, tries>>

(* AddItemsToOrderB2B: one call creates the chunk's Goods, each with a status *)
(* of its own, of which the code reads the first; or the call fails, or its   *)
(* answer is lost.                                                            *)
AddChunk(h) ==
  LET rows == ChunkRows(job[h].order, job[h].chunk) IN
  /\ pc[h] = "goods"
  /\ \/ goods' = Sent(h, rows) /\ ChunkDone(h) /\ UNCHANGED used
     \/ \E S \in SUBSET rows :
          /\ S # rows /\ Spend("refuse")
          /\ goods' = Sent(h, S)
          /\ \/ FirstOf(job[h].chunk) \in S /\ ChunkDone(h)
             \/ FirstOf(job[h].chunk) \notin S /\ Answer(h) /\ UNCHANGED oks
     \/ Spend("fault") /\ Answer(h) /\ UNCHANGED oks /\ (UNCHANGED goods \/ goods' = Sent(h, rows))
  /\ UNCHANGED <<linked, catalog, deals, tries>>

(* The product repository gets to know a product. *)
CatalogAdds(p) ==
  /\ p \notin catalog
  /\ catalog' = catalog \cup {p}
  /\ UNCHANGED <<linked, deals, goods, pc, job, tries, oks, used>>

(* The process dies; the webhooks in hand get no answer. *)
Crash ==
  /\ Spend("crash")
  /\ pc' = [h \in Handlers |-> "idle"]
  /\ job' = [h \in Handlers |-> NoJob]
  /\ UNCHANGED <<linked, catalog, deals, goods, tries, oks>>

Handle(h) == ResolveItem(h) \/ ResolveContact(h) \/ CreateDeal(h) \/ AddChunk(h)

Next ==
  \/ \E h \in Handlers : Handle(h) \/ \E o \in Orders : Deliver(h, o)
  \/ \E p \in Products : CatalogAdds(p)
  \/ Crash

Spec == Init /\ [][Next]_vars

(* A goroutine that serves a request runs; the portal promises nothing. *)
FairSpec == Spec /\ \A h \in Handlers : WF_vars(Handle(h))

-----------------------------------------------------------------------------
JobRow == [order : Orders \cup {0}, item : Nat, deal : Nat, chunk : Nat]
Answers == [order : Orders, deal : Nat]

(* Records and locals hold values of their types, a Goods call is about a     *)
(* chunk of a Deal there is, and a busy handler has an order in hand.         *)
TypeOK ==
  /\ linked \subseteq Products /\ catalog \subseteq Products
  /\ deals \in Seq(Orders)
  /\ goods \in Seq([deal : 1..Len(deals), chunk : Nat, rows : SUBSET Nat])
  /\ pc \in [Handlers -> {"idle", "resolve", "contact", "deal", "goods"}]
  /\ job \in [Handlers -> JobRow]
  /\ \A h \in Handlers :
       /\ pc[h] # "idle" => job[h].order \in Orders
       /\ pc[h] = "resolve" => job[h].item \in 1..Len(Items[job[h].order])
       /\ pc[h] = "goods" => job[h].chunk \in 1..Chunks(job[h].order)
  /\ tries \in [Orders -> Nat]
  /\ oks \subseteq Answers
  /\ used \in [Disturbances -> Nat]

-----------------------------------------------------------------------------
DealsOf(o) == {d \in DOMAIN deals : deals[d] = o}
CallsFor(d) == {n \in DOMAIN goods : goods[n].deal = d}
RowsOf(d) == UNION {goods[n].rows : n \in CallsFor(d)}
Complete(d) == RowsOf(d) = 1..Len(Items[deals[d]])
InHand(d) == \E h \in Handlers : pc[h] = "goods" /\ job[h].deal = d

(* Nothing remembers which orders were handled, so the only protection from  *)
(* duplicate Deals is that one delivery makes one Deal at most: the portal's  *)
(* deliveries account for all of them, those in hand included.               *)
DealsAccounted ==
  \A o \in Orders :
    Cardinality(DealsOf(o))
      + Cardinality({h \in Handlers : job[h].order = o /\ pc[h] # "goods"}) <= tries[o]

(* The Goods calls of a Deal are the chunks of its order, from the first on,  *)
(* each once: two handlers, even of the same order, never write into one      *)
(* another's Deal, and no line is ever on a Deal twice.                       *)
ChunksInTurn ==
  \A n \in DOMAIN goods :
    LET d == goods[n].deal IN
    /\ goods[n].rows \subseteq ChunkRows(deals[d], goods[n].chunk)
    /\ {goods[m].chunk : m \in {m \in CallsFor(d) : m < n}} = 1..(goods[n].chunk - 1)

(* A Deal that "Success" was answered for belongs to that order, and all its  *)
(* lines are there, but for those Zoho refused beside the first of a call     *)
(* (their status is not read).                                                *)
AnsweredInFull ==
  \A a \in oks :
    /\ deals[a.deal] = a.order
    /\ Cardinality(CallsFor(a.deal)) = Chunks(a.order)
    /\ \A n \in CallsFor(a.deal) : FirstOf(goods[n].chunk) \in goods[n].rows
    /\ ~Complete(a.deal) => used["refuse"] > 0

(* A Deal that lacks lines and that no handler is working on is the price of  *)
(* a failed call, a refused line or a restart; each costs one per handler at  *)
(* most.                                                                      *)
Abandoned == {d \in DOMAIN deals : ~Complete(d) /\ ~InHand(d)}
AbandonedAccounted ==
  Cardinality(Abandoned)
    <= used["fault"] + used["refuse"] + used["crash"] * Cardinality(Handlers)

(* A webhook of an order that can be handled ends in a complete Deal, unless  *)
(* something went wrong after it came; handlers never hold one another up.    *)
Resolvable(o) == \A i \in DOMAIN Items[o] : Items[o][i] \in linked \cup catalog
Arrived(h, o) == pc[h] = "resolve" /\ job[h] = [NoJob EXCEPT !.order = o, !.item = 1]

WebhookMakesDeal ==
  \A o \in Orders, n \in 0..MaxTotal :
    ((\E h \in Handlers : Arrived(h, o)) /\ Resolvable(o) /\ Spent = n)
      ~> ((\E d \in DealsOf(o) : Complete(d) /\ [order |-> o, deal |-> d] \in oks)
          \/ Spent > n)

=============================================================================
