----------------------------- MODULE ShopContract -----------------------------
(***************************************************************************)
(* What the reverse direction promises, with no word on handlers, queries, *)
(* locks, transactions or restarts: which Sales Order an order row may     *)
(* name, which contents and which stamp it may carry, and which webhooks   *)
(* may be answered without an error.  ReverseSync implements it.           *)
(***************************************************************************)
EXTENDS Integers, Sequences

CONSTANTS
  Orders,     \* oc_order rows
  Statuses,   \* their statuses
  StatusOf,   \* the names the shop knows, and their statuses
  Unknown,    \* contents with a product the shop does not have
  Placed,     \* what the orders were placed with
  NoId,       \* the empty zoho_id
  NoTime      \* the empty stamp

VARIABLES
  versions,   \* of Sales Orders: [order, so, items, name, time, own]
  due,        \* versions whose webhook has not been answered
  link,       \* link[o]: the Sales Order the row names
  content,    \* content[o]: products and quantities
  status,     \* status[o]
  stamp       \* stamp[o]: the Modified_Time the row carries

vars == <<versions, due, link, content, status, stamp>>

Init ==
  /\ versions = <<>> /\ due = {}
  /\ link = [o \in Orders |-> NoId]
  /\ content = [o \in Orders |-> Placed]
  /\ status \in [Orders -> Statuses]
  /\ stamp = [o \in Orders |-> NoTime]

(* A version is stored: the first of a new Sales Order, which only the         *)
(* connector creates, or one more of a Sales Order of the same order.          *)
Save ==
  \E n \in DOMAIN versions' \ DOMAIN versions :
    LET v == versions'[n] IN
    /\ \/ v.so = n /\ v.own /\ v.order \in Orders
       \/ \E i \in DOMAIN versions : versions[i].so = v.so /\ versions[i].order = v.order
    /\ versions' = Append(versions, v) /\ due' = due \cup {n}
    /\ UNCHANGED <<link, content, status, stamp>>

(* The row comes to name a Sales Order that was created for it, once.          *)
Bind(o) ==
  /\ link[o] = NoId
  /\ \E i \in DOMAIN versions :
       /\ versions[i].so = i /\ versions[i].order = o
       /\ link' = [link EXCEPT ![o] = i]
  /\ UNCHANGED <<versions, due, content, status, stamp>>

Linked(i) == versions[i].so = link[versions[i].order]

(* The order shows a version of that Sales Order, contents and status at once, *)
(* and never one with a product the shop does not have.                        *)
Show(o) ==
  /\ \E i \in DOMAIN versions :
       LET v == versions[i] IN
       /\ v.order = o /\ Linked(i) /\ v.items \notin Unknown
       /\ content' = [content EXCEPT ![o] = v.items]
       /\ \E s \in Statuses : /\ v.name \in DOMAIN StatusOf => s = StatusOf[v.name]
                              /\ status' = [status EXCEPT ![o] = s]
  /\ UNCHANGED <<versions, due, link, stamp>>

(* The status alone changes, by the shop or by a webhook.                      *)
Move(o) ==
  /\ \E s \in Statuses : status' = [status EXCEPT ![o] = s]
  /\ UNCHANGED <<versions, due, link, content, stamp>>

(* Webhooks are answered without an error: only those about the Sales Order    *)
(* that the row of their order names.                                          *)
Answers ==
  \E S \in SUBSET due : (\A i \in S : Linked(i)) /\ due' = due \ S

Answer == Answers /\ UNCHANGED <<versions, link, content, status, stamp>>

(* The row carries the time of a version of its Sales Order, or of the one it  *)
(* is about to name.                                                           *)
Mark(o) ==
  /\ \E i \in DOMAIN versions :
       /\ versions[i].order = o /\ versions[i].time # NoTime
       /\ link[o] \in {NoId, versions[i].so}
       /\ stamp' = [stamp EXCEPT ![o] = versions[i].time]
  /\ Answers
  /\ UNCHANGED <<versions, link, content, status>>

Next == Save \/ Answer \/ \E o \in Orders : Bind(o) \/ Show(o) \/ Move(o) \/ Mark(o)

Spec == Init /\ [][Next]_vars

=============================================================================
