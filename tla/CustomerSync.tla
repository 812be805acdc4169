---------------------------- MODULE CustomerSync ----------------------------
(***************************************************************************)
(* The customer worker: every five minutes it fetches the OpenCart         *)
(* customers without a zoho_id, upserts each into Zoho's Contacts and      *)
(* stores the id.  processOrder upserts the buyer of an order into the     *)
(* same Contacts meanwhile, whether or not the customer has been synced.   *)
(*                                                                         *)
(* A contact id is its position in contacts; "" is an empty field.         *)
(***************************************************************************)
EXTENDS Integers, Sequences, FiniteSets

CONSTANTS
  Customers,    \* oc_customer.customer_id values
  Email, Phone, \* by customer, "" where there is none (or no valid one)
  Name,         \* by customer, "" where there is none
  Limit,        \* rows one query returns (LIMIT 100)
  Budget,       \* Budget[k]: how often the environment does k (bounds the model)
  MaxTotal      \* how often it does anything at all (bounds the model)

NoId  == 0
ErrId == -1     \* the sentinel "[ERR]"

Disturbances == {"upsert", "store", "crash", "order"}

ASSUME CustomerAssumption ==
  /\ Customers \subseteq Nat \ {0}
  /\ Email \in [Customers -> STRING] /\ Phone \in [Customers -> STRING]
  /\ Name \in [Customers -> STRING]
  /\ Limit \in Nat \ {0}
  /\ Budget \in [Disturbances -> Nat] /\ MaxTotal \in Nat

VARIABLES
  registered,   \* customers the shop has a row for
  zohoId,       \* oc_customer.zoho_id
  contacts,     \* Contacts in Zoho: [email, phone, name]
  pc,           \* where the worker is
  batch,        \* rows it has fetched and not handled yet
  current, id,  \* the row in hand, and the id to be stored for it
  used          \* disturbances so far

worker == <<pc, batch, current, id>>
vars   == <<registered, zohoId, contacts, worker, used>>

-----------------------------------------------------------------------------
Spend(k) ==
  /\ used[k] < Budget[k]
  /\ used["upsert"] + used["store"] + used["crash"] + used["order"] < MaxTotal
  /\ used' = [used EXCEPT ![k] = @ + 1]

HasAddress(c) == Email[c] # "" \/ Phone[c] # ""

(* The first rows without an id, in primary key order. *)
NewCustomers ==
  LET new == {c \in registered : zohoId[c] = NoId} IN
  {c \in new : Cardinality({d \in new : d < c}) < Limit}

First(c) == \A d \in batch : c <= d

(* Mutant: Email alone decides whether a contact is there already. *)
SameEmail(c) == {k \in DOMAIN contacts : Email[c] # "" /\ contacts[k].email = Email[c]}

(* The contacts the duplicate check fields find: those that are filled in.    *)
Duplicates(c) ==
  {k \in DOMAIN contacts : \/ Email[c] # "" /\ contacts[k].email = Email[c]
                           \/ Phone[c] # "" /\ contacts[k].phone = Phone[c]}

(* Mutant: empty fields are sent as well. *)
Overwritten(old, c, name) == [email |-> Email[c], phone |-> Phone[c], name |-> name]

(* Empty fields are left out of the payload, and Zoho keeps what it has.      *)
Merged(old, c, name) ==
  [email |-> IF Email[c] = "" THEN old.email ELSE Email[c],
   phone |-> IF Phone[c] = "" THEN old.phone ELSE Phone[c],
   name  |-> IF name = "" THEN old.name ELSE name]

Blank == [email |-> "", phone |-> "", name |-> ""]

(* upsertContact: create, update the one match, or be told which contact a    *)
(* field clashes with; answer is the id it returns.                           *)
Upsert(c, name, answer) ==
  LET dup == Duplicates(c) IN
  \/ /\ dup = {}
     /\ contacts' = Append(contacts, Merged(Blank, c, name))
     /\ answer = Len(contacts) + 1
  \/ /\ Cardinality(dup) = 1 /\ answer \in dup
     /\ contacts' = [contacts EXCEPT ![answer] = Merged(@, c, name)]
  \/ /\ Cardinality(dup) > 1 /\ answer \in dup
     /\ UNCHANGED contacts

Answers == 1..(Len(contacts) + 1)

-----------------------------------------------------------------------------
Init ==
  /\ registered = {} /\ zohoId = [c \in Customers |-> NoId]
  /\ contacts = <<>>
  /\ pc = "fetch" /\ batch = {} /\ current = 0 /\ id = NoId
  /\ used = [k \in Disturbances |-> 0]

Fetch ==
  /\ pc = "fetch"
  /\ batch' = NewCustomers
  /\ pc' = "rows"
  /\ UNCHANGED <<registered, zohoId, contacts, current, id, used>>

(* UpsertContact of the next row: whatever goes wrong, the row is to be       *)
(* marked, even when Zoho did accept it and only the answer was lost.         *)
UpsertNext ==
  /\ pc = "rows"
  /\ \E c \in batch :
       /\ First(c)
       /\ batch' = batch \ {c} /\ current' = c
       /\ \/ HasAddress(c) /\ Upsert(c, Name[c], id') /\ id' \in Answers /\ UNCHANGED used
          \/ ~HasAddress(c) /\ id' = ErrId /\ UNCHANGED <<contacts, used>>
          \/ /\ HasAddress(c) /\ Spend("upsert") /\ id' = ErrId
             /\ UNCHANGED contacts \/ \E k \in Answers : Upsert(c, Name[c], k)
  /\ pc' = "store"
  /\ UNCHANGED <<registered, zohoId>>

(* Mutants: a failure leaves the row unmarked; the store is repeated, but for *)
(* a row that has been let go already.                                        *)
StoreUnlessFailed ==
  /\ pc = "store"
  /\ zohoId' = IF id = ErrId THEN zohoId ELSE [zohoId EXCEPT ![current] = id]
  /\ pc' = "rows" /\ current' = 0 /\ id' = NoId
  /\ UNCHANGED <<registered, contacts, batch, used>>

(* ChangeCustomerZohoId; its failure is only logged. *)
StoreId ==
  /\ pc = "store"
  /\ \/ zohoId' = [zohoId EXCEPT ![current] = id] /\ UNCHANGED used
     \/ Spend("store") /\ UNCHANGED zohoId
  /\ pc' = "rows" /\ current' = 0 /\ id' = NoId
  /\ UNCHANGED <<registered, contacts, batch>>

RowsDone ==
  /\ pc = "rows" /\ batch = {}
  /\ pc' = "fetch"
  /\ UNCHANGED <<registered, zohoId, contacts, batch, current, id, used>>

-----------------------------------------------------------------------------
Register(c) ==
  /\ c \notin registered
  /\ registered' = registered \cup {c}
  /\ UNCHANGED <<zohoId, contacts, worker, used>>

(* CreateContact for an order of c: a name that is missing is sent as "?".    *)
OrderContact(c) ==
  /\ c \in registered /\ HasAddress(c) /\ Spend("order")
  /\ \E k \in Answers : Upsert(c, IF Name[c] = "" THEN "?" ELSE Name[c], k)
  /\ UNCHANGED <<registered, zohoId, worker>>

Crash ==
  /\ Spend("crash")
  /\ pc' = "fetch" /\ batch' = {} /\ current' = 0 /\ id' = NoId
  /\ UNCHANGED <<registered, zohoId, contacts>>

-----------------------------------------------------------------------------
ProcessCustomers == Fetch \/ UpsertNext \/ StoreId \/ RowsDone

Next ==
  \/ ProcessCustomers
  \/ \E c \in Customers : Register(c) \/ OrderContact(c)
  \/ Crash

Spec == Init /\ [][Next]_vars

(* The ticker of Start runs the worker again and again. *)
FairSpec == Spec /\ WF_vars(ProcessCustomers)

-----------------------------------------------------------------------------
(* What a field of a contact may hold: a customer's, or nothing. *)
Filled(field) == {field[c] : c \in Customers} \cup {""}

(* A stored id is a contact's, or the mark of a failure. *)
TypeOK ==
  /\ registered \subseteq Customers /\ batch \subseteq registered
  /\ contacts \in Seq([email : Filled(Email), phone : Filled(Phone),
                       name : Filled(Name) \cup {"?"}])
  /\ zohoId \in [Customers -> DOMAIN contacts \cup {NoId, ErrId}]
  /\ pc \in {"fetch", "rows", "store"}
  /\ pc = "store" => current \in registered /\ id \in DOMAIN contacts \cup {ErrId}

(* An upsert that is repeated after a restart, a failed store, or an order of *)
(* the same buyer finds the contact it made before: no two contacts have an   *)
(* email or a phone in common.                                                *)
OneContactPerAddress ==
  \A j, k \in DOMAIN contacts :
    j # k => /\ contacts[j].email # "" => contacts[j].email # contacts[k].email
             /\ contacts[j].phone # "" => contacts[j].phone # contacts[k].phone

(* Nothing Zoho knows of a contact is blanked by a customer or an order that  *)
(* does not have it (the payload omits empty fields).                         *)
NothingBlanked ==
  [][\A k \in DOMAIN contacts :
       /\ contacts[k].email # "" => contacts'[k].email # ""
       /\ contacts[k].phone # "" => contacts'[k].phone # ""
       /\ contacts[k].name # "" => contacts'[k].name # ""]_contacts

(* Every customer is dealt with: those that cannot be synced, which the mark  *)
(* takes out of the query, do not keep the rest behind the LIMIT.             *)
EveryoneDecided == \A c \in Customers : c \in registered ~> zohoId[c] # NoId

=============================================================================
