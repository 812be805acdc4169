-------------------------- MODULE CustomerSync_proofs --------------------------
(***************************************************************************)
(* Proofs about CustomerSync, for any customers, addresses, LIMIT and      *)
(* disturbances: the worker and the orders of the buyers, which upsert     *)
(* into the same Contacts, never make two contacts of one address and      *)
(* never blank a field.                                                    *)
(***************************************************************************)
EXTENDS CustomerSync, SequenceTheorems, FiniteSetTheorems, TLAPS

Names   == Filled(Name) \cup {"?"}
Contact == [email : Filled(Email), phone : Filled(Phone), name : Names]

(* The name an order of c is sent with. *)
OrderName(c) == IF Name[c] = "" THEN "?" ELSE Name[c]

-----------------------------------------------------------------------------
(* What an upsert does to the contacts *)

LEMMA MergedType ==
  ASSUME NEW old \in Contact, NEW c \in Customers, NEW name \in Names
  PROVE  Merged(old, c, name) \in Contact
BY DEF Merged, Contact, Names, Filled

LEMMA BlankFields ==
  Blank \in Contact /\ Blank.email = "" /\ Blank.phone = "" /\ Blank.name = ""
BY DEF Blank, Contact, Names, Filled

LEMMA OneDuplicate ==
  ASSUME NEW c, contacts \in Seq(Contact), Cardinality(Duplicates(c)) = 1,
         NEW k \in Duplicates(c)
  PROVE  Duplicates(c) = {k}
<1>1. DOMAIN contacts = 1..Len(contacts) /\ Len(contacts) \in Nat
  BY LenProperties
<1>2. IsFiniteSet(DOMAIN contacts)
  BY <1>1, FS_Interval
<1>3. IsFiniteSet(Duplicates(c))
  BY <1>2, FS_Subset DEF Duplicates
<1>4. PICK x : Duplicates(c) = {x}
  BY <1>3, FS_Singleton
<1> QED BY <1>4

(* What a step may do to the contacts: nothing, add one for an address that   *)
(* no contact has, or merge into the only contact that has one of its fields. *)
Creates(c, name) ==
  /\ Duplicates(c) = {}
  /\ contacts' = Append(contacts, Merged(Blank, c, name))
Updates(c, name) ==
  \E k \in DOMAIN contacts :
    /\ Duplicates(c) = {k}
    /\ contacts' = [contacts EXCEPT ![k] = Merged(contacts[k], c, name)]

LEMMA UpsertCases ==
  ASSUME contacts \in Seq(Contact), NEW c, NEW name, NEW a, Upsert(c, name, a)
  PROVE  UNCHANGED contacts \/ Creates(c, name) \/ Updates(c, name)
<1>1. CASE /\ Cardinality(Duplicates(c)) = 1 /\ a \in Duplicates(c)
           /\ contacts' = [contacts EXCEPT ![a] = Merged(@, c, name)]
  <2>1. Duplicates(c) = {a} /\ a \in DOMAIN contacts
    BY <1>1, OneDuplicate DEF Duplicates
  <2> QED BY <1>1, <2>1 DEF Updates
<1> QED BY <1>1 DEF Upsert, Creates

LEMMA CreatedContact ==
  ASSUME contacts \in Seq(Contact), NEW c \in Customers, NEW name \in Names, Creates(c, name)
  PROVE  /\ contacts' \in Seq(Contact)
         /\ DOMAIN contacts' = DOMAIN contacts \cup {Len(contacts) + 1}
         /\ Len(contacts) + 1 \notin DOMAIN contacts
         /\ contacts'[Len(contacts) + 1] = Merged(Blank, c, name)
         /\ \A k \in DOMAIN contacts : contacts'[k] = contacts[k]
<1>1. Merged(Blank, c, name) \in Contact
  BY MergedType, BlankFields
<1> QED BY <1>1, AppendProperties, LenProperties DEF Creates

LEMMA UpdatedContact ==
  ASSUME contacts \in Seq(Contact), NEW c \in Customers, NEW name \in Names, Updates(c, name)
  PROVE  \E k \in DOMAIN contacts :
           /\ Duplicates(c) = {k}
           /\ contacts' \in Seq(Contact) /\ DOMAIN contacts' = DOMAIN contacts
           /\ contacts'[k] = Merged(contacts[k], c, name)
           /\ \A j \in DOMAIN contacts \ {k} : contacts'[j] = contacts[j]
<1>1. PICK k \in DOMAIN contacts :
        /\ Duplicates(c) = {k}
        /\ contacts' = [contacts EXCEPT ![k] = Merged(contacts[k], c, name)]
  BY DEF Updates
<1>2. contacts[k] \in Contact
  BY ElementOfSeq, LenProperties
<1> DEFINE m == Merged(contacts[k], c, name)
<1>3. m \in Contact
  BY <1>2, MergedType
<1>4. contacts' = [contacts EXCEPT ![k] = m]
  BY <1>1
<1> HIDE DEF m
<1>5. contacts' \in Seq(Contact) /\ DOMAIN contacts' = DOMAIN contacts
  BY <1>3, <1>4, ExceptSeq, LenProperties
<1>6. contacts'[k] = m /\ \A j \in DOMAIN contacts \ {k} : contacts'[j] = contacts[j]
  BY <1>4
<1> QED BY <1>1, <1>5, <1>6 DEF m

(* Every step upserts for at most one customer, under a name that is a string. *)
LEMMA ContactsStep ==
  ASSUME TypeOK, [Next]_vars
  PROVE  \/ UNCHANGED contacts
         \/ \E c \in Customers, name \in Names : Creates(c, name) \/ Updates(c, name)
<1>1. contacts \in Seq(Contact) /\ batch \subseteq Customers
  BY DEF TypeOK, Contact, Names
<1>2. \A c \in Customers : Name[c] \in Names /\ OrderName(c) \in Names
  BY DEF OrderName, Names, Filled
<1>3. CASE UpsertNext
  <2>1. PICK c \in batch : UNCHANGED contacts \/ \E k : Upsert(c, Name[c], k)
    BY <1>3 DEF UpsertNext
  <2> QED BY <1>1, <1>2, <2>1, UpsertCases
<1>4. CASE \E c \in Customers : OrderContact(c)
  <2>1. PICK c \in Customers : \E k : Upsert(c, OrderName(c), k)
    BY <1>4 DEF OrderContact, OrderName
  <2> QED BY <1>1, <1>2, <2>1, UpsertCases
<1>5. CASE Fetch \/ StoreId \/ RowsDone \/ Crash \/ (\E c \in Customers : Register(c))
           \/ UNCHANGED vars
  BY <1>5 DEF Fetch, StoreId, RowsDone, Crash, Register, vars
<1> QED BY <1>3, <1>4, <1>5 DEF Next, ProcessCustomers

-----------------------------------------------------------------------------
(* Types *)

LEMMA InitType == Init => TypeOK
BY DEF Init, TypeOK

LEMMA ContactsType ==
  ASSUME TypeOK, [Next]_vars
  PROVE  contacts' \in Seq(Contact) /\ DOMAIN contacts \subseteq DOMAIN contacts'
<1>1. contacts \in Seq(Contact)
  BY DEF TypeOK, Contact, Names
<1> QED BY <1>1, ContactsStep, CreatedContact, UpdatedContact

(* The id an upsert answers with is a contact's. *)
LEMMA AnswerType ==
  ASSUME contacts \in Seq(Contact), NEW c \in Customers, NEW name \in Names, NEW a,
         Upsert(c, name, a), DOMAIN contacts \subseteq DOMAIN contacts'
  PROVE  a \in DOMAIN contacts'
<1>1. CASE Creates(c, name) /\ a = Len(contacts) + 1
  BY <1>1, CreatedContact
<1>2. CASE a \in Duplicates(c)
  BY <1>2 DEF Duplicates
<1> QED BY <1>1, <1>2 DEF Upsert, Creates

LEMMA TypeStep == TypeOK /\ [Next]_vars => TypeOK'
<1> SUFFICES ASSUME TypeOK, [Next]_vars PROVE TypeOK'
  OBVIOUS
<1>1. contacts' \in Seq(Contact) /\ DOMAIN contacts \subseteq DOMAIN contacts'
  BY ContactsType
<1>2. contacts' \in Seq([email : Filled(Email), phone : Filled(Phone),
                       name : Filled(Name) \cup {"?"}])
  BY <1>1 DEF Contact, Names
<1>3. CASE Fetch
  BY <1>1, <1>2, <1>3 DEF Fetch, NewCustomers, TypeOK
<1>4. CASE UpsertNext
  <2>1. PICK c \in batch :
          /\ batch' = batch \ {c} /\ current' = c
          /\ id' = ErrId \/ Upsert(c, Name[c], id')
    BY <1>4 DEF UpsertNext
  <2>2. c \in registered /\ c \in Customers /\ Name[c] \in Names /\ contacts \in Seq(Contact)
    BY <2>1, CustomerAssumption DEF TypeOK, Contact, Names, Filled
  <2>3. id' \in DOMAIN contacts' \cup {ErrId}
    BY <1>1, <2>1, <2>2, AnswerType
  <2>4. pc' = "store" /\ UNCHANGED <<registered, zohoId>>
    BY <1>4 DEF UpsertNext
  <2> QED BY <1>1, <1>2, <2>1, <2>2, <2>3, <2>4 DEF TypeOK
<1>5. CASE StoreId
  BY <1>1, <1>2, <1>5 DEF StoreId, TypeOK
<1>6. CASE RowsDone \/ Crash \/ UNCHANGED vars
  BY <1>1, <1>2, <1>6 DEF RowsDone, Crash, vars, worker, TypeOK
<1>7. CASE \E c \in Customers : Register(c) \/ OrderContact(c)
  BY <1>1, <1>2, <1>7 DEF Register, OrderContact, worker, TypeOK
<1> QED BY <1>3, <1>4, <1>5, <1>6, <1>7 DEF Next, ProcessCustomers

(* A zoho_id that ProcessCustomers (core/customers.go) stores is one of a     *)
(* contact that exists, or the mark of a failure, and the worker only ever    *)
(* stores it for a customer the shop has.                                     *)
THEOREM TypeCorrect == Spec => []TypeOK
BY InitType, TypeStep, PTL DEF Spec

-----------------------------------------------------------------------------
(* One contact per address *)

(* A contact that c does not match has neither c's email nor c's phone. *)
LEMMA NoMatch ==
  ASSUME NEW c, NEW k \in DOMAIN contacts, k \notin Duplicates(c)
  PROVE  /\ Email[c] # "" => contacts[k].email # Email[c]
         /\ Phone[c] # "" => contacts[k].phone # Phone[c]
BY DEF Duplicates

(* Contact n becomes what c was merged into; the others match neither what it *)
(* was nor c.                                                                 *)
LEMMA OneContactWritten ==
  ASSUME OneContactPerAddress, NEW c, NEW name, NEW old, NEW n,
         DOMAIN contacts' \subseteq DOMAIN contacts \cup {n},
         contacts'[n] = Merged(old, c, name),
         \A k \in DOMAIN contacts \ {n} :
           /\ contacts'[k] = contacts[k]
           /\ k \notin Duplicates(c)
           /\ old.email # "" => contacts[k].email # old.email
           /\ old.phone # "" => contacts[k].phone # old.phone
  PROVE  OneContactPerAddress'
<1>1. \A k \in DOMAIN contacts' \ {n} : k \in DOMAIN contacts \ {n}
  OBVIOUS
<1>2. ASSUME NEW k \in DOMAIN contacts \ {n}
      PROVE  /\ contacts'[n].email # "" => contacts'[n].email # contacts'[k].email
             /\ contacts'[n].phone # "" => contacts'[n].phone # contacts'[k].phone
  <2> DEFINE m == Merged(old, c, name)
  <2>1. m.email = (IF Email[c] = "" THEN old.email ELSE Email[c])
    BY DEF Merged
  <2>2. m.phone = (IF Phone[c] = "" THEN old.phone ELSE Phone[c])
    BY DEF Merged
  <2> HIDE DEF m
  <2>3. contacts'[n] = m /\ contacts'[k] = contacts[k]
    BY DEF m
  <2>4. /\ Email[c] # "" => contacts[k].email # Email[c]
        /\ Phone[c] # "" => contacts[k].phone # Phone[c]
    BY NoMatch
  <2>5. m.email # "" => m.email # contacts[k].email
    BY <2>1, <2>4
  <2>6. m.phone # "" => m.phone # contacts[k].phone
    BY <2>2, <2>4
  <2> QED BY <2>3, <2>5, <2>6
<1>3. ASSUME NEW j \in DOMAIN contacts \ {n}, NEW k \in DOMAIN contacts \ {n}, j # k
      PROVE  /\ contacts'[j].email # "" => contacts'[j].email # contacts'[k].email
             /\ contacts'[j].phone # "" => contacts'[j].phone # contacts'[k].phone
  BY <1>3 DEF OneContactPerAddress
<1> QED BY <1>1, <1>2, <1>3 DEF OneContactPerAddress

LEMMA OneContactStep ==
  TypeOK /\ OneContactPerAddress /\ [Next]_vars => OneContactPerAddress'
<1> SUFFICES ASSUME TypeOK, OneContactPerAddress, [Next]_vars PROVE OneContactPerAddress'
  OBVIOUS
<1>0. contacts \in Seq(Contact)
  BY DEF TypeOK, Contact, Names
<1>1. CASE UNCHANGED contacts
  BY <1>1 DEF OneContactPerAddress
<1>2. ASSUME NEW c \in Customers, NEW name \in Names, Creates(c, name)
      PROVE  OneContactPerAddress'
  <2>1. /\ DOMAIN contacts' = DOMAIN contacts \cup {Len(contacts) + 1}
        /\ contacts'[Len(contacts) + 1] = Merged(Blank, c, name)
        /\ \A k \in DOMAIN contacts : contacts'[k] = contacts[k]
    BY <1>0, <1>2, CreatedContact
  <2>2. Duplicates(c) = {}
    BY <1>2 DEF Creates
  <2>3. PICK n, old : n = Len(contacts) + 1 /\ old = Blank
    OBVIOUS
  <2>4. /\ DOMAIN contacts' \subseteq DOMAIN contacts \cup {n}
        /\ contacts'[n] = Merged(old, c, name)
    BY <2>1, <2>3
  <2>5. \A k \in DOMAIN contacts \ {n} :
          /\ contacts'[k] = contacts[k]
          /\ k \notin Duplicates(c)
          /\ old.email # "" => contacts[k].email # old.email
          /\ old.phone # "" => contacts[k].phone # old.phone
    BY <2>1, <2>2, <2>3, BlankFields
  <2> QED BY <2>4, <2>5, OneContactWritten
<1>3. ASSUME NEW c \in Customers, NEW name \in Names, Updates(c, name)
      PROVE  OneContactPerAddress'
  <2>1. PICK n \in DOMAIN contacts :
          /\ Duplicates(c) = {n} /\ DOMAIN contacts' = DOMAIN contacts
          /\ contacts'[n] = Merged(contacts[n], c, name)
          /\ \A j \in DOMAIN contacts \ {n} : contacts'[j] = contacts[j]
    BY <1>0, <1>3, UpdatedContact
  <2>2. \A k \in DOMAIN contacts \ {n} :
          /\ contacts[n].email # "" => contacts[k].email # contacts[n].email
          /\ contacts[n].phone # "" => contacts[k].phone # contacts[n].phone
    BY DEF OneContactPerAddress
  <2>3. PICK old : old = contacts[n]
    OBVIOUS
  <2>4. /\ DOMAIN contacts' \subseteq DOMAIN contacts \cup {n}
        /\ contacts'[n] = Merged(old, c, name)
    BY <2>1, <2>3
  <2>5. \A k \in DOMAIN contacts \ {n} :
          /\ contacts'[k] = contacts[k]
          /\ k \notin Duplicates(c)
          /\ old.email # "" => contacts[k].email # old.email
          /\ old.phone # "" => contacts[k].phone # old.phone
    BY <2>1, <2>2, <2>3
  <2> QED BY <2>4, <2>5, OneContactWritten
<1> QED BY <1>1, <1>2, <1>3, ContactsStep

(* upsertContact (services/zoho.go) repeated after a restart, a failed store  *)
(* or a lost answer, or done for an order of the same buyer, never leaves two *)
(* contacts with one email or one phone.                                      *)
THEOREM AddressesUnique == Spec => []OneContactPerAddress
<1>1. Init => OneContactPerAddress
  <2>1. Init => DOMAIN contacts = {}
    BY DEF Init
  <2> QED BY <2>1 DEF OneContactPerAddress
<1> QED BY <1>1, OneContactStep, TypeCorrect, PTL DEF Spec

-----------------------------------------------------------------------------
(* Nothing is blanked *)

LEMMA KeepsFields ==
  TypeOK /\ [Next]_vars =>
    \A k \in DOMAIN contacts :
      /\ contacts[k].email # "" => contacts'[k].email # ""
      /\ contacts[k].phone # "" => contacts'[k].phone # ""
      /\ contacts[k].name # "" => contacts'[k].name # ""
<1> SUFFICES ASSUME TypeOK, [Next]_vars, NEW k \in DOMAIN contacts
             PROVE  /\ contacts[k].email # "" => contacts'[k].email # ""
                    /\ contacts[k].phone # "" => contacts'[k].phone # ""
                    /\ contacts[k].name # "" => contacts'[k].name # ""
  OBVIOUS
<1>0. contacts \in Seq(Contact)
  BY DEF TypeOK, Contact, Names
<1>1. CASE contacts'[k] = contacts[k]
  BY <1>1
<1>2. CASE \E c, name : contacts'[k] = Merged(contacts[k], c, name)
  <2>1. PICK c, name : contacts'[k] = Merged(contacts[k], c, name)
    BY <1>2
  <2> DEFINE old == contacts[k]
             m   == Merged(old, c, name)
  <2>2. m.email = (IF Email[c] = "" THEN old.email ELSE Email[c])
    BY DEF Merged
  <2>3. m.phone = (IF Phone[c] = "" THEN old.phone ELSE Phone[c])
    BY DEF Merged
  <2>4. m.name = (IF name = "" THEN old.name ELSE name)
    BY DEF Merged
  <2>5. contacts'[k] = m
    BY <2>1
  <2> HIDE DEF m
  <2> QED BY <2>2, <2>3, <2>4, <2>5
<1>3. CASE UNCHANGED contacts
  BY <1>1, <1>3
<1> QED BY <1>0, <1>1, <1>2, <1>3, ContactsStep, CreatedContact, UpdatedContact

(* The payload of upsertContact leaves empty fields out: whoever the upsert   *)
(* is for, an email, phone or name that Zoho has stays filled in.             *)
THEOREM FieldsNeverBlanked == Spec => NothingBlanked
<1>1. TypeOK /\ [Next]_vars =>
        [\A k \in DOMAIN contacts :
           /\ contacts[k].email # "" => contacts'[k].email # ""
           /\ contacts[k].phone # "" => contacts'[k].phone # ""
           /\ contacts[k].name # "" => contacts'[k].name # ""]_contacts
  BY KeepsFields
<1> QED BY <1>1, TypeCorrect, PTL DEF Spec, NothingBlanked
=============================================================================
