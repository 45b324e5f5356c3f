------------------------- MODULE ConversationProofs -------------------------
(***************************************************************************)
(* Proofs about Conversation, for any number of buyers, messages,          *)
(* overlapping deliveries, dashboard sends and extractor runs, any batch,  *)
(* any stride and any set of failing ports.                                *)
(***************************************************************************)
EXTENDS Conversation, SequenceTheorems, FiniteSetTheorems, TLAPS

Inv == TypeOK /\ Bookkeeping /\ AtMostOneSend /\ OneRowPerExternalId

(***************************************************************************)
(* Inv in three parts, since most actions leave two of them alone.         *)
(***************************************************************************)
ReqInv ==
    /\ req \in [Deliveries -> Request]
    /\ sends \subseteq Send
    /\ \A d \in Deliveries :
          /\ req[d].pc \notin {"idle", "done", "refused"} => req[d].batch # <<>>
          /\ req[d].pc = "send" => req[d].reply # "none"
    /\ \A s \in sends :
          /\ req[s.id[1]].pc # "idle"
          /\ s.id[2] > 0 /\ s.id[2] >= Len(req[s.id[1]].batch)
          /\ s.id[2] = Len(req[s.id[1]].batch) => req[s.id[1]].pc \in {"persist", "finish"}
    /\ AtMostOneSend

CrmInv ==
    /\ contacts \subseteq Contact
    /\ activities \subseteq Activity
    /\ tasks \subseteq Task
    /\ nextId \in Nat
    /\ \A c \in contacts : c.id < nextId
    /\ \A c1, c2 \in contacts : c1.id = c2.id => c1 = c2
    /\ OneRowPerExternalId

RestInv ==
    /\ now \in Nat
    /\ handoff_config \in HandoffConfigs
    /\ bot_pauses \in [Buyers -> Nat]
    /\ turns \in [Buyers -> Seq(Turn)]
    /\ human \in [HumanSends -> HumanReq]
    /\ jobs \subseteq Job
    /\ racing \in [Buyers -> SUBSET JobIds]

\* The inductive invariant is its three parts.
LEMMA Parts == Inv <=> ReqInv /\ CrmInv /\ RestInv
  BY DEF Inv, TypeOK, Bookkeeping, ReqInv, CrmInv, RestInv

\* The same of the next state.
LEMMA PartsNext == Inv' <=> ReqInv' /\ CrmInv' /\ RestInv'
  BY DEF Inv, TypeOK, Bookkeeping, ReqInv, CrmInv, RestInv

(***************************************************************************)
(* The data operators keep their types.                                    *)
(***************************************************************************)
\* The ring buffer holds turns.
LEMMA RememberType ==
    ASSUME NEW bucket \in Seq(Turn), NEW t \in Turn
    PROVE  remember(bucket, t) \in Seq(Turn)
<1>1. Append(bucket, t) \in Seq(Turn)
  OBVIOUS
<1>2. Len(Append(bucket, t)) > MaxItems =>
        SubSeq(Append(bucket, t), Len(Append(bucket, t)) - MaxItems + 1,
               Len(Append(bucket, t))) \in Seq(Turn)
  <2> DEFINE s == Append(bucket, t)
  <2>1. s \in Seq(Turn) /\ Len(s) \in Nat
    BY <1>1
  <2> HIDE DEF s
  <2>2. Len(s) > MaxItems => Len(s) - MaxItems + 1 \in 1..(Len(s) + 1)
    BY <2>1, ConversationAssumption
  <2>3. Len(s) > MaxItems => SubSeq(s, Len(s) - MaxItems + 1, Len(s)) \in Seq(Turn)
    BY <2>1, <2>2, SubSeqProperties
  <2>4. QED
    BY <2>3 DEF s
<1>3. QED
  BY <1>1, <1>2 DEF remember

\* The contact a buyer is filed under, when there is one.
LEMMA FoundContact ==
    ASSUME NEW S, S \subseteq Contact, NEW b, find_contact(S, b) # {}
    PROVE  LET c == CHOOSE x \in find_contact(S, b) : TRUE
           IN  c \in S /\ c \in Contact /\ c.buyer = b
  BY DEF find_contact

\* An inbound message leaves contacts well typed and b with a contact.
LEMMA UpsertContactType ==
    ASSUME NEW S, S \subseteq Contact, NEW b \in Buyers, NEW id \in Nat
    PROVE  /\ upsert_contact_for_inbound(S, b, id) \subseteq Contact
           /\ find_contact(upsert_contact_for_inbound(S, b, id), b) # {}
<1>1. CASE find_contact(S, b) = {}
  <2> DEFINE n == [id |-> id, buyer |-> b, turn_count |-> 1, fields |-> {}]
  <2>1. n \in Contact /\ n.buyer = b
    BY DEF Contact
  <2>2. upsert_contact_for_inbound(S, b, id) = S \cup {n}
    BY <1>1 DEF upsert_contact_for_inbound
  <2>3. QED
    BY <2>1, <2>2 DEF find_contact
<1>2. CASE find_contact(S, b) # {}
  <2> DEFINE c == CHOOSE x \in find_contact(S, b) : TRUE
             n == [c EXCEPT !.turn_count = @ + 1]
  <2>1. c \in Contact /\ c.buyer = b
    BY <1>2, FoundContact
  <2>2. upsert_contact_for_inbound(S, b, id) = {r \in S : r.id # n.id} \cup {n}
    BY <1>2 DEF upsert_contact_for_inbound, upsert
  <2> HIDE DEF c
  <2>3. n \in Contact /\ n.buyer = b
    BY <2>1 DEF Contact
  <2>4. QED
    BY <2>2, <2>3 DEF find_contact
<1>3. QED
  BY <1>1, <1>2

\* record_activity writes a well-typed row under a well-typed key.
LEMMA RecordActivityType ==
    ASSUME NEW S, S \subseteq Activity, NEW key \in MessageKey, NEW cid \in Nat, NEW id \in Nat
    PROVE  record_activity(S, key, cid, id) \subseteq Activity
  BY DEF record_activity, Activity

\* The contact id an activity is filed under is an id.
LEMMA ContactIdType ==
    ASSUME NEW S, S \subseteq Contact, NEW b, find_contact(S, b) # {}
    PROVE  contact_id_of(S, b) \in Nat
<1>1. (CHOOSE x \in find_contact(S, b) : TRUE) \in Contact
  BY FoundContact
<1>2. QED
  BY <1>1 DEF contact_id_of, Contact

\* The extractor's patch leaves contacts well typed.
LEMMA PatchContactType ==
    ASSUME NEW S, S \subseteq Contact, NEW c \in Contact, NEW res \in ExtractionResult
    PROVE  patch_contact(S, c, res) \subseteq Contact
<1> DEFINE n == [c EXCEPT !.fields = @ \cup accepted(res),
                          !.turn_count = IF "turn_count" \in accepted(res) THEN 0 ELSE @]
<1>1. accepted(res) \subseteq Fields
  BY DEF accepted, ExtractionResult
<1>2. n \in Contact
  BY <1>1 DEF Contact
<1>3. patch_contact(S, c, res) = {r \in S : r.id # n.id} \cup {n}
  BY DEF patch_contact, upsert
<1>4. QED
  BY <1>2, <1>3

\* The tasks of an extraction result become well-typed rows.
LEMMA WriteTasksType ==
    ASSUME NEW S, S \subseteq Task, NEW cid \in Nat, NEW new \in Seq(Titles), NEW id \in Nat
    PROVE  write_tasks(S, cid, new, id) \subseteq Task
<1>1. \A i \in written(S, cid, new) :
        [id |-> id + i, contact_id |-> cid, title |-> new[i], status |-> "open"] \in Task
  BY DEF written, Task, TaskStatus
<1>2. QED
  BY <1>1 DEF write_tasks

\* A stage activity is a well-typed row.
LEMMA StageActivityType ==
    ASSUME NEW S, S \subseteq Activity, NEW cid \in Nat, NEW stage \in Stages \cup {NoStage},
           NEW id \in Nat
    PROVE  maybe_write_stage_activity(S, cid, stage, id) \subseteq Activity
  BY DEF maybe_write_stage_activity, Activity, StageKey

(***************************************************************************)
(* The delivery's coroutine.                                               *)
(***************************************************************************)
\* The message at hand of a coroutine that is under way.
LEMMA AtHand ==
    ASSUME ReqInv, NEW d \in Deliveries, req[d].pc \notin {"idle", "done", "refused"}
    PROVE  /\ req[d] \in Request
           /\ req[d].batch \in Seq(Messages) /\ req[d].batch # <<>>
           /\ Len(req[d].batch) \in Nat \ {0}
           /\ Msg(d) \in Messages /\ Buyer(d) \in Buyers /\ Pos(d) \in JobIds
           /\ req[d].cfg \in HandoffConfigs /\ req[d].cfg.auto_pause_hours \in Nat
           /\ req[d].reply \in Replies
<1>1. req[d] \in Request
  BY DEF ReqInv
<1>2. req[d].batch \in Seq(Messages) /\ req[d].batch # <<>> /\ req[d].cfg \in HandoffConfigs
      /\ req[d].reply \in Replies
  BY <1>1 DEF Request, ReqInv
<1>3. Len(req[d].batch) \in Nat \ {0} /\ Msg(d) \in Messages
  BY <1>2 DEF Msg
<1>4. Buyer(d) \in Buyers
  BY <1>3, ConversationAssumption DEF Buyer
<1>5. Pos(d) \in JobIds
  BY <1>3 DEF Pos, JobIds
<1>6. req[d].cfg.auto_pause_hours \in Nat
  BY <1>2, ConversationAssumption
<1>7. QED
  BY <1>1, <1>2, <1>3, <1>4, <1>5, <1>6

\* A reply is named by a delivery and a position.
LEMMA SendIds ==
    ASSUME ReqInv
    PROVE  \A s \in sends : s.id[1] \in Deliveries /\ s.id[2] \in Nat
<1>1. \A s \in sends : s.id \in Deliveries \X Nat
  BY DEF ReqInv, Send, JobIds
<1>2. QED
  BY <1>1

\* A step within a message: the batch stays, and nothing is handed over.
LEMMA WithinMessage ==
    ASSUME ReqInv, NEW d \in Deliveries, req[d].pc \notin {"idle", "done", "refused"},
           NEW r \in Request, r.batch = req[d].batch, r.pc \notin {"idle", "done", "refused"},
           r.pc = "send" => r.reply # "none",
           req[d].pc \in {"persist", "finish"} => r.pc \in {"persist", "finish"},
           req' = [req EXCEPT ![d] = r], UNCHANGED sends
    PROVE  ReqInv'
<1>1. req' \in [Deliveries -> Request] /\ req'[d] = r
  BY DEF ReqInv
<1>2. \A e \in Deliveries : e # d => req'[e] = req[e]
  BY DEF ReqInv
<1>3. req[d].batch # <<>>
  BY DEF ReqInv
<1>4. \A s \in sends : s.id[1] \in Deliveries /\ s.id[2] \in Nat
  BY SendIds
<1>5. \A e \in Deliveries : /\ req'[e].pc \notin {"idle", "done", "refused"} => req'[e].batch # <<>>
                            /\ req'[e].pc = "send" => req'[e].reply # "none"
  BY <1>1, <1>2, <1>3 DEF ReqInv
<1>6. ASSUME NEW s \in sends
      PROVE  /\ req'[s.id[1]].pc # "idle"
             /\ s.id[2] > 0 /\ s.id[2] >= Len(req'[s.id[1]].batch)
             /\ s.id[2] = Len(req'[s.id[1]].batch) => req'[s.id[1]].pc \in {"persist", "finish"}
  <2>1. CASE s.id[1] = d
    BY <1>1, <2>1 DEF ReqInv
  <2>2. CASE s.id[1] # d
    BY <1>2, <1>4, <2>2 DEF ReqInv
  <2>3. QED
    BY <2>1, <2>2
<1>7. AtMostOneSend'
  BY DEF ReqInv, AtMostOneSend
<1>8. QED
  BY <1>1, <1>5, <1>6, <1>7 DEF ReqInv

\* A batch with messages left is not the empty one.
LEMMA NonEmpty == \A x \in Seq(Messages) : Len(x) # 0 => x # <<>>
  BY EmptySeq

\* The end of a message: the batch gets shorter.
LEMMA EndOfMessage ==
    ASSUME ReqInv, NEW d \in Deliveries, req[d].pc \notin {"idle", "done", "refused"},
           NextMessage(d), UNCHANGED sends
    PROVE  ReqInv'
<1> DEFINE r == [pc |-> IF Len(req[d].batch) > 1 THEN "remember" ELSE "done",
                 batch |-> Tail(req[d].batch), cfg |-> req[d].cfg,
                 reply |-> "none", blind |-> FALSE]
<1>1. req[d] \in Request /\ req[d].batch \in Seq(Messages) /\ req[d].batch # <<>>
      /\ Len(req[d].batch) \in Nat \ {0} /\ req[d].cfg \in HandoffConfigs
  BY AtHand
<1>2. Tail(req[d].batch) \in Seq(Messages) /\ Len(Tail(req[d].batch)) = Len(req[d].batch) - 1
  BY <1>1
<1>3. r \in Request /\ r.batch = Tail(req[d].batch) /\ r.pc # "send"
      /\ r.pc = IF Len(req[d].batch) > 1 THEN "remember" ELSE "done"
  BY <1>1, <1>2 DEF Request, ReqPC, Replies
<1>4. req' = [req EXCEPT ![d] = r]
  BY DEF NextMessage
<1>5. r.pc # "done" => r.batch # <<>>
  <2>1. Len(Tail(req[d].batch)) # 0 => Tail(req[d].batch) # <<>>
    BY <1>2, NonEmpty
  <2>2. Len(req[d].batch) > 1 \/ r.pc = "done"
    BY <1>3
  <2>3. QED
    BY <1>1, <1>2, <1>3, <2>1, <2>2
<1> HIDE DEF r
<1>6. req' \in [Deliveries -> Request]
  BY <1>3, <1>4 DEF ReqInv
<1>7. req'[d] = r /\ \A e \in Deliveries : e # d => req'[e] = req[e]
  BY <1>4 DEF ReqInv
<1>8. \A s \in sends : s.id[1] \in Deliveries /\ s.id[2] \in Nat
  BY SendIds
<1>9. \A e \in Deliveries : /\ req'[e].pc \notin {"idle", "done", "refused"} => req'[e].batch # <<>>
                            /\ req'[e].pc = "send" => req'[e].reply # "none"
  BY <1>3, <1>5, <1>7 DEF ReqInv
<1>10. ASSUME NEW s \in sends
       PROVE  /\ req'[s.id[1]].pc # "idle"
              /\ s.id[2] > 0 /\ s.id[2] >= Len(req'[s.id[1]].batch)
              /\ s.id[2] = Len(req'[s.id[1]].batch) => req'[s.id[1]].pc \in {"persist", "finish"}
  <2>1. CASE s.id[1] = d
    <3>1. s.id[2] > 0 /\ s.id[2] >= Len(req[d].batch)
      BY <2>1 DEF ReqInv
    <3>2. Len(req'[d].batch) = Len(req[d].batch) - 1 /\ req'[d].pc # "idle"
      BY <1>2, <1>3, <1>7
    <3>3. s.id[2] \in Nat
      BY <1>8
    <3>4. s.id[2] >= Len(req'[d].batch) /\ s.id[2] # Len(req'[d].batch)
      BY <1>1, <3>1, <3>2, <3>3
    <3>5. QED
      BY <2>1, <3>1, <3>2, <3>4
  <2>2. CASE s.id[1] # d
    BY <1>7, <1>8, <2>2 DEF ReqInv
  <2>3. QED
    BY <2>1, <2>2
<1>11. AtMostOneSend'
  BY DEF ReqInv, AtMostOneSend
<1>12. QED
  BY <1>6, <1>9, <1>10, <1>11 DEF ReqInv

\* What BotPausePort.pause writes.
LEMMA PauseType ==
    ASSUME RestInv, ReqInv, NEW b \in Buyers, NEW n \in Nat, pause(b, n)
    PROVE  bot_pauses' \in [Buyers -> Nat] /\ racing' \in [Buyers -> SUBSET JobIds]
<1>1. Composing(b) \subseteq JobIds
  BY AtHand DEF Composing
<1>2. QED
  BY <1>1 DEF pause, RestInv

\* An inbound message: the contact's id stays or is the fresh one.
LEMMA InboundContacts ==
    ASSUME CrmInv, NEW b \in Buyers, NEW S, S = upsert_contact_for_inbound(contacts, b, nextId)
    PROVE  /\ S \subseteq Contact /\ find_contact(S, b) # {}
           /\ \A c \in S : c.id < nextId + 1
           /\ \A c1, c2 \in S : c1.id = c2.id => c1 = c2
           /\ \A c1, c2 \in S : c1.buyer = c2.buyer => c1 = c2
           /\ \A c \in contacts, n \in S : c.id = n.id => n.turn_count >= c.turn_count
           /\ \A n \in S : (\A c \in contacts : c.id # n.id) => n.id = nextId /\ n.turn_count = 1
<1>1. S \subseteq Contact /\ find_contact(S, b) # {}
  BY UpsertContactType DEF CrmInv
<1>2. CASE find_contact(contacts, b) = {}
  <2> DEFINE n == [id |-> nextId, buyer |-> b, turn_count |-> 1, fields |-> {}]
  <2>1. S = contacts \cup {n}
    BY <1>2 DEF upsert_contact_for_inbound
  <2>2. n.id = nextId /\ n.turn_count = 1 /\ n.buyer = b
    OBVIOUS
  <2> HIDE DEF n
  <2>3. \A c \in contacts : c.buyer # b
    BY <1>2 DEF find_contact
  <2>4. QED
    BY <1>1, <2>1, <2>2, <2>3 DEF CrmInv, Contact, OneRowPerExternalId
<1>3. CASE find_contact(contacts, b) # {}
  <2> DEFINE c == CHOOSE x \in find_contact(contacts, b) : TRUE
             n == [c EXCEPT !.turn_count = @ + 1]
  <2>1. c \in contacts /\ c \in Contact
    BY <1>3, FoundContact DEF CrmInv
  <2>2. S = {r \in contacts : r.id # n.id} \cup {n}
    BY <1>3 DEF upsert_contact_for_inbound, upsert
  <2> HIDE DEF c
  <2>3. /\ n.id = c.id /\ n.turn_count = c.turn_count + 1 /\ n.buyer = c.buyer
        /\ c.turn_count \in Nat /\ c.id \in Nat
    BY <2>1 DEF Contact
  <2> HIDE DEF n
  <2>4. \A x \in S : x = n \/ (x \in contacts /\ x.id # c.id)
    BY <2>2, <2>3
  <2>5. \A x \in contacts : x.id \in Nat /\ x.id < nextId /\ nextId \in Nat
                            /\ x.turn_count \in Nat
    BY DEF CrmInv, Contact
  <2>6. \A x \in S : x.id < nextId + 1
    BY <2>1, <2>3, <2>4, <2>5
  <2>7. \A c1, c2 \in S : c1.id = c2.id => c1 = c2
    BY <2>3, <2>4 DEF CrmInv
  <2>8. \A c1, c2 \in S : c1.buyer = c2.buyer => c1 = c2
    BY <2>1, <2>3, <2>4 DEF CrmInv, OneRowPerExternalId
  <2>9. ASSUME NEW x \in contacts, NEW y \in S, x.id = y.id
        PROVE  y.turn_count >= x.turn_count
    <3>1. CASE y = n
      BY <2>1, <2>3, <2>5, <2>9, <3>1 DEF CrmInv
    <3>2. CASE y \in contacts
      BY <2>5, <2>9, <3>2 DEF CrmInv
    <3>3. QED
      BY <2>4, <3>1, <3>2
  <2>10. \A x \in S : \E y \in contacts : y.id = x.id
    BY <2>1, <2>3, <2>4
  <2>11. QED
    BY <1>1, <2>6, <2>7, <2>8, <2>9, <2>10
<1>4. QED
  BY <1>2, <1>3

(***************************************************************************)
(* The CRM rows.                                                           *)
(***************************************************************************)
\* What every step may do to the contacts: the two action properties.
ContactStep ==
    /\ \A c \in contacts, n \in contacts' : c.id = n.id => n.turn_count >= c.turn_count
    /\ \A n \in contacts' :
          (\A c \in contacts : c.id # n.id) => n.id >= nextId /\ n.turn_count = 1

\* Contacts that are kept or removed satisfy it.
LEMMA FewerContacts ==
    ASSUME CrmInv, contacts' \subseteq contacts
    PROVE  ContactStep
<1>1. \A c \in contacts : c.turn_count \in Nat
  BY DEF CrmInv, Contact
<1>2. QED
  BY <1>1 DEF ContactStep, CrmInv

\* One activity per message key is kept by record_activity.
LEMMA RecordActivityUnique ==
    ASSUME NEW S, NEW key, NEW cid, NEW id,
           \A a1, a2 \in S : a1.external_id = a2.external_id /\ a1.external_id \in MessageKey
                             => a1 = a2
    PROVE  \A a1, a2 \in record_activity(S, key, cid, id) :
              a1.external_id = a2.external_id /\ a1.external_id \in MessageKey => a1 = a2
<1> DEFINE n == [id |-> id, external_id |-> key, contact_id |-> cid]
<1>1. n.external_id = key
  OBVIOUS
<1>2. CASE find_activity(S, key) # {}
  BY <1>2 DEF record_activity
<1>3. CASE find_activity(S, key) = {}
  <2>1. record_activity(S, key, cid, id) = S \cup {n}
    BY <1>3 DEF record_activity
  <2>2. \A a \in S : a.external_id # key
    BY <1>3 DEF find_activity
  <2> HIDE DEF n
  <2>3. QED
    BY <1>1, <2>1, <2>2
<1>4. QED
  BY <1>2, <1>3

\* record_inbound keeps the rows in order, whichever of its writes fail.
LEMMA RecordInboundRows ==
    ASSUME CrmInv, NEW b \in Buyers, NEW m \in Messages, record_inbound(b, m)
    PROVE  CrmInv' /\ ContactStep
<1>1. CASE UNCHANGED <<contacts, activities, nextId>>
  BY <1>1, FewerContacts DEF record_inbound, CrmInv, OneRowPerExternalId
<1>2. CASE /\ contacts' = upsert_contact_for_inbound(contacts, b, nextId)
           /\ \/ activities' = record_activity(activities, <<"inbound", m>>,
                                  contact_id_of(contacts', b), nextId + 1)
              \/ UNCHANGED activities
           /\ nextId' = nextId + 2
  <2>1. /\ contacts' \subseteq Contact /\ find_contact(contacts', b) # {}
        /\ \A c \in contacts' : c.id < nextId + 1
        /\ \A c1, c2 \in contacts' : c1.id = c2.id => c1 = c2
        /\ \A c1, c2 \in contacts' : c1.buyer = c2.buyer => c1 = c2
        /\ \A c \in contacts, n \in contacts' : c.id = n.id => n.turn_count >= c.turn_count
        /\ \A n \in contacts' :
              (\A c \in contacts : c.id # n.id) => n.id = nextId /\ n.turn_count = 1
    BY <1>2, InboundContacts
  <2>2. nextId \in Nat /\ nextId' \in Nat /\ tasks' \subseteq Task
    BY <1>2 DEF CrmInv, record_inbound
  <2>3. ContactStep
    BY <2>1, <2>2 DEF ContactStep
  <2>4. \A c \in contacts' : c.id < nextId'
    <3>1. \A c \in contacts' : c.id \in Nat
      BY <2>1 DEF Contact
    <3>2. QED
      BY <1>2, <2>1, <2>2, <3>1
  <2>5. contact_id_of(contacts', b) \in Nat
    BY <2>1, ContactIdType
  <2>6. <<"inbound", m>> \in MessageKey
    BY DEF MessageKey
  <2>7. activities' \subseteq Activity
    <3>1. CASE UNCHANGED activities
      BY <3>1 DEF CrmInv
    <3>2. CASE activities' = record_activity(activities, <<"inbound", m>>,
                                  contact_id_of(contacts', b), nextId + 1)
      <4>1. activities \subseteq Activity /\ nextId + 1 \in Nat
        BY DEF CrmInv
      <4>2. QED
        BY <2>5, <2>6, <3>2, <4>1, RecordActivityType
    <3>3. QED
      BY <1>2, <3>1, <3>2
  <2>8. \A a1, a2 \in activities' :
           a1.external_id = a2.external_id /\ a1.external_id \in MessageKey => a1 = a2
    BY <1>2, RecordActivityUnique DEF CrmInv, OneRowPerExternalId
  <2>9. OneRowPerExternalId'
    BY <2>1, <2>8 DEF OneRowPerExternalId
  <2>10. QED
    BY <2>1, <2>2, <2>3, <2>4, <2>7, <2>9 DEF CrmInv
<1>3. QED
  BY <1>1, <1>2 DEF record_inbound

\* record_outbound never touches a contact.
LEMMA RecordOutboundRows ==
    ASSUME CrmInv, NEW b \in Buyers, NEW m \in Messages, record_outbound(b, m)
    PROVE  CrmInv' /\ ContactStep
<1>1. contacts' = contacts /\ tasks' = tasks
  BY DEF record_outbound
<1>2. ContactStep
  BY <1>1, FewerContacts
<1>3. CASE UNCHANGED <<activities, nextId>>
  BY <1>1, <1>2, <1>3 DEF CrmInv, OneRowPerExternalId
<1>4. CASE /\ find_contact(contacts, b) # {}
           /\ activities' = record_activity(activities, <<"outbound", m>>,
                               contact_id_of(contacts, b), nextId)
           /\ nextId' = nextId + 1
  <2>1. contact_id_of(contacts, b) \in Nat /\ <<"outbound", m>> \in MessageKey
    BY <1>4, ContactIdType DEF CrmInv, MessageKey
  <2>2. activities' \subseteq Activity
    BY <1>4, <2>1, RecordActivityType DEF CrmInv
  <2>3. \A a1, a2 \in activities' :
           a1.external_id = a2.external_id /\ a1.external_id \in MessageKey => a1 = a2
    BY <1>4, RecordActivityUnique DEF CrmInv, OneRowPerExternalId
  <2>4. OneRowPerExternalId'
    BY <1>1, <2>3 DEF CrmInv, OneRowPerExternalId
  <2>5. \A c \in contacts : c.id \in Nat
    BY DEF CrmInv, Contact
  <2>6. QED
    BY <1>1, <1>2, <1>4, <2>2, <2>4, <2>5 DEF CrmInv
<1>5. QED
  BY <1>3, <1>4 DEF record_outbound

\* The extractor's patch keeps the contact's id, buyer and turn count.
LEMMA PatchedContacts ==
    ASSUME CrmInv, NEW c \in contacts, NEW res \in ExtractionResult,
           NEW S, S = patch_contact(contacts, c, res)
    PROVE  /\ S \subseteq Contact
           /\ \A x \in S : \E y \in contacts :
                 x.id = y.id /\ x.buyer = y.buyer /\ x.turn_count = y.turn_count
           /\ \A c1, c2 \in S : c1.id = c2.id => c1 = c2
<1> DEFINE n == [c EXCEPT !.fields = @ \cup accepted(res),
                          !.turn_count = IF "turn_count" \in accepted(res) THEN 0 ELSE @]
<1>1. c \in Contact
  BY DEF CrmInv
<1>2. "turn_count" \notin accepted(res)
  BY DEF accepted, PROTECTED_CONTACT_FIELDS
<1>3. n.id = c.id /\ n.buyer = c.buyer /\ n.turn_count = c.turn_count
  BY <1>1, <1>2 DEF Contact
<1>4. S = {r \in contacts : r.id # n.id} \cup {n}
  BY DEF patch_contact, upsert
<1>5. S \subseteq Contact
  BY <1>1, PatchContactType DEF CrmInv
<1> HIDE DEF n
<1>6. \A x \in S : x = n \/ (x \in contacts /\ x.id # c.id)
  BY <1>3, <1>4
<1>7. QED
  BY <1>3, <1>5, <1>6 DEF CrmInv

\* A stage activity is never filed under a message's key.
LEMMA StageKeyApart ==
    ASSUME NEW cid, NEW stage
    PROVE  <<"stage", cid, stage>> \notin MessageKey
  BY DEF MessageKey

\* CrmExtractor.apply keeps the rows in order, wherever it stops.
LEMMA ApplyRows ==
    ASSUME CrmInv, NEW c \in contacts, NEW res \in ExtractionResult,
           NEW tried \in 0..Len(res.new_tasks), apply(c, res, tried)
    PROVE  CrmInv' /\ ContactStep
<1>1. c \in Contact /\ c.id \in Nat /\ nextId \in Nat
  BY DEF CrmInv, Contact
<1>2. res.new_tasks \in Seq(Titles) /\ res.stage \in Stages \cup {NoStage}
  BY DEF ExtractionResult
<1>3. nextId' \in Nat /\ nextId' >= nextId
  <2>1. Len(res.new_tasks) \in Nat
    BY <1>2
  <2>2. nextId' = nextId + Len(res.new_tasks) + 1
    BY DEF apply
  <2>3. QED
    BY <1>1, <2>1, <2>2
<1>4. /\ contacts' \subseteq Contact
      /\ \A x \in contacts' : \E y \in contacts :
            x.id = y.id /\ x.buyer = y.buyer /\ x.turn_count = y.turn_count
      /\ \A c1, c2 \in contacts' : c1.id = c2.id => c1 = c2
  <2>1. CASE contacts' = patch_contact(contacts, c, res)
    BY <2>1, PatchedContacts
  <2>2. CASE contacts' = contacts
    BY <2>2 DEF CrmInv
  <2>3. QED
    BY <2>1, <2>2 DEF apply
<1>5. tasks' \subseteq Task
  <2> DEFINE prefix == SubSeq(res.new_tasks, 1, tried)
  <2>1. prefix \in Seq(Titles)
    BY <1>2
  <2>2. CASE tasks' = write_tasks(tasks, c.id, prefix, nextId)
    <3> HIDE DEF prefix
    <3>1. QED
      BY <1>1, <2>1, <2>2, WriteTasksType DEF CrmInv
  <2>3. CASE tasks' = tasks
    BY <2>3 DEF CrmInv
  <2>4. QED
    BY <2>2, <2>3 DEF apply
<1>6. /\ activities' \subseteq Activity
      /\ \A a1, a2 \in activities' :
           a1.external_id = a2.external_id /\ a1.external_id \in MessageKey => a1 = a2
  <2>1. CASE activities' = activities
    BY <2>1 DEF CrmInv, OneRowPerExternalId
  <2>2. CASE activities' = maybe_write_stage_activity(activities, c.id, res.stage, nextId)
    <3> DEFINE n == [id |-> nextId, external_id |-> <<"stage", c.id, res.stage>>,
                     contact_id |-> c.id]
    <3>1. activities' \subseteq Activity
      BY <1>1, <1>2, <2>2, StageActivityType DEF CrmInv
    <3>2. activities' \subseteq activities \cup {n}
      BY <2>2 DEF maybe_write_stage_activity
    <3>3. n.external_id \notin MessageKey
      BY StageKeyApart
    <3> HIDE DEF n
    <3>4. QED
      BY <3>1, <3>2, <3>3 DEF CrmInv, OneRowPerExternalId
  <2>3. QED
    BY <2>1, <2>2 DEF apply
<1>7. ContactStep
  <2>1. \A x \in contacts : x.turn_count \in Nat
    BY DEF CrmInv, Contact
  <2>2. QED
    BY <1>4, <2>1 DEF ContactStep, CrmInv
<1>8. \A x \in contacts' : x.id < nextId'
  <2>1. \A x \in contacts : x.id \in Nat /\ x.id < nextId
    BY DEF CrmInv, Contact
  <2>2. QED
    BY <1>1, <1>3, <1>4, <2>1
<1>9. \A c1, c2 \in contacts' : c1.buyer = c2.buyer => c1 = c2
  BY <1>4 DEF CrmInv, OneRowPerExternalId
<1>10. OneRowPerExternalId'
  BY <1>6, <1>9 DEF OneRowPerExternalId
<1>11. QED
  BY <1>3, <1>4, <1>5, <1>6, <1>7, <1>8, <1>10 DEF CrmInv

\* Nothing else in the pipeline writes a row.
LEMMA RowsUnchanged ==
    ASSUME CrmInv, UNCHANGED crmVars
    PROVE  CrmInv' /\ ContactStep
  BY FewerContacts DEF CrmInv, OneRowPerExternalId, crmVars

\* The operator's edits.
LEMMA DeleteResourceRows ==
    ASSUME CrmInv, DeleteResource
    PROVE  CrmInv' /\ ContactStep
<1>1. contacts' \subseteq contacts /\ activities' \subseteq activities
      /\ tasks' = tasks /\ nextId' = nextId
  BY DEF DeleteResource
<1>2. QED
  BY <1>1, FewerContacts DEF CrmInv, OneRowPerExternalId

\* Task edits (patch_crm_task, delete_crm_task) touch no other row.
LEMMA TaskRows ==
    ASSUME CrmInv, tasks' \subseteq Task, UNCHANGED <<contacts, activities, nextId>>
    PROVE  CrmInv' /\ ContactStep
  BY FewerContacts DEF CrmInv, OneRowPerExternalId

(***************************************************************************)
(* The steps of a delivery.                                                *)
(***************************************************************************)
\* The parts of the state an action does not write stay in order.
LEMMA RestUnchanged ==
    ASSUME RestInv, UNCHANGED <<now, handoff_config, turns, pauseVars, human, jobs>>
    PROVE  RestInv'
  BY DEF RestInv, pauseVars

\* A step that leaves deliveries and sends alone keeps what is said of them.
LEMMA ReqUnchanged ==
    ASSUME ReqInv, UNCHANGED <<req, sends>>
    PROVE  ReqInv'
  BY DEF ReqInv, AtMostOneSend

\* A turn of the delivery's coroutine or of the dashboard is appended.
LEMMA TurnAppended ==
    ASSUME RestInv, NEW b \in Buyers, NEW role \in {"buyer", "agent"},
           NEW by \in JobIds \cup HumanSends,
           \/ turns' = [turns EXCEPT ![b] = remember(@, [role |-> role, by |-> by])]
           \/ UNCHANGED turns
    PROVE  turns' \in [Buyers -> Seq(Turn)]
<1>1. [role |-> role, by |-> by] \in Turn
  BY DEF Turn
<1>2. turns[b] \in Seq(Turn)
  BY DEF RestInv
<1>3. remember(turns[b], [role |-> role, by |-> by]) \in Seq(Turn)
  BY <1>1, <1>2, RememberType
<1>4. QED
  BY <1>3 DEF RestInv

\* The delivery that webhook_receive starts: accepted with its messages, or
\* refused without any.
LEMMA ReceiveRequest ==
    ASSUME ReqInv, RestInv, NEW d \in Deliveries, NEW batch \in Batches, Receive(d, batch)
    PROVE  \E r \in Request : /\ req' = [req EXCEPT ![d] = r]
                              /\ r.pc \in {"remember", "done", "refused"}
                              /\ r.pc = "remember" => r.batch # <<>>
<1> DEFINE n == [pc |-> IF batch = <<>> THEN "done" ELSE "remember",
                 batch |-> batch, cfg |-> handoff_config, reply |-> "none", blind |-> FALSE]
<1>1. CASE req' = [req EXCEPT ![d] = n]
  <2>1. n \in Request
    BY ConversationAssumption DEF Request, ReqPC, Replies, RestInv
  <2>2. n.pc \in {"remember", "done"} /\ (n.pc = "remember" => n.batch # <<>>)
    OBVIOUS
  <2> HIDE DEF n
  <2>3. QED
    BY <1>1, <2>1, <2>2
<1>2. CASE Goto(d, "refused")
  <2> DEFINE m == [req[d] EXCEPT !.pc = "refused"]
  <2>1. m \in Request /\ m.pc = "refused" /\ m.batch = req[d].batch
    BY DEF ReqInv, Request, ReqPC
  <2>2. req' = [req EXCEPT ![d] = m]
    BY <1>2 DEF Goto
  <2> HIDE DEF m
  <2>3. QED
    BY <2>1, <2>2
<1>3. QED
  BY <1>1, <1>2 DEF Receive

\* webhook_receive starts a delivery.
LEMMA ReceiveStep ==
    ASSUME Inv, NEW d \in Deliveries, NEW batch \in Batches, Receive(d, batch)
    PROVE  Inv' /\ ContactStep
<1>1. ReqInv /\ CrmInv /\ RestInv
  BY Parts
<1>2. PICK r \in Request : /\ req' = [req EXCEPT ![d] = r]
                           /\ r.pc \in {"remember", "done", "refused"}
                           /\ r.pc = "remember" => r.batch # <<>>
  BY <1>1, ReceiveRequest
<1>3. req[d].pc = "idle" /\ sends' = sends
  BY DEF Receive
<1>6. /\ req' \in [Deliveries -> Request] /\ req'[d] = r
      /\ \A e \in Deliveries : e # d => req'[e] = req[e]
  BY <1>1, <1>2 DEF ReqInv
<1>7. \A s \in sends : s.id[1] \in Deliveries /\ s.id[1] # d
  BY <1>1, <1>3, SendIds DEF ReqInv
<1>8. \A e \in Deliveries : /\ req'[e].pc \notin {"idle", "done", "refused"} => req'[e].batch # <<>>
                            /\ req'[e].pc = "send" => req'[e].reply # "none"
  BY <1>1, <1>2, <1>6 DEF ReqInv
<1>9. ReqInv'
  BY <1>1, <1>3, <1>6, <1>7, <1>8 DEF ReqInv, AtMostOneSend
<1>10. CrmInv' /\ ContactStep
  BY <1>1, RowsUnchanged DEF Receive
<1>11. RestInv'
  BY <1>1, RestUnchanged DEF Receive
<1>12. QED
  BY <1>9, <1>10, <1>11, PartsNext

\* Step 1 of the handler: the buyer's message is remembered or not.
LEMMA RememberInboundStep ==
    ASSUME Inv, NEW d \in Deliveries, RememberInbound(d)
    PROVE  Inv' /\ ContactStep
<1>1. ReqInv /\ CrmInv /\ RestInv /\ req[d].pc = "remember"
  BY Parts DEF RememberInbound
<1>2. req[d] \in Request /\ Buyer(d) \in Buyers /\ Pos(d) \in JobIds
  BY <1>1, AtHand
<1>3. ReqInv'
  <2>1. [req[d] EXCEPT !.pc = "record"] \in Request
        /\ [req[d] EXCEPT !.pc = "record"].batch = req[d].batch
        /\ [req[d] EXCEPT !.pc = "record"].pc = "record"
    BY <1>2 DEF Request, ReqPC
  <2>2. QED
    BY <1>1, <2>1, WithinMessage DEF RememberInbound, Goto
<1>4. CrmInv' /\ ContactStep
  BY <1>1, RowsUnchanged DEF RememberInbound
<1>5. turns' \in [Buyers -> Seq(Turn)]
  BY <1>1, <1>2, TurnAppended DEF RememberInbound
<1>6. RestInv'
  BY <1>1, <1>5 DEF RememberInbound, RestInv, pauseVars
<1>7. QED
  BY <1>3, <1>4, <1>6, PartsNext

\* Step 4 of the handler: the reply is remembered or not.
LEMMA PersistReplyStep ==
    ASSUME Inv, NEW d \in Deliveries, PersistReply(d)
    PROVE  Inv' /\ ContactStep
<1>1. ReqInv /\ CrmInv /\ RestInv /\ req[d].pc = "persist"
  BY Parts DEF PersistReply
<1>2. req[d] \in Request /\ Buyer(d) \in Buyers /\ Pos(d) \in JobIds
  BY <1>1, AtHand
<1>3. ReqInv'
  <2>1. [req[d] EXCEPT !.pc = "finish"] \in Request
        /\ [req[d] EXCEPT !.pc = "finish"].batch = req[d].batch
        /\ [req[d] EXCEPT !.pc = "finish"].pc = "finish"
    BY <1>2 DEF Request, ReqPC
  <2>2. QED
    BY <1>1, <2>1, WithinMessage DEF PersistReply, Goto
<1>4. CrmInv' /\ ContactStep
  BY <1>1, RowsUnchanged DEF PersistReply
<1>5. turns' \in [Buyers -> Seq(Turn)]
  BY <1>1, <1>2, TurnAppended DEF PersistReply
<1>6. RestInv'
  BY <1>1, <1>5 DEF PersistReply, RestInv, pauseVars
<1>7. QED
  BY <1>3, <1>4, <1>6, PartsNext

\* Steps 1a and 1b: the CRM write, then on to the reply or to the next message.
LEMMA RecordInboundStep ==
    ASSUME Inv, NEW d \in Deliveries, RecordInbound(d)
    PROVE  Inv' /\ ContactStep
<1>1. ReqInv /\ CrmInv /\ RestInv /\ req[d].pc = "record"
  BY Parts DEF RecordInbound
<1>2. req[d] \in Request /\ Buyer(d) \in Buyers /\ Msg(d) \in Messages
  BY <1>1, AtHand
<1>3. ReqInv'
  <2>1. CASE NextMessage(d)
    BY <1>1, <2>1, EndOfMessage DEF RecordInbound
  <2>2. ASSUME NEW blind \in BOOLEAN, NEW pc \in {"notify", "recall"},
               req' = [req EXCEPT ![d].blind = blind, ![d].pc = pc]
        PROVE  ReqInv'
    <3> DEFINE r == [req[d] EXCEPT !.blind = blind, !.pc = pc]
    <3>1. r \in Request /\ r.batch = req[d].batch /\ r.pc = pc
      BY <1>2 DEF Request, ReqPC
    <3>2. req' = [req EXCEPT ![d] = r]
      BY <1>1, <2>2 DEF ReqInv
    <3> HIDE DEF r
    <3>3. QED
      BY <1>1, <3>1, <3>2, WithinMessage DEF RecordInbound
  <2>3. QED
    BY <2>1, <2>2 DEF RecordInbound
<1>4. CrmInv' /\ ContactStep
  BY <1>1, <1>2, RecordInboundRows DEF RecordInbound
<1>5. RestInv'
  BY <1>1, RestUnchanged DEF RecordInbound
<1>6. QED
  BY <1>3, <1>4, <1>5, PartsNext

\* A step that only moves a coroutine to "send" with a reply, or to "complete".
LEMMA Composed ==
    ASSUME ReqInv, NEW d \in Deliveries, req[d].pc \in {"notify", "recall", "complete"},
           NEW pc \in {"complete", "send"}, NEW reply \in {"handoff", "llm", "fallback"},
           req' = [req EXCEPT ![d].pc = pc, ![d].reply = reply], UNCHANGED sends
    PROVE  ReqInv'
<1> DEFINE r == [req[d] EXCEPT !.pc = pc, !.reply = reply]
<1>1. req[d] \in Request
  BY AtHand
<1>2. r \in Request /\ r.batch = req[d].batch /\ r.pc = pc /\ r.reply = reply
  BY <1>1 DEF Request, ReqPC, Replies
<1>3. req' = [req EXCEPT ![d] = r]
  BY DEF ReqInv
<1> HIDE DEF r
<1>4. QED
  BY <1>2, <1>3, WithinMessage

\* The handoff branch: the notifier returns, the thread may be paused.
LEMMA NotifyHandoffStep ==
    ASSUME Inv, NEW d \in Deliveries, NotifyHandoff(d)
    PROVE  Inv' /\ ContactStep
<1>1. ReqInv /\ CrmInv /\ RestInv /\ req[d].pc = "notify"
  BY Parts DEF NotifyHandoff
<1>2. Buyer(d) \in Buyers /\ req[d].cfg.auto_pause_hours \in Nat
  BY <1>1, AtHand
<1>3. ReqInv'
  BY <1>1, Composed DEF NotifyHandoff
<1>4. CrmInv' /\ ContactStep
  BY <1>1, RowsUnchanged DEF NotifyHandoff
<1>5. bot_pauses' \in [Buyers -> Nat] /\ racing' \in [Buyers -> SUBSET JobIds]
  <2>1. CASE pause(Buyer(d), req[d].cfg.auto_pause_hours)
    BY <1>1, <1>2, <2>1, PauseType
  <2>2. CASE UNCHANGED pauseVars
    BY <1>1, <2>2 DEF RestInv, pauseVars
  <2>3. QED
    BY <2>1, <2>2 DEF NotifyHandoff
<1>6. RestInv'
  BY <1>1, <1>5 DEF NotifyHandoff, RestInv
<1>7. QED
  BY <1>3, <1>4, <1>6, PartsNext

\* memory.recall returns or fails.
LEMMA RecallStep ==
    ASSUME Inv, NEW d \in Deliveries, Recall(d)
    PROVE  Inv' /\ ContactStep
<1>1. ReqInv /\ CrmInv /\ RestInv /\ req[d].pc = "recall"
  BY Parts DEF Recall
<1>2. ReqInv'
  <2>1. CASE req' = [req EXCEPT ![d].pc = "send", ![d].reply = "fallback"]
    BY <1>1, <2>1, Composed DEF Recall
  <2>2. CASE req' = [req EXCEPT ![d].pc = "complete"]
    <3>1. req[d] \in Request
      BY <1>1, AtHand
    <3>2. [req[d] EXCEPT !.pc = "complete"] \in Request
          /\ [req[d] EXCEPT !.pc = "complete"].batch = req[d].batch
          /\ [req[d] EXCEPT !.pc = "complete"].pc = "complete"
      BY <3>1 DEF Request, ReqPC
    <3>3. QED
      BY <1>1, <2>2, <3>2, WithinMessage DEF Recall
  <2>3. QED
    BY <2>1, <2>2 DEF Recall, Goto
<1>3. CrmInv' /\ ContactStep
  BY <1>1, RowsUnchanged DEF Recall
<1>4. RestInv'
  BY <1>1, RestUnchanged DEF Recall
<1>5. QED
  BY <1>2, <1>3, <1>4, PartsNext

\* The LLM answers or fails: there is a reply either way.
LEMMA CompleteStep ==
    ASSUME Inv, NEW d \in Deliveries, Complete(d)
    PROVE  Inv' /\ ContactStep
<1>1. ReqInv /\ CrmInv /\ RestInv /\ req[d].pc = "complete"
  BY Parts DEF Complete
<1>2. ReqInv'
  BY <1>1, Composed DEF Complete
<1>3. CrmInv' /\ ContactStep
  BY <1>1, RowsUnchanged DEF Complete
<1>4. RestInv'
  BY <1>1, RestUnchanged DEF Complete
<1>5. QED
  BY <1>2, <1>3, <1>4, PartsNext

\* Step 3: the reply is handed over once, under the position of its message.
LEMMA SendReplyStep ==
    ASSUME Inv, NEW d \in Deliveries, SendReply(d)
    PROVE  Inv' /\ ContactStep
<1>1. ReqInv /\ CrmInv /\ RestInv /\ req[d].pc = "send"
  BY Parts DEF SendReply
<1>2. /\ req[d] \in Request /\ Msg(d) \in Messages /\ Pos(d) \in JobIds
      /\ req[d].reply \in Replies \ {"none"} /\ Len(req[d].batch) \in Nat \ {0}
  BY <1>1, AtHand DEF ReqInv
<1>3. PICK outcome \in {"sent", "lost", "failed"} :
        sends' = sends \cup {[id |-> Pos(d), msg |-> Msg(d), reply |-> req[d].reply,
                              outcome |-> outcome]}
  BY DEF SendReply
<1> DEFINE n == [id |-> Pos(d), msg |-> Msg(d), reply |-> req[d].reply, outcome |-> outcome]
           r == [req[d] EXCEPT !.pc = "persist"]
<1>4. n \in Send
  BY <1>2 DEF Send
<1>5. n.id = <<d, Len(req[d].batch)>>
  BY DEF Pos
<1>6. r \in Request /\ r.batch = req[d].batch /\ r.pc = "persist"
  BY <1>2 DEF Request, ReqPC
<1>7. req' = [req EXCEPT ![d] = r] /\ sends' = sends \cup {n}
  BY <1>3 DEF SendReply, Goto
<1> HIDE DEF n, r
<1>8. /\ req' \in [Deliveries -> Request] /\ req'[d] = r
      /\ \A e \in Deliveries : e # d => req'[e] = req[e]
  BY <1>1, <1>6, <1>7 DEF ReqInv
<1>9. sends' \subseteq Send
  BY <1>1, <1>4, <1>7 DEF ReqInv
<1>10. \A e \in Deliveries : /\ req'[e].pc \notin {"idle", "done", "refused"} => req'[e].batch # <<>>
                             /\ req'[e].pc = "send" => req'[e].reply # "none"
  BY <1>1, <1>6, <1>8 DEF ReqInv
<1>11. \A s \in sends : s.id[1] \in Deliveries /\ s.id[2] \in Nat
  BY <1>1, SendIds
<1>12. ASSUME NEW s \in sends'
       PROVE  /\ req'[s.id[1]].pc # "idle"
              /\ s.id[2] > 0 /\ s.id[2] >= Len(req'[s.id[1]].batch)
              /\ s.id[2] = Len(req'[s.id[1]].batch) => req'[s.id[1]].pc \in {"persist", "finish"}
  <2>1. CASE s = n
    <3>1. s.id[1] = d /\ s.id[2] = Len(req[d].batch)
      BY <1>5, <2>1
    <3>2. QED
      BY <1>2, <1>6, <1>8, <3>1
  <2>2. CASE s \in sends /\ s.id[1] = d
    BY <1>1, <1>6, <1>8, <2>2 DEF ReqInv
  <2>3. CASE s \in sends /\ s.id[1] # d
    BY <1>1, <1>8, <1>11, <2>3 DEF ReqInv
  <2>4. QED
    BY <1>7, <2>1, <2>2, <2>3
<1>13. \A s \in sends : s.id # n.id
  <2>1. SUFFICES ASSUME NEW s \in sends, s.id = n.id PROVE FALSE
    OBVIOUS
  <2>2. s.id[1] = d /\ s.id[2] = Len(req[d].batch)
    BY <1>5, <2>1
  <2>3. QED
    BY <1>1, <2>2 DEF ReqInv
<1>14. AtMostOneSend'
  BY <1>1, <1>7, <1>13 DEF ReqInv, AtMostOneSend
<1>15. ReqInv'
  BY <1>8, <1>9, <1>10, <1>12, <1>14 DEF ReqInv
<1>16. CrmInv' /\ ContactStep
  BY <1>1, RowsUnchanged DEF SendReply
<1>17. RestInv'
  BY <1>1, RestUnchanged DEF SendReply
<1>18. QED
  BY <1>15, <1>16, <1>17, PartsNext

\* Steps 5 and 6: outbound activity, extractor dispatch, next message.
LEMMA FinishMessageStep ==
    ASSUME Inv, NEW d \in Deliveries, FinishMessage(d)
    PROVE  Inv' /\ ContactStep
<1>1. ReqInv /\ CrmInv /\ RestInv /\ req[d].pc = "finish"
  BY Parts DEF FinishMessage
<1>2. Buyer(d) \in Buyers /\ Msg(d) \in Messages /\ Pos(d) \in JobIds
  BY <1>1, AtHand
<1>3. ReqInv'
  BY <1>1, EndOfMessage DEF FinishMessage
<1>4. CrmInv' /\ ContactStep
  BY <1>1, <1>2, RecordOutboundRows DEF FinishMessage
<1>5. jobs' \subseteq Job
  <2>1. [id |-> Pos(d), pc |-> "ready", buyer |-> Buyer(d), contact_id |-> 0] \in Job
    BY <1>2 DEF Job
  <2>2. QED
    BY <1>1, <2>1 DEF FinishMessage, RestInv
<1>6. RestInv'
  BY <1>1, <1>5 DEF FinishMessage, RestInv, pauseVars
<1>7. QED
  BY <1>3, <1>4, <1>6, PartsNext

(***************************************************************************)
(* The dashboard, the extractor and the clock leave the deliveries alone.  *)
(***************************************************************************)
\* The dashboard starts a send.
LEMMA HumanSendStep ==
    ASSUME Inv, NEW h \in HumanSends, NEW b \in Buyers, NEW hours \in Hours,
           HumanSend(h, b, hours)
    PROVE  Inv' /\ ContactStep
<1>1. ReqInv /\ CrmInv /\ RestInv
  BY Parts
<1>2. human' \in [HumanSends -> HumanReq]
  <2>1. [pc |-> "send", buyer |-> b, hours |-> hours] \in HumanReq
    BY DEF HumanReq
  <2>2. QED
    BY <1>1, <2>1 DEF HumanSend, RestInv
<1>3. RestInv'
  BY <1>1, <1>2 DEF HumanSend, RestInv, pauseVars
<1>4. ReqInv' /\ CrmInv' /\ ContactStep
  BY <1>1, ReqUnchanged, RowsUnchanged DEF HumanSend
<1>5. QED
  BY <1>3, <1>4, PartsNext

\* The dashboard send pauses the bot.
LEMMA HumanPauseStep ==
    ASSUME Inv, NEW h \in HumanSends, HumanPause(h)
    PROVE  Inv' /\ ContactStep
<1>1. ReqInv /\ CrmInv /\ RestInv
  BY Parts
<1>2. human[h] \in HumanReq /\ human[h].buyer \in Buyers /\ human[h].hours \in Nat
  <2>1. human[h] \in HumanReq
    BY <1>1 DEF RestInv
  <2>2. QED
    BY <2>1, ConversationAssumption DEF HumanReq
<1>3. human' \in [HumanSends -> HumanReq]
  <2>1. [human[h] EXCEPT !.pc = "remember"] \in HumanReq
    BY <1>2 DEF HumanReq
  <2>2. QED
    BY <1>1, <2>1 DEF HumanPause, RestInv
<1>4. bot_pauses' \in [Buyers -> Nat] /\ racing' \in [Buyers -> SUBSET JobIds]
  <2>1. CASE pause(human[h].buyer, human[h].hours)
    BY <1>1, <1>2, <2>1, PauseType
  <2>2. CASE UNCHANGED pauseVars
    BY <1>1, <2>2 DEF RestInv, pauseVars
  <2>3. QED
    BY <2>1, <2>2 DEF HumanPause
<1>5. RestInv'
  BY <1>1, <1>3, <1>4 DEF HumanPause, RestInv
<1>6. ReqInv' /\ CrmInv' /\ ContactStep
  BY <1>1, ReqUnchanged, RowsUnchanged DEF HumanPause
<1>7. QED
  BY <1>5, <1>6, PartsNext

\* The dashboard send remembers its turn.
LEMMA HumanRememberStep ==
    ASSUME Inv, NEW h \in HumanSends, HumanRemember(h)
    PROVE  Inv' /\ ContactStep
<1>1. ReqInv /\ CrmInv /\ RestInv
  BY Parts
<1>2. human[h] \in HumanReq /\ human[h].buyer \in Buyers
  <2>1. human[h] \in HumanReq
    BY <1>1 DEF RestInv
  <2>2. QED
    BY <2>1 DEF HumanReq
<1>3. human' \in [HumanSends -> HumanReq]
  <2>1. [human[h] EXCEPT !.pc = "done"] \in HumanReq
    BY <1>2 DEF HumanReq
  <2>2. QED
    BY <1>1, <2>1 DEF HumanRemember, RestInv
<1>4. turns' \in [Buyers -> Seq(Turn)]
  BY <1>1, <1>2, TurnAppended DEF HumanRemember
<1>5. RestInv'
  BY <1>1, <1>3, <1>4 DEF HumanRemember, RestInv, pauseVars
<1>6. ReqInv' /\ CrmInv' /\ ContactStep
  BY <1>1, ReqUnchanged, RowsUnchanged DEF HumanRemember
<1>7. QED
  BY <1>5, <1>6, PartsNext

\* pause_bot, resume_bot, the handoff config and the clock.
LEMMA OperatorStep ==
    ASSUME Inv,
           \/ \E b \in Buyers, hours \in Hours : PauseBot(b, hours)
           \/ \E b \in Buyers : ResumeBot(b)
           \/ \E cfg \in HandoffConfigs : UpdateTenantHandoff(cfg)
           \/ Tick
    PROVE  Inv' /\ ContactStep
<1>1. ReqInv /\ CrmInv /\ RestInv
  BY Parts
<1>2. UNCHANGED <<req, sends>> /\ UNCHANGED crmVars
  BY DEF PauseBot, ResumeBot, UpdateTenantHandoff, Tick
<1>3. ReqInv' /\ CrmInv' /\ ContactStep
  BY <1>1, <1>2, ReqUnchanged, RowsUnchanged
<1>4. ASSUME NEW b \in Buyers, NEW hours \in Hours, PauseBot(b, hours) PROVE RestInv'
  <2>1. bot_pauses' \in [Buyers -> Nat] /\ racing' \in [Buyers -> SUBSET JobIds]
    BY <1>1, <1>4, PauseType, ConversationAssumption DEF PauseBot
  <2>2. QED
    BY <1>1, <1>4, <2>1 DEF PauseBot, RestInv
<1>5. ASSUME NEW b \in Buyers, ResumeBot(b) PROVE RestInv'
  BY <1>1, <1>5 DEF ResumeBot, RestInv
<1>6. ASSUME NEW cfg \in HandoffConfigs, UpdateTenantHandoff(cfg) PROVE RestInv'
  BY <1>1, <1>6 DEF UpdateTenantHandoff, RestInv, pauseVars
<1>7. ASSUME Tick PROVE RestInv'
  BY <1>1, <1>7 DEF Tick, RestInv, pauseVars
<1>8. QED
  BY <1>3, <1>4, <1>5, <1>6, <1>7, PartsNext

\* The operator's edits and deletions of CRM rows.
LEMMA EditStep ==
    ASSUME Inv,
           \/ DeleteResource
           \/ \E t \in tasks, title \in Titles, status \in TaskStatus :
                 PatchTask(t, title, status)
           \/ \E t \in tasks : DeleteTask(t)
    PROVE  Inv' /\ ContactStep
<1>1. ReqInv /\ CrmInv /\ RestInv
  BY Parts
<1>2. UNCHANGED <<req, sends>> /\ UNCHANGED <<now, handoff_config, turns, pauseVars, human, jobs>>
  BY DEF DeleteResource, PatchTask, DeleteTask
<1>3. ReqInv' /\ RestInv'
  BY <1>1, <1>2, ReqUnchanged, RestUnchanged
<1>4. CASE DeleteResource
  BY <1>1, <1>3, <1>4, DeleteResourceRows, PartsNext
<1>5. ASSUME NEW t \in tasks, NEW title \in Titles, NEW status \in TaskStatus,
             PatchTask(t, title, status)
      PROVE  CrmInv' /\ ContactStep
  <2> DEFINE n == [t EXCEPT !.title = title, !.status = status]
  <2>1. t \in Task
    BY <1>1 DEF CrmInv
  <2>2. n \in Task
    BY <2>1 DEF Task
  <2>3. tasks' = {x \in tasks : x.id # n.id} \cup {n}
    BY <1>5 DEF PatchTask, upsert
  <2> HIDE DEF n
  <2>4. tasks' \subseteq Task
    BY <1>1, <2>2, <2>3 DEF CrmInv
  <2>5. QED
    BY <1>1, <1>5, <2>4, TaskRows DEF PatchTask
<1>6. ASSUME NEW t \in tasks, DeleteTask(t) PROVE CrmInv' /\ ContactStep
  <2>1. tasks' \subseteq Task
    BY <1>1, <1>6 DEF DeleteTask, CrmInv
  <2>2. QED
    BY <1>1, <1>6, <2>1, TaskRows DEF DeleteTask
<1>7. QED
  BY <1>3, <1>4, <1>5, <1>6, PartsNext

\* A step of a background extractor run.
LEMMA JobStepInv ==
    ASSUME Inv, NEW j \in jobs, JobStep(j)
    PROVE  Inv' /\ ContactStep
<1>1. ReqInv /\ CrmInv /\ RestInv
  BY Parts
<1>2. j \in Job
  BY <1>1 DEF RestInv
<1>3. ReqInv'
  BY <1>1, ReqUnchanged DEF JobStep, JobStart, JobRecall, JobApply
<1>4. ASSUME NEW pc \in {"recall", "extract"}, NEW id \in Nat, JobGoto(j, pc, id)
      PROVE  jobs' \subseteq Job
  <2>1. [j EXCEPT !.pc = pc, !.contact_id = id] \in Job
    BY <1>2 DEF Job
  <2>2. QED
    BY <1>1, <1>4, <2>1 DEF JobGoto, RestInv
<1>5. End(j) => jobs' \subseteq Job
  BY <1>1 DEF End, RestInv
<1>6. jobs' \subseteq Job
  <2>1. CASE JobStart(j)
    <3>1. \A c \in find_contact(contacts, j.buyer) : c.id \in Nat
      BY <1>1 DEF find_contact, CrmInv, Contact
    <3>2. QED
      BY <1>4, <1>5, <2>1, <3>1 DEF JobStart
  <2>2. CASE JobRecall(j)
    <3>1. j.contact_id \in Nat
      BY <1>2 DEF Job
    <3>2. QED
      BY <1>4, <1>5, <2>2, <3>1 DEF JobRecall
  <2>3. CASE JobApply(j)
    BY <1>5, <2>3 DEF JobApply
  <2>4. QED
    BY <2>1, <2>2, <2>3 DEF JobStep
<1>7. RestInv'
  BY <1>1, <1>6 DEF JobStep, JobStart, JobRecall, JobApply, RestInv, pauseVars
<1>8. CrmInv' /\ ContactStep
  <2>1. CASE UNCHANGED crmVars
    BY <1>1, <2>1, RowsUnchanged
  <2>2. ASSUME NEW c \in get(contacts, j.contact_id), NEW result \in Results,
               NEW tried \in 0..Len(result.new_tasks), apply(c, result, tried)
        PROVE  CrmInv' /\ ContactStep
    <3>1. c \in contacts /\ result \in ExtractionResult
      BY ConversationAssumption DEF get
    <3>2. QED
      BY <1>1, <2>2, <3>1, ApplyRows
  <2>3. QED
    BY <2>1, <2>2 DEF JobStep, JobStart, JobRecall, JobApply
<1>9. QED
  BY <1>3, <1>7, <1>8, PartsNext

(***************************************************************************)
(* The inductive invariant.                                                *)
(***************************************************************************)
\* The initial state satisfies the invariant.
LEMMA InitInv == Init => Inv
<1> SUFFICES ASSUME Init PROVE Inv
  OBVIOUS
<1>1. handoff_config \in HandoffConfigs
  BY DEF Init
<1>2. \A d \in Deliveries :
        req[d] = [pc |-> "idle", batch |-> <<>>, cfg |-> handoff_config,
                  reply |-> "none", blind |-> FALSE]
  BY DEF Init
<1>3. [pc |-> "idle", batch |-> <<>>, cfg |-> handoff_config, reply |-> "none",
       blind |-> FALSE] \in Request
  BY <1>1 DEF Request, ReqPC, Replies
<1>4. req \in [Deliveries -> Request] /\ \A d \in Deliveries : req[d].pc = "idle"
  BY <1>2, <1>3 DEF Init
<1>5. sends = {}
  BY DEF Init
<1>6. ReqInv
  BY <1>4, <1>5 DEF ReqInv, AtMostOneSend
<1>7. CrmInv
  BY DEF Init, CrmInv, OneRowPerExternalId
<1>8. human \in [HumanSends -> HumanReq]
  <2>1. (CHOOSE b \in Buyers : TRUE) \in Buyers /\ (CHOOSE n \in Hours : TRUE) \in Hours
    BY ConversationAssumption
  <2>2. QED
    BY <2>1 DEF Init, HumanReq
<1>9. turns \in [Buyers -> Seq(Turn)] /\ racing \in [Buyers -> SUBSET JobIds]
      /\ bot_pauses \in [Buyers -> Nat]
  BY DEF Init
<1>10. RestInv
  BY <1>1, <1>8, <1>9 DEF Init, RestInv
<1>11. QED
  BY <1>6, <1>7, <1>10, Parts

\* Every step preserves the invariant and treats contacts as ContactStep says.
LEMMA NextInv ==
    ASSUME Inv, [Next]_vars
    PROVE  Inv' /\ (ContactStep \/ UNCHANGED vars)
<1>1. CASE UNCHANGED vars
  <2>1. ReqInv' /\ CrmInv' /\ RestInv'
    BY <1>1, Parts, ReqUnchanged, RowsUnchanged, RestUnchanged
       DEF vars, crmVars, pauseVars
  <2>2. QED
    BY <1>1, <2>1, PartsNext
<1>2. ASSUME NEW d \in Deliveries, NEW batch \in Batches, Receive(d, batch)
      PROVE  Inv' /\ ContactStep
  BY <1>2, ReceiveStep
<1>3. ASSUME NEW d \in Deliveries, DeliveryStep(d) PROVE Inv' /\ ContactStep
  BY <1>3, RememberInboundStep, RecordInboundStep, NotifyHandoffStep, RecallStep,
     CompleteStep, SendReplyStep, PersistReplyStep, FinishMessageStep DEF DeliveryStep
<1>4. ASSUME NEW h \in HumanSends, NEW b \in Buyers, NEW hours \in Hours, HumanSend(h, b, hours)
      PROVE  Inv' /\ ContactStep
  BY <1>4, HumanSendStep
<1>5. ASSUME NEW h \in HumanSends, HumanPause(h) \/ HumanRemember(h)
      PROVE  Inv' /\ ContactStep
  BY <1>5, HumanPauseStep, HumanRememberStep
<1>6. ASSUME NEW j \in jobs, JobStep(j) PROVE Inv' /\ ContactStep
  BY <1>6, JobStepInv
<1>7. QED
  BY <1>1, <1>2, <1>3, <1>4, <1>5, <1>6, OperatorStep, EditStep DEF Next

\* The invariant holds throughout.
LEMMA Invariance == Spec => []Inv
<1>1. Inv /\ [Next]_vars => Inv'
  BY NextInv
<1>2. QED
  BY InitInv, <1>1, PTL DEF Spec

\* The state of the reply pipeline is always well typed: in particular every
\* reply handed to the gateway belongs to a message of its own delivery.
THEOREM TypeCorrect == Spec => []TypeOK
<1>1. Inv => TypeOK
  BY DEF Inv
<1>2. QED
  BY Invariance, <1>1, PTL

\* The books of overlapping deliveries balance: a suspended _process_inbound_message
\* has a message at hand and, at the gateway, a reply; what was handed over was
\* handed over by a coroutine that has moved on since; no two contacts share an id.
THEOREM BooksBalance == Spec => []Bookkeeping
<1>1. Inv => Bookkeeping
  BY DEF Inv
<1>2. QED
  BY Invariance, <1>1, PTL

\* No delivery hands one of its messages to the gateway twice, whatever the
\* gateway answers and however many deliveries overlap (step 3 of
\* _process_inbound_message has no retry).
THEOREM SendsAtMostOnce == Spec => []AtMostOneSend
<1>1. Inv => AtMostOneSend
  BY DEF Inv
<1>2. QED
  BY Invariance, <1>1, PTL

\* Find-or-create in CrmRecorder gives a buyer one contact and a message one
\* activity per direction, under any overlap of redeliveries, extractor runs
\* and operator deletes, and any failing write.
THEOREM OneRow == Spec => []OneRowPerExternalId
<1>1. Inv => OneRowPerExternalId
  BY DEF Inv
<1>2. QED
  BY Invariance, <1>1, PTL

\* The background extractor never takes a contact's turn_count back: it
\* patches the row it re-reads and never a protected field.
THEOREM TurnCountKept == Spec => TurnCountNeverLost
<1>1. ASSUME Inv, [Next]_vars
      PROVE  [\A c \in contacts, n \in contacts' :
                c.id = n.id => n.turn_count >= c.turn_count]_vars
  BY <1>1, NextInv DEF ContactStep
<1>2. QED
  BY Invariance, <1>1, PTL DEF Spec, TurnCountNeverLost

\* No handler or extractor run writes back a contact an operator deleted.
THEOREM DeletedStaysDeleted == Spec => DeletedContactStaysDeleted
<1>1. ASSUME Inv, [Next]_vars
      PROVE  [\A n \in contacts' :
                (\A c \in contacts : c.id # n.id) => n.id >= nextId /\ n.turn_count = 1]_vars
  BY <1>1, NextInv DEF ContactStep
<1>2. QED
  BY Invariance, <1>1, PTL DEF Spec, DeletedContactStaysDeleted

(***************************************************************************)
(* The pause check.  Composing(b) grows only in RecordInbound, for a       *)
(* buyer whose thread is not paused, and a pause records it.               *)
(***************************************************************************)
\* A coroutine that leaves the composing phase, stays in it with its message,
\* or does not enter it, adds nothing to what is being composed.
LEMMA ComposingShrinks ==
    ASSUME ReqInv, NEW d \in Deliveries, NEW r, req' = [req EXCEPT ![d] = r],
           \/ r.pc \notin {"notify", "recall", "complete", "send"} \/ r.blind
           \/ /\ req[d].pc \in {"notify", "recall", "complete", "send"}
              /\ r.batch = req[d].batch /\ r.blind = req[d].blind
    PROVE  \A b \in Buyers : Composing(b)' \subseteq Composing(b)
<1>1. SUFFICES ASSUME NEW b \in Buyers, NEW e \in Deliveries,
                      req'[e].pc \in {"notify", "recall", "complete", "send"},
                      Buyer(e)' = b, ~req'[e].blind
               PROVE  Pos(e)' \in Composing(b)
  BY DEF Composing
<1>2. CASE e = d
  <2>1. req'[d] = r
    BY DEF ReqInv
  <2>2. /\ req[d].pc \in {"notify", "recall", "complete", "send"}
        /\ req'[d].batch = req[d].batch /\ req'[d].blind = req[d].blind
    BY <1>1, <1>2, <2>1
  <2>3. Buyer(d) = b /\ Pos(d)' = Pos(d)
    BY <1>1, <1>2, <2>2 DEF Buyer, Msg, Pos
  <2>4. QED
    BY <1>1, <1>2, <2>2, <2>3 DEF Composing
<1>3. CASE e # d
  <2>1. req'[e] = req[e]
    BY <1>3 DEF ReqInv
  <2>2. Buyer(e)' = Buyer(e) /\ Pos(e)' = Pos(e)
    BY <2>1 DEF Buyer, Msg, Pos
  <2>3. QED
    BY <1>1, <2>1, <2>2 DEF Composing
<1>4. QED
  BY <1>2, <1>3

\* While a thread is paused only replies that were in flight when the pause
\* was written, or whose check could not reach the registry, are composed.
LEMMA PauseCheck ==
    ASSUME Inv, NoNewReplyWhilePaused, [Next]_vars
    PROVE  NoNewReplyWhilePaused'
<1>1. ReqInv /\ RestInv
  BY Parts
<1>2. ASSUME \A b \in Buyers : Composing(b)' \subseteq Composing(b), UNCHANGED pauseVars,
             now' = now
      PROVE  NoNewReplyWhilePaused'
  BY <1>2 DEF NoNewReplyWhilePaused, is_paused, pauseVars
<1>3. UNCHANGED req => \A b \in Buyers : Composing(b)' = Composing(b)
  BY DEF Composing, Buyer, Msg, Pos
<1>4. ASSUME NEW b \in Buyers, NEW n \in Nat, pause(b, n), now' = now,
             \A x \in Buyers : Composing(x)' \subseteq Composing(x)
      PROVE  NoNewReplyWhilePaused'
  <2>1. SUFFICES ASSUME NEW x \in Buyers, is_paused(x)' PROVE Composing(x)' \subseteq racing'[x]
    BY DEF NoNewReplyWhilePaused
  <2>2. CASE x = b
    BY <1>1, <1>4, <2>2 DEF pause, RestInv
  <2>3. CASE x # b
    <3>1. bot_pauses'[x] = bot_pauses[x] /\ racing'[x] = racing[x]
      BY <1>1, <1>4, <2>3 DEF pause, RestInv
    <3>2. is_paused(x)
      BY <1>4, <2>1, <3>1 DEF is_paused
    <3>3. QED
      BY <1>4, <3>1, <3>2 DEF NoNewReplyWhilePaused
  <2>4. QED
    BY <2>2, <2>3
<1>5. ASSUME NEW d \in Deliveries, DeliveryStep(d) PROVE NoNewReplyWhilePaused'
  <2>1. req[d] \in Request /\ now' = now
    BY <1>1, <1>5 DEF ReqInv, DeliveryStep, RememberInbound, RecordInbound, NotifyHandoff,
       Recall, Complete, SendReply, PersistReply, FinishMessage
  <2>2. ASSUME NextMessage(d) PROVE \A b \in Buyers : Composing(b)' \subseteq Composing(b)
    <3> DEFINE r == [pc |-> IF Len(req[d].batch) > 1 THEN "remember" ELSE "done",
                     batch |-> Tail(req[d].batch), cfg |-> req[d].cfg,
                     reply |-> "none", blind |-> FALSE]
    <3>1. r.pc \notin {"notify", "recall", "complete", "send"}
      OBVIOUS
    <3>2. req' = [req EXCEPT ![d] = r]
      BY <2>2 DEF NextMessage
    <3> HIDE DEF r
    <3>3. QED
      BY <1>1, <3>1, <3>2, ComposingShrinks
  <2>3. ASSUME NEW pc, req' = [req EXCEPT ![d].pc = pc],
               \/ pc \notin {"notify", "recall", "complete", "send"}
               \/ req[d].pc \in {"notify", "recall", "complete", "send"}
        PROVE  \A b \in Buyers : Composing(b)' \subseteq Composing(b)
    <3> DEFINE r == [req[d] EXCEPT !.pc = pc]
    <3>1. r.pc = pc /\ r.batch = req[d].batch /\ r.blind = req[d].blind
      BY <2>1 DEF Request
    <3>2. req' = [req EXCEPT ![d] = r]
      BY <2>3
    <3> HIDE DEF r
    <3>3. QED
      BY <1>1, <2>3, <3>1, <3>2, ComposingShrinks
  <2>4. ASSUME NEW pc, NEW reply, req' = [req EXCEPT ![d].pc = pc, ![d].reply = reply],
               req[d].pc \in {"notify", "recall", "complete", "send"}
        PROVE  \A b \in Buyers : Composing(b)' \subseteq Composing(b)
    <3> DEFINE r == [req[d] EXCEPT !.pc = pc, !.reply = reply]
    <3>1. r.pc = pc /\ r.batch = req[d].batch /\ r.blind = req[d].blind
      BY <2>1 DEF Request
    <3>2. req' = [req EXCEPT ![d] = r]
      BY <1>1, <2>4 DEF ReqInv
    <3> HIDE DEF r
    <3>3. QED
      BY <1>1, <2>4, <3>1, <3>2, ComposingShrinks
  <2>5. CASE RememberInbound(d) \/ PersistReply(d) \/ SendReply(d)
    BY <1>2, <2>1, <2>3, <2>5 DEF RememberInbound, PersistReply, SendReply, Goto
  <2>6. CASE Recall(d) \/ Complete(d)
    BY <1>2, <2>1, <2>3, <2>4, <2>6 DEF Recall, Complete, Goto
  <2>7. CASE FinishMessage(d)
    BY <1>2, <2>1, <2>2, <2>7 DEF FinishMessage
  <2>8. CASE NotifyHandoff(d)
    <3>1. Buyer(d) \in Buyers /\ req[d].cfg.auto_pause_hours \in Nat
      BY <1>1, <2>8, AtHand DEF NotifyHandoff
    <3>2. \A b \in Buyers : Composing(b)' \subseteq Composing(b)
      BY <2>4, <2>8 DEF NotifyHandoff
    <3>3. QED
      BY <1>2, <1>4, <2>1, <2>8, <3>1, <3>2 DEF NotifyHandoff
  <2>9. CASE RecordInbound(d)
    <3>1. CASE NextMessage(d)
      BY <1>2, <2>1, <2>2, <2>9, <3>1 DEF RecordInbound
    <3>2. ASSUME NEW blind \in BOOLEAN, NEW pc, blind \/ ~is_paused(Buyer(d)),
                 req' = [req EXCEPT ![d].blind = blind, ![d].pc = pc]
          PROVE  NoNewReplyWhilePaused'
      <4> DEFINE r == [req[d] EXCEPT !.blind = blind, !.pc = pc]
      <4>1. r.blind = blind /\ r.batch = req[d].batch
        BY <2>1 DEF Request
      <4>2. req' = [req EXCEPT ![d] = r]
        BY <1>1, <3>2 DEF ReqInv
      <4> HIDE DEF r
      <4>3. CASE blind
        BY <1>1, <1>2, <2>1, <2>9, <4>1, <4>2, <4>3, ComposingShrinks DEF RecordInbound
      <4>4. CASE ~blind
        <5>1. SUFFICES ASSUME NEW b \in Buyers, is_paused(b)',
                              NEW e \in Deliveries,
                              req'[e].pc \in {"notify", "recall", "complete", "send"},
                              Buyer(e)' = b, ~req'[e].blind
                       PROVE  Pos(e)' \in racing'[b]
          BY DEF NoNewReplyWhilePaused, Composing
        <5>2. is_paused(b) /\ racing' = racing
          BY <2>1, <2>9, <5>1 DEF RecordInbound, pauseVars, is_paused
        <5>3. e # d
          <6>1. req'[d].batch = req[d].batch
            BY <1>1, <4>1, <4>2 DEF ReqInv
          <6>2. Buyer(d)' = Buyer(d)
            BY <6>1 DEF Buyer, Msg
          <6>3. QED
            BY <3>2, <4>4, <5>1, <5>2, <6>2
        <5>4. req'[e] = req[e]
          BY <1>1, <4>2, <5>3 DEF ReqInv
        <5>5. Buyer(e)' = Buyer(e) /\ Pos(e)' = Pos(e)
          BY <5>4 DEF Buyer, Msg, Pos
        <5>6. Pos(e) \in Composing(b)
          BY <5>1, <5>4, <5>5 DEF Composing
        <5>7. QED
          BY <5>2, <5>5, <5>6 DEF NoNewReplyWhilePaused
      <4>5. QED
        BY <4>3, <4>4
    <3>3. QED
      BY <2>9, <3>1, <3>2 DEF RecordInbound
  <2>10. QED
    BY <1>5, <2>5, <2>6, <2>7, <2>8, <2>9 DEF DeliveryStep
<1>6. ASSUME NEW d \in Deliveries, NEW batch \in Batches, Receive(d, batch)
      PROVE  NoNewReplyWhilePaused'
  <2>1. PICK r \in Request : /\ req' = [req EXCEPT ![d] = r]
                             /\ r.pc \in {"remember", "done", "refused"}
    BY <1>1, <1>6, ReceiveRequest
  <2>2. r.pc \notin {"notify", "recall", "complete", "send"}
    BY <2>1
  <2>3. \A b \in Buyers : Composing(b)' \subseteq Composing(b)
    BY <1>1, <2>1, <2>2, ComposingShrinks
  <2>4. QED
    BY <1>2, <1>6, <2>3 DEF Receive
<1>7. ASSUME NEW h \in HumanSends, HumanPause(h) PROVE NoNewReplyWhilePaused'
  <2>1. human[h] \in HumanReq
    BY <1>1 DEF RestInv
  <2>2. human[h].buyer \in Buyers /\ human[h].hours \in Nat
    BY <2>1, ConversationAssumption DEF HumanReq
  <2>3. QED
    BY <1>2, <1>3, <1>4, <1>7, <2>2 DEF HumanPause
<1>8. ASSUME NEW b \in Buyers, NEW hours \in Hours, PauseBot(b, hours)
      PROVE  NoNewReplyWhilePaused'
  BY <1>3, <1>4, <1>8, ConversationAssumption DEF PauseBot
<1>9. ASSUME NEW b \in Buyers, ResumeBot(b) PROVE NoNewReplyWhilePaused'
  <2>1. SUFFICES ASSUME NEW x \in Buyers, is_paused(x)' PROVE Composing(x)' \subseteq racing'[x]
    BY DEF NoNewReplyWhilePaused
  <2>2. now' = now /\ racing' = racing /\ Composing(x)' = Composing(x) /\ now \in Nat
    BY <1>1, <1>3, <1>9 DEF ResumeBot, RestInv
  <2>3. x # b
    BY <1>1, <1>9, <2>1, <2>2 DEF ResumeBot, RestInv, is_paused
  <2>4. is_paused(x)
    BY <1>1, <1>9, <2>1, <2>2, <2>3 DEF ResumeBot, RestInv, is_paused
  <2>5. QED
    BY <2>2, <2>4 DEF NoNewReplyWhilePaused
<1>10. ASSUME Tick PROVE NoNewReplyWhilePaused'
  <2>1. SUFFICES ASSUME NEW x \in Buyers, is_paused(x)' PROVE Composing(x)' \subseteq racing'[x]
    BY DEF NoNewReplyWhilePaused
  <2>2. racing' = racing /\ Composing(x)' = Composing(x)
    BY <1>3, <1>10 DEF Tick, pauseVars
  <2>3. is_paused(x)
    BY <1>1, <1>10, <2>1 DEF Tick, pauseVars, is_paused, RestInv
  <2>4. QED
    BY <2>2, <2>3 DEF NoNewReplyWhilePaused
<1>11. ASSUME UNCHANGED <<now, req, pauseVars>> PROVE NoNewReplyWhilePaused'
  BY <1>2, <1>3, <1>11
<1>12. ASSUME NEW h \in HumanSends, NEW b \in Buyers, NEW hours \in Hours,
              HumanSend(h, b, hours)
       PROVE  NoNewReplyWhilePaused'
  BY <1>11, <1>12 DEF HumanSend
<1>13. ASSUME NEW j \in jobs, JobStep(j) PROVE NoNewReplyWhilePaused'
  BY <1>11, <1>13 DEF JobStep, JobStart, JobRecall, JobApply
<1>14. CASE \/ \E cfg \in HandoffConfigs : UpdateTenantHandoff(cfg)
            \/ DeleteResource
            \/ \E t \in tasks, title \in Titles, status \in TaskStatus :
                  PatchTask(t, title, status)
            \/ \E t \in tasks : DeleteTask(t)
            \/ \E h \in HumanSends : HumanRemember(h)
            \/ UNCHANGED vars
  BY <1>11, <1>14 DEF UpdateTenantHandoff, DeleteResource, PatchTask, DeleteTask,
     HumanRemember, vars, pauseVars
<1>15. QED
  BY <1>5, <1>6, <1>7, <1>8, <1>9, <1>10, <1>12, <1>13, <1>14 DEF Next

\* A message that arrives while a thread is paused is never answered by the
\* bot: the pause check of step 1b and the last-writer-wins pause registry
\* leave only the replies that had passed the check before.
THEOREM PauseRespected == Spec => []NoNewReplyWhilePaused
<1>1. Init => NoNewReplyWhilePaused
  BY DEF Init, NoNewReplyWhilePaused, is_paused
<1>2. Inv /\ NoNewReplyWhilePaused /\ [Next]_vars => NoNewReplyWhilePaused'
  BY PauseCheck
<1>3. QED
  BY Invariance, <1>1, <1>2, PTL DEF Spec

(***************************************************************************)
(* Every message is answered.  Between the gateway and the end of a        *)
(* message its reply stands among the sends, and once persisted among the  *)
(* turns, unless the ring buffer has filled up since.                      *)
(***************************************************************************)
Persisted(bucket, id) ==
    \/ "memory" \in Faults \/ Len(bucket) = MaxItems
    \/ \E i \in DOMAIN bucket : bucket[i] = [role |-> "agent", by |-> id]

BucketInv == \A b \in Buyers : Len(turns[b]) <= MaxItems

AnswerInv ==
    /\ BucketInv
    /\ \A d \in Deliveries :
          /\ req[d].pc = "idle" => req[d].batch = <<>>
          /\ req[d].pc \in {"persist", "finish"} => \E s \in sends : s.id = Pos(d)
          /\ req[d].pc = "finish" => Persisted(turns[Buyer(d)], Pos(d))

\* What AnsweredUnlessPaused says of a delivery that leaves a message behind.
Left(d) ==
    \/ is_paused(Buyer(d))
    \/ /\ \E s \in sends : s.id = Pos(d)
       /\ \/ "memory" \in Faults
          \/ Len(turns[Buyer(d)]) = MaxItems
          \/ \E i \in DOMAIN turns[Buyer(d)] :
                turns[Buyer(d)][i] = [role |-> "agent", by |-> Pos(d)]

AnswerStep ==
    \A d \in Deliveries : req[d].batch # <<>> /\ req'[d].batch # req[d].batch => Left(d)

\* The ring buffer keeps what it holds until it is full, and holds what was
\* remembered last.
LEMMA RememberKeeps ==
    ASSUME NEW bucket \in Seq(Turn), NEW t \in Turn, Len(bucket) <= MaxItems
    PROVE  /\ Len(remember(bucket, t)) <= MaxItems
           /\ \A id : \/ Persisted(bucket, id)
                      \/ t = [role |-> "agent", by |-> id]
                      => Persisted(remember(bucket, t), id)
<1> DEFINE longer == Append(bucket, t)
<1>1. /\ longer \in Seq(Turn) /\ Len(longer) = Len(bucket) + 1 /\ Len(bucket) \in Nat
      /\ longer[Len(bucket) + 1] = t
      /\ \A i \in 1..Len(bucket) : longer[i] = bucket[i]
  OBVIOUS
<1>2. MaxItems \in Nat \ {0}
  BY ConversationAssumption
<1>3. /\ DOMAIN bucket = 1..Len(bucket) /\ DOMAIN longer = 1..Len(longer)
  BY <1>1
<1> HIDE DEF longer
<1>4. CASE Len(longer) > MaxItems
  <2>1. remember(bucket, t) = SubSeq(longer, Len(longer) - MaxItems + 1, Len(longer))
    BY <1>4 DEF remember, longer
  <2>2. Len(longer) = MaxItems + 1
    BY <1>1, <1>2, <1>4
  <2>3. 2 \in 1..(Len(longer) + 1) /\ Len(longer) \in 1..Len(longer)
        /\ Len(longer) - MaxItems + 1 = 2
    BY <1>1, <1>2, <2>2
  <2>4. Len(SubSeq(longer, 2, Len(longer))) = Len(longer) - 1
    BY <1>1, <1>2, <2>2, <2>3
  <2>5. Len(remember(bucket, t)) = MaxItems
    BY <1>2, <2>1, <2>2, <2>3, <2>4
  <2>6. QED
    BY <1>2, <2>5 DEF Persisted
<1>5. CASE ~(Len(longer) > MaxItems)
  <2>1. remember(bucket, t) = longer
    BY <1>5 DEF remember, longer
  <2>2. Len(longer) <= MaxItems /\ Len(bucket) # MaxItems
    BY <1>1, <1>2, <1>5
  <2>3. ASSUME NEW id, Persisted(bucket, id) PROVE Persisted(longer, id)
    <3>1. CASE "memory" \in Faults
      BY <3>1 DEF Persisted
    <3>2. CASE \E i \in DOMAIN bucket : bucket[i] = [role |-> "agent", by |-> id]
      <4>1. PICK i \in 1..Len(bucket) : bucket[i] = [role |-> "agent", by |-> id]
        BY <1>3, <3>2
      <4>2. i \in DOMAIN longer /\ longer[i] = bucket[i]
        BY <1>1, <1>3
      <4>3. QED
        BY <4>1, <4>2 DEF Persisted
    <3>3. QED
      BY <2>2, <2>3, <3>1, <3>2 DEF Persisted
  <2>4. ASSUME NEW id, t = [role |-> "agent", by |-> id] PROVE Persisted(longer, id)
    <3>1. Len(bucket) + 1 \in DOMAIN longer /\ longer[Len(bucket) + 1] = t
      BY <1>1, <1>3
    <3>2. QED
      BY <2>4, <3>1 DEF Persisted
  <2>5. QED
    BY <2>1, <2>2, <2>3, <2>4
<1>6. QED
  BY <1>4, <1>5

\* A turn is remembered or not: no bucket overflows or loses a reply it had to keep.
LEMMA BucketsKept ==
    ASSUME RestInv, BucketInv, NEW b \in Buyers, NEW t \in Turn,
           turns' = [turns EXCEPT ![b] = remember(@, t)] \/ UNCHANGED turns
    PROVE  /\ BucketInv'
           /\ \A c \in Buyers : \A id : Persisted(turns[c], id) => Persisted(turns'[c], id)
<1>1. CASE UNCHANGED turns
  BY <1>1 DEF BucketInv
<1>2. CASE turns' = [turns EXCEPT ![b] = remember(@, t)]
  <2>1. turns[b] \in Seq(Turn) /\ Len(turns[b]) <= MaxItems
    BY DEF RestInv, BucketInv
  <2>2. /\ turns'[b] = remember(turns[b], t)
        /\ \A c \in Buyers : c # b => turns'[c] = turns[c]
    BY <1>2 DEF RestInv
  <2>3. /\ Len(remember(turns[b], t)) <= MaxItems
        /\ \A id : Persisted(turns[b], id) => Persisted(remember(turns[b], t), id)
    BY <2>1, RememberKeeps
  <2>4. QED
    BY <2>2, <2>3 DEF BucketInv
<1>3. QED
  BY <1>1, <1>2

\* A step of one delivery keeps the promise made to the others.
LEMMA OthersAnswered ==
    ASSUME ReqInv, AnswerInv, BucketInv', sends \subseteq sends',
           \A b \in Buyers : \A id : Persisted(turns[b], id) => Persisted(turns'[b], id),
           NEW d \in Deliveries, NEW r, req' = [req EXCEPT ![d] = r], r.pc # "idle",
           r.pc \in {"persist", "finish"} => \E s \in sends' : s.id = Pos(d)',
           r.pc = "finish" => Persisted(turns'[Buyer(d)'], Pos(d)'),
           Left(d) \/ req[d].batch \in {<<>>, r.batch}
    PROVE  AnswerInv' /\ AnswerStep
<1>1. \A e \in Deliveries : e # d => req'[e] = req[e]
  BY DEF ReqInv
<1>2. req'[d] = r
  BY DEF ReqInv
<1>3. ASSUME NEW e \in Deliveries
      PROVE  /\ req'[e].pc = "idle" => req'[e].batch = <<>>
             /\ req'[e].pc \in {"persist", "finish"} => \E s \in sends' : s.id = Pos(e)'
             /\ req'[e].pc = "finish" => Persisted(turns'[Buyer(e)'], Pos(e)')
  <2>1. CASE e = d
    BY <1>2, <2>1
  <2>2. CASE e # d
    <3>1. req'[e] = req[e] /\ Pos(e)' = Pos(e) /\ Buyer(e)' = Buyer(e)
      BY <1>1, <2>2 DEF Pos, Buyer, Msg
    <3>2. req[e].pc = "finish" => Buyer(e) \in Buyers
      BY AtHand
    <3>3. QED
      BY <3>1, <3>2 DEF AnswerInv
  <2>3. QED
    BY <2>1, <2>2
<1>4. AnswerInv'
  BY <1>3 DEF AnswerInv, Persisted, Buyer, Msg, Pos
<1>5. AnswerStep
  BY <1>1, <1>2 DEF AnswerStep
<1>6. QED
  BY <1>4, <1>5

\* A step of a delivery within a message that remembers nothing.
LEMMA QuietAnswered ==
    ASSUME Inv, AnswerInv, NEW d \in Deliveries, NEW r, req' = [req EXCEPT ![d] = r],
           r.batch = req[d].batch, r.pc \notin {"idle", "finish"}, UNCHANGED turns,
           sends \subseteq sends',
           r.pc = "persist" => \E s \in sends' : s.id = Pos(d)
    PROVE  AnswerInv' /\ AnswerStep
<1>1. ReqInv /\ BucketInv
  BY Parts DEF AnswerInv
<1>2. req'[d] = r
  BY <1>1 DEF ReqInv
<1>3. Pos(d)' = Pos(d)
  BY <1>2 DEF Pos
<1>4. BucketInv'
  BY <1>1 DEF BucketInv
<1>5. QED
  BY <1>1, <1>3, <1>4, OthersAnswered

\* The end of a message that was answered, or whose thread is paused.
LEMMA EndAnswered ==
    ASSUME Inv, AnswerInv, NEW d \in Deliveries, NextMessage(d), Left(d),
           UNCHANGED <<turns, sends>>
    PROVE  AnswerInv' /\ AnswerStep
<1> DEFINE r == [pc |-> IF Len(req[d].batch) > 1 THEN "remember" ELSE "done",
                 batch |-> Tail(req[d].batch), cfg |-> req[d].cfg,
                 reply |-> "none", blind |-> FALSE]
<1>1. ReqInv /\ BucketInv /\ BucketInv'
  BY Parts DEF AnswerInv, BucketInv
<1>2. r.pc \in {"remember", "done"}
  OBVIOUS
<1>3. req' = [req EXCEPT ![d] = r]
  BY DEF NextMessage
<1> HIDE DEF r
<1>4. QED
  BY <1>1, <1>2, <1>3, OthersAnswered

\* webhook_receive starts with a message list of its own.
LEMMA ReceiveAnswered ==
    ASSUME Inv, AnswerInv, NEW d \in Deliveries, NEW batch \in Batches, Receive(d, batch)
    PROVE  AnswerInv' /\ AnswerStep
<1>1. ReqInv /\ RestInv /\ BucketInv /\ BucketInv'
  BY Parts DEF AnswerInv, BucketInv, Receive
<1>2. PICK r \in Request : /\ req' = [req EXCEPT ![d] = r]
                           /\ r.pc \in {"remember", "done", "refused"}
  BY <1>1, ReceiveRequest
<1>3. UNCHANGED <<turns, sends>>
  BY DEF Receive
<1>4. req[d].batch = <<>>
  BY DEF AnswerInv, Receive
<1>5. QED
  BY <1>1, <1>2, <1>3, <1>4, OthersAnswered

\* A reply is persisted once it was handed over, and held until the message ends.
LEMMA PersistAnswered ==
    ASSUME Inv, AnswerInv, NEW d \in Deliveries, PersistReply(d)
    PROVE  AnswerInv' /\ AnswerStep
<1> DEFINE r == [req[d] EXCEPT !.pc = "finish"]
<1> DEFINE t == [role |-> "agent", by |-> Pos(d)]
<1>1. ReqInv /\ RestInv /\ BucketInv /\ req[d].pc = "persist"
  BY Parts DEF AnswerInv, PersistReply
<1>2. req[d] \in Request /\ Buyer(d) \in Buyers /\ Pos(d) \in JobIds
  BY <1>1, AtHand
<1>3. r.pc = "finish" /\ r.batch = req[d].batch
  BY <1>2 DEF Request
<1>4. req' = [req EXCEPT ![d] = r] /\ UNCHANGED sends
  BY DEF PersistReply, Goto
<1> HIDE DEF r
<1>5. req'[d] = r
  BY <1>1, <1>4 DEF ReqInv
<1>6. Pos(d)' = Pos(d) /\ Buyer(d)' = Buyer(d)
  BY <1>3, <1>5 DEF Pos, Buyer, Msg
<1>7. \E s \in sends' : s.id = Pos(d)'
  BY <1>1, <1>4, <1>6 DEF AnswerInv
<1>8. t \in Turn
  BY <1>2 DEF Turn
<1>9. \/ turns' = [turns EXCEPT ![Buyer(d)] = remember(@, t)]
      \/ "memory" \in Faults /\ UNCHANGED turns
  BY DEF PersistReply
<1>10. Persisted(turns'[Buyer(d)], Pos(d))
  <2>1. CASE "memory" \in Faults
    BY <2>1 DEF Persisted
  <2>2. CASE turns' = [turns EXCEPT ![Buyer(d)] = remember(@, t)]
    <3>1. turns[Buyer(d)] \in Seq(Turn) /\ Len(turns[Buyer(d)]) <= MaxItems
      BY <1>1, <1>2 DEF RestInv, BucketInv
    <3>2. Persisted(remember(turns[Buyer(d)], t), Pos(d))
      BY <1>8, <3>1, RememberKeeps
    <3>3. turns'[Buyer(d)] = remember(turns[Buyer(d)], t)
      BY <1>1, <1>2, <2>2 DEF RestInv
    <3>4. QED
      BY <3>2, <3>3
  <2>3. QED
    BY <1>9, <2>1, <2>2
<1> HIDE DEF t
<1>11. /\ BucketInv'
       /\ \A c \in Buyers : \A id : Persisted(turns[c], id) => Persisted(turns'[c], id)
  BY <1>1, <1>2, <1>8, <1>9, BucketsKept
<1>12. Persisted(turns'[Buyer(d)'], Pos(d)')
  BY <1>6, <1>10
<1>13. QED
  BY <1>1, <1>3, <1>4, <1>7, <1>11, <1>12, OthersAnswered

\* The buyer's turn is remembered, or is not.
LEMMA TurnAnswered ==
    ASSUME Inv, AnswerInv, NEW b \in Buyers, NEW t \in Turn,
           turns' = [turns EXCEPT ![b] = remember(@, t)] \/ UNCHANGED turns,
           UNCHANGED sends, NEW d \in Deliveries, NEW r, req' = [req EXCEPT ![d] = r],
           r.batch = req[d].batch, r.pc = "record"
    PROVE  AnswerInv' /\ AnswerStep
<1>1. ReqInv /\ RestInv /\ BucketInv
  BY Parts DEF AnswerInv
<1>2. /\ BucketInv'
      /\ \A c \in Buyers : \A id : Persisted(turns[c], id) => Persisted(turns'[c], id)
  BY <1>1, BucketsKept
<1>3. QED
  BY <1>1, <1>2, OthersAnswered

\* Every step of a delivery's coroutine keeps the promise and leaves no message
\* unanswered.
LEMMA DeliveryAnswered ==
    ASSUME Inv, AnswerInv, NEW d \in Deliveries, DeliveryStep(d)
    PROVE  AnswerInv' /\ AnswerStep
<1>1. ReqInv /\ req[d].pc \notin {"idle", "done", "refused"}
  BY Parts DEF DeliveryStep, RememberInbound, RecordInbound, NotifyHandoff, Recall,
     Complete, SendReply, PersistReply, FinishMessage
<1>2. req[d] \in Request /\ Buyer(d) \in Buyers /\ Pos(d) \in JobIds
  BY <1>1, AtHand
<1>3. ASSUME NEW pc \in {"record", "recall", "notify", "complete", "send"},
             NEW reply, NEW blind, UNCHANGED <<turns, sends>>,
             \/ req' = [req EXCEPT ![d].pc = pc]
             \/ req' = [req EXCEPT ![d].pc = pc, ![d].reply = reply]
             \/ req' = [req EXCEPT ![d].blind = blind, ![d].pc = pc]
      PROVE  AnswerInv' /\ AnswerStep
  <2>1. PICK r : /\ r \in { [req[d] EXCEPT !.pc = pc],
                            [req[d] EXCEPT !.pc = pc, !.reply = reply],
                            [req[d] EXCEPT !.blind = blind, !.pc = pc] }
                 /\ req' = [req EXCEPT ![d] = r]
    BY <1>1, <1>3 DEF ReqInv
  <2>2. r.batch = req[d].batch /\ r.pc = pc
    BY <1>2, <2>1 DEF Request
  <2>3. QED
    BY <1>3, <2>1, <2>2, QuietAnswered
<1>4. CASE RememberInbound(d)
  <2> DEFINE r == [req[d] EXCEPT !.pc = "record"]
  <2>1. r.batch = req[d].batch /\ r.pc = "record"
    BY <1>2 DEF Request
  <2>2. req' = [req EXCEPT ![d] = r] /\ UNCHANGED sends
    BY <1>4 DEF RememberInbound, Goto
  <2> HIDE DEF r
  <2>3. [role |-> "buyer", by |-> Pos(d)] \in Turn
    BY <1>2 DEF Turn
  <2>4. \/ turns' = [turns EXCEPT ![Buyer(d)] = remember(@, [role |-> "buyer", by |-> Pos(d)])]
        \/ UNCHANGED turns
    BY <1>4 DEF RememberInbound
  <2>5. QED
    BY <1>2, <2>1, <2>2, <2>3, <2>4, TurnAnswered
<1>5. CASE RecordInbound(d)
  <2>1. UNCHANGED <<turns, sends>>
    BY <1>5 DEF RecordInbound
  <2>2. CASE is_paused(Buyer(d)) /\ NextMessage(d)
    BY <2>1, <2>2, EndAnswered DEF Left
  <2>3. QED
    BY <1>3, <1>5, <2>1, <2>2 DEF RecordInbound
<1>6. CASE NotifyHandoff(d)
  BY <1>3, <1>6 DEF NotifyHandoff
<1>7. CASE Recall(d)
  BY <1>3, <1>7 DEF Recall, Goto
<1>8. CASE Complete(d)
  BY <1>3, <1>8 DEF Complete
<1>9. CASE SendReply(d)
  <2> DEFINE r == [req[d] EXCEPT !.pc = "persist"]
  <2>1. r.batch = req[d].batch /\ r.pc = "persist"
    BY <1>2 DEF Request
  <2>2. req' = [req EXCEPT ![d] = r] /\ UNCHANGED turns
    BY <1>9 DEF SendReply, Goto
  <2>3. PICK s : s.id = Pos(d) /\ sends' = sends \cup {s}
    BY <1>9 DEF SendReply
  <2> HIDE DEF r
  <2>4. QED
    BY <2>1, <2>2, <2>3, QuietAnswered
<1>10. CASE PersistReply(d)
  BY <1>10, PersistAnswered
<1>11. CASE FinishMessage(d)
  <2>1. Left(d)
    BY <1>11 DEF FinishMessage, AnswerInv, Persisted, Left
  <2>2. QED
    BY <1>11, <2>1, EndAnswered DEF FinishMessage
<1>12. QED
  BY <1>4, <1>5, <1>6, <1>7, <1>8, <1>9, <1>10, <1>11 DEF DeliveryStep

\* No step leaves a message unanswered.
LEMMA EveryStepAnswers ==
    ASSUME Inv, AnswerInv, [Next]_vars
    PROVE  AnswerInv' /\ (AnswerStep \/ UNCHANGED vars)
<1>1. ReqInv /\ RestInv
  BY Parts
<1>2. ASSUME UNCHANGED <<req, turns, sends>> PROVE AnswerInv' /\ AnswerStep
  BY <1>2 DEF AnswerInv, BucketInv, Persisted, Buyer, Msg, Pos, AnswerStep
<1>3. ASSUME NEW d \in Deliveries, DeliveryStep(d) PROVE AnswerInv' /\ AnswerStep
  BY <1>3, DeliveryAnswered
<1>4. ASSUME NEW d \in Deliveries, NEW batch \in Batches, Receive(d, batch)
      PROVE  AnswerInv' /\ AnswerStep
  BY <1>4, ReceiveAnswered
<1>5. ASSUME NEW h \in HumanSends, HumanRemember(h) PROVE AnswerInv' /\ AnswerStep
  <2> DEFINE t == [role |-> "agent", by |-> h]
  <2>1. human[h] \in HumanReq /\ t \in Turn
    BY <1>1 DEF RestInv, Turn
  <2>2. human[h].buyer \in Buyers
    BY <2>1 DEF HumanReq
  <2>3. \/ turns' = [turns EXCEPT ![human[h].buyer] = remember(@, t)]
        \/ UNCHANGED turns
    BY <1>5 DEF HumanRemember
  <2>4. UNCHANGED <<req, sends>>
    BY <1>5 DEF HumanRemember
  <2> HIDE DEF t
  <2>5. BucketInv' /\ \A c \in Buyers : \A id : Persisted(turns[c], id) => Persisted(turns'[c], id)
    BY <1>1, <2>1, <2>2, <2>3, BucketsKept DEF AnswerInv
  <2>6. ASSUME NEW d \in Deliveries
        PROVE  /\ Buyer(d)' = Buyer(d) /\ Pos(d)' = Pos(d)
               /\ req[d].pc = "finish" => Buyer(d) \in Buyers
    BY <1>1, <2>4, AtHand DEF Buyer, Msg, Pos
  <2>7. ASSUME NEW d \in Deliveries
        PROVE  /\ req'[d].pc = "idle" => req'[d].batch = <<>>
               /\ req'[d].pc \in {"persist", "finish"} => \E s \in sends' : s.id = Pos(d)'
               /\ req'[d].pc = "finish" => Persisted(turns'[Buyer(d)'], Pos(d)')
    BY <2>4, <2>5, <2>6 DEF AnswerInv
  <2>8. AnswerInv'
    BY <2>5, <2>7 DEF AnswerInv, Persisted, Buyer, Msg, Pos
  <2>9. QED
    BY <2>4, <2>8 DEF AnswerStep
<1>6. ASSUME NEW j \in jobs, JobStep(j) PROVE AnswerInv' /\ AnswerStep
  BY <1>2, <1>6 DEF JobStep, JobStart, JobRecall, JobApply
<1>7. CASE \/ \E h \in HumanSends, b \in Buyers, hours \in Hours : HumanSend(h, b, hours)
           \/ \E h \in HumanSends : HumanPause(h)
           \/ \E b \in Buyers, hours \in Hours : PauseBot(b, hours)
           \/ \E b \in Buyers : ResumeBot(b)
           \/ \E cfg \in HandoffConfigs : UpdateTenantHandoff(cfg)
           \/ DeleteResource
           \/ \E t \in tasks, title \in Titles, status \in TaskStatus :
                 PatchTask(t, title, status)
           \/ \E t \in tasks : DeleteTask(t)
           \/ Tick
  BY <1>2, <1>7 DEF HumanSend, HumanPause, PauseBot, ResumeBot, UpdateTenantHandoff,
     DeleteResource, PatchTask, DeleteTask, Tick
<1>8. CASE UNCHANGED vars
  BY <1>2, <1>8 DEF vars
<1>9. QED
  BY <1>3, <1>4, <1>5, <1>6, <1>7, <1>8 DEF Next

\* A message that the handler leaves behind was handed to the gateway and its
\* reply persisted, whichever ports failed, or its thread was paused:
\* AnsweredUnlessPaused of _process_inbound_message.
THEOREM EveryMessageAnswered == Spec => AnsweredUnlessPaused
<1>1. Init => AnswerInv
  <2> SUFFICES ASSUME Init PROVE AnswerInv
    OBVIOUS
  <2>1. BucketInv
    <3>1. MaxItems \in Nat \ {0} /\ Len(<<>>) = 0
      BY ConversationAssumption
    <3>2. \A b \in Buyers : turns[b] = <<>>
      BY DEF Init
    <3>3. QED
      BY <3>1, <3>2 DEF BucketInv
  <2>2. \A d \in Deliveries : req[d].pc = "idle" /\ req[d].batch = <<>>
    BY DEF Init
  <2>3. QED
    BY <2>1, <2>2 DEF AnswerInv
<1>2. Inv /\ AnswerInv /\ [Next]_vars => AnswerInv'
  BY EveryStepAnswers
<1>3. Spec => [](Inv /\ AnswerInv)
  BY Invariance, <1>1, <1>2, PTL DEF Spec
<1>4. ASSUME Inv /\ AnswerInv, [Next]_vars
      PROVE  [\A d \in Deliveries :
                req[d].batch # <<>> /\ req'[d].batch # req[d].batch =>
                   \/ is_paused(Buyer(d))
                   \/ /\ \E s \in sends : s.id = Pos(d)
                      /\ \/ "memory" \in Faults
                         \/ Len(turns[Buyer(d)]) = MaxItems
                         \/ \E i \in DOMAIN turns[Buyer(d)] :
                               turns[Buyer(d)][i] = [role |-> "agent", by |-> Pos(d)]]_vars
  <2>1. AnswerStep \/ UNCHANGED vars
    BY <1>4, EveryStepAnswers
  <2>2. QED
    BY <2>1 DEF AnswerStep, Left
<1>5. QED
  BY <1>3, <1>4, PTL DEF Spec, AnsweredUnlessPaused

(***************************************************************************)
(* Tasks.  write_tasks sees every open task of the contact as long as the  *)
(* rows fit the window that _open_task_titles asks for.                    *)
(***************************************************************************)
TasksFinite == IsFiniteSet(tasks)

\* What NoDuplicateOpenTask says of a step.
TaskStep ==
    Cardinality(tasks) <= TaskLimit /\ jobs' # jobs =>
       \A t1 \in tasks' \ tasks, t2 \in tasks' : ~duplicate(t1, t2)

\* The newest TaskLimit rows are all the rows when there are no more of them.
LEMMA WindowIsAll ==
    ASSUME TasksFinite, tasks \subseteq Task, Cardinality(tasks) <= TaskLimit
    PROVE  list_for(tasks, TaskLimit) = tasks
<1> SUFFICES ASSUME NEW r \in tasks PROVE r \in list_for(tasks, TaskLimit)
  BY DEF list_for
<1> DEFINE newer == {q \in tasks : q.id > r.id}
<1>1. r.id \in Nat
  BY DEF Task
<1>2. newer \in SUBSET (tasks \ {r})
  BY <1>1
<1> HIDE DEF newer
<1>3. /\ IsFiniteSet(tasks \ {r}) /\ Cardinality(tasks \ {r}) = Cardinality(tasks) - 1
  BY FS_RemoveElement DEF TasksFinite
<1>4. IsFiniteSet(newer) /\ Cardinality(newer) <= Cardinality(tasks \ {r})
  BY <1>2, <1>3, FS_Subset
<1>5. Cardinality(newer) \in Nat /\ Cardinality(tasks) \in Nat /\ TaskLimit \in Nat
  BY <1>4, FS_CardinalityType, CrmStoreAssumption DEF TasksFinite
<1>6. Cardinality(newer) < TaskLimit
  BY <1>3, <1>4, <1>5
<1>7. QED
  BY <1>6 DEF list_for, newer

\* An extractor run adds finitely many tasks, and none whose title is open.
LEMMA WrittenTasks ==
    ASSUME TasksFinite, tasks \subseteq Task, nextId \in Nat, NEW contact_id \in Nat,
           NEW titles \in Seq(Titles), NEW tried \in 0..Len(titles),
           tasks' = write_tasks(tasks, contact_id, SubSeq(titles, 1, tried), nextId)
    PROVE  /\ TasksFinite'
           /\ Cardinality(tasks) <= TaskLimit =>
                 \A t1 \in tasks' \ tasks, t2 \in tasks' : ~duplicate(t1, t2)
<1> DEFINE new == SubSeq(titles, 1, tried)
<1> DEFINE W == written(tasks, contact_id, new)
<1> DEFINE row(i) == [id |-> nextId + i, contact_id |-> contact_id, title |-> new[i],
                      status |-> "open"]
<1> DEFINE N == {row(i) : i \in W}
<1>1. tasks' = tasks \cup N
  BY DEF write_tasks
<1>2. DOMAIN new = 1..tried /\ tried \in Nat
  OBVIOUS
<1>3. /\ W \in SUBSET (1..tried)
      /\ \A i \in W : /\ new[i] \notin open_task_titles(tasks, contact_id)
                      /\ \A j \in 1..(i - 1) : new[j] # new[i]
  BY <1>2 DEF written
<1> HIDE DEF new, W
<1>4. IsFiniteSet(N)
  <2>1. IsFiniteSet(W)
    <3>1. 1 \in Int /\ tried \in Int
      BY <1>2
    <3>2. IsFiniteSet(1..tried)
      BY <3>1, FS_Interval
    <3>3. QED
      BY <1>3, <3>2, FS_Subset
  <2> DEFINE f == [i \in W |-> row(i)]
  <2>2. f \in Surjection(W, N)
    BY DEF Surjection
  <2>3. QED
    BY <2>1, <2>2, FS_Surjection
<1>5. \A i \in W : /\ row(i).contact_id = contact_id /\ row(i).title = new[i]
                   /\ row(i).status = "open"
  OBVIOUS
<1>6. \A t \in N : \E i \in W : t = row(i)
  OBVIOUS
<1> HIDE DEF row, N
<1>7. TasksFinite'
  BY <1>1, <1>4, FS_Union DEF TasksFinite
<1>8. ASSUME Cardinality(tasks) <= TaskLimit, NEW t1 \in tasks' \ tasks, NEW t2 \in tasks',
             duplicate(t1, t2)
      PROVE  FALSE
  <2>1. PICK i \in W : t1 = row(i)
    BY <1>1, <1>6
  <2>2. /\ t2.contact_id = contact_id /\ t2.status = "open" /\ t2.title = new[i]
        /\ t1 # t2
    BY <1>5, <1>8, <2>1 DEF duplicate
  <2>3. CASE t2 \in tasks
    <3>1. t2 \in list_for(tasks, TaskLimit)
      BY <1>8, <2>3, WindowIsAll
    <3>2. new[i] \in open_task_titles(tasks, contact_id)
      BY <2>2, <3>1 DEF open_task_titles
    <3>3. QED
      BY <1>3, <3>2
  <2>4. CASE t2 \in N
    <3>1. PICK k \in W : t2 = row(k)
      BY <1>6, <2>4
    <3>2. new[k] = new[i]
      BY <1>5, <2>2, <3>1
    <3>3. i \in Nat /\ k \in Nat /\ i >= 1 /\ k >= 1
      BY <1>3, <1>2
    <3>4. ~(k < i) /\ ~(i < k)
      <4>1. k < i => k \in 1..(i - 1)
        BY <3>3
      <4>2. i < k => i \in 1..(k - 1)
        BY <3>3
      <4>3. QED
        BY <1>3, <3>2, <4>1, <4>2
    <3>5. i = k
      BY <3>3, <3>4
    <3>6. QED
      BY <2>1, <2>2, <3>1, <3>5
  <2>5. QED
    BY <1>1, <2>3, <2>4
<1>9. QED
  BY <1>7, <1>8

\* Every step keeps the tasks finite and opens no second task with a title.
LEMMA EveryTaskStep ==
    ASSUME Inv, TasksFinite, [Next]_vars
    PROVE  TasksFinite' /\ TaskStep
<1>1. CrmInv /\ RestInv
  BY Parts
<1>2. ASSUME UNCHANGED tasks PROVE TasksFinite' /\ TaskStep
  BY <1>2 DEF TasksFinite, TaskStep
<1>3. ASSUME NEW j \in jobs, NEW c \in get(contacts, j.contact_id), NEW result \in Results,
             NEW tried \in 0..Len(result.new_tasks), apply(c, result, tried)
      PROVE  TasksFinite' /\ TaskStep
  <2>1. CASE UNCHANGED tasks
    BY <1>2, <2>1
  <2>2. CASE tasks' = write_tasks(tasks, c.id, SubSeq(result.new_tasks, 1, tried), nextId)
    <3>1. c.id \in Nat /\ result.new_tasks \in Seq(Titles)
      BY <1>1, ConversationAssumption DEF get, CrmInv, Contact, ExtractionResult
    <3>2. tasks \subseteq Task /\ nextId \in Nat
      BY <1>1 DEF CrmInv
    <3>3. QED
      BY <2>2, <3>1, <3>2, WrittenTasks DEF TaskStep
  <2>3. QED
    BY <1>3, <2>1, <2>2 DEF apply
<1>4. ASSUME NEW j \in jobs, JobStep(j) PROVE TasksFinite' /\ TaskStep
  BY <1>2, <1>3, <1>4 DEF JobStep, JobStart, JobRecall, JobApply, crmVars
<1>5. ASSUME NEW d \in Deliveries, DeliveryStep(d) PROVE TasksFinite' /\ TaskStep
  <2>1. UNCHANGED tasks
    BY <1>5 DEF DeliveryStep, RememberInbound, RecordInbound, NotifyHandoff, Recall, Complete,
       SendReply, PersistReply, FinishMessage, record_inbound, record_outbound, crmVars
  <2>2. QED
    BY <1>2, <2>1
<1>6. ASSUME NEW t \in tasks, NEW title \in Titles, NEW status \in TaskStatus,
             PatchTask(t, title, status)
      PROVE  TasksFinite' /\ TaskStep
  <2> DEFINE K == {r \in tasks : r.id # [t EXCEPT !.title = title, !.status = status].id}
  <2>1. tasks' = K \cup {[t EXCEPT !.title = title, !.status = status]} /\ jobs' = jobs
    BY <1>6 DEF PatchTask, upsert
  <2>2. IsFiniteSet(K)
    BY FS_Subset DEF TasksFinite
  <2> HIDE DEF K
  <2>3. TasksFinite'
    BY <2>1, <2>2, FS_AddElement DEF TasksFinite
  <2>4. QED
    BY <2>1, <2>3 DEF TaskStep
<1>7. ASSUME NEW t \in tasks, DeleteTask(t) PROVE TasksFinite' /\ TaskStep
  <2>1. tasks' = tasks \ {t}
    BY <1>7 DEF DeleteTask
  <2>2. TasksFinite'
    BY <2>1, FS_RemoveElement DEF TasksFinite
  <2>3. QED
    BY <2>1, <2>2 DEF TaskStep
<1>8. CASE \/ \E d \in Deliveries, batch \in Batches : Receive(d, batch)
           \/ \E h \in HumanSends, b \in Buyers, hours \in Hours : HumanSend(h, b, hours)
           \/ \E h \in HumanSends : HumanPause(h) \/ HumanRemember(h)
           \/ \E b \in Buyers, hours \in Hours : PauseBot(b, hours)
           \/ \E b \in Buyers : ResumeBot(b)
           \/ \E cfg \in HandoffConfigs : UpdateTenantHandoff(cfg)
           \/ DeleteResource
           \/ Tick
  <2>1. UNCHANGED tasks
    BY <1>8 DEF Receive, HumanSend, HumanPause, HumanRemember, PauseBot, ResumeBot,
       UpdateTenantHandoff, DeleteResource, Tick, crmVars
  <2>2. QED
    BY <1>2, <2>1
<1>9. CASE UNCHANGED vars
  BY <1>2, <1>9 DEF vars
<1>10. QED
  BY <1>4, <1>5, <1>6, <1>7, <1>8, <1>9 DEF Next

\* CrmExtractor.apply never opens a second task with the same title for a
\* contact, neither against the rows nor within its own result, while the
\* tenant's tasks fit the window of _open_task_titles: NoDuplicateOpenTask.
THEOREM TasksAreNotRepeated == Spec => NoDuplicateOpenTask
<1>1. Init => TasksFinite
  BY FS_EmptySet DEF Init, TasksFinite
<1>2. Inv /\ TasksFinite /\ [Next]_vars => TasksFinite'
  BY EveryTaskStep
<1>3. Spec => [](Inv /\ TasksFinite)
  BY Invariance, <1>1, <1>2, PTL DEF Spec
<1>4. ASSUME Inv /\ TasksFinite, [Next]_vars
      PROVE  [Cardinality(tasks) <= TaskLimit /\ jobs' # jobs =>
                 \A t1 \in tasks' \ tasks, t2 \in tasks' : ~duplicate(t1, t2)]_vars
  BY <1>4, EveryTaskStep DEF TaskStep
<1>5. QED
  BY <1>3, <1>4, PTL DEF Spec, NoDuplicateOpenTask
=============================================================================
