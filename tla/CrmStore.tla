------------------------------ MODULE CrmStore ------------------------------
(***************************************************************************)
(* The CRM rows kept in the tenant's resource store, and the pure effect   *)
(* of each helper that writes them: CrmRecorder (crm/recorder.py), the     *)
(* apply half of CrmExtractor (crm/extractor.py) and the calls they make   *)
(* on InMemoryResourceRepository (resources/repository.py).                *)
(*                                                                         *)
(* Contacts, activities and tasks are rows of one table; they are kept in  *)
(* three sets here because every query of the CRM names its kind.  None of *)
(* them has a source_id, so upsert never replaces a row by external_id: it *)
(* replaces the row that has the same id and no other.                     *)
(***************************************************************************)
EXTENDS Naturals, Sequences, FiniteSets

CONSTANTS
    Buyers,          \* the buyer ids of one tenant (slug:phone)
    Messages,        \* WhatsApp message ids
    Fields,          \* keys the extractor's LLM may propose for a contact
    Titles,          \* normalised task titles
    Stages,          \* pipeline stages
    NoStage,         \* an extraction result without a stage transition
    TaskLimit        \* rows _open_task_titles asks list_for for (1000)

ASSUME CrmStoreAssumption == NoStage \notin Stages /\ TaskLimit \in Nat

(***************************************************************************)
(* Row types.                                                              *)
(***************************************************************************)
Contact == [id : Nat, buyer : Buyers, turn_count : Nat, fields : SUBSET Fields]

MessageKey == {"inbound", "outbound"} \X Messages
StageKey == {"stage"} \X Nat \X Stages
Activity == [id : Nat, external_id : MessageKey \cup StageKey, contact_id : Nat]

TaskStatus == {"open", "done", "dismissed"}
Task == [id : Nat, contact_id : Nat, title : Titles, status : TaskStatus]

ExtractionResult == [updates : SUBSET Fields, new_tasks : Seq(Titles),
                     stage : Stages \cup {NoStage}]

(***************************************************************************)
(* InMemoryResourceRepository, for rows without a source_id.               *)
(***************************************************************************)
upsert(rows, row) == {r \in rows : r.id # row.id} \cup {row}

find_contact(contacts, b) == {c \in contacts : c.buyer = b}

find_activity(activities, key) == {a \in activities : a.external_id = key}

get(rows, id) == {r \in rows : r.id = id}

\* list_for: the newest limit rows of the tenant (a later row has a larger id).
list_for(rows, limit) == {r \in rows : Cardinality({q \in rows : q.id > r.id}) < limit}

upsert_contact_for_inbound(contacts, b, id) ==
    IF find_contact(contacts, b) = {}
    THEN contacts \cup {[id |-> id, buyer |-> b, turn_count |-> 1, fields |-> {}]}
    ELSE LET existing == CHOOSE c \in find_contact(contacts, b) : TRUE
         IN  upsert(contacts, [existing EXCEPT !.turn_count = @ + 1])

\* Mutant: a redelivered message is filed again.
record_activity_again(activities, key, contact_id, id) ==
    activities \cup {[id |-> id, external_id |-> key, contact_id |-> contact_id]}

record_activity(activities, key, contact_id, id) ==
    IF find_activity(activities, key) # {}
    THEN activities
    ELSE activities \cup
           {[id |-> id, external_id |-> key, contact_id |-> contact_id]}

\* The contact an inbound or outbound activity is filed under.
contact_id_of(contacts, b) == (CHOOSE c \in find_contact(contacts, b) : TRUE).id

(***************************************************************************)
(* CrmExtractor.apply, once the contact has been re-read by id.            *)
(***************************************************************************)
PROTECTED_CONTACT_FIELDS == {"phone", "first_contact_at", "last_seen_at",
                              "turn_count", "source"}

\* Mutant: protected fields are not filtered.
accepted_all(result) == result.updates

\* The keys of contact_updates that are merged into the contact.
accepted(result) == result.updates \ PROTECTED_CONTACT_FIELDS

\* A proposal that got through would carry the LLM's value, here 0.
patch_contact(contacts, c, result) ==
    upsert(contacts,
           [c EXCEPT !.fields = @ \cup accepted(result),
                     !.turn_count = IF "turn_count" \in accepted(result)
                                    THEN 0 ELSE @])

open_task_titles(tasks, contact_id) ==
    {t.title : t \in {u \in list_for(tasks, TaskLimit) :
                        u.contact_id = contact_id /\ u.status = "open"}}

\* Mutant: titles are compared with the rows only, not within the result.
written_once(tasks, contact_id, new_tasks) ==
    {i \in DOMAIN new_tasks : new_tasks[i] \notin open_task_titles(tasks, contact_id)}

\* The positions of new_tasks that become rows: a title that is already open,
\* or occurs earlier in the same result, is skipped.
written(tasks, contact_id, new_tasks) ==
    {i \in DOMAIN new_tasks :
        /\ new_tasks[i] \notin open_task_titles(tasks, contact_id)
        /\ \A j \in 1..(i - 1) : new_tasks[j] # new_tasks[i]}

write_tasks(tasks, contact_id, new_tasks, id) ==
    tasks \cup
      {[id |-> id + i, contact_id |-> contact_id, title |-> new_tasks[i],
        status |-> "open"] : i \in written(tasks, contact_id, new_tasks)}

maybe_write_stage_activity(activities, contact_id, stage, id) ==
    IF stage = NoStage
    THEN activities
    ELSE activities \cup
           {[id |-> id, external_id |-> <<"stage", contact_id, stage>>,
             contact_id |-> contact_id]}
=============================================================================
