---------------------------- MODULE Conversation ----------------------------
(***************************************************************************)
(* The reply pipeline of one tenant: webhook_receive and                   *)
(* _process_inbound_message of services/api/main.py, with everything the   *)
(* handler touches: buyer memory, the CRM rows, the bot-pause registry,    *)
(* the handoff detector and notifier, the LLM, the WhatsApp gateway and    *)
(* the background CRM extractor; and the dashboard endpoints that touch    *)
(* the same state while a delivery is in flight.                           *)
(*                                                                         *)
(* The process is one asyncio event loop, so the code between two awaits   *)
(* is one action and every await is a point where another coroutine runs.  *)
(* pc names the await a coroutine is suspended at.                         *)
(***************************************************************************)
EXTENDS CrmStore

CONSTANTS
    Deliveries,       \* webhook POSTs from Meta, redeliveries included
    Batches,          \* message lists a POST may carry (parse_messages)
    Sender,           \* Sender[m]: the buyer that wrote m
    AsksHuman,        \* messages that contain a handoff keyword
    HandoffConfigs,   \* values an operator may PUT
    HumanSends,       \* POST .../send requests of the dashboard
    Hours,            \* pause lengths an operator may choose (0: none)
    ExtractorEnabled, \* _crm_extractor is not None
    Stride,           \* WAPSELL_CRM_EXTRACTOR_STRIDE
    Results,          \* what the extractor's LLM may answer
    MaxItems,         \* ring buffer size of the buyer memory
    Faults,           \* the ports that may fail in this instance
    OperatorEdits,    \* the kinds of rows an operator edits or deletes
    MaxNow            \* bound on the clock, for TLC

Ports == {"limiter", "tenants", "memory", "crm", "pauses", "llm", "gateway"}

ASSUME ConversationAssumption ==
    /\ Batches \subseteq Seq(Messages)
    /\ Sender \in [Messages -> Buyers]
    /\ AsksHuman \subseteq Messages
    /\ HandoffConfigs \subseteq [enabled : BOOLEAN, auto_pause_hours : Nat]
    /\ HandoffConfigs # {}
    /\ Buyers # {} /\ Hours # {} /\ Hours \subseteq Nat
    /\ ExtractorEnabled \in BOOLEAN
    /\ Stride \in Nat
    /\ Results \subseteq ExtractionResult
    /\ MaxItems \in Nat \ {0}
    /\ Faults \subseteq Ports
    /\ OperatorEdits \subseteq {"contact", "activity", "task"}
    /\ MaxNow \in Nat

VARIABLES
    now,             \* the clock pauses are compared with
    handoff_config,  \* the tenant row's handoff_config
    bot_pauses,      \* paused_until per buyer, 0 when there is no row
    turns,           \* buyer memory: the remembered turns per buyer
    contacts, activities, tasks, nextId,   \* the CRM rows and the next uuid
    req,             \* one coroutine per delivery
    human,           \* one coroutine per dashboard send
    jobs,            \* background extractor tasks
    sends,           \* bot replies handed to the gateway
    racing           \* history: replies in flight when a pause was written

crmVars == <<contacts, activities, tasks, nextId>>
pauseVars == <<bot_pauses, racing>>
vars == <<now, handoff_config, bot_pauses, turns, contacts, activities, tasks,
          nextId, req, human, jobs, sends, racing>>

(***************************************************************************)
(* Types.  A job and a reply are named by the delivery and by the number   *)
(* of its messages that were still to process.                             *)
(***************************************************************************)
ReqPC == {"idle", "remember", "record", "notify", "recall", "complete", "send",
          "persist", "finish", "done", "refused"}
Replies == {"none", "handoff", "llm", "fallback"}
Request == [pc : ReqPC, batch : Seq(Messages), cfg : HandoffConfigs,
            reply : Replies, blind : BOOLEAN]
JobIds == Deliveries \X Nat
Turn == [role : {"buyer", "agent"}, by : JobIds \cup HumanSends]
Send == [id : JobIds, msg : Messages, reply : Replies \ {"none"},
         outcome : {"sent", "lost", "failed"}]
HumanReq == [pc : {"idle", "send", "remember", "done"}, buyer : Buyers, hours : Hours]
Job == [id : JobIds, pc : {"ready", "recall", "extract"}, buyer : Buyers,
        contact_id : Nat]

(***************************************************************************)
(* State functions.                                                        *)
(***************************************************************************)
\* InMemoryBotPauseRepository.is_paused
is_paused(b) == bot_pauses[b] > now

Msg(d) == Head(req[d].batch)
Buyer(d) == Sender[Msg(d)]
Pos(d) == <<d, Len(req[d].batch)>>

\* HandoffDetector.evaluate: a missing config and enabled=False are the same.
evaluate(m, cfg) == cfg.enabled /\ m \in AsksHuman

\* InMemoryBuyerMemory.remember
remember(bucket, turn) ==
    LET longer == Append(bucket, turn)
    IN  IF Len(longer) > MaxItems
        THEN SubSeq(longer, Len(longer) - MaxItems + 1, Len(longer))
        ELSE longer

\* Replies for b between the pause check and the gateway call.
Composing(b) ==
    {Pos(d) : d \in {e \in Deliveries :
                        /\ req[e].pc \in {"notify", "recall", "complete", "send"}
                        /\ Buyer(e) = b
                        /\ ~req[e].blind}}

\* _maybe_dispatch_crm_extractor: does this turn start a background run?
dispatches(rows, b) ==
    /\ ExtractorEnabled
    /\ Stride > 1 =>
         \E c \in find_contact(rows, b) :
            c.turn_count > 0 => c.turn_count % Stride = 0

Init ==
    /\ now = 1
    /\ handoff_config \in HandoffConfigs
    /\ bot_pauses = [b \in Buyers |-> 0]
    /\ turns = [b \in Buyers |-> <<>>]
    /\ contacts = {} /\ activities = {} /\ tasks = {} /\ nextId = 1
    /\ req = [d \in Deliveries |->
                [pc |-> "idle", batch |-> <<>>, cfg |-> handoff_config,
                 reply |-> "none", blind |-> FALSE]]
    /\ human = [h \in HumanSends |->
                [pc |-> "idle", buyer |-> CHOOSE b \in Buyers : TRUE,
                 hours |-> CHOOSE n \in Hours : TRUE]]
    /\ jobs = {}
    /\ sends = {}
    /\ racing = [b \in Buyers |-> {}]

(***************************************************************************)
(* The delivery's coroutine.                                               *)
(***************************************************************************)
Goto(d, pc) == req' = [req EXCEPT ![d].pc = pc]

\* The for loop of webhook_receive: the next message, or the 200 to Meta.
NextMessage(d) ==
    req' = [req EXCEPT ![d] =
              [pc |-> IF Len(req[d].batch) > 1 THEN "remember" ELSE "done",
               batch |-> Tail(req[d].batch), cfg |-> req[d].cfg,
               reply |-> "none", blind |-> FALSE]]

\* webhook_receive up to its first await: the tenant row, and with it the
\* handoff config, is read once for the whole POST.  A POST without text
\* messages, or for an unknown phone number, is answered at once.  The rate
\* limiter may answer it 429, and nothing catches an error of try_resolve,
\* which makes it a 500.
Receive(d, batch) ==
    /\ req[d].pc = "idle"
    /\ \/ req' = [req EXCEPT ![d] =
                    [pc |-> IF batch = <<>> THEN "done" ELSE "remember",
                     batch |-> batch, cfg |-> handoff_config,
                     reply |-> "none", blind |-> FALSE]]
       \/ Faults \cap {"limiter", "tenants"} # {} /\ Goto(d, "refused")
    /\ UNCHANGED <<now, handoff_config, turns, crmVars, pauseVars, human, jobs, sends>>

\* Step 1: persist the buyer's message, best effort.
RememberInbound(d) ==
    /\ req[d].pc = "remember"
    /\ \/ turns' = [turns EXCEPT ![Buyer(d)] =
                      remember(@, [role |-> "buyer", by |-> Pos(d)])]
       \/ "memory" \in Faults /\ UNCHANGED turns
    /\ Goto(d, "record")
    /\ UNCHANGED <<now, handoff_config, crmVars, pauseVars, human, jobs, sends>>

\* CrmRecorder.record_inbound: two writes, either of which may fail.
record_inbound(b, m) ==
    /\ \/ /\ contacts' = upsert_contact_for_inbound(contacts, b, nextId)
          /\ \/ activities' = record_activity(activities, <<"inbound", m>>,
                                  contact_id_of(contacts', b), nextId + 1)
             \/ "crm" \in Faults /\ UNCHANGED activities
          /\ nextId' = nextId + 2
       \/ "crm" \in Faults /\ UNCHANGED <<contacts, activities, nextId>>
    /\ UNCHANGED tasks

\* Mutant: the pause registry is not asked.
RecordInbound_unasked(d) ==
    /\ req[d].pc = "record"
    /\ record_inbound(Buyer(d), Msg(d))
    /\ req' = [req EXCEPT
         ![d].pc = IF evaluate(Msg(d), req[d].cfg) THEN "notify" ELSE "recall"]
    /\ UNCHANGED <<now, handoff_config, turns, pauseVars, human, jobs, sends>>

\* Steps 1a, 1b and the synchronous head of AgentLoop.respond: CRM write,
\* pause check, handoff detection.  An unreachable pause registry lets the
\* bot answer.
RecordInbound(d) ==
    /\ req[d].pc = "record"
    /\ record_inbound(Buyer(d), Msg(d))
    /\ \/ is_paused(Buyer(d)) /\ NextMessage(d)
       \/ \E blind \in BOOLEAN :
            /\ IF blind THEN "pauses" \in Faults ELSE ~is_paused(Buyer(d))
            /\ req' = [req EXCEPT
                 ![d].blind = blind,
                 ![d].pc = IF evaluate(Msg(d), req[d].cfg) THEN "notify" ELSE "recall"]
    /\ UNCHANGED <<now, handoff_config, turns, pauseVars, human, jobs, sends>>

\* BotPausePort.pause: an upsert, the last writer wins.
pause(b, hours) ==
    /\ bot_pauses' = [bot_pauses EXCEPT ![b] = now + hours]
    /\ racing' = [racing EXCEPT ![b] = Composing(b)]

\* Mutant: the handoff answer is not put into the result.
NotifyHandoff_silent(d) ==
    /\ req[d].pc = "notify"
    /\ pause(Buyer(d), req[d].cfg.auto_pause_hours)
    /\ Goto(d, "send")
    /\ UNCHANGED <<now, handoff_config, turns, crmVars, human, jobs, sends>>

\* The notifier has returned (its errors are swallowed); auto-pause follows
\* with the config read when the POST arrived.
NotifyHandoff(d) ==
    /\ req[d].pc = "notify"
    /\ \/ req[d].cfg.auto_pause_hours > 0 /\ pause(Buyer(d), req[d].cfg.auto_pause_hours)
       \/ (req[d].cfg.auto_pause_hours > 0 => "pauses" \in Faults) /\ UNCHANGED pauseVars
    /\ req' = [req EXCEPT ![d].pc = "send", ![d].reply = "handoff"]
    /\ UNCHANGED <<now, handoff_config, turns, crmVars, human, jobs, sends>>

\* AgentLoop.respond: memory.recall, then the LLM.  An error of either
\* becomes the canned reply.
Recall(d) ==
    /\ req[d].pc = "recall"
    /\ \/ Goto(d, "complete")
       \/ /\ "memory" \in Faults
          /\ req' = [req EXCEPT ![d].pc = "send", ![d].reply = "fallback"]
    /\ UNCHANGED <<now, handoff_config, turns, crmVars, pauseVars, human, jobs, sends>>

\* Mutant: an LLM error gives up on the message.
Complete_drops(d) ==
    /\ req[d].pc = "complete"
    /\ \/ req' = [req EXCEPT ![d].pc = "send", ![d].reply = "llm"]
       \/ "llm" \in Faults /\ NextMessage(d)
    /\ UNCHANGED <<now, handoff_config, turns, crmVars, pauseVars, human, jobs, sends>>

\* Mutant: an LLM error goes on to the gateway without the canned reply.
Complete_empty(d) ==
    /\ req[d].pc = "complete"
    /\ \/ req' = [req EXCEPT ![d].pc = "send", ![d].reply = "llm"]
       \/ "llm" \in Faults /\ Goto(d, "send")
    /\ UNCHANGED <<now, handoff_config, turns, crmVars, pauseVars, human, jobs, sends>>

Complete(d) ==
    /\ req[d].pc = "complete"
    /\ \/ req' = [req EXCEPT ![d].pc = "send", ![d].reply = "llm"]
       \/ /\ "llm" \in Faults
          /\ req' = [req EXCEPT ![d].pc = "send", ![d].reply = "fallback"]
    /\ UNCHANGED <<now, handoff_config, turns, crmVars, pauseVars, human, jobs, sends>>

\* Mutant: a gateway error is retried.
SendReply_retries(d) ==
    /\ req[d].pc = "send"
    /\ \E outcome \in {"sent", "lost", "failed"} :
         /\ outcome # "sent" => "gateway" \in Faults
         /\ sends' = sends \cup {[id |-> Pos(d), msg |-> Msg(d),
                                  reply |-> req[d].reply, outcome |-> outcome]}
         /\ IF outcome = "sent" THEN Goto(d, "persist") ELSE UNCHANGED req
    /\ UNCHANGED <<now, handoff_config, turns, crmVars, pauseVars, human, jobs>>

\* Step 3: the gateway call.  "lost": WhatsApp delivered but the answer did
\* not come back; the handler cannot tell it from "failed".
SendReply(d) ==
    /\ req[d].pc = "send"
    /\ \E outcome \in {"sent", "lost", "failed"} :
         /\ outcome # "sent" => "gateway" \in Faults
         /\ sends' = sends \cup {[id |-> Pos(d), msg |-> Msg(d),
                                  reply |-> req[d].reply, outcome |-> outcome]}
    /\ Goto(d, "persist")
    /\ UNCHANGED <<now, handoff_config, turns, crmVars, pauseVars, human, jobs>>

\* Mutant: only the LLM's replies are remembered.
PersistReply_forgets(d) ==
    /\ req[d].pc = "persist"
    /\ IF req[d].reply = "llm"
       THEN turns' = [turns EXCEPT ![Buyer(d)] =
                        remember(@, [role |-> "agent", by |-> Pos(d)])]
       ELSE UNCHANGED turns
    /\ Goto(d, "finish")
    /\ UNCHANGED <<now, handoff_config, crmVars, pauseVars, human, jobs, sends>>

\* Mutant: a memory error escapes the handler.
PersistReply_raises(d) ==
    /\ req[d].pc = "persist"
    /\ \/ /\ turns' = [turns EXCEPT ![Buyer(d)] =
                         remember(@, [role |-> "agent", by |-> Pos(d)])]
          /\ Goto(d, "finish")
       \/ "memory" \in Faults /\ Goto(d, "raised") /\ UNCHANGED turns
    /\ UNCHANGED <<now, handoff_config, crmVars, pauseVars, human, jobs, sends>>

\* Step 4: persist the reply whatever became of it.
PersistReply(d) ==
    /\ req[d].pc = "persist"
    /\ \/ turns' = [turns EXCEPT ![Buyer(d)] =
                      remember(@, [role |-> "agent", by |-> Pos(d)])]
       \/ "memory" \in Faults /\ UNCHANGED turns
    /\ Goto(d, "finish")
    /\ UNCHANGED <<now, handoff_config, crmVars, pauseVars, human, jobs, sends>>

\* CrmRecorder.record_outbound: never creates a contact.
record_outbound(b, m) ==
    /\ \/ /\ find_contact(contacts, b) # {}
          /\ activities' = record_activity(activities, <<"outbound", m>>,
                               contact_id_of(contacts, b), nextId)
          /\ nextId' = nextId + 1
       \/ /\ find_contact(contacts, b) # {} => "crm" \in Faults
          /\ UNCHANGED <<activities, nextId>>
    /\ UNCHANGED <<contacts, tasks>>

\* Steps 5 and 6: outbound activity, maybe a background extractor run (its
\* contact lookup may fail), then the next message or the 200 to Meta.
FinishMessage(d) ==
    /\ req[d].pc = "finish"
    /\ record_outbound(Buyer(d), Msg(d))
    /\ \/ /\ dispatches(contacts, Buyer(d))
          /\ jobs' = jobs \cup {[id |-> Pos(d), pc |-> "ready", buyer |-> Buyer(d),
                                 contact_id |-> 0]}
       \/ /\ dispatches(contacts, Buyer(d)) => Stride > 1 /\ "crm" \in Faults
          /\ UNCHANGED jobs
    /\ NextMessage(d)
    /\ UNCHANGED <<now, handoff_config, turns, pauseVars, human, sends>>

DeliveryStep(d) ==
    \/ RememberInbound(d) \/ RecordInbound(d) \/ NotifyHandoff(d) \/ Recall(d)
    \/ Complete(d) \/ SendReply(d) \/ PersistReply(d) \/ FinishMessage(d)

(***************************************************************************)
(* The dashboard.                                                          *)
(***************************************************************************)
\* send_human_message up to the gateway call.
HumanSend(h, b, hours) ==
    /\ human[h].pc = "idle"
    /\ human' = [human EXCEPT ![h] = [pc |-> "send", buyer |-> b, hours |-> hours]]
    /\ UNCHANGED <<now, handoff_config, turns, crmVars, pauseVars, req, jobs, sends>>

\* The gateway has returned or failed (no difference to the control flow):
\* pause the bot unless pause_hours = 0, then start persisting the turn.
HumanPause(h) ==
    /\ human[h].pc = "send"
    /\ \/ human[h].hours > 0 /\ pause(human[h].buyer, human[h].hours)
       \/ (human[h].hours > 0 => "pauses" \in Faults) /\ UNCHANGED pauseVars
    /\ human' = [human EXCEPT ![h].pc = "remember"]
    /\ UNCHANGED <<now, handoff_config, turns, crmVars, req, jobs, sends>>

HumanRemember(h) ==
    /\ human[h].pc = "remember"
    /\ \/ turns' = [turns EXCEPT ![human[h].buyer] =
                      remember(@, [role |-> "agent", by |-> h])]
       \/ "memory" \in Faults /\ UNCHANGED turns
    /\ human' = [human EXCEPT ![h].pc = "done"]
    /\ UNCHANGED <<now, handoff_config, crmVars, pauseVars, req, jobs, sends>>

\* pause_bot rejects hours <= 0.
PauseBot(b, hours) ==
    /\ hours > 0
    /\ pause(b, hours)
    /\ UNCHANGED <<now, handoff_config, turns, crmVars, req, human, jobs, sends>>

ResumeBot(b) ==
    /\ bot_pauses' = [bot_pauses EXCEPT ![b] = 0]
    /\ UNCHANGED <<now, handoff_config, turns, crmVars, racing, req, human, jobs, sends>>

UpdateTenantHandoff(cfg) ==
    /\ handoff_config' = cfg
    /\ UNCHANGED <<now, turns, crmVars, pauseVars, req, human, jobs, sends>>

\* delete_resource, on a contact or an activity.
DeleteResource ==
    /\ \/ /\ "contact" \in OperatorEdits
          /\ \E c \in contacts : contacts' = contacts \ {c}
          /\ UNCHANGED activities
       \/ /\ "activity" \in OperatorEdits
          /\ \E a \in activities : activities' = activities \ {a}
          /\ UNCHANGED contacts
    /\ UNCHANGED <<now, handoff_config, turns, tasks, nextId, pauseVars, req, human,
                   jobs, sends>>

\* patch_crm_task and delete_crm_task.
PatchTask(t, title, status) ==
    /\ "task" \in OperatorEdits
    /\ tasks' = upsert(tasks, [t EXCEPT !.title = title, !.status = status])
    /\ UNCHANGED <<now, handoff_config, turns, contacts, activities, nextId, pauseVars,
                   req, human, jobs, sends>>

DeleteTask(t) ==
    /\ "task" \in OperatorEdits
    /\ tasks' = tasks \ {t}
    /\ UNCHANGED <<now, handoff_config, turns, contacts, activities, nextId, pauseVars,
                   req, human, jobs, sends>>

(***************************************************************************)
(* The background extractor, _run_crm_extractor.                           *)
(***************************************************************************)
End(j) == jobs' = jobs \ {j}
JobGoto(j, pc, id) == jobs' = (jobs \ {j}) \cup {[j EXCEPT !.pc = pc, !.contact_id = id]}

\* The contact is resolved before the first await; only its id is kept.
JobStart(j) ==
    /\ j.pc = "ready"
    /\ \/ \E c \in find_contact(contacts, j.buyer) : JobGoto(j, "recall", c.id)
       \/ (find_contact(contacts, j.buyer) # {} => "crm" \in Faults) /\ End(j)
    /\ UNCHANGED <<now, handoff_config, turns, crmVars, pauseVars, req, human, sends>>

JobRecall(j) ==
    /\ j.pc = "recall"
    /\ \/ turns[j.buyer] # <<>> /\ JobGoto(j, "extract", j.contact_id)
       \/ (turns[j.buyer] # <<>> => "memory" \in Faults) /\ End(j)
    /\ UNCHANGED <<now, handoff_config, turns, crmVars, pauseVars, req, human, sends>>

\* CrmExtractor.apply on the contact as it is now: the contact, then the
\* tasks one by one, then the stage activity.  The first write that fails
\* ends it, so tried is how many of the tasks it got through.
apply(c, result, tried) ==
    /\ \/ /\ "crm" \in Faults
          /\ UNCHANGED <<contacts, tasks, activities>>
       \/ /\ contacts' = patch_contact(contacts, c, result)
          /\ tasks' = write_tasks(tasks, c.id, SubSeq(result.new_tasks, 1, tried), nextId)
          /\ \/ /\ tried = Len(result.new_tasks)
                /\ activities' = maybe_write_stage_activity(activities, c.id,
                                                            result.stage, nextId)
             \/ "crm" \in Faults /\ UNCHANGED activities
    /\ nextId' = nextId + Len(result.new_tasks) + 1

\* Mutant: a contact that is gone is written back from what was read before
\* the LLM call.
JobApply_stale(j) ==
    /\ j.pc = "extract"
    /\ \E result \in Results :
          apply([id |-> j.contact_id, buyer |-> j.buyer, turn_count |-> 1, fields |-> {}],
                result, Len(result.new_tasks))
    /\ End(j)
    /\ UNCHANGED <<now, handoff_config, turns, pauseVars, req, human, sends>>

\* The LLM has answered: nothing (or an error), or a result to apply.  A
\* contact deleted meanwhile is not recreated.
JobApply(j) ==
    /\ j.pc = "extract"
    /\ \/ UNCHANGED crmVars
       \/ \E c \in get(contacts, j.contact_id), result \in Results :
             \E tried \in 0..Len(result.new_tasks) : apply(c, result, tried)
    /\ End(j)
    /\ UNCHANGED <<now, handoff_config, turns, pauseVars, req, human, sends>>

JobStep(j) == JobStart(j) \/ JobRecall(j) \/ JobApply(j)

Tick ==
    /\ now < MaxNow
    /\ now' = now + 1
    /\ UNCHANGED <<handoff_config, turns, crmVars, pauseVars, req, human, jobs, sends>>

(***************************************************************************)
(* The specification.  A suspended coroutine is resumed: every await of    *)
(* the handlers is on an HTTP client with a timeout or on a worker thread. *)
(***************************************************************************)
Next ==
    \/ \E d \in Deliveries, batch \in Batches : Receive(d, batch)
    \/ \E d \in Deliveries : DeliveryStep(d)
    \/ \E h \in HumanSends, b \in Buyers, hours \in Hours : HumanSend(h, b, hours)
    \/ \E h \in HumanSends : HumanPause(h) \/ HumanRemember(h)
    \/ \E b \in Buyers, hours \in Hours : PauseBot(b, hours)
    \/ \E b \in Buyers : ResumeBot(b)
    \/ \E cfg \in HandoffConfigs : UpdateTenantHandoff(cfg)
    \/ DeleteResource
    \/ \E t \in tasks, title \in Titles, status \in TaskStatus : PatchTask(t, title, status)
    \/ \E t \in tasks : DeleteTask(t)
    \/ \E j \in jobs : JobStep(j)
    \/ Tick

Spec == Init /\ [][Next]_vars

Fairness ==
    /\ \A d \in Deliveries : WF_vars(DeliveryStep(d))
    /\ \A h \in HumanSends : WF_vars(HumanPause(h) \/ HumanRemember(h))
    /\ WF_vars(\E j \in jobs : JobStep(j))

FairSpec == Spec /\ Fairness

(***************************************************************************)
(* Properties.                                                             *)
(***************************************************************************)
TypeOK ==
    /\ now \in Nat
    /\ handoff_config \in HandoffConfigs
    /\ bot_pauses \in [Buyers -> Nat]
    /\ turns \in [Buyers -> Seq(Turn)]
    /\ contacts \subseteq Contact
    /\ activities \subseteq Activity
    /\ tasks \subseteq Task
    /\ nextId \in Nat
    /\ req \in [Deliveries -> Request]
    /\ human \in [HumanSends -> HumanReq]
    /\ jobs \subseteq Job
    /\ sends \subseteq Send
    /\ racing \in [Buyers -> SUBSET JobIds]

\* While a thread is paused, the only bot replies on their way to the buyer
\* are those that had passed the pause check when the pause was written (or
\* whose check could not reach the registry): a message that arrives during
\* a human takeover is never answered by the bot (main.py, step 1b).
NoNewReplyWhilePaused ==
    \A b \in Buyers : is_paused(b) => Composing(b) \subseteq racing[b]

\* Meta redelivers and deliveries overlap, yet a buyer has one contact and a
\* message one activity per direction: find-or-create is never split by an
\* await (crm/recorder.py).
OneRowPerExternalId ==
    /\ \A c1, c2 \in contacts : c1.buyer = c2.buyer => c1 = c2
    /\ \A a1, a2 \in activities :
          a1.external_id = a2.external_id /\ a1.external_id \in MessageKey => a1 = a2

\* A delivery hands each of its messages to the gateway at most once, even
\* when the gateway's answer is lost: the handler has no retry.
AtMostOneSend == \A s1, s2 \in sends : s1.id = s2.id => s1 = s2

\* The bookkeeping the proofs rest on: a coroutine between two awaits has a
\* message at hand and, at the gateway, a reply; a reply was handed over only
\* by a coroutine that has since moved on, and contact ids come from nextId
\* and are never shared.
Bookkeeping ==
    /\ \A d \in Deliveries :
          /\ req[d].pc \notin {"idle", "done", "refused"} => req[d].batch # <<>>
          /\ req[d].pc = "send" => req[d].reply # "none"
    /\ \A s \in sends :
          LET r == req[s.id[1]]
          IN  /\ r.pc # "idle"
              /\ s.id[2] > 0 /\ s.id[2] >= Len(r.batch)
              /\ s.id[2] = Len(r.batch) => r.pc \in {"persist", "finish"}
    /\ \A c \in contacts : c.id < nextId
    /\ \A c1, c2 \in contacts : c1.id = c2.id => c1 = c2

\* A contact's turn_count never goes back: the extractor writes the contact
\* it re-reads after the LLM call, not the one it saw before it, and never a
\* protected field.
TurnCountNeverLost ==
    [][\A c \in contacts, n \in contacts' :
          c.id = n.id => n.turn_count >= c.turn_count]_vars

\* A contact that appears is a new row with one turn: a deleted contact is
\* never written back by a handler or an extractor run that knew it.
DeletedContactStaysDeleted ==
    [][\A n \in contacts' :
          (\A c \in contacts : c.id # n.id) => n.id >= nextId /\ n.turn_count = 1]_vars

\* Whatever fails on the way, a message the handler leaves behind was either
\* handed to the gateway and its reply persisted, or the thread was paused.
AnsweredUnlessPaused ==
    [][\A d \in Deliveries :
          req[d].batch # <<>> /\ req'[d].batch # req[d].batch =>
             \/ is_paused(Buyer(d))
             \/ /\ \E s \in sends : s.id = Pos(d)
                /\ \/ "memory" \in Faults
                   \/ Len(turns[Buyer(d)]) = MaxItems
                   \/ \E i \in DOMAIN turns[Buyer(d)] :
                         turns[Buyer(d)][i] = [role |-> "agent", by |-> Pos(d)]]_vars

\* Two open tasks of one contact with the same title.
duplicate(t1, t2) ==
    /\ t1.status = "open" /\ t2.status = "open" /\ t1 # t2
    /\ t1.contact_id = t2.contact_id /\ t1.title = t2.title

\* An extractor run never opens a second task with the same title for a
\* contact, neither against the rows nor within its own result, as long as
\* the tenant's tasks fit the window it looks at.
NoDuplicateOpenTask ==
    [][Cardinality(tasks) <= TaskLimit /\ jobs' # jobs =>
          \A t1 \in tasks' \ tasks, t2 \in tasks' : ~duplicate(t1, t2)]_vars

\* A delivery whose tenant could be resolved ends with its 200, whichever ports
\* fail while its messages are processed: only an error before the first
\* message (the rate limit, the tenants table) makes Meta deliver it again.
DeliveryAcknowledged ==
    \A d \in Deliveries : req[d].pc \notin {"idle", "refused"} ~> req[d].pc = "done"

(***************************************************************************)
(* What the code's comments say and the code does not do.                  *)
(***************************************************************************)
\* main.py, send_human_message: "Sending implicitly pauses the bot (default
\* 8h) so it doesn't talk over the human."
BotSilentOncePaused ==
    [][\A s \in sends' \ sends : ~is_paused(Sender[s.msg])]_vars

=============================================================================
