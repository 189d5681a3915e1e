------------------------- MODULE NotificationDelivery --------------------------
(***************************************************************************)
(* services/notifications, the engine: templates, messages and their       *)
(* delivery through a provider that takes a second to answer, while        *)
(* webhooks report what became of a message.  A message is read, changed   *)
(* and saved whole.  The queues and the retries are written and no job     *)
(* reads them; event and delivery documents, and campaigns, are only kept. *)
(***************************************************************************)
EXTENDS Requests

CONSTANTS
    Messages, Recipients,
    Blacklisted,          \* recipients whose address is on the blacklist, which nobody writes
    Unsubscribed,         \* recipients whose preferences exclude the template
    MaxCalls              \* bounds the deliveries asked for of one message

ASSUME DeliveryAssumption == MaxCalls \in Nat

VARIABLES
    template,     \* the template's document: of a type with a provider, without one, or none
    messages,     \* message:<id>
    queue,        \* ids waiting in queue:<priority>:<type>
    retries,      \* retry:<id>
    delivering,   \* the request each client is in
    bulk,         \* the bulk request: recipients of its batch, of later ones, and its counts
    handedOver,   \* history: how often the provider took each message
    news,         \* history: what each message was last found to be
    doubled       \* history: messages of which two requests held copies at once

DeliveryVars == <<template, messages, queue, retries, delivering, bulk, handedOver, news, doubled>>

Message == [status : {"pending", "processing", "sent", "failed", "delivered"},
            retryCount : 0 .. MaxCalls, to : Recipients]
retryPolicy == [maxRetries |-> 3, initialDelay |-> 60, backoffMultiplier |-> 2, maxDelay |-> 3600]
calculateRetryDelay(retryCount) ==
    LET delay == retryPolicy.initialDelay * retryPolicy.backoffMultiplier ^ retryCount
    IN  IF delay < retryPolicy.maxDelay THEN delay ELSE retryPolicy.maxDelay
getProvider(kind) == kind = "email"      \* a webhook template has none
mapProviderStatus(status) ==
    CASE status \in {"delivered", "bounced", "complained", "failed", "sent", "processing"} -> status
      [] OTHER -> "pending"

\* The blacklist first; someone without preferences is not asked.
canSendToRecipient(r) == r \notin Blacklisted /\ r \notin Unsubscribed

NoBulk == [batch |-> {}, later |-> {}, successes |-> 0, failures |-> 0]
DeliveryInit ==
    /\ template = "none" /\ messages = [m \in Messages |-> Unused]
    /\ queue = {} /\ retries = {} /\ bulk = NoBulk
    /\ delivering = [k \in Clients |-> Resting]
    /\ handedOver = [m \in Messages |-> 0] /\ news = [m \in Messages |-> "pending"] /\ doubled = {}

InHand(j, m) == delivering[j].pc \in {"call", "save"} /\ delivering[j].msg = m
Deliver(k, call) == delivering' = [delivering EXCEPT ![k] = call]
Overlap(k, m) == doubled' = IF \E j \in Clients \ {k} : InHand(j, m) THEN doubled \union {m} ELSE doubled

-----------------------------------------------------------------------------
createTemplate ==
    /\ template = "none" /\ template' \in {"email", "webhook"}
    /\ UNCHANGED <<messages, queue, retries, delivering, bulk, handedOver, news, doubled>>

NewMessage(m, r) ==
    /\ template # "none" /\ canSendToRecipient(r) /\ messages[m] = Unused
    /\ messages' = [messages EXCEPT ![m] = [status |-> "pending", retryCount |-> 0, to |-> r]]
    /\ queue' = queue \union {m}
sendNotification(m, r) ==
    /\ NewMessage(m, r)
    /\ UNCHANGED <<template, retries, delivering, bulk, handedOver, news, doubled>>

\* Batches one after the other, the recipients of a batch together.
sendBulkNotifications ==
    /\ bulk = NoBulk
    /\ \E first \in SUBSET Recipients, rest \in SUBSET Recipients :
           first # {} /\ first \intersect rest = {} /\ bulk' = [NoBulk EXCEPT !.batch = first, !.later = rest]
    /\ UNCHANGED <<template, messages, queue, retries, delivering, handedOver, news, doubled>>
BulkSends(r) ==
    LET rest == bulk.batch \ {r} IN
    /\ r \in bulk.batch
    /\ \/ /\ \E m \in Messages : NewMessage(m, r)
          /\ bulk' = [bulk EXCEPT !.successes = @ + 1, !.batch = IF rest = {} THEN bulk.later ELSE rest,
                                  !.later = IF rest = {} THEN {} ELSE @]
       \/ /\ template = "none" \/ ~canSendToRecipient(r)
          /\ bulk' = [bulk EXCEPT !.failures = @ + 1, !.batch = IF rest = {} THEN bulk.later ELSE rest,
                                  !.later = IF rest = {} THEN {} ELSE @]
          /\ UNCHANGED <<messages, queue>>
    /\ UNCHANGED <<template, retries, delivering, handedOver, news, doubled>>

\* Faulty variant: any message may be processed.
EligibleAlways(status) == TRUE
Eligible(status) == status \in {"pending", "processing"}

\* The message is saved as processing before the provider is looked up.
processDelivery(k, m) ==
    /\ messages[m] \in Message /\ Eligible(messages[m].status) /\ handedOver[m] < MaxCalls
    /\ messages[m].retryCount < MaxCalls
    /\ Deliver(k, [pc |-> "call", msg |-> m, copy |-> [messages[m] EXCEPT !.status = "processing"]])
    /\ Overlap(k, m)
    /\ UNCHANGED <<template, messages, queue, retries, bulk, handedOver, news>>
SaveProcessing(k) ==
    LET call == delivering[k] IN
    /\ call.pc = "call"
    /\ messages' = [messages EXCEPT ![call.msg] = call.copy]
    /\ news' = [news EXCEPT ![call.msg] = "processing"]
    /\ Deliver(k, IF getProvider(template) THEN [call EXCEPT !.pc = "save"] ELSE Resting)
    /\ UNCHANGED <<template, queue, retries, bulk, handedOver, doubled>>

\* Faulty variant: a message that will be retried stays as it is.
FailedQuietly(message) == [message EXCEPT !.retryCount = @ + 1]

Failed(message) == [message EXCEPT !.status = "failed", !.retryCount = @ + 1]

\* The provider's answer, and what is saved for it.
sendViaProvider(k) ==
    LET call == delivering[k]
        failed == Failed(call.copy) IN
    /\ call.pc = "save" /\ "heard" \notin DOMAIN call
    /\ \/ /\ messages' = [messages EXCEPT ![call.msg] = [call.copy EXCEPT !.status = "sent"]]
          /\ handedOver' = [handedOver EXCEPT ![call.msg] = @ + 1]
          /\ news' = [news EXCEPT ![call.msg] = "sent"]
          /\ UNCHANGED retries
       \/ /\ messages' = [messages EXCEPT ![call.msg] = failed]
          /\ retries' = IF failed.retryCount < retryPolicy.maxRetries THEN retries \union {call.msg} ELSE retries
          /\ news' = [news EXCEPT ![call.msg] = "failed"]
          /\ UNCHANGED handedOver
    /\ Deliver(k, Resting)
    /\ UNCHANGED <<template, queue, bulk, doubled>>

\* Faulty variant: the message takes the provider's word for it.
handleDeliveryWebhookVerbatim(k, m, status) ==
    /\ messages[m] \in Message
    /\ Deliver(k, [pc |-> "save", msg |-> m, heard |-> mapProviderStatus(status),
                   copy |-> [messages[m] EXCEPT !.status = mapProviderStatus(status)]])
    /\ Overlap(k, m)
    /\ UNCHANGED <<template, messages, queue, retries, bulk, handedOver, news>>

\* A message nobody knows is ignored, and a status that is none of these changes nothing.
handleDeliveryWebhook(k, m, status) ==
    LET found == mapProviderStatus(status) IN
    /\ messages[m] \in Message
    /\ Deliver(k, [pc |-> "save", msg |-> m, heard |-> found,
                   copy |-> [messages[m] EXCEPT !.status = CASE found = "delivered" -> "delivered"
                                                             [] found \in {"failed", "bounced"} -> "failed"
                                                             [] OTHER -> @]])
    /\ Overlap(k, m)
    /\ UNCHANGED <<template, messages, queue, retries, bulk, handedOver, news>>
SaveHeard(k) ==
    LET call == delivering[k] IN
    /\ call.pc = "save" /\ "heard" \in DOMAIN call
    /\ messages' = [messages EXCEPT ![call.msg] = call.copy]
    /\ news' = [news EXCEPT ![call.msg] = CASE call.heard = "delivered" -> "delivered"
                                            [] call.heard \in {"failed", "bounced"} -> "failed"
                                            [] OTHER -> @]
    /\ Deliver(k, Resting)
    /\ UNCHANGED <<template, queue, retries, bulk, handedOver, doubled>>

\* A retry's document is kept for the time until it would be due.
RetryExpires(m) ==
    /\ m \in retries /\ retries' = retries \ {m}
    /\ UNCHANGED <<template, messages, queue, delivering, bulk, handedOver, news, doubled>>
MessageExpires(m) ==
    /\ messages[m] \in Message /\ messages' = [messages EXCEPT ![m] = Expired]
    /\ UNCHANGED <<template, queue, retries, delivering, bulk, handedOver, news, doubled>>

DeliveryNext ==
    \/ createTemplate \/ sendBulkNotifications
    \/ \E r \in Recipients : BulkSends(r) \/ \E m \in Messages : sendNotification(m, r)
    \/ \E m \in Messages : RetryExpires(m) \/ MessageExpires(m)
    \/ \E k \in Clients :
        \/ /\ delivering[k] = Resting
           /\ \E m \in Messages :
                 \/ processDelivery(k, m)
                 \/ \E status \in {"delivered", "bounced", "opened"} : handleDeliveryWebhook(k, m, status)
        \/ SaveProcessing(k) \/ sendViaProvider(k) \/ SaveHeard(k)
DeliverySpec == DeliveryInit /\ [][DeliveryNext]_DeliveryVars

-----------------------------------------------------------------------------
\* The documents are of the types of types/notifications.ts.
DeliveryTypeOK ==
    /\ template \in {"none", "email", "webhook"} /\ queue \union retries \subseteq Messages
    /\ messages \in [Messages -> Message \union {Unused, Expired}]

\* A provider takes a message a second time only if two requests about it overlapped: a
\* message that was sent is not processed again, and one being sent is only taken up by a
\* request that begins before the first ends.
HandedOverOnce == \A m \in Messages : handedOver[m] > 1 => m \in doubled

\* What was last found out about a message is lost only if two requests about it overlapped.
NewsLostOnlyByOverlap ==
    \A m \in Messages \ doubled : messages[m] \in Message => messages[m].status = news[m]
=============================================================================
