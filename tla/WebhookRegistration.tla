------------------------ MODULE WebhookRegistration ------------------------
(***************************************************************************)
(* manage_webhooks (services/moysklad_webhook_registration.py): the        *)
(* webhooks MoySklad calls are listed, made, corrected, enabled and        *)
(* disabled when the process starts and by administrators (api/moysklad),  *)
(* one operation at a time in a process.  A request may fail, also after   *)
(* MoySklad has performed it, and ends the operation; MoySklad's users     *)
(* change the same webhooks meanwhile.                                     *)
(***************************************************************************)
EXTENDS Naturals, FiniteSets

CONSTANTS
  Entities,    \* subscriptions of the webhook list
  Stocks,      \* subscriptions of the webhookstock list
  Requests,    \* operations an administrator may have open
  MaxHooks,    \* bound: webhooks of the account
  MaxOutside   \* bound: changes by users and failed requests

ASSUME WebhookAssumption ==
  /\ Entities \cap Stocks = {}
  /\ Requests \subseteq Nat \ {0} /\ Requests # {}
  /\ MaxHooks \in Nat \ {0} /\ MaxOutside \in Nat

Subscriptions == Entities \cup Stocks

VARIABLES
  hooks,    \* MoySklad: webhooks by id
  ops,      \* per request: its operation
  lock,     \* the holder of registration_lock, 0 for nobody
  outside,
  touched,  \* whether a user changed a webhook since the lock was taken
  last,     \* the operation that ended last, unless a user intervened
  off       \* the subscriptions a disconnect has left disabled

webhookVars == <<hooks, ops, lock, outside, touched, last, off>>

-----------------------------------------------------------------------------
Idle == [kind |-> "none", stage |-> 0, todo |-> {}]

\* url: the configured one, the endpoint with a former secret (or a former
\* endpoint with this secret), or another installation's.  fields is method and
\* diffType, which stock webhooks do not have.
Hook(subscription, url, fields, enabled) ==
  [subscription |-> subscription, url |-> url, fields |-> fields, enabled |-> enabled]

NoHooks == [id \in {} |-> Idle]

WebhookInit ==
  /\ \E s \in Entities, url \in {"former", "foreign"}, enabled \in BOOLEAN :
       hooks \in {NoHooks, [id \in {1} |-> Hook(s, url, FALSE, enabled)]}
  /\ ops = [r \in Requests |-> Idle]
  /\ lock = 0 /\ outside = 0 /\ touched = FALSE /\ last = "none" /\ off = {}

\* (mutant) Only the configured url is recognised.
BelongsToAppExact(hook) == hook.url = "expected"

\* belongs_to_app, for a webhook of one of the program's types.
BelongsToApp(hook) == hook.url # "foreign"

Owned(subscriptions) == {id \in DOMAIN hooks : BelongsToApp(hooks[id]) /\ hooks[id].subscription \in subscriptions}

\* What an operation makes of a webhook.
Wanted(hook, kind) ==
  [hook EXCEPT !.url = IF kind \in {"startup", "connect"} THEN "expected" ELSE @,
               !.fields = @ \/ kind \in {"startup", "connect"},
               !.enabled = IF kind \in {"connect", "disconnect"} THEN kind = "connect" ELSE @]

Creates(subscriptions, kind) ==
  IF kind \notin {"startup", "connect"} THEN {}
  ELSE {[id |-> 0, keys |-> {}, hook |-> Hook(s, "expected", TRUE, TRUE)] :
          s \in {t \in subscriptions : Owned({t}) = {}}}

\* Only the keys that differ in the list are sent.
Updates(subscriptions, kind) ==
  LET differing(id) == {k \in {"url", "fields", "enabled"} : Wanted(hooks[id], kind)[k] # hooks[id][k]}
  IN  {[id |-> id, keys |-> differing(id), hook |-> Wanted(hooks[id], kind)] :
         id \in {i \in Owned(subscriptions) : kind # "status" /\ differing(i) # {}}}

\* The lists, one after the other: before and, except for status, after each
\* change of the webhooks and of the stock webhooks.
Listed(stage) == CASE stage = 1 -> Entities [] stage = 3 -> Stocks [] OTHER -> {}

-----------------------------------------------------------------------------
Startup(r) == ops' = [ops EXCEPT ![r] = [Idle EXCEPT !.kind = "startup"]]

Starting == \E r \in Requests : ops[r].kind = "startup"

\* The process ends; a new one starts with a free lock.
WebhookKill ==
  /\ ops' = [r \in Requests |-> Idle]
  /\ lock' = 0
  /\ UNCHANGED <<hooks, outside, touched, last, off>>

\* An administrator's request; the application answers requests once it has started.
Request(r) ==
  /\ ops[r] = Idle /\ ~Starting
  /\ \E kind \in {"connect", "disconnect", "status"} : ops' = [ops EXCEPT ![r] = [Idle EXCEPT !.kind = kind]]
  /\ UNCHANGED <<hooks, lock, outside, touched, last, off>>

\* (mutant) Without registration_lock.
AcquireUnlocked(r) ==
  /\ ops[r] # Idle /\ ops[r].stage = 0
  /\ ops' = [ops EXCEPT ![r].stage = 1, ![r].todo = Creates(Entities, ops[r].kind) \cup Updates(Entities, ops[r].kind)]
  /\ lock' = r
  /\ touched' = FALSE /\ last' = "none"
  /\ off' = IF ops[r].kind = "connect" THEN {} ELSE off
  /\ UNCHANGED <<hooks, outside>>

\* The lock is taken and the first list is read.
Acquire(r) ==
  /\ ops[r] # Idle /\ ops[r].stage = 0 /\ lock = 0
  /\ ops' = [ops EXCEPT ![r].stage = 1, ![r].todo = Creates(Entities, ops[r].kind) \cup Updates(Entities, ops[r].kind)]
  /\ lock' = r
  /\ touched' = FALSE /\ last' = "none"
  /\ off' = IF ops[r].kind = "connect" THEN {} ELSE off
  /\ UNCHANGED <<hooks, outside>>

Release(r) ==
  /\ ops' = [ops EXCEPT ![r] = Idle]
  /\ lock' = IF lock = r THEN 0 ELSE lock

\* The next list; its end changes nothing.
List(r) ==
  LET op == ops[r]
      stage == op.stage + (IF op.kind = "status" THEN 2 ELSE 1)
  IN  /\ op.stage \in 1 .. 3 /\ op.todo = {}
      /\ stage <= 4
      /\ ops' = [ops EXCEPT ![r].stage = stage,
                            ![r].todo = Creates(Listed(stage), op.kind) \cup Updates(Listed(stage), op.kind)]
      /\ UNCHANGED <<hooks, lock, outside, touched, last, off>>

\* MoySklad does not use an id again.
NewIds == {id \in 1 .. MaxHooks \ DOMAIN hooks : \A r \in Requests : \A request \in ops[r].todo : request.id # id}

Corrected(hook, request) ==
  [hook EXCEPT !.url     = IF "url" \in request.keys THEN request.hook.url ELSE @,
               !.fields  = IF "fields" \in request.keys THEN request.hook.fields ELSE @,
               !.enabled = IF "enabled" \in request.keys THEN request.hook.enabled ELSE @]

Performed(request) ==
  IF request.id = 0
    THEN LET id == CHOOSE i \in NewIds : TRUE
         IN  [i \in DOMAIN hooks \cup {id} |-> IF i = id THEN request.hook ELSE hooks[i]]
    ELSE [hooks EXCEPT ![request.id] = Corrected(@, request)]

CanPerform(request) == IF request.id = 0 THEN NewIds # {} ELSE request.id \in DOMAIN hooks

\* A POST or PUT is answered.
Send(r) ==
  \E request \in ops[r].todo :
    /\ CanPerform(request)
    /\ hooks' = Performed(request)
    /\ ops' = [ops EXCEPT ![r].todo = @ \ {request}]
    /\ UNCHANGED <<lock, outside, touched, last, off>>

\* A request fails, perhaps after it has been performed; MoySklad does not know
\* the webhook of an update any more.
RequestFails(r) ==
  /\ ops[r].stage > 0
  /\ \/ /\ outside < MaxOutside /\ outside' = outside + 1
        /\ \/ UNCHANGED hooks
           \/ \E request \in ops[r].todo : CanPerform(request) /\ hooks' = Performed(request)
     \/ /\ \E request \in ops[r].todo : request.id # 0 /\ ~CanPerform(request)
        /\ UNCHANGED <<hooks, outside>>
  /\ Release(r)
  /\ UNCHANGED <<touched, last, off>>

\* The operation answers, and logs at startup.
Done(r) ==
  /\ ops[r].stage \in (IF ops[r].kind = "status" THEN {3} ELSE {4}) /\ ops[r].todo = {}
  /\ last' = IF touched THEN "none" ELSE ops[r].kind
  /\ off' = IF ops[r].kind # "disconnect" \/ touched THEN off ELSE {s \in Subscriptions : Owned({s}) # {}}
  /\ Release(r)
  /\ UNCHANGED <<hooks, outside, touched>>

\* A user of MoySklad enables, disables or deletes a webhook.
User ==
  /\ outside < MaxOutside /\ outside' = outside + 1
  /\ touched' = TRUE /\ last' = "none"
  /\ \E id \in DOMAIN hooks :
       /\ \/ hooks' = [hooks EXCEPT ![id].enabled = ~@]
          \/ hooks' = [i \in DOMAIN hooks \ {id} |-> hooks[i]]
       /\ off' = off \ {hooks[id].subscription}
  /\ UNCHANGED <<ops, lock>>

WebhookNext == User \/ \E r \in Requests : Request(r) \/ Acquire(r) \/ List(r) \/ Send(r) \/ RequestFails(r) \/ Done(r)

-----------------------------------------------------------------------------
(* Properties.                                                             *)

\* The webhooks that call this installation, as its users would recognise them.
Mine(subscriptions) ==
  {id \in DOMAIN hooks : hooks[id].url # "foreign" /\ hooks[id].subscription \in subscriptions}

WebhookTypeOK ==
  /\ DOMAIN hooks \subseteq 1 .. MaxHooks
  /\ lock \in Requests \cup {0}
  /\ \A r \in Requests : (ops[r].stage > 0) = (lock = r)
  /\ last \in {"none", "startup", "connect", "disconnect", "status"}
  /\ off \subseteq Subscriptions

\* MoySklad calls the program once per change: a subscription has one webhook of
\* this installation, whatever operations, starts and lost answers there were.  And
\* the lock is held by the operation that is under way.
OneHook == WebhookTypeOK /\ \A s \in Subscriptions : Cardinality(Mine({s})) <= 1

\* An operation that ends leaves what was asked for.  After connect, with no user
\* in between, every subscription is called at the configured url; what a disconnect
\* has disabled stays so until an administrator connects or a user intervenes: no
\* start of the process enables it ("preserve manual disabling on startup").
OperationDone ==
  /\ last = "connect" => \A s \in Subscriptions : \E id \in Mine({s}) : hooks[id] = Hook(s, "expected", TRUE, TRUE)
  /\ \A id \in Mine(off) : ~hooks[id].enabled
=============================================================================
