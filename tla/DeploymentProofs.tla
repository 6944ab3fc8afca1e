-------------------------- MODULE DeploymentProofs --------------------------
(***************************************************************************)
(* Proofs about what a container keeps and starts while it serves: the     *)
(* settings of ServerSettings and the webhooks of WebhookRegistration, for *)
(* every number of rows, updates, subscriptions, operations and failures;  *)
(* and about the upgrade it starts with, for every set of images and every *)
(* number of stops.                                                        *)
(***************************************************************************)
EXTENDS Deployment, MigrationProofs, FiniteSetTheorems, SequenceTheorems, TLAPS

-----------------------------------------------------------------------------
(* The settings.                                                           *)
Working(u) == posts[u].phase # "idle"

PostsType ==
  /\ rows \in Seq(Values)
  /\ posts \in [Posts -> [phase : {"idle", "read", "written"}, value : Values \cup {0}, row : {0, 1}, copy : Values \cup {0}]]
  /\ \A u \in Posts : ~Working(u) => posts[u] = NoPost
  /\ \A u \in Posts : Working(u) => posts[u].value \in Values
  /\ \A u \in Posts : posts[u].row <= Len(rows)

(* Since the cache was loaded the updates have come one by one: the one    *)
(* under way has met at most one row, and has not written it, or has       *)
(* written what staff are shown.                                           *)
Serial ==
  /\ \A u, w \in Posts : Working(u) /\ Working(w) => u = w
  /\ \A u \in Posts : posts[u].phase = "read" =>
       /\ cache = Shown /\ Len(rows) <= 1
       /\ posts[u].row = Len(rows) /\ posts[u].copy = Shown
  /\ \A u \in Posts : posts[u].phase = "written" => Shown = posts[u].value
  /\ (\A u \in Posts : ~Working(u)) => cache = Shown

SettingsInv == PostsType /\ (faithful => Serial)

(* The last row, where there is one row or none.                           *)
LEMMA ShownIs ==
  ASSUME PostsType
  PROVE  /\ Len(rows) \in Nat
         /\ Len(rows) = 0 => Shown = 0 /\ rows = <<>>
         /\ Len(rows) > 0 => Shown = rows[Len(rows)] /\ Shown \in Values /\ rows # <<>>
  BY DEF PostsType, Shown, Value

(* There are two numbers up to one.                                      *)
LEMMA OneOrNone == \A n \in Nat : n <= 1 => n = 0 \/ n = 1
  OBVIOUS

(* A request reads the first row of the key.                               *)
LEMMA ReadKeeps ==
  ASSUME SettingsInv, NEW u \in Posts, Read(u)
  PROVE  SettingsInv'
<1> DEFINE row == IF rows = <<>> THEN 0 ELSE 1
<1>1. PICK v \in Values : posts' = [posts EXCEPT ![u] = [phase |-> "read", value |-> v, row |-> row, copy |-> Value(row)]]
  BY DEF Read
<1>2. rows' = rows /\ cache' = cache /\ posts \in [Posts -> [phase : {"idle", "read", "written"}, value : Values \cup {0}, row : {0, 1}, copy : Values \cup {0}]]
  BY DEF Read, SettingsInv, PostsType
<1>3. row \in {0, 1} /\ Value(row) \in Values \cup {0}
  BY DEF SettingsInv, PostsType, Value
<1>4. posts'[u] = [phase |-> "read", value |-> v, row |-> row, copy |-> Value(row)]
      /\ \A w \in Posts \ {u} : posts'[w] = posts[w]
  BY <1>1, <1>2
<1>5. PostsType'
  <2>1. [phase |-> "read", value |-> v, row |-> row, copy |-> Value(row)]
          \in [phase : {"idle", "read", "written"}, value : Values \cup {0}, row : {0, 1}, copy : Values \cup {0}]
    BY <1>3
  <2>2. posts' \in [Posts -> [phase : {"idle", "read", "written"}, value : Values \cup {0}, row : {0, 1}, copy : Values \cup {0}]]
    BY <1>1, <1>2, <2>1
  <2> QED  BY <1>2, <1>4, <2>2 DEF SettingsInv, PostsType, Working
<1>6. ASSUME faithful' PROVE Serial'
  <2>1. faithful /\ Len(rows) <= 1 /\ \A w \in Posts : ~Working(w)
    <3>1. faithful' = (faithful /\ Len(rows) <= 1 /\ \A w \in Posts : posts[w] = NoPost)
      BY DEF Read
    <3>2. faithful /\ Len(rows) <= 1 /\ \A w \in Posts : posts[w] = NoPost
      BY <1>6, <3>1, Zenon
    <3> QED  BY <3>2 DEF Working, NoPost
  <2>2. \A w \in Posts : Working(w)' => w = u
    BY <1>4, <2>1 DEF Working
  <2>3. cache = Shown
    BY <2>1 DEF SettingsInv, Serial
  <2>4. row = Len(rows) /\ Value(row) = Shown /\ Len(rows) \in Nat
    <3>1. CASE rows = <<>>
      BY <3>1 DEF Shown, Value
    <3>2. CASE rows # <<>>
      <4>1. PostsType
        BY DEF SettingsInv
      <4>2. Len(rows) \in Nat /\ (Len(rows) = 0 => rows = <<>>)
        BY <4>1, ShownIs
      <4>3. Len(rows) = 1
        BY <2>1, <3>2, <4>2, OneOrNone
      <4> QED  BY <3>2, <4>3 DEF Shown, Value
    <3> QED  BY <3>1, <3>2
  <2>5. Shown' = Shown
    BY <1>2 DEF Shown, Value
  <2> QED  BY <1>2, <1>4, <2>1, <2>2, <2>3, <2>4, <2>5 DEF Serial, Working
<1> QED  BY <1>5, <1>6 DEF SettingsInv

(* The row is inserted, updated, or found unchanged.                       *)
LEMMA SaveKeeps ==
  ASSUME SettingsInv, NEW u \in Posts, Save(u)
  PROVE  SettingsInv'
<1> DEFINE post == posts[u]
<1>1. /\ post.phase = "read" /\ post.value \in Values /\ Working(u)
      /\ posts' = [posts EXCEPT ![u].phase = "written"] /\ cache' = cache /\ faithful' = faithful
      /\ rows' = IF post.row = 0 THEN Append(rows, post.value)
                 ELSE IF post.value = post.copy THEN rows ELSE [rows EXCEPT ![post.row] = post.value]
  BY DEF Save, SettingsInv, PostsType, Working
<1>2. posts'[u].phase = "written" /\ posts'[u].value = post.value /\ \A w \in Posts \ {u} : posts'[w] = posts[w]
  BY <1>1 DEF SettingsInv, PostsType
<1>3. PostsType'
  <2>1. rows' \in Seq(Values)
    <3>1. CASE post.row = 0
      BY <1>1, <3>1 DEF SettingsInv, PostsType
    <3>2. CASE post.row # 0
      <4>1. rows \in Seq(Values) /\ post.row \in 1 .. Len(rows)
        BY <3>2 DEF SettingsInv, PostsType
      <4>2. [rows EXCEPT ![post.row] = post.value] \in Seq(Values)
        BY <1>1, <4>1, ExceptSeq
      <4> QED  BY <1>1, <3>2, <4>1, <4>2
    <3> QED  BY <3>1, <3>2
  <2>2. posts' \in [Posts -> [phase : {"idle", "read", "written"}, value : Values \cup {0}, row : {0, 1}, copy : Values \cup {0}]]
    BY <1>1 DEF SettingsInv, PostsType
  <2> QED  BY <1>1, <1>2, <2>1, <2>2 DEF SettingsInv, PostsType, Working
<1>4. ASSUME faithful PROVE Serial'
  <2>1. \A w \in Posts : Working(w)' => w = u
    BY <1>1, <1>2, <1>4 DEF SettingsInv, Serial, Working
  <2>2. post.row = Len(rows) /\ post.copy = Shown /\ Len(rows) <= 1
    BY <1>1, <1>4 DEF SettingsInv, Serial
  <2>3. Shown' = post.value
    <3>1. rows \in Seq(Values) /\ Len(rows) \in Nat
      BY DEF SettingsInv, PostsType
    <3>2. CASE post.row = 0
      <4>1. rows' = Append(rows, post.value) /\ Len(rows) = 0
        BY <1>1, <2>2, <3>2
      <4>2. Len(rows') = 1 /\ rows'[1] = post.value
        <5>1. post.value \in Values
          BY <1>1
        <5>2. Len(Append(rows, post.value)) = Len(rows) + 1 /\ Append(rows, post.value)[Len(rows) + 1] = post.value
          BY ONLY <3>1, <5>1, AppendProperties
        <5> QED  BY <4>1, <5>2
      <4> QED  BY <4>2 DEF Shown, Value
    <3>3. CASE post.row # 0 /\ post.value = post.copy
      <4>1. rows' = rows
        BY <1>1, <3>3
      <4> QED  BY <2>2, <3>3, <4>1 DEF Shown, Value
    <3>4. CASE post.row # 0 /\ post.value # post.copy
      <4>1. Len(rows) = 1 /\ rows' = [rows EXCEPT ![1] = post.value]
        <5>1. post.row = 1 /\ Len(rows) = 1
          BY <2>2, <3>1, <3>4, OneOrNone
        <5> QED  BY <1>1, <3>4, <5>1
      <4>2. Len(rows') = 1 /\ rows'[1] = post.value
        BY <1>1, <3>1, <4>1, ExceptSeq
      <4> QED  BY <4>2 DEF Shown, Value
    <3> QED  BY <3>2, <3>3, <3>4
  <2> QED  BY <1>1, <1>2, <2>1, <2>3 DEF Serial, Working
<1> QED  BY <1>1, <1>3, <1>4 DEF SettingsInv

(* A request ends: the cache has the new value, or the request has failed. *)
LEMMA PostEnds ==
  ASSUME SettingsInv, NEW u \in Posts, Recorded(u) \/ PostFails(u)
  PROVE  SettingsInv'
<1>1. rows' = rows /\ posts' = [posts EXCEPT ![u] = NoPost] /\ Working(u) /\ Shown' = Shown
  BY DEF Recorded, PostFails, Working, Shown, Value
<1>2. posts'[u] = NoPost /\ \A w \in Posts \ {u} : posts'[w] = posts[w]
  BY <1>1 DEF SettingsInv, PostsType
<1>3. PostsType'
  BY <1>1, <1>2 DEF SettingsInv, PostsType, Working, NoPost
<1>4. ASSUME faithful' PROVE Serial'
  <2>1. faithful
    BY <1>4 DEF Recorded, PostFails
  <2>2. \A w \in Posts : ~Working(w)' /\ posts'[w] = NoPost
    BY <1>1, <1>2, <2>1 DEF SettingsInv, Serial, PostsType, Working, NoPost
  <2>3. cache' = Shown
    <3>1. CASE Recorded(u)
      BY <2>1, <3>1 DEF Recorded, SettingsInv, Serial
    <3>2. CASE PostFails(u)
      BY <1>4, <2>1, <3>2 DEF PostFails, SettingsInv, Serial
    <3> QED  BY <3>1, <3>2
  <2> QED  BY <1>1, <2>2, <2>3 DEF Serial, NoPost
<1> QED  BY <1>3, <1>4 DEF SettingsInv

(* A new process loads the last row.                                       *)
LEMMA LoadKeeps ==
  ASSUME SettingsInv, Load
  PROVE  SettingsInv'
<1>1. rows' = rows /\ posts' = [u \in Posts |-> NoPost] /\ cache' = Shown /\ Shown' = Shown
  BY DEF Load, Shown, Value
<1>2. PostsType'
  BY <1>1 DEF SettingsInv, PostsType, Working, NoPost
<1>3. Serial'
  BY <1>1 DEF Serial, Working, NoPost
<1> QED  BY <1>2, <1>3 DEF SettingsInv

(* Every step of a container keeps SettingsInv (services/server_settings.py). *)
LEMMA SettingsStep ==
  ASSUME SettingsInv, [Next]_vars
  PROVE  SettingsInv'
<1>1. CASE SettingsNext
  BY <1>1, ReadKeeps, SaveKeeps, PostEnds DEF SettingsNext
<1>2. CASE Load
  BY <1>2, LoadKeeps
<1>3. CASE UNCHANGED settingsVars
  BY <1>3 DEF settingsVars, SettingsInv, PostsType, Serial, Working, Shown, Value
<1> QED
  BY <1>1, <1>2, <1>3 DEF Next, vars, Upgrade, Start, Shutdown, Container, Webhooks, Settings

(* The handlers use the value staff are shown, through starts, failures and*)
(* rows saved one after the other: wherever the cache differs, two updates *)
(* have overlapped, one has failed after its commit, or there was a second *)
(* row, since the process has started.                                     *)
THEOREM CacheHolds == Spec => []CacheIsShown
<1>1. Init => SettingsInv
  <2> SUFFICES ASSUME Init PROVE SettingsInv
    OBVIOUS
  <2>1. rows = <<>> /\ cache = 0 /\ posts = [u \in Posts |-> NoPost]
    BY DEF Init, SettingsInit
  <2>2. PostsType
    BY <2>1 DEF PostsType, Working, NoPost
  <2>3. Serial
    BY <2>1 DEF Serial, Working, NoPost, Shown, Value
  <2> QED  BY <2>2, <2>3 DEF SettingsInv
<1>2. SettingsInv /\ [Next]_vars => SettingsInv'
  BY SettingsStep
<1>3. SettingsInv => CacheIsShown
  BY DEF SettingsInv, Serial, CacheIsShown, Working, NoPost
<1> QED  BY <1>1, <1>2, <1>3, PTL DEF Spec


-----------------------------------------------------------------------------
(* The webhooks, for every set of subscriptions and of administrators'     *)
(* requests.                                                               *)

Keys == {"url", "fields", "enabled"}

HookSet == [subscription : Subscriptions, url : {"expected", "former", "foreign"}, fields : BOOLEAN, enabled : BOOLEAN]

RequestSet == [id : 0 .. MaxHooks, keys : SUBSET Keys, hook : HookSet]

OpSet == [kind : {"none", "startup", "connect", "disconnect", "status"}, stage : 0 .. 4, todo : SUBSET RequestSet]

WebhookType ==
  /\ DOMAIN hooks \subseteq 1 .. MaxHooks
  /\ \A i \in DOMAIN hooks : hooks[i] \in HookSet
  /\ ops \in [Requests -> OpSet]
  /\ lock \in Requests \cup {0}
  /\ touched \in BOOLEAN
  /\ last \in {"none", "startup", "connect", "disconnect", "status"}
  /\ off \subseteq Subscriptions

(* The operation that holds the lock is the one under way, in a process    *)
(* that serves.                                                            *)
Locked ==
  /\ \A r \in Requests : ops[r].stage > 0 <=> lock = r
  /\ \A r \in Requests : ops[r].stage = 0 => ops[r].todo = {}
  /\ \A r \in Requests : ops[r].kind = "none" => ops[r].stage = 0
  /\ (part = "webhooks" /\ phase = "serving") \/ \A r \in Requests : ops[r] = Idle

Called(i, s) == hooks[i].url # "foreign" /\ hooks[i].subscription = s

Own(s) == \E i \in DOMAIN hooks : Called(i, s)

Unique ==
  \A i, j \in DOMAIN hooks :
    hooks[i].url # "foreign" /\ hooks[j].url # "foreign" /\ hooks[i].subscription = hooks[j].subscription => i = j

(* What an operation has still to send: a POST for a subscription without  *)
(* a webhook, one PUT per webhook, which never becomes another             *)
(* installation's and is enabled by connect only.                          *)
Queue(r) ==
  /\ \A q \in ops[r].todo : q.id = 0 =>
       /\ ops[r].kind \in {"startup", "connect"} /\ ~Own(q.hook.subscription)
       /\ q.hook = Hook(q.hook.subscription, "expected", TRUE, TRUE)
  /\ \A q \in ops[r].todo : q.id # 0 =>
       /\ q.hook.url # "foreign"
       /\ q.id \in DOMAIN hooks => hooks[q.id].url # "foreign"
       /\ "enabled" \in q.keys => ops[r].kind = "connect" \/ (ops[r].kind = "disconnect" /\ ~q.hook.enabled)
  /\ \A p, q \in ops[r].todo : p.id = q.id /\ (p.id # 0 \/ p.hook.subscription = q.hook.subscription) => p = q

(* The subscriptions of the lists the operation has read.                  *)
Seen(stage) == IF stage >= 3 THEN Subscriptions ELSE IF stage >= 1 THEN Entities ELSE {}

(* Until a user intervenes, what an operation has seen is as it should be  *)
(* or is about to be corrected.                                            *)
Progress(r) ==
  lock = r /\ ~touched /\ ops[r].kind # "status" =>
    /\ \A q \in ops[r].todo : q.id # 0 =>
         q.id \in DOMAIN hooks /\ Corrected(hooks[q.id], q) = Wanted(hooks[q.id], ops[r].kind)
    /\ \A i \in DOMAIN hooks : hooks[i].url # "foreign" /\ hooks[i].subscription \in Seen(ops[r].stage) =>
         hooks[i] = Wanted(hooks[i], ops[r].kind) \/ \E q \in ops[r].todo : q.id = i
    /\ ops[r].kind \in {"startup", "connect"} => \A s \in Seen(ops[r].stage) :
         Own(s) \/ \E q \in ops[r].todo : q.id = 0 /\ q.hook.subscription = s

(* What the operations that have ended promise.                            *)
Results ==
  /\ lock # 0 => last = "none"
  /\ \A r \in Requests : lock = r /\ ops[r].kind = "connect" => off = {}
  /\ last = "connect" => \A s \in Subscriptions : \E i \in DOMAIN hooks : hooks[i] = Hook(s, "expected", TRUE, TRUE)
  /\ \A i \in DOMAIN hooks : hooks[i].url # "foreign" /\ hooks[i].subscription \in off => ~hooks[i].enabled
  /\ \A s \in off : Own(s)

WebhookInv ==
  /\ WebhookType /\ Locked /\ Unique /\ Results
  /\ \A r \in Requests : Queue(r)
  /\ \A r \in Requests : Progress(r)

-----------------------------------------------------------------------------

(* The pure part: what a list of a webhook's keys means.                   *)
LEMMA KeysDiffer ==
  ASSUME NEW h \in HookSet, NEW w \in HookSet, NEW K, K = {k \in Keys : w[k] # h[k]}
  PROVE  /\ "url" \in K <=> w.url # h.url
         /\ "fields" \in K <=> w.fields # h.fields
         /\ "enabled" \in K <=> w.enabled # h.enabled
         /\ K \subseteq Keys
  BY DEF HookSet, Keys

(* What a handler wants of a subscription is a webhook of this installation. *)
LEMMA WantedIs ==
  ASSUME NEW h \in HookSet, NEW kind
  PROVE  /\ Wanted(h, kind) \in HookSet
         /\ Wanted(h, kind).subscription = h.subscription
         /\ h.url # "foreign" => Wanted(h, kind).url # "foreign"
         /\ kind \notin {"connect", "disconnect"} => Wanted(h, kind).enabled = h.enabled
         /\ kind = "disconnect" => ~Wanted(h, kind).enabled
         /\ kind = "connect" => Wanted(h, kind) = Hook(h.subscription, "expected", TRUE, TRUE)
         /\ Wanted(Wanted(h, kind), kind) = Wanted(h, kind)
<1>1. Wanted(h, kind) \in HookSet
  BY DEF HookSet, Wanted
<1>2. Wanted(h, kind).subscription = h.subscription /\ (h.url # "foreign" => Wanted(h, kind).url # "foreign")
  BY DEF HookSet, Wanted
<1>3. /\ kind \notin {"connect", "disconnect"} => Wanted(h, kind).enabled = h.enabled
      /\ kind = "disconnect" => ~Wanted(h, kind).enabled
  BY DEF HookSet, Wanted
<1>4. kind = "connect" => Wanted(h, kind) = Hook(h.subscription, "expected", TRUE, TRUE)
  <2> SUFFICES ASSUME kind = "connect" PROVE Wanted(h, kind) = Hook(h.subscription, "expected", TRUE, TRUE)
    OBVIOUS
  <2>1. Wanted(h, kind).url = "expected" /\ Wanted(h, kind).fields /\ Wanted(h, kind).enabled
    BY DEF HookSet, Wanted
  <2>2. PICK w \in HookSet : w = Wanted(h, kind)
    BY <1>1
  <2>3. w = Hook(h.subscription, "expected", TRUE, TRUE)
    BY <1>2, <2>1, <2>2 DEF HookSet, Hook
  <2> QED  BY <2>2, <2>3
<1>5. Wanted(Wanted(h, kind), kind) = Wanted(h, kind)
  BY DEF HookSet, Wanted
<1> QED  BY <1>1, <1>2, <1>3, <1>4, <1>5

(* A POST sends the webhook that is wanted.                              *)
LEMMA NewIsWanted ==
  ASSUME NEW s \in Subscriptions, NEW kind \in {"startup", "connect"}
  PROVE  Wanted(Hook(s, "expected", TRUE, TRUE), kind) = Hook(s, "expected", TRUE, TRUE)
<1> DEFINE hook == Hook(s, "expected", TRUE, TRUE)
<1>1. hook \in HookSet
  BY DEF Hook, HookSet
<1>2. hook.url = "expected" /\ hook.fields = TRUE /\ hook.enabled = TRUE
  BY DEF Hook
<1> HIDE DEF hook
<1>3. PICK w \in HookSet : w = Wanted(hook, kind) /\ w.subscription = hook.subscription
  BY <1>1, WantedIs
<1>4. w.url = "expected" /\ w.fields = TRUE /\ w.enabled = TRUE
  BY <1>1, <1>2, <1>3 DEF Wanted, HookSet
<1>5. w = hook
  BY <1>1, <1>2, <1>3, <1>4 DEF HookSet
<1> QED  BY <1>3, <1>5 DEF hook

(* A PUT of the keys that differ makes the webhook what is wanted of it.   *)
LEMMA PutCorrects ==
  ASSUME NEW h \in HookSet, NEW kind, NEW q, q.hook = Wanted(h, kind), q.keys = {k \in Keys : Wanted(h, kind)[k] # h[k]}
  PROVE  Corrected(h, q) = Wanted(h, kind)
<1>1. PICK w \in HookSet : w = Wanted(h, kind) /\ w.subscription = h.subscription
  BY WantedIs
<1>2. /\ "url" \in q.keys <=> w.url # h.url
      /\ "fields" \in q.keys <=> w.fields # h.fields
      /\ "enabled" \in q.keys <=> w.enabled # h.enabled
  BY <1>1, KeysDiffer
<1> QED  BY <1>1, <1>2 DEF Corrected, HookSet

(* A PUT changes the keys it names and no others.                        *)
LEMMA CorrectedIs ==
  ASSUME NEW h \in HookSet, NEW q \in RequestSet
  PROVE  /\ Corrected(h, q) \in HookSet
         /\ Corrected(h, q).subscription = h.subscription
         /\ h.url # "foreign" /\ q.hook.url # "foreign" => Corrected(h, q).url # "foreign"
         /\ "enabled" \notin q.keys => Corrected(h, q).enabled = h.enabled
         /\ "enabled" \in q.keys => Corrected(h, q).enabled = q.hook.enabled
<1>1. q.hook \in HookSet
  BY DEF RequestSet
<1> QED  BY <1>1 DEF HookSet, Corrected

(* The webhooks of this installation for a subscription are among those listed. *)
LEMMA OwnedIs ==
  ASSUME NEW S, WebhookType
  PROVE  /\ \A i : i \in Owned(S) <=> i \in DOMAIN hooks /\ hooks[i].url # "foreign" /\ hooks[i].subscription \in S
         /\ \A s : Owned({s}) = {} <=> ~Own(s)
  BY DEF Owned, BelongsToApp, Own, Called

-----------------------------------------------------------------------------
(* What an operation asks for when it has read a list.                     *)
LEMMA CreatesAre ==
  ASSUME WebhookType, NEW S \in SUBSET Subscriptions, NEW kind
  PROVE  /\ Creates(S, kind) \subseteq RequestSet
         /\ \A q \in Creates(S, kind) :
              /\ q.id = 0 /\ q.keys = {} /\ kind \in {"startup", "connect"} /\ ~Own(q.hook.subscription)
              /\ q.hook = Hook(q.hook.subscription, "expected", TRUE, TRUE)
         /\ kind \in {"startup", "connect"} => \A s \in S :
              Own(s) \/ \E q \in Creates(S, kind) : q.id = 0 /\ q.hook.subscription = s
<1> DEFINE Post(s) == [id |-> 0, keys |-> {}, hook |-> Hook(s, "expected", TRUE, TRUE)]
<1>1. \A s \in S : Post(s) \in RequestSet /\ Post(s).id = 0 /\ Post(s).keys = {}
                   /\ Post(s).hook = Hook(s, "expected", TRUE, TRUE) /\ Post(s).hook.subscription = s
  <2>1. 0 \in 0 .. MaxHooks
    BY WebhookAssumption
  <2> QED  BY <2>1 DEF RequestSet, HookSet, Hook, Keys
<1>2. CASE kind \notin {"startup", "connect"}
  BY <1>2 DEF Creates
<1>3. CASE kind \in {"startup", "connect"}
  <2>1. Creates(S, kind) = {Post(s) : s \in {t \in S : ~Own(t)}}
    <3>1. {t \in S : Owned({t}) = {}} = {t \in S : ~Own(t)}
      BY OwnedIs
    <3> QED  BY <1>3, <3>1 DEF Creates
  <2> HIDE DEF Post
  <2>2. \A q \in Creates(S, kind) : \E s \in S : ~Own(s) /\ q = Post(s)
    BY <2>1
  <2>3. \A s \in S : Own(s) \/ Post(s) \in Creates(S, kind)
    BY <2>1
  <2>4. Creates(S, kind) \subseteq RequestSet
    BY <1>1, <2>2
  <2>5. ASSUME NEW q \in Creates(S, kind)
        PROVE  /\ q.id = 0 /\ q.keys = {} /\ kind \in {"startup", "connect"} /\ ~Own(q.hook.subscription)
               /\ q.hook = Hook(q.hook.subscription, "expected", TRUE, TRUE)
    <3>1. PICK s \in S : ~Own(s) /\ q = Post(s)
      BY <2>2
    <3>2. q.hook.subscription = s
      BY <1>1, <3>1
    <3> QED  BY <1>1, <1>3, <3>1, <3>2
  <2>6. \A s \in S : Own(s) \/ \E q \in Creates(S, kind) : q.id = 0 /\ q.hook.subscription = s
    BY <1>1, <2>3
  <2> QED  BY <2>4, <2>5, <2>6
<1> QED  BY <1>2, <1>3

(* Each PUT of a list is for a listed webhook of this installation that is not as wanted. *)
LEMMA UpdatesAre ==
  ASSUME WebhookType, NEW S \in SUBSET Subscriptions, NEW kind
  PROVE  /\ Updates(S, kind) \subseteq RequestSet
         /\ \A q \in Updates(S, kind) :
              /\ q.id \in DOMAIN hooks /\ q.id # 0 /\ kind # "status"
              /\ hooks[q.id].url # "foreign" /\ hooks[q.id].subscription \in S
              /\ q.hook = Wanted(hooks[q.id], kind)
              /\ q.keys = {k \in Keys : Wanted(hooks[q.id], kind)[k] # hooks[q.id][k]}
         /\ \A p, q \in Updates(S, kind) : p.id = q.id => p = q
         /\ kind # "status" => \A i \in DOMAIN hooks : hooks[i].url # "foreign" /\ hooks[i].subscription \in S =>
              hooks[i] = Wanted(hooks[i], kind) \/ \E q \in Updates(S, kind) : q.id = i
<1> DEFINE D(i) == {k \in Keys : Wanted(hooks[i], kind)[k] # hooks[i][k]}
           Put(i) == [id |-> i, keys |-> D(i), hook |-> Wanted(hooks[i], kind)]
<1>1. Updates(S, kind) = {Put(i) : i \in {j \in Owned(S) : kind # "status" /\ D(j) # {}}}
  BY DEF Updates, Keys
<1>2. \A i : i \in Owned(S) <=> i \in DOMAIN hooks /\ hooks[i].url # "foreign" /\ hooks[i].subscription \in S
  BY OwnedIs
<1>3. \A i \in DOMAIN hooks : Put(i).id = i /\ Put(i).keys = D(i) /\ Put(i).hook = Wanted(hooks[i], kind)
  OBVIOUS
<1>4. \A i \in DOMAIN hooks : i # 0 /\ i \in 0 .. MaxHooks /\ D(i) \subseteq Keys /\ Wanted(hooks[i], kind) \in HookSet
  <2>1. \A i \in DOMAIN hooks : i \in 1 .. MaxHooks /\ hooks[i] \in HookSet
    BY DEF WebhookType
  <2>2. \A i \in DOMAIN hooks : Wanted(hooks[i], kind) \in HookSet
    BY <2>1, WantedIs
  <2>3. \A i \in 1 .. MaxHooks : i # 0 /\ i \in 0 .. MaxHooks
    BY WebhookAssumption
  <2>4. \A i : D(i) \subseteq Keys
    OBVIOUS
  <2> QED  BY <2>1, <2>2, <2>3, <2>4
<1>5. \A i \in DOMAIN hooks : Put(i) \in RequestSet
  BY <1>4 DEF RequestSet
<1>6. \A i \in DOMAIN hooks : D(i) = {} => hooks[i] = Wanted(hooks[i], kind)
  <2> SUFFICES ASSUME NEW i \in DOMAIN hooks, D(i) = {} PROVE hooks[i] = Wanted(hooks[i], kind)
    OBVIOUS
  <2>1. PICK h \in HookSet : h = hooks[i]
    BY DEF WebhookType
  <2>2. PICK w \in HookSet : w = Wanted(h, kind) /\ w.subscription = h.subscription
    BY WantedIs
  <2>3. w.url = h.url /\ w.fields = h.fields /\ w.enabled = h.enabled
    BY <2>1, <2>2, KeysDiffer
  <2> QED  BY <2>1, <2>2, <2>3 DEF HookSet
<1> HIDE DEF Put
<1>7. \A q \in Updates(S, kind) : \E i \in DOMAIN hooks :
        q = Put(i) /\ kind # "status" /\ hooks[i].url # "foreign" /\ hooks[i].subscription \in S
  BY <1>1, <1>2
<1>8. Updates(S, kind) \subseteq RequestSet
  BY <1>5, <1>7
<1>9. ASSUME NEW q \in Updates(S, kind)
      PROVE  /\ q.id \in DOMAIN hooks /\ q.id # 0 /\ kind # "status"
             /\ hooks[q.id].url # "foreign" /\ hooks[q.id].subscription \in S
             /\ q.hook = Wanted(hooks[q.id], kind)
             /\ q.keys = D(q.id)
  <2>1. PICK i \in DOMAIN hooks : q = Put(i) /\ kind # "status" /\ hooks[i].url # "foreign" /\ hooks[i].subscription \in S
    BY <1>7
  <2>2. q.id = i /\ q.keys = D(i) /\ q.hook = Wanted(hooks[i], kind) /\ i # 0
    BY <1>3, <1>4, <2>1
  <2> QED  BY <2>1, <2>2
<1>10. \A p, q \in Updates(S, kind) : p.id = q.id => p = q
  BY <1>3, <1>7
<1>11. ASSUME kind # "status", NEW i \in DOMAIN hooks, hooks[i].url # "foreign", hooks[i].subscription \in S
       PROVE  hooks[i] = Wanted(hooks[i], kind) \/ \E q \in Updates(S, kind) : q.id = i
  <2>1. CASE D(i) = {}
    BY <1>6, <2>1
  <2>2. CASE D(i) # {}
    <3>1. i \in Owned(S)
      BY <1>2, <1>11
    <3>2. Put(i) \in Updates(S, kind)
      BY <1>1, <1>11, <2>2, <3>1
    <3> QED  BY <1>3, <3>2
  <2> QED  BY <2>1, <2>2
<1> QED  BY <1>8, <1>9, <1>10, <1>11

(* A request of the queue of an operation that has read a list.            *)
Asked(S, kind) == Creates(S, kind) \cup Updates(S, kind)

(* What a list asks for is a set of requests of the right type.          *)
LEMMA AskedIs ==
  ASSUME WebhookType, NEW S \in SUBSET Subscriptions, NEW kind
  PROVE  /\ Asked(S, kind) \subseteq RequestSet
         /\ \A q \in Asked(S, kind) : q.id = 0 =>
              /\ kind \in {"startup", "connect"} /\ ~Own(q.hook.subscription)
              /\ q.hook = Hook(q.hook.subscription, "expected", TRUE, TRUE)
         /\ \A q \in Asked(S, kind) : q.id # 0 =>
              /\ q.hook.url # "foreign" /\ hooks[q.id].url # "foreign" /\ q.id \in DOMAIN hooks
              /\ "enabled" \in q.keys => kind = "connect" \/ (kind = "disconnect" /\ ~q.hook.enabled)
              /\ Corrected(hooks[q.id], q) = Wanted(hooks[q.id], kind)
         /\ \A p, q \in Asked(S, kind) : p.id = q.id /\ (p.id # 0 \/ p.hook.subscription = q.hook.subscription) => p = q
         /\ kind # "status" => \A i \in DOMAIN hooks : hooks[i].url # "foreign" /\ hooks[i].subscription \in S =>
              hooks[i] = Wanted(hooks[i], kind) \/ \E q \in Asked(S, kind) : q.id = i
         /\ kind \in {"startup", "connect"} => \A s \in S :
              Own(s) \/ \E q \in Asked(S, kind) : q.id = 0 /\ q.hook.subscription = s
<1> DEFINE todo == Asked(S, kind)
<1>1. /\ Creates(S, kind) \subseteq RequestSet
      /\ \A q \in Creates(S, kind) :
           /\ q.id = 0 /\ q.keys = {} /\ kind \in {"startup", "connect"} /\ ~Own(q.hook.subscription)
           /\ q.hook = Hook(q.hook.subscription, "expected", TRUE, TRUE)
      /\ kind \in {"startup", "connect"} => \A s \in S :
           Own(s) \/ \E q \in Creates(S, kind) : q.id = 0 /\ q.hook.subscription = s
  BY CreatesAre
<1>2. /\ Updates(S, kind) \subseteq RequestSet
      /\ \A q \in Updates(S, kind) :
           /\ q.id \in DOMAIN hooks /\ q.id # 0 /\ kind # "status"
           /\ hooks[q.id].url # "foreign" /\ hooks[q.id].subscription \in S
           /\ q.hook = Wanted(hooks[q.id], kind)
           /\ q.keys = {k \in Keys : Wanted(hooks[q.id], kind)[k] # hooks[q.id][k]}
      /\ \A p, q \in Updates(S, kind) : p.id = q.id => p = q
      /\ kind # "status" => \A i \in DOMAIN hooks : hooks[i].url # "foreign" /\ hooks[i].subscription \in S =>
           hooks[i] = Wanted(hooks[i], kind) \/ \E q \in Updates(S, kind) : q.id = i
  BY UpdatesAre
<1>a. todo = Creates(S, kind) \cup Updates(S, kind)
  BY DEF Asked
<1> HIDE DEF todo
<1>3. \A q \in todo : (q.id = 0 => q \in Creates(S, kind)) /\ (q.id # 0 => q \in Updates(S, kind))
  BY <1>1, <1>2, <1>a
<1>4. ASSUME NEW q \in todo, q.id # 0
      PROVE  /\ q.hook.url # "foreign" /\ hooks[q.id].url # "foreign" /\ q.id \in DOMAIN hooks
             /\ "enabled" \in q.keys => kind = "connect" \/ (kind = "disconnect" /\ ~q.hook.enabled)
             /\ Corrected(hooks[q.id], q) = Wanted(hooks[q.id], kind)
  <2>1. q \in Updates(S, kind)
    BY <1>3, <1>4
  <2>2. PICK h \in HookSet : h = hooks[q.id] /\ h.url # "foreign" /\ q.hook = Wanted(h, kind)
                             /\ q.keys = {k \in Keys : Wanted(h, kind)[k] # h[k]} /\ q.id \in DOMAIN hooks
    BY <1>2, <2>1 DEF WebhookType
  <2>3. PICK w \in HookSet : w = Wanted(h, kind) /\ w.url # "foreign"
                             /\ (kind \notin {"connect", "disconnect"} => w.enabled = h.enabled)
                             /\ (kind = "disconnect" => ~w.enabled)
    BY <2>2, WantedIs
  <2>4. "enabled" \in q.keys <=> w.enabled # h.enabled
    BY <2>2, <2>3, KeysDiffer
  <2>5. "enabled" \in q.keys => kind = "connect" \/ (kind = "disconnect" /\ ~q.hook.enabled)
    BY <2>2, <2>3, <2>4
  <2>6. Corrected(h, q) = Wanted(h, kind)
    BY <2>2, PutCorrects
  <2> QED  BY <2>2, <2>3, <2>5, <2>6
<1>5. \A p, q \in Creates(S, kind) : p.hook.subscription = q.hook.subscription => p = q
  <2> SUFFICES ASSUME NEW p \in Creates(S, kind), NEW q \in Creates(S, kind), p.hook.subscription = q.hook.subscription
               PROVE  p = q
    OBVIOUS
  <2>1. p \in RequestSet /\ q \in RequestSet
    BY <1>1
  <2>2. /\ p.id = 0 /\ p.keys = {} /\ p.hook = Hook(p.hook.subscription, "expected", TRUE, TRUE)
        /\ q.id = 0 /\ q.keys = {} /\ q.hook = Hook(q.hook.subscription, "expected", TRUE, TRUE)
    BY ONLY <1>1
  <2>3. \A m \in RequestSet : m = [id |-> m.id, keys |-> m.keys, hook |-> m.hook]
    BY DEF RequestSet
  <2> QED  BY <2>1, <2>2, <2>3
<1>6. \A p, q \in todo : p.id = q.id /\ (p.id # 0 \/ p.hook.subscription = q.hook.subscription) => p = q
  BY <1>2, <1>3, <1>5
<1>7. kind # "status" => \A i \in DOMAIN hooks : hooks[i].url # "foreign" /\ hooks[i].subscription \in S =>
        hooks[i] = Wanted(hooks[i], kind) \/ \E q \in todo : q.id = i
  BY <1>2, <1>a
<1>8. kind \in {"startup", "connect"} => \A s \in S :
        Own(s) \/ \E q \in todo : q.id = 0 /\ q.hook.subscription = s
  BY <1>1, <1>a
<1>9. \A q \in todo : q.id = 0 =>
        /\ kind \in {"startup", "connect"} /\ ~Own(q.hook.subscription)
        /\ q.hook = Hook(q.hook.subscription, "expected", TRUE, TRUE)
  BY <1>1, <1>3
<1>10. todo \subseteq RequestSet
  BY <1>1, <1>2, <1>a
<1> USE DEF todo
<1> QED  BY <1>4, <1>6, <1>7, <1>8, <1>9, <1>10

-----------------------------------------------------------------------------
(* The operations of administrators and of starts.                         *)
LEMMA Holder ==
  ASSUME WebhookInv, NEW r \in Requests
  PROVE  /\ r # 0 /\ ops[r] \in OpSet
         /\ ops[r].todo # {} => lock = r
         /\ lock = r => \A w \in Requests \ {r} : ops[w].stage = 0 /\ ops[w].todo = {}
  BY WebhookAssumption DEF WebhookInv, WebhookType, Locked, OpSet

(* A list is read: the operation asks for what it has found missing.       *)
LEMMA ListKeeps ==
  ASSUME WebhookInv, NEW r \in Requests, NEW S \in SUBSET Subscriptions, NEW stage \in 1 .. 4,
         NEW kind, kind = ops[r].kind, kind # "none",
         ops' = [ops EXCEPT ![r].stage = stage, ![r].todo = Asked(S, kind)],
         lock \in {0, r}, lock' = r, hooks' = hooks,
         kind # "status" => \A s \in Seen(stage) : s \in S \/
           (s \in Seen(ops[r].stage) /\ lock = r /\ ops[r].todo = {} /\ touched' = touched),
         part = "webhooks", phase = "serving", part' = part, phase' = phase
  PROVE  /\ ops' \in [Requests -> OpSet] /\ ops'[r].kind = kind
         /\ Locked'
         /\ \A w \in Requests : Queue(w)'
         /\ \A w \in Requests : Progress(w)'
<1>1. PICK todo : todo = Asked(S, kind)
  OBVIOUS
<1>2. WebhookType /\ ops \in [Requests -> OpSet] /\ ops[r] \in OpSet /\ S \in SUBSET Subscriptions
  BY DEF WebhookInv, WebhookType
<1>3. /\ todo \subseteq RequestSet
      /\ \A q \in todo : q.id = 0 =>
           /\ kind \in {"startup", "connect"} /\ ~Own(q.hook.subscription)
           /\ q.hook = Hook(q.hook.subscription, "expected", TRUE, TRUE)
      /\ \A q \in todo : q.id # 0 =>
           /\ q.hook.url # "foreign" /\ hooks[q.id].url # "foreign" /\ q.id \in DOMAIN hooks
           /\ "enabled" \in q.keys => kind = "connect" \/ (kind = "disconnect" /\ ~q.hook.enabled)
           /\ Corrected(hooks[q.id], q) = Wanted(hooks[q.id], kind)
      /\ \A p, q \in todo : p.id = q.id /\ (p.id # 0 \/ p.hook.subscription = q.hook.subscription) => p = q
      /\ kind # "status" => \A i \in DOMAIN hooks : hooks[i].url # "foreign" /\ hooks[i].subscription \in S =>
           hooks[i] = Wanted(hooks[i], kind) \/ \E q \in todo : q.id = i
      /\ kind \in {"startup", "connect"} => \A s \in S :
           Own(s) \/ \E q \in todo : q.id = 0 /\ q.hook.subscription = s
  <2>1. Asked(S, kind) \subseteq RequestSet
    BY ONLY <1>2, AskedIs
  <2>2. \A q \in Asked(S, kind) : q.id = 0 =>
          /\ kind \in {"startup", "connect"} /\ ~Own(q.hook.subscription)
          /\ q.hook = Hook(q.hook.subscription, "expected", TRUE, TRUE)
    BY ONLY <1>2, AskedIs
  <2>3. \A q \in Asked(S, kind) : q.id # 0 =>
          /\ q.hook.url # "foreign" /\ hooks[q.id].url # "foreign" /\ q.id \in DOMAIN hooks
          /\ "enabled" \in q.keys => kind = "connect" \/ (kind = "disconnect" /\ ~q.hook.enabled)
          /\ Corrected(hooks[q.id], q) = Wanted(hooks[q.id], kind)
    BY ONLY <1>2, AskedIs
  <2>4. \A p, q \in Asked(S, kind) : p.id = q.id /\ (p.id # 0 \/ p.hook.subscription = q.hook.subscription) => p = q
    BY ONLY <1>2, AskedIs
  <2>5. kind # "status" => \A i \in DOMAIN hooks : hooks[i].url # "foreign" /\ hooks[i].subscription \in S =>
          hooks[i] = Wanted(hooks[i], kind) \/ \E q \in Asked(S, kind) : q.id = i
    BY ONLY <1>2, AskedIs
  <2>6. kind \in {"startup", "connect"} => \A s \in S :
          Own(s) \/ \E q \in Asked(S, kind) : q.id = 0 /\ q.hook.subscription = s
    BY ONLY <1>2, AskedIs
  <2> QED  BY <1>1, <2>1, <2>2, <2>3, <2>4, <2>5, <2>6
<1>4. /\ ops'[r].kind = kind /\ ops'[r].stage = stage /\ ops'[r].todo = todo
      /\ \A w \in Requests \ {r} : ops'[w] = ops[w]
  BY <1>1, <1>2 DEF OpSet
<1>5. ops' \in [Requests -> OpSet]
  <2>1. kind \in {"none", "startup", "connect", "disconnect", "status"} /\ stage \in 0 .. 4
    BY <1>2 DEF OpSet
  <2>2. [kind |-> kind, stage |-> stage, todo |-> todo] \in OpSet
    BY <1>3, <2>1 DEF OpSet
  <2>3. ops'[r] = [kind |-> kind, stage |-> stage, todo |-> todo]
    BY <1>1, <1>2 DEF OpSet
  <2>4. ops' = [w \in Requests |-> ops'[w]]
    BY <1>2
  <2>5. \A w \in Requests : ops'[w] \in OpSet
    BY <1>2, <1>4, <2>2, <2>3
  <2> QED  BY <2>4, <2>5
<1>6. \A w \in Requests \ {r} : ops[w].stage = 0 /\ ops[w].todo = {} /\ lock # w
  BY Holder, WebhookAssumption DEF WebhookInv, Locked, WebhookType, OpSet
<1>7. Locked'
  <2>1. \A w \in Requests : ops'[w].stage > 0 <=> lock' = w
    <3>1. stage > 0 /\ ~(0 > 0)
      OBVIOUS
    <3>2. \A w \in Requests \ {r} : ops'[w].stage = 0 /\ lock' # w
      BY <1>4, <1>6
    <3> QED  BY <1>4, <3>1, <3>2
  <2>2. \A w \in Requests : ops'[w].stage = 0 => ops'[w].todo = {}
    <3>1. stage # 0
      OBVIOUS
    <3> QED  BY <1>4, <1>6, <3>1
  <2>3. \A w \in Requests : ops'[w].kind = "none" => ops'[w].stage = 0
    BY <1>4, <1>6
  <2> QED  BY <2>1, <2>2, <2>3 DEF Locked
<1>8. Queue(r)'
  <2>1. \A q \in todo : q.id = 0 =>
          /\ kind \in {"startup", "connect"} /\ ~Own(q.hook.subscription)'
          /\ q.hook = Hook(q.hook.subscription, "expected", TRUE, TRUE)
    BY <1>3 DEF Own, Called
  <2> QED  BY <1>3, <1>4, <2>1 DEF Queue
<1>9. ASSUME NEW w \in Requests, w # r PROVE Queue(w)' /\ Progress(w)'
  <2>1. ops'[w].todo = {}
    BY <1>4, <1>6, <1>9
  <2> QED  BY <1>9, <2>1 DEF Queue, Progress
<1>10. Progress(r)'
  <2>1. ASSUME ~touched', kind # "status", NEW i \in DOMAIN hooks, hooks[i].url # "foreign", hooks[i].subscription \in Seen(stage)
        PROVE  hooks[i] = Wanted(hooks[i], kind) \/ \E q \in todo : q.id = i
    <3>1. CASE hooks[i].subscription \in S
      BY <1>3, <2>1, <3>1
    <3>2. CASE hooks[i].subscription \notin S
      <4>1. hooks[i].subscription \in Seen(ops[r].stage) /\ lock = r /\ ops[r].todo = {} /\ ~touched
        BY <2>1, <3>2
      <4> QED  BY <2>1, <4>1 DEF WebhookInv, Progress
    <3> QED  BY <3>1, <3>2
  <2>2. ASSUME ~touched', kind \in {"startup", "connect"}, NEW s \in Seen(stage)
        PROVE  Own(s) \/ \E q \in todo : q.id = 0 /\ q.hook.subscription = s
    <3>1. CASE s \in S
      BY <1>3, <2>2, <3>1
    <3>2. CASE s \notin S
      <4>1. s \in Seen(ops[r].stage) /\ lock = r /\ ops[r].todo = {} /\ ~touched
        BY <2>2, <3>2
      <4> QED  BY <2>2, <4>1 DEF WebhookInv, Progress
    <3> QED  BY <3>1, <3>2
  <2>3. \A s : Own(s) => Own(s)'
    BY DEF Own, Called
  <2>4. \A q \in todo : q.id # 0 =>
          q.id \in DOMAIN hooks' /\ Corrected(hooks'[q.id], q) = Wanted(hooks'[q.id], kind)
    BY <1>3
  <2>5. ~touched' /\ kind # "status" =>
          \A i \in DOMAIN hooks' : hooks'[i].url # "foreign" /\ hooks'[i].subscription \in Seen(stage) =>
            hooks'[i] = Wanted(hooks'[i], kind) \/ \E q \in todo : q.id = i
    BY <2>1
  <2>6. ~touched' /\ kind \in {"startup", "connect"} =>
          \A s \in Seen(stage) : Own(s)' \/ \E q \in todo : q.id = 0 /\ q.hook.subscription = s
    BY <2>2, <2>3
  <2> QED  BY ONLY <1>4, <2>4, <2>5, <2>6 DEF Progress
<1> QED  BY <1>4, <1>5, <1>7, <1>8, <1>9, <1>10

(* registration_lock is taken by an operation that has sent nothing yet. *)
LEMMA AcquireKeeps ==
  ASSUME WebhookInv, NEW r \in Requests, Acquire(r), part = "webhooks", phase = "serving", part' = part, phase' = phase
  PROVE  WebhookInv'
<1>1. PICK kind : kind = ops[r].kind
  OBVIOUS
<1>2. /\ kind # "none" /\ lock = 0 /\ lock' = r /\ hooks' = hooks /\ ~touched' /\ last' = "none"
      /\ ops' = [ops EXCEPT ![r].stage = 1, ![r].todo = Asked(Entities, kind)]
      /\ off' = IF kind = "connect" THEN {} ELSE off
      /\ touched' \in BOOLEAN
  <2>1. ops[r].kind # "none"
    BY DEF Acquire, WebhookInv, Locked, WebhookType, OpSet, Idle
  <2> QED  BY <1>1, <2>1 DEF Acquire, Asked
<1>3. \A s \in Seen(1) : s \in Entities
  BY DEF Seen
<1>4. Entities \in SUBSET Subscriptions
  BY DEF Subscriptions
<1>5. /\ ops' \in [Requests -> OpSet] /\ ops'[r].kind = kind
      /\ Locked'
      /\ \A w \in Requests : Queue(w)'
      /\ \A w \in Requests : Progress(w)'
  <2>1. 1 \in 1 .. 4 /\ WebhookInv /\ r \in Requests /\ lock \in {0, r} /\ hooks' = hooks
        /\ part = "webhooks" /\ phase = "serving" /\ part' = part /\ phase' = phase
    BY <1>2
  <2> QED  BY ONLY <1>1, <1>2, <1>3, <1>4, <2>1, ListKeeps
<1>6. WebhookType' /\ Unique'
  BY <1>2, <1>5 DEF WebhookInv, WebhookType, Unique
<1>7. Results'
  BY <1>2, <1>5 DEF WebhookInv, Results, Own, Called
<1> QED  BY <1>5, <1>6, <1>7 DEF WebhookInv

(* The next list of an operation whose requests have all been answered.  *)
LEMMA NextListKeeps ==
  ASSUME WebhookInv, NEW r \in Requests, List(r), part = "webhooks", phase = "serving", part' = part, phase' = phase
  PROVE  WebhookInv'
<1>1. PICK kind : kind = ops[r].kind
  OBVIOUS
<1>2. PICK stage : stage = ops[r].stage + (IF kind = "status" THEN 2 ELSE 1)
  OBVIOUS
<1>3. /\ ops[r].stage \in 1 .. 3 /\ ops[r].todo = {} /\ stage <= 4 /\ stage \in 1 .. 4
      /\ ops' = [ops EXCEPT ![r].stage = stage, ![r].todo = Asked(Listed(stage), kind)]
      /\ UNCHANGED <<hooks, lock, outside, touched, last, off>>
  BY <1>1, <1>2 DEF List, Asked
<1>4. lock = r /\ kind # "none"
  BY <1>1, <1>3 DEF WebhookInv, Locked
<1>5. Listed(stage) \in SUBSET Subscriptions
  BY DEF Subscriptions, Listed
<1>6. kind # "status" => \A s \in Seen(stage) : s \in Listed(stage) \/ s \in Seen(ops[r].stage)
  BY <1>2, <1>3 DEF Seen, Listed, Subscriptions
<1>7. /\ ops' \in [Requests -> OpSet] /\ ops'[r].kind = kind
      /\ Locked'
      /\ \A w \in Requests : Queue(w)'
      /\ \A w \in Requests : Progress(w)'
  BY <1>1, <1>3, <1>4, <1>5, <1>6, ListKeeps
<1>8. WebhookType' /\ Unique'
  BY <1>3, <1>7 DEF WebhookInv, WebhookType, Unique
<1>9. Results'
  <2>1. \A w \in Requests : lock = w /\ ops'[w].kind = "connect" => off = {}
    BY <1>1, <1>4, <1>7 DEF WebhookInv, Results
  <2> QED  BY <1>3, <2>1 DEF WebhookInv, Results, Own, Called
<1> QED  BY <1>7, <1>8, <1>9 DEF WebhookInv

-----------------------------------------------------------------------------
(* What a POST makes.                                                      *)
LEMMA MadeIs ==
  ASSUME WebhookInv, NEW r \in Requests, NEW q \in ops[r].todo, q.id = 0, CanPerform(q), hooks' = Performed(q)
  PROVE  \E n \in 1 .. MaxHooks :
           /\ n \notin DOMAIN hooks /\ DOMAIN hooks' = DOMAIN hooks \cup {n} /\ hooks'[n] = q.hook
           /\ \A i \in DOMAIN hooks : hooks'[i] = hooks[i]
           /\ \A p \in ops[r].todo : p.id # n
<1>1. PICK n : n = CHOOSE i \in NewIds : TRUE
  OBVIOUS
<1>2. n \in NewIds
  BY <1>1 DEF CanPerform
<1>3. hooks' = [i \in DOMAIN hooks \cup {n} |-> IF i = n THEN q.hook ELSE hooks[i]]
  BY <1>1 DEF Performed
<1>4. n \in 1 .. MaxHooks /\ n \notin DOMAIN hooks /\ \A p \in ops[r].todo : p.id # n
  BY <1>2 DEF NewIds
<1> QED  BY <1>3, <1>4

(* What a PUT changes.                                                     *)
LEMMA PutIs ==
  ASSUME WebhookInv, NEW r \in Requests, NEW q \in ops[r].todo, q.id # 0, CanPerform(q), hooks' = Performed(q)
  PROVE  /\ q.id \in DOMAIN hooks /\ DOMAIN hooks' = DOMAIN hooks
         /\ hooks'[q.id] = Corrected(hooks[q.id], q)
         /\ \A i \in DOMAIN hooks \ {q.id} : hooks'[i] = hooks[i]
  BY DEF CanPerform, Performed

(* A webhook's subscription and its being this installation's do not       *)
(* change; a new one is the only one of its subscription.                  *)
LEMMA PerformedIs ==
  ASSUME WebhookInv, NEW r \in Requests, NEW q \in ops[r].todo, CanPerform(q), hooks' = Performed(q)
  PROVE  /\ DOMAIN hooks \subseteq DOMAIN hooks' /\ DOMAIN hooks' \subseteq 1 .. MaxHooks
         /\ \A i \in DOMAIN hooks' : hooks'[i] \in HookSet
         /\ \A i \in DOMAIN hooks : hooks'[i].subscription = hooks[i].subscription
         /\ \A i \in DOMAIN hooks : hooks[i].url # "foreign" <=> hooks'[i].url # "foreign"
         /\ \A i \in DOMAIN hooks' \ DOMAIN hooks : q.id = 0 /\ hooks'[i] = q.hook /\ \A p \in ops[r].todo : p.id # i
         /\ \A i, j \in DOMAIN hooks' \ DOMAIN hooks : i = j
<1>1. /\ DOMAIN hooks \subseteq 1 .. MaxHooks /\ \A i \in DOMAIN hooks : hooks[i] \in HookSet
      /\ q \in RequestSet /\ q.hook \in HookSet
  BY DEF WebhookInv, WebhookType, OpSet, RequestSet
<1>2. CASE q.id = 0
  <2>1. PICK n \in 1 .. MaxHooks :
           /\ n \notin DOMAIN hooks /\ DOMAIN hooks' = DOMAIN hooks \cup {n} /\ hooks'[n] = q.hook
           /\ \A i \in DOMAIN hooks : hooks'[i] = hooks[i]
           /\ \A p \in ops[r].todo : p.id # n
    BY <1>2, MadeIs
  <2> QED  BY ONLY <1>1, <1>2, <2>1
<1>3. CASE q.id # 0
  <2>1. /\ q.id \in DOMAIN hooks /\ DOMAIN hooks' = DOMAIN hooks
        /\ hooks'[q.id] = Corrected(hooks[q.id], q)
        /\ \A i \in DOMAIN hooks \ {q.id} : hooks'[i] = hooks[i]
    BY <1>3, PutIs
  <2>2. q.hook.url # "foreign" /\ hooks[q.id].url # "foreign"
    BY <1>3, <2>1 DEF WebhookInv, Queue
  <2>3. /\ Corrected(hooks[q.id], q) \in HookSet
        /\ Corrected(hooks[q.id], q).subscription = hooks[q.id].subscription
        /\ Corrected(hooks[q.id], q).url # "foreign"
    BY <1>1, <2>1, <2>2, CorrectedIs
  <2> QED  BY ONLY <1>1, <1>3, <2>1, <2>2, <2>3
<1> QED  BY <1>2, <1>3

(* A request that MoySklad performs leaves one webhook per subscription. *)
LEMMA PerformedKeeps ==
  ASSUME WebhookInv, NEW r \in Requests, NEW q \in ops[r].todo, CanPerform(q), hooks' = Performed(q)
  PROVE  /\ Unique'
         /\ \A s : Own(s) => Own(s)'
         /\ \A i \in DOMAIN hooks' : hooks'[i].url # "foreign" /\ hooks'[i].subscription \in off => ~hooks'[i].enabled
<1>1. /\ DOMAIN hooks \subseteq DOMAIN hooks'
      /\ \A i \in DOMAIN hooks : hooks'[i].subscription = hooks[i].subscription
      /\ \A i \in DOMAIN hooks : hooks[i].url # "foreign" <=> hooks'[i].url # "foreign"
      /\ \A i \in DOMAIN hooks' \ DOMAIN hooks : q.id = 0 /\ hooks'[i] = q.hook
      /\ \A i, j \in DOMAIN hooks' \ DOMAIN hooks : i = j
  BY PerformedIs
<1>2. q.id = 0 => \A i \in DOMAIN hooks : hooks[i].url = "foreign" \/ hooks[i].subscription # q.hook.subscription
  BY DEF WebhookInv, Queue, Own, Called
<1>3. Unique'
  <2>1. \A i, j \in DOMAIN hooks :
          hooks[i].url # "foreign" /\ hooks[j].url # "foreign" /\ hooks[i].subscription = hooks[j].subscription => i = j
    BY DEF WebhookInv, Unique
  <2> QED  BY ONLY <1>1, <1>2, <2>1 DEF Unique
<1>4. \A s : Own(s) => Own(s)'
  BY ONLY <1>1 DEF Own, Called
<1>5. ASSUME NEW i \in DOMAIN hooks', hooks'[i].url # "foreign", hooks'[i].subscription \in off
      PROVE  ~hooks'[i].enabled
  <2>1. CASE i \notin DOMAIN hooks
    <3>1. q.id = 0 /\ q.hook.subscription \in off
      BY <1>1, <1>5, <2>1
    <3> QED  BY <3>1 DEF WebhookInv, Queue, Results
  <2>2. CASE i \in DOMAIN hooks
    <3>1. ~hooks[i].enabled /\ hooks[i] \in HookSet
      BY <1>1, <1>5, <2>2 DEF WebhookInv, Results, WebhookType
    <3>2. CASE q.id = 0 \/ q.id # i
      BY <2>2, <3>1, <3>2, MadeIs, PutIs
    <3>3. CASE q.id # 0 /\ q.id = i
      <4>1. hooks'[i] = Corrected(hooks[i], q)
        BY <3>3, PutIs
      <4>2. q \in RequestSet
        BY DEF WebhookInv, WebhookType, OpSet
      <4>3. CASE "enabled" \notin q.keys
        BY <3>1, <4>1, <4>2, <4>3, CorrectedIs
      <4>4. CASE "enabled" \in q.keys
        <5>1. ops[r].kind = "connect" \/ ~q.hook.enabled
          BY <3>3, <4>4 DEF WebhookInv, Queue
        <5>2. ops[r].kind # "connect"
          BY <1>5, Holder DEF WebhookInv, Results
        <5>3. Corrected(hooks[i], q).enabled = q.hook.enabled
          BY <3>1, <4>2, <4>4, CorrectedIs
        <5> QED  BY <4>1, <5>1, <5>2, <5>3
      <4> QED  BY <4>3, <4>4
    <3> QED  BY <3>2, <3>3
  <2> QED  BY <2>1, <2>2
<1> QED  BY <1>3, <1>4, <1>5

(* A request is answered: the operation has one less to send.              *)
LEMMA SendKeeps ==
  ASSUME WebhookInv, NEW r \in Requests, NEW q \in ops[r].todo, CanPerform(q), hooks' = Performed(q),
         ops' = [ops EXCEPT ![r].todo = @ \ {q}], UNCHANGED <<lock, touched, last, off, part, phase>>
  PROVE  WebhookInv'
<1>1. /\ ops \in [Requests -> OpSet] /\ ops[r] \in OpSet /\ q \in RequestSet
  BY DEF WebhookInv, WebhookType, OpSet
<1>2. /\ ops'[r].todo = ops[r].todo \ {q} /\ ops'[r].kind = ops[r].kind /\ ops'[r].stage = ops[r].stage
      /\ \A w \in Requests \ {r} : ops'[w] = ops[w]
  BY <1>1 DEF OpSet
<1>3. ops' \in [Requests -> OpSet]
  BY <1>1 DEF OpSet
<1>4. /\ DOMAIN hooks \subseteq DOMAIN hooks' /\ DOMAIN hooks' \subseteq 1 .. MaxHooks
      /\ \A i \in DOMAIN hooks' : hooks'[i] \in HookSet
      /\ \A i \in DOMAIN hooks : hooks'[i].subscription = hooks[i].subscription
      /\ \A i \in DOMAIN hooks : hooks[i].url # "foreign" <=> hooks'[i].url # "foreign"
      /\ \A i \in DOMAIN hooks' \ DOMAIN hooks : q.id = 0 /\ hooks'[i] = q.hook /\ \A p \in ops[r].todo : p.id # i
  BY PerformedIs
<1>5. /\ Unique'
      /\ \A s : Own(s) => Own(s)'
      /\ \A i \in DOMAIN hooks' : hooks'[i].url # "foreign" /\ hooks'[i].subscription \in off => ~hooks'[i].enabled
  BY PerformedKeeps
<1>6. lock = r /\ r # 0 /\ \A w \in Requests \ {r} : ops[w].stage = 0 /\ ops[w].todo = {}
  BY Holder
<1>7. WebhookType'
  BY <1>3, <1>4 DEF WebhookInv, WebhookType
<1>8. Locked'
  <2>1. (part = "webhooks" /\ phase = "serving")
    BY DEF WebhookInv, Locked, Idle
  <2>2. \A w \in Requests : ops'[w].stage = ops[w].stage /\ ops'[w].kind = ops[w].kind
    BY <1>2
  <2>3. \A w \in Requests : ops[w].stage = 0 => ops'[w].todo = {}
    BY <1>2 DEF WebhookInv, Locked
  <2> QED  BY <2>1, <2>2, <2>3 DEF WebhookInv, Locked
<1>9. Results'
  <2>1. last = "none"
    BY <1>6 DEF WebhookInv, Results
  <2>2. \A w \in Requests : ops'[w].kind = ops[w].kind
    BY <1>2
  <2> QED  BY <1>5, <2>1, <2>2 DEF WebhookInv, Results
<1>10. ASSUME NEW p \in ops[r].todo \ {q}, p.id = 0
       PROVE  /\ ops[r].kind \in {"startup", "connect"} /\ ~Own(p.hook.subscription)'
              /\ p.hook = Hook(p.hook.subscription, "expected", TRUE, TRUE)
  <2>1. q.id = 0 => p.hook.subscription # q.hook.subscription
    BY <1>10 DEF WebhookInv, Queue
  <2>2. /\ ops[r].kind \in {"startup", "connect"} /\ p.hook = Hook(p.hook.subscription, "expected", TRUE, TRUE)
        /\ \A i \in DOMAIN hooks : hooks[i].url = "foreign" \/ hooks[i].subscription # p.hook.subscription
    BY <1>10 DEF WebhookInv, Queue, Own, Called
  <2> QED  BY ONLY <1>4, <2>1, <2>2 DEF Own, Called
<1>11. ASSUME NEW p \in ops[r].todo \ {q}, p.id # 0
       PROVE  /\ p.hook.url # "foreign"
              /\ p.id \in DOMAIN hooks' => hooks'[p.id].url # "foreign"
              /\ "enabled" \in p.keys => ops[r].kind = "connect" \/ (ops[r].kind = "disconnect" /\ ~p.hook.enabled)
  <2>1. /\ p.hook.url # "foreign"
        /\ p.id \in DOMAIN hooks => hooks[p.id].url # "foreign"
        /\ "enabled" \in p.keys => ops[r].kind = "connect" \/ (ops[r].kind = "disconnect" /\ ~p.hook.enabled)
    BY <1>11 DEF WebhookInv, Queue
  <2>2. p.id \in DOMAIN hooks' => p.id \in DOMAIN hooks
    BY <1>4
  <2> QED  BY <1>4, <2>1, <2>2
<1>12. ASSUME NEW w \in Requests PROVE Queue(w)'
  <2>1. CASE w # r
    <3>1. ops'[w].todo = {}
      BY <1>2, <1>6, <2>1
    <3> QED  BY <3>1 DEF Queue
  <2>2. CASE w = r
    <3>1. \A p1, p2 \in ops[r].todo : p1.id = p2.id /\ (p1.id # 0 \/ p1.hook.subscription = p2.hook.subscription) => p1 = p2
      BY DEF WebhookInv, Queue
    <3> QED  BY ONLY <1>2, <1>10, <1>11, <2>2, <3>1 DEF Queue
  <2> QED  BY <2>1, <2>2
<1>13. ASSUME ~touched, ops[r].kind # "status", NEW p \in ops[r].todo \ {q}, p.id # 0
       PROVE  p.id \in DOMAIN hooks' /\ Corrected(hooks'[p.id], p) = Wanted(hooks'[p.id], ops[r].kind)
  <2>1. p.id \in DOMAIN hooks /\ Corrected(hooks[p.id], p) = Wanted(hooks[p.id], ops[r].kind)
    BY <1>6, <1>13 DEF WebhookInv, Progress
  <2>2. q.id # 0 => p.id # q.id
    BY <1>13 DEF WebhookInv, Queue
  <2>3. hooks'[p.id] = hooks[p.id]
    BY <2>1, <2>2, MadeIs, PutIs
  <2> QED  BY <1>4, <2>1, <2>3
<1>14. ASSUME ~touched, ops[r].kind # "status", NEW i \in DOMAIN hooks', hooks'[i].url # "foreign",
              hooks'[i].subscription \in Seen(ops[r].stage)
       PROVE  hooks'[i] = Wanted(hooks'[i], ops[r].kind) \/ \E p \in ops[r].todo \ {q} : p.id = i
  <2>1. CASE i \notin DOMAIN hooks
    <3>1. /\ hooks'[i] = Hook(q.hook.subscription, "expected", TRUE, TRUE)
          /\ ops[r].kind \in {"startup", "connect"}
      BY <1>4, <2>1 DEF WebhookInv, Queue
    <3>2. q.hook.subscription \in Subscriptions
      BY <1>1 DEF RequestSet, HookSet
    <3> QED  BY <3>1, <3>2, NewIsWanted
  <2>2. CASE i \in DOMAIN hooks /\ q.id = i
    <3>1. q.id # 0
      BY <2>2, WebhookAssumption DEF WebhookInv, WebhookType
    <3>2. hooks'[i] = Corrected(hooks[i], q) /\ Corrected(hooks[i], q) = Wanted(hooks[i], ops[r].kind) /\ hooks[i] \in HookSet
      BY <1>6, <1>14, <2>2, <3>1, PutIs DEF WebhookInv, Progress, WebhookType
    <3>3. PICK h \in HookSet : h = hooks[i]
      BY <3>2
    <3>4. PICK kind : kind = ops[r].kind
      OBVIOUS
    <3>5. Wanted(Wanted(h, kind), kind) = Wanted(h, kind)
      BY WantedIs
    <3> QED  BY ONLY <3>2, <3>3, <3>4, <3>5
  <2>3. CASE i \in DOMAIN hooks /\ q.id # i
    <3>1. hooks'[i] = hooks[i]
      BY <2>3, MadeIs, PutIs
    <3>2. hooks[i] = Wanted(hooks[i], ops[r].kind) \/ \E p \in ops[r].todo : p.id = i
      BY <1>6, <1>14, <2>3, <3>1 DEF WebhookInv, Progress
    <3>3. CASE \E p \in ops[r].todo : p.id = i
      BY <2>3, <3>3
    <3>4. CASE hooks[i] = Wanted(hooks[i], ops[r].kind)
      BY <3>1, <3>4
    <3> QED  BY <3>2, <3>3, <3>4
  <2> QED  BY <2>1, <2>2, <2>3
<1>15. ASSUME ~touched, ops[r].kind \in {"startup", "connect"}, NEW s \in Seen(ops[r].stage)
       PROVE  Own(s)' \/ \E p \in ops[r].todo \ {q} : p.id = 0 /\ p.hook.subscription = s
  <2>1. Own(s) \/ \E p \in ops[r].todo : p.id = 0 /\ p.hook.subscription = s
    BY <1>6, <1>15 DEF WebhookInv, Progress
  <2>2. CASE q.id = 0 /\ q.hook.subscription = s
    <3>1. PICK n \in 1 .. MaxHooks : DOMAIN hooks' = DOMAIN hooks \cup {n} /\ hooks'[n] = q.hook
      BY <2>2, MadeIs
    <3>2. q.hook.url = "expected"
      <4>1. Hook(q.hook.subscription, "expected", TRUE, TRUE).url = "expected"
        BY DEF Hook
      <4>2. q.hook = Hook(q.hook.subscription, "expected", TRUE, TRUE)
        BY <2>2 DEF WebhookInv, Queue
      <4> QED  BY <4>1, <4>2
    <3> QED  BY <2>2, <3>1, <3>2 DEF Own, Called
  <2> QED  BY <1>5, <2>1, <2>2
<1>16. ASSUME NEW w \in Requests PROVE Progress(w)'
  <2>1. CASE w # r
    BY <1>6, <2>1 DEF Progress
  <2>2. CASE w = r
    <3>1. touched' = touched
      OBVIOUS
    <3> QED  BY ONLY <1>2, <1>13, <1>14, <1>15, <2>2, <3>1 DEF Progress
  <2> QED  BY <2>1, <2>2
<1> QED  BY <1>5, <1>7, <1>8, <1>9, <1>12, <1>16 DEF WebhookInv

(* An operation ends.                                                      *)
LEMMA Released ==
  ASSUME WebhookInv, NEW r \in Requests, ops[r].stage > 0, Release(r)
  PROVE  /\ lock = r /\ lock' = 0 /\ last = "none" /\ part = "webhooks" /\ phase = "serving"
         /\ ops' = [ops EXCEPT ![r] = Idle]
         /\ \A w \in Requests : ops'[w].stage = 0 /\ ops'[w].todo = {} /\ w # 0
         /\ ops' \in [Requests -> OpSet]
         /\ \A w \in Requests : (ops'[w].stage > 0 <=> lock' = w) /\ (ops'[w].kind = "none" => ops'[w].stage = 0)
         /\ \A w \in Requests : Queue(w)'
         /\ \A w \in Requests : Progress(w)'
<1>1. lock = r /\ r # 0 /\ ops \in [Requests -> OpSet]
  BY WebhookAssumption DEF WebhookInv, Locked, WebhookType
<1>2. lock' = 0 /\ last = "none"
  BY <1>1 DEF Release, WebhookInv, Results
<1>3. part = "webhooks" /\ phase = "serving"
  BY DEF WebhookInv, Locked, Idle
<1>4. ops' = [ops EXCEPT ![r] = Idle] /\ Idle \in OpSet /\ Idle.stage = 0 /\ Idle.todo = {}
  BY DEF Release, Idle, OpSet
<1>5. \A w \in Requests : ops'[w].stage = 0 /\ ops'[w].todo = {} /\ w # 0
  BY <1>1, <1>4, Holder
<1>6. ops' \in [Requests -> OpSet]
  BY <1>1, <1>4
<1>7. \A w \in Requests : (ops'[w].stage > 0 <=> lock' = w) /\ (ops'[w].kind = "none" => ops'[w].stage = 0)
  BY <1>2, <1>5
<1>8. \A w \in Requests : Queue(w)'
  BY <1>5 DEF Queue
<1>9. \A w \in Requests : Progress(w)'
  BY <1>2, <1>5 DEF Progress
<1> QED  BY <1>1, <1>2, <1>3, <1>4, <1>5, <1>6, <1>7, <1>8, <1>9

(* A request that fails ends its operation and releases the lock.        *)
LEMMA RequestFailsKeeps ==
  ASSUME WebhookInv, NEW r \in Requests, RequestFails(r), UNCHANGED <<part, phase>>
  PROVE  WebhookInv'
<1>1. ops[r].stage > 0 /\ Release(r) /\ UNCHANGED <<touched, last, off>>
  BY DEF RequestFails
<1>2. hooks' = hooks \/ \E q \in ops[r].todo : CanPerform(q) /\ hooks' = Performed(q)
  BY DEF RequestFails
<1>3. /\ lock' = 0 /\ last = "none" /\ part = "webhooks" /\ phase = "serving"
      /\ \A w \in Requests : ops'[w].stage = 0 /\ ops'[w].todo = {} /\ w # 0
      /\ ops' \in [Requests -> OpSet]
      /\ \A w \in Requests : (ops'[w].stage > 0 <=> lock' = w) /\ (ops'[w].kind = "none" => ops'[w].stage = 0)
      /\ \A w \in Requests : Queue(w)'
      /\ \A w \in Requests : Progress(w)'
  BY <1>1, Released
<1>4. /\ DOMAIN hooks' \subseteq 1 .. MaxHooks
      /\ \A i \in DOMAIN hooks' : hooks'[i] \in HookSet
  BY <1>2, PerformedIs DEF WebhookInv, WebhookType
<1>5. /\ Unique'
      /\ \A s : Own(s) => Own(s)'
      /\ \A i \in DOMAIN hooks' : hooks'[i].url # "foreign" /\ hooks'[i].subscription \in off => ~hooks'[i].enabled
  <2>1. CASE hooks' = hooks
    BY <2>1 DEF WebhookInv, Unique, Results, Own, Called
  <2>2. CASE \E q \in ops[r].todo : CanPerform(q) /\ hooks' = Performed(q)
    BY <2>2, PerformedKeeps
  <2> QED  BY <1>2, <2>1, <2>2
<1>6. WebhookType'
  BY <1>1, <1>3, <1>4 DEF WebhookInv, WebhookType
<1>7. Locked'
  BY <1>3 DEF Locked
<1>8. Results'
  BY <1>1, <1>3, <1>5 DEF WebhookInv, Results
<1> QED  BY <1>3, <1>5, <1>6, <1>7, <1>8 DEF WebhookInv

(* What an operation that ends leaves is what it was asked for.            *)
LEMMA DoneKeeps ==
  ASSUME WebhookInv, NEW r \in Requests, Done(r), UNCHANGED <<part, phase>>
  PROVE  WebhookInv'
<1>1. /\ ops[r].stage \in (IF ops[r].kind = "status" THEN {3} ELSE {4}) /\ ops[r].todo = {}
      /\ last' = IF touched THEN "none" ELSE ops[r].kind
      /\ off' = IF ops[r].kind # "disconnect" \/ touched THEN off ELSE {s \in Subscriptions : Owned({s}) # {}}
      /\ Release(r) /\ hooks' = hooks /\ touched' = touched
  BY DEF Done
<1>2. ops[r].stage > 0 /\ Seen(ops[r].stage) = Subscriptions
  BY <1>1 DEF Seen
<1>3. /\ lock = r /\ lock' = 0 /\ last = "none" /\ part = "webhooks" /\ phase = "serving"
      /\ \A w \in Requests : ops'[w].stage = 0 /\ ops'[w].todo = {} /\ w # 0
      /\ ops' \in [Requests -> OpSet]
      /\ \A w \in Requests : (ops'[w].stage > 0 <=> lock' = w) /\ (ops'[w].kind = "none" => ops'[w].stage = 0)
      /\ \A w \in Requests : Queue(w)'
      /\ \A w \in Requests : Progress(w)'
  BY <1>1, <1>2, Released
<1>4. WebhookType /\ ops[r] \in OpSet
  BY DEF WebhookInv, WebhookType
<1>5. \A s : Own(s)' <=> Own(s)
  BY <1>1 DEF Own, Called
<1>6. ~touched /\ ops[r].kind # "status" => \A i \in DOMAIN hooks : hooks[i].url # "foreign" /\ hooks[i].subscription \in Subscriptions =>
        hooks[i] = Wanted(hooks[i], ops[r].kind)
  BY <1>1, <1>2, <1>3 DEF WebhookInv, Progress
<1>7. \A i \in DOMAIN hooks : hooks[i] \in HookSet /\ hooks[i].subscription \in Subscriptions
  BY <1>4 DEF WebhookType, HookSet
<1>8. WebhookType'
  <2>1. off' \subseteq Subscriptions
    BY <1>1, <1>4 DEF WebhookType
  <2>2. last' \in {"none", "startup", "connect", "disconnect", "status"}
    BY <1>1, <1>4 DEF OpSet
  <2> QED  BY <1>1, <1>3, <1>4, <2>1, <2>2 DEF WebhookType
<1>9. Locked'
  BY <1>3 DEF Locked
<1>10. Unique'
  BY <1>1 DEF WebhookInv, Unique
<1>11. ASSUME last' = "connect", NEW s \in Subscriptions
       PROVE  \E i \in DOMAIN hooks : hooks[i] = Hook(s, "expected", TRUE, TRUE)
  <2>1. ~touched /\ ops[r].kind = "connect"
    BY <1>1, <1>11
  <2>2. Own(s)
    BY <1>1, <1>2, <1>3, <2>1 DEF WebhookInv, Progress
  <2>3. PICK i \in DOMAIN hooks : hooks[i].url # "foreign" /\ hooks[i].subscription = s
    BY <2>2 DEF Own, Called
  <2>4. hooks[i] = Wanted(hooks[i], "connect")
    BY <1>6, <1>7, <2>1, <2>3
  <2> QED  BY <1>7, <2>3, <2>4, WantedIs
<1>12. ASSUME NEW i \in DOMAIN hooks, hooks[i].url # "foreign", hooks[i].subscription \in off'
       PROVE  ~hooks[i].enabled
  <2>1. CASE ops[r].kind # "disconnect" \/ touched
    BY <1>1, <1>12, <2>1 DEF WebhookInv, Results
  <2>2. CASE ops[r].kind = "disconnect" /\ ~touched
    <3>1. hooks[i] = Wanted(hooks[i], "disconnect")
      BY <1>6, <1>7, <1>12, <2>2
    <3> QED  BY <1>7, <3>1, WantedIs
  <2> QED  BY <2>1, <2>2
<1>13. ASSUME NEW s \in off' PROVE Own(s)
  <2>1. CASE ops[r].kind # "disconnect" \/ touched
    BY <1>1, <1>13, <2>1 DEF WebhookInv, Results
  <2>2. CASE ops[r].kind = "disconnect" /\ ~touched
    BY <1>1, <1>4, <1>13, <2>2, OwnedIs
  <2> QED  BY <2>1, <2>2
<1>14. Results'
  BY <1>1, <1>3, <1>5, <1>11, <1>12, <1>13 DEF Results
<1> QED  BY <1>3, <1>8, <1>9, <1>10, <1>14 DEF WebhookInv

(* A user of MoySklad changes or deletes a webhook.                        *)
LEMMA UserKeeps ==
  ASSUME WebhookInv, User, UNCHANGED <<part, phase>>
  PROVE  WebhookInv'
<1>1. touched' = TRUE /\ last' = "none" /\ ops' = ops /\ lock' = lock
  BY DEF User
<1>2. PICK id \in DOMAIN hooks :
        /\ \/ hooks' = [hooks EXCEPT ![id].enabled = ~@]
           \/ hooks' = [i \in DOMAIN hooks \ {id} |-> hooks[i]]
        /\ off' = off \ {hooks[id].subscription}
  BY DEF User
<1>3. \A i \in DOMAIN hooks : hooks[i] \in HookSet /\ i \in 1 .. MaxHooks
  BY DEF WebhookInv, WebhookType
<1>4. /\ DOMAIN hooks' \subseteq DOMAIN hooks /\ \A i \in DOMAIN hooks \ {id} : i \in DOMAIN hooks' /\ hooks'[i] = hooks[i]
      /\ \A i \in DOMAIN hooks' :
           hooks'[i] \in HookSet /\ hooks'[i].url = hooks[i].url /\ hooks'[i].subscription = hooks[i].subscription
  <2>1. CASE hooks' = [hooks EXCEPT ![id].enabled = ~@]
    <3>1. [hooks[id] EXCEPT !.enabled = ~@] \in HookSet /\ [hooks[id] EXCEPT !.enabled = ~@].url = hooks[id].url
          /\ [hooks[id] EXCEPT !.enabled = ~@].subscription = hooks[id].subscription
      BY <1>3 DEF HookSet
    <3>2. DOMAIN hooks' = DOMAIN hooks /\ hooks'[id] = [hooks[id] EXCEPT !.enabled = ~@]
          /\ \A i \in DOMAIN hooks \ {id} : hooks'[i] = hooks[i]
      BY <2>1
    <3> QED  BY <1>3, <3>1, <3>2
  <2>2. CASE hooks' = [i \in DOMAIN hooks \ {id} |-> hooks[i]]
    BY <1>3, <2>2
  <2> QED  BY <1>2, <2>1, <2>2
<1>5. \A s : Own(s)' => Own(s)
  BY ONLY <1>4 DEF Own, Called
<1>6. \A s : s # hooks[id].subscription /\ Own(s) => Own(s)'
  BY ONLY <1>2, <1>4 DEF Own, Called
<1>7. WebhookType'
  BY <1>1, <1>2, <1>3, <1>4 DEF WebhookInv, WebhookType
<1>8. Locked'
  BY <1>1 DEF WebhookInv, Locked
<1>9. Unique'
  BY <1>4 DEF WebhookInv, Unique
<1>10. Results'
  <2>1. \A i \in DOMAIN hooks' : hooks'[i].url # "foreign" /\ hooks'[i].subscription \in off' => ~hooks'[i].enabled
    BY <1>2, <1>4 DEF WebhookInv, Results
  <2>2. \A s \in off' : Own(s)'
    BY <1>2, <1>6 DEF WebhookInv, Results
  <2>3. \A r \in Requests : lock = r /\ ops[r].kind = "connect" => off' = {}
    BY <1>2 DEF WebhookInv, Results
  <2> QED  BY <1>1, <2>1, <2>2, <2>3 DEF Results
<1>11. ASSUME NEW r \in Requests PROVE Queue(r)'
  <2>1. Queue(r)
    BY DEF WebhookInv
  <2> QED  BY ONLY <1>1, <1>4, <1>5, <2>1 DEF Queue
<1>12. \A r \in Requests : Progress(r)'
  BY <1>1 DEF Progress
<1> QED  BY <1>7, <1>8, <1>9, <1>10, <1>11, <1>12 DEF WebhookInv

(* An operation is asked for.                                              *)
LEMMA AskKeeps ==
  ASSUME WebhookInv, NEW r \in Requests, ops[r] = Idle, NEW kind \in {"startup", "connect", "disconnect", "status"},
         ops' = [ops EXCEPT ![r] = [Idle EXCEPT !.kind = kind]],
         UNCHANGED <<hooks, lock, touched, last, off>>, part' = "webhooks", phase' = "serving"
  PROVE  WebhookInv'
<1>1. [Idle EXCEPT !.kind = kind] \in OpSet /\ [Idle EXCEPT !.kind = kind].todo = {}
      /\ [Idle EXCEPT !.kind = kind].stage = 0 /\ [Idle EXCEPT !.kind = kind].kind = kind
      /\ Idle.stage = 0 /\ Idle.todo = {}
  BY DEF Idle, OpSet
<1>2. /\ ops \in [Requests -> OpSet]
      /\ ops'[r].todo = {} /\ ops'[r].stage = 0 /\ ops'[r].kind = kind /\ \A w \in Requests \ {r} : ops'[w] = ops[w]
      /\ ops[r].stage = 0 /\ ops[r].todo = {}
  BY <1>1 DEF WebhookInv, WebhookType
<1>3. lock # r
  BY <1>2 DEF WebhookInv, Locked
<1>4. WebhookType'
  BY <1>1, <1>2 DEF WebhookInv, WebhookType
<1>5. Locked'
  <2>1. \A w \in Requests : ops'[w].stage = ops[w].stage /\ ops'[w].todo = ops[w].todo
    BY <1>2
  <2>2. \A w \in Requests : ops'[w].kind = "none" => ops[w].kind = "none"
    BY <1>2
  <2> QED  BY <2>1, <2>2 DEF WebhookInv, Locked
<1>6. Unique'
  BY DEF WebhookInv, Unique
<1>7. Results'
  <2>1. \A w \in Requests : lock = w /\ ops'[w].kind = "connect" => off = {}
    BY <1>2, <1>3 DEF WebhookInv, Results
  <2> QED  BY <2>1 DEF WebhookInv, Results, Own, Called
<1>8. ASSUME NEW w \in Requests PROVE Queue(w)' /\ Progress(w)'
  <2>1. CASE w = r
    BY <1>2, <1>3, <2>1 DEF Queue, Progress
  <2>2. CASE w # r
    <3>1. Queue(w) /\ Progress(w) /\ ops'[w] = ops[w] /\ hooks' = hooks /\ touched' = touched /\ lock' = lock
      BY <1>2, <2>2 DEF WebhookInv
    <3> QED  BY ONLY <3>1 DEF Queue, Progress, Own, Called
  <2> QED  BY <2>1, <2>2
<1> QED  BY <1>4, <1>5, <1>6, <1>7, <1>8 DEF WebhookInv

(* The process ends, and its operation with it.                            *)
LEMMA KillKeeps ==
  ASSUME WebhookInv, WebhookKill
  PROVE  WebhookInv'
<1>1. /\ ops' = [r \in Requests |-> Idle] /\ lock' = 0 /\ UNCHANGED <<hooks, touched, last, off>>
      /\ Idle \in OpSet /\ Idle.todo = {} /\ Idle.stage = 0
  BY DEF WebhookKill, Idle, OpSet
<1>2. \A r \in Requests : r # 0
  BY WebhookAssumption
<1>3. WebhookType'
  BY <1>1 DEF WebhookInv, WebhookType
<1>4. Locked'
  BY <1>1, <1>2 DEF Locked
<1>5. Unique' /\ Results'
  BY <1>1, <1>2 DEF WebhookInv, Unique, Results, Own, Called
<1>6. \A r \in Requests : Queue(r)' /\ Progress(r)'
  BY <1>1, <1>2 DEF Queue, Progress
<1> QED  BY <1>3, <1>4, <1>5, <1>6 DEF WebhookInv

(* A step of another part of the container leaves the webhooks alone.    *)
LEMMA NothingKeeps ==
  ASSUME WebhookInv, UNCHANGED webhookVars, UNCHANGED part,
         phase' = phase \/ \A r \in Requests : ops[r] = Idle
  PROVE  WebhookInv'
<1>1. hooks' = hooks /\ ops' = ops /\ lock' = lock /\ touched' = touched /\ last' = last /\ off' = off
  BY DEF webhookVars
<1>2. Locked'
  BY <1>1 DEF WebhookInv, Locked
<1>3. \A r \in Requests : Queue(r) /\ Progress(r)
  BY DEF WebhookInv
<1>4. \A r \in Requests : Queue(r)' /\ Progress(r)'
  <2>1. \A s : Own(s)' <=> Own(s)
    BY <1>1 DEF Own, Called
  <2>2. \A r \in Requests : Queue(r)'
    BY ONLY <1>1, <1>3, <2>1 DEF Queue
  <2>3. \A r \in Requests : Progress(r)'
    BY ONLY <1>1, <1>3, <2>1 DEF Progress
  <2> QED  BY <2>2, <2>3
<1> QED  BY <1>1, <1>2, <1>4 DEF WebhookInv, WebhookType, Unique, Results, Own, Called

(* Every step of a container keeps WebhookInv.                           *)
LEMMA WebhookStep ==
  ASSUME WebhookInv, [Next]_vars
  PROVE  WebhookInv'
<1>1. CASE Webhooks
  <2>1. part = "webhooks" /\ phase = "serving" /\ part' = part /\ phase' = phase
    BY <1>1 DEF Webhooks, migrationVars
  <2>2. CASE User
    BY <2>1, <2>2, UserKeeps
  <2>3. ASSUME NEW r \in Requests, Request(r) PROVE WebhookInv'
    <3>1. PICK kind \in {"connect", "disconnect", "status"} : ops' = [ops EXCEPT ![r] = [Idle EXCEPT !.kind = kind]]
      BY <2>3 DEF Request
    <3>2. ops[r] = Idle /\ UNCHANGED <<hooks, lock, touched, last, off>>
      BY <2>3 DEF Request
    <3> QED  BY <2>1, <3>1, <3>2, AskKeeps
  <2>4. ASSUME NEW r \in Requests, Acquire(r) PROVE WebhookInv'
    BY <2>1, <2>4, AcquireKeeps
  <2>5. ASSUME NEW r \in Requests, List(r) PROVE WebhookInv'
    BY <2>1, <2>5, NextListKeeps
  <2>6. ASSUME NEW r \in Requests, Send(r) PROVE WebhookInv'
    BY <2>1, <2>6, SendKeeps DEF Send
  <2>7. ASSUME NEW r \in Requests, RequestFails(r) PROVE WebhookInv'
    BY <2>1, <2>7, RequestFailsKeeps
  <2>8. ASSUME NEW r \in Requests, Done(r) PROVE WebhookInv'
    BY <2>1, <2>8, DoneKeeps
  <2> QED  BY <1>1, <2>2, <2>3, <2>4, <2>5, <2>6, <2>7, <2>8 DEF Webhooks, WebhookNext
<1>2. CASE Start
  <2>1. phase = "migrating" /\ phase' = "serving" /\ part' = part /\ UNCHANGED <<hooks, lock, touched, last, off>>
    BY <1>2 DEF Start, Serve
  <2>2. \A r \in Requests : ops[r] = Idle
    BY <2>1 DEF WebhookInv, Locked
  <2>3. CASE part = "webhooks"
    <3>1. PICK r \in Requests : Startup(r)
      BY <1>2, <2>3 DEF Start
    <3> QED  BY <2>1, <2>2, <2>3, <3>1, AskKeeps DEF Startup
  <2>4. CASE part # "webhooks"
    <3>1. ops' = ops
      BY <1>2, <2>4 DEF Start
    <3>2. Locked' /\ Unique' /\ WebhookType' /\ Results'
      BY <2>1, <2>2, <3>1 DEF WebhookInv, Locked, Unique, WebhookType, Results, Own, Called
    <3>3. \A r \in Requests : Queue(r) /\ Progress(r)
      BY DEF WebhookInv
    <3>4. \A r \in Requests : Queue(r)' /\ Progress(r)'
      <4>1. hooks' = hooks /\ lock' = lock /\ touched' = touched
        BY <2>1
      <4>2. \A s : Own(s)' <=> Own(s)
        BY <4>1 DEF Own, Called
      <4>3. \A r \in Requests : Queue(r)'
        BY ONLY <4>1, <3>1, <3>3, <4>2 DEF Queue
      <4>4. \A r \in Requests : Progress(r)'
        BY ONLY <4>1, <3>1, <3>3, <4>2 DEF Progress
      <4> QED  BY <4>3, <4>4
    <3> QED  BY <3>2, <3>4 DEF WebhookInv
  <2> QED  BY <2>3, <2>4
<1>3. CASE Shutdown
  BY <1>3, KillKeeps DEF Shutdown
<1>4. CASE Upgrade
  <2>1. phase = "migrating" /\ UNCHANGED webhookVars /\ UNCHANGED part
    BY <1>4 DEF Upgrade, Begin, DdlStatement, RowsStatement, Fails, Stamp, Executes
  <2>2. \A r \in Requests : ops[r] = Idle
    BY <2>1 DEF WebhookInv, Locked
  <2> QED  BY <2>1, <2>2, NothingKeeps
<1>5. CASE Container
  <2>1. UNCHANGED webhookVars /\ UNCHANGED part /\ (phase # "serving" \/ part # "webhooks")
    BY <1>5 DEF Container, Restart
  <2>2. \A r \in Requests : ops[r] = Idle
    BY <2>1 DEF WebhookInv, Locked
  <2> QED  BY <2>1, <2>2, NothingKeeps
<1>6. CASE Settings
  BY <1>6, NothingKeeps DEF Settings, migrationVars
<1>7. CASE UNCHANGED vars
  BY <1>7, NothingKeeps DEF vars, migrationVars
<1> QED  BY <1>1, <1>2, <1>3, <1>4, <1>5, <1>6, <1>7 DEF Next

(* The invariant holds of every webhook, operation and start.              *)
THEOREM WebhookInvariant == Spec => []WebhookInv
<1>1. Init => WebhookInv
  <2> SUFFICES ASSUME Init PROVE WebhookInv
    OBVIOUS
  <2>1. ops = [r \in Requests |-> Idle] /\ lock = 0 /\ touched = FALSE /\ last = "none" /\ off = {}
    BY DEF Init, WebhookInit
  <2>2. PICK s \in Entities, url \in {"former", "foreign"}, enabled \in BOOLEAN :
          hooks \in {NoHooks, [id \in {1} |-> Hook(s, url, FALSE, enabled)]}
    BY DEF Init, WebhookInit
  <2>3. Hook(s, url, FALSE, enabled) \in HookSet
    BY DEF Hook, HookSet, Subscriptions
  <2>4. /\ DOMAIN hooks \subseteq {1} /\ 1 \in 1 .. MaxHooks
        /\ \A i \in DOMAIN hooks : hooks[i] \in HookSet
    <3>1. 1 \in 1 .. MaxHooks
      BY WebhookAssumption
    <3>2. CASE hooks = NoHooks
      BY <3>1, <3>2 DEF NoHooks
    <3>3. CASE hooks = [id \in {1} |-> Hook(s, url, FALSE, enabled)]
      BY <2>3, <3>1, <3>3
    <3> QED  BY <2>2, <3>2, <3>3
  <2>5. Idle \in OpSet /\ Idle.stage = 0 /\ Idle.todo = {} /\ \A r \in Requests : r # 0
    BY WebhookAssumption DEF Idle, OpSet
  <2>6. WebhookType
    BY <2>1, <2>4, <2>5 DEF WebhookType
  <2>7. Locked
    BY <2>1, <2>5 DEF Locked
  <2>8. Unique
    BY <2>4 DEF Unique
  <2>9. Results
    BY <2>1 DEF Results
  <2>10. \A r \in Requests : Queue(r) /\ Progress(r)
    BY <2>1, <2>5 DEF Queue, Progress
  <2> QED  BY <2>6, <2>7, <2>8, <2>9, <2>10 DEF WebhookInv
<1>2. WebhookInv /\ [Next]_vars => WebhookInv'
  BY WebhookStep
<1> QED  BY <1>1, <1>2, PTL DEF Spec

(* MoySklad calls the program once per change: whatever operations, starts,*)
(* lost answers and users' changes there were, a subscription has at most  *)
(* one webhook of this installation.                                       *)
THEOREM HookIsOne == Spec => []OneHook
<1>1. WebhookInv => OneHook
  <2> SUFFICES ASSUME WebhookInv PROVE OneHook
    OBVIOUS
  <2>1. WebhookTypeOK
    BY DEF WebhookInv, WebhookType, Locked, WebhookTypeOK
  <2>2. ASSUME NEW s \in Subscriptions PROVE Cardinality(Mine({s})) <= 1
    <3>1. \A i, j \in Mine({s}) : i = j
      BY DEF Mine, WebhookInv, Unique
    <3>2. CASE Mine({s}) = {}
      BY <3>2, FS_EmptySet
    <3>3. CASE Mine({s}) # {}
      <4>1. PICK i : Mine({s}) = {i}
        BY <3>1, <3>3
      <4>2. Cardinality({i}) = 1
        BY FS_Singleton
      <4> QED  BY <4>1, <4>2
    <3> QED  BY <3>2, <3>3
  <2> QED  BY <2>1, <2>2 DEF OneHook
<1> QED  BY <1>1, WebhookInvariant, PTL

(* Connect leaves every subscription with an enabled webhook at the        *)
(* configured url, and what a disconnect has disabled stays so through     *)
(* every start, until an administrator connects or a user intervenes.      *)
THEOREM OperationsKeepTheirPromise == Spec => []OperationDone
<1>1. WebhookInv => OperationDone
  <2> SUFFICES ASSUME WebhookInv PROVE OperationDone
    OBVIOUS
  <2>1. ASSUME last = "connect", NEW s \in Subscriptions
        PROVE  \E id \in Mine({s}) : hooks[id] = Hook(s, "expected", TRUE, TRUE)
    <3>1. PICK i \in DOMAIN hooks : hooks[i] = Hook(s, "expected", TRUE, TRUE)
      BY <2>1 DEF WebhookInv, Results
    <3>2. hooks[i].url = "expected" /\ hooks[i].subscription = s
      BY <3>1 DEF Hook
    <3> QED  BY <3>1, <3>2 DEF Mine
  <2>2. \A id \in Mine(off) : ~hooks[id].enabled
    BY DEF WebhookInv, Results, Mine
  <2> QED  BY <2>1, <2>2 DEF OperationDone
<1> QED  BY <1>1, WebhookInvariant, PTL

-----------------------------------------------------------------------------
(* The upgrade and the stops of a container.                               *)
(* What a schema and rows are, and the statements still to do.             *)
Begun == applied \cup interrupted \cup ({running.revision} \ {""})

(* The databases there can be.                                             *)
Databases == [schema : SUBSET Facts, rows : Rows]

(* What the container and the database can be.                             *)
DeployType ==
  /\ image \in Images \cup {Newest} /\ image \in Revisions
  /\ phase \in {"down", "migrating", "failed", "serving"}
  /\ applied \subseteq Known[image] /\ interrupted \subseteq Known[image]
  /\ faults \in 0 .. MaxFaults
  /\ db \in Databases /\ now \in Databases
  /\ running = Nothing \/ running \in [revision : Pending, todo : Seq(Stmts)]

(* The schema is one of the applied revisions and the begun ones, and what *)
(* is left of the migration that runs, runs from it; it is refused only    *)
(* where it is fragile and was interrupted.                                *)
Upgradable ==
  /\ now.schema = db.schema
  /\ db.schema \in Good(applied, Begun) /\ Order(applied, Begun)
  /\ running = Nothing => now = db
  /\ phase \in {"down", "serving"} => running = Nothing
  /\ phase = "serving" => Pending = {}
  /\ phase = "failed" => now = db /\ running.revision \in interrupted \cap Fragile
  /\ phase = "migrating" /\ running # Nothing =>
       Runs(running.todo, db.schema, Good(applied, Begun), Good(applied \cup {running.revision}, Begun),
            running.revision \notin interrupted \cap Fragile)

(* The column that holds what a shipment was asked for.                    *)
Payload == <<"delivery_shipments", "request_payload">>

(* How far the migration that simplifies the delivery is.                  *)
Simplifying ==
  LET left == Len(running.todo)
  IN  /\ left <= 22 /\ \A j \in 1 .. left : running.todo[j] = SimplifyDelivery[(22 - left) + j]
      /\ left <= 12 => Recovered(now.rows)
      /\ left <= 11 => Converted(now.rows)

(* The rows a migrating connection sees have all that is committed and     *)
(* more; what a shipment was asked for is in the column or converted.      *)
Kept ==
  /\ now.rows.shipped = db.rows.shipped /\ now.rows.embedded = db.rows.embedded
  /\ db.rows.details => now.rows.details
  /\ db.rows.shipped => "2e8c6a4d9b10" \in applied
  /\ db.rows.shipped => db.rows.details \/ Payload \in db.schema
  /\ phase = "migrating" /\ running.revision = "4b91c7d8e205" => Simplifying
  /\ "4b91c7d8e205" \in applied =>
       /\ Recovered(db.rows) /\ Converted(db.rows) /\ Recovered(now.rows) /\ Converted(now.rows)
       /\ \A j \in 1 .. Len(running.todo) : running.todo[j].rows = ""

(* What every step keeps.                                                  *)
MigrationInv == DeployType /\ Upgradable /\ Kept

(* Between two migrations nothing is left to do.                           *)
LEMMA NothingIs ==
  /\ Nothing.revision = "" /\ Nothing.todo = <<>> /\ "" \notin Revisions
  /\ Nothing.revision # "4b91c7d8e205" /\ \A j \in 1 .. Len(Nothing.todo) : FALSE
<1>1. Nothing.revision = "" /\ Nothing.todo = <<>> /\ "" \notin Revisions
  BY DEF Nothing, Revisions
<1>2. "" # "4b91c7d8e205" /\ Nothing.revision # "4b91c7d8e205"
  BY <1>1
<1>3. \A j \in 1 .. Len(Nothing.todo) : FALSE
  <2>1. Len(<<>>) = 0
    OBVIOUS
  <2>2. Len(Nothing.todo) = 0
    BY <1>1, <2>1
  <2> QED  BY <2>2
<1> QED  BY <1>1, <1>2, <1>3

(* A migration that runs is one of those pending.                          *)
LEMMA RunningIs ==
  ASSUME DeployType, running # Nothing
  PROVE  /\ running \in [revision : Pending, todo : Seq(Stmts)]
         /\ running.revision \in Revisions /\ running.revision # ""
         /\ running.revision \in Known[image] \ applied /\ Down[running.revision] \subseteq applied
         /\ running.todo \in Seq(Stmts)
         /\ Begun = applied \cup interrupted \cup {running.revision}
<1>1. running \in [revision : Pending, todo : Seq(Stmts)]
  BY DEF DeployType
<1>2. running.revision \in Known[image] \ applied /\ Down[running.revision] \subseteq applied
  BY <1>1 DEF Pending
<1>3. running.revision \in Revisions
  BY <1>2, KnownIs DEF DeployType
<1> QED  BY <1>1, <1>2, <1>3, NothingIs DEF Begun

(* What has begun is known.                                                *)
LEMMA BegunIsKnown ==
  ASSUME DeployType
  PROVE  /\ Begun \subseteq Known[image] /\ Begun \subseteq Revisions
         /\ running = Nothing => Begun = applied \cup interrupted
<1>1. Known[image] \subseteq Revisions
  BY KnownIs DEF DeployType
<1>2. CASE running = Nothing
  BY <1>1, <1>2, NothingIs DEF Begun, DeployType
<1>3. CASE running # Nothing
  BY <1>1, <1>3, RunningIs DEF DeployType
<1> QED  BY <1>2, <1>3

(* The columns of the old shipments are there until their revision begins. *)
LEMMA RequestIsOwed ==
  ASSUME NEW A, NEW B, "2e8c6a4d9b10" \in A, "4b91c7d8e205" \notin B, NEW x \in Good(A, B)
  PROVE  Payload \in x
<1>1. Payload \in OldFieldFacts /\ Payload \in AllFacts
  BY DEF Payload, OldFieldFacts, AllFacts
<1> QED  BY <1>1, GoodIs DEF Owed

(* Once the revision that simplifies the delivery has begun, it is the one *)
(* that runs, or the newest.                                               *)
LEMMA LastRun ==
  ASSUME DeployType, Order(applied, Begun), "4b91c7d8e205" \in Begun, running # Nothing
  PROVE  \/ running.revision = "4b91c7d8e205" /\ "4b91c7d8e205" \notin applied
         \/ running.revision = "6c28d90ea413" /\ "4b91c7d8e205" \in applied
<1>1. running.revision \in {"4b91c7d8e205", "6c28d90ea413"} /\ running.revision \notin applied
  BY RunningIs, BelowIsApplied
<1>2. Down["6c28d90ea413"] = {"4b91c7d8e205"}
  BY DEF Down, Revisions
<1> QED  BY <1>1, <1>2, RunningIs

(* A statement that is not refused leaves a schema to go on from; one that *)
(* is refused was of a fragile migration that had been interrupted.        *)
LEMMA StatementIs ==
  ASSUME DeployType, Upgradable, phase = "migrating", running.todo # <<>>
  PROVE  /\ running # Nothing /\ Statement \in Stmts /\ Tail(running.todo) \in Seq(Stmts)
         /\ Possible(Statement) \in BOOLEAN
         /\ ~Possible(Statement) => running.revision \in interrupted \cap Fragile
         /\ Possible(Statement) =>
              /\ After(Statement, db.schema) \in Good(applied, Begun)
              /\ Runs(Tail(running.todo), After(Statement, db.schema), Good(applied, Begun),
                      Good(applied \cup {running.revision}, Begun), running.revision \notin interrupted \cap Fragile)
<1>1. running # Nothing
  BY NothingIs
<1>2. running.todo \in Seq(Stmts)
  BY <1>1, RunningIs
<1>3. Statement \in Stmts /\ Tail(running.todo) \in Seq(Stmts)
  BY <1>2 DEF Statement
<1>4. Allows(Statement, db.schema) <=> Possible(Statement)
  BY DEF Allows, Possible, Upgradable
<1> DEFINE G == Good(applied, Begun)
           Q == Good(applied \cup {running.revision}, Begun)
           strict == running.revision \notin interrupted \cap Fragile
<1>5. Runs(running.todo, db.schema, G, Q, strict)
  BY <1>1 DEF Upgradable
<1> HIDE DEF G, Q
<1>6. /\ strict => Allows(running.todo[1], db.schema)
      /\ Allows(running.todo[1], db.schema) => Runs(Tail(running.todo), After(running.todo[1], db.schema), G, Q, strict)
  <2> HIDE DEF strict
  <2> QED  BY <1>5, RunsHead
<1>7. Possible(Statement) => Runs(Tail(running.todo), After(Statement, db.schema), G, Q, strict)
  BY <1>4, <1>6 DEF Statement
<1>8. Possible(Statement) => After(Statement, db.schema) \in G
  <2> HIDE DEF strict
  <2> QED  BY <1>7, RunsHead
<1>9. ~Possible(Statement) => ~strict
  BY <1>4, <1>6 DEF Statement
<1> QED  BY <1>1, <1>3, <1>7, <1>8, <1>9 DEF G, Q, Possible

(* What is left after the first statement.                                 *)
LEMMA TailIs ==
  ASSUME NEW t \in Seq(Stmts), t # <<>>
  PROVE  /\ Len(t) \in Nat /\ Len(t) > 0 /\ Len(Tail(t)) = Len(t) - 1
         /\ \A j \in 1 .. Len(Tail(t)) : Tail(t)[j] = t[j + 1] /\ j + 1 \in 1 .. Len(t)
<1>1. Len(t) \in Nat /\ Len(t) > 0
  BY EmptySeq
<1>2. Len(Tail(t)) = Len(t) - 1
  BY HeadTailProperties
<1>3. \A j \in 1 .. Len(t) - 1 : Tail(t)[j] = t[j + 1]
  OBVIOUS
<1>4. \A j \in 1 .. Len(t) - 1 : j + 1 \in 1 .. Len(t)
  BY <1>1
<1> QED  BY <1>1, <1>2, <1>3, <1>4

(* A migration starts, from the schema that is committed.                  *)
LEMMA BeginKeeps ==
  ASSUME MigrationInv, Begin
  PROVE  MigrationInv'
<1>1. PICK r \in Pending : running' = [revision |-> r, todo |-> Statements(r, db.schema)]
  BY DEF Begin
<1> DEFINE t == Statements(r, db.schema)
           C == Begun \cup {r}
           strict == r \notin interrupted \cap Fragile
<1>2. /\ phase = "migrating" /\ running = Nothing
      /\ UNCHANGED <<image, phase, applied, db, now, interrupted, faults>>
  BY DEF Begin
<1>3. r \in Known[image] /\ r \notin applied /\ Down[r] \subseteq applied /\ r \in Revisions /\ r # ""
  BY KnownIs, NothingIs DEF Pending, MigrationInv, DeployType
<1>4. Begun = applied \cup interrupted /\ Begun \subseteq Revisions
  BY <1>2, BegunIsKnown DEF MigrationInv
<1>5. running'.revision = r /\ running'.todo = t /\ running' # Nothing
  <2>1. running' = [revision |-> r, todo |-> t]
    BY <1>1
  <2> HIDE DEF t
  <2>2. running'.revision = r /\ running'.todo = t
    BY <2>1
  <2> QED  BY <1>3, <2>2, NothingIs
<1>6. Begun' = C
  BY <1>2, <1>3, <1>4, <1>5 DEF Begun
<1>7. Order(applied, C)
  BY <1>3 DEF MigrationInv, Upgradable, Order
<1>8. db.schema \in Good(applied, C)
  <2>1. Begun \subseteq C /\ db.schema \in Good(applied, Begun)
    BY DEF MigrationInv, Upgradable
  <2> HIDE DEF C
  <2> QED  BY <2>1, GoodGrows
<1>9. Runs(t, db.schema, Good(applied, C), Good(applied \cup {r}, C), strict)
  <2>1. strict /\ r \in Fragile => db.schema \in Good(applied, C \ {r})
    <3> SUFFICES ASSUME r \in Fragile, strict PROVE db.schema \in Good(applied, C \ {r})
      OBVIOUS
    <3>1. C \ {r} = Begun
      BY <1>3, <1>4
    <3> QED  BY <3>1 DEF MigrationInv, Upgradable
  <2>2. r \in C
    OBVIOUS
  <2> HIDE DEF C, strict
  <2> QED  BY <1>3, <1>7, <1>8, <2>1, <2>2, StatementsRun
<1>10. DeployType'
  <2>1. t \in Seq(Stmts)
    <3> HIDE DEF t, C, strict
    <3> QED  BY <1>9, RunsHead
  <2>2. running' \in [revision : Pending, todo : Seq(Stmts)] /\ Pending' = Pending
    BY <1>1, <1>2, <2>1 DEF Pending
  <2> QED  BY <1>2, <2>2 DEF MigrationInv, DeployType
<1>11. Upgradable'
  BY <1>2, <1>5, <1>6, <1>7, <1>8, <1>9 DEF MigrationInv, Upgradable
<1>12. Kept'
  <2>1. ASSUME r = "4b91c7d8e205" PROVE Simplifying'
    <3>1. t = SimplifyDelivery
      BY <2>1 DEF Statements
    <3>2. running'.todo = SimplifyDelivery
      BY <1>5, <3>1
    <3>3. Len(SimplifyDelivery) = 22
      BY SimplifyIs
    <3>4. \A j \in 1 .. 22 : (22 - 22) + j = j
      OBVIOUS
    <3> QED  BY <3>2, <3>3, <3>4 DEF Simplifying
  <2>2. ASSUME "4b91c7d8e205" \in applied PROVE \A j \in 1 .. Len(t) : t[j].rows = ""
    <3>1. r = "6c28d90ea413"
      <4>1. Order(applied, Begun) /\ "4b91c7d8e205" \in Begun
        BY <1>4, <2>2 DEF MigrationInv, Upgradable
      <4> QED  BY <1>3, <2>2, <4>1, BelowIsApplied
    <3>2. t = AddAssembling
      BY <3>1 DEF Statements
    <3>3. AddAssembling[1].rows = ""
      BY DEF AddAssembling, Ensure, Ddl
    <3>4. Len(AddAssembling) = 1
      BY DEF AddAssembling, Ensure
    <3>5. \A j \in 1 .. 1 : j = 1
      OBVIOUS
    <3> HIDE DEF t
    <3> QED  BY <3>2, <3>3, <3>4, <3>5
  <2> HIDE DEF t
  <2> QED  BY <1>2, <1>5, <2>1, <2>2 DEF MigrationInv, Kept
<1> QED  BY <1>10, <1>11, <1>12 DEF MigrationInv

(* A statement on the schema commits it and the rows written before.       *)
LEMMA DdlKeeps ==
  ASSUME MigrationInv, DdlStatement
  PROVE  MigrationInv'
<1> DEFINE st == Statement
           r == running.revision
           x == After(st, db.schema)
<1>1. /\ phase = "migrating" /\ running.todo # <<>> /\ Possible(st) /\ st.rows = ""
      /\ now' = [now EXCEPT !.schema = (@ \ st.removes) \cup st.adds]
      /\ db' = now' /\ running' = [running EXCEPT !.todo = Tail(@)]
      /\ UNCHANGED <<image, phase, applied, interrupted, faults>>
  BY DEF DdlStatement, Executes
<1>2. /\ running # Nothing /\ st \in Stmts /\ Tail(running.todo) \in Seq(Stmts)
      /\ x \in Good(applied, Begun)
      /\ Runs(Tail(running.todo), x, Good(applied, Begun), Good(applied \cup {r}, Begun), r \notin interrupted \cap Fragile)
  BY <1>1, StatementIs DEF MigrationInv
<1>3. /\ running \in [revision : Pending, todo : Seq(Stmts)] /\ r \in Revisions /\ r # "" /\ running.todo \in Seq(Stmts)
  BY <1>2, RunningIs DEF MigrationInv
<1>4. running'.revision = r /\ running'.todo = Tail(running.todo) /\ running' # Nothing
  BY <1>1, <1>3, NothingIs
<1>5. now'.schema = x /\ db'.schema = x /\ now'.rows = now.rows /\ db'.rows = now.rows
  BY <1>1 DEF MigrationInv, DeployType, Upgradable, Databases, After
<1>6. Begun' = Begun /\ Pending' = Pending
  BY <1>1, <1>4 DEF Begun, Pending
<1> HIDE DEF st, x
<1>7. DeployType'
  <2>1. now' \in Databases
    <3>1. x \subseteq Facts
      BY <1>2, GoodIs
    <3> QED  BY <1>1, <1>5, <3>1 DEF MigrationInv, DeployType, Databases
  <2>2. running' \in [revision : Pending, todo : Seq(Stmts)]
    BY <1>1, <1>2, <1>3
  <2> QED  BY <1>1, <1>6, <2>1, <2>2 DEF MigrationInv, DeployType
<1>8. Upgradable'
  BY <1>1, <1>2, <1>4, <1>5, <1>6 DEF MigrationInv, Upgradable
<1>9. /\ Len(running'.todo) = Len(running.todo) - 1 /\ Len(running.todo) \in Nat /\ Len(running.todo) > 0
      /\ \A j \in 1 .. Len(running'.todo) : running'.todo[j] = running.todo[j + 1] /\ j + 1 \in 1 .. Len(running.todo)
  BY <1>1, <1>3, <1>4, TailIs
<1>10. ASSUME r = "4b91c7d8e205" PROVE Simplifying' /\ Len(running.todo) \notin {12, 13} /\ (Len(running.todo) >= 14 => st.removes = {})
  <2>1. Simplifying
    BY <1>1, <1>10 DEF MigrationInv, Kept
  <2> DEFINE left == Len(running.todo)
  <2>2. st = SimplifyDelivery[(22 - left) + 1] /\ left <= 22 /\ left \in Nat /\ left > 0
    <3>1. left \in Nat /\ left > 0 /\ 1 \in 1 .. left
      BY <1>9
    <3>2. left <= 22 /\ \A j \in 1 .. left : running.todo[j] = SimplifyDelivery[(22 - left) + j]
      BY <2>1 DEF Simplifying
    <3> HIDE DEF left
    <3> QED  BY <3>1, <3>2 DEF Statement, st
  <2>3. left \notin {12, 13}
    <3>1. SimplifyDelivery[11].rows # "" /\ SimplifyDelivery[10].rows # ""
      BY SimplifyIs
    <3>2. (22 - 12) + 1 = 11 /\ (22 - 13) + 1 = 10
      OBVIOUS
    <3> HIDE DEF left
    <3> QED  BY <1>1, <2>2, <3>1, <3>2
  <2>4. left >= 14 => st.removes = {}
    <3> SUFFICES ASSUME left >= 14 PROVE st.removes = {}
      OBVIOUS
    <3>1. (22 - left) + 1 \in 1 .. 9
      BY <1>9, <2>2
    <3> QED  BY <2>2, <3>1, SimplifyIs
  <2>5. \A j \in 1 .. Len(running'.todo) : running'.todo[j] = SimplifyDelivery[(22 - Len(running'.todo)) + j]
    <3> TAKE j \in 1 .. Len(running'.todo)
    <3>1. running'.todo[j] = running.todo[j + 1] /\ j + 1 \in 1 .. left
      BY <1>9
    <3>2. running.todo[j + 1] = SimplifyDelivery[(22 - left) + (j + 1)]
      BY <2>1, <3>1 DEF Simplifying
    <3>3. (22 - left) + (j + 1) = (22 - Len(running'.todo)) + j
      BY <1>9
    <3> QED  BY <3>1, <3>2, <3>3
  <2>6. (Len(running'.todo) <= 12 => left <= 12) /\ (Len(running'.todo) <= 11 => left <= 11)
    <3>1. left \in Nat /\ Len(running'.todo) = left - 1
      BY <1>9
    <3> HIDE DEF left
    <3> QED  BY <2>3, <3>1
  <2>7. /\ Len(running'.todo) <= 22
        /\ Len(running'.todo) <= 12 => Recovered(now.rows)
        /\ Len(running'.todo) <= 11 => Converted(now.rows)
    BY <1>9, <2>1, <2>2, <2>6 DEF Simplifying
  <2> QED  BY <1>5, <2>3, <2>4, <2>5, <2>7 DEF Simplifying
<1>11. Kept'
  <2>1. ASSUME "4b91c7d8e205" \in applied PROVE \A j \in 1 .. Len(running'.todo) : running'.todo[j].rows = ""
    BY <1>9, <2>1 DEF MigrationInv, Kept
  <2>2. ASSUME now.rows.shipped PROVE now.rows.details \/ Payload \in x
    <3>1. "2e8c6a4d9b10" \in applied /\ db.rows.shipped /\ (db.rows.details \/ Payload \in db.schema) /\ (db.rows.details => now.rows.details)
      BY <2>2 DEF MigrationInv, Kept
    <3>2. CASE "4b91c7d8e205" \notin Begun
      BY <1>2, <3>1, <3>2, RequestIsOwed
    <3>3. CASE "4b91c7d8e205" \in applied
      BY <2>2, <3>3 DEF MigrationInv, Kept, Converted
    <3>4. CASE r = "4b91c7d8e205" /\ Len(running.todo) >= 14
      BY <1>10, <3>1, <3>4 DEF x, After
    <3>5. CASE r = "4b91c7d8e205" /\ Len(running.todo) <= 11
      BY <1>1, <2>2, <3>5 DEF MigrationInv, Kept, Simplifying, Converted
    <3>6. Len(running.todo) \in {12, 13} \/ Len(running.todo) >= 14 \/ Len(running.todo) <= 11
      <4> DEFINE left == Len(running.todo)
      <4>1. left \in Nat
        BY <1>9
      <4> HIDE DEF left
      <4>2. left \in {12, 13} \/ left >= 14 \/ left <= 11
        BY <4>1
      <4> QED  BY <4>2 DEF left
    <3>7. "4b91c7d8e205" \in Begun /\ "4b91c7d8e205" \notin applied => r = "4b91c7d8e205"
      BY <1>2, LastRun DEF MigrationInv, Upgradable
    <3> QED  BY <1>10, <3>2, <3>3, <3>4, <3>5, <3>6, <3>7
  <2>3. r = "4b91c7d8e205" => Simplifying'
    BY <1>10
  <2>4. "4b91c7d8e205" \in applied => Recovered(now.rows) /\ Converted(now.rows)
    BY DEF MigrationInv, Kept
  <2>5. now.rows.shipped => "2e8c6a4d9b10" \in applied
    BY DEF MigrationInv, Kept
  <2> QED  BY <1>1, <1>4, <1>5, <2>1, <2>2, <2>3, <2>4, <2>5 DEF Kept
<1> QED  BY <1>7, <1>8, <1>11 DEF MigrationInv

(* A statement on the rows is the connection's own until it is committed.  *)
LEMMA RowsKeeps ==
  ASSUME MigrationInv, RowsStatement
  PROVE  MigrationInv'
<1> DEFINE st == Statement
           r == running.revision
           y == Updated(now.rows, st.rows)
<1>1. /\ phase = "migrating" /\ running.todo # <<>> /\ Possible(st) /\ st.rows # ""
      /\ now' = [now EXCEPT !.rows = Updated(@, st.rows)]
      /\ running' = [running EXCEPT !.todo = Tail(@)]
      /\ UNCHANGED <<image, phase, applied, db, interrupted, faults>>
  BY DEF RowsStatement, Executes
<1>2. /\ running # Nothing /\ st \in Stmts /\ Tail(running.todo) \in Seq(Stmts)
      /\ After(st, db.schema) \in Good(applied, Begun)
      /\ Runs(Tail(running.todo), After(st, db.schema), Good(applied, Begun), Good(applied \cup {r}, Begun),
              r \notin interrupted \cap Fragile)
  BY <1>1, StatementIs DEF MigrationInv
<1>3. running \in [revision : Pending, todo : Seq(Stmts)] /\ r \in Revisions /\ r # "" /\ running.todo \in Seq(Stmts)
  BY <1>2, RunningIs DEF MigrationInv
<1>4. running'.revision = r /\ running'.todo = Tail(running.todo) /\ running' # Nothing
  BY <1>1, <1>3, NothingIs
<1>5. After(st, db.schema) = db.schema
  BY <1>1, <1>2 DEF Stmts, After
<1>6. now'.schema = now.schema /\ now'.rows = y /\ now.rows \in Rows
  BY <1>1 DEF MigrationInv, DeployType, Databases
<1>7. Begun' = Begun /\ Pending' = Pending
  BY <1>1, <1>4 DEF Begun, Pending
<1> HIDE DEF st
<1>8. /\ y \in Rows /\ y.shipped = now.rows.shipped /\ y.embedded = now.rows.embedded
      /\ now.rows.details => y.details
      /\ st.rows = "recover" => Recovered(y)
      /\ st.rows = "convert" => Converted(y)
      /\ Recovered(now.rows) => Recovered(y)
  BY <1>6, UpdatedIs
<1> HIDE DEF y
<1>9. DeployType'
  <2>1. now' \in Databases
    BY <1>1, <1>6, <1>8 DEF MigrationInv, DeployType, Databases, y
  <2>2. running' \in [revision : Pending, todo : Seq(Stmts)]
    BY <1>1, <1>2, <1>3
  <2> QED  BY <1>1, <1>7, <2>1, <2>2 DEF MigrationInv, DeployType
<1>10. Upgradable'
  BY <1>1, <1>2, <1>4, <1>5, <1>6, <1>7 DEF MigrationInv, Upgradable
<1>11. /\ Len(running'.todo) = Len(running.todo) - 1 /\ Len(running.todo) \in Nat
       /\ Len(running.todo) > 0
       /\ \A j \in 1 .. Len(running'.todo) : running'.todo[j] = running.todo[j + 1] /\ j + 1 \in 1 .. Len(running.todo)
  BY <1>1, <1>3, <1>4, TailIs
<1>12. ASSUME r = "4b91c7d8e205" PROVE Simplifying'
  <2>1. Simplifying
    BY <1>1, <1>12 DEF MigrationInv, Kept
  <2> DEFINE left == Len(running.todo)
  <2>2. st = SimplifyDelivery[(22 - left) + 1] /\ left <= 22 /\ left \in Nat /\ left > 0
    <3>1. left \in Nat /\ left > 0 /\ 1 \in 1 .. left
      BY <1>11
    <3>2. left <= 22 /\ \A j \in 1 .. left : running.todo[j] = SimplifyDelivery[(22 - left) + j]
      BY <2>1 DEF Simplifying
    <3> HIDE DEF left
    <3> QED  BY <3>1, <3>2 DEF Statement, st
  <2>3. left \in {12, 13}
    <3> DEFINE k == (22 - left) + 1
    <3>1. k \in 1 .. 9 \/ left \in {12, 13} \/ k \in 12 .. 22
      <4> HIDE DEF left
      <4> QED  BY <2>2
    <3>2. SimplifyDelivery[k].rows # ""
      BY <1>1, <2>2
    <3> HIDE DEF k, left
    <3>3. k \notin 1 .. 9 /\ k \notin 12 .. 22
      BY <3>2, SimplifyIs
    <3> QED  BY <3>1, <3>3
  <2>4. (left = 13 => st.rows = "recover") /\ (left = 12 => st.rows = "convert")
    <3>1. left = 13 => (22 - left) + 1 = 10
      OBVIOUS
    <3>2. left = 12 => (22 - left) + 1 = 11
      OBVIOUS
    <3>3. SimplifyDelivery[10].rows = "recover" /\ SimplifyDelivery[11].rows = "convert"
      BY SimplifyIs
    <3> HIDE DEF left
    <3> QED  BY <2>2, <3>1, <3>2, <3>3
  <2>5. \A j \in 1 .. Len(running'.todo) : running'.todo[j] = SimplifyDelivery[(22 - Len(running'.todo)) + j]
    <3> TAKE j \in 1 .. Len(running'.todo)
    <3>1. running'.todo[j] = running.todo[j + 1] /\ j + 1 \in 1 .. left
      BY <1>11
    <3>2. running.todo[j + 1] = SimplifyDelivery[(22 - left) + (j + 1)]
      BY <2>1, <3>1 DEF Simplifying
    <3>3. (22 - left) + (j + 1) = (22 - Len(running'.todo)) + j
      BY <1>11
    <3> QED  BY <3>1, <3>2, <3>3
  <2>6. Recovered(y) /\ (left = 12 => Converted(y))
    <3>1. left <= 12 => Recovered(now.rows)
      BY <2>1 DEF Simplifying
    <3> HIDE DEF left
    <3> QED  BY <1>8, <2>3, <2>4, <3>1
  <2>7. /\ Len(running'.todo) <= 22
        /\ Len(running'.todo) <= 11 => left = 12
    <3>1. Len(running'.todo) = left - 1
      BY <1>11
    <3> HIDE DEF left
    <3> QED  BY <2>3, <3>1
  <2> QED  BY <1>6, <2>5, <2>6, <2>7 DEF Simplifying
<1>13. "4b91c7d8e205" \notin applied
  <2> SUFFICES ASSUME "4b91c7d8e205" \in applied PROVE FALSE
    OBVIOUS
  <2>1. running.todo[1].rows = ""
    <3>1. 1 \in 1 .. Len(running.todo)
      BY <1>11
    <3> QED  BY <3>1 DEF MigrationInv, Kept
  <2> QED  BY <1>1, <2>1 DEF st, Statement
<1>14. Kept'
  BY <1>1, <1>4, <1>6, <1>8, <1>12, <1>13 DEF MigrationInv, Kept
<1> QED  BY <1>9, <1>10, <1>14 DEF MigrationInv

(* A refused statement ends the container.                                 *)
LEMMA FailsKeeps ==
  ASSUME MigrationInv, Fails
  PROVE  MigrationInv'
<1>1. /\ phase = "migrating" /\ running.todo # <<>> /\ ~Possible(Statement)
      /\ phase' = "failed" /\ now' = db
      /\ UNCHANGED <<image, applied, db, running, interrupted, faults>>
  <2>1. Possible(Statement) = FALSE
    BY DEF Fails, Executes
  <2> QED  BY <2>1 DEF Fails, Executes
<1>2. running # Nothing /\ running.revision \in interrupted \cap Fragile
  BY <1>1, StatementIs DEF MigrationInv
<1>3. Begun' = Begun /\ Pending' = Pending
  BY <1>1 DEF Begun, Pending
<1>4. DeployType'
  BY <1>1, <1>3 DEF MigrationInv, DeployType
<1>5. Upgradable'
  BY <1>1, <1>2, <1>3 DEF MigrationInv, Upgradable
<1>6. Kept'
  BY <1>1 DEF MigrationInv, Kept
<1> QED  BY <1>4, <1>5, <1>6 DEF MigrationInv

(* The revision is applied.                                                *)
LEMMA StampKeeps ==
  ASSUME MigrationInv, Stamp
  PROVE  MigrationInv'
<1> DEFINE r == running.revision
           D == applied \cup {r}
<1>1. /\ phase = "migrating" /\ running # Nothing /\ running.todo = <<>>
      /\ applied' = D /\ db' = now /\ running' = Nothing
      /\ UNCHANGED <<image, phase, now, interrupted, faults>>
  BY DEF Stamp
<1>2. /\ r \in Known[image] /\ r \in Revisions /\ Down[r] \subseteq applied
      /\ Begun = applied \cup interrupted \cup {r}
  BY <1>1, RunningIs DEF MigrationInv
<1>3. Begun' = Begun
  BY <1>1, <1>2, NothingIs DEF Begun
<1>4. db.schema \in Good(D, Begun)
  <2> DEFINE G == Good(applied, Begun)
             Q == Good(D, Begun)
             strict == r \notin interrupted \cap Fragile
  <2>1. Runs(<<>>, db.schema, G, Q, strict)
    BY <1>1 DEF MigrationInv, Upgradable
  <2> HIDE DEF G, Q, strict
  <2> QED  BY <2>1, RunsHead DEF Q
<1>5. DeployType'
  BY <1>1, <1>2 DEF MigrationInv, DeployType
<1>6. Upgradable'
  <2>1. db'.schema = db.schema /\ now'.schema = db.schema
    BY <1>1 DEF MigrationInv, Upgradable
  <2>2. Order(D, Begun)
    BY <1>2 DEF MigrationInv, Upgradable, Order
  <2>3. phase' = "migrating" /\ now' = db'
    BY <1>1
  <2> HIDE DEF D
  <2> QED  BY <1>1, <1>3, <1>4, <2>1, <2>2, <2>3 DEF Upgradable
<1>7. Kept'
  <2>1. Len(running.todo) = 0 /\ running'.revision # "4b91c7d8e205" /\ Len(running'.todo) = 0
    BY <1>1, NothingIs
  <2>2. ASSUME "4b91c7d8e205" \in D PROVE Recovered(now.rows) /\ Converted(now.rows)
    <3>1. CASE "4b91c7d8e205" \in applied
      BY <3>1 DEF MigrationInv, Kept
    <3>2. CASE r = "4b91c7d8e205"
      <4>1. Simplifying
        BY <1>1, <3>2 DEF MigrationInv, Kept
      <4> QED  BY <2>1, <4>1 DEF Simplifying
    <3> QED  BY <2>2, <3>1, <3>2
  <2>3. ASSUME now.rows.shipped PROVE "2e8c6a4d9b10" \in D /\ (now.rows.details \/ Payload \in now.schema)
    BY <2>3 DEF MigrationInv, Kept, Upgradable
  <2> HIDE DEF D
  <2> QED  BY <1>1, <2>1, <2>2, <2>3 DEF Kept
<1> QED  BY <1>5, <1>6, <1>7 DEF MigrationInv

(* A container with nothing pending serves.                                *)
LEMMA ServeKeeps ==
  ASSUME MigrationInv, Serve
  PROVE  MigrationInv'
<1>1. /\ phase = "migrating" /\ running = Nothing /\ Pending = {} /\ phase' = "serving"
      /\ UNCHANGED <<image, applied, db, now, running, interrupted, faults>>
  BY DEF Serve
<1>2. Begun' = Begun /\ Pending' = Pending
  BY <1>1 DEF Begun, Pending
<1>3. DeployType'
  BY <1>1, <1>2 DEF MigrationInv, DeployType
<1>4. Upgradable'
  BY <1>1, <1>2 DEF MigrationInv, Upgradable
<1>5. Kept'
  BY <1>1 DEF MigrationInv, Kept
<1> QED  BY <1>3, <1>4, <1>5 DEF MigrationInv

(* A container stops: what was not committed is gone.                      *)
LEMMA StopKeeps ==
  ASSUME MigrationInv, Stop
  PROVE  MigrationInv'
<1>1. /\ phase \in {"migrating", "serving"} /\ faults < MaxFaults /\ phase' = "down"
      /\ interrupted' = interrupted \cup ({running.revision} \ {""})
      /\ now' = db /\ running' = Nothing /\ faults' = faults + 1
      /\ UNCHANGED <<image, applied, db>>
  BY DEF Stop
<1>2. Begun' = Begun
  BY <1>1, NothingIs DEF Begun
<1>3. interrupted' \subseteq Known[image]
  <2>1. CASE running = Nothing
    BY <1>1, <2>1, NothingIs DEF MigrationInv, DeployType
  <2>2. CASE running # Nothing
    BY <1>1, <2>2, RunningIs DEF MigrationInv, DeployType
  <2> QED  BY <2>1, <2>2
<1>4. DeployType'
  <2>1. faults' \in 0 .. MaxFaults
    <3>1. faults \in 0 .. MaxFaults /\ MaxFaults \in Nat
      BY MigrationAssumption DEF MigrationInv, DeployType
    <3>2. faults < MaxFaults /\ faults' = faults + 1
      BY <1>1
    <3> QED  BY <3>1, <3>2
  <2> QED  BY <1>1, <1>3, <2>1 DEF MigrationInv, DeployType
<1>5. Upgradable'
  BY <1>1, <1>2 DEF MigrationInv, Upgradable
<1>6. Kept'
  <2>1. ~(phase' = "migrating" /\ running'.revision = "4b91c7d8e205")
    BY <1>1
  <2>2. \A j \in 1 .. Len(running'.todo) : running'.todo[j].rows = ""
    BY <1>1, NothingIs
  <2> QED  BY <1>1, <2>1, <2>2 DEF MigrationInv, Kept
<1> QED  BY <1>4, <1>5, <1>6 DEF MigrationInv

(* The container, or a newer one, starts to migrate.                       *)
LEMMA MigrateAgain ==
  ASSUME MigrationInv, phase # "migrating", phase' = "migrating", running' = Nothing,
         UNCHANGED <<applied, db, now, interrupted, faults>>,
         image' \in Images \cup {Newest}, image' \in Revisions, image \in Known[image']
  PROVE  MigrationInv'
<1>1. Known[image] \subseteq Known[image']
  BY KnownIs
<1>2. Begun' = Begun /\ now = db
  <2>1. Begun' = applied \cup interrupted
    BY NothingIs DEF Begun
  <2>2. CASE running = Nothing
    BY <2>1, <2>2, BegunIsKnown DEF MigrationInv, Upgradable
  <2>3. CASE running # Nothing
    <3>1. running.revision \in interrupted /\ now = db
      BY <2>3 DEF MigrationInv, DeployType, Upgradable
    <3> QED  BY <2>1, <2>3, <3>1, RunningIs DEF MigrationInv
  <2> QED  BY <2>2, <2>3
<1>3. DeployType'
  BY <1>1 DEF MigrationInv, DeployType
<1>4. Upgradable'
  BY <1>2 DEF MigrationInv, Upgradable
<1>5. Kept'
  <2>1. ~(phase' = "migrating" /\ running'.revision = "4b91c7d8e205")
    BY NothingIs
  <2>2. \A j \in 1 .. Len(running'.todo) : running'.todo[j].rows = ""
    BY NothingIs
  <2> QED  BY <2>1, <2>2 DEF MigrationInv, Kept
<1> QED  BY <1>3, <1>4, <1>5 DEF MigrationInv

(* A container of the same image is started again.                         *)
LEMMA RestartKeeps ==
  ASSUME MigrationInv, Restart
  PROVE  MigrationInv'
<1>1. /\ phase # "migrating" /\ phase' = "migrating" /\ running' = Nothing
      /\ UNCHANGED <<image, applied, db, now, interrupted, faults>>
  BY DEF Restart
<1>2. image' \in Images \cup {Newest} /\ image' \in Revisions /\ image \in Known[image']
  BY <1>1, KnownIs DEF MigrationInv, DeployType
<1> QED  BY <1>1, <1>2, MigrateAgain

(* A container of an image that knows at least as much is started.         *)
LEMMA DeployKeeps ==
  ASSUME MigrationInv, Deploy
  PROVE  MigrationInv'
<1>1. /\ phase # "migrating" /\ phase' = "migrating" /\ running' = Nothing
      /\ UNCHANGED <<applied, db, now, interrupted, faults>>
      /\ image' \in Images /\ image \in Known[image']
  BY DEF Deploy
<1>2. image' \in Images \cup {Newest} /\ image' \in Revisions
  BY <1>1, MigrationAssumption
<1> QED  BY <1>1, <1>2, MigrateAgain

(* A container that serves has applied all it knows.                       *)
LEMMA AllApplied ==
  ASSUME MigrationInv, phase = "serving"
  PROVE  applied = Known[image] /\ Begun = applied /\ running = Nothing /\ now = db
<1>1. Pending = {} /\ running = Nothing /\ now = db /\ image \in Revisions /\ applied \subseteq Known[image]
  BY DEF MigrationInv, DeployType, Upgradable
<1>2. Known[image] \subseteq applied
  BY <1>1, NonePending DEF Pending
<1>3. Begun \subseteq Known[image] /\ applied \subseteq Begun
  BY BegunIsKnown DEF MigrationInv, Begun
<1> QED  BY <1>1, <1>2, <1>3

(* Rows written while a container of before the delivery was simplified    *)
(* serves.                                                                 *)
LEMMA WriteKeeps ==
  ASSUME MigrationInv, Write
  PROVE  MigrationInv'
<1>1. /\ phase = "serving" /\ "4b91c7d8e205" \notin Known[image] /\ now' = db'
      /\ UNCHANGED <<image, phase, applied, running, interrupted, faults>>
  BY DEF Write
<1>2. applied = Known[image] /\ Begun = applied /\ running = Nothing /\ now = db
  BY <1>1, AllApplied
<1>3. Begun' = Begun /\ Pending' = Pending
  BY <1>1 DEF Begun, Pending
<1>4. db \in Databases
  BY DEF MigrationInv, DeployType
<1>5. /\ db' \in Databases /\ db'.schema = db.schema /\ db'.rows.details = db.rows.details
      /\ db'.rows.shipped => "2e8c6a4d9b10" \in applied
  <2>1. CASE <<"purchases">> \in db.schema /\ db.rows = NoOrder /\
             \E status \in {"CREATED", "PROCESSING"}, embedded \in BOOLEAN :
               db' = [db EXCEPT !.rows.status = status, !.rows.embedded = embedded]
    <3>1. PICK status \in {"CREATED", "PROCESSING"}, embedded \in BOOLEAN :
               db' = [db EXCEPT !.rows.status = status, !.rows.embedded = embedded]
      BY <2>1
    <3>2. /\ db' \in Databases /\ db'.schema = db.schema /\ db'.rows.details = db.rows.details
          /\ db'.rows.shipped = db.rows.shipped
      BY <1>4, <3>1 DEF Databases, Rows
    <3> QED  BY <3>2 DEF MigrationInv, Kept
  <2>2. CASE <<"delivery_shipments">> \in db.schema /\ db' = [db EXCEPT !.rows.shipped = TRUE]
    <3>1. /\ db' \in Databases /\ db'.schema = db.schema /\ db'.rows.details = db.rows.details
      BY <1>4, <2>2 DEF Databases, Rows
    <3>2. <<"delivery_shipments">> \in ShipmentFacts
      BY DEF ShipmentFacts
    <3>3. <<"delivery_shipments">> \in Allowed(applied, Begun)
      BY <2>2, GoodIs DEF MigrationInv, Upgradable
    <3>4. "2e8c6a4d9b10" \in applied
      BY <1>2, <3>2, <3>3 DEF Allowed
    <3> QED  BY <3>1, <3>4
  <2> QED  BY <2>1, <2>2 DEF Write
<1>6. "4b91c7d8e205" \notin Begun
  BY <1>1, <1>2
<1>7. DeployType'
  BY <1>1, <1>3, <1>5 DEF MigrationInv, DeployType
<1>8. Upgradable'
  BY <1>1, <1>2, <1>3, <1>5 DEF MigrationInv, Upgradable
<1>9. Kept'
  <2>1. db'.rows.shipped => Payload \in db'.schema
    BY <1>5, <1>6, RequestIsOwed DEF MigrationInv, Upgradable
  <2> QED  BY <1>1, <1>2, <1>5, <1>6, <2>1, NothingIs DEF Kept
<1> QED  BY <1>7, <1>8, <1>9 DEF MigrationInv

(* What leaves the container's variables alone keeps it: the webhooks and  *)
(* the settings.                                                           *)
LEMMA StutterKeeps ==
  ASSUME MigrationInv, UNCHANGED migrationVars
  PROVE  MigrationInv'
<1>1. UNCHANGED <<image, phase, applied, db, now, running, interrupted, faults>>
  BY DEF migrationVars
<1>2. Begun' = Begun /\ Pending' = Pending
  BY <1>1 DEF Begun, Pending
<1>3. DeployType'
  BY <1>1, <1>2 DEF MigrationInv, DeployType
<1>4. Upgradable'
  BY <1>1, <1>2 DEF MigrationInv, Upgradable
<1>5. Kept'
  BY <1>1 DEF MigrationInv, Kept, Simplifying
<1> QED  BY <1>3, <1>4, <1>5 DEF MigrationInv

(* Every step of a container keeps it.                                     *)
LEMMA MigrationStep ==
  ASSUME MigrationInv, [Next]_vars
  PROVE  MigrationInv'
<1>1. CASE Upgrade
  BY <1>1, BeginKeeps, DdlKeeps, RowsKeeps, FailsKeeps, StampKeeps DEF Upgrade
<1>2. CASE Start
  BY <1>2, ServeKeeps DEF Start
<1>3. CASE Shutdown
  BY <1>3, StopKeeps DEF Shutdown
<1>4. CASE Container
  BY <1>4, RestartKeeps, DeployKeeps, WriteKeeps DEF Container
<1>5. CASE Webhooks
  BY <1>5, StutterKeeps DEF Webhooks
<1>6. CASE Settings
  BY <1>6, StutterKeeps DEF Settings
<1>7. CASE UNCHANGED vars
  BY <1>7, StutterKeeps DEF vars
<1> QED  BY <1>1, <1>2, <1>3, <1>4, <1>5, <1>6, <1>7 DEF Next

(* A database without orders has nothing to recover or convert.            *)
LEMMA NoOrderIs ==
  /\ NoOrder \in Rows /\ ~NoOrder.shipped /\ ~NoOrder.embedded /\ ~NoOrder.details
  /\ Recovered(NoOrder) /\ Converted(NoOrder)
<1>1. NoOrder \in Rows /\ ~NoOrder.shipped /\ ~NoOrder.embedded /\ ~NoOrder.details
  BY DEF NoOrder, Rows
<1> QED  BY <1>1 DEF Recovered, Converted

(* It holds of a database before its first migration, and of one migrated  *)
(* to the newest revision.                                                 *)
LEMMA MigrationStarts == Init => MigrationInv
<1> SUFFICES ASSUME Init PROVE MigrationInv
  OBVIOUS
<1>1. CASE MigrationInit
  <2>1. /\ image \in Images /\ phase = "migrating" /\ applied = {} /\ now = db
        /\ running = Nothing /\ interrupted = {} /\ faults = 0
        /\ db \in [schema : Before, rows : {NoOrder}]
    BY <1>1 DEF MigrationInit
  <2>2. Begun = {}
    BY <2>1, NothingIs DEF Begun
  <2>3. db.schema \in Good({}, {}) /\ db.rows = NoOrder
    BY <2>1, BeforeIsGood
  <2>4. db \in Databases
    <3>1. db.schema \subseteq Facts
      BY <2>3, GoodIs
    <3> QED  BY <2>1, <2>3, <3>1, NoOrderIs DEF Databases
  <2>5. DeployType
    BY <2>1, <2>4, MigrationAssumption, KnownIs DEF DeployType
  <2>6. Upgradable
    BY <2>1, <2>2, <2>3 DEF Upgradable, Order
  <2>7. Kept
    BY <2>1, <2>3, NoOrderIs, NothingIs DEF Kept
  <2> QED  BY <2>5, <2>6, <2>7 DEF MigrationInv
<1>2. CASE MigratedInit
  <2>1. /\ image = Newest /\ phase = "migrating" /\ applied = Revisions /\ now = db
        /\ running = Nothing /\ interrupted = {} /\ faults = 0
        /\ db = [schema |-> ModelSchema, rows |-> NoOrder]
    BY <1>2, KnownIs DEF MigratedInit
  <2>2. Begun = Revisions
    BY <2>1, NothingIs DEF Begun
  <2>3. db.schema \in Good(Revisions, Revisions) /\ db.rows = NoOrder
    BY <2>1, ModelIsGood
  <2>4. db \in Databases
    <3>1. db.schema \subseteq Facts
      BY <2>3, GoodIs
    <3> QED  BY <2>1, <2>3, <3>1, NoOrderIs DEF Databases
  <2>5. DeployType
    BY <2>1, <2>4, MigrationAssumption, KnownIs DEF DeployType
  <2>6. \A r \in Revisions : Down[r] \subseteq Revisions
    BY RankIs
  <2>7. Upgradable
    BY <2>1, <2>2, <2>3, <2>6 DEF Upgradable, Order
  <2>8. \A j \in 1 .. Len(running.todo) : running.todo[j].rows = ""
    BY <2>1, NothingIs
  <2>9. ~(phase = "migrating" /\ running.revision = "4b91c7d8e205")
    BY <2>1, NothingIs
  <2>10. Kept
    BY <2>1, <2>3, <2>8, <2>9, NoOrderIs DEF Kept
  <2> QED  BY <2>5, <2>7, <2>10 DEF MigrationInv
<1> QED  BY <1>1, <1>2 DEF Init

(* What alembic upgrade head does to a database: at every step, from       *)
(* whatever tables it had, the schema is one that the applied revisions    *)
(* and those begun can have left, and what remains of the migration that   *)
(* runs, runs from it; for every set of images and any number of stops in  *)
(* the middle.                                                             *)
THEOREM MigrationInvariant == Spec => []MigrationInv
<1>1. Init => MigrationInv
  BY MigrationStarts
<1>2. MigrationInv /\ [Next]_vars => MigrationInv'
  BY MigrationStep
<1> QED  BY <1>1, <1>2, PTL DEF Spec

(* The start of a container (Dockerfile: alembic upgrade head, then the    *)
(* server) fails only at one of the nine migrations that cannot run again, *)
(* and only after a container has stopped in the middle of it, as far as   *)
(* the schema decides it (no rows that a unique index refuses).            *)
THEOREM OnlyInterrupted == Spec => []OnlyInterruptedFails
<1>1. MigrationInv => OnlyInterruptedFails
  <2> SUFFICES ASSUME MigrationInv PROVE OnlyInterruptedFails
    OBVIOUS
  <2>1. phase = "failed" => running.revision \in interrupted \cap Fragile
    BY DEF MigrationInv, Upgradable
  <2>2. running.revision \in Pending \cup {""}
    <3>1. CASE running = Nothing
      BY <3>1, NothingIs
    <3>2. CASE running # Nothing
      BY <3>2, RunningIs DEF MigrationInv
    <3> QED  BY <3>1, <3>2
  <2>3. ASSUME NEW fact \in db.schema \cup now.schema
        PROVE  {fact[i] : i \in DOMAIN fact \ {2}} \subseteq Tables(now.schema)
    <3>1. fact \in now.schema /\ now.schema \in Good(applied, Begun)
      BY DEF MigrationInv, Upgradable
    <3>2. fact \in AllFacts /\ Consistent(now.schema)
      BY <3>1, GoodIs
    <3>3. ASSUME NEW t, <<t>> \in now.schema PROVE t \in Tables(now.schema)
      BY <3>3 DEF Tables
    <3>4. fact[1] \in Tables(now.schema)
      BY <3>1, <3>2, <3>3 DEF Consistent
    <3>5. CASE fact = <<fact[1]>>
      <4>1. DOMAIN fact = 1 .. 1
        BY <3>5
      <4> QED  BY <3>4, <4>1
    <3>6. CASE fact = <<fact[1], fact[2]>>
      <4>1. DOMAIN fact = 1 .. 2
        BY <3>6
      <4> QED  BY <3>4, <4>1
    <3>7. CASE fact = <<fact[1], "->", fact[3]>>
      <4>1. DOMAIN fact = 1 .. 3
        BY <3>7
      <4>2. <<fact[3]>> \in now.schema
        <5>1. fact[1] \in TableNames /\ fact[3] \in TableNames
          BY <3>2, <3>7, FactIs
        <5> QED  BY <3>1, <3>2, <3>7, <5>1 DEF Consistent
      <4>3. fact[3] \in Tables(now.schema)
        BY <3>3, <4>2
      <4> QED  BY <3>4, <4>1, <4>3
    <3> QED  BY <3>2, <3>5, <3>6, <3>7, FactShape
  <2>4. MigrationTypeOK
    BY <2>2, <2>3 DEF MigrationInv, DeployType, Upgradable, MigrationTypeOK
  <2> QED  BY <2>1, <2>4 DEF OnlyInterruptedFails
<1> QED  BY <1>1, MigrationInvariant, PTL

(* A container of the newest image serves only when the database has every *)
(* table and column of src/models, and of the old catalog nothing but the  *)
(* images; whatever was interrupted and however far behind it was.         *)
THEOREM NewestSchema == Spec => []HeadSchema
<1>1. MigrationInv => HeadSchema
  <2> SUFFICES ASSUME MigrationInv, Serving
               PROVE  /\ ModelSchema \subseteq db.schema
                      /\ Tables(db.schema \ ModelSchema) \subseteq {"product_images", "locale_overrides"}
    BY DEF HeadSchema
  <2>1. applied = Revisions /\ Begun = Revisions
    BY AllApplied, KnownIs DEF Serving
  <2>2. db.schema \in Good(Revisions, Revisions)
    BY <2>1 DEF MigrationInv, Upgradable
  <2>3. db.schema \subseteq Allowed(Revisions, Revisions) /\ Owed(Revisions, Revisions) \subseteq db.schema
    BY <2>2, GoodIs
  <2>4. Tables(db.schema \ ModelSchema) \subseteq Tables(Allowed(Revisions, Revisions) \ ModelSchema)
    BY <2>3 DEF Tables
  <2> QED  BY <2>3, <2>4, ModelIsGood
<1> QED  BY <1>1, MigrationInvariant, PTL

(* The revision 4b91c7d8e205 moves what a customer chose to other columns  *)
(* and drops the old ones in statements of their own: wherever it is       *)
(* stopped, the choice is committed in the old column or the new one, and  *)
(* once it is applied, in the new ones.                                    *)
THEOREM DeliverySurvives == Spec => []DeliveryIsKept
<1>1. MigrationInv => DeliveryIsKept
  BY DEF MigrationInv, Kept, DeliveryIsKept, Payload, Recovered, Converted
<1> QED  BY <1>1, MigrationInvariant, PTL
=============================================================================
