----------------------------- MODULE Deployment -----------------------------
(***************************************************************************)
(* The container of Migrations and what its process keeps or starts:       *)
(* lifespan (main.py) loads the settings and registers the webhooks when   *)
(* it serves, and a container that stops takes both with it.               *)
(*                                                                         *)
(* Settings and webhooks share nothing with each other, and with the       *)
(* migrations only the container's phase: a behaviour exercises one of the *)
(* three, and the other two keep still, so that the states are those of    *)
(* each part and not of their product.                                     *)
(***************************************************************************)
EXTENDS Migrations, WebhookRegistration, ServerSettings

VARIABLE part

vars == <<migrationVars, webhookVars, settingsVars, part>>

\* The newest revision's database.
MigratedInit ==
  /\ image = Newest /\ phase = "migrating"
  /\ applied = Known[Newest]
  /\ db = [schema |-> ModelSchema, rows |-> NoOrder] /\ now = db
  /\ running = Nothing /\ interrupted = {} /\ faults = 0

Init ==
  /\ part \in {"migrations", "webhooks", "settings"}
  /\ IF part = "migrations" THEN MigrationInit ELSE MigratedInit
  /\ WebhookInit /\ (part # "webhooks" => hooks = NoHooks)
  /\ SettingsInit

\* lifespan: the settings, then the webhooks, then requests are answered.
Start ==
  /\ Serve
  /\ IF part = "settings" THEN Load ELSE UNCHANGED settingsVars
  /\ IF part = "webhooks" THEN \E r \in Requests : Startup(r) ELSE UNCHANGED ops
  /\ UNCHANGED <<hooks, lock, outside, touched, last, off, part>>

Shutdown ==
  /\ Stop
  /\ WebhookKill
  /\ UNCHANGED <<settingsVars, part>>

Upgrade ==
  /\ Begin \/ DdlStatement \/ RowsStatement \/ Fails \/ Stamp
  /\ UNCHANGED <<webhookVars, settingsVars, part>>

Container ==
  /\ Restart \/ (part = "migrations" /\ (Deploy \/ Write))
  /\ UNCHANGED <<webhookVars, settingsVars, part>>

Webhooks ==
  /\ part = "webhooks" /\ phase = "serving"
  /\ WebhookNext
  /\ UNCHANGED <<migrationVars, settingsVars, part>>

Settings ==
  /\ part = "settings" /\ phase = "serving"
  /\ SettingsNext
  /\ UNCHANGED <<migrationVars, webhookVars, part>>

Next == Upgrade \/ Start \/ Shutdown \/ Container \/ Webhooks \/ Settings

\* The container's runtime runs the upgrade and restarts what has ended.
Fairness == WF_vars(Upgrade) /\ WF_vars(Start) /\ WF_vars(Restart /\ UNCHANGED <<webhookVars, settingsVars, part>>)

Spec == Init /\ [][Next]_vars /\ Fairness
=============================================================================
