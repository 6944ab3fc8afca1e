----------------------------- MODULE Migrations -----------------------------
(***************************************************************************)
(* A container that upgrades the database before it serves (Dockerfile:    *)
(* alembic upgrade head && exec uvicorn) and is restarted whenever it ends *)
(* (docker-compose.yml: restart: unless-stopped), over every revision of   *)
(* alembic/versions.                                                       *)
(*                                                                         *)
(* MySQL commits at every DDL statement; what the rows' statements wrote   *)
(* before it is committed with it.  Alembic gives each migration one       *)
(* transaction, whose commit writes the rows' last statements and the      *)
(* revision together.  A container that stops in between leaves the schema *)
(* where it is, and the same migration runs again from its beginning.      *)
(*                                                                         *)
(* A statement fails here by the schema alone.  What the rows can make fail*)
(* is not described: the unique index of b1f7c52d4d8a over two overrides of*)
(* one locale and key, or JSON that 4b91c7d8e205 cannot read.              *)
(***************************************************************************)
EXTENDS Naturals, FiniteSetsExt, SequencesExt

CONSTANTS
  Images,     \* the revisions at which a container was built
  MaxFaults   \* bound: containers that stop

VARIABLES
  image,       \* the newest revision the deployed container has
  phase,       \* of the container: down, migrating, failed, serving
  applied,     \* alembic_version, with every revision below it
  db,          \* what MySQL has committed: schema and rows
  now,         \* what the migrating connection sees
  running,     \* the migration that runs, and its statements still to do
  interrupted, \* the migrations that were running when a container stopped
  faults

migrationVars == <<image, phase, applied, db, now, running, interrupted, faults>>

-----------------------------------------------------------------------------
(* A schema is a set of facts: <<t>> the table exists, <<t, part>> it has  *)
(* the column, index or enum member, <<t, "->", u>> it references u.       *)

Ddl(needs, bars, adds, removes) ==
  [rows |-> "", needs |-> needs, bars |-> bars, adds |-> adds, removes |-> removes]

Dml(rows, needs) == [Ddl(needs, {}, {}, {}) EXCEPT !.rows = rows]

CreateWith(table, columns, references) ==
  <<Ddl({<<u>> : u \in references}, {<<table>>},
        {<<table>>} \cup {<<table, c>> : c \in columns} \cup {<<table, "->", u>> : u \in references}, {})>>

\* Columns no later migration touches are not named.
Create(table, references) == CreateWith(table, {}, references)

Add(table, part) == <<Ddl({<<table>>}, {<<table, part>>}, {<<table, part>>}, {})>>

AddKey(table, u) == <<Ddl({<<table>>, <<u>>}, {<<table, "->", u>>}, {<<table, "->", u>>}, {})>>

\* ALTER TABLE ... MODIFY, which may be repeated.
Ensure(table, part) == <<Ddl({<<table>>}, {}, {<<table, part>>}, {})>>

DropPart(table, part) == <<Ddl({<<table, part>>}, {}, {}, {<<table, part>>})>>

Tables(schema) == {fact[1] : fact \in schema}

\* MySQL refuses to drop a table that another one references.
Drop(schema, table) ==
  LET others == Tables(schema) \ {table}
  IN  <<Ddl({<<table>>}, {<<u, "->", table>> : u \in others}, {}, {fact \in schema : fact[1] = table})>>

Rename(schema, table, name) ==
  LET own == {fact \in schema : table \in {fact[i] : i \in DOMAIN fact}}
  IN  <<Ddl({<<table>>}, {<<name>>},
            {[i \in DOMAIN fact |-> IF fact[i] = table THEN name ELSE fact[i]] : fact \in own}, own)>>

When(condition, statements) == IF condition THEN statements ELSE <<>>

DropIfExists(schema, table) == When(<<table>> \in schema, Drop(schema, table))

Each(table, parts) == [i \in 1 .. Len(parts) |-> Add(table, parts[i])[1]]

-----------------------------------------------------------------------------
(* The migrations: their statements, from the schema they find.  Where the *)
(* code inspects the schema again between two statements, those before it  *)
(* do not change what it looks for.                                        *)

LocaleIndex == <<"locale_overrides", "uq_locale_overrides_locale_key">>

\* Over rows no two of which have the same locale and key.
AddLocaleIndex(s) ==
  When(<<"locale_overrides">> \in s /\ LocaleIndex \notin s, Add(LocaleIndex[1], LocaleIndex[2]))

DropLocaleIndex(s) == When(LocaleIndex \in s, DropPart(LocaleIndex[1], LocaleIndex[2]))

CreateSettings(s) == When(<<"settings">> \notin s, Create("settings", {}))

AddSettingsKey(s, key) == When(<<"settings">> \in s, Ensure("settings", key))

AddChangeEvents == Create("change_events", {}) \o Add("change_events", "ix_event_type")

OneCCategories(s) ==
  DropIfExists(s, "category_translations") \o DropIfExists(s, "categories")
    \o Create("categories", {}) \o Add("categories", "ix_eid")

OneCRuns(s) ==
  When(<<"onec_import_runs">> \notin s, Create("onec_import_runs", {}) \o Add("onec_import_runs", "ix_source_md5"))

OneCProperties(s) ==
  When(<<"properties">> \notin s, Create("properties", {}) \o Add("properties", "ix_eid"))
    \o When(<<"propery_options">> \notin s,
            Create("propery_options", {"properties"}) \o Each("propery_options", <<"ix_eid", "ix_property_id">>))

\* _create_products, _create_product_images, _create_product_attributes and
\* _create_offers; options is the table of the options.
OneCProducts(s, options) ==
  When(<<"products">> \notin s,
       Create("products", {"categories", "onec_import_runs"})
         \o Each("products", <<"ix_eid", "ix_category_id", "ix_last_seen_import_run_id">>))
    \o When(<<"product_images">> \notin s,
            Create("product_images", {"products"}) \o Each("product_images", <<"ix_eid", "ix_product_id">>))
    \o When(<<"product_attributes">> \notin s,
            Create("product_attributes", {options, "products", "properties"})
              \o Each("product_attributes", <<"ix_eid", "ix_option_id", "ix_product_id", "ix_property_id">>))
    \o When(<<"offers">> \notin s, Create("offers", {"products"}) \o Each("offers", <<"ix_eid", "ix_product_id">>))

AddOneCCatalog(s) == OneCCategories(s) \o OneCRuns(s) \o OneCProperties(s) \o OneCProducts(s, "propery_options")

\* (mutant) Without a look at the columns, as the oldest migrations do.
RenamePropertyOptionsAlways(s) ==
  When(<<"propery_options">> \in s, Rename(s, "propery_options", "property_options"))
    \o Each("property_options", <<"name", "icon">>)

RenamePropertyOptions(s) ==
  LET renames == <<"propery_options">> \in s /\ <<"property_options">> \notin s
      has(part) == <<IF renames THEN "propery_options" ELSE "property_options", part>> \in s
  IN  When(renames, Rename(s, "propery_options", "property_options"))
        \o When(renames \/ <<"property_options">> \in s,
                When(~has("name"), Add("property_options", "name"))
                  \o When(~has("icon"), Add("property_options", "icon")))

AddParentCategory(s) ==
  When(<<"properties">> \in s,
       When(<<"properties", "parent_category_id">> \notin s, Add("properties", "parent_category_id"))
         \o When(<<"properties", "->", "categories">> \notin s, AddKey("properties", "categories"))
         \o When(<<"properties", "ix_parent_category_id">> \notin s, Add("properties", "ix_parent_category_id")))

AddPropertyIndex(s) ==
  When(<<"properties">> \in s /\ <<"properties", "index">> \notin s, Add("properties", "index"))

RepairTables(s) == OneCRuns(s) \o OneCProducts(s, "property_options")

AddPurchases == CreateWith("purchases", {"payment_method", "payment_status"}, {}) \o Add("purchases", "ix_uuid")

AddPayments ==
  Create("payments", {}) \o Each("payments", <<"ix_uuid", "ix_idempotency_key", "ix_external_payment_id">>)
    \o Each("purchases", <<"payment_id", "ix_payment_id">>) \o AddKey("purchases", "payments")

DecouplePayment == DropPart("purchases", "payment_status") \o DropPart("purchases", "payment_method")

\* MySQL refuses a value that is not a member of the column's enum.
AwaitPayment ==
  Ensure("purchases", "AWAITING_PAYMENT") \o <<Dml("awaiting", {<<"purchases", "AWAITING_PAYMENT">>})>>

NewProducts ==
  Create("categories", {}) \o Create("products", {"categories"}) \o Create("product_variants", {"products"})

NewAttributes ==
  Create("attributes", {}) \o Create("attribute_options", {"attributes"})
    \o Create("product_attributes", {"attribute_options", "product_variants"})
    \o Create("product_images", {"products"}) \o Add("product_images", "ix_product_id")
    \o Create("offers", {"product_variants"}) \o Add("offers", "ix_variant_id")

NewSubmissions == Create("purchase_submissions", {"purchases"})

DropOffers(s) ==
  DropIfExists(s, "offers") \o DropIfExists(s, "product_attributes") \o DropIfExists(s, "attribute_options")

DropProducts(s) ==
  DropIfExists(s, "product_images") \o DropIfExists(s, "product_variants") \o DropIfExists(s, "products")

DropProperties(s) ==
  DropIfExists(s, "property_options") \o DropIfExists(s, "propery_options") \o DropIfExists(s, "properties")

\* (mutant) A table of the old catalog is forgotten.
ReplaceCatalogPartly(s) ==
  DropOffers(s) \o DropProducts(s) \o DropProperties(s) \o DropIfExists(s, "categories")
    \o NewProducts \o NewAttributes \o NewSubmissions

ReplaceCatalog(s) ==
  DropOffers(s) \o DropProducts(s) \o DropProperties(s)
    \o DropIfExists(s, "onec_import_runs") \o DropIfExists(s, "categories")
    \o NewProducts \o NewAttributes \o NewSubmissions

AddSyncTasks ==
  Create("sync_tasks", {}) \o Add("sync_tasks", "ix_status_updated")
    \o Create("sync_attempts", {"sync_tasks"}) \o Each("sync_attempts", <<"ix_task_id", "ix_created">>)

ExpandStrings == Ensure("products", "length_255") \o Ensure("product_variants", "length_255")

OldFields == <<"environment", "request_payload", "response_payload", "operations">>

AddDelivery == Create("integration_configs", {}) \o CreateWith("delivery_shipments", ToSet(OldFields), {"purchases"})

RequiredFields == <<"details", "registration", "editing", "cancellation", "pickup", "waybill", "barcode">>

NewFields == <<"details", "request_hash", "registration", "editing", "cancellation", "pickup", "waybill", "barcode">>

\* The rows of both tables are read after the columns are added, and a shipment
\* is converted from the columns that are dropped below.
Convert ==
  <<Dml("recover", {<<"purchases", "delivery">>}),
    Dml("convert", {<<"purchases", "delivery">>} \cup {<<"delivery_shipments", f>> : f \in ToSet(OldFields \o NewFields)})>>

DropOldFields == [i \in 1 .. Len(OldFields) |-> DropPart("delivery_shipments", OldFields[i])[1]]

\* (mutant) The rows are read before and written after the old columns go.
SimplifyDeliveryLate ==
  Add("purchases", "delivery") \o Each("delivery_shipments", NewFields) \o DropOldFields
    \o <<Dml("recover", {}), Dml("convert", {})>>

RequireNewFields == [i \in 1 .. Len(RequiredFields) |-> Ensure("delivery_shipments", RequiredFields[i])[1]]

\* Making the new columns NOT NULL commits the converted rows; the configurations
\* lose their environment in the transaction of the revision.
SimplifyDelivery ==
  Add("purchases", "delivery") \o Each("delivery_shipments", NewFields) \o Convert
    \o RequireNewFields \o DropOldFields

AddAssembling == Ensure("purchases", "ASSEMBLING")

Statements(revision, s) ==
  CASE revision = "b1f7c52d4d8a" -> AddLocaleIndex(s)
    [] revision = "4127d08610dd" -> DropLocaleIndex(s)
    [] revision = "f7f9e6f1a2b3" -> CreateSettings(s)
    [] revision = "3e7b2b1d9c4f" -> AddChangeEvents
    [] revision = "8b7f9c1e4a2d" -> AddSettingsKey(s, "MAP")
    [] revision = "e4b7c1d2a9f0" -> AddOneCCatalog(s)
    [] revision = "6a3d8f1c2b7e" -> RenamePropertyOptions(s)
    [] revision = "1d7e6c4b9a10" -> AddParentCategory(s)
    [] revision = "2d4a6b8c9e10" -> AddSettingsKey(s, "PRODUCTS_PAGE_LIMIT")
    [] revision = "a5c2d9e7b341" -> AddPropertyIndex(s)
    [] revision = "d4f8a1b2c3e9" -> RepairTables(s)
    [] revision = "6b2f4d9a8c10" -> AddPurchases
    [] revision = "9c3e1f7a4b20" -> AddPayments
    [] revision = "b7a2d4c9e8f1" -> DecouplePayment
    [] revision = "1f2a3b4c5d6e" -> AwaitPayment
    [] revision = "59ca8b5b7134" -> ReplaceCatalog(s)
    [] revision = "7e4a9c2b1d60" -> AddSyncTasks
    [] revision = "0f6d28a4b193" -> ExpandStrings
    [] revision = "2e8c6a4d9b10" -> AddDelivery
    [] revision = "4b91c7d8e205" -> SimplifyDelivery
    [] revision = "6c28d90ea413" -> AddAssembling
    [] OTHER -> <<>>

Revisions ==
  {"cc400eadf331", "d8137da72246", "b1f7c52d4d8a", "569a3336d37a", "4127d08610dd", "f7f9e6f1a2b3", "3e7b2b1d9c4f",
   "8b7f9c1e4a2d", "e4b7c1d2a9f0", "6a3d8f1c2b7e", "1d7e6c4b9a10", "2d4a6b8c9e10", "a5c2d9e7b341", "c9f1e4a2d8b6",
   "d4f8a1b2c3e9", "6b2f4d9a8c10", "9c3e1f7a4b20", "b7a2d4c9e8f1", "1f2a3b4c5d6e", "59ca8b5b7134", "7e4a9c2b1d60",
   "0f6d28a4b193", "2e8c6a4d9b10", "4b91c7d8e205", "6c28d90ea413"}

\* down_revision; four revisions do nothing.
Down == [revision \in Revisions |->
  CASE revision = "cc400eadf331" -> {}
    [] revision = "d8137da72246" -> {"cc400eadf331"}
    [] revision = "b1f7c52d4d8a" -> {"cc400eadf331"}
    [] revision = "569a3336d37a" -> {"d8137da72246", "b1f7c52d4d8a"}
    [] revision = "4127d08610dd" -> {"569a3336d37a"}
    [] revision = "f7f9e6f1a2b3" -> {"4127d08610dd"}
    [] revision = "3e7b2b1d9c4f" -> {"f7f9e6f1a2b3"}
    [] revision = "8b7f9c1e4a2d" -> {"f7f9e6f1a2b3"}
    [] revision = "e4b7c1d2a9f0" -> {"3e7b2b1d9c4f", "8b7f9c1e4a2d"}
    [] revision = "6a3d8f1c2b7e" -> {"e4b7c1d2a9f0"}
    [] revision = "1d7e6c4b9a10" -> {"6a3d8f1c2b7e"}
    [] revision = "2d4a6b8c9e10" -> {"1d7e6c4b9a10"}
    [] revision = "a5c2d9e7b341" -> {"1d7e6c4b9a10"}
    [] revision = "c9f1e4a2d8b6" -> {"2d4a6b8c9e10", "a5c2d9e7b341"}
    [] revision = "d4f8a1b2c3e9" -> {"c9f1e4a2d8b6"}
    [] revision = "6b2f4d9a8c10" -> {"d4f8a1b2c3e9"}
    [] revision = "9c3e1f7a4b20" -> {"6b2f4d9a8c10"}
    [] revision = "b7a2d4c9e8f1" -> {"9c3e1f7a4b20"}
    [] revision = "1f2a3b4c5d6e" -> {"b7a2d4c9e8f1"}
    [] revision = "59ca8b5b7134" -> {"1f2a3b4c5d6e"}
    [] revision = "7e4a9c2b1d60" -> {"59ca8b5b7134"}
    [] revision = "0f6d28a4b193" -> {"7e4a9c2b1d60"}
    [] revision = "2e8c6a4d9b10" -> {"0f6d28a4b193"}
    [] revision = "4b91c7d8e205" -> {"2e8c6a4d9b10"}
    [] revision = "6c28d90ea413" -> {"4b91c7d8e205"}]

\* A revision and those below it.
Known[revision \in Revisions] == {revision} \cup UNION {Known[r] : r \in Down[revision]}

Newest == "6c28d90ea413"

ASSUME MigrationAssumption == Images \subseteq Revisions /\ MaxFaults \in Nat

-----------------------------------------------------------------------------
(* The container.                                                          *)

Nothing == [revision |-> "", todo |-> <<>>]

Pending == {r \in Known[image] \ applied : Down[r] \subseteq applied}

\* The tables a database has when its first migration runs: some are not the
\* migrations' work (README).
Before ==
  {UNION some : some \in SUBSET
     {{<<"locale_overrides">>, LocaleIndex}, {<<"settings">>},
      {<<"categories">>, <<"category_translations">>, <<"category_translations", "->", "categories">>}}}

NoOrder == [status |-> "none", embedded |-> FALSE, delivery |-> "none", shipped |-> FALSE, details |-> FALSE]

MigrationInit ==
  /\ image \in Images /\ phase = "migrating"
  /\ applied = {}
  /\ db \in [schema : Before, rows : {NoOrder}]
  /\ now = db
  /\ running = Nothing /\ interrupted = {} /\ faults = 0

\* alembic runs them from the lowest; of two branches either may be first.
Begin ==
  /\ phase = "migrating" /\ running = Nothing
  /\ \E r \in Pending : running' = [revision |-> r, todo |-> Statements(r, db.schema)]
  /\ UNCHANGED <<image, phase, applied, db, now, interrupted, faults>>

Possible(statement) == statement.needs \subseteq now.schema /\ statement.bars \cap now.schema = {}

Statement == running.todo[1]

Executes(possible) ==
  /\ phase = "migrating" /\ running.todo # <<>>
  /\ Possible(Statement) = possible

DdlStatement ==
  /\ Executes(TRUE) /\ Statement.rows = ""
  /\ now' = [now EXCEPT !.schema = (@ \ Statement.removes) \cup Statement.adds]
  /\ db' = now'
  /\ running' = [running EXCEPT !.todo = Tail(@)]
  /\ UNCHANGED <<image, phase, applied, interrupted, faults>>

\* What an UPDATE of a migration leaves.
Updated(rows, update) ==
  CASE update = "awaiting" /\ rows.status = "PROCESSING" -> [rows EXCEPT !.status = "AWAITING_PAYMENT"]
    [] update = "recover" /\ rows.embedded -> [rows EXCEPT !.delivery = "embedded"]
    [] update = "convert" /\ rows.shipped -> [rows EXCEPT !.details = TRUE, !.delivery = "shipment"]
    [] OTHER -> rows

RowsStatement ==
  /\ Executes(TRUE) /\ Statement.rows # ""
  /\ now' = [now EXCEPT !.rows = Updated(@, Statement.rows)]
  /\ running' = [running EXCEPT !.todo = Tail(@)]
  /\ UNCHANGED <<image, phase, applied, db, interrupted, faults>>

\* MySQL refuses the statement: alembic ends, and the container with it.
Fails ==
  /\ Executes(FALSE)
  /\ phase' = "failed"
  /\ now' = db
  /\ UNCHANGED <<image, applied, db, running, interrupted, faults>>

\* The version is written and the migration's transaction committed.
Stamp ==
  /\ phase = "migrating" /\ running # Nothing /\ running.todo = <<>>
  /\ applied' = applied \cup {running.revision}
  /\ db' = now
  /\ running' = Nothing
  /\ UNCHANGED <<image, phase, now, interrupted, faults>>

Serve ==
  /\ phase = "migrating" /\ running = Nothing /\ Pending = {}
  /\ phase' = "serving"
  /\ UNCHANGED <<image, applied, db, now, running, interrupted, faults>>

\* The container is killed, or loses the database.
Stop ==
  /\ phase \in {"migrating", "serving"} /\ faults < MaxFaults
  /\ phase' = "down"
  /\ interrupted' = interrupted \cup ({running.revision} \ {""})
  /\ now' = db
  /\ running' = Nothing
  /\ faults' = faults + 1
  /\ UNCHANGED <<image, applied, db>>

\* (mutant) restart: no, or the container is replaced by hand.
RestartFailed ==
  /\ phase = "failed"
  /\ phase' = "migrating"
  /\ running' = Nothing
  /\ UNCHANGED <<image, applied, db, now, interrupted, faults>>

Restart ==
  /\ phase \in {"down", "failed"}
  /\ phase' = "migrating"
  /\ running' = Nothing
  /\ UNCHANGED <<image, applied, db, now, interrupted, faults>>

\* A newer container takes the place of one that does not migrate.
Deploy ==
  /\ phase # "migrating"
  /\ \E i \in Images : i # image /\ image \in Known[i] /\ image' = i
  /\ phase' = "migrating"
  /\ running' = Nothing
  /\ UNCHANGED <<applied, db, now, interrupted, faults>>

\* The rows a container has written before the delivery was simplified: its
\* purchase may have the delivery in contact_info, and its shipment the request
\* it sent.
Write ==
  /\ phase = "serving" /\ "4b91c7d8e205" \notin Known[image]
  /\ \/ /\ <<"purchases">> \in db.schema /\ db.rows = NoOrder
        /\ \E status \in {"CREATED", "PROCESSING"}, embedded \in BOOLEAN :
             db' = [db EXCEPT !.rows.status = status, !.rows.embedded = embedded]
     \/ /\ <<"delivery_shipments">> \in db.schema /\ db.rows # NoOrder /\ ~db.rows.shipped
        /\ db' = [db EXCEPT !.rows.shipped = TRUE]
  /\ now' = db'
  /\ UNCHANGED <<image, phase, applied, running, interrupted, faults>>

UpgradeStep == Begin \/ DdlStatement \/ RowsStatement \/ Fails \/ Stamp \/ Serve

MigrationNext == UpgradeStep \/ Stop \/ Restart \/ Deploy \/ Write

Serving == phase = "serving" /\ image = Newest

-----------------------------------------------------------------------------
(* Properties.                                                             *)

\* Facts are of tables that exist, references are to tables that exist.
MigrationTypeOK ==
  /\ image \in Images \cup {Newest}
  /\ phase \in {"down", "migrating", "failed", "serving"}
  /\ applied \subseteq Known[image] /\ interrupted \subseteq Known[image]
  /\ running.revision \in Pending \cup {""}
  /\ faults \in 0 .. MaxFaults
  /\ \A fact \in db.schema \cup now.schema : {fact[i] : i \in DOMAIN fact \ {2}} \subseteq Tables(now.schema)
  /\ running = Nothing => now = db

\* Migrations that cannot run again after they have begun.
Fragile ==
  {"3e7b2b1d9c4f", "e4b7c1d2a9f0", "6b2f4d9a8c10", "9c3e1f7a4b20", "b7a2d4c9e8f1", "59ca8b5b7134",
   "7e4a9c2b1d60", "2e8c6a4d9b10", "4b91c7d8e205"}

\* An upgrade fails only at one of the nine migrations, after a container has
\* stopped in the middle of it: from whatever tables the database had and however
\* many revisions it is behind, the others can run again from any point.  And what
\* the schema says stays consistent.  This is about the schema: rows that a unique
\* index or a conversion refuses (b1f7c52d4d8a, 4b91c7d8e205) are assumed away.
OnlyInterruptedFails ==
  MigrationTypeOK /\ (phase = "failed" => running.revision \in interrupted \cap Fragile)

\* The tables of src/models that migrations make.
ModelSchema ==
  {<<"settings">>, <<"settings", "MAP">>, <<"settings", "PRODUCTS_PAGE_LIMIT">>,
   <<"change_events">>, <<"change_events", "ix_event_type">>,
   <<"categories">>, <<"products">>, <<"products", "length_255">>, <<"products", "->", "categories">>,
   <<"product_variants">>, <<"product_variants", "length_255">>, <<"product_variants", "->", "products">>,
   <<"attributes">>, <<"attribute_options">>, <<"attribute_options", "->", "attributes">>,
   <<"product_attributes">>, <<"product_attributes", "->", "attribute_options">>,
   <<"product_attributes", "->", "product_variants">>,
   <<"offers">>, <<"offers", "ix_variant_id">>, <<"offers", "->", "product_variants">>,
   <<"purchases">>, <<"purchases", "ix_uuid">>, <<"purchases", "payment_id">>, <<"purchases", "ix_payment_id">>,
   <<"purchases", "->", "payments">>, <<"purchases", "AWAITING_PAYMENT">>, <<"purchases", "ASSEMBLING">>,
   <<"purchases", "delivery">>, <<"purchase_submissions">>, <<"purchase_submissions", "->", "purchases">>,
   <<"payments">>, <<"payments", "ix_uuid">>, <<"payments", "ix_idempotency_key">>,
   <<"payments", "ix_external_payment_id">>,
   <<"sync_tasks">>, <<"sync_tasks", "ix_status_updated">>, <<"sync_attempts">>,
   <<"sync_attempts", "->", "sync_tasks">>, <<"sync_attempts", "ix_task_id">>, <<"sync_attempts", "ix_created">>,
   <<"integration_configs">>, <<"delivery_shipments">>, <<"delivery_shipments", "->", "purchases">>}
  \cup {<<"delivery_shipments", f>> : f \in ToSet(NewFields)}

\* A container of the newest revision serves with the schema its models declare,
\* whatever was interrupted on the way, with nothing of the old catalog and no
\* column its inserts would not fill; product_images has no model any more.
HeadSchema ==
  Serving => /\ ModelSchema \subseteq db.schema
             /\ Tables(db.schema \ ModelSchema) \subseteq {"product_images", "locale_overrides"}

\* The delivery a customer chose is never lost: a shipment has its request or the
\* details made from it in what MySQL has committed, and once the revision that
\* restores purchases.delivery is applied, the purchase has it.
DeliveryIsKept ==
  /\ db.rows.shipped => db.rows.details \/ <<"delivery_shipments", "request_payload">> \in db.schema
  /\ "4b91c7d8e205" \in applied =>
       /\ db.rows.shipped => db.rows.details /\ db.rows.delivery = "shipment"
       /\ db.rows.embedded => db.rows.delivery # "none"

Stuck == (interrupted \cap Fragile) \ applied # {}

\* The container serves again after it has stopped, unless a migration that
\* cannot run again has been interrupted.
Recovers == []<>(phase = "serving" \/ Stuck)
=============================================================================
