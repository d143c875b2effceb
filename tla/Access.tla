------------------------------- MODULE Access -------------------------------
(***************************************************************************)
(* Who may call which endpoint of main-service, which tables the call      *)
(* reads and writes, and the events it publishes: one definition per route *)
(* file (the *.route.ts files) and the guards they share (shared/rbac.ts). *)
(***************************************************************************)
EXTENDS TLC

Roles == {"super_admin", "owner", "staff", "ngo_admin", "ngo_volunteer"}

Matrix ==
  LET stock == {"inventory.read", "inventory.write", "prep.write", "leftover.write"}
      office == {"reports.read", "users.manage", "settings.write"}
  IN  "super_admin" :> (stock \cup office \cup
         {"ngo.verify", "verification.submit", "platform.analytics"})
   @@ "owner" :> (stock \cup office \cup
         {"disposition.decide", "listing.price", "listing.claim", "listing.complete"})
   @@ "staff" :> (stock \cup {"listing.complete", "reports.read"})
   @@ "ngo_admin" :> (office \cup
         {"listing.claim", "listing.complete", "verification.submit"})
   @@ "ngo_volunteer" :> {"listing.complete"}

\* A person's own rule for a permission goes before the rule of the role.
HasPermissionFor(role, overrides, permission) ==
  IF permission \in DOMAIN overrides THEN overrides[permission]
  ELSE permission \in Matrix[role]

\* Mutant: everybody in the console is taken for the owner.
PermissionsOfOwner(role) == Matrix["owner"]
PermissionsForRole(role) == Matrix[role]

\* A super admin has no tenant and signs in as a restaurant's.
TenantType(role) == IF role \in {"ngo_admin", "ngo_volunteer"} THEN "ngo" ELSE "restaurant"

-----------------------------------------------------------------------------
\* An endpoint that asks for a session only needs "session"; "service" is the bot's token.
Reads(needs, tables) ==
  [needs |-> needs, only |-> {"restaurant", "ngo"}, roles |-> Roles,
   reads |-> tables, writes |-> {}, tells |-> {}]

Writes(needs, tables) == [Reads(needs, {}) EXCEPT !.writes = tables]

Only(type, endpoint) == [endpoint EXCEPT !.only = {type}]

Telling(endpoint, events) == [endpoint EXCEPT !.tells = events]

\* requireSession, requireTenantType and requirePermission, in the handlers' order.
MayCall(role, overrides, endpoint) ==
  /\ TenantType(role) \in endpoint.only
  /\ \/ endpoint.needs = "session"
     \/ HasPermissionFor(role, overrides, endpoint.needs)
  /\ role \in endpoint.roles

-----------------------------------------------------------------------------
AdminRoute ==
     "GET /v1/admin/tenants" :> Reads("ngo.verify", {"tenants", "profile", "users"})
  @@ "GET /v1/admin/tenants/:id" :> Reads("ngo.verify", {"tenants", "profile", "users"})
  @@ "POST /v1/admin/tenants/:id/verify" :>
       [Writes("ngo.verify", {"profile", "audit", "notifications"})
          EXCEPT !.roles = {"super_admin"}]
  @@ "GET /v1/admin/analytics" :>
       Reads("platform.analytics", {"tenants", "profile", "users", "dispositions"})

AnalyticsRoute ==
     "GET /v1/dashboard" :>
       Reads("reports.read", {"prep", "dishes", "leftovers", "dispositions", "listings"})
  @@ "GET /v1/analytics/waste" :> Reads("reports.read", {"leftovers", "dispositions", "dishes"})
  @@ "GET /v1/analytics/recovery" :>
       Reads("reports.read", {"leftovers", "dispositions", "dishes"})
  @@ "GET /v1/analytics/dishes" :>
       Reads("reports.read", {"prep", "leftovers", "dispositions", "dishes"})
  @@ "GET /v1/forecasts" :> Reads("reports.read", {"predictions"})

InsightsRoute == "GET /v1/insights" :> Reads("reports.read", {"predictions"})

\* The calls without a session are not in the table: register, login, refresh,
\* logout, forgot and reset are the actions of Sessions.
AuthRoute == "GET /v1/auth/me" :> Reads("session", {"users", "tenants", "profile"})

SessionsRoute ==
     "GET /v1/sessions" :> Reads("session", {"sessions"})
  @@ "DELETE /v1/sessions/:family" :> Writes("session", {"sessions"})

BotRoute ==
     "POST /v1/bot/bind" :> Writes("service", {"links", "chats"})
  @@ "POST /v1/bot/session" :> Writes("service", {"links"})
  @@ "DELETE /v1/bot/bind/:chatId" :> Writes("service", {"links", "chats"})

CatalogRoute ==
     "GET /v1/dishes" :> Reads("inventory.read", {"dishes"})
  @@ "POST /v1/dishes" :> Writes("inventory.write", {"dishes"})
  @@ "PATCH /v1/dishes/:id" :> Writes("inventory.write", {"dishes"})
  @@ "DELETE /v1/dishes/:id" :> Writes("inventory.write", {"dishes"})

DishRecipeRoute ==
     "GET /v1/dishes/:id/recipe" :> Reads("inventory.read", {"recipes", "ingredients"})
  @@ "PUT /v1/dishes/:id/recipe" :> Writes("inventory.write", {"recipes"})

IngredientsRoute ==
     "GET /v1/ingredients" :> Reads("inventory.read", {"ingredients"})
  @@ "POST /v1/ingredients" :> Writes("inventory.write", {"ingredients"})
  @@ "PATCH /v1/ingredients/:id" :> Writes("inventory.write", {"ingredients"})
  @@ "GET /v1/ingredients/:id" :> Reads("inventory.read", {"ingredients"})

SuppliersRoute ==
     "GET /v1/suppliers" :> Reads("inventory.read", {"suppliers"})
  @@ "POST /v1/suppliers" :> Writes("inventory.write", {"suppliers"})
  @@ "PATCH /v1/suppliers/:id" :> Writes("inventory.write", {"suppliers"})
  @@ "DELETE /v1/suppliers/:id" :> Writes("inventory.write", {"suppliers"})

EventsRoute == "GET /v1/events" :> Reads("session", {})

InventoryRoute ==
     "GET /v1/inventory/stock" :> Reads("inventory.read", {"lots", "ingredients"})
  @@ "GET /v1/inventory/lots" :> Reads("inventory.read", {"lots"})
  @@ "GET /v1/inventory/expiring" :> Reads("inventory.read", {"lots", "ingredients"})
  @@ "GET /v1/inventory/movements" :> Reads("inventory.read", {"movements"})
  @@ "POST /v1/inventory/purchases" :> Writes("inventory.write", {"lots", "movements"})
  @@ "POST /v1/inventory/adjustments" :> Writes("inventory.write", {"lots", "movements"})

\* A split that sells or donates opens a listing, and its tenant is told.
LeftoversRoute ==
     "GET /v1/leftovers" :>
       Only("restaurant", Reads("reports.read", {"leftovers", "dishes", "dispositions"}))
  @@ "POST /v1/leftovers" :> Only("restaurant", Writes("leftover.write", {"leftovers"}))
  @@ "POST /v1/leftovers/dispositions" :>
       Only("restaurant", Telling(
         Writes("disposition.decide", {"leftovers", "dispositions", "listings"}),
         {"listing.created"}))
  @@ "GET /v1/leftovers/:id/disposition-suggestion" :>
       Only("restaurant", [Writes("disposition.decide", {"predictions"}) EXCEPT
         !.reads = {"leftovers", "dispositions", "dishes", "profile"}])

\* What the caller's own tenant is told.
ListingsRoute ==
     "GET /v1/listings" :> Reads("reports.read", {"listings"})
  @@ "PATCH /v1/listings/:id" :>
       Telling(Writes("listing.price", {"listings"}), {"listing.updated"})
  @@ "POST /v1/listings/:id/cancel" :>
       Telling(Writes("listing.price", {"listings"}), {"listing.cancelled"})
  @@ "POST /v1/listings/:id/complete" :>
       Telling(Writes("listing.complete", {"listings"}), {"listing.collected"})
  @@ "POST /v1/listings/:id/no-show" :>
       Telling(Writes("listing.complete", {"listings"}), {"listing.no_show"})

\* The owner of the listing is told of a release, not the tenant that released it.
MarketRoute ==
     "GET /v1/market" :> Reads("reports.read", {"listings", "profile"})
  @@ "GET /v1/market/mine" :> Reads("reports.read", {"listings", "profile"})
  @@ "GET /v1/market/pickups" :> Reads("reports.read", {"listings", "profile"})
  @@ "POST /v1/market/:id/claim" :>
       Telling(Writes("listing.claim", {"listings"}), {"market.claim.confirmed"})
  @@ "POST /v1/market/:id/release" :> Writes("listing.claim", {"listings"})

NotificationPreferencesRoute ==
     "GET /v1/notification-preferences" :> Reads("settings.write", {"preferences"})
  @@ "PUT /v1/notification-preferences" :> Writes("settings.write", {"preferences", "audit"})

ProductionRoute ==
     "GET /v1/prep-entries" :> Reads("prep.write", {"prep", "dishes"})
  @@ "GET /v1/prep-entries/:id" :> Reads("prep.write", {"prep", "dishes"})
  @@ "POST /v1/prep-entries" :> Writes("prep.write", {"prep", "lots", "movements"})
  @@ "PATCH /v1/prep-entries/:id" :> Writes("prep.write", {"prep"})
  @@ "GET /v1/leftovers/reuse-pending" :>
       Reads("disposition.decide", {"dispositions", "leftovers", "dishes"})
  @@ "POST /v1/leftovers/:id/reuse-confirmation" :>
       Writes("disposition.decide", {"leftovers", "reuse"})
  @@ "GET /v1/leftovers/:id/reuse-confirmations" :> Reads("disposition.decide", {"reuse"})

\* The download route itself asks for a signature, not for a session.
ReportsRoute ==
     "POST /v1/reports" :> Only("restaurant", Writes("reports.read", {"reports"}))
  @@ "GET /v1/reports" :> Reads("reports.read", {"reports"})
  @@ "GET /v1/reports/:id" :> Reads("reports.read", {"reports"})
  @@ "GET /v1/reports/:id/download" :> Reads("reports.read", {"reports"})

NgoRoute ==
     "GET /v1/ngo" :> Only("ngo", Reads("session", {"profile"}))
  @@ "PATCH /v1/ngo" :> Only("ngo", Writes("settings.write", {"profile", "audit"}))
  @@ "POST /v1/ngo/verification" :>
       Only("ngo", Writes("verification.submit", {"profile", "audit"}))

RestaurantRoute ==
     "GET /v1/restaurant" :> Only("restaurant", Reads("session", {"profile"}))
  @@ "PATCH /v1/restaurant" :> Only("restaurant", Writes("settings.write", {"profile", "audit"}))

TenantRoute ==
     "GET /v1/tenant" :> Reads("session", {"tenants"})
  @@ "PATCH /v1/tenant" :> Writes("settings.write", {"tenants", "audit"})

PermissionsRoute ==
     "GET /v1/users/:id/permissions" :> Reads("users.manage", {"overrides"})
  @@ "PUT /v1/users/:id/permissions/:permission" :>
       Writes("users.manage", {"overrides", "audit"})
  @@ "DELETE /v1/users/:id/permissions/:permission" :>
       Writes("users.manage", {"overrides", "audit"})

UsersRoute ==
     "GET /v1/users" :> Reads("users.manage", {"users"})
  @@ "POST /v1/users" :> Writes("users.manage", {"users", "audit"})
  @@ "GET /v1/users/:id" :> Reads("users.manage", {"users"})
  @@ "PATCH /v1/users/:id" :> Writes("users.manage", {"users", "audit"})
  @@ "DELETE /v1/users/:id" :> Writes("users.manage", {"users", "audit"})

App ==
  AdminRoute @@ AnalyticsRoute @@ InsightsRoute @@ AuthRoute @@ SessionsRoute @@ BotRoute
    @@ CatalogRoute @@ DishRecipeRoute @@ IngredientsRoute @@ SuppliersRoute @@ EventsRoute
    @@ InventoryRoute @@ LeftoversRoute @@ ListingsRoute @@ MarketRoute
    @@ NotificationPreferencesRoute @@ ProductionRoute @@ ReportsRoute @@ NgoRoute
    @@ RestaurantRoute @@ TenantRoute @@ PermissionsRoute @@ UsersRoute

\* An answer without an error; a path that no route has is not found.
Served(role, overrides, path) == path \in DOMAIN App /\ MayCall(role, overrides, App[path])
=============================================================================
