----------------------------- MODULE BotIntents -----------------------------
(***************************************************************************)
(* What the Telegram bot understands and what it does about it: the table  *)
(* of the intents (contracts/intents.ts) and the handlers of the dispatch  *)
(* table (handlers/), each with the calls it makes on main-service and the *)
(* buttons it puts under its reply.                                        *)
(***************************************************************************)
EXTENDS Access

TenantRoles == {"owner", "staff", "ngo_admin", "ngo_volunteer"}
OwnerStaff == {"owner", "staff"}
OwnerAdmin == {"owner", "ngo_admin"}
NgoBoth == {"ngo_admin", "ngo_volunteer"}

\* An intent: who has it, whether the menu and a command have it, whether it
\* needs an id or words of the person, the list to fall back to, whether its
\* parameters are adapted, whether it cannot be undone, and whether it requires
\* a confirmation.
Intent(roles) ==
  [roles |-> roles, menu |-> FALSE, command |-> FALSE, needs |-> FALSE, list |-> "",
   adapted |-> FALSE, destructive |-> FALSE, confirm |-> FALSE]
Shown(spec) == [spec EXCEPT !.menu = TRUE]
Commanded(spec) == [spec EXCEPT !.menu = TRUE, !.command = TRUE]
Needing(spec, list) == [spec EXCEPT !.needs = TRUE, !.list = list]
Adapted(spec) == [spec EXCEPT !.adapted = TRUE]
Destructive(spec) == [spec EXCEPT !.destructive = TRUE]

AccountIntents ==
     "auth.me" :> Shown(Intent(TenantRoles))
  @@ "auth.logout" :> Destructive(Shown(Intent(TenantRoles)))
  @@ "sessions.list" :> Shown(Intent(OwnerAdmin))
  @@ "sessions.revoke" :> Destructive(Needing(Intent(OwnerAdmin), "sessions.list"))

InventoryIntents ==
     [i \in {"inventory.stock", "inventory.expiring"} |-> Commanded(Intent(OwnerStaff))]
  @@ [i \in {"inventory.purchases.create", "inventory.adjustments.create"} |->
        Adapted(Needing(Intent(OwnerStaff), ""))]

PrepIntents ==
     "prep.create" :> Adapted(Needing(Intent(OwnerStaff), ""))
  @@ "prep.reuse_pending" :> Shown(Intent({"owner"}))
  @@ "prep.reuse_confirm" :> Adapted(Needing(Intent({"owner"}), "prep.reuse_pending"))

LeftoversIntents ==
     "leftovers.list" :> Commanded(Intent(OwnerStaff))
  @@ "leftovers.record" :> Adapted(Needing(Intent(OwnerStaff), ""))
  @@ [i \in {"leftovers.disposition_suggest", "leftovers.dispositions"} |->
        Adapted(Needing(Intent({"owner"}), "leftovers.list"))]

ListingsIntents ==
     "listings.own" :> Commanded(Intent(OwnerStaff))
  @@ "listings.patch" :> Needing(Intent({"owner"}), "listings.own")
  @@ "listings.cancel" :> Destructive(Needing(Intent({"owner"}), "listings.own"))
  @@ "listings.complete" :> Needing(Intent(TenantRoles), "listings.own")
  @@ "listings.no_show" :> Destructive(Needing(Intent(OwnerStaff), "listings.own"))

MarketIntents ==
     "market.browse" :> Commanded(Intent(TenantRoles))
  @@ "market.mine" :> Shown(Intent(OwnerAdmin))
  @@ "market.claim" :> Needing(Intent(OwnerAdmin), "market.browse")
  @@ "market.release" :> Destructive(Needing(Intent(OwnerAdmin), "market.mine"))
  @@ "market.pickups" :> Commanded(Intent(NgoBoth))

AnalyticsIntents ==
     "analytics.dashboard" :> Adapted(Commanded(Intent(OwnerAdmin)))
  @@ [i \in {"analytics.waste", "analytics.recovery", "analytics.dishes",
             "analytics.forecasts"} |-> Adapted(Shown(Intent({"owner"})))]
  @@ "insights.get" :> Shown(Intent({"owner"}))

ReportsIntents ==
     "reports.create" :> Adapted(Commanded(Intent(OwnerAdmin)))
  @@ "reports.list" :> Shown(Intent(OwnerAdmin))
  @@ "reports.download" :> Needing(Intent(OwnerAdmin), "reports.list")

ProfileIntents ==
     "tenant.get" :> Shown(Intent(OwnerAdmin))
  @@ "tenant.update" :> Needing(Intent(OwnerAdmin), "")
  @@ "restaurant.get" :> Shown(Intent(OwnerStaff))
  @@ "restaurant.update" :> Needing(Intent({"owner"}), "")
  @@ "ngo.get" :> Shown(Intent(NgoBoth))
  @@ "ngo.update" :> Needing(Intent({"ngo_admin"}), "")
  @@ "ngo.verification.submit" :> Needing(Shown(Intent({"ngo_admin"})), "")

TeamIntents ==
     "users.list" :> Commanded(Intent(OwnerAdmin))
  @@ "users.invite" :> Needing(Shown(Intent(OwnerAdmin)), "")
  @@ "users.archive" :> Destructive(Needing(Intent(OwnerAdmin), "users.list"))
  @@ [i \in {"users.update", "permissions.list", "permissions.set", "permissions.clear"} |->
        Needing(Intent(OwnerAdmin), "users.list")]

CatalogIntents ==
     "catalog.dishes.list" :> Commanded(Intent(OwnerStaff))
  @@ "catalog.ingredients.list" :> Shown(Intent(OwnerStaff))
  @@ "catalog.suppliers.list" :> Shown(Intent({"owner"}))
  @@ [i \in {"catalog.dishes.create", "catalog.ingredients.create", "catalog.suppliers.create"} |->
        Needing(Intent({"owner"}), "")]
  @@ "catalog.recipe.get" :> Needing(Intent(OwnerStaff), "catalog.dishes.list")
  @@ "catalog.recipe.put" :> Needing(Intent({"owner"}), "catalog.dishes.list")

OtherIntents ==
     "notifications.preferences.get" :> Shown(Intent(OwnerAdmin))
  @@ "notifications.preferences.set" :> Needing(Intent(OwnerAdmin), "")
  @@ "admin.verification.decide" :>
       Destructive(Needing(Intent({"super_admin"}), "admin.verification.queue"))
  @@ [i \in {"admin.tenants.list", "admin.verification.queue", "admin.analytics"} |->
        Intent({"super_admin"})]
  @@ [i \in {"help", "menu"} |-> Intent(Roles)]

\* DESTRUCTIVE_CONFIRM_REQUIRED: more than the table's own destructive intents.
ConfirmRequired ==
  {"leftovers.dispositions", "leftovers.disposition_suggest", "listings.cancel",
   "listings.no_show", "sessions.revoke", "users.archive", "auth.logout",
   "market.release", "admin.verification.decide"}

Intents ==
  LET specs ==
        AccountIntents @@ InventoryIntents @@ PrepIntents @@ LeftoversIntents
          @@ ListingsIntents @@ MarketIntents @@ AnalyticsIntents @@ ReportsIntents
          @@ ProfileIntents @@ TeamIntents @@ CatalogIntents @@ OtherIntents
  IN  [i \in DOMAIN specs |-> [specs[i] EXCEPT !.confirm = i \in ConfirmRequired]]

MenuSections == [role \in Roles |->
                   {i \in DOMAIN Intents : Intents[i].menu /\ role \in Intents[i].roles}]

-----------------------------------------------------------------------------
\* A handler: the calls it makes, in order, and the sets of buttons that the
\* entry of one object in its reply may have.
Handler(calls, entries) == [calls |-> calls, entries |-> entries]
Calling(path) == Handler(<<path>>, {{}})
Listing(path, intents) == Handler(<<path>>, {{i} : i \in intents})

HandleAuth ==
     "auth.me" :> Calling("GET /v1/auth/me")
  @@ "sessions.list" :> Calling("GET /v1/sessions")
  @@ "sessions.revoke" :> Calling("DELETE /v1/sessions/:family")

HandleInventory ==
     "inventory.stock" :> Calling("GET /v1/inventory/stock")
  @@ "inventory.expiring" :> Calling("GET /v1/inventory/expiring")
  @@ "inventory.purchases.create" :>
       Handler(<<"GET /v1/ingredients", "POST /v1/inventory/purchases">>, {{}})
  @@ "inventory.adjustments.create" :>
       Handler(<<"GET /v1/ingredients", "GET /v1/inventory/lots",
                 "POST /v1/inventory/adjustments">>, {{}})

HandlePrep ==
     "prep.create" :> Handler(<<"GET /v1/dishes", "POST /v1/prep-entries">>, {{}})
  @@ "prep.reuse_pending" :> Listing("GET /v1/leftovers/reuse-pending", {"prep.reuse_confirm"})
  @@ "prep.reuse_confirm" :> Calling("POST /v1/leftovers/:id/reuse-confirmation")

HandleLeftovers ==
     "leftovers.list" :> Listing("GET /v1/leftovers", {"leftovers.disposition_suggest"})
  @@ "leftovers.record" :>
       Handler(<<"GET /v1/dishes", "POST /v1/leftovers">>, {{"leftovers.disposition_suggest"}})
  @@ "leftovers.disposition_suggest" :>
       Listing("GET /v1/leftovers/:id/disposition-suggestion", {"leftovers.dispositions"})
  @@ "leftovers.dispositions" :> Calling("POST /v1/leftovers/dispositions")

HandleListings ==
     "listings.own" :>
       Handler(<<"GET /v1/listings">>,
               {{}, {"listings.cancel"}, {"listings.complete", "listings.no_show"}})
  @@ "listings.patch" :> Calling("PATCH /v1/listings/:id")
  @@ "listings.cancel" :> Calling("POST /v1/listings/:id/cancel")
  @@ "listings.complete" :> Calling("POST /v1/listings/:id/complete")
  @@ "listings.no_show" :> Calling("POST /v1/listings/:id/no-show")

HandleMarket ==
     "market.browse" :> Listing("GET /v1/market", {"market.claim"})
  @@ "market.mine" :> Listing("GET /v1/market/mine", {"market.release"})
  @@ "market.pickups" :> Listing("GET /v1/market/pickups", {"listings.complete"})
  @@ "market.claim" :> Calling("POST /v1/market/:id/claim")
  @@ "market.release" :> Calling("POST /v1/market/:id/release")

HandleAnalytics ==
     "analytics.dashboard" :> Calling("GET /v1/dashboard")
  @@ "analytics.waste" :> Calling("GET /v1/analytics/waste")
  @@ "analytics.recovery" :> Calling("GET /v1/analytics/recovery")
  @@ "analytics.dishes" :> Calling("GET /v1/analytics/dishes")
  @@ "analytics.forecasts" :> Calling("GET /v1/forecasts")
HandleInsights == "insights.get" :> Calling("GET /v1/insights")

\* Every report that can be downloaded has its button.
HandleReports ==
     "reports.create" :> Calling("POST /v1/reports")
  @@ "reports.list" :> Handler(<<"GET /v1/reports">>, {{}, {"reports.download"}})
  @@ "reports.download" :> Handler(<<"GET /v1/reports/:id", "GET /v1/reports/:id/download">>, {{}})

HandleTenant ==
     "tenant.get" :> Calling("GET /v1/tenant")
  @@ "tenant.update" :> Calling("PATCH /v1/tenant")
  @@ "restaurant.get" :> Calling("GET /v1/restaurant")
  @@ "restaurant.update" :> Calling("PATCH /v1/restaurant")

HandleNgo ==
     "ngo.get" :> Calling("GET /v1/ngo")
  @@ "ngo.update" :> Calling("PATCH /v1/ngo")
  @@ "ngo.verification.submit" :> Calling("POST /v1/ngo/verification")

HandleUsers ==
     "users.list" :> Handler(<<"GET /v1/users">>, {{"permissions.list", "users.archive"}})
  @@ "users.invite" :> Calling("POST /v1/users")
  @@ "users.update" :> Calling("PATCH /v1/users/:id")
  @@ "users.archive" :> Calling("DELETE /v1/users/:id")

HandlePermissions ==
     "permissions.list" :> Calling("GET /v1/users/:id/permissions")
  @@ "permissions.set" :> Calling("PUT /v1/users/:id/permissions/:permission")
  @@ "permissions.clear" :> Calling("DELETE /v1/users/:id/permissions/:permission")

HandleAdmin ==
     "admin.tenants.list" :> Calling("GET /v1/admin/tenants")
  @@ "admin.verification.queue" :> Calling("GET /v1/admin/tenants")
  @@ "admin.verification.decide" :> Calling("POST /v1/admin/tenants/:id/verify")
  @@ "admin.analytics" :> Calling("GET /v1/admin/analytics")

HandleCatalog ==
     "catalog.dishes.list" :> Listing("GET /v1/dishes", {"catalog.recipe.get"})
  @@ "catalog.dishes.create" :> Calling("POST /v1/dishes")
  @@ "catalog.ingredients.list" :> Calling("GET /v1/ingredients")
  @@ "catalog.ingredients.create" :> Calling("POST /v1/ingredients")
  @@ "catalog.suppliers.list" :> Calling("GET /v1/suppliers")
  @@ "catalog.suppliers.create" :> Calling("POST /v1/suppliers")
  @@ "catalog.recipe.get" :> Calling("GET /v1/dishes/:id/recipe")
  @@ "catalog.recipe.put" :> Calling("PUT /v1/dishes/:id/recipe")

HandleNotifications ==
     "notifications.preferences.get" :> Calling("GET /v1/notification-preferences")
  @@ "notifications.preferences.set" :> Calling("PUT /v1/notification-preferences")

\* Unlinking, help and the menu ask the server nothing on the person's behalf.
DispatchTable ==
  HandleAuth @@ HandleInventory @@ HandlePrep @@ HandleLeftovers @@ HandleListings
    @@ HandleMarket @@ HandleAnalytics @@ HandleInsights @@ HandleReports @@ HandleTenant
    @@ HandleNgo @@ HandleUsers @@ HandlePermissions @@ HandleAdmin @@ HandleCatalog
    @@ HandleNotifications @@ [i \in {"auth.logout", "help", "menu"} |-> Handler(<<>>, {{}})]

Refuses(role, intent) ==
  \E k \in DOMAIN DispatchTable[intent].calls : ~Served(role, <<>>, DispatchTable[intent].calls[k])

OffersOf(intent) == UNION DispatchTable[intent].entries

\* What the menu of a role leads to and the server refuses: the menu's own
\* intents, and the buttons of their replies and of the replies to those.
BotGaps(role) ==
  LET first == MenuSections[role]
      second == first \cup UNION {OffersOf(i) : i \in first}
      all == second \cup UNION {OffersOf(i) : i \in second}
  IN  {i \in all : Refuses(role, i)}

=============================================================================
