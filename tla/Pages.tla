-------------------------------- MODULE Pages --------------------------------
(***************************************************************************)
(* The web console's pages: the queries a page watches, each with its      *)
(* cache key, and the actions it offers, each with the cache keys that its *)
(* success invalidates.  One definition per dialog, section or page.       *)
(***************************************************************************)
EXTENDS Access, SequencesExt

\* How often a mounted query asks again by itself, and whether a cached
\* answer is kept for a while (a staleTime) or asked for again at every mount.
Query(key, path) == [key |-> key, path |-> path, polls |-> "never", kept |-> FALSE]
Polled(query) == [query EXCEPT !.polls = "always"]
Kept(query) == [query EXCEPT !.kept = TRUE]

Offer(path, invalidates) == [path |-> path, invalidates |-> invalidates]

Page(queries, offers) == [queries |-> queries, offers |-> offers]

\* invalidateQueries takes every cached key that begins with the one given.
Matches(keys, key) == \E k \in keys : IsPrefix(k, key)

-----------------------------------------------------------------------------
\* The key of a list of one day holds "day": a page and its dialogs use the same day.
Session == Kept(Query(<<"session">>, "GET /v1/auth/me"))
Dishes == Query(<<"dishes">>, "GET /v1/dishes")
Ingredients == Kept(Query(<<"ingredients">>, "GET /v1/ingredients"))
Suppliers == Kept(Query(<<"suppliers">>, "GET /v1/suppliers"))
Stock == Query(<<"inventory", "stock">>, "GET /v1/inventory/stock")
Expiring == Query(<<"inventory", "expiring">>, "GET /v1/inventory/expiring")
PrepEntries == Query(<<"prep-entries", "day">>, "GET /v1/prep-entries")
PendingReuse == Query(<<"reuse-pending">>, "GET /v1/leftovers/reuse-pending")
LeftoversOfDay == Query(<<"leftovers", "day">>, "GET /v1/leftovers")
Suggestion ==
  Kept(Query(<<"leftovers", "suggestion", "id">>, "GET /v1/leftovers/:id/disposition-suggestion"))
Browse == Polled(Query(<<"market", "browse">>, "GET /v1/market"))
Pickups == Polled(Query(<<"market", "pickups">>, "GET /v1/market/pickups"))
Waste(grain) == Query(<<"analytics", "waste", "from", "to", grain>>, "GET /v1/analytics/waste")
Profile(type) == Query(<<type>>, "GET /v1/" \o type)

-----------------------------------------------------------------------------
DashboardPage == Page({Query(<<"dashboard", "", "">>, "GET /v1/dashboard")}, {})

PurchaseDialog ==
  {Offer("POST /v1/inventory/purchases", {<<"inventory", "stock">>, <<"inventory", "expiring">>})}

AdjustmentDialog ==
  {Offer("POST /v1/inventory/adjustments", {<<"inventory", "stock">>, <<"inventory", "expiring">>})}

InventoryPage ==
  Page({Stock, Expiring, Ingredients, Suppliers}, PurchaseDialog \cup AdjustmentDialog)

PrepDialog ==
  {Offer("POST /v1/prep-entries",
     {<<"prep-entries", "day">>, <<"prep-entries", "">>,
      <<"inventory", "stock">>, <<"inventory", "expiring">>})}

UpdatePrepDialog == {Offer("PATCH /v1/prep-entries/:id", {<<"prep-entries">>})}

ReuseDialog == {Offer("POST /v1/leftovers/:id/reuse-confirmation", {<<"reuse-pending">>})}

KitchenPage ==
  Page({PrepEntries, PendingReuse, Kept(Dishes)}, PrepDialog \cup UpdatePrepDialog \cup ReuseDialog)

RecordLeftoverDialog == {Offer("POST /v1/leftovers", {<<"leftovers", "">>, <<"leftovers", "day">>})}

LeftoversPage ==
  Page({LeftoversOfDay, Suggestion, Kept(Dishes)},
       RecordLeftoverDialog \cup
       {Offer("POST /v1/leftovers/dispositions",
          {<<"leftovers", "">>, <<"leftovers", "day">>, <<"listings">>, <<"dashboard">>})})

ListingLifecycleActions ==
  { Offer(path, {<<"listings">>}) :
      path \in {"POST /v1/listings/:id/cancel", "POST /v1/listings/:id/complete",
                "POST /v1/listings/:id/no-show"} }

ListingsPage == Page({Polled(Query(<<"listings">>, "GET /v1/listings"))}, ListingLifecycleActions)

MarketKeys == {<<"market", "browse">>, <<"market", "mine">>, <<"market", "pickups">>}

ClaimButton(mode) ==
  {Offer("POST /v1/market/:id/" \o mode, MarketKeys \cup {<<"listings">>})}

\* A buyer's card has the claim button, a claimer's the one that releases.
ListingCard(viewer) == IF viewer = "buyer" THEN ClaimButton("claim") ELSE ClaimButton("release")

MarketPage == Page({Browse}, ListingCard("buyer"))

WasteTab == {Waste("grain")}
RecoveryTab ==
  {Query(<<"analytics", "recovery", "from", "to", "grain">>, "GET /v1/analytics/recovery")}
DishesTab == {Query(<<"analytics", "dishes", "from", "to">>, "GET /v1/analytics/dishes")}
ForecastsTab == {Query(<<"analytics", "forecasts", "from", "to">>, "GET /v1/forecasts")}
InsightsTab == {Query(<<"insights">>, "GET /v1/insights")}

\* The heat map has the days of the range whatever tab is shown.
AnalyticsPage ==
  Page({Waste("day")} \cup WasteTab \cup RecoveryTab \cup DishesTab \cup ForecastsTab
         \cup InsightsTab, {})

\* The list asks again while it shows a report that is not finished.
ReportsList == {[Query(<<"reports">>, "GET /v1/reports") EXCEPT !.polls = "running"]}

CreateForm == {Offer("POST /v1/reports", {<<"reports">>})}

ReportsPage == Page(ReportsList, CreateForm)

CatalogPage ==
  Page({Dishes},
       { Offer(path, {<<"dishes">>}) :
           path \in {"POST /v1/dishes", "PATCH /v1/dishes/:id", "DELETE /v1/dishes/:id"} })

TeamPage ==
  Page({Query(<<"team">>, "GET /v1/users")},
       { Offer(path, {<<"team">>}) :
           path \in {"POST /v1/users", "PATCH /v1/users/:id", "DELETE /v1/users/:id"} })

TenantSection ==
  Page({Query(<<"tenant">>, "GET /v1/tenant")},
       {Offer("PATCH /v1/tenant", {<<"tenant">>, <<"session">>})})

RestaurantSection ==
  Page({Profile("restaurant")}, {Offer("PATCH /v1/restaurant", {<<"restaurant">>})})

NgoSection == Page({Profile("ngo")}, {Offer("PATCH /v1/ngo", {<<"ngo">>})})

NgoVerificationSection == Page({Profile("ngo")}, {Offer("PATCH /v1/ngo/verification", {<<"ngo">>})})

NotificationsSection ==
  Page({Query(<<"notification-preferences">>, "GET /v1/notification-preferences")},
       {Offer("PATCH /v1/notification-preferences", {<<"notification-preferences">>})})

\* Only the workspace's owner sees the sections.
SettingsPage(role) ==
  LET sections ==
        {TenantSection, NotificationsSection} \cup
          IF TenantType(role) = "ngo" THEN {NgoSection, NgoVerificationSection}
          ELSE {RestaurantSection}
  IN  IF role \notin {"owner", "ngo_admin"} THEN Page({}, {})
      ELSE Page(UNION {s.queries : s \in sections}, UNION {s.offers : s \in sections})

NgoIndexPage == Page({Browse, Pickups}, ListingCard("buyer") \cup ListingCard("claimer"))

NgoPickupsPage ==
  Page({Pickups},
       ListingCard("claimer") \cup
       { Offer("POST /v1/listings/:id/complete",
           {<<"market", "pickups">>, <<"market", "browse">>, <<"listings">>}),
         Offer("POST /v1/market/:id/release", {<<"market", "pickups">>, <<"market", "browse">>}) })

AdminTenantsPage ==
  Page({Query(<<"admin", "tenants">>, "GET /v1/admin/tenants"),
        Query(<<"admin", "analytics">>, "GET /v1/admin/analytics")}, {})

AdminVerificationPage ==
  Page({Query(<<"admin", "tenants">>, "GET /v1/admin/tenants"),
        Query(<<"admin", "ngo", "id">>, "GET /v1/admin/tenants/:id")},
       {Offer("POST /v1/admin/tenants/:id/verify", {<<"admin", "tenants">>, <<"admin", "ngo", "id">>})})

-----------------------------------------------------------------------------
Routes(role) ==
     "/app" :> DashboardPage @@ "/app/inventory" :> InventoryPage
  @@ "/app/kitchen" :> KitchenPage @@ "/app/leftovers" :> LeftoversPage
  @@ "/app/listings" :> ListingsPage @@ "/app/market" :> MarketPage
  @@ "/app/analytics" :> AnalyticsPage @@ "/app/reports" :> ReportsPage
  @@ "/app/catalog" :> CatalogPage @@ "/app/team" :> TeamPage
  @@ "/app/settings" :> SettingsPage(role)
  @@ "/ngo" :> NgoIndexPage @@ "/ngo/pickups" :> NgoPickupsPage
  @@ "/ngo/organisation" :> SettingsPage(role) @@ "/ngo/team" :> TeamPage
  @@ "/admin" :> AdminTenantsPage @@ "/admin/verification" :> AdminVerificationPage
  @@ "/admin/analytics" :> AdminTenantsPage

\* The permission an entry of the menu asks for; "" for none.
RestaurantNav ==
     "/app" :> "" @@ "/app/inventory" :> "inventory.read" @@ "/app/kitchen" :> "prep.write"
  @@ "/app/leftovers" :> "leftover.write" @@ "/app/listings" :> "" @@ "/app/market" :> ""
  @@ "/app/analytics" :> "reports.read" @@ "/app/reports" :> "reports.read"
  @@ "/app/catalog" :> "inventory.read" @@ "/app/team" :> "users.manage"
  @@ "/app/settings" :> "settings.write"

NgoNav ==
     "/ngo" :> "" @@ "/ngo/pickups" :> "listing.complete"
  @@ "/ngo/organisation" :> "settings.write" @@ "/ngo/team" :> "users.manage"

AdminNav ==
     "/admin" :> "platform.analytics" @@ "/admin/verification" :> "ngo.verify"
  @@ "/admin/analytics" :> "platform.analytics"

\* getMe answers with the permissions of the role, without the person's own.
NavItemsFor(role) ==
  LET nav == IF role = "super_admin" THEN AdminNav
             ELSE IF TenantType(role) = "restaurant" THEN RestaurantNav ELSE NgoNav
  IN  { to \in DOMAIN nav : nav[to] = "" \/ nav[to] \in PermissionsForRole(role) }

\* Every page is inside the shell, which watches the session.
At(role, to) ==
  LET page == Routes(role)[to]
  IN  [page EXCEPT !.queries = @ \cup {Session}]

\* What a page of the role's menu shows or offers and the server refuses.
Gaps(role) ==
  { path \in UNION { {x.path : x \in At(role, to).queries \cup At(role, to).offers} :
                       to \in NavItemsFor(role) } :
      ~Served(role, <<>>, path) }
=============================================================================
