------------------------------- MODULE Console -------------------------------
(***************************************************************************)
(* One signed-in person's web console: a query that a page watches, the    *)
(* cached answer, an action of the person's own that changes what the      *)
(* query reads, other people's changes and the stream that tells of them.  *)
(* Cached queries do not influence each other, so one is enough.           *)
(***************************************************************************)
EXTENDS Pages

CONSTANTS
  Person,      \* the roles of those who sign in
  MaxTroubles  \* failed fetches, lost answers and broken streams, together

VARIABLES
  scene,     \* who, the query that is watched and the action that is taken
  where,     \* the page that is open
  cache,     \* the cached answer: what it lacks, and what is known about it
  fetch,     \* the request that is under way
  own,       \* "no", "sent", "applied", "answered" or "lost"
  crossed,   \* the last fetch was asked "during" the action, or "before" it, or "no"
  others,    \* somebody else changed what the query reads
  stream,    \* "connecting", "open" or "closed"
  told,      \* an event that invalidates the query is on its way to the console
  troubles

ASSUME ConsoleAssumption == Person \subseteq Roles /\ MaxTroubles \in Nat

consoleVars == <<scene, where, cache, fetch, own, crossed, others, stream, told, troubles>>
network == <<own, others, stream, told>>
view == <<scene, where>>

\* The query keys an event makes stale, with everything below them.  The scope of
\* the market is one key, of three parts, and nothing is below it.
InvalidatedBy ==
  LET listings == {<<"listings">>}   market == {<<"market", "market", "market">>}
      leftovers == {<<"leftovers">>} dashboard == {<<"dashboard">>}
  IN  "listing.created" :> listings \cup leftovers \cup dashboard \cup market
   @@ "listing.escalated" :> listings \cup dashboard \cup market
   @@ [name \in {"listing.claimed", "listing.released", "listing.updated", "listing.cancelled",
                 "listing.collected", "listing.no_show"} |-> listings \cup market]
   @@ "market.claim.confirmed" :> market
   @@ "job.completed" :> listings \cup dashboard
   @@ "notification.created" :> {}

-----------------------------------------------------------------------------
\* A super admin has no tenant: the session is not found and no page opens.
SignsIn(role) == role # "super_admin"

Menu == [role \in Roles |-> [to \in NavItemsFor(role) |-> At(role, to)]]

Concerns(offer, query) == App[offer.path].writes \cap App[query.path].reads # {}

\* Who, the query and the action, and the pages that have to do with them:
\* those that watch the query, those that would keep its answer, those that
\* offer the action, and the one a person comes to first.
Scene(role, query, offer) ==
  LET menu == Menu[role]
      watching == {to \in DOMAIN menu : \E q \in menu[to].queries : q.key = query.key}
  IN  [ role |-> role, path |-> query.path, key |-> query.key, offer |-> offer,
        polls |-> query.polls, watching |-> watching,
        keeping |-> {to \in watching :
                       \A q \in menu[to].queries : q.key = query.key => q.kept},
        offering |-> {to \in DOMAIN menu : offer \in menu[to].offers},
        home |-> {"/app", "/ngo"} \cap DOMAIN menu ]

ScenesOf(role) ==
  LET pages == {Menu[role][to] : to \in DOMAIN Menu[role]}
      shown == UNION {p.queries : p \in pages}
      doable == UNION {p.offers : p \in pages}
  IN  { Scene(role, c[1], c[2]) :
          c \in { x \in shown \X doable :
                   /\ Served(role, <<>>, x[1].path) /\ Served(role, <<>>, x[2].path)
                   /\ Concerns(x[2], x[1]) } }

Scenes == UNION {ScenesOf(role) : role \in {r \in Person : SignsIn(r)}}

Empty == [loaded |-> FALSE, lacks |-> {}, stale |-> FALSE, aged |-> FALSE, failed |-> FALSE]
NoFetch == [at |-> "none", lacks |-> {}, tries |-> 0]
Asked == [NoFetch EXCEPT !.at = "sent"]

ConsoleInit ==
  /\ scene \in Scenes
  /\ where = "login"
  /\ cache = Empty /\ fetch = NoFetch
  /\ own = "no" /\ crossed = "no" /\ others = FALSE
  /\ stream = "closed" /\ told = FALSE /\ troubles = 0

Inside == where # "login"
Mounted == where \in scene.watching
UnderWay == own \in {"sent", "applied"}

Trouble == troubles < MaxTroubles /\ troubles' = troubles + 1

\* A new request replaces the one under way, if there is an answer to keep showing.
Meeting(underWay) == IF underWay THEN "during" ELSE "no"
Refetch == fetch' = Asked /\ crossed' = Meeting(UnderWay)

\* A fetch that is still under way when the action is answered was asked before.
LeftAlone ==
  /\ UNCHANGED fetch
  /\ crossed' = IF fetch.at # "none" /\ crossed = "no" /\ own' # own THEN "before" ELSE crossed

\* Mutant: only marked (refetchType "none").
InvalidateLazily ==
  /\ cache' = [cache EXCEPT !.stale = TRUE]
  /\ LeftAlone

\* invalidateQueries: marked for the next mount; a mounted query is asked
\* again at once, but its first load is only waited for.
Invalidate ==
  /\ cache' = [cache EXCEPT !.stale = TRUE]
  /\ IF Mounted /\ (cache.loaded \/ fetch.at = "none")
     THEN fetch' = Asked /\ crossed' = Meeting(own' \in {"sent", "applied"})
     ELSE LeftAlone

-----------------------------------------------------------------------------
\* A page that mounts the query asks again, unless the answer is kept and not stale.
Open ==
  \E to \in (scene.watching \cup scene.offering \cup scene.home) \ {where} :
    /\ Inside
    /\ where' = to
    /\ IF /\ fetch.at = "none"
          /\ to \in scene.watching
          /\ ~cache.loaded \/ to \notin scene.keeping \/ cache.stale \/ cache.aged
       THEN Refetch
       ELSE /\ UNCHANGED fetch
            /\ crossed' = IF UnderWay /\ to \in scene.watching THEN "during" ELSE crossed
    /\ UNCHANGED <<scene, cache, network, troubles>>

\* The answer to a sign-in is put in the cache as the session.
SignIn ==
  /\ ~Inside
  /\ \E to \in scene.home :
       /\ where' = to
       /\ IF scene.key = Session.key THEN cache' = [Empty EXCEPT !.loaded = TRUE] /\ UNCHANGED fetch
          ELSE UNCHANGED cache /\ fetch' = IF to \in scene.watching THEN Asked ELSE NoFetch
  /\ stream' = "connecting"
  /\ UNCHANGED <<scene, own, crossed, others, told, troubles>>

\* Signing out empties the cache; the shell is left and its stream closed.
Logout ==
  /\ Inside /\ ~UnderWay
  /\ where' = "login" /\ cache' = Empty /\ fetch' = NoFetch /\ crossed' = "no"
  /\ stream' = "closed" /\ told' = FALSE /\ own' = "over"
  /\ UNCHANGED <<scene, others, troubles>>

-----------------------------------------------------------------------------
ServerReads ==
  /\ fetch.at = "sent"
  /\ fetch' = [fetch EXCEPT !.at = "read"]
  /\ UNCHANGED <<view, cache, network, crossed, troubles>>

AnswerLands ==
  /\ fetch.at = "read"
  /\ cache' = [Empty EXCEPT !.loaded = TRUE, !.lacks = fetch.lacks]
  /\ fetch' = NoFetch
  /\ UNCHANGED <<view, network, crossed, troubles>>

\* Asked once more before it fails; the old answer stays.
FetchFails ==
  /\ fetch.at # "none"
  /\ IF fetch.tries = 0 THEN Trouble ELSE UNCHANGED troubles
  /\ IF fetch.tries = 0 THEN fetch' = [Asked EXCEPT !.tries = 1] /\ UNCHANGED cache
     ELSE fetch' = NoFetch /\ cache' = [cache EXCEPT !.failed = TRUE]
  /\ UNCHANGED <<view, network, crossed>>

\* The button of a page that could not load.
TryAgain ==
  /\ Mounted /\ cache.failed /\ fetch.at = "none"
  /\ Refetch
  /\ UNCHANGED <<view, cache, network, troubles>>

\* A report of one's own is shown as running until its end is shown.
Polls ==
  \/ scene.polls = "always"
  \/ /\ scene.polls = "running"
     /\ ~cache.loaded \/ (own \in {"applied", "answered"} /\ cache.lacks = {"other"})

\* Mutant: the timer stops once a fetch has failed.
PollUntilFailed ==
  /\ Mounted /\ Polls /\ fetch.at = "none" /\ ~cache.failed
  /\ Refetch
  /\ UNCHANGED <<view, cache, network, troubles>>

Poll ==
  /\ Mounted /\ Polls /\ fetch.at = "none"
  /\ Refetch
  /\ UNCHANGED <<view, cache, network, troubles>>

GrowsOld ==
  /\ cache.loaded /\ ~cache.aged
  /\ scene.keeping # {}
  /\ cache' = [cache EXCEPT !.aged = TRUE]
  /\ UNCHANGED <<view, fetch, network, crossed, troubles>>

Forgotten ==
  /\ cache.loaded /\ ~Mounted /\ fetch.at = "none"
  /\ cache' = Empty
  /\ UNCHANGED <<view, fetch, network, crossed, troubles>>

-----------------------------------------------------------------------------
\* What was read before a change lacks it.
Behind(change) ==
  /\ cache' = IF cache.loaded THEN [cache EXCEPT !.lacks = @ \cup {change}] ELSE cache
  /\ fetch' = IF fetch.at = "read" THEN [fetch EXCEPT !.lacks = @ \cup {change}] ELSE fetch

\* An event reaches whoever listens.
Tell(names) ==
  told' = \/ told
          \/ /\ stream = "open"
             /\ \E name \in names : Matches(InvalidatedBy[name], scene.key)

Press ==
  /\ own = "no" /\ Inside
  /\ where \in scene.offering
  /\ own' = "sent"
  /\ UNCHANGED <<view, cache, fetch, crossed, others, stream, told, troubles>>

ServerApplies ==
  /\ own = "sent"
  /\ own' = "applied"
  /\ Behind("own")
  /\ Tell(App[scene.offer.path].tells)
  /\ UNCHANGED <<view, crossed, others, stream, troubles>>

\* The keys are invalidated even if the page was left.
Success ==
  /\ own = "applied"
  /\ own' = "answered"
  /\ IF Matches(scene.offer.invalidates, scene.key) THEN Invalidate
     ELSE UNCHANGED cache /\ LeftAlone
  /\ UNCHANGED <<view, others, stream, told, troubles>>

\* An error, or no answer, invalidates nothing; a mutation is not tried again.
ActionFails ==
  /\ UnderWay
  /\ Trouble
  /\ own' = "lost"
  /\ UNCHANGED <<view, cache, fetch, crossed, others, stream, told>>

SomebodyElse ==
  /\ ~others /\ Inside
  /\ others' = TRUE
  /\ Behind("other")
  /\ \E names \in {{}} \cup {{n} : n \in DOMAIN InvalidatedBy} : Tell(names)
  /\ UNCHANGED <<view, own, crossed, stream, troubles>>

-----------------------------------------------------------------------------
StreamOpens ==
  /\ stream = "connecting"
  /\ stream' = "open"
  /\ UNCHANGED <<view, cache, fetch, own, crossed, others, told, troubles>>

StreamFails ==
  /\ stream \in {"connecting", "open"}
  /\ Trouble
  /\ stream' = "closed" /\ told' = FALSE
  /\ UNCHANGED <<view, cache, fetch, own, crossed, others>>

Reconnect ==
  /\ stream = "closed" /\ Inside
  /\ stream' = "connecting"
  /\ UNCHANGED <<view, cache, fetch, own, crossed, others, told, troubles>>

EventArrives ==
  /\ stream = "open" /\ told
  /\ told' = FALSE
  /\ UNCHANGED <<view, own, others, stream, troubles>>
  /\ Invalidate

ConsoleStep ==
  \/ Open \/ SignIn \/ Logout
  \/ ServerReads \/ AnswerLands \/ FetchFails \/ TryAgain \/ Poll \/ GrowsOld \/ Forgotten
  \/ Press \/ ServerApplies \/ Success \/ ActionFails \/ SomebodyElse
  \/ StreamOpens \/ StreamFails \/ Reconnect \/ EventArrives

\* The server answers, and a timer that is set goes off.
ConsoleFairness ==
  /\ WF_consoleVars(ServerReads) /\ WF_consoleVars(AnswerLands) /\ WF_consoleVars(Poll)

ConsoleSpec == ConsoleInit /\ [][ConsoleStep]_consoleVars

-----------------------------------------------------------------------------
\* A suggestion is kept for ten minutes, and the session until something is
\* done to it: two answers that the console knows to be old.
KnownStale(s) ==
  \/ s.key = Suggestion.key
  \/ s.key = Session.key /\ <<"session">> \notin s.offer.invalidates

\* Facts of the tables, for every role: whatever an action changes is invalidated
\* by its success, or is not watched where the action is offered and asked for
\* at every mount.  No page is the one where people sign in.
ASSUME PagesAssumption ==
  \A role \in {r \in Roles : SignsIn(r)} :
    /\ "login" \notin NavItemsFor(role)
    /\ \A s \in ScenesOf(role) :
         \/ Matches(s.offer.invalidates, s.key) \/ KnownStale(s)
         \/ s.offering \cap s.watching = {} /\ s.keeping = {}

(***************************************************************************)
(* Once main-service has answered an action, an open page that concerns    *)
(* what was changed does not go on showing what was before (the            *)
(* invalidations of the mutations in pages/ and components/, and           *)
(* use-events.ts).  Three pages are left out, until they ask again, since  *)
(* the code does leave them old: one that asked, or was opened upon a      *)
(* fetch, while the action was under way ("during"); one whose first load, *)
(* or a fetch it was left with, was asked before the action and still      *)
(* under way when that was answered, as invalidateQueries only waits for   *)
(* it ("before"); and what is KnownStale.                                  *)
(***************************************************************************)
PageShowsOwnChange ==
  /\ Mounted /\ cache.loaded /\ fetch.at = "none" /\ ~cache.failed
  /\ own = "answered" /\ crossed = "no"
  => "own" \notin cache.lacks \/ KnownStale(scene)

\* What somebody else changed gets to an open page that asks again by itself,
\* whatever became of the events (refetchInterval in market-page.tsx,
\* listings-page.tsx, reports-page.tsx and ngo/pickups-page.tsx).
PolledPageCatchesUp ==
  Mounted /\ Polls /\ "other" \in cache.lacks
    ~> (~Mounted \/ ~Polls \/ "other" \notin cache.lacks)
=============================================================================
