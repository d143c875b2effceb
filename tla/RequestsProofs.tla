---------------------------- MODULE RequestsProofs ----------------------------
(***************************************************************************)
(* A page of the console with its cache, for any number of troubles and    *)
(* whoever signs in, and a chat of the bot, for any personas, objects,     *)
(* sentences and number of messages that stay in reach.                    *)
(***************************************************************************)
EXTENDS Console, Dialogue, SequenceTheorems, TLAPS

(***************************************************************************)
(* The console.  Whether the action's success invalidates the query, and   *)
(* whether the answer is one that the console may keep although it is old, *)
(* do not change with the state.                                           *)
(***************************************************************************)
Invalidates == Matches(scene.offer.invalidates, scene.key)

Apart == scene.offering \cap scene.watching = {} /\ scene.keeping = {}

Lacking == SUBSET {"own", "other"}

Caches ==
  [loaded : BOOLEAN, lacks : Lacking, stale : BOOLEAN, aged : BOOLEAN, failed : BOOLEAN]

Fetches == [at : {"none", "sent", "read"}, lacks : Lacking, tries : {0, 1}]

ConsoleTypes ==
  /\ scene \in Scenes
  /\ cache \in Caches
  /\ fetch \in Fetches
  /\ crossed \in {"no", "during", "before"}
  /\ fetch.at = "none" => fetch.lacks = {}
  /\ ~Inside => own \in {"no", "over"}

\* An action that invalidates nothing here is not taken under the eyes of the query.
OutOfSight == ~Invalidates /\ Apart /\ UnderWay /\ crossed = "no" => ~Mounted

\* What was asked for after the answer does not lack the action.
FetchKnows == own = "answered" /\ crossed = "no" => "own" \notin fetch.lacks

\* Where the cache lacks the action it is asked for again, or will be at the
\* next mount.
CacheCatchesUp ==
  own = "answered" /\ crossed = "no" /\ "own" \in cache.lacks /\ (Invalidates \/ Apart) =>
    \/ fetch.at # "none" \/ cache.failed
    \/ ~Mounted /\ (cache.stale \/ Apart)

ConsoleInv == ConsoleTypes /\ OutOfSight /\ FetchKnows /\ CacheCatchesUp

\* No page of a menu is the one where people sign in.
LEMMA LoginIsNoPage ==
  ASSUME NEW s \in Scenes
  PROVE  "login" \notin s.watching \cup s.offering \cup s.home
<1>1. PICK role \in {r \in Roles : SignsIn(r)} : s \in ScenesOf(role)
  BY ConsoleAssumption DEF Scenes
<1>2. "login" \notin NavItemsFor(role)
  BY PagesAssumption
<1>3. DOMAIN Menu[role] = NavItemsFor(role)
  BY DEF Menu
<1>4. PICK query, offer : s = Scene(role, query, offer)
  BY <1>1 DEF ScenesOf
<1> QED BY <1>2, <1>3, <1>4 DEF Scene

LEMMA ConsoleInvInit ==
  ASSUME ConsoleInit
  PROVE  ConsoleInv
<1> USE DEF ConsoleInit
<1>1. cache \in Caches
  BY DEF Empty, Lacking, Caches
<1>2. /\ fetch \in Fetches
      /\ fetch.at = "none" => fetch.lacks = {}
  BY DEF NoFetch, Lacking, Fetches
<1>3. ConsoleTypes BY <1>1, <1>2 DEF ConsoleTypes
<1>4. OutOfSight /\ FetchKnows /\ CacheCatchesUp
  BY DEF OutOfSight, FetchKnows, CacheCatchesUp, UnderWay
<1> QED BY <1>3, <1>4 DEF ConsoleInv

\* A request just sent lacks nothing that was answered.
LEMMA AskedIs ==
  /\ Asked \in Fetches /\ Asked.at = "sent" /\ Asked.lacks = {}
  /\ NoFetch \in Fetches /\ NoFetch.at = "none" /\ NoFetch.lacks = {}
  BY DEF Asked, NoFetch, Lacking, Fetches

\* Asking again brings everything about.
LEMMA AskedAgain ==
  ASSUME fetch' \in Fetches, fetch'.at = "sent", fetch'.lacks = {},
         crossed' = Meeting(UnderWay'), scene' \in Scenes, cache' \in Caches,
         ~Inside' => own' \in {"no", "over"}
  PROVE  ConsoleInv'
<1>1. crossed' \in {"no", "during"} /\ (crossed' = "no" => ~UnderWay') BY DEF Meeting
<1>2. ConsoleTypes' BY <1>1 DEF ConsoleTypes
<1>3. OutOfSight' /\ FetchKnows' /\ CacheCatchesUp'
  BY <1>1 DEF OutOfSight, FetchKnows, CacheCatchesUp
<1> QED BY <1>2, <1>3 DEF ConsoleInv

\* The pages that come and go, and the session.
LEMMA OpenKeeps ==
  ASSUME ConsoleInv, Open
  PROVE  ConsoleInv'
<1> USE DEF ConsoleInv, ConsoleTypes, OutOfSight, FetchKnows, CacheCatchesUp, Inside, Mounted,
            UnderWay, Invalidates, Apart, network
<1>1. PICK to \in (scene.watching \cup scene.offering \cup scene.home) \ {where} :
        /\ Inside
        /\ where' = to
        /\ IF /\ fetch.at = "none"
              /\ to \in scene.watching
              /\ ~cache.loaded \/ to \notin scene.keeping \/ cache.stale \/ cache.aged
           THEN Refetch
           ELSE /\ UNCHANGED fetch
                /\ crossed' = IF UnderWay /\ to \in scene.watching THEN "during" ELSE crossed
        /\ UNCHANGED <<scene, cache, network, troubles>>
  BY DEF Open
<1>0. "login" \notin scene.watching \cup scene.offering \cup scene.home
  BY LoginIsNoPage
<1>2. CASE /\ fetch.at = "none"
           /\ to \in scene.watching
           /\ ~cache.loaded \/ to \notin scene.keeping \/ cache.stale \/ cache.aged
  <2>1. fetch' \in Fetches /\ fetch'.at = "sent" /\ fetch'.lacks = {}
    BY <1>1, <1>2, AskedIs DEF Refetch
  <2>2. crossed' = Meeting(UnderWay') /\ scene' \in Scenes /\ cache' \in Caches /\ Inside'
    BY <1>0, <1>1, <1>2 DEF Refetch
  <2> QED BY <2>1, <2>2, AskedAgain
<1>3. CASE ~ /\ fetch.at = "none"
             /\ to \in scene.watching
             /\ ~cache.loaded \/ to \notin scene.keeping \/ cache.stale \/ cache.aged
  BY <1>0, <1>1, <1>3
<1> QED BY <1>2, <1>3

LEMMA SignInKeeps ==
  ASSUME ConsoleInv, SignIn
  PROVE  ConsoleInv'
<1> USE DEF ConsoleInv, ConsoleTypes, Inside, UnderWay
<1>1. own \in {"no", "over"} /\ own' = own /\ crossed' = crossed /\ scene' = scene
  BY DEF SignIn
<1>2. where' # "login"
  BY LoginIsNoPage DEF SignIn
<1>3. cache' \in Caches
  <2>1. [Empty EXCEPT !.loaded = TRUE] \in Caches BY DEF Empty, Caches, Lacking
  <2> QED BY <2>1 DEF SignIn
<1>4. fetch' \in Fetches /\ (fetch'.at = "none" => fetch'.lacks = {})
  BY AskedIs DEF SignIn
<1>5. ConsoleTypes' BY <1>1, <1>2, <1>3, <1>4
<1>6. OutOfSight' /\ FetchKnows' /\ CacheCatchesUp'
  BY <1>1 DEF OutOfSight, FetchKnows, CacheCatchesUp
<1> QED BY <1>5, <1>6

LEMMA LogoutKeeps ==
  ASSUME ConsoleInv, Logout
  PROVE  ConsoleInv'
<1> USE DEF ConsoleInv, ConsoleTypes, Inside, UnderWay
<1>1. own' = "over" /\ crossed' = "no" /\ scene' = scene /\ cache' = Empty /\ fetch' = NoFetch
  BY DEF Logout
<1>2. cache' \in Caches BY <1>1 DEF Empty, Caches, Lacking
<1>3. ConsoleTypes' BY <1>1, <1>2, AskedIs
<1>4. OutOfSight' /\ FetchKnows' /\ CacheCatchesUp'
  BY <1>1 DEF OutOfSight, FetchKnows, CacheCatchesUp
<1> QED BY <1>3, <1>4

\* What a fetch goes through.
LEMMA FetchingKeeps ==
  ASSUME ConsoleInv, ServerReads \/ AnswerLands \/ FetchFails \/ TryAgain \/ Poll
  PROVE  ConsoleInv'
<1> USE DEF ConsoleInv, ConsoleTypes, Inside, UnderWay, view, network
<1>1. CASE ServerReads
  <2>1. /\ fetch'.at = "read" /\ fetch'.lacks = fetch.lacks /\ fetch' \in Fetches
        /\ fetch.at = "sent"
    BY <1>1 DEF ServerReads, Fetches
  <2>2. UNCHANGED <<scene, where, cache, own, crossed>> BY <1>1 DEF ServerReads
  <2> QED
    BY <2>1, <2>2 DEF OutOfSight, FetchKnows, CacheCatchesUp, Mounted, Invalidates, Apart
<1>2. CASE AnswerLands
  <2>1. /\ fetch' = NoFetch /\ cache'.lacks = fetch.lacks /\ cache' \in Caches
    BY <1>2 DEF AnswerLands, Fetches, Caches, Empty
  <2>2. UNCHANGED <<scene, where, own, crossed>> BY <1>2 DEF AnswerLands
  <2> QED
    BY <2>1, <2>2, AskedIs DEF OutOfSight, FetchKnows, CacheCatchesUp, Mounted, Invalidates, Apart
<1>3. CASE FetchFails
  <2>1. UNCHANGED <<scene, where, own, crossed>> BY <1>3 DEF FetchFails
  <2>2. CASE fetch.tries = 0
    <3>1. /\ fetch'.at = "sent" /\ fetch'.lacks = {} /\ fetch' \in Fetches /\ cache' = cache
      BY <1>3, <2>2 DEF FetchFails, Asked, NoFetch, Fetches, Lacking
    <3> QED
      BY <2>1, <3>1 DEF OutOfSight, FetchKnows, CacheCatchesUp, Mounted, Invalidates, Apart
  <2>3. CASE fetch.tries # 0
    <3>1. /\ fetch' = NoFetch /\ cache' \in Caches /\ cache'.failed = TRUE
      BY <1>3, <2>3 DEF FetchFails, Caches
    <3> QED
      BY <2>1, <3>1, AskedIs DEF OutOfSight, FetchKnows, CacheCatchesUp, Mounted, Invalidates, Apart
  <2> QED BY <2>2, <2>3
<1>4. CASE TryAgain \/ Poll
  <2>1. /\ fetch' \in Fetches /\ fetch'.at = "sent" /\ fetch'.lacks = {}
    BY <1>4, AskedIs DEF TryAgain, Poll, Refetch
  <2>2. /\ crossed' = Meeting(UnderWay') /\ scene' \in Scenes /\ cache' \in Caches
        /\ ~Inside' => own' \in {"no", "over"}
    BY <1>4 DEF TryAgain, Poll, Refetch
  <2> QED BY <2>1, <2>2, AskedAgain
<1> QED BY <1>1, <1>2, <1>3, <1>4

\* What becomes of the cache by itself.
LEMMA AgeingKeeps ==
  ASSUME ConsoleInv, GrowsOld \/ Forgotten
  PROVE  ConsoleInv'
<1> USE DEF ConsoleInv, ConsoleTypes, Inside, UnderWay, view, network
<1>1. UNCHANGED <<scene, where, fetch, own, crossed>> BY DEF GrowsOld, Forgotten
<1>2. CASE GrowsOld
  <2>1. /\ cache' \in Caches /\ cache'.lacks = cache.lacks
        /\ cache'.stale = cache.stale /\ cache'.failed = cache.failed
    BY <1>2 DEF GrowsOld, Caches
  <2> QED
    BY <1>1, <2>1 DEF OutOfSight, FetchKnows, CacheCatchesUp, Mounted, Invalidates, Apart
<1>3. CASE Forgotten
  <2>1. cache' \in Caches /\ cache'.lacks = {}
    BY <1>3 DEF Forgotten, Empty, Caches, Lacking
  <2> QED
    BY <1>1, <2>1 DEF OutOfSight, FetchKnows, CacheCatchesUp, Mounted, Invalidates, Apart
<1> QED BY <1>2, <1>3

\* An invalidation, by an event or by the answer to the action.
LEMMA InvalidateKeeps ==
  ASSUME ConsoleInv, Invalidate, UNCHANGED view,
         own' = own \/ (own = "applied" /\ own' = "answered")
  PROVE  ConsoleInv'
<1> USE DEF ConsoleInv, ConsoleTypes, Inside, UnderWay, view
<1>1. /\ cache' \in Caches /\ cache'.lacks = cache.lacks
      /\ cache'.stale = TRUE /\ cache'.failed = cache.failed
  BY DEF Invalidate, Caches
<1>2. scene' = scene /\ where' = where /\ (~Inside' => own' \in {"no", "over"})
  OBVIOUS
<1>3. CASE Mounted /\ (cache.loaded \/ fetch.at = "none")
  <2>1. /\ fetch' \in Fetches /\ fetch'.at = "sent" /\ fetch'.lacks = {}
        /\ crossed' = Meeting(UnderWay')
    BY <1>3, AskedIs DEF Invalidate
  <2> QED BY <1>1, <1>2, <2>1, AskedAgain
<1>4. CASE ~(Mounted /\ (cache.loaded \/ fetch.at = "none"))
  <2>1. LeftAlone BY <1>4 DEF Invalidate
  <2>2. ConsoleTypes' BY <1>1, <1>2, <2>1 DEF LeftAlone
  <2>3. OutOfSight' BY <1>2, <2>1 DEF OutOfSight, Mounted, Invalidates, Apart, LeftAlone
  <2>4. FetchKnows' BY <2>1 DEF FetchKnows, LeftAlone
  <2>5. CacheCatchesUp'
    BY <1>1, <1>2, <1>4, <2>1 DEF CacheCatchesUp, Mounted, Invalidates, Apart, LeftAlone
  <2> QED BY <2>2, <2>3, <2>4, <2>5
<1> QED BY <1>3, <1>4

\* What was read before a change lacks it.
LEMMA BehindIs ==
  ASSUME ConsoleTypes, NEW change \in {"own", "other"}, Behind(change)
  PROVE  /\ cache' \in Caches /\ cache'.stale = cache.stale /\ cache'.failed = cache.failed
         /\ fetch' \in Fetches /\ fetch'.at = fetch.at
         /\ fetch.at = "none" => fetch'.lacks = fetch.lacks
         /\ change # "own" /\ "own" \in cache'.lacks => "own" \in cache.lacks
         /\ change # "own" /\ "own" \in fetch'.lacks => "own" \in fetch.lacks
  BY DEF ConsoleTypes, Behind, Caches, Fetches, Lacking

\* The action, and what other people do.
LEMMA ActingKeeps ==
  ASSUME ConsoleInv, Press \/ ServerApplies \/ Success \/ ActionFails \/ SomebodyElse
  PROVE  ConsoleInv'
<1> USE DEF ConsoleInv, ConsoleTypes, Inside, UnderWay, view
<1>1. scene' = scene /\ where' = where
  BY DEF Press, ServerApplies, Success, ActionFails, SomebodyElse
<1>2. CASE Press
  <2>1. /\ UNCHANGED <<cache, fetch, crossed>> /\ own' = "sent" /\ Inside
        /\ where \in scene.offering
    BY <1>2 DEF Press
  <2>2. ConsoleTypes' BY <1>1, <2>1
  <2> QED
    BY <1>1, <2>1, <2>2
    DEF OutOfSight, FetchKnows, CacheCatchesUp, Mounted, Invalidates, Apart
<1>3. CASE ServerApplies
  <2>1. own = "sent" /\ own' = "applied" /\ crossed' = crossed /\ Behind("own")
    BY <1>3 DEF ServerApplies
  <2>2. ConsoleTypes' BY <1>1, <2>1, BehindIs
  <2> QED
    BY <1>1, <2>1, <2>2
    DEF OutOfSight, FetchKnows, CacheCatchesUp, Mounted, Invalidates, Apart
<1>4. CASE Success
  <2>1. own = "applied" /\ own' = "answered" BY <1>4 DEF Success
  <2>2. CASE Invalidates
    <3>1. Invalidate /\ UNCHANGED view BY <1>1, <1>4, <2>2 DEF Success, Invalidates
    <3> QED BY <2>1, <3>1, InvalidateKeeps
  <2>3. CASE ~Invalidates
    <3>1. /\ UNCHANGED <<cache, fetch>>
          /\ crossed' = IF fetch.at # "none" /\ crossed = "no" THEN "before" ELSE crossed
      BY <1>4, <2>1, <2>3 DEF Success, Invalidates, LeftAlone
    <3>2. ConsoleTypes' BY <1>1, <2>1, <3>1
    <3>3. OutOfSight' /\ FetchKnows'
      BY <1>1, <2>1, <3>1 DEF OutOfSight, FetchKnows
    <3>4. CacheCatchesUp'
      BY <1>1, <2>1, <2>3, <3>1 DEF OutOfSight, CacheCatchesUp, Mounted, Invalidates, Apart
    <3> QED BY <3>2, <3>3, <3>4
  <2> QED BY <2>2, <2>3
<1>5. CASE ActionFails
  <2>1. UNCHANGED <<cache, fetch, crossed>> /\ own' = "lost" /\ UnderWay
    BY <1>5 DEF ActionFails
  <2>2. ConsoleTypes' BY <1>1, <2>1
  <2> QED BY <2>1, <2>2 DEF OutOfSight, FetchKnows, CacheCatchesUp
<1>6. CASE SomebodyElse
  <2>1. UNCHANGED <<own, crossed>> /\ Behind("other") BY <1>6 DEF SomebodyElse
  <2>2. /\ cache' \in Caches /\ cache'.stale = cache.stale /\ cache'.failed = cache.failed
        /\ fetch' \in Fetches /\ fetch'.at = fetch.at
        /\ fetch.at = "none" => fetch'.lacks = fetch.lacks
        /\ "own" \in cache'.lacks => "own" \in cache.lacks
        /\ "own" \in fetch'.lacks => "own" \in fetch.lacks
    <3>1. PICK change \in {"own", "other"} : change = "other" OBVIOUS
    <3>2. Behind(change) /\ change # "own" BY <2>1, <3>1
    <3> QED BY <3>2, BehindIs
  <2>3. ConsoleTypes' BY <1>1, <2>1, <2>2
  <2> QED
    BY <1>1, <2>1, <2>2, <2>3
    DEF OutOfSight, FetchKnows, CacheCatchesUp, Mounted, Invalidates, Apart
<1> QED BY <1>2, <1>3, <1>4, <1>5, <1>6

\* The stream.
LEMMA StreamKeeps ==
  ASSUME ConsoleInv, StreamOpens \/ StreamFails \/ Reconnect \/ EventArrives
  PROVE  ConsoleInv'
<1>1. CASE EventArrives
  <2>1. Invalidate /\ UNCHANGED view /\ own' = own BY <1>1 DEF EventArrives
  <2> QED BY <2>1, InvalidateKeeps
<1>2. CASE StreamOpens \/ StreamFails \/ Reconnect
  <2>1. UNCHANGED <<scene, where, cache, fetch, own, crossed>>
    BY <1>2 DEF StreamOpens, StreamFails, Reconnect, view
  <2> QED
    BY <2>1 DEF ConsoleInv, ConsoleTypes, OutOfSight, FetchKnows, CacheCatchesUp, Mounted,
                Invalidates, Apart, Inside, UnderWay
<1> QED BY <1>1, <1>2

(***************************************************************************)
(* Once an action was answered, an open page does not go on showing what   *)
(* was before: whatever is fetched, failed, told, forgotten and opened in  *)
(* between, in any number of pages and for any role. The exceptions are in *)
(* the property: a page that asked or was opened while the action was      *)
(* under way, and one whose fetch from before was only waited for, both    *)
(* until they ask again.                                                   *)
(***************************************************************************)
THEOREM OwnChangeShown == ConsoleSpec => []PageShowsOwnChange
<1>1. ConsoleInit => ConsoleInv
  BY ConsoleInvInit
<1>2. ConsoleInv /\ [ConsoleStep]_consoleVars => ConsoleInv'
  <2> SUFFICES ASSUME ConsoleInv, [ConsoleStep]_consoleVars PROVE ConsoleInv'
    OBVIOUS
  <2>1. CASE UNCHANGED consoleVars
    BY <2>1 DEF consoleVars, ConsoleInv, ConsoleTypes, OutOfSight, FetchKnows, CacheCatchesUp,
                Mounted, Invalidates, Apart, Inside, UnderWay
  <2> QED
    BY <2>1, OpenKeeps, SignInKeeps, LogoutKeeps, FetchingKeeps, AgeingKeeps, ActingKeeps,
       StreamKeeps DEF ConsoleStep
<1>3. ConsoleInv => PageShowsOwnChange
  <2> SUFFICES ASSUME ConsoleInv PROVE PageShowsOwnChange OBVIOUS
  <2>1. PICK role \in {r \in Roles : SignsIn(r)} : scene \in ScenesOf(role)
    BY ConsoleAssumption DEF ConsoleInv, ConsoleTypes, Scenes
  <2>2. Invalidates \/ KnownStale(scene) \/ Apart
    BY <2>1, PagesAssumption DEF Invalidates, Apart
  <2> QED BY <2>2 DEF ConsoleInv, CacheCatchesUp, PageShowsOwnChange
<1> QED BY <1>1, <1>2, <1>3, PTL DEF ConsoleSpec

-----------------------------------------------------------------------------
(***************************************************************************)
(* The chat.  A button or a step stands for an intent that there is.       *)
(***************************************************************************)
AnyParams == [full : BOOLEAN, about : Objects \cup {Nothing}, dish : {"none", "one", "id"}]

AnyButton == [kind : {"action", "confirm"}, intent : DOMAIN Intents, given : AnyParams]

AnyStep == [intent : DOMAIN Intents, given : AnyParams, confirm : BOOLEAN]

DialogueTypes ==
  /\ session \in Persona \cup {"none"}
  /\ messages \in Seq(SUBSET AnyButton)
  /\ plan \in Seq(AnyStep)

\* Who asks for an intent has confirmed it, if that is required and asked for.
WasAskedFor(intent, by) == Intents[intent].confirm => by = "yes" \/ NotAskedFor(intent, by)

LEMMA NoneIs == None \in AnyParams /\ \A o \in Objects : Of(o) \in AnyParams
  BY DEF None, Of, AnyParams

LEMMA ReplyIs ==
  ASSUME DialogueTypes, NEW buttons \in SUBSET AnyButton, Reply(buttons)
  PROVE  messages' \in Seq(SUBSET AnyButton)
<1>1. PICK all \in Seq(SUBSET AnyButton) : all = Append(messages, buttons) /\ all # <<>>
  BY AppendProperties DEF DialogueTypes
<1>2. Tail(all) \in Seq(SUBSET AnyButton)
  BY <1>1, HeadTailProperties
<1> QED BY <1>1, <1>2 DEF Reply

\* A reply for which no handler ran does nothing.
LEMMA QuietIs ==
  ASSUME DialogueTypes, NEW buttons \in SUBSET AnyButton, Quiet(buttons)
  PROVE  messages' \in Seq(SUBSET AnyButton) /\ session' = session /\ NothingUnconfirmed'
<1>1. messages' \in Seq(SUBSET AnyButton) BY ReplyIs DEF Quiet
<1>2. last'.intent = "help" BY DEF Quiet, NoLast
<1>3. ~Intents["help"].confirm BY IntentsAssumption
<1> QED BY <1>1, <1>2, <1>3 DEF Quiet, NothingUnconfirmed

LEMMA MenuRowsAre ==
  ASSUME DialogueTypes
  PROVE  MenuRows \in SUBSET AnyButton
<1>1. "help" \in DOMAIN Intents BY IntentsAssumption
<1>2. session # "none" => MenuSections[session] \subseteq DOMAIN Intents
  BY DialogueAssumption DEF DialogueTypes, MenuSections, Roles, TenantRoles
<1>3. PICK I \in SUBSET DOMAIN Intents :
        I = IF session = "none" THEN {} ELSE MenuSections[session] \cup {"help"}
  BY <1>1, <1>2
<1>4. MenuRows = {Button("action", i, None) : i \in I} BY <1>3 DEF MenuRows
<1> QED BY <1>4, NoneIs DEF Button, AnyButton

\* A handler has an effect for its own intent and for whoever asked for it.
LEMMA HandleIs ==
  ASSUME DialogueTypes, NEW intent \in DOMAIN Intents, NEW given, NEW by, NEW used,
         WasAskedFor(intent, by), UNCHANGED orchestrated,
         Handle(intent, given, by, used)
  PROVE  /\ session' \in Persona \cup {"none"} /\ messages' \in Seq(SUBSET AnyButton)
         /\ NothingUnconfirmed'
<1>1. PICK effect : last' = [intent |-> intent, given |-> given, by |-> by, effect |-> effect]
  BY DEF Handle
<1>2. NothingUnconfirmed' BY <1>1 DEF NothingUnconfirmed, WasAskedFor, NotAskedFor
<1>3. session' \in Persona \cup {"none"} BY DEF Handle, DialogueTypes
<1>4. PICK entry \in DispatchTable[intent].entries, o \in Objects, done \in BOOLEAN :
        Reply(IF intent = "menu" THEN MenuRows
              ELSE IF done THEN {Button("action", i, Of(o)) : i \in entry}
              ELSE {})
  BY DEF Handle
<1>5. entry \subseteq DOMAIN Intents BY <1>4, IntentsAssumption DEF OffersOf
<1>6. {Button("action", i, Of(o)) : i \in entry} \in SUBSET AnyButton
  BY <1>5, NoneIs DEF Button, AnyButton
<1>7. MenuRows \in SUBSET AnyButton /\ {} \in SUBSET AnyButton BY MenuRowsAre
<1>8. messages' \in Seq(SUBSET AnyButton) BY <1>4, <1>6, <1>7, ReplyIs
<1> QED BY <1>2, <1>3, <1>8

\* An intent that is run, or the list it falls back to.
LEMMA RunIs ==
  ASSUME DialogueTypes, NEW intent \in DOMAIN Intents, NEW given, NEW by,
         WasAskedFor(intent, by), UNCHANGED orchestrated,
         Run(intent, given, by)
  PROVE  /\ session' \in Persona \cup {"none"} /\ messages' \in Seq(SUBSET AnyButton)
         /\ NothingUnconfirmed'
<1>1. CASE Handle(intent, given, by, Nothing)
  BY <1>1, HandleIs
<1>2. CASE Intents[intent].list # "" /\ Handle(Intents[intent].list, None, by, Nothing)
  <2>1. Intents[intent].list \in DOMAIN Intents /\ ~Intents[Intents[intent].list].confirm
    BY <1>2, IntentsAssumption
  <2> QED BY <1>2, <2>1, HandleIs DEF WasAskedFor
<1>3. CASE Quiet({})
  BY <1>3, QuietIs DEF DialogueTypes
<1> QED BY <1>1, <1>2, <1>3 DEF Run

\* A plan of the agent, of the words or of the fallback has steps that there are.
LEMMA PlansAre == Plans \subseteq Seq(AnyStep)
<1>1. \A i \in DOMAIN Intents : ParamsOf(i) \subseteq AnyParams
  <2> SUFFICES ASSUME NEW i \in DOMAIN Intents, NEW g \in ParamsOf(i) PROVE g \in AnyParams
    OBVIOUS
  <2>1. CASE i \in DishIntents
    <3>1. g \in [full : BOOLEAN, about : {Nothing}, dish : {"none", "one"}]
      BY <2>1 DEF ParamsOf
    <3> QED BY <3>1 DEF AnyParams
  <2>2. CASE i \notin DishIntents
    <3>1. g = None \/ \E o \in Objects : g = Of(o) BY <2>2 DEF ParamsOf
    <3> QED BY <3>1, NoneIs
  <2> QED BY <2>1, <2>2
<1> DEFINE steps == UNION {{Step(i, g, c) : g \in ParamsOf(i), c \in BOOLEAN} : i \in Talk}
<1>3. steps \subseteq AnyStep
  <2>1. ASSUME NEW i \in Talk, NEW g \in ParamsOf(i), NEW c \in BOOLEAN
        PROVE  Step(i, g, c) \in AnyStep
    BY <1>1, DialogueAssumption DEF Step, AnyStep
  <2>2. \A s \in steps : \E i \in Talk : \E g \in ParamsOf(i) : \E c \in BOOLEAN : s = Step(i, g, c)
    OBVIOUS
  <2> HIDE DEF steps
  <2> QED BY <2>1, <2>2
<1>4. Ideas = {<<s>> : s \in steps} \cup (steps \X steps)
  BY DEF Ideas
<1> HIDE DEF steps
<1>5. ASSUME NEW idea \in Ideas
      PROVE  \E n \in Nat : DOMAIN idea = 1 .. n /\ \A k \in 1 .. n : idea[k] \in AnyStep
  <2>1. CASE \E s \in steps : idea = <<s>>
    <3>1. PICK s \in steps : idea = <<s>> BY <2>1
    <3>2. DOMAIN idea = 1 .. 1 /\ \A k \in 1 .. 1 : idea[k] \in AnyStep BY <1>3, <3>1
    <3> QED BY <3>2
  <2>2. CASE idea \in steps \X steps
    <3>1. PICK s \in steps, t \in steps : idea = <<s, t>> BY <2>2
    <3>2. DOMAIN idea = 1 .. 2 /\ \A k \in 1 .. 2 : idea[k] \in AnyStep BY <1>3, <3>1
    <3> QED BY <3>2
  <2> QED BY <1>4, <2>1, <2>2
<1>6. ASSUME NEW idea \in Ideas
      PROVE  PlanFromAiMessage(idea) \in Seq(AnyStep) /\ GeminiPlanIntent(idea) \in Seq(AnyStep)
  <2>1. PICK n \in Nat : DOMAIN idea = 1 .. n /\ \A k \in 1 .. n : idea[k] \in AnyStep BY <1>5
  <2>2. ASSUME NEW k \in 1 .. n
        PROVE  /\ [idea[k] EXCEPT !.confirm = @ \/ idea[k].intent \in AgentDestructive] \in AnyStep
               /\ [idea[k] EXCEPT !.confirm = FALSE] \in AnyStep
    <3>1. PICK step \in AnyStep : step = idea[k] BY <2>1
    <3>2. \A c \in BOOLEAN : [step EXCEPT !.confirm = c] \in AnyStep BY DEF AnyStep
    <3>3. (step.confirm \/ step.intent \in AgentDestructive) \in BOOLEAN OBVIOUS
    <3> QED BY <3>1, <3>2, <3>3
  <2>3. PlanFromAiMessage(idea) \in [1 .. n -> AnyStep] BY <2>1, <2>2 DEF PlanFromAiMessage
  <2>4. GeminiPlanIntent(idea) \in [1 .. n -> AnyStep] BY <2>1, <2>2 DEF GeminiPlanIntent
  <2> QED BY <2>3, <2>4, SeqDef
<1>7. AgentPlans \subseteq Seq(AnyStep) BY <1>6 DEF AgentPlans
<1>8. ASSUME NEW i \in DOMAIN Intents, NEW c \in BOOLEAN
      PROVE  <<Step(i, None, c)>> \in Seq(AnyStep)
  <2>1. Step(i, None, c) \in AnyStep BY NoneIs DEF Step, AnyStep
  <2> QED BY <2>1
<1>9. DeterministicPlans \subseteq Seq(AnyStep)
  <2> SUFFICES ASSUME NEW p \in DeterministicPlans PROVE p \in Seq(AnyStep) OBVIOUS
  <2>1. PICK i \in Talk : p = <<Step(i, None, i \in AgentDestructive)>> BY DEF DeterministicPlans
  <2>2. (i \in AgentDestructive) = TRUE \/ (i \in AgentDestructive) = FALSE OBVIOUS
  <2>3. p = <<Step(i, None, TRUE)>> \/ p = <<Step(i, None, FALSE)>> BY <2>1, <2>2, Zenon
  <2> QED BY <1>8, <2>3, DialogueAssumption
<1>10. FallbackPlans \subseteq Seq(AnyStep)
  <2>1. "menu" \in DOMAIN Intents BY IntentsAssumption
  <2> QED BY <1>8, <2>1 DEF FallbackPlans
<1> QED BY <1>7, <1>9, <1>10 DEF Plans

LEMMA NoLastIsHarmless ==
  ASSUME last' = NoLast
  PROVE  NothingUnconfirmed'
<1>1. last'.intent = "help" BY DEF NoLast
<1> QED BY <1>1, IntentsAssumption DEF NothingUnconfirmed

\* What requires a confirmation and is not destructive.
LEMMA ConfirmedOrNot ==
  ASSUME NEW i \in DOMAIN Intents, Intents[i].confirm, ~Intents[i].destructive
  PROVE  i \in {"leftovers.dispositions", "leftovers.disposition_suggest"}
  BY IntentsAssumption

\* A step of a plan asks if its intent is destructive, and runs or lists otherwise.
LEMMA ExecuteStepIs ==
  ASSUME DialogueTypes, ExecuteStep, UNCHANGED orchestrated
  PROVE  DialogueTypes' /\ NothingUnconfirmed'
<1>1. PICK step \in AnyStep : step = Head(plan)
  BY HeadTailProperties DEF ExecuteStep, DialogueTypes
<1>2. step.intent \in DOMAIN Intents /\ step.given \in AnyParams BY DEF AnyStep
<1>3. Tail(plan) \in Seq(AnyStep) /\ <<>> \in Seq(AnyStep)
  BY HeadTailProperties DEF ExecuteStep, DialogueTypes
<1>4. ResolveParams(step.given) \in AnyParams
  BY <1>2 DEF ResolveParams, AnyParams
<1>5. CASE Halt /\ Quiet({})
  BY <1>3, <1>5, QuietIs DEF Halt, DialogueTypes
<1>6. CASE RenderMissing(step)
  <2>1. plan' = <<>> BY <1>6 DEF RenderMissing, Halt
  <2>2. CASE Quiet({})
    BY <1>3, <2>1, <2>2, QuietIs DEF DialogueTypes
  <2>3. CASE /\ Intents[step.intent].list # ""
             /\ Handle(Intents[step.intent].list, None, "plan", Nothing)
    <3>1. /\ Intents[step.intent].list \in DOMAIN Intents
          /\ ~Intents[Intents[step.intent].list].confirm
      BY <1>2, <2>3, IntentsAssumption
    <3>2. /\ session' \in Persona \cup {"none"} /\ messages' \in Seq(SUBSET AnyButton)
          /\ NothingUnconfirmed'
      BY <2>3, <3>1, HandleIs DEF WasAskedFor
    <3> QED BY <1>3, <2>1, <3>2 DEF DialogueTypes
  <2> QED BY <1>6, <2>2, <2>3 DEF RenderMissing
<1>7. CASE AskToConfirm(step)
  <2>1. Confirm(step.intent, ResolveParams(step.given)) \in SUBSET AnyButton
    BY <1>2, <1>4 DEF Confirm, Button, AnyButton
  <2>2. /\ messages' \in Seq(SUBSET AnyButton) /\ session' = session /\ NothingUnconfirmed'
        /\ plan' = <<>>
    BY <1>7, <2>1, QuietIs DEF AskToConfirm, Halt
  <2> QED BY <1>3, <2>2 DEF DialogueTypes
<1>8. CASE ~AsksFirst(step) /\ RunSingleStep(step)
  <2>1. WasAskedFor(step.intent, "plan")
    BY <1>2, <1>8, ConfirmedOrNot DEF AsksFirst, WasAskedFor, NotAskedFor
  <2>2. Handle(step.intent, ResolveParams(step.given), "plan", keyed) /\ plan' = Tail(plan)
    BY <1>1, <1>8 DEF RunSingleStep
  <2>3. /\ session' \in Persona \cup {"none"} /\ messages' \in Seq(SUBSET AnyButton)
        /\ NothingUnconfirmed'
    BY <1>2, <2>1, <2>2, HandleIs
  <2> QED BY <1>3, <2>2, <2>3 DEF DialogueTypes
<1> QED BY <1>1, <1>5, <1>6, <1>7, <1>8 DEF ExecuteStep

\* The button of an action that is destructive gets a card; any other, and the
\* card's own, runs.
LEMMA CallCallbackIs ==
  ASSUME DialogueTypes, CallCallback, UNCHANGED orchestrated
  PROVE  DialogueTypes' /\ NothingUnconfirmed'
<1>1. PICK b \in Buttons :
        IF Intents[b.intent].destructive /\ b.kind = "action"
        THEN Quiet(Confirm(b.intent, b.given))
        ELSE Run(b.intent, b.given, IF b.kind = "confirm" THEN "yes" ELSE "button")
  BY DEF CallCallback
<1>2. b \in AnyButton
  <2>1. \A k \in DOMAIN messages : messages[k] \in SUBSET AnyButton
    BY ElementOfSeq DEF DialogueTypes
  <2> QED BY <2>1 DEF Buttons, Range
<1>3. b.kind \in {"action", "confirm"} /\ b.intent \in DOMAIN Intents /\ b.given \in AnyParams
  BY <1>2 DEF AnyButton
<1>4. plan' = plan BY DEF CallCallback
<1>5. CASE Intents[b.intent].destructive /\ b.kind = "action"
  <2>1. Confirm(b.intent, b.given) \in SUBSET AnyButton
    BY <1>3 DEF Confirm, Button, AnyButton
  <2> QED BY <1>1, <1>4, <1>5, <2>1, QuietIs DEF DialogueTypes
<1>6. CASE ~(Intents[b.intent].destructive /\ b.kind = "action")
  <2>1. PICK by : by = IF b.kind = "confirm" THEN "yes" ELSE "button" OBVIOUS
  <2>2. Run(b.intent, b.given, by) BY <1>1, <1>6, <2>1
  <2>3. WasAskedFor(b.intent, by)
    BY <1>3, <1>6, <2>1, ConfirmedOrNot DEF WasAskedFor, NotAskedFor
  <2>4. /\ session' \in Persona \cup {"none"} /\ messages' \in Seq(SUBSET AnyButton)
        /\ NothingUnconfirmed'
    BY <1>3, <2>2, <2>3, RunIs
  <2> QED BY <1>4, <2>4 DEF DialogueTypes
<1> QED BY <1>5, <1>6

\* The persona, the commands and the messages.
LEMMA SpeakingIs ==
  ASSUME DialogueTypes,
         \/ LinkChat \/ StartLogout \/ CallCancel \/ Command
         \/ PlanDispatch \/ Dispatch \/ TokenExpired,
         UNCHANGED orchestrated
  PROVE  DialogueTypes' /\ NothingUnconfirmed'
<1>1. CASE LinkChat
  <2>1. Button("action", "menu", None) \in AnyButton
    BY IntentsAssumption, NoneIs DEF Button, AnyButton
  <2>2. messages' \in Seq(SUBSET AnyButton) BY <1>1, <2>1, ReplyIs DEF LinkChat
  <2> QED BY <1>1, <2>2, NoLastIsHarmless DEF LinkChat, DialogueTypes
<1>2. CASE StartLogout
  <2>1. messages' \in Seq(SUBSET AnyButton) BY <1>2, ReplyIs DEF StartLogout
  <2>2. last'.intent = "auth.logout" /\ last'.by = "start" BY <1>2 DEF StartLogout
  <2>3. NothingUnconfirmed' BY <2>2 DEF NothingUnconfirmed, NotAskedFor
  <2> QED BY <1>2, <2>1, <2>3 DEF StartLogout, DialogueTypes
<1>3. CASE CallCancel \/ TokenExpired
  BY <1>3, QuietIs DEF CallCancel, TokenExpired, DialogueTypes
<1>4. CASE Command
  <2>1. PICK i \in {i \in Talk : Intents[i].command} \cup {"menu", "help"} : Run(i, None, "command")
    BY <1>4 DEF Command
  <2>2. i \in DOMAIN Intents /\ WasAskedFor(i, "command")
    BY DialogueAssumption, IntentsAssumption DEF WasAskedFor
  <2>3. plan' = plan BY <1>4 DEF Command
  <2> QED BY <2>1, <2>2, <2>3, RunIs DEF DialogueTypes
<1>5. CASE PlanDispatch
  <2>1. plan' \in Seq(AnyStep) /\ UNCHANGED <<session, messages>> /\ last' = NoLast
    BY <1>5, PlansAre DEF PlanDispatch
  <2> QED BY <2>1, NoLastIsHarmless DEF DialogueTypes
<1>6. CASE Dispatch
  <2>1. CASE Quiet({}) BY <1>6, <2>1, QuietIs DEF Dispatch, DialogueTypes
  <2>2. CASE \E i \in Talk : \E given \in ParamsOf(i) : Run(i, given, "text")
    <3>1. PICK i \in Talk : \E given \in ParamsOf(i) : Run(i, given, "text") BY <2>2
    <3>2. PICK given \in ParamsOf(i) : Run(i, given, "text") BY <3>1
    <3>3. i \in DOMAIN Intents /\ WasAskedFor(i, "text")
      BY <1>6, DialogueAssumption DEF Dispatch, WasAskedFor, NotAskedFor
    <3>4. plan' = plan BY <1>6 DEF Dispatch
    <3> QED BY <3>2, <3>3, <3>4, RunIs DEF DialogueTypes
  <2> QED BY <1>6, <2>1, <2>2 DEF Dispatch
<1> QED BY <1>1, <1>2, <1>3, <1>4, <1>5, <1>6

(***************************************************************************)
(* An intent that requires a confirmation takes effect only by the button  *)
(* of a card that asks, whatever plan is made of a sentence and whichever  *)
(* buttons of old messages are pressed by whichever persona, except in the *)
(* ways of NotAskedFor: the buttons and plans of the two intents on        *)
(* dispositions, "/start logout", and text without the orchestrator.       *)
(***************************************************************************)
THEOREM AskedFirst == DialogueSpec => []NothingUnconfirmed
<1>1. DialogueInit => DialogueTypes /\ NothingUnconfirmed
  <2> SUFFICES ASSUME DialogueInit PROVE DialogueTypes /\ NothingUnconfirmed OBVIOUS
  <2>1. DialogueTypes BY DEF DialogueInit, DialogueTypes
  <2>2. last.intent = "help" BY DEF DialogueInit, NoLast
  <2> QED BY <2>1, <2>2, IntentsAssumption DEF NothingUnconfirmed
<1>2. DialogueTypes /\ NothingUnconfirmed /\ [DialogueStep]_dialogueVars
        => DialogueTypes' /\ NothingUnconfirmed'
  <2> SUFFICES ASSUME DialogueTypes, NothingUnconfirmed, [DialogueStep]_dialogueVars
               PROVE  DialogueTypes' /\ NothingUnconfirmed'
    OBVIOUS
  <2>1. CASE UNCHANGED dialogueVars
    BY <2>1 DEF dialogueVars, DialogueTypes, NothingUnconfirmed, NotAskedFor
  <2> QED BY <2>1, ExecuteStepIs, CallCallbackIs, SpeakingIs DEF DialogueStep
<1> QED BY <1>1, <1>2, PTL DEF DialogueSpec
=============================================================================
