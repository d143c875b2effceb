------------------------------ MODULE MCRequests ------------------------------
(***************************************************************************)
(* What people ask of main-service: through a page of the console, through *)
(* the chat of the bot, with a refresh token, or once more with the key of *)
(* an earlier call.  These parts share no state, so that each behaviour is *)
(* one part's, and the others stay as they begin.                          *)
(***************************************************************************)
EXTENDS Console, Dialogue, Sessions, Retries

CONSTANT Parts  \* the parts that are looked at

VARIABLE part

vars == <<part, consoleVars, dialogueVars, sessionsVars, retriesVars>>

Init ==
  /\ part \in Parts
  /\ ConsoleInit /\ (part # "console" => scene = CHOOSE s \in Scenes : TRUE)
  /\ DialogueInit /\ SessionsInit /\ RetriesInit

Browsing ==
  part = "console" /\ ConsoleStep /\ UNCHANGED <<dialogueVars, sessionsVars, retriesVars>>
Chatting ==
  part = "dialogue" /\ DialogueStep /\ UNCHANGED <<consoleVars, sessionsVars, retriesVars>>
SigningIn ==
  part = "sessions" /\ SessionsStep /\ UNCHANGED <<consoleVars, dialogueVars, retriesVars>>
Retrying ==
  part = "retries" /\ RetriesStep /\ UNCHANGED <<consoleVars, dialogueVars, sessionsVars>>

Next == UNCHANGED part /\ (Browsing \/ Chatting \/ SigningIn \/ Retrying)

Spec == Init /\ [][Next]_vars /\ ConsoleFairness

-----------------------------------------------------------------------------
\* What the pages of a role offer and main-service refuses that role.
WebGaps ==
     "super_admin" :> {}
  @@ "owner" :> {"PATCH /v1/notification-preferences"}
  @@ "staff" :>
       {"POST /v1/leftovers/dispositions", "GET /v1/leftovers/:id/disposition-suggestion",
        "POST /v1/listings/:id/cancel", "POST /v1/market/:id/claim",
        "GET /v1/leftovers/reuse-pending", "POST /v1/leftovers/:id/reuse-confirmation"}
  @@ "ngo_admin" :> {"PATCH /v1/ngo/verification", "PATCH /v1/notification-preferences"}
  @@ "ngo_volunteer" :>
       {"GET /v1/market", "GET /v1/market/pickups",
        "POST /v1/market/:id/claim", "POST /v1/market/:id/release"}

\* The same for the bot's menu and the buttons under the replies it leads to.
ChatGaps ==
     "ngo_admin" :> {"reports.create"}
  @@ "staff" :> {"listings.cancel", "market.claim", "leftovers.dispositions",
                 "leftovers.disposition_suggest"}
  @@ "ngo_volunteer" :> {"market.claim", "market.browse", "market.pickups"}
  @@ [role \in {"owner", "super_admin"} |-> {}]

\* Apart from these, nothing that a page or the bot's menu will put before
\* whoever signs in is refused for that person's role (nav-config.ts and
\* intents.ts against the *.route.ts files and rbac.ts).
AllServed ==
  \A role \in Roles : Gaps(role) \subseteq WebGaps[role] /\ BotGaps(role) \subseteq ChatGaps[role]
OfferedIsServed == ~Inside => AllServed
=============================================================================
