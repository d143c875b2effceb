------------------------------ MODULE Dialogue ------------------------------
(***************************************************************************)
(* One chat of the Telegram bot: the plan the agent makes of a message,    *)
(* the steps the bot takes of it, and the buttons of the messages in the   *)
(* chat, which can be pressed whatever has happened since. Without the     *)
(* orchestrator, the one intent that is made of a message runs at once.    *)
(***************************************************************************)
EXTENDS BotIntents, SequencesExt, FiniteSetsExt

CONSTANTS
  Persona,     \* the roles the chat can be linked as
  Talk,        \* the intents that people's sentences are about
  Objects,     \* the listings, leftovers, users, ... that a list shows
  Nothing,     \* no object
  MaxMessages  \* the messages whose buttons are still in reach

VARIABLES
  session,      \* the role the chat is linked as, or "none"
  messages,     \* the buttons of the last messages, the oldest first
  plan,         \* the steps that are left of the plan under way
  keyed,        \* what the key of that plan was first used for
  last,         \* the handler the last step ran: its intent, for what, by what, its effect
  orchestrated  \* ORCHESTRATOR_ENABLED, of the bot's environment

ASSUME DialogueAssumption ==
  /\ Persona \subseteq TenantRoles /\ Talk \subseteq DOMAIN Intents
  /\ Nothing \notin Objects /\ MaxMessages \in Nat \ {0}

\* Facts of the tables: an intent falls back to a list, which undoes nothing, as do
\* commands, help and the menu; every intent has a handler, every button an intent.
ASSUME IntentsAssumption ==
  /\ {"help", "menu"} \subseteq DOMAIN Intents /\ DOMAIN Intents \subseteq DOMAIN DispatchTable
  /\ \A i \in DOMAIN Intents :
       LET spec == Intents[i]
       IN  /\ spec.list # "" => spec.list \in DOMAIN Intents /\ ~Intents[spec.list].confirm
           /\ spec.destructive => spec.confirm
           /\ spec.confirm /\ ~spec.destructive =>
                i \in {"leftovers.dispositions", "leftovers.disposition_suggest"}
           /\ spec.confirm => ~spec.command /\ i \notin {"help", "menu"}
           /\ OffersOf(i) \subseteq DOMAIN Intents

dialogueVars == <<session, messages, plan, keyed, last, orchestrated>>

\* The parameters of an intent: all that it needs or not, and for a dish the words
\* that fit one dish and no other, its id, or none of these.
None == [full |-> FALSE, about |-> Nothing, dish |-> "none"]
Of(object) == [None EXCEPT !.full = TRUE, !.about = object]
DishIntents == {"prep.create", "leftovers.record"}

-----------------------------------------------------------------------------
AgentDestructive ==
  {"leftovers.dispositions", "listings.cancel", "listings.no_show", "sessions.revoke",
   "users.archive", "auth.logout", "market.release", "admin.verification.decide"}

\* What a model can make of a sentence, before it is checked: one or two steps.
ParamsOf(intent) ==
  IF intent \in DishIntents
  THEN [full : BOOLEAN, about : {Nothing}, dish : {"none", "one"}]
  ELSE IF Intents[intent].needs THEN {None} \cup {Of(o) : o \in Objects}
  ELSE {None}

Step(intent, given, confirm) == [intent |-> intent, given |-> given, confirm |-> confirm]

Ideas ==
  LET steps == UNION {{Step(i, g, c) : g \in ParamsOf(i), c \in BOOLEAN} : i \in Talk}
  IN  {<<s>> : s \in steps} \cup (steps \X steps)

\* The graph's answer is read step by step, and what is destructive is to be confirmed.
PlanFromAiMessage(idea) ==
  [k \in DOMAIN idea |->
     [idea[k] EXCEPT !.confirm = @ \/ idea[k].intent \in AgentDestructive]]

\* The schema of the answer without tools has no requiresConfirmation: it is dropped.
GeminiPlanIntent(idea) == [k \in DOMAIN idea |-> [idea[k] EXCEPT !.confirm = FALSE]]

EnforcePlanBounds(p) ==
  /\ Len(p) \in 1..6
  /\ Cardinality({k \in DOMAIN p : p[k].confirm}) <= 1
  /\ p[1].intent \in AgentDestructive => p[1].confirm

\* A plan out of bounds is an error, like an agent that does not answer.
AgentPlans ==
  {p \in {PlanFromAiMessage(i) : i \in Ideas} \cup {GeminiPlanIntent(i) : i \in Ideas} :
     EnforcePlanBounds(p)}

\* Words of the message that stand for an intent, for the agent and for the
\* bot; neither finds a dish or an id in a message.
DeterministicPlans == {<<Step(i, None, i \in AgentDestructive)>> : i \in Talk}
FallbackPlans == {<<Step("menu", None, FALSE)>>}

Plans == AgentPlans \cup DeterministicPlans \cup FallbackPlans

-----------------------------------------------------------------------------
Button(kind, intent, given) == [kind |-> kind, intent |-> intent, given |-> given]
Confirm(intent, given) == {Button("confirm", intent, given)}
Buttons == UNION Range(messages)

NoLast == [intent |-> "help", given |-> None, by |-> "nobody", effect |-> "done"]

Reply(buttons) ==
  messages' = LET all == Append(messages, buttons)
              IN  IF Len(all) > MaxMessages THEN Tail(all) ELSE all

\* A reply for which no handler ran.
Quiet(buttons) == Reply(buttons) /\ UNCHANGED session /\ last' = NoLast

DialogueInit ==
  /\ session = "none" /\ messages = <<>> /\ plan = <<>> /\ keyed = Nothing /\ last = NoLast
  /\ orchestrated \in BOOLEAN

MenuRows ==
  {Button("action", i, None) :
     i \in IF session = "none" THEN {} ELSE MenuSections[session] \cup {"help"}}

\* The calls that main-service remembers by their key, with the object in the body.
Remembered ==
  {"market.claim", "listings.cancel", "listings.complete", "listings.no_show",
   "prep.create", "inventory.purchases.create"}

\* For what a key is used: of a listing only the id counts.
Use(intent, given) ==
  IF intent \in {"prep.create", "inventory.purchases.create"} THEN intent ELSE given.about

Acts(intent) ==
  \E k \in DOMAIN DispatchTable[intent].calls : App[DispatchTable[intent].calls[k]].writes # {}

\* What comes of a handler whose calls carry a key that was used for "used":
\* an action may be refused as the object is not what the list showed any
\* more, and its answer may be lost.
Effects(intent, given, used) ==
  IF DispatchTable[intent].calls = <<>> THEN {"done"}
  ELSE IF session = "none" THEN {"refused"}
  ELSE IF Refuses(session, intent) THEN {"refused"}
  ELSE IF intent \in DishIntents /\ given.dish # "one" THEN {"unknown dish"}
  ELSE IF Intents[intent].needs /\ ~given.full THEN {"refused"}
  ELSE IF intent \in Remembered /\ used # Nothing
       THEN {IF used = Use(intent, given) THEN "repeated" ELSE "conflict"}
  ELSE IF Acts(intent) THEN {"done", "refused", "lost"}
  ELSE {"done"}

\* A handler runs, and its reply is sent; what it throws is sent as well.
Handle(intent, given, by, used) ==
  \E effect \in Effects(intent, given, used) :
    /\ last' = [intent |-> intent, given |-> given, by |-> by, effect |-> effect]
    /\ session' = IF intent = "auth.logout" THEN "none" ELSE session
    /\ \E entry \in DispatchTable[intent].entries, o \in Objects :
         Reply(IF intent = "menu" THEN MenuRows
               ELSE IF effect = "done" THEN {Button("action", i, Of(o)) : i \in entry}
               ELSE {})

Run(intent, given, by) ==
  LET spec == Intents[intent]
  IN  IF ~spec.needs \/ given.full THEN Handle(intent, given, by, Nothing)
      ELSE IF spec.list # "" THEN Handle(spec.list, None, by, Nothing)
      ELSE Quiet({})

-----------------------------------------------------------------------------
\* A persona is picked, or named after /start; the last one wins.
LinkChat ==
  \E role \in Persona :
    /\ session' = role /\ last' = NoLast
    /\ Reply({Button("action", "menu", None)})
    /\ UNCHANGED <<plan, keyed>>

\* The word after /start unlinks the chat, and no card asks.
StartLogout ==
  /\ session' = "none"
  /\ last' = [intent |-> "auth.logout", given |-> None, by |-> "start", effect |-> "done"]
  /\ Reply({})
  /\ UNCHANGED <<plan, keyed>>

\* It says that nothing is in progress: a plan goes on and a card stays.
CallCancel == Quiet({}) /\ UNCHANGED <<plan, keyed>>

Command ==
  /\ \E i \in {i \in Talk : Intents[i].command} \cup {"menu", "help"} : Run(i, None, "command")
  /\ UNCHANGED <<plan, keyed>>

\* One message at a time; its plan is made for the persona of the moment.
PlanDispatch ==
  /\ orchestrated /\ plan = <<>> /\ session # "none"
  /\ plan' \in Plans
  /\ keyed' = Nothing /\ last' = NoLast
  /\ UNCHANGED <<session, messages>>

\* dispatch, in the place of planDispatch: what the agent or else the keywords
\* make of a message is run, or not understood.
Dispatch ==
  /\ ~orchestrated /\ session # "none"
  /\ \/ \E i \in Talk : \E given \in ParamsOf(i) : Run(i, given, "text")
     \/ Quiet({})
  /\ UNCHANGED <<plan, keyed>>

Halt == plan' = <<>> /\ UNCHANGED keyed

\* The words for a dish are replaced by its id.
ResolveParams(given) == IF given.dish = "one" THEN [given EXCEPT !.dish = "id"] ELSE given

\* The dishes can be asked for, and one of them fits.
DishClear(step) ==
  step.intent \in DishIntents =>
    session # "none" /\ Served(session, <<>>, "GET /v1/dishes") /\ step.given.dish = "one"

\* What is missing is only noticed for parameters that are adapted.
FindMissing(step) ==
  Intents[step.intent].adapted /\ Intents[step.intent].needs /\ ~step.given.full

RenderMissing(step) ==
  /\ FindMissing(step) /\ Halt
  /\ LET list == Intents[step.intent].list
     IN  IF list # "" THEN Handle(list, None, "plan", Nothing)
         ELSE Quiet({})

\* Mutant: only the plan's word counts.
AsksIfPlanned(step) == step.confirm
AsksFirst(step) == step.confirm \/ Intents[step.intent].destructive

\* The rest of the plan is dropped.
AskToConfirm(step) ==
  /\ Quiet(Confirm(step.intent, ResolveParams(step.given)))
  /\ Halt

\* A step that fails does not keep the next from being taken.
RunSingleStep(step) ==
  LET given == ResolveParams(step.given)
  IN  /\ Handle(step.intent, given, "plan", keyed)
      /\ plan' = Tail(plan)
      /\ keyed' = IF step.intent \in Remembered /\ last'.effect \in {"done", "lost"}
                  THEN Use(step.intent, given) ELSE keyed

ExecuteStep ==
  /\ plan # <<>>
  /\ LET step == Head(plan)
     IN  \/ ~DishClear(step) /\ Quiet({}) /\ Halt
         \/ DishClear(step) /\ RenderMissing(step)
         \/ DishClear(step) /\ ~FindMissing(step) /\ AsksFirst(step) /\ AskToConfirm(step)
         \/ DishClear(step) /\ ~FindMissing(step) /\ ~AsksFirst(step) /\ RunSingleStep(step)

\* A button works while its token is kept, as often as it is pressed, for
\* whoever the chat is linked as by then.
CallCallback ==
  /\ session # "none"
  /\ \E b \in Buttons :
       IF Intents[b.intent].destructive /\ b.kind = "action"
       THEN Quiet(Confirm(b.intent, b.given))
       ELSE Run(b.intent, b.given, IF b.kind = "confirm" THEN "yes" ELSE "button")
  /\ UNCHANGED <<plan, keyed>>

TokenExpired == session # "none" /\ Buttons # {} /\ CallCancel

DialogueStep ==
  /\ \/ LinkChat \/ StartLogout \/ CallCancel \/ Command
     \/ PlanDispatch \/ Dispatch \/ ExecuteStep \/ CallCallback \/ TokenExpired
  /\ UNCHANGED orchestrated

DialogueSpec == DialogueInit /\ [][DialogueStep]_dialogueVars

-----------------------------------------------------------------------------
(***************************************************************************)
(* An intent that requires a confirmation (intents.ts) takes effect only   *)
(* by the button of a card that asks, in whatever order messages, plans,   *)
(* buttons and personas come, but for the three ways in which the code     *)
(* does not ask: no handler looks at what is required of splitting a       *)
(* leftover and of having a split suggested, which are not destructive, so *)
(* that their buttons and steps of plans run at once; "/start logout"      *)
(* unlinks the chat (README: "unlink" is to "confirm first"); and without  *)
(* the orchestrator the words of a message are enough for anything.        *)
(***************************************************************************)
NotAskedFor(intent, by) ==
  \/ intent \in {"leftovers.dispositions", "leftovers.disposition_suggest"}
     /\ by \in {"button", "plan"}
  \/ intent = "auth.logout" /\ by = "start"
  \/ ~orchestrated /\ by = "text"

NothingUnconfirmed ==
  last.effect \in {"done", "repeated", "lost"} /\ Intents[last.intent].confirm
    => last.by = "yes" \/ NotAskedFor(last.intent, last.by)

\* What a person told of a dish of theirs is recorded, or refused for what it
\* is: it is never answered that there is no such dish (plan-params.ts; the
\* example of prep.create in intents.ts).
ToldIsRecorded ==
  last.by = "plan" /\ last.intent \in DishIntents /\ last.given.full
    => last.effect # "unknown dish"
=============================================================================
