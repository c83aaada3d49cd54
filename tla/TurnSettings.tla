---------------------------- MODULE TurnSettings ----------------------------
(* The settings of one Thread and the requests of its Turns: the PATCH of      *)
(* several pages, each with the version that page displays; the settings of    *)
(* the Runtime and of its store, with failed commits and a crash; and, from    *)
(* the preflight of a Turn on, its effective settings, its output limit and    *)
(* what the adapter of the model's provider sends.                             *)
(*                                                                             *)
(* A model stands for a provider and a model of it.  Of the settings only the  *)
(* fields are kept that the properties tell apart; a field is taken over,      *)
(* overridden and stored like any other.                                       *)
EXTENDS Naturals, FiniteSets

CONSTANTS Page,
          Model,
          Effort,           \* thinking intensities
          Capabilities,     \* what each model supports, and its adapter's style
          Null, Unset,
          Initial,          \* the model a Thread is created with
          Body,             \* bound: the settings a page saves
          Override,         \* bound: the overrides of start requests
          MaxSaves,         \* bound: PATCH requests
          MaxTurns,         \* bound: start requests
          MaxLost,          \* bound: events whose commit fails
          MaxCrashes        \* bound: restarts of the Host

Style == {"generic", "always_on", "reasoning_effort", "toggle", "deepseek", "glm"}
Limit == Nat \ {0}

Thinking == [enabled : BOOLEAN, effort : Effort \cup {Null}]
Settings == [model : Model, thinking : Thinking \cup {Null}, limit : Limit \cup {Null}]

(* What ThinkingCapabilities refuses to describe. *)
WellFormed(c) ==
    /\ c.style \in Style /\ c.efforts \subseteq Effort
    /\ c.supported \in BOOLEAN /\ c.toggle \in BOOLEAN
    /\ {c.maximum, c.default} \subseteq Limit \cup {Null}
    /\ ~c.supported => ~c.toggle /\ c.efforts = {}

ASSUME SettingsAssumption ==
    /\ Null \notin Effort /\ Null \notin Nat /\ Null \notin Model /\ Null \notin Thinking
    /\ Unset \notin Model \cup Thinking \cup Nat \cup {Null}
    /\ Null \notin {"enabled", "disabled"}
    /\ Initial \in Model
    /\ \A m \in Model : WellFormed(Capabilities[m])
    /\ Body \subseteq Settings
    /\ Override \subseteq [model : Model \cup {Unset}, thinking : Thinking \cup {Null, Unset},
                           limit : Limit \cup {Null, Unset}]
    /\ {MaxSaves, MaxTurns, MaxLost, MaxCrashes} \subseteq Nat

VARIABLES up,               \* the Host runs
          settings,         \* record.settings
          durable,          \* the settings in the store
          view,             \* the settings each page displays
          patch,            \* the PATCH each page has sent
          turn,             \* the Turn of the Thread
          started,          \* the turn_started events that were committed
          used              \* how much of each bound is used up

settingsVars == <<up, settings, durable, view, patch, turn, started, used>>

NoPatch == [pending |-> FALSE]
NoTurn == [pc |-> "none"]
Created == [version |-> 0, value |-> [model |-> Initial, thinking |-> Null, limit |-> Null]]
Displayed(s, sure) == [version |-> s.version, value |-> s.value, sure |-> sure]

SettingsInit ==
    /\ up = TRUE /\ settings = Created /\ durable = Created
    /\ view = [p \in Page |-> Displayed(Created, TRUE)]
    /\ patch = [p \in Page |-> NoPatch]
    /\ turn = NoTurn /\ started = {}
    /\ used = [saves |-> 0, turns |-> 0, lost |-> 0, crashes |-> 0]
-----------------------------------------------------------------------------
(* Thinking settings: what can be written down, what a model accepts, ...      *)
Expressible(thinking) == thinking # Null /\ ~thinking.enabled => thinking.effort = Null

(* An override is made of such settings too, and the adapter of a model that   *)
(* can be switched off has a switch to send: so all profiles of the presets.   *)
ASSUME ProfileAssumption ==
    /\ \A o \in Override : o.thinking # Unset => Expressible(o.thinking)
    /\ \A m \in Model :
          Capabilities[m].style \in {"always_on", "reasoning_effort"} => ~Capabilities[m].toggle

(* validate_for, called when the Turn's ModelInvoker is built. *)
Accepts(c, thinking) ==
    thinking # Null =>
        /\ c.supported
        /\ thinking.enabled \/ c.toggle
        /\ thinking.effort # Null => thinking.effort \in c.efforts

(* The public projection of the capabilities, which hides the details of a     *)
(* model that has nothing but a switch.                                       *)
Projected(c) ==
    IF c.supported /\ (~c.toggle \/ c.efforts # {} \/ c.style # "generic")
      THEN [supported |-> TRUE, toggle |-> c.toggle, efforts |-> c.efforts]
      ELSE [supported |-> c.supported, toggle |-> TRUE, efforts |-> {}]

(* Fault: the intensity of the last model is kept for the new one. *)
NormalizedKeepingEffort(value) ==
    LET c == Projected(Capabilities[value.model]) IN
    IF value.thinking = Null THEN value
    ELSE IF ~c.supported THEN [value EXCEPT !.thinking = Null]
    ELSE [value EXCEPT !.thinking.enabled = @ \/ ~c.toggle]

(* ... and what the Host saves of them, judging by the projection. *)
Normalized(value) ==
    LET c == Projected(Capabilities[value.model]) IN
    IF value.thinking = Null THEN value
    ELSE IF ~c.supported THEN [value EXCEPT !.thinking = Null]
    ELSE [value EXCEPT !.thinking = [enabled |-> @.enabled \/ ~c.toggle,
                                     effort |-> IF @.effort \in c.efforts THEN @.effort ELSE Null]]
-----------------------------------------------------------------------------
(* An event of the Thread is committed with the whole record, or its commit    *)
(* fails and leaves the record as it is in memory.                            *)
Committed == durable' = settings' /\ UNCHANGED used
NotCommitted == used.lost < MaxLost /\ used' = [used EXCEPT !.lost = @ + 1] /\ UNCHANGED durable

(* GET, or a Snapshot of the event stream. *)
Refresh(p) ==
    /\ up /\ view' = [view EXCEPT ![p] = Displayed(settings, settings = durable)]
    /\ UNCHANGED <<up, settings, durable, patch, turn, started, used>>

(* A page saves: its PATCH carries the version that the page displays. *)
Send(p) ==
    /\ ~patch[p].pending /\ used.saves < MaxSaves
    /\ used' = [used EXCEPT !.saves = @ + 1]
    /\ \E value \in Body :
         patch' = [patch EXCEPT ![p] = [pending |-> TRUE, shown |-> view[p], value |-> value]]
    /\ UNCHANGED <<up, settings, durable, view, turn, started>>

(* Fault: the version is not compared. *)
FreshWhatever(p) == Expressible(patch[p].value.thinking)

(* update_settings refuses a version that is not the current one; the          *)
(* constructor of ThinkingSettings an intensity without thinking.             *)
Fresh(p) ==
    /\ Expressible(patch[p].value.thinking)
    /\ patch[p].shown.version = settings.version

Updated(p) == [version |-> settings.version + 1, value |-> Normalized(patch[p].value)]

(* Nothing runs between the check and the commit.  The answer may be lost.     *)
Accept(p) ==
    /\ up /\ patch[p].pending /\ Fresh(p)
    /\ settings' = Updated(p)
    /\ patch' = [patch EXCEPT ![p] = NoPatch]
    /\ \/ /\ Committed
          /\ \/ view' = [view EXCEPT ![p] = Displayed(settings', TRUE)]
             \/ UNCHANGED view
       \/ NotCommitted /\ UNCHANGED view
    /\ UNCHANGED <<up, turn, started>>

(* Stale, inexpressible, without a credential of its provider, or lost.        *)
Refuse(p) ==
    /\ patch[p].pending /\ patch' = [patch EXCEPT ![p] = NoPatch]
    /\ UNCHANGED <<up, settings, durable, view, turn, started, used>>

(* Any other event of the Thread. *)
OtherEvent ==
    /\ up /\ settings # durable /\ durable' = settings
    /\ UNCHANGED <<up, settings, view, patch, turn, started, used>>

Crash ==
    /\ up /\ used.crashes < MaxCrashes /\ up' = FALSE
    /\ used' = [used EXCEPT !.crashes = @ + 1]
    /\ patch' = [p \in Page |-> NoPatch] /\ turn' = NoTurn
    /\ UNCHANGED <<settings, durable, view, started>>

(* Fault: the restored settings count from the beginning. *)
RestartUnversioned ==
    /\ ~up /\ up' = TRUE /\ settings' = [durable EXCEPT !.version = 0]
    /\ UNCHANGED <<durable, view, patch, turn, started, used>>

Restart ==
    /\ ~up /\ up' = TRUE /\ settings' = durable
    /\ UNCHANGED <<durable, view, patch, turn, started, used>>
-----------------------------------------------------------------------------
(* A start request; its Turn waits for the validation of the workspace.        *)
Submit ==
    /\ up /\ turn = NoTurn /\ used.turns < MaxTurns
    /\ used' = [used EXCEPT !.turns = @ + 1]
    /\ \E o \in Override : turn' = [pc |-> "validating", override |-> o]
    /\ UNCHANGED <<up, settings, durable, view, patch, started>>

(* TurnSettingsOverride.apply *)
Applied(o, value) == [f \in DOMAIN value |-> IF o[f] = Unset THEN value[f] ELSE o[f]]

(* An override decides, be it to send no limit; a default of Null does not.    *)
Explicit(o, config) ==
    IF o.limit # Unset THEN o.limit ELSE IF config.limit = Null THEN Unset ELSE config.limit

AtMost(n, bound) == IF bound = Null \/ n < bound THEN n ELSE bound

(* Fault: the model's maximum bounds the default only. *)
LimitAsAsked(explicit, c) == IF explicit = Unset THEN c.default ELSE explicit

ResolvedLimit(explicit, c) ==
    LET base == IF explicit = Unset THEN c.default ELSE explicit IN
    IF base = Null THEN Null ELSE AtMost(base, c.maximum)

(* The efforts as the vendors name them. *)
DeepSeekEffort(e) == CASE e = "medium" -> "high" [] e = "xhigh" -> "high"
                       [] e \in {"low", "high", "max"} -> e [] OTHER -> Null
GLMEffort(e) == CASE e \in {"low", "medium", "high"} -> "high"
                  [] e \in {"xhigh", "max"} -> "max" [] OTHER -> Null

Nothing == [type |-> Null, effort |-> Null]
Switch(thinking) == [type |-> IF thinking.enabled THEN "enabled" ELSE "disabled", effort |-> Null]

(* _thinking_extra_body *)
ThinkingBody(c, thinking) ==
    IF thinking = Null \/ ~c.supported THEN Nothing
    ELSE CASE c.style = "always_on" -> Nothing
           [] c.style = "reasoning_effort" ->
                IF thinking.enabled /\ thinking.effort \in {"low", "high", "max"}
                  THEN [Nothing EXCEPT !.effort = thinking.effort] ELSE Nothing
           [] c.style = "toggle" -> Switch(thinking)
           [] c.style = "deepseek" ->
                IF thinking.enabled
                  THEN [Switch(thinking) EXCEPT !.effort = DeepSeekEffort(thinking.effort)]
                  ELSE Switch(thinking)
           [] c.style = "glm" ->
                IF thinking.enabled /\ thinking.effort \notin {"none", "minimal"}
                  THEN [Switch(thinking) EXCEPT !.effort = GLMEffort(thinking.effort)]
                  ELSE Switch([thinking EXCEPT !.enabled = FALSE])
           [] OTHER -> [Switch(thinking) EXCEPT !.effort = thinking.effort]

(* Every request of the Turn. *)
ModelRequest(o, config) ==
    LET c == Capabilities[config.model] IN
    [thinking |-> ThinkingBody(c, config.thinking),
     limit |-> ResolvedLimit(Explicit(o, config), c)]

(* The preflight after its await: the configuration is captured, the request   *)
(* resolved and the invoker built without another await, and turn_started      *)
(* commits.  A Turn whose start is not committed sends nothing.               *)
Start ==
    /\ up /\ turn.pc = "validating"
    /\ LET config == Applied(turn.override, settings.value) IN
         /\ Accepts(Capabilities[config.model], config.thinking)
         /\ \/ /\ turn' = [pc |-> "running", override |-> turn.override, config |-> config,
                           request |-> ModelRequest(turn.override, config)]
               /\ started' = started \cup {settings}
               /\ UNCHANGED settings /\ Committed
            \/ turn' = NoTurn /\ UNCHANGED <<settings, started>> /\ NotCommitted
    /\ UNCHANGED <<up, view, patch>>

(* ... or rejected: for its settings, or for anything else the preflight finds. *)
Reject ==
    /\ up /\ turn.pc = "validating" /\ turn' = NoTurn
    /\ UNCHANGED settings
    /\ Committed \/ NotCommitted
    /\ UNCHANGED <<up, view, patch, started>>

Finish ==
    /\ up /\ turn.pc = "running" /\ turn' = NoTurn
    /\ UNCHANGED settings
    /\ Committed \/ NotCommitted
    /\ UNCHANGED <<up, view, patch, started>>
-----------------------------------------------------------------------------
SettingsNext ==
    \/ \E p \in Page : Refresh(p) \/ Send(p) \/ Accept(p) \/ Refuse(p)
    \/ OtherEvent \/ Crash \/ Restart
    \/ Submit \/ Start \/ Reject \/ Finish

SettingsSpec == SettingsInit /\ [][SettingsNext]_settingsVars
-----------------------------------------------------------------------------
Version == [version : Nat, value : Settings]

(* The state is well typed. *)
SettingsTypeOK ==
    /\ up \in BOOLEAN /\ {settings, durable} \subseteq Version /\ started \subseteq Version
    /\ view \in [Page -> [version : Nat, value : Settings, sure : BOOLEAN]]
    /\ \A p \in Page : patch[p].pending => patch[p].value \in Settings
    /\ turn.pc \in {"none", "validating", "running"}
    /\ used \in [saves : 0..MaxSaves, turns : 0..MaxTurns, lost : 0..MaxLost, crashes : 0..MaxCrashes]

(* A Turn that inherits the Thread's settings is never rejected for them:      *)
(* what the Host saved, judging by the public projection, is what the invoker  *)
(* accepts of the model itself, before and after a restart.                   *)
SavedAreAccepted ==
    \A s \in {settings, durable} : Accepts(Capabilities[s.value.model], s.value.thinking)

(* Docs: "stale writes fail with SETTINGS_CONFLICT".  An update replaces the   *)
(* settings that its page displayed, across failed commits and restarts; only  *)
(* a page that displays settings the store had refused may be mistaken.        *)
StaleRefused == [][\A p \in Page :
    Accept(p) /\ patch[p].shown.sure => settings.value = patch[p].shown.value]_settingsVars

(* The version in a committed turn_started names the defaults of that Turn for *)
(* ever: no other settings of the Thread have it, then or later.              *)
VersionNamesSettings ==
    \A s \in started : \A s2 \in started \cup {settings, durable} :
        s.version = s2.version => s.value = s2.value

(* What each style documents: who may be switched off, and the efforts.        *)
MaySwitchOff == {"toggle", "deepseek", "glm", "generic"}
Documented(style) == CASE style \in {"reasoning_effort", "deepseek"} -> {"low", "high", "max"}
                       [] style = "glm" -> {"high", "max"}
                       [] style = "generic" -> Effort
                       [] OTHER -> {}

(* A running Turn asks its model for nothing the vendor does not document; it  *)
(* never asks for effort and for no thinking at once; what the user switched   *)
(* off is off; and its limit is within the model's.                           *)
RequestFitsModel ==
    turn.pc = "running" =>
        LET c == Capabilities[turn.config.model]
            sent == turn.request.thinking
            wanted == turn.config.thinking IN
        /\ ~c.supported => sent = Nothing
        /\ sent.type = "disabled" => c.style \in MaySwitchOff /\ sent.effort = Null
        /\ sent.effort # Null => sent.effort \in Documented(c.style)
        /\ wanted # Null /\ ~wanted.enabled => sent.type = "disabled"
        /\ turn.request.limit # Null /\ c.maximum # Null => turn.request.limit <= c.maximum
=============================================================================
