--------------------------- MODULE MCTurnSettings ---------------------------
(* Two pages, and one model of each kind that the presets know.                *)
EXTENDS TurnSettings, TLC

MCEffort == {"none", "low", "high", "xhigh", "max"}
Profile(supported, toggle, efforts, style, maximum, default) ==
    [supported |-> supported, toggle |-> toggle, efforts |-> efforts, style |-> style,
     maximum |-> maximum, default |-> default]
MCCapabilities ==
    [m \in Model |->
       CASE m = "v4"   -> Profile(TRUE, TRUE, {"low", "high", "max"}, "deepseek", 384, 131)
         [] m = "k3"   -> Profile(TRUE, FALSE, {"low", "high", "max"}, "reasoning_effort", 1048, 131)
         [] m = "k2.7" -> Profile(TRUE, FALSE, {}, "always_on", Null, Null)
         [] m = "k2.6" -> Profile(TRUE, TRUE, {}, "toggle", Null, Null)
         [] m = "glm"  -> Profile(TRUE, TRUE, MCEffort, "glm", 128, Null)
         [] m = "new"  -> Profile(FALSE, FALSE, {}, "generic", Null, Null)]

On(effort) == [enabled |-> TRUE, effort |-> effort]
Off(effort) == [enabled |-> FALSE, effort |-> effort]
Save(model, thinking, limit) == [model |-> model, thinking |-> thinking, limit |-> limit]
MCBody == {Save("v4", On("xhigh"), Null), Save("v4", Off(Null), 500), Save("k3", Off(Null), Null),
           Save("glm", On("none"), 200), Save("glm", Off("low"), Null), Save("new", On("high"), Null)}
Inherit == [model |-> Unset, thinking |-> Unset, limit |-> Unset]
MCOverride == {Inherit, [Inherit EXCEPT !.model = "k2.7"],
               [Inherit EXCEPT !.model = "k2.6", !.thinking = Off(Null)],
               [Inherit EXCEPT !.thinking = On("max"), !.limit = Null]}
Pages == Permutations(Page)
=============================================================================
