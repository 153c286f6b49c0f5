----------------------------- MODULE ThemeForm -----------------------------
(***************************************************************************)
(* The configuration drawer of the Themes section.  It fills a form from   *)
(* the theme's manifest and settings, turns a selector (a list of nodes or *)
(* probe tasks) into text and back, and replaces the settings.  Visitors   *)
(* are served the manifest's defaults overlaid by the settings, which the  *)
(* server works out by itself.  Every theme has one item, its key the name *)
(* of the theme.  A value is a list, the text of a JSON list or another    *)
(* text, and the entries it names: a number, a word or both.               *)
(***************************************************************************)
CONSTANTS Themes, NoTheme, Values, Defaults, Typed

Absent == [as |-> "absent", of |-> {}]
Value == [as : {"absent", "list", "json", "text"}, of : SUBSET {"number", "word"}]
Selectors == {"nodes", "pingtasks"}
Types == Selectors \cup {"title", "select", "plain"}
Manifest == [kind : {"managed", "raw"}, type : Types, default : Value]

\* A title has no default, and a theme with a panel of its own ("raw") no item but titles.
Manifests ==
    [kind : {"managed"}, type : Types \ {"title"}, default : Defaults]
        \cup [kind : {"managed", "raw"}, type : {"title"}, default : {Absent}]

ASSUME ThemesAssumption ==
    /\ NoTheme \notin Themes
    /\ Values \subseteq Value /\ Defaults \subseteq Value /\ Typed \subseteq Value

VARIABLES
    manifest,        \* manifest[t]: what the theme's package declares
    themeStored,     \* themeStored[t][k]: setting k of theme t on the server
    themeShown,      \* the settings in the section's list
    configuring,     \* the theme whose drawer is open, or NoTheme
    managedItems,    \* the theme whose items the form has, or NoTheme
    managedSettings, \* managedSettings[k]: the form's value of item k
    selectorText,    \* selectorText[k]: the text of selector k
    themeSave,       \* [of, body, typed, served]: the save in flight, of NoTheme when none is
    typedIn,         \* history variable: something was typed since the drawer was opened
    unheard          \* history variable: the answer of a save the server served was lost

themeVars == <<manifest, themeStored, themeShown, configuring, managedItems, managedSettings,
               selectorText, themeSave, typedIn, unheard>>

Nothing == [k \in Themes |-> Absent]
PlainTheme == [kind |-> "managed", type |-> "plain", default |-> Absent]
NoSave == [of |-> NoTheme, body |-> Nothing, typed |-> FALSE, served |-> FALSE]

ThemeTypeOK ==
    /\ manifest \in [Themes -> Manifest]
    /\ {themeStored, themeShown} \subseteq [Themes -> [Themes -> Value]]
    /\ {configuring, managedItems, themeSave.of} \subseteq Themes \cup {NoTheme}
    /\ {managedSettings, selectorText, themeSave.body} \subseteq [Themes -> Value]
    /\ {typedIn, unheard, themeSave.typed, themeSave.served} \subseteq BOOLEAN

ThemeInit ==
    /\ \E declared \in Manifests, value \in Values :
         LET one == CHOOSE t \in Themes : TRUE      \* the other themes have a plain item
         IN
         /\ manifest = [t \in Themes |-> IF t = one THEN declared ELSE PlainTheme]
         /\ themeStored = [t \in Themes |-> IF t = one THEN [Nothing EXCEPT ![t] = value] ELSE Nothing]
    /\ themeShown = themeStored /\ configuring = NoTheme /\ managedItems = NoTheme
    /\ managedSettings = Nothing /\ selectorText = Nothing /\ themeSave = NoSave
    /\ typedIn = FALSE /\ unheard = FALSE

ThemesPlain == \A t \in Themes : manifest[t] = PlainTheme /\ themeStored[t] = Nothing

----------------------------------------------------------------------------
Valued(t) == manifest[t].type # "title"

\* The value of an item that has no default; of a select, its first option.
Preset(t) == [as |-> "text", of |-> IF manifest[t].type = "select" THEN {"word"} ELSE {}]

\* managedDefaults and PublicSettings: what visitors get for t's item under settings s.
Normalized(v) == IF v.as = "json" THEN [v EXCEPT !.as = "list"] ELSE v
ManagedDefault(t) ==
    IF ~Valued(t) \/ manifest[t].kind # "managed" THEN Absent
    ELSE Normalized(IF manifest[t].default # Absent THEN manifest[t].default ELSE Preset(t))
PublicSetting(t, s) == IF s[t] # Absent THEN Normalized(s[t]) ELSE ManagedDefault(t)

\* The value openConfiguration gives the item of t, and the text it makes of a selector.
Initial(t) ==
    IF themeShown[t][t] # Absent THEN themeShown[t][t]
    ELSE IF manifest[t].default # Absent THEN manifest[t].default ELSE Preset(t)
SelectorText(v) == IF v.as = "list" THEN [v EXCEPT !.as = "json"] ELSE v

\* parseSelector: JSON, or else the entries between commas, the numbers among them for tasks.
ParseSelector(t) ==
    LET raw == selectorText[t]
    IN  [as |-> "list",
         of |-> IF raw.as = "text" /\ manifest[t].type = "pingtasks" THEN raw.of \cap {"number"}
                ELSE raw.of]

\* Fault: the drawer keeps the values of the theme it showed before.
OpenConfigurationKeeping(t) ==
    /\ configuring = NoTheme /\ configuring' = t /\ typedIn' = FALSE
    /\ IF manifest[t].kind = "raw"
          THEN managedItems' = NoTheme /\ UNCHANGED <<managedSettings, selectorText>>
          ELSE /\ managedItems' = t
               /\ selectorText' = [selectorText EXCEPT ![t] =
                    IF manifest[t].type \in Selectors THEN SelectorText(Initial(t)) ELSE @]
               /\ managedSettings' = [managedSettings EXCEPT ![t] =
                    IF Valued(t) /\ manifest[t].type \notin Selectors THEN Initial(t) ELSE @]
    /\ UNCHANGED <<manifest, themeStored, themeShown, themeSave, unheard>>

\* openConfiguration; a theme with a panel of its own ("raw") has no items.
OpenConfiguration(t) ==
    /\ configuring = NoTheme /\ configuring' = t /\ typedIn' = FALSE
    /\ IF manifest[t].kind = "raw"
          THEN managedItems' = NoTheme /\ UNCHANGED <<managedSettings, selectorText>>
          ELSE /\ managedItems' = t
               /\ selectorText' = [Nothing EXCEPT ![t] =
                    IF manifest[t].type \in Selectors THEN SelectorText(Initial(t)) ELSE Absent]
               /\ managedSettings' = [Nothing EXCEPT ![t] =
                    IF Valued(t) /\ manifest[t].type \notin Selectors THEN Initial(t) ELSE Absent]
    /\ UNCHANGED <<manifest, themeStored, themeShown, themeSave, unheard>>

\* The fields of the form; a theme with a panel of its own shows none.
TypeItem(v) ==
    /\ configuring # NoTheme /\ managedItems # NoTheme /\ Valued(managedItems) /\ typedIn' = TRUE
    /\ IF manifest[managedItems].type \in Selectors
          THEN selectorText' = [selectorText EXCEPT ![managedItems] = v] /\ UNCHANGED managedSettings
          ELSE managedSettings' = [managedSettings EXCEPT ![managedItems] = v] /\ UNCHANGED selectorText
    /\ UNCHANGED <<manifest, themeStored, themeShown, configuring, managedItems, themeSave, unheard>>

CloseConfiguration ==
    /\ configuring # NoTheme /\ configuring' = NoTheme
    /\ UNCHANGED <<manifest, themeStored, themeShown, managedItems, managedSettings, selectorText,
                   themeSave, typedIn, unheard>>

\* saveConfiguration up to its await; the button is disabled while a save is in flight, and a
\* theme with a panel of its own has none.
SendConfiguration ==
    LET parsed == IF managedItems # NoTheme /\ manifest[managedItems].type \in Selectors
                     THEN [managedSettings EXCEPT ![managedItems] = ParseSelector(managedItems)]
                     ELSE managedSettings
    IN  /\ configuring # NoTheme /\ manifest[configuring].kind # "raw" /\ themeSave = NoSave
        /\ managedSettings' = parsed
        /\ themeSave' = [of |-> configuring, body |-> parsed, typed |-> typedIn, served |-> FALSE]
        /\ UNCHANGED <<manifest, themeStored, themeShown, configuring, managedItems, selectorText,
                       typedIn, unheard>>

\* SaveSettings replaces all settings of the theme.
ServeConfiguration ==
    /\ themeSave # NoSave /\ ~themeSave.served
    /\ themeStored' = [themeStored EXCEPT ![themeSave.of] = themeSave.body]
    /\ themeSave' = [themeSave EXCEPT !.served = TRUE]
    /\ UNCHANGED <<manifest, themeShown, configuring, managedItems, managedSettings, selectorText,
                   typedIn, unheard>>

\* The answer: the theme is replaced in the list, and the drawer that is open is closed.
EndConfiguration ==
    /\ themeSave.served
    /\ themeShown' = [themeShown EXCEPT ![themeSave.of] = themeSave.body]
    /\ configuring' = NoTheme /\ themeSave' = NoSave
    /\ UNCHANGED <<manifest, themeStored, managedItems, managedSettings, selectorText, typedIn, unheard>>

FailConfiguration ==
    /\ themeSave # NoSave /\ themeSave' = NoSave /\ unheard' = (unheard \/ themeSave.served)
    /\ UNCHANGED <<manifest, themeStored, themeShown, configuring, managedItems, managedSettings,
                   selectorText, typedIn>>

ThemeNext ==
    \/ \E t \in Themes : OpenConfiguration(t)
    \/ \E v \in Typed : TypeItem(v)
    \/ CloseConfiguration \/ SendConfiguration \/ ServeConfiguration \/ EndConfiguration
    \/ FailConfiguration

ThemeSpec == ThemeInit /\ [][ThemeNext]_themeVars

----------------------------------------------------------------------------
\* What a selection picks, written as a list or as text.
Picked(t, v) ==
    IF manifest[t].type = "pingtasks" /\ v.as = "text" THEN v.of \cap {"number"} ELSE v.of

\* A save carries the item of its own theme and no other, and one in which nothing was typed
\* leaves visitors what the server's own defaults and settings gave them before, although
\* the drawer works defaults out by itself and turns selectors into text and back: the same
\* value, or for a selector the same picks.  A lost answer is excepted: the drawer then
\* starts from settings the server has replaced.
ThemeServedKept ==
    /\ ThemeTypeOK
    /\ themeSave # NoSave /\ ~themeSave.served =>
         LET t == themeSave.of
             before == PublicSetting(t, themeStored[t])
             after == PublicSetting(t, themeSave.body)
         IN  /\ \A k \in Themes \ {t} : themeSave.body[k] = Absent
             /\ ~themeSave.typed /\ ~unheard /\ Valued(t) =>
                  IF manifest[t].type \in Selectors THEN Picked(t, after) = Picked(t, before)
                  ELSE after = before
=============================================================================
