-------------------------- MODULE AdminFormsProofs --------------------------
(***************************************************************************)
(* The forms of the admin console that save a whole record, each for any   *)
(* values and any number of requests: a theme's settings (ThemeForm), and  *)
(* the site's (SettingsForm).                                              *)
(***************************************************************************)
EXTENDS ThemeForm, SettingsForm, TLAPS

-----------------------------------------------------------------------------
(***************************************************************************)
(* A theme's settings that are saved as the form was filled serve visitors *)
(* what they had, for any themes, values and defaults. The strengthening   *)
(* ties the form to the theme whose drawer was opened last and a save to   *)
(* the settings the list had, which are the server's but for a save whose  *)
(* answer is on its way.                                                   *)
(***************************************************************************)
ThemeSave == [of : Themes \cup {NoTheme}, body : [Themes -> Value], typed : BOOLEAN, served : BOOLEAN]

\* The form has no item but that of the theme whose drawer was opened last.
FormIsOwn ==
    /\ managedItems # NoTheme => \A k \in Themes \ {managedItems} : managedSettings[k] = Absent
    /\ configuring # NoTheme /\ manifest[configuring].kind # "raw" => managedItems = configuring

\* A form in which nothing was typed holds what openConfiguration put there.
FormIsFilled ==
    configuring # NoTheme /\ typedIn = FALSE /\ manifest[configuring].kind # "raw" /\ Valued(configuring) =>
        IF manifest[configuring].type \in Selectors
        THEN selectorText[configuring] = SelectorText(Initial(configuring))
        ELSE managedSettings[configuring] = Initial(configuring)

\* The section's list is what the server stores, but for a save whose answer is on its way.
ListIsStored ==
    unheard = FALSE =>
        \A t \in Themes : themeStored[t] = IF themeSave.served = TRUE /\ t = themeSave.of
                                           THEN themeSave.body ELSE themeShown[t]

\* A save is of a theme that has a form.
SaveIsOwn == themeSave # NoSave => themeSave.of \in Themes /\ manifest[themeSave.of].kind # "raw"

\* A save the server has not served carries its own theme's item only, and what visitors
\* had when nothing was typed.
SaveKeeps ==
    themeSave # NoSave /\ themeSave.served = FALSE =>
        /\ \A k \in Themes \ {themeSave.of} : themeSave.body[k] = Absent
        /\ themeSave.typed = FALSE /\ unheard = FALSE /\ Valued(themeSave.of) =>
             IF manifest[themeSave.of].type \in Selectors
             THEN Picked(themeSave.of, PublicSetting(themeSave.of, themeSave.body)) =
                    Picked(themeSave.of, PublicSetting(themeSave.of, themeStored[themeSave.of]))
             ELSE PublicSetting(themeSave.of, themeSave.body) =
                    PublicSetting(themeSave.of, themeStored[themeSave.of])

\* ThemeTypeOK, with the types of Boolean state apart.
ThemeTyped ==
    /\ manifest \in [Themes -> Manifest]
    /\ themeStored \in [Themes -> [Themes -> Value]] /\ themeShown \in [Themes -> [Themes -> Value]]
    /\ configuring \in Themes \cup {NoTheme} /\ managedItems \in Themes \cup {NoTheme}
    /\ managedSettings \in [Themes -> Value] /\ selectorText \in [Themes -> Value]
    /\ themeSave \in ThemeSave
ThemeFlagged == typedIn \in BOOLEAN /\ unheard \in BOOLEAN

ThemeIndInv ==
    /\ ThemeTyped /\ ThemeFlagged /\ FormIsOwn /\ FormIsFilled /\ ListIsStored /\ SaveIsOwn /\ SaveKeeps

\* The values the drawer and the server work with.
LEMMA ThemeValues ==
    /\ Absent \in Value /\ Nothing \in [Themes -> Value] /\ NoSave \in ThemeSave
    /\ NoSave.of = NoTheme /\ NoSave.served = FALSE /\ NoSave.typed = FALSE
    /\ PlainTheme \in Manifest
  <1>1. Absent \in Value  BY DEF Absent, Value
  <1>2. Nothing \in [Themes -> Value]  BY <1>1 DEF Nothing
  <1>3. NoSave \in ThemeSave  BY <1>2 DEF NoSave, ThemeSave
  <1>4. PlainTheme \in Manifest  BY <1>1 DEF PlainTheme, Manifest, Types, Selectors
  <1>5. NoSave.of = NoTheme /\ NoSave.served = FALSE /\ NoSave.typed = FALSE  BY DEF NoSave
  <1> QED  BY <1>1, <1>2, <1>3, <1>4, <1>5

\* What the form is filled with is a value.
LEMMA InitialIsValue ==
    ASSUME ThemeTyped, NEW t \in Themes
    PROVE  Initial(t) \in Value /\ SelectorText(Initial(t)) \in Value
  <1>1. themeShown[t][t] \in Value /\ manifest[t].default \in Value
    BY DEF ThemeTyped, Manifest
  <1>2. Preset(t) \in Value  BY DEF Preset, Value
  <1>3. Initial(t) \in Value  BY <1>1, <1>2 DEF Initial
  <1>4. ASSUME NEW v \in Value PROVE SelectorText(v) \in Value
    <2>1. [v EXCEPT !.as = "json"] \in Value  BY DEF Value
    <2> QED  BY <2>1 DEF SelectorText
  <1> QED  BY <1>3, <1>4

\* What saveConfiguration reads from a selector is a list, and not the absent value.
LEMMA ParsedIsList ==
    ASSUME NEW t \in Themes, selectorText[t] \in Value
    PROVE  ParseSelector(t) \in Value /\ ParseSelector(t).as = "list" /\ ParseSelector(t) # Absent
           /\ ParseSelector(t).of = IF selectorText[t].as = "text" /\ manifest[t].type = "pingtasks"
                                    THEN selectorText[t].of \cap {"number"} ELSE selectorText[t].of
  <1> DEFINE of == IF selectorText[t].as = "text" /\ manifest[t].type = "pingtasks"
                   THEN selectorText[t].of \cap {"number"} ELSE selectorText[t].of
  <1>1. of \in SUBSET {"number", "word"}  BY DEF Value
  <1>2. ParseSelector(t) = [as |-> "list", of |-> of]  BY DEF ParseSelector
  <1> HIDE DEF of
  <1>3. ParseSelector(t) \in Value  BY <1>1, <1>2 DEF Value
  <1>4. ParseSelector(t).as = "list" /\ ParseSelector(t).of = of  BY <1>2
  <1>5. Absent.as = "absent"  BY DEF Absent
  <1> QED  BY <1>3, <1>4, <1>5 DEF of

\* Before a save visitors get what the drawer would be filled with, normalised: managedDefaults
\* of the server and openConfiguration of the drawer choose alike.
LEMMA VisitorsGetInitial ==
    ASSUME ThemeTyped, NEW t \in Themes, manifest[t].kind # "raw", Valued(t)
    PROVE  PublicSetting(t, themeShown[t]) = Normalized(Initial(t)) /\ Initial(t) # Absent
  <1>1. manifest[t].kind = "managed"  BY DEF ThemeTyped, Manifest
  <1>2. Preset(t) # Absent
    <2>1. Preset(t).as = "text" /\ Absent.as = "absent"  BY DEF Preset, Absent
    <2> QED  BY <2>1
  <1>3. CASE themeShown[t][t] # Absent  BY <1>3, Zenon DEF PublicSetting, Initial
  <1>4. CASE themeShown[t][t] = Absent
    BY <1>1, <1>2, <1>4, Zenon DEF PublicSetting, ManagedDefault, Initial
  <1> QED  BY <1>3, <1>4

\* The picks of a selector survive being turned into text and back.
LEMMA PicksKept ==
    ASSUME ThemeTyped, NEW t \in Themes, manifest[t].type \in Selectors,
           selectorText[t] = SelectorText(Initial(t))
    PROVE  Picked(t, Normalized(ParseSelector(t))) = Picked(t, Normalized(Initial(t)))
  <1> DEFINE v == Initial(t)
  <1>1. v \in Value /\ SelectorText(v) \in Value  BY InitialIsValue
  <1> HIDE DEF v
  <1>2. /\ SelectorText(v).of = v.of
        /\ SelectorText(v).as = "text" <=> v.as = "text"
    BY <1>1 DEF SelectorText, Value
  <1>3. /\ Normalized(v).of = v.of
        /\ Normalized(v).as = "text" <=> v.as = "text"
    BY <1>1 DEF Normalized, Value
  <1>4. selectorText[t] = SelectorText(v)  BY DEF v
  <1>5. /\ ParseSelector(t).as = "list"
        /\ ParseSelector(t).of = IF v.as = "text" /\ manifest[t].type = "pingtasks"
                                 THEN v.of \cap {"number"} ELSE v.of
    BY <1>1, <1>2, <1>4, ParsedIsList
  <1>6. Normalized(ParseSelector(t)) = ParseSelector(t)  BY <1>5 DEF Normalized
  <1>7. Picked(t, ParseSelector(t)) = ParseSelector(t).of  BY <1>5 DEF Picked
  <1> QED  BY <1>3, <1>5, <1>6, <1>7 DEF Picked, v

\* A list that is replaced at one theme stays a list of settings.
LEMMA SettingsReplaced ==
    ASSUME NEW lists \in [Themes -> [Themes -> Value]], NEW t, NEW body \in [Themes -> Value]
    PROVE  [lists EXCEPT ![t] = body] \in [Themes -> [Themes -> Value]]
  BY Zenon

----------------------------------------------------------------------------
\* The section is mounted: its list is the server's and no drawer is open.
LEMMA ThemeInitially == ThemeInit => ThemeIndInv
  <1> SUFFICES ASSUME ThemeInit PROVE ThemeIndInv  OBVIOUS
  <1>1. PICK declared \in Manifests, value \in Values :
          LET one == CHOOSE t \in Themes : TRUE
          IN  /\ manifest = [t \in Themes |-> IF t = one THEN declared ELSE PlainTheme]
              /\ themeStored = [t \in Themes |-> IF t = one THEN [Nothing EXCEPT ![t] = value] ELSE Nothing]
    BY Zenon DEF ThemeInit
  <1>2. themeShown = themeStored /\ configuring = NoTheme /\ managedItems = NoTheme
        /\ managedSettings = Nothing /\ selectorText = Nothing /\ themeSave = NoSave
        /\ typedIn = FALSE /\ unheard = FALSE
    BY Zenon DEF ThemeInit
  <1>3. declared \in Manifest /\ value \in Value
    <2>1. Defaults \subseteq Value /\ Values \subseteq Value  BY ThemesAssumption
    <2>2. declared \in Manifest
      <3>1. CASE declared \in [kind : {"managed"}, type : Types \ {"title"}, default : Defaults]
        BY <2>1, <3>1 DEF Manifest
      <3>2. CASE declared \in [kind : {"managed", "raw"}, type : {"title"}, default : {Absent}]
        BY <3>2, ThemeValues DEF Manifest, Types
      <3> QED  BY <3>1, <3>2 DEF Manifests
    <2> QED  BY <2>1, <2>2
  <1>4. manifest \in [Themes -> Manifest]  BY <1>1, <1>3, ThemeValues, Zenon
  <1>5. themeStored \in [Themes -> [Themes -> Value]]
    <2>1. \A t \in Themes : [Nothing EXCEPT ![t] = value] \in [Themes -> Value]  BY <1>3, ThemeValues
    <2> QED  BY <1>1, <2>1, ThemeValues, Zenon
  <1>6. ThemeTyped  BY <1>2, <1>4, <1>5, ThemeValues DEF ThemeTyped
  <1>7. ThemeFlagged /\ FormIsOwn /\ FormIsFilled /\ SaveIsOwn /\ SaveKeeps
    BY <1>2, Zenon DEF ThemeFlagged, FormIsOwn, FormIsFilled, SaveIsOwn, SaveKeeps
  <1>8. ListIsStored
    <2>1. themeSave.served = FALSE  BY <1>2, ThemeValues
    <2> QED  BY <1>2, <2>1 DEF ListIsStored
  <1> QED  BY <1>6, <1>7, <1>8 DEF ThemeIndInv

\* A save that waits to be served stays as good as it was while its theme's settings, its
\* manifest and itself are left alone.
LEMMA SaveRests ==
    ASSUME SaveKeeps, UNCHANGED <<manifest, themeStored, themeSave, unheard>>
    PROVE  SaveKeeps'
  <1>1. \A t : Valued(t)' = Valued(t)  BY DEF Valued
  <1>2. \A t, v : Picked(t, v)' = Picked(t, v)  BY DEF Picked
  <1>3. \A t : ManagedDefault(t)' = ManagedDefault(t)
    BY <1>1 DEF ManagedDefault, Preset
  <1>4. \A t, s : PublicSetting(t, s)' = PublicSetting(t, s)
    BY <1>3 DEF PublicSetting
  <1> QED  BY <1>1, <1>2, <1>4 DEF SaveKeeps

\* The drawer is opened: the form is filled anew, from the settings the section lists.
LEMMA OpenKeeps ==
    ASSUME ThemeIndInv, NEW t \in Themes, OpenConfiguration(t)
    PROVE  ThemeIndInv'
  <1> USE ThemeValues
  <1>1. /\ ThemeTyped /\ ThemeFlagged /\ ListIsStored /\ SaveIsOwn /\ SaveKeeps /\ FormIsOwn
        /\ UNCHANGED <<manifest, themeStored, themeShown, themeSave, unheard>>
        /\ configuring' = t /\ typedIn' = FALSE
    BY DEF ThemeIndInv, OpenConfiguration
  <1>2. ListIsStored' /\ SaveIsOwn' /\ ThemeFlagged'
    BY <1>1, Zenon DEF ListIsStored, SaveIsOwn, ThemeFlagged
  <1>3. SaveKeeps'  BY <1>1, SaveRests
  <1>4. Initial(t) \in Value /\ SelectorText(Initial(t)) \in Value /\ Initial(t)' = Initial(t)
    BY <1>1, InitialIsValue DEF Initial, Preset
  <1>5. CASE manifest[t].kind = "raw"
    <2>1. managedItems' = NoTheme /\ UNCHANGED <<managedSettings, selectorText>>
      BY <1>5 DEF OpenConfiguration
    <2>2. ThemeTyped'  BY <1>1, <2>1 DEF ThemeTyped
    <2>3. FormIsOwn' /\ FormIsFilled'  BY <1>1, <1>5, <2>1 DEF FormIsOwn, FormIsFilled
    <2> QED  BY <1>2, <1>3, <2>2, <2>3 DEF ThemeIndInv
  <1>6. CASE manifest[t].kind # "raw"
    <2> DEFINE text == IF manifest[t].type \in Selectors THEN SelectorText(Initial(t)) ELSE Absent
               plain == IF Valued(t) /\ manifest[t].type \notin Selectors THEN Initial(t) ELSE Absent
    <2>1. /\ managedItems' = t /\ selectorText' = [Nothing EXCEPT ![t] = text]
          /\ managedSettings' = [Nothing EXCEPT ![t] = plain]
      BY <1>6 DEF OpenConfiguration
    <2>2. text \in Value /\ plain \in Value  BY <1>4
    <2>3. ASSUME Valued(t)
          PROVE  IF manifest[t].type \in Selectors THEN text = SelectorText(Initial(t))
                 ELSE plain = Initial(t)
      BY <2>3
    <2> HIDE DEF text, plain
    <2>4. selectorText' \in [Themes -> Value] /\ managedSettings' \in [Themes -> Value]
      BY <2>1, <2>2
    <2>5. selectorText'[t] = text /\ managedSettings'[t] = plain
          /\ \A k \in Themes \ {t} : managedSettings'[k] = Absent
      BY <2>1 DEF Nothing
    <2>6. ThemeTyped'  BY <1>1, <2>1, <2>4 DEF ThemeTyped
    <2>7. FormIsOwn'  BY <1>1, <2>1, <2>5 DEF FormIsOwn
    <2>8. FormIsFilled'
      <3>1. SelectorText(Initial(t))' = SelectorText(Initial(t))  BY <1>4 DEF SelectorText
      <3> QED  BY <1>1, <1>4, <2>3, <2>5, <3>1 DEF FormIsFilled, Valued
    <2> QED  BY <1>2, <1>3, <2>6, <2>7, <2>8 DEF ThemeIndInv
  <1> QED  BY <1>5, <1>6

\* An item is typed into, or the drawer is closed.
LEMMA TypingKeeps ==
    ASSUME ThemeIndInv, NEW v \in Typed, TypeItem(v)
    PROVE  ThemeIndInv'
  <1>1. /\ ThemeTyped /\ ThemeFlagged /\ ListIsStored /\ SaveIsOwn /\ SaveKeeps /\ FormIsOwn
        /\ UNCHANGED <<manifest, themeStored, themeShown, configuring, managedItems, themeSave, unheard>>
        /\ typedIn' = TRUE
    BY DEF ThemeIndInv, TypeItem
  <1>2. ListIsStored' /\ SaveIsOwn' /\ ThemeFlagged' /\ FormIsFilled'
    BY <1>1 DEF ListIsStored, SaveIsOwn, ThemeFlagged, FormIsFilled
  <1>3. SaveKeeps'  BY <1>1, SaveRests
  <1>4. \/ selectorText' = [selectorText EXCEPT ![managedItems] = v] /\ UNCHANGED managedSettings
        \/ managedSettings' = [managedSettings EXCEPT ![managedItems] = v] /\ UNCHANGED selectorText
    BY DEF TypeItem
  <1>5. v \in Value  BY ThemesAssumption
  <1>6. selectorText' \in [Themes -> Value] /\ managedSettings' \in [Themes -> Value]
    BY <1>1, <1>4, <1>5, Zenon DEF ThemeTyped
  <1>7. ThemeTyped'  BY <1>1, <1>6 DEF ThemeTyped
  <1>8. FormIsOwn'
    <2>1. \A k \in Themes \ {managedItems} : managedSettings'[k] = managedSettings[k]
      BY <1>1, <1>4 DEF ThemeTyped
    <2> QED  BY <1>1, <2>1 DEF FormIsOwn
  <1> QED  BY <1>2, <1>3, <1>7, <1>8 DEF ThemeIndInv

LEMMA ClosingKeeps ==
    ASSUME ThemeIndInv, CloseConfiguration
    PROVE  ThemeIndInv'
  <1>1. /\ ThemeTyped /\ ThemeFlagged /\ ListIsStored /\ SaveIsOwn /\ SaveKeeps /\ FormIsOwn
        /\ UNCHANGED <<manifest, themeStored, themeShown, managedItems, managedSettings, selectorText,
                       themeSave, typedIn, unheard>>
        /\ configuring' = NoTheme
    BY DEF ThemeIndInv, CloseConfiguration
  <1>2. ListIsStored' /\ SaveIsOwn' /\ ThemeFlagged' /\ FormIsFilled' /\ FormIsOwn'
    BY <1>1 DEF ListIsStored, SaveIsOwn, ThemeFlagged, FormIsFilled, FormIsOwn
  <1>3. SaveKeeps'  BY <1>1, SaveRests
  <1>4. ThemeTyped'  BY <1>1 DEF ThemeTyped
  <1> QED  BY <1>2, <1>3, <1>4 DEF ThemeIndInv

\* The form is sent: selectors are read back from their text.
LEMMA SendingKeeps ==
    ASSUME ThemeIndInv, SendConfiguration
    PROVE  ThemeIndInv'
  <1> USE ThemeValues
  <1> DEFINE t == configuring
             parsed == IF managedItems # NoTheme /\ manifest[managedItems].type \in Selectors
                       THEN [managedSettings EXCEPT ![managedItems] = ParseSelector(managedItems)]
                       ELSE managedSettings
             save == [of |-> t, body |-> parsed, typed |-> typedIn, served |-> FALSE]
  <1>1. /\ ThemeTyped /\ ThemeFlagged /\ ListIsStored /\ FormIsOwn /\ FormIsFilled
        /\ UNCHANGED <<manifest, themeStored, themeShown, configuring, managedItems, selectorText,
                       typedIn, unheard>>
        /\ configuring # NoTheme /\ manifest[t].kind # "raw" /\ themeSave = NoSave
    BY DEF ThemeIndInv, SendConfiguration
  <1>2. managedSettings' = parsed /\ themeSave' = save  BY DEF SendConfiguration
  <1>3. t \in Themes /\ managedItems = t  BY <1>1 DEF ThemeTyped, FormIsOwn
  <1>4. t # NoTheme  BY <1>1
  <1>5. ParseSelector(t) \in Value /\ ParseSelector(t) # Absent
    <2>1. selectorText[t] \in Value  BY <1>1, <1>3 DEF ThemeTyped
    <2> QED  BY <1>3, <2>1, ParsedIsList, Zenon
  <1>6. /\ parsed \in [Themes -> Value]
        /\ parsed[t] = IF manifest[t].type \in Selectors THEN ParseSelector(t) ELSE managedSettings[t]
        /\ \A k \in Themes \ {t} : parsed[k] = Absent
    BY <1>1, <1>3, <1>4, <1>5 DEF ThemeTyped, FormIsOwn
  <1> HIDE DEF parsed
  <1>7. /\ save \in ThemeSave /\ save.of = t /\ save.body = parsed /\ save.served = FALSE
        /\ save.typed = typedIn
    BY <1>1, <1>3, <1>6 DEF ThemeSave, ThemeFlagged
  <1> HIDE DEF save, t
  <1>8. ThemeTyped'  BY <1>1, <1>2, <1>6, <1>7, Zenon DEF ThemeTyped
  <1>9. ThemeFlagged' /\ SaveIsOwn'  BY <1>1, <1>2, <1>3, <1>7, Zenon DEF ThemeFlagged, SaveIsOwn
  <1>10. ListIsStored'  BY <1>1, <1>2, <1>7 DEF ListIsStored
  <1>11. FormIsOwn'  BY <1>1, <1>2, <1>3, <1>6 DEF FormIsOwn, t
  <1>12. FormIsFilled'
    <2>1. Initial(t)' = Initial(t)  BY <1>1 DEF Initial, Preset, t
    <2>2. Valued(t)' = Valued(t)  BY <1>1 DEF Valued, t
    <2>3. manifest[t].type \notin Selectors => managedSettings'[t] = managedSettings[t]
      BY <1>2, <1>6
    <2>4. t' = t  BY <1>1 DEF t
    <2> QED  BY <1>1, <2>1, <2>2, <2>3, <2>4 DEF FormIsFilled, SelectorText, t
  <1>13. SaveKeeps'
    <2>1. ASSUME typedIn = FALSE, unheard = FALSE, Valued(t)
          PROVE  IF manifest[t].type \in Selectors
                 THEN Picked(t, PublicSetting(t, parsed)) = Picked(t, PublicSetting(t, themeStored[t]))
                 ELSE PublicSetting(t, parsed) = PublicSetting(t, themeStored[t])
      <3>1. themeStored[t] = themeShown[t]  BY <1>1, <1>3, <2>1 DEF ListIsStored
      <3>2. PublicSetting(t, themeStored[t]) = Normalized(Initial(t)) /\ Initial(t) # Absent
        BY <1>1, <1>3, <2>1, <3>1, VisitorsGetInitial DEF t
      <3>3. CASE manifest[t].type \in Selectors
        <4>1. selectorText[t] = SelectorText(Initial(t))  BY <1>1, <2>1, <3>3 DEF FormIsFilled, t
        <4>2. PublicSetting(t, parsed) = Normalized(ParseSelector(t))
          BY <1>5, <1>6, <3>3 DEF PublicSetting
        <4> QED  BY <1>1, <1>3, <3>2, <3>3, <4>1, <4>2, PicksKept, Zenon
      <3>4. CASE manifest[t].type \notin Selectors
        <4>1. parsed[t] = Initial(t)  BY <1>1, <1>6, <2>1, <3>4, Zenon DEF FormIsFilled, t
        <4> QED  BY <3>2, <3>4, <4>1 DEF PublicSetting
      <3> QED  BY <3>3, <3>4, Zenon
    <2>2. \A k \in Themes \ {t} : parsed[k] = Absent  BY <1>6, Zenon
    <2>3. PICK c, body, kept : c = t /\ body = parsed /\ kept = themeStored[t]  OBVIOUS
    <2>4. c = themeSave'.of /\ body = themeSave'.body /\ kept = themeStored'[c]
      BY <1>1, <1>2, <1>7, <2>3
    <2>5. Valued(c)' = Valued(c) /\ (\A v : Picked(c, v)' = Picked(c, v))  BY <1>1 DEF Valued, Picked
    <2>6. ManagedDefault(c)' = ManagedDefault(c)  BY <1>1, <2>5, Zenon DEF ManagedDefault, Preset
    <2>7. \A v : PublicSetting(c, v)' = PublicSetting(c, v)  BY <2>6 DEF PublicSetting
    <2> QED  BY <1>1, <1>2, <1>7, <2>1, <2>2, <2>3, <2>4, <2>5, <2>7, Zenon DEF SaveKeeps
  <1> QED  BY <1>8, <1>9, <1>10, <1>11, <1>12, <1>13 DEF ThemeIndInv

\* The server replaces the settings of the theme; the answer replaces them in the list.
LEMMA ServingKeeps ==
    ASSUME ThemeIndInv, ServeConfiguration
    PROVE  ThemeIndInv'
  <1> DEFINE save == [themeSave EXCEPT !.served = TRUE]
  <1>1. /\ ThemeTyped /\ ThemeFlagged /\ ListIsStored /\ SaveIsOwn /\ FormIsOwn /\ FormIsFilled
        /\ UNCHANGED <<manifest, themeShown, configuring, managedItems, managedSettings, selectorText,
                       typedIn, unheard>>
        /\ themeSave # NoSave /\ themeSave.served = FALSE
        /\ themeStored' = [themeStored EXCEPT ![themeSave.of] = themeSave.body]
    BY DEF ThemeIndInv, ServeConfiguration, ThemeTyped, ThemeSave
  <1>2. themeSave' = save  BY DEF ServeConfiguration
  <1>3. save \in ThemeSave /\ save.of = themeSave.of /\ save.body = themeSave.body /\ save.served = TRUE
    BY <1>1, Zenon DEF ThemeTyped, ThemeSave
  <1>4. themeSave.of \in Themes /\ themeSave.body \in [Themes -> Value]
    BY <1>1 DEF SaveIsOwn, ThemeTyped, ThemeSave
  <1> HIDE DEF save
  <1>5. ThemeTyped'
    <2>1. themeStored' \in [Themes -> [Themes -> Value]]  BY <1>1, <1>4, SettingsReplaced, Zenon DEF ThemeTyped
    <2> QED  BY <1>1, <1>2, <1>3, <2>1 DEF ThemeTyped
  <1>6. ThemeFlagged' /\ SaveIsOwn' /\ FormIsOwn' /\ SaveKeeps'
    BY <1>1, <1>2, <1>3, Zenon DEF ThemeFlagged, SaveIsOwn, FormIsOwn, SaveKeeps
  <1>7. FormIsFilled'
    BY <1>1 DEF FormIsFilled, Valued, Initial, Preset, SelectorText
  <1>8. ListIsStored'
    <2>1. \A t \in Themes : themeStored'[t] = IF t = themeSave.of THEN themeSave.body ELSE themeStored[t]
      BY <1>1 DEF ThemeTyped
    <2> QED  BY <1>1, <1>2, <1>3, <2>1 DEF ListIsStored
  <1> QED  BY <1>5, <1>6, <1>7, <1>8 DEF ThemeIndInv

LEMMA EndingKeeps ==
    ASSUME ThemeIndInv, EndConfiguration
    PROVE  ThemeIndInv'
  <1> USE ThemeValues
  <1>1. /\ ThemeTyped /\ ThemeFlagged /\ ListIsStored /\ SaveIsOwn /\ FormIsOwn
        /\ UNCHANGED <<manifest, themeStored, managedItems, managedSettings, selectorText, typedIn, unheard>>
        /\ themeSave.served = TRUE /\ configuring' = NoTheme /\ themeSave' = NoSave
        /\ themeShown' = [themeShown EXCEPT ![themeSave.of] = themeSave.body]
    BY DEF ThemeIndInv, EndConfiguration, ThemeTyped, ThemeSave
  <1>2. themeSave # NoSave  BY <1>1
  <1>3. themeSave.of \in Themes /\ themeSave.body \in [Themes -> Value]
    BY <1>1, <1>2 DEF SaveIsOwn, ThemeTyped, ThemeSave
  <1>4. ThemeTyped'
    <2>1. themeShown' \in [Themes -> [Themes -> Value]]  BY <1>1, <1>3, SettingsReplaced, Zenon DEF ThemeTyped
    <2> QED  BY <1>1, <2>1, Zenon DEF ThemeTyped
  <1>5. ThemeFlagged' /\ SaveIsOwn' /\ FormIsOwn' /\ SaveKeeps' /\ FormIsFilled'
    BY <1>1, Zenon DEF ThemeFlagged, SaveIsOwn, FormIsOwn, SaveKeeps, FormIsFilled
  <1>6. ListIsStored'
    <2>1. \A t \in Themes : themeShown'[t] = IF t = themeSave.of THEN themeSave.body ELSE themeShown[t]
      BY <1>1, Zenon DEF ThemeTyped
    <2> QED  BY <1>1, <2>1, Zenon DEF ListIsStored
  <1> QED  BY <1>4, <1>5, <1>6 DEF ThemeIndInv

\* A save is refused, or its answer is lost: the list is then no longer the server's.
LEMMA FailingKeeps ==
    ASSUME ThemeIndInv, FailConfiguration
    PROVE  ThemeIndInv'
  <1> USE ThemeValues
  <1>1. /\ ThemeTyped /\ ThemeFlagged /\ ListIsStored /\ FormIsOwn /\ FormIsFilled
        /\ UNCHANGED <<manifest, themeStored, themeShown, configuring, managedItems, managedSettings,
                       selectorText, typedIn>>
        /\ themeSave' = NoSave /\ unheard' = (unheard \/ themeSave.served)
    BY DEF ThemeIndInv, FailConfiguration
  <1>2. ThemeTyped'  BY <1>1 DEF ThemeTyped
  <1>3. SaveIsOwn' /\ FormIsOwn' /\ SaveKeeps'
    BY <1>1, Zenon DEF SaveIsOwn, FormIsOwn, SaveKeeps
  <1>4. FormIsFilled'
    BY <1>1 DEF FormIsFilled, Valued, Initial, Preset, SelectorText
  <1>5. ListIsStored' /\ ThemeFlagged'
    <2>1. themeSave.served \in BOOLEAN  BY <1>1 DEF ThemeTyped, ThemeSave
    <2>2. unheard' \in BOOLEAN /\ (unheard' = FALSE => unheard = FALSE /\ themeSave.served = FALSE)
      BY <1>1, <2>1 DEF ThemeFlagged
    <2>3. themeSave'.served = FALSE  BY <1>1
    <2>4. ThemeFlagged'  BY <1>1, <2>2 DEF ThemeFlagged
    <2>5. ListIsStored'  BY <1>1, <2>2, <2>3, Zenon DEF ListIsStored
    <2> QED  BY <2>4, <2>5
  <1> QED  BY <1>2, <1>3, <1>4, <1>5 DEF ThemeIndInv

LEMMA ThemeStep == ThemeIndInv /\ [ThemeNext]_themeVars => ThemeIndInv'
  <1> SUFFICES ASSUME ThemeIndInv, [ThemeNext]_themeVars PROVE ThemeIndInv'  OBVIOUS
  <1>1. CASE UNCHANGED themeVars
    <2>1. /\ ThemeTyped /\ ThemeFlagged /\ ListIsStored /\ SaveIsOwn /\ SaveKeeps /\ FormIsOwn /\ FormIsFilled
          /\ UNCHANGED <<manifest, themeStored, themeShown, configuring, managedItems, managedSettings,
                         selectorText, themeSave, typedIn, unheard>>
      BY <1>1 DEF themeVars, ThemeIndInv
    <2>2. ThemeTyped' /\ ThemeFlagged'  BY <2>1 DEF ThemeTyped, ThemeFlagged
    <2>3. ListIsStored' /\ SaveIsOwn' /\ FormIsOwn'  BY <2>1, Zenon DEF ListIsStored, SaveIsOwn, FormIsOwn
    <2>4. FormIsFilled'  BY <2>1 DEF FormIsFilled, Valued, Initial, Preset, SelectorText
    <2>5. SaveKeeps'  BY <2>1, SaveRests
    <2> QED  BY <2>2, <2>3, <2>4, <2>5 DEF ThemeIndInv
  <1>2. CASE ThemeNext
    BY <1>2, OpenKeeps, TypingKeeps, ClosingKeeps, SendingKeeps, ServingKeeps, EndingKeeps, FailingKeeps
       DEF ThemeNext
  <1> QED  BY <1>1, <1>2

\* The invariant says of a save what the property does.
LEMMA ThemeFollows == ThemeIndInv => ThemeServedKept
  <1> SUFFICES ASSUME ThemeIndInv PROVE ThemeServedKept  OBVIOUS
  <1>1. ThemeTyped /\ ThemeFlagged /\ SaveKeeps  BY DEF ThemeIndInv
  <1>2. ThemeTypeOK
    <2>1. /\ themeSave.of \in Themes \cup {NoTheme} /\ themeSave.body \in [Themes -> Value]
          /\ themeSave.typed \in BOOLEAN /\ themeSave.served \in BOOLEAN
      BY <1>1 DEF ThemeTyped, ThemeSave
    <2>2. {typedIn, unheard, themeSave.typed, themeSave.served} \subseteq BOOLEAN
      BY <1>1, <2>1, Zenon DEF ThemeFlagged
    <2> QED  BY <1>1, <2>1, <2>2, Zenon DEF ThemeTyped, ThemeTypeOK
  <1>3. themeSave.typed \in BOOLEAN /\ themeSave.served \in BOOLEAN /\ unheard \in BOOLEAN
    BY <1>1 DEF ThemeTyped, ThemeSave, ThemeFlagged
  <1> QED  BY <1>1, <1>2, <1>3, Zenon DEF ThemeServedKept, SaveKeeps

\* Saving a theme's drawer in which nothing was typed leaves visitors what they had, although
\* the page and the server work out defaults each by itself, and carries no other theme's
\* items: openConfiguration and saveConfiguration of AdminThemes.vue, whatever drawers are
\* opened, closed and reopened while a save is in flight.
THEOREM SavedThemeServesTheSame == ThemeSpec => []ThemeServedKept
  BY ThemeInitially, ThemeStep, ThemeFollows, PTL DEF ThemeSpec

-----------------------------------------------------------------------------
(***************************************************************************)
(* The settings page and the server agree on the record and on the weak-   *)
(* PIN flag, for any number of requests in flight. The strengthening       *)
(* follows a request through the server: only one is inside it while       *)
(* nothing was entangled, and the answers on their way are ordered by what *)
(* was written, the last of them being the record.                         *)
(***************************************************************************)
IsWritten(k) == Pending(k) /\ requests[k].stage = "written"

\* The types, and what TypeSettings and LoadSettings keep: a record that was loaded is one the
\* server could hold, and nothing is asked before.
SettingsTyped ==
    /\ saved \in [body : 0..MaxBody, weak : BOOLEAN]
    /\ settings = NoSettings \/ settings \in [body : 0..MaxBody, weak : BOOLEAN]
    /\ pinWeak \in BOOLEAN
    /\ requests \in [Slots -> Request]
    /\ bodyAsked \in 0..MaxBody
    /\ entangled \in BOOLEAN /\ stale \in BOOLEAN
    /\ settings = NoSettings => \A k \in Slots : ~Pending(k)

\* While nothing was entangled the server handles one request at a time: a save carries the
\* record's flag, a rotation the new one and, once it has read it, the record's body.
OneAtATime ==
    entangled = FALSE =>
        /\ \A j, k \in Slots : Inside(j) /\ Inside(k) => j = k
        /\ saved.body = bodyAsked
        /\ (\A k \in Slots : ~Inside(k)) => saved.weak = pinWeak
        /\ \A k \in Slots : Inside(k) =>
             \/ /\ requests[k].kind = "save" /\ requests[k].stage = "read"
                /\ requests[k].weak = saved.weak /\ saved.weak = pinWeak
             \/ /\ requests[k].kind = "rotate" /\ requests[k].weak = pinWeak
                /\ requests[k].stage = "read" => requests[k].body = saved.body

\* The answers in flight are ordered by what was written first, and the last one written, or
\* the page when none is in flight, has the record's flag.
AnswersOrdered ==
    entangled = FALSE /\ stale = FALSE =>
        /\ \A j, k \in Slots : IsWritten(k) /\ j \in requests[k].after => IsWritten(j) /\ j # k
        /\ \A j, k \in Slots : IsWritten(j) /\ IsWritten(k) /\ j # k =>
             j \in requests[k].after \/ k \in requests[j].after
        /\ \A k \in Slots : IsWritten(k) /\ (\A j \in Slots : IsWritten(j) => k \notin requests[j].after)
             => requests[k].weak = saved.weak
        /\ settings # NoSettings /\ (\A k \in Slots : ~IsWritten(k)) => settings.weak = saved.weak

SettingsIndInv == SettingsTyped /\ OneAtATime /\ AnswersOrdered

\* The requests of the other slots are what they were.
LEMMA OthersRest ==
    ASSUME NEW k, \A j \in Slots \ {k} : requests'[j] = requests[j]
    PROVE  \A j \in Slots \ {k} : /\ Pending(j)' <=> Pending(j)
                                  /\ Inside(j)' <=> Inside(j)
                                  /\ IsWritten(j)' <=> IsWritten(j)
  BY DEF Pending, Inside, IsWritten

\* A request moves on to another stage, with what was read or written on the way.
LEMMA StageMoves ==
    ASSUME NEW r \in Request, NEW s \in Stages, NEW q, q = [r EXCEPT !.stage = s]
    PROVE  /\ q \in Request /\ q.stage = s
           /\ q.kind = r.kind /\ q.body = r.body /\ q.weak = r.weak /\ q.after = r.after
  BY DEF Request
LEMMA BodyMoves ==
    ASSUME NEW r \in Request, NEW b \in 0..MaxBody, NEW q, q = [r EXCEPT !.body = b]
    PROVE  /\ q \in Request /\ q.body = b
           /\ q.kind = r.kind /\ q.stage = r.stage /\ q.weak = r.weak /\ q.after = r.after
  BY DEF Request
LEMMA WeakMoves ==
    ASSUME NEW r \in Request, NEW w \in BOOLEAN, NEW q, q = [r EXCEPT !.weak = w]
    PROVE  /\ q \in Request /\ q.weak = w
           /\ q.kind = r.kind /\ q.stage = r.stage /\ q.body = r.body /\ q.after = r.after
  BY DEF Request

LEMMA NoRequestTyped == NoRequest \in Request /\ NoRequest.kind = "none"
  <1>1. 0 \in 0..MaxBody  BY SettingsAssumption
  <1> QED  BY <1>1 DEF NoRequest, Request, Stages

----------------------------------------------------------------------------
\* The server's flag is right and nothing is asked.
LEMMA SettingsInitially == SettingsInit => SettingsIndInv
  <1> SUFFICES ASSUME SettingsInit PROVE SettingsIndInv  OBVIOUS
  <1>1. 0 \in 0..MaxBody  BY SettingsAssumption
  <1>2. \A k \in Slots : requests[k] = NoRequest  BY Zenon DEF SettingsInit
  <1>3. \A k \in Slots : ~Pending(k) /\ ~Inside(k) /\ ~IsWritten(k)
    BY <1>2, NoRequestTyped, Zenon DEF Pending, Inside, IsWritten
  <1>4. saved \in [body : 0..MaxBody, weak : BOOLEAN] /\ saved.body = 0 /\ saved.weak = pinWeak
    BY <1>1 DEF SettingsInit
  <1>5. SettingsTyped
    BY <1>1, <1>3, <1>4, NoRequestTyped, Zenon DEF SettingsInit, SettingsTyped
  <1>6. OneAtATime  BY <1>3, <1>4 DEF SettingsInit, OneAtATime
  <1>7. AnswersOrdered  BY <1>3, Zenon DEF SettingsInit, AnswersOrdered
  <1> QED  BY <1>5, <1>6, <1>7 DEF SettingsIndInv

\* The record that is loaded or typed into is one the server could hold.
LEMMA NoSettingsApart ==
    ASSUME NEW r \in [body : 0..MaxBody, weak : BOOLEAN]
    PROVE  r # NoSettings
  <1>1. r.body \in 0..MaxBody /\ NoSettings.body = MaxBody + 1  BY DEF NoSettings
  <1> QED  BY <1>1, SettingsAssumption

LEMMA PageKeeps ==
    ASSUME SettingsIndInv, LoadSettings \/ \E b \in 0..MaxBody : TypeSettings(b)
    PROVE  SettingsIndInv'
  <1>1. SettingsTyped /\ OneAtATime /\ AnswersOrdered  BY DEF SettingsIndInv
  <1>2. UNCHANGED <<saved, pinWeak, requests, bodyAsked, entangled, stale>>
    BY DEF LoadSettings, TypeSettings
  <1>3. \A k \in Slots : /\ Pending(k)' <=> Pending(k)
                         /\ Inside(k)' <=> Inside(k)
                         /\ IsWritten(k)' <=> IsWritten(k)
    BY <1>2 DEF Pending, Inside, IsWritten
  <1>4. OneAtATime'  BY <1>1, <1>2, <1>3, Zenon DEF OneAtATime
  <1>5. CASE LoadSettings
    <2>1. settings = NoSettings /\ settings' = saved  BY <1>5 DEF LoadSettings
    <2>2. settings' # NoSettings /\ settings' \in [body : 0..MaxBody, weak : BOOLEAN]
      BY <1>1, <2>1, NoSettingsApart DEF SettingsTyped
    <2>3. SettingsTyped'  BY <1>1, <1>2, <1>3, <2>2 DEF SettingsTyped
    <2>4. AnswersOrdered'  BY <1>1, <1>2, <1>3, <2>1, Zenon DEF AnswersOrdered
    <2> QED  BY <1>4, <2>3, <2>4 DEF SettingsIndInv
  <1>6. ASSUME NEW b \in 0..MaxBody, TypeSettings(b) PROVE SettingsIndInv'
    <2>1. settings # NoSettings /\ settings' = [settings EXCEPT !.body = b]  BY <1>6 DEF TypeSettings
    <2>2. settings \in [body : 0..MaxBody, weak : BOOLEAN]  BY <1>1, <2>1 DEF SettingsTyped
    <2>3. settings' \in [body : 0..MaxBody, weak : BOOLEAN] /\ settings'.weak = settings.weak
      BY <2>1, <2>2
    <2>4. settings' # NoSettings  BY <2>3, NoSettingsApart
    <2>5. SettingsTyped'  BY <1>1, <1>2, <2>3, <2>4 DEF SettingsTyped
    <2>6. AnswersOrdered'  BY <1>1, <1>2, <1>3, <2>1, <2>3 DEF AnswersOrdered
    <2> QED  BY <1>4, <2>5, <2>6 DEF SettingsIndInv
  <1> QED  BY <1>5, <1>6

\* A request that is not answered before or after a step leaves the order of the answers.
LEMMA OrderRests ==
    ASSUME AnswersOrdered, NEW k \in Slots, \A j \in Slots \ {k} : requests'[j] = requests[j],
           ~IsWritten(k), ~IsWritten(k)', UNCHANGED <<saved, settings, stale>>,
           entangled' = FALSE => entangled = FALSE
    PROVE  AnswersOrdered'
  <1>1. \A j \in Slots : /\ IsWritten(j)' <=> IsWritten(j)
                         /\ IsWritten(j) => requests'[j] = requests[j]
    BY OthersRest, Zenon
  <1> QED  BY <1>1, Zenon DEF AnswersOrdered

\* A request is sent: it is neither inside the server nor answered.
LEMMA SendKeeps ==
    ASSUME SettingsIndInv, NEW k \in Slots, NEW r \in Request, r.kind # "none", r.stage = "sent",
           settings # NoSettings, Send(k, r)
    PROVE  SettingsIndInv'
  <1>1. SettingsTyped /\ OneAtATime /\ AnswersOrdered  BY DEF SettingsIndInv
  <1>2. /\ UNCHANGED <<saved, pinWeak, settings, bodyAsked, entangled, stale>>
        /\ requests' = [requests EXCEPT ![k] = r] /\ ~Pending(k)
    BY DEF Send
  <1>3. /\ requests' \in [Slots -> Request] /\ requests'[k] = r
        /\ \A j \in Slots \ {k} : requests'[j] = requests[j]
    BY <1>1, <1>2 DEF SettingsTyped
  <1>4. \A j \in Slots : /\ Inside(j)' <=> Inside(j)
                         /\ IsWritten(j)' <=> IsWritten(j)
    <2>1. ~Inside(k) /\ ~IsWritten(k) /\ ~Inside(k)' /\ ~IsWritten(k)'
      BY <1>2, <1>3 DEF Pending, Inside, IsWritten
    <2> QED  BY <1>3, <2>1, OthersRest, Zenon
  <1>5. \A j \in Slots : Inside(j) \/ IsWritten(j) => requests'[j] = requests[j]
    BY <1>2, <1>3 DEF Pending, Inside, IsWritten
  <1>6. SettingsTyped'  BY <1>1, <1>2, <1>3 DEF SettingsTyped
  <1>7. OneAtATime'  BY <1>1, <1>2, <1>4, <1>5, ZenonT(30) DEF OneAtATime
  <1>8. AnswersOrdered'
    <2>1. ~IsWritten(k) /\ ~IsWritten(k)'  BY <1>2, <1>3 DEF Pending, IsWritten
    <2> QED  BY <1>1, <1>2, <1>3, <2>1, OrderRests
  <1> QED  BY <1>6, <1>7, <1>8 DEF SettingsIndInv

LEMMA AskingKeeps ==
    ASSUME SettingsIndInv, NEW k \in Slots,
           SaveSettings(k) \/ \E weak \in BOOLEAN : RotatePIN(k, weak)
    PROVE  SettingsIndInv'
  <1>1. CASE SaveSettings(k)
    <2> DEFINE r == [kind |-> "save", stage |-> "sent", body |-> settings.body, weak |-> settings.weak,
                     after |-> {}]
    <2>1. settings # NoSettings /\ Send(k, r)  BY <1>1, Zenon DEF SaveSettings
    <2>2. settings.body \in 0..MaxBody /\ settings.weak \in BOOLEAN
      BY <2>1, Zenon DEF SettingsIndInv, SettingsTyped
    <2>3. r \in Request /\ r.kind # "none" /\ r.stage = "sent"  BY <2>2, Zenon DEF Request, Stages
    <2> HIDE DEF r
    <2> QED  BY <2>1, <2>3, SendKeeps
  <1>2. ASSUME NEW weak \in BOOLEAN, RotatePIN(k, weak) PROVE SettingsIndInv'
    <2> DEFINE r == [kind |-> "rotate", stage |-> "sent", body |-> 0, weak |-> weak, after |-> {}]
    <2>1. settings # NoSettings /\ Send(k, r)  BY <1>2 DEF RotatePIN
    <2>2. r \in Request /\ r.kind # "none" /\ r.stage = "sent"
      <3>1. 0 \in 0..MaxBody  BY SettingsAssumption
      <3> QED  BY <3>1, Zenon DEF Request, Stages
    <2> HIDE DEF r
    <2> QED  BY <2>1, <2>2, SendKeeps
  <1> QED  BY <1>1, <1>2

\* A request that is not answered yet moves on in the server.
LEMMA StoringKeeps ==
    ASSUME SettingsIndInv, NEW k \in Slots, StorePIN(k)
    PROVE  SettingsIndInv'
  <1> DEFINE r == [requests[k] EXCEPT !.stage = "pin"]
  <1>1. SettingsTyped /\ OneAtATime /\ AnswersOrdered  BY DEF SettingsIndInv
  <1>2. /\ UNCHANGED <<saved, settings, bodyAsked, stale>>
        /\ requests' = [requests EXCEPT ![k] = r] /\ pinWeak' = requests[k].weak
        /\ requests[k].kind = "rotate" /\ requests[k].stage = "sent"
        /\ entangled' = (entangled \/ \E j \in Slots \ {k} : Inside(j))
    BY DEF StorePIN
  <1>3. requests[k] \in Request  BY <1>1 DEF SettingsTyped
  <1>4. /\ r \in Request /\ r.kind = "rotate" /\ r.stage = "pin" /\ r.weak = requests[k].weak
        /\ requests[k].weak \in BOOLEAN
    <2>1. "pin" \in Stages /\ requests[k].weak \in BOOLEAN  BY <1>3 DEF Stages, Request
    <2> QED  BY <1>2, <1>3, <2>1, StageMoves
  <1> HIDE DEF r
  <1>5. /\ requests' \in [Slots -> Request] /\ requests'[k] = r
        /\ \A j \in Slots \ {k} : requests'[j] = requests[j]
    BY <1>1, <1>2, <1>4 DEF SettingsTyped
  <1>6. Pending(k) /\ ~IsWritten(k) /\ ~IsWritten(k)' /\ Inside(k)' /\ Pending(k)'
    BY <1>2, <1>4, <1>5 DEF Pending, IsWritten, Inside
  <1>7. entangled' \in BOOLEAN /\ (entangled' = FALSE => entangled = FALSE /\ \A j \in Slots \ {k} : ~Inside(j))
    BY <1>1, <1>2, Zenon DEF SettingsTyped
  <1>8. SettingsTyped'  BY <1>1, <1>2, <1>4, <1>5, <1>6, <1>7, Zenon DEF SettingsTyped
  <1>9. AnswersOrdered'  BY <1>1, <1>2, <1>5, <1>6, <1>7, OrderRests, Zenon
  <1>10. OneAtATime'
    <2> SUFFICES ASSUME entangled' = FALSE PROVE OneAtATime'  BY Zenon DEF OneAtATime
    <2>1. \A j \in Slots : Inside(j)' => j = k  BY <1>5, <1>7, OthersRest
    <2> QED  BY <1>1, <1>2, <1>4, <1>5, <1>6, <1>7, <2>1, Zenon DEF OneAtATime
  <1> QED  BY <1>8, <1>9, <1>10 DEF SettingsIndInv

\* The record is read: by a save for the flag, by a rotation for the body.
LEMMA ReadingKeeps ==
    ASSUME SettingsIndInv, NEW k \in Slots, ReadRecord(k)
    PROVE  SettingsIndInv'
  <1>1. SettingsTyped /\ OneAtATime /\ AnswersOrdered  BY DEF SettingsIndInv
  <1>2. /\ UNCHANGED <<saved, pinWeak, settings, bodyAsked, stale>>
        /\ entangled' = (entangled \/ \E j \in Slots \ {k} : Inside(j))
    BY DEF ReadRecord
  <1>3. requests[k] \in Request /\ saved.body \in 0..MaxBody /\ saved.weak \in BOOLEAN
    BY <1>1 DEF SettingsTyped
  <1>4. entangled' \in BOOLEAN /\ (entangled' = FALSE => entangled = FALSE /\ \A j \in Slots \ {k} : ~Inside(j))
    BY <1>1, <1>2, Zenon DEF SettingsTyped
  <1>5. PICK r \in Request :
          /\ requests' = [requests EXCEPT ![k] = r] /\ r.stage = "read"
          /\ \/ /\ requests[k].kind = "save" /\ requests[k].stage = "sent"
                /\ r.kind = "save" /\ r.weak = saved.weak
             \/ /\ requests[k].kind = "rotate" /\ requests[k].stage = "pin"
                /\ r.kind = "rotate" /\ r.weak = requests[k].weak /\ r.body = saved.body
    <2>1. CASE requests[k].kind = "save"
      <3> DEFINE moved == [requests[k] EXCEPT !.stage = "read"]
                 q == [moved EXCEPT !.weak = saved.weak]
      <3>1. requests[k].stage = "sent" /\ requests' = [requests EXCEPT ![k] = q]
        BY <2>1, Zenon DEF ReadRecord
      <3>2. q \in Request /\ q.stage = "read" /\ q.kind = "save" /\ q.weak = saved.weak
        <4>1. "read" \in Stages  BY DEF Stages
        <4>2. moved \in Request /\ moved.kind = "save" /\ moved.stage = "read"
          BY <1>3, <2>1, <4>1, StageMoves
        <4> HIDE DEF moved
        <4> QED  BY <1>3, <4>2, WeakMoves
      <3> HIDE DEF q
      <3> QED  BY <2>1, <3>1, <3>2, Zenon
    <2>2. CASE requests[k].kind = "rotate"
      <3> DEFINE moved == [requests[k] EXCEPT !.stage = "read"]
                 q == [moved EXCEPT !.body = saved.body]
      <3>1. requests[k].stage = "pin" /\ requests' = [requests EXCEPT ![k] = q]
        BY <2>2, Zenon DEF ReadRecord
      <3>2. /\ q \in Request /\ q.stage = "read" /\ q.kind = "rotate"
            /\ q.weak = requests[k].weak /\ q.body = saved.body
        <4>1. "read" \in Stages  BY DEF Stages
        <4>2. /\ moved \in Request /\ moved.kind = "rotate" /\ moved.stage = "read"
              /\ moved.weak = requests[k].weak
          BY <1>3, <2>2, <4>1, StageMoves
        <4> HIDE DEF moved
        <4> QED  BY <1>3, <4>2, BodyMoves
      <3> HIDE DEF q
      <3> QED  BY <2>2, <3>1, <3>2, Zenon
    <2> QED  BY <2>1, <2>2 DEF ReadRecord
  <1>6. /\ requests' \in [Slots -> Request] /\ requests'[k] = r
        /\ \A j \in Slots \ {k} : requests'[j] = requests[j]
    BY <1>1, <1>5 DEF SettingsTyped
  <1>7. Pending(k) /\ ~IsWritten(k) /\ ~IsWritten(k)' /\ Inside(k)' /\ Pending(k)'
    BY <1>5, <1>6, Zenon DEF Pending, IsWritten, Inside
  <1>8. SettingsTyped'  BY <1>1, <1>2, <1>4, <1>6, <1>7, Zenon DEF SettingsTyped
  <1>9. AnswersOrdered'  BY <1>1, <1>2, <1>4, <1>6, <1>7, OrderRests, Zenon
  <1>10. OneAtATime'
    <2> SUFFICES ASSUME entangled' = FALSE PROVE OneAtATime'  BY Zenon DEF OneAtATime
    <2>1. \A j \in Slots : Inside(j)' => j = k  BY <1>4, <1>6, OthersRest
    <2>2. requests[k].kind = "save" => saved.weak = pinWeak
      <3>1. requests[k].kind = "save" => ~Inside(k)  BY <1>5, Zenon DEF Inside
      <3> QED  BY <1>1, <1>4, <3>1, Zenon DEF OneAtATime
    <2>3. requests[k].kind = "rotate" => requests[k].weak = pinWeak
      <3>1. requests[k].kind = "rotate" => Inside(k)  BY <1>5, Zenon DEF Inside, Pending
      <3> QED  BY <1>1, <1>4, <3>1, Zenon DEF OneAtATime
    <2>4. saved.body = bodyAsked  BY <1>1, <1>4, Zenon DEF OneAtATime
    <2> QED  BY <1>2, <1>5, <1>6, <1>7, <2>1, <2>2, <2>3, <2>4 DEF OneAtATime
  <1> QED  BY <1>8, <1>9, <1>10 DEF SettingsIndInv

\* The request is answered, after all those whose answers are in flight.
LEMMA WrittenFacts ==
    ASSUME SettingsTyped, NEW k \in Slots, requests' = Written(k)
    PROVE  /\ requests' \in [Slots -> Request]
           /\ \A j \in Slots \ {k} : requests'[j] = requests[j]
           /\ requests'[k].kind = requests[k].kind /\ requests'[k].weak = requests[k].weak
           /\ requests'[k].stage = "written" /\ requests'[k].after = {j \in Slots : IsWritten(j)}
  <1> DEFINE older == {j \in Slots : Pending(j) /\ requests[j].stage = "written"}
             moved == [requests[k] EXCEPT !.stage = "written"]
             r == [moved EXCEPT !.after = older]
  <1>1. requests' = [requests EXCEPT ![k] = r]  BY Zenon DEF Written
  <1>2. older \subseteq Slots /\ older = {j \in Slots : IsWritten(j)}  BY DEF IsWritten
  <1>3. /\ moved \in Request /\ moved.kind = requests[k].kind /\ moved.stage = "written"
        /\ moved.weak = requests[k].weak
    <2>1. requests[k] \in Request /\ "written" \in Stages  BY DEF SettingsTyped, Stages
    <2> QED  BY <2>1, StageMoves
  <1> HIDE DEF moved, older
  <1>4. /\ r \in Request /\ r.kind = requests[k].kind /\ r.stage = "written"
        /\ r.weak = requests[k].weak /\ r.after = older
    <2>1. r = [moved EXCEPT !.after = older]  OBVIOUS
    <2> HIDE DEF r
    <2>2. /\ r \in Request /\ r.after = older /\ r.kind = moved.kind /\ r.stage = moved.stage
          /\ r.weak = moved.weak
      BY <1>2, <1>3, <2>1 DEF Request
    <2> QED  BY <1>3, <2>2, Zenon
  <1> HIDE DEF r
  <1>5. /\ requests' \in [Slots -> Request] /\ requests'[k] = r
        /\ \A j \in Slots \ {k} : requests'[j] = requests[j]
    BY <1>1, <1>4 DEF SettingsTyped
  <1> QED  BY <1>2, <1>4, <1>5, Zenon

\* The slot is free, and its answer is no longer awaited by any other.
LEMMA ReleasedFacts ==
    ASSUME SettingsTyped, NEW k \in Slots, requests' = Released(k)
    PROVE  /\ requests' \in [Slots -> Request] /\ requests'[k] = NoRequest
           /\ \A j \in Slots \ {k} :
                /\ requests'[j].kind = requests[j].kind /\ requests'[j].stage = requests[j].stage
                /\ requests'[j].body = requests[j].body /\ requests'[j].weak = requests[j].weak
                /\ requests'[j].after = requests[j].after \ {k}
           /\ ~Pending(k)' /\ ~Inside(k)' /\ ~IsWritten(k)'
           /\ \A j \in Slots \ {k} : /\ Pending(j)' <=> Pending(j)
                                     /\ Inside(j)' <=> Inside(j)
                                     /\ IsWritten(j)' <=> IsWritten(j)
  <1>1. requests'[k] = NoRequest  BY DEF Released
  <1>2. ASSUME NEW j \in Slots, j # k
        PROVE  /\ requests'[j] \in Request
               /\ requests'[j].kind = requests[j].kind /\ requests'[j].stage = requests[j].stage
               /\ requests'[j].body = requests[j].body /\ requests'[j].weak = requests[j].weak
               /\ requests'[j].after = requests[j].after \ {k}
    <2>1. requests[j] \in Request /\ requests[j].after \ {k} \subseteq Slots
      BY DEF SettingsTyped, Request
    <2>2. requests'[j] = [requests[j] EXCEPT !.after = requests[j].after \ {k}]
      BY <1>2 DEF Released
    <2> QED  BY <2>1, <2>2 DEF Request
  <1>3. requests' \in [Slots -> Request]
    <2>1. \A j \in Slots : requests'[j] \in Request  BY <1>1, <1>2, NoRequestTyped, Zenon
    <2>2. DOMAIN requests' = Slots /\ requests' = [j \in Slots |-> requests'[j]]  BY DEF Released
    <2> QED  BY <2>1, <2>2
  <1>4. ~Pending(k)' /\ ~Inside(k)' /\ ~IsWritten(k)'
    BY <1>1, NoRequestTyped DEF Pending, Inside, IsWritten
  <1>5. \A j \in Slots \ {k} : /\ Pending(j)' <=> Pending(j)
                               /\ Inside(j)' <=> Inside(j)
                               /\ IsWritten(j)' <=> IsWritten(j)
    BY <1>2, Zenon DEF Pending, Inside, IsWritten
  <1> QED  BY <1>1, <1>2, <1>3, <1>4, <1>5, Zenon

\* The record is written: by the one request that is inside the server.
LEMMA WritingKeeps ==
    ASSUME SettingsIndInv, NEW k \in Slots, WriteRecord(k)
    PROVE  SettingsIndInv'
  <1>1. SettingsTyped /\ OneAtATime /\ AnswersOrdered  BY DEF SettingsIndInv
  <1>2. /\ UNCHANGED <<pinWeak, settings, entangled, stale>>
        /\ Pending(k) /\ requests[k].stage = "read"
        /\ saved' = [body |-> requests[k].body, weak |-> requests[k].weak]
        /\ bodyAsked' = IF requests[k].kind = "save" THEN requests[k].body ELSE bodyAsked
        /\ requests' = Written(k)
    BY Zenon DEF WriteRecord
  <1>3. /\ requests' \in [Slots -> Request]
        /\ \A j \in Slots \ {k} : requests'[j] = requests[j]
        /\ requests'[k].kind = requests[k].kind /\ requests'[k].weak = requests[k].weak
        /\ requests'[k].stage = "written" /\ requests'[k].after = {j \in Slots : IsWritten(j)}
    BY <1>1, <1>2, WrittenFacts, Zenon
  <1>4. Inside(k) /\ ~IsWritten(k) /\ IsWritten(k)' /\ ~Inside(k)' /\ Pending(k)'
    BY <1>2, <1>3, Zenon DEF Pending, Inside, IsWritten
  <1>5. \A j \in Slots \ {k} : /\ Pending(j)' <=> Pending(j)
                               /\ Inside(j)' <=> Inside(j)
                               /\ IsWritten(j)' <=> IsWritten(j)
    BY <1>3, OthersRest, Zenon
  <1>6. /\ requests[k].body \in 0..MaxBody /\ requests[k].weak \in BOOLEAN
        /\ requests[k].kind \in {"none", "save", "rotate"}
    BY <1>1, Zenon DEF SettingsTyped, Request
  <1>7. /\ saved' \in [body : 0..MaxBody, weak : BOOLEAN]
        /\ saved'.body = requests[k].body /\ saved'.weak = requests[k].weak
    BY <1>2, <1>6, Zenon
  <1>8. bodyAsked' \in 0..MaxBody  BY <1>1, <1>2, <1>6, Zenon DEF SettingsTyped
  <1>9. SettingsTyped'
    BY <1>1, <1>2, <1>3, <1>4, <1>7, <1>8 DEF SettingsTyped
  <1>10. OneAtATime'
    <2> SUFFICES ASSUME entangled = FALSE PROVE OneAtATime'  BY <1>2, Zenon DEF OneAtATime
    <2>1. \A j \in Slots : ~Inside(j)'  BY <1>1, <1>4, <1>5, Zenon DEF OneAtATime
    <2>2. \/ requests[k].kind = "save" /\ requests[k].weak = saved.weak /\ saved.weak = pinWeak
          \/ requests[k].kind = "rotate" /\ requests[k].weak = pinWeak /\ requests[k].body = saved.body
      BY <1>1, <1>2, <1>4 DEF OneAtATime
    <2>3. saved.body = bodyAsked  BY <1>1, Zenon DEF OneAtATime
    <2>4. saved'.weak = pinWeak /\ saved'.body = bodyAsked'  BY <1>2, <1>7, <2>2, <2>3, Zenon
    <2> QED  BY <1>2, <2>1, <2>4 DEF OneAtATime
  <1>11. AnswersOrdered'
    <2> SUFFICES ASSUME entangled = FALSE, stale = FALSE PROVE AnswersOrdered'
      BY <1>2, Zenon DEF AnswersOrdered
    <2>1. \A j \in Slots \ {k} : IsWritten(j) => j \in requests'[k].after  BY <1>3, Zenon
    <2>2. \A j, i \in Slots : IsWritten(i)' /\ j \in requests'[i].after => IsWritten(j)' /\ j # i
      BY <1>1, <1>3, <1>4, <1>5, ZenonT(30) DEF AnswersOrdered
    <2>3. \A j, i \in Slots : IsWritten(j)' /\ IsWritten(i)' /\ j # i =>
            j \in requests'[i].after \/ i \in requests'[j].after
      BY <1>1, <1>3, <1>5, <2>1 DEF AnswersOrdered
    <2>4. \A i \in Slots : IsWritten(i)' /\ (\A j \in Slots : IsWritten(j)' => i \notin requests'[j].after)
            => requests'[i].weak = saved'.weak
      BY <1>3, <1>4, <1>5, <1>7, <2>1
    <2> QED  BY <1>4, <2>2, <2>3, <2>4 DEF AnswersOrdered
  <1> QED  BY <1>9, <1>10, <1>11 DEF SettingsIndInv

\* The record could not be read or written: nothing is claimed from then on.
LEMMA SkippingKeeps ==
    ASSUME SettingsIndInv, NEW k \in Slots, SkipRecord(k)
    PROVE  SettingsIndInv'
  <1>1. SettingsTyped  BY DEF SettingsIndInv
  <1>2. UNCHANGED <<saved, pinWeak, settings, bodyAsked, stale>> /\ entangled' = TRUE  BY DEF SkipRecord
  <1>3. /\ requests' \in [Slots -> Request]
        /\ \A j \in Slots \ {k} : requests'[j] = requests[j]
        /\ Pending(k)
    <2>1. CASE requests' = Written(k) /\ Inside(k)
      <3>1. Pending(k)  BY <2>1, Zenon DEF Inside
      <3> QED  BY <1>1, <2>1, <3>1, WrittenFacts, Zenon
    <2>2. CASE /\ requests[k].kind = "save"
               /\ requests' = [requests EXCEPT ![k].stage = "read"]
      <3> DEFINE r == [requests[k] EXCEPT !.stage = "read"]
      <3>1. requests' = [requests EXCEPT ![k] = r]  BY <2>2
      <3>2. r \in Request
        <4>1. requests[k] \in Request /\ "read" \in Stages  BY <1>1 DEF SettingsTyped, Stages
        <4> QED  BY <4>1, StageMoves
      <3> HIDE DEF r
      <3> QED  BY <1>1, <2>2, <3>1, <3>2 DEF SettingsTyped, Pending
    <2> QED  BY <2>1, <2>2 DEF SkipRecord
  <1>4. settings # NoSettings  BY <1>1, <1>3 DEF SettingsTyped
  <1>5. SettingsTyped'  BY <1>1, <1>2, <1>3, <1>4, Zenon DEF SettingsTyped
  <1>6. OneAtATime' /\ AnswersOrdered'  BY <1>2, Zenon DEF OneAtATime, AnswersOrdered
  <1> QED  BY <1>5, <1>6 DEF SettingsIndInv

\* A request that is not inside the server leaves it as it is.
LEMMA ReleaseKeepsServer ==
    ASSUME SettingsTyped, OneAtATime, NEW k \in Slots, requests' = Released(k),
           Inside(k) => requests[k].kind = "save",
           UNCHANGED <<saved, pinWeak, bodyAsked, entangled>>
    PROVE  OneAtATime'
  <1> SUFFICES ASSUME entangled = FALSE PROVE OneAtATime'  BY Zenon DEF OneAtATime
  <1>1. /\ ~Inside(k)'
        /\ \A j \in Slots \ {k} :
             /\ Inside(j)' <=> Inside(j)
             /\ requests'[j].kind = requests[j].kind /\ requests'[j].stage = requests[j].stage
             /\ requests'[j].body = requests[j].body /\ requests'[j].weak = requests[j].weak
    BY ReleasedFacts
  <1>2. Inside(k) => saved.weak = pinWeak  BY Zenon DEF OneAtATime
  <1>3. \A j, i \in Slots : Inside(j)' /\ Inside(i)' => j = i  BY <1>1, Zenon DEF OneAtATime
  <1>4. (\A j \in Slots : ~Inside(j)') => saved'.weak = pinWeak'  BY <1>1, <1>2, Zenon DEF OneAtATime
  <1>5. ASSUME NEW j \in Slots, Inside(j)'
        PROVE  \/ /\ requests'[j].kind = "save" /\ requests'[j].stage = "read"
                  /\ requests'[j].weak = saved'.weak /\ saved'.weak = pinWeak'
               \/ /\ requests'[j].kind = "rotate" /\ requests'[j].weak = pinWeak'
                  /\ requests'[j].stage = "read" => requests'[j].body = saved'.body
    <2>1. j # k /\ Inside(j)  BY <1>1, <1>5, Zenon
    <2>2. /\ requests'[j].kind = requests[j].kind /\ requests'[j].stage = requests[j].stage
          /\ requests'[j].body = requests[j].body /\ requests'[j].weak = requests[j].weak
      BY <1>1, <2>1, Zenon
    <2> QED  BY <2>1, <2>2, Zenon DEF OneAtATime
  <1>6. saved'.body = bodyAsked'  BY Zenon DEF OneAtATime
  <1> QED  BY <1>3, <1>4, <1>5, <1>6, Zenon DEF OneAtATime

\* The answer arrives: the page shows the flag of the last one, unless it was overtaken.
LEMMA AnsweringKeeps ==
    ASSUME SettingsIndInv, NEW k \in Slots, EndSettings(k)
    PROVE  SettingsIndInv'
  <1>1. SettingsTyped /\ OneAtATime /\ AnswersOrdered  BY DEF SettingsIndInv
  <1>2. /\ UNCHANGED <<saved, pinWeak, bodyAsked, entangled>> /\ requests' = Released(k)
        /\ Pending(k) /\ requests[k].stage = "written"
        /\ stale' = (stale \/ requests[k].after # {})
    BY Zenon DEF EndSettings
  <1>3. IsWritten(k) /\ ~Inside(k)  BY <1>2, Zenon DEF IsWritten, Inside
  <1>4. /\ requests' \in [Slots -> Request]
        /\ \A j \in Slots \ {k} : /\ requests'[j].weak = requests[j].weak
                                  /\ requests'[j].after = requests[j].after \ {k}
                                  /\ IsWritten(j)' <=> IsWritten(j)
        /\ ~IsWritten(k)'
    BY <1>1, <1>2, ReleasedFacts
  <1>5. stale' \in BOOLEAN /\ (stale' = FALSE => stale = FALSE /\ requests[k].after = {})
    BY <1>1, <1>2, Zenon DEF SettingsTyped
  <1>6. settings # NoSettings /\ settings \in [body : 0..MaxBody, weak : BOOLEAN]
    BY <1>1, <1>2, Zenon DEF SettingsTyped
  <1>7. settings' \in [body : 0..MaxBody, weak : BOOLEAN] /\ settings'.weak = requests[k].weak
    <2> DEFINE b == IF requests[k].kind = "save" THEN requests[k].body ELSE settings.body
    <2>1. requests[k].body \in 0..MaxBody /\ requests[k].weak \in BOOLEAN
      BY <1>1 DEF SettingsTyped, Request
    <2>2. b \in 0..MaxBody  BY <1>6, <2>1, Zenon
    <2>3. settings' = [body |-> b, weak |-> requests[k].weak]  BY Zenon DEF EndSettings
    <2> HIDE DEF b
    <2> QED  BY <2>1, <2>2, <2>3, Zenon
  <1>8. SettingsTyped'
    <2>1. settings' # NoSettings  BY <1>7, NoSettingsApart, Zenon
    <2> QED  BY <1>1, <1>2, <1>4, <1>5, <1>7, <2>1, Zenon DEF SettingsTyped
  <1>9. OneAtATime'  BY <1>1, <1>2, <1>3, ReleaseKeepsServer, Zenon
  <1>10. AnswersOrdered'
    <2> SUFFICES ASSUME entangled = FALSE, stale' = FALSE PROVE AnswersOrdered'
      BY <1>2, Zenon DEF AnswersOrdered
    <2>1. stale = FALSE /\ requests[k].after = {}  BY <1>5
    <2>2. \A j \in Slots \ {k} : IsWritten(j) => k \in requests[j].after
      BY <1>1, <1>3, <2>1, Zenon DEF AnswersOrdered
    <2>3. ASSUME NEW j \in Slots, NEW i \in Slots, IsWritten(i)', j \in requests'[i].after
          PROVE  IsWritten(j)' /\ j # i
      <3>1. i # k /\ IsWritten(i)  BY <1>4, <2>3, Zenon
      <3>2. j \in requests[i].after /\ j # k  BY <1>4, <2>3, <3>1
      <3>3. IsWritten(j) /\ j # i  BY <1>1, <2>1, <3>1, <3>2, Zenon DEF AnswersOrdered
      <3> QED  BY <1>4, <3>2, <3>3, Zenon
    <2>4. ASSUME NEW j \in Slots, NEW i \in Slots, IsWritten(j)', IsWritten(i)', j # i
          PROVE  j \in requests'[i].after \/ i \in requests'[j].after
      <3>1. i # k /\ j # k /\ IsWritten(i) /\ IsWritten(j)  BY <1>4, <2>4, Zenon
      <3>2. j \in requests[i].after \/ i \in requests[j].after
        BY <1>1, <2>1, <2>4, <3>1, Zenon DEF AnswersOrdered
      <3> QED  BY <1>4, <3>1, <3>2
    <2>5. \A i \in Slots : IsWritten(i)' /\ (\A j \in Slots : IsWritten(j)' => i \notin requests'[j].after)
            => requests'[i].weak = saved'.weak
      <3> SUFFICES ASSUME NEW i \in Slots, IsWritten(i)',
                          \A j \in Slots : IsWritten(j)' => i \notin requests'[j].after
                   PROVE  requests'[i].weak = saved'.weak
        BY Zenon
      <3>1. i # k /\ IsWritten(i)  BY <1>4, Zenon
      <3>2. \A j \in Slots : IsWritten(j) => i \notin requests[j].after
        BY <1>4, <2>1, <3>1, Zenon
      <3>3. requests[i].weak = saved.weak  BY <1>1, <2>1, <3>1, <3>2, Zenon DEF AnswersOrdered
      <3> QED  BY <1>2, <1>4, <3>1, <3>3, Zenon
    <2>6. (\A i \in Slots : ~IsWritten(i)') => settings'.weak = saved'.weak
      <3> SUFFICES ASSUME \A i \in Slots : ~IsWritten(i)' PROVE settings'.weak = saved'.weak  BY Zenon
      <3>1. \A j \in Slots : IsWritten(j) => j = k  BY <1>4, Zenon
      <3>2. requests[k].weak = saved.weak  BY <1>1, <1>3, <2>1, <3>1, Zenon DEF AnswersOrdered
      <3> QED  BY <1>2, <1>7, <3>2, Zenon
    <2> QED  BY <2>3, <2>4, <2>5, <2>6, Zenon DEF AnswersOrdered
  <1> QED  BY <1>8, <1>9, <1>10 DEF SettingsIndInv

\* A request is refused, or its answer is lost.
LEMMA RefusingKeeps ==
    ASSUME SettingsIndInv, NEW k \in Slots, FailSettings(k)
    PROVE  SettingsIndInv'
  <1>1. SettingsTyped /\ OneAtATime /\ AnswersOrdered  BY DEF SettingsIndInv
  <1>2. /\ UNCHANGED <<saved, pinWeak, settings, bodyAsked, entangled>> /\ requests' = Released(k)
        /\ Pending(k) /\ (Inside(k) => requests[k].kind = "save")
        /\ stale' = (stale \/ requests[k].stage = "written")
    BY Zenon DEF FailSettings
  <1>3. /\ requests' \in [Slots -> Request]
        /\ \A j \in Slots \ {k} : /\ requests'[j].weak = requests[j].weak
                                  /\ requests'[j].after = requests[j].after \ {k}
                                  /\ IsWritten(j)' <=> IsWritten(j)
        /\ ~IsWritten(k)'
    BY <1>1, <1>2, ReleasedFacts
  <1>4. stale' \in BOOLEAN /\ (stale' = FALSE => stale = FALSE /\ requests[k].stage # "written")
    BY <1>1, <1>2, Zenon DEF SettingsTyped
  <1>5. settings # NoSettings  BY <1>1, <1>2, Zenon DEF SettingsTyped
  <1>6. SettingsTyped'  BY <1>1, <1>2, <1>3, <1>4, <1>5 DEF SettingsTyped
  <1>7. OneAtATime'  BY <1>1, <1>2, ReleaseKeepsServer
  <1>8. AnswersOrdered'
    <2> SUFFICES ASSUME entangled = FALSE, stale' = FALSE PROVE AnswersOrdered'
      BY <1>2, Zenon DEF AnswersOrdered
    <2>1. stale = FALSE /\ ~IsWritten(k)  BY <1>4, Zenon DEF IsWritten
    <2>2. \A j \in Slots : IsWritten(j) => k \notin requests[j].after
      BY <1>1, <2>1 DEF AnswersOrdered
    <2>3. \A j \in Slots : /\ IsWritten(j)' <=> IsWritten(j)
                           /\ IsWritten(j) => requests'[j].weak = requests[j].weak
                                              /\ requests'[j].after = requests[j].after
      <3> SUFFICES ASSUME NEW j \in Slots, j # k
                   PROVE  /\ IsWritten(j)' <=> IsWritten(j)
                          /\ IsWritten(j) => requests'[j].weak = requests[j].weak
                                             /\ requests'[j].after = requests[j].after
        BY <1>3, <2>1, Zenon
      <3>1. IsWritten(j) => requests[j].after \ {k} = requests[j].after  BY <2>2, Zenon
      <3> QED  BY <1>3, <3>1, Zenon
    <2> QED  BY <1>1, <1>2, <2>1, <2>3, ZenonT(30) DEF AnswersOrdered
  <1> QED  BY <1>6, <1>7, <1>8 DEF SettingsIndInv

LEMMA SettingsStep == SettingsIndInv /\ [SettingsNext]_settingsVars => SettingsIndInv'
  <1> SUFFICES ASSUME SettingsIndInv, [SettingsNext]_settingsVars PROVE SettingsIndInv'  OBVIOUS
  <1>1. CASE UNCHANGED settingsVars
    <2>1. SettingsTyped /\ OneAtATime /\ AnswersOrdered  BY DEF SettingsIndInv
    <2>2. SettingsTyped'  BY <1>1, <2>1, Zenon DEF settingsVars, SettingsTyped, Pending
    <2>3. \A k \in Slots : (Inside(k)' <=> Inside(k)) /\ (IsWritten(k)' <=> IsWritten(k))
      BY <1>1, Zenon DEF settingsVars, Inside, IsWritten, Pending
    <2>4. OneAtATime'  BY <1>1, <2>1, <2>3 DEF settingsVars, OneAtATime
    <2>5. AnswersOrdered'  BY <1>1, <2>1, <2>3 DEF settingsVars, AnswersOrdered
    <2> QED  BY <2>2, <2>4, <2>5 DEF SettingsIndInv
  <1>2. CASE SettingsNext
    BY <1>2, PageKeeps, AskingKeeps, StoringKeeps, ReadingKeeps, WritingKeeps, SkippingKeeps,
       AnsweringKeeps, RefusingKeeps, Zenon DEF SettingsNext
  <1> QED  BY <1>1, <1>2

LEMMA SettingsFollow == SettingsIndInv => SettingsKept
  <1> SUFFICES ASSUME SettingsIndInv PROVE SettingsKept  OBVIOUS
  <1>1. SettingsTyped /\ OneAtATime /\ AnswersOrdered  BY DEF SettingsIndInv
  <1>2. SettingsTypeOK
    <2>1. \A b \in 0..MaxBody : b \in 0..(MaxBody + 1)  BY SettingsAssumption
    <2>2. MaxBody + 1 \in 0..(MaxBody + 1)  BY SettingsAssumption
    <2>3. saved \in SiteSettings  BY <1>1, <2>1, Zenon DEF SettingsTyped, SiteSettings
    <2>4. settings \in SiteSettings
      <3>1. CASE settings = NoSettings  BY <2>2, <3>1, Zenon DEF SiteSettings, NoSettings
      <3>2. CASE settings \in [body : 0..MaxBody, weak : BOOLEAN]  BY <2>1, <3>2 DEF SiteSettings
      <3> QED  BY <1>1, <3>1, <3>2, Zenon DEF SettingsTyped
    <2>5. {saved, settings} \subseteq SiteSettings  BY <2>3, <2>4
    <2>6. requests \in [Slots -> Request] /\ bodyAsked \in 0..MaxBody  BY <1>1, Zenon DEF SettingsTyped
    <2>7. pinWeak \in BOOLEAN /\ entangled \in BOOLEAN /\ stale \in BOOLEAN  BY <1>1, Zenon DEF SettingsTyped
    <2> QED  BY <2>5, <2>6, <2>7, Zenon DEF SettingsTypeOK
  <1>3. entangled \in BOOLEAN /\ stale \in BOOLEAN  BY <1>1, Zenon DEF SettingsTyped
  <1>4. ~entangled => entangled = FALSE  BY <1>3
  <1>5. ~stale => stale = FALSE  BY <1>3
  <1>6. \A k \in Slots : ~Pending(k) => ~IsWritten(k)  BY Zenon DEF IsWritten
  <1> QED  BY <1>1, <1>2, <1>4, <1>5, <1>6, Zenon DEF OneAtATime, AnswersOrdered, SettingsKept

\* The warning about a weak PIN is the server's own through any number of saves and rotations
\* in flight, and the page comes to show it: handleAdminSaveSettings, handleAdminRotatePIN
\* and the save and rotatePIN of AdminSettings.vue, as long as the two do not overlap in the
\* server.
THEOREM FlagIsTheServers == SettingsSpec => []SettingsKept
  BY SettingsInitially, SettingsStep, SettingsFollow, PTL DEF SettingsSpec
=============================================================================
