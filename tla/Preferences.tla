---------------------------- MODULE Preferences ----------------------------
(***************************************************************************)
(* The language and the appearance of the interface, in several tabs of    *)
(* one browser.  Tabs share localStorage; each keeps its own locale and    *)
(* whether it was chosen, and follows the browser's languages only while   *)
(* it was not.  Writing to localStorage may fail.  A language tag is       *)
(* modelled by its class, "zh", "en" or another.                           *)
(***************************************************************************)
EXTENDS Sequences, Naturals

CONSTANTS Tabs, LanguageLists

ASSUME LanguagesAssumption == \A l \in LanguageLists : l \in Seq({"zh", "en", "fr"})

VARIABLES
    languages,      \* navigator.languages
    storedLocale,   \* localePreferenceKey in localStorage, "none" when unset
    storedLook,     \* 'appearance' in localStorage
    tab,            \* tab[t]: [locale, explicit (hasExplicitPreference), look, attribute]
    chosen          \* history variable: the choice in force in each tab, "none" without one

prefVars == <<languages, storedLocale, storedLook, tab, chosen>>

Locales == {"zh-CN", "en-US"}
Looks == <<"system", "dark", "light">>

\* supportedLocale, and detectBrowserLocale: the first supported language, or English.
SupportedLocale(tag) == CASE tag = "zh" -> "zh-CN" [] tag = "en" -> "en-US" [] OTHER -> "none"

DetectBrowserLocale(list) ==
    LET found == {k \in DOMAIN list : /\ SupportedLocale(list[k]) # "none"
                                      /\ \A j \in 1..(k - 1) : SupportedLocale(list[j]) = "none"}
    IN  IF found = {} THEN "en-US" ELSE SupportedLocale(list[CHOOSE k \in found : TRUE])

\* A tab loads i18n.ts, mounts App.vue and a PublicHeader.
Loaded(stored, look) ==
    [locale |-> IF stored # "none" THEN stored ELSE DetectBrowserLocale(languages),
     explicit |-> stored # "none", look |-> look, attribute |-> look]

PreferencesTypeOK ==
    /\ languages \in LanguageLists /\ storedLocale \in Locales \cup {"none"}
    /\ storedLook \in {"system", "dark", "light"} /\ chosen \in [Tabs -> Locales \cup {"none"}]
    /\ \A t \in Tabs : tab[t].locale \in Locales /\ tab[t].explicit \in BOOLEAN

PreferencesInit ==
    /\ languages \in LanguageLists /\ storedLocale \in Locales \cup {"none"} /\ storedLook = "system"
    /\ tab = [t \in Tabs |-> Loaded(storedLocale, storedLook)]
    /\ chosen = [t \in Tabs |-> storedLocale]

----------------------------------------------------------------------------
\* Fault: the choice is stored, and remembered only by the next load.
SetLocaleStoredOnly(t, value, ok) ==
    /\ tab' = [tab EXCEPT ![t].locale = value]
    /\ storedLocale' = IF ok THEN value ELSE storedLocale
    /\ chosen' = [chosen EXCEPT ![t] = value]
    /\ UNCHANGED <<languages, storedLook>>

\* setLocale, and persistLocalePreference, whose failure is ignored.
SetLocale(t, value, ok) ==
    /\ tab' = [tab EXCEPT ![t].locale = value, ![t].explicit = TRUE]
    /\ storedLocale' = IF ok THEN value ELSE storedLocale
    /\ chosen' = [chosen EXCEPT ![t] = value]
    /\ UNCHANGED <<languages, storedLook>>

\* The browser's languages change: syncLocaleWithBrowser runs in every tab.
LanguageChange(list) ==
    /\ languages' = list
    /\ tab' = [t \in Tabs |-> IF tab[t].explicit THEN tab[t]
                              ELSE [tab[t] EXCEPT !.locale = DetectBrowserLocale(list)]]
    /\ UNCHANGED <<storedLocale, storedLook, chosen>>

\* cycleAppearance; storing comes before the attribute, so a failure keeps the old one.
CycleAppearance(t, ok) ==
    LET at == CHOOSE k \in 1..3 : Looks[k] = tab[t].look
        next == Looks[(at % 3) + 1]
    IN  /\ tab' = [tab EXCEPT ![t].look = next, ![t].attribute = IF ok THEN next ELSE @]
        /\ storedLook' = IF ok THEN next ELSE storedLook
        /\ UNCHANGED <<languages, storedLocale, chosen>>

Reload(t) ==
    /\ tab' = [tab EXCEPT ![t] = Loaded(storedLocale, storedLook)]
    /\ chosen' = [chosen EXCEPT ![t] = storedLocale]
    /\ UNCHANGED <<languages, storedLocale, storedLook>>

PreferencesNext ==
    \/ \E t \in Tabs, ok \in BOOLEAN : CycleAppearance(t, ok) \/ \E v \in Locales : SetLocale(t, v, ok)
    \/ \E t \in Tabs : Reload(t)
    \/ \E list \in LanguageLists : LanguageChange(list)

PreferencesSpec == PreferencesInit /\ [][PreferencesNext]_prefVars

----------------------------------------------------------------------------
\* A tab shows the language chosen in it or stored when it was loaded, and without a choice
\* the one the browser asks for, through any changes of the browser's languages, choices in
\* other tabs and failures to store.
LocaleIsRight ==
    /\ PreferencesTypeOK
    /\ \A t \in Tabs : tab[t].locale = IF chosen[t] # "none" THEN chosen[t]
                                       ELSE DetectBrowserLocale(languages)
=============================================================================
