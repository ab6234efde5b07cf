----------------------------- MODULE Appearance -----------------------------
(***************************************************************************)
(* How the two web pages look (frontend/src and usage-console/console/src, *)
(* hooks/use-theme-preference.ts; frontend/src/app/config.ts): the theme   *)
(* that the user chooses, kept in localStorage for all tabs and in memory  *)
(* when storage refuses, the one the system prefers, and the operator's    *)
(* branding.                                                               *)
(*                                                                         *)
(* A tab is painted by the inline script, then mounts React.  From then on *)
(* it reads the preference whenever ThemeProvider renders, and that is     *)
(* when its own setThemeMode or the system's scheme says so: nothing tells *)
(* it of another tab's choice.                                             *)
(***************************************************************************)
EXTENDS Naturals

CONSTANTS
  Tabs,
  BrandFiles,     \* what /config.json may hold
  Events,         \* has the engine MediaQueryList.addEventListener?
  MaxChanges      \* bound: choices and changes of the browser's settings

Modes == {"light", "dark", "system"}

\* A branding value as /config.json gives it: none, a usable one, or one that
\* the page must not use.
Values == {"absent", "good", "bad"}

Brands == [logoUrl : Values, logoUrlDark : Values, token : Values]

NoBrand == [logoUrl |-> "absent", logoUrlDark |-> "absent", token |-> "absent"]

ASSUME LookAssumptions ==
  BrandFiles \subseteq Brands /\ Events \in BOOLEAN /\ MaxChanges \in Nat

VARIABLES
  stored,       \* localStorage's value, of any vintage
  storage,      \* can it be read, and written?
  systemDark,   \* prefers-color-scheme
  tabs,         \* each tab: how far it is, what it has rendered, its memory
  outdated,     \* history: why a tab may show an older preference
  changes

lookVars == <<stored, storage, systemDark, tabs, outdated, changes>>

NoMode == "none"

Closed == [at |-> "closed", memory |-> NoMode, mode |-> "system", dark |-> FALSE,
           config |-> NoBrand, logo |-> <<"none", "absent">>, css |-> "absent"]

LookTypeOK ==
  /\ stored \in Modes \cup {NoMode, "unknown"}
  /\ storage \in [read : BOOLEAN, write : BOOLEAN]
  /\ systemDark \in BOOLEAN
  /\ \A t \in Tabs :
       /\ tabs[t].at \in {"closed", "painted", "mounted"}
       /\ tabs[t].memory \in Modes \cup {NoMode}
       /\ tabs[t].mode \in Modes /\ tabs[t].dark \in BOOLEAN
       /\ tabs[t].config \in Brands
       /\ tabs[t].logo[1] = "none" <=> tabs[t].at # "mounted"
       /\ outdated[t] \subseteq {"elsewhere", "storage", "unheard"}
       /\ tabs[t].at = "closed" => tabs[t] = Closed /\ outdated[t] = {}

LookInit ==
  /\ stored \in {NoMode, "dark", "unknown"}
  /\ storage = [read |-> TRUE, write |-> TRUE]
  /\ systemDark \in BOOLEAN
  /\ tabs = [t \in Tabs |-> Closed]
  /\ outdated = [t \in Tabs |-> {}]
  /\ changes = 0

Change == changes < MaxChanges /\ changes' = changes + 1

-----------------------------------------------------------------------------
(* The preference *)

\* Mutant: whatever is stored is taken for a mode.
readStoredModeRaw(read, value, memory) ==
  LET mode == IF read THEN value ELSE memory IN
  IF mode = NoMode THEN "system" ELSE mode

\* readStoredMode: what is stored, if it is a mode; the memory's only when
\* storage throws.
readStoredMode(read, value, memory) ==
  LET mode == IF read THEN value ELSE memory IN
  IF mode \in Modes THEN mode ELSE "system"

\* isDarkMode
Resolve(mode, system) == IF mode = "system" THEN system ELSE mode = "dark"

\* themeBootstrapScript: mode is null when storage throws.
themeBootstrapScript(system) ==
  LET mode == IF storage.read THEN stored ELSE NoMode IN
  mode = "dark" \/ (mode # "light" /\ system)

-----------------------------------------------------------------------------
(* Branding *)

\* An address that is not http(s), root-relative or an allowed inline image is
\* dropped.
sanitizeUrl(v) == IF v = "bad" THEN "absent" ELSE v

\* A theme token that could end its declaration is dropped.
safeCssValue(v) == IF v = "bad" THEN "absent" ELSE v

\* Topbar's logoSrc.
logoSrc(c, dark) ==
  IF dark /\ c.logoUrlDark # "absent" THEN <<"logoUrlDark", c.logoUrlDark>>
  ELSE IF c.logoUrl # "absent" THEN <<"logoUrl", c.logoUrl>>
  ELSE <<"built-in", "good">>

\* loadAppConfig: the file is cached as sanitized.
Sanitized(c) == [logoUrl |-> sanitizeUrl(c.logoUrl),
                 logoUrlDark |-> sanitizeUrl(c.logoUrlDark),
                 token |-> c.token]

-----------------------------------------------------------------------------
(* A tab *)

\* ThemeProvider renders tab, with storage, the stored value and the system's
\* scheme as they are then: the class is toggled and the logo chosen.
Rendered(tab, read, value, system) ==
  LET mode == readStoredMode(read, value, tab.memory)
      dark == Resolve(mode, system)
  IN [tab EXCEPT !.at = "mounted", !.mode = mode, !.dark = dark,
                 !.logo = logoSrc(tab.config, dark)]

\* The browser opens a tab: the script paints it.
OpenTab(t) ==
  /\ tabs[t].at = "closed"
  /\ tabs' = [tabs EXCEPT ![t].at = "painted",
                          ![t].dark = themeBootstrapScript(systemDark)]
  /\ UNCHANGED <<stored, storage, systemDark, outdated, changes>>

\* main.tsx: branding is applied (as far as it can be: under the login bypass
\* the file may be missing), then ThemeProvider mounts.
Mount(t) ==
  /\ tabs[t].at = "painted"
  /\ \E c \in BrandFiles \cup {NoBrand} :
       LET branded == [tabs[t] EXCEPT !.config = Sanitized(c),
                                      !.css = safeCssValue(c.token)]
       IN tabs' = [tabs EXCEPT ![t] =
                     Rendered(branded, storage.read, stored, systemDark)]
  /\ outdated' = [outdated EXCEPT ![t] = {}]
  /\ UNCHANGED <<stored, storage, systemDark, changes>>

CloseTab(t) ==
  /\ tabs[t].at # "closed"
  /\ tabs' = [tabs EXCEPT ![t] = Closed]
  /\ outdated' = [outdated EXCEPT ![t] = {}]
  /\ UNCHANGED <<stored, storage, systemDark, changes>>

\* Who has been left behind by a change that only the tabs in told have heard of.
LeftBehind(told, why) ==
  [t \in Tabs |-> IF t \in told THEN {}
                  ELSE IF tabs[t].at = "closed" THEN {}
                  ELSE outdated[t] \cup {why}]

\* Mutant: the listeners are not called when the memory takes the choice.
setThemeModeUntold(t, mode) ==
  /\ tabs[t].at = "mounted" /\ Change
  /\ IF storage.write
     THEN /\ stored' = mode
          /\ tabs' = [tabs EXCEPT ![t] =
               Rendered([@ EXCEPT !.memory = NoMode], storage.read, mode, systemDark)]
     ELSE /\ UNCHANGED stored
          /\ tabs' = [tabs EXCEPT ![t].memory = mode]
  /\ outdated' = IF storage.write THEN LeftBehind({t}, "elsewhere")
                 ELSE [outdated EXCEPT ![t] = {}]
  /\ UNCHANGED <<storage, systemDark>>

\* setThemeMode, from the account menu: written to storage, or to the tab's
\* memory if storage refuses; then this tab's listeners render.
setThemeMode(t, mode) ==
  /\ tabs[t].at = "mounted" /\ Change
  /\ IF storage.write
     THEN /\ stored' = mode
          /\ tabs' = [tabs EXCEPT ![t] =
               Rendered([@ EXCEPT !.memory = NoMode], storage.read, mode, systemDark)]
          /\ outdated' = LeftBehind({t}, "elsewhere")
     ELSE /\ UNCHANGED stored
          /\ tabs' = [tabs EXCEPT ![t] =
               Rendered([@ EXCEPT !.memory = mode], storage.read, stored, systemDark)]
          /\ outdated' = [outdated EXCEPT ![t] = {}]
  /\ UNCHANGED <<storage, systemDark>>

\* The account menu: a radio group, of whose values those that are modes count.
ThemeMenu(t) == \E value \in Modes : setThemeMode(t, value)

Mounted == {t \in Tabs : tabs[t].at = "mounted"}

\* The system's scheme changes: subscribeToSystemScheme's tabs render, and read
\* the preference again with it; where the engine has no events, none does.
SchemeChanges ==
  /\ Change /\ systemDark' = ~systemDark
  /\ LET told == IF Events THEN Mounted ELSE {} IN
       /\ tabs' = [t \in Tabs |->
            IF t \in told THEN Rendered(tabs[t], storage.read, stored, systemDark')
            ELSE tabs[t]]
       /\ outdated' = LeftBehind(told, "unheard")
  /\ UNCHANGED <<stored, storage>>

\* Storage fills up, is blocked, or is allowed again.
StorageChanges ==
  /\ Change
  /\ storage' \in [read : BOOLEAN, write : BOOLEAN] \ {storage}
  /\ storage'.write => storage'.read
  /\ outdated' = LeftBehind({}, "storage")
  /\ UNCHANGED <<stored, systemDark, tabs>>

LookNext ==
  \/ \E t \in Tabs :
       \/ OpenTab(t) \/ Mount(t) \/ CloseTab(t)
       \/ ThemeMenu(t)
  \/ SchemeChanges \/ StorageChanges

-----------------------------------------------------------------------------
(* Properties *)

\* A mounted tab looks as the preference and the system now say, unless another
\* tab has chosen, storage has come or gone, or the engine reports no change of
\* scheme since it last rendered.  (A choice that storage refuses while it still
\* shows an older one is such a preference: readStoredMode prefers what it can
\* read to what the user just chose.)
ThemeIsCurrent ==
  \A t \in Mounted : outdated[t] = {} =>
    tabs[t].dark = Resolve(readStoredMode(storage.read, stored, tabs[t].memory),
                           systemDark)

\* The script "resolves `dark` exactly like `useThemePreference` does": mounting
\* repaints nothing, unless the preference or the system changed meanwhile.
NoFlashStep ==
  \A t \in Tabs :
    tabs[t].at = "painted" /\ tabs'[t].at = "mounted" /\ outdated[t] = {}
      => tabs'[t].dark = tabs[t].dark
NoFlash == [][NoFlashStep]_lookVars

\* The document never holds a value that /config.json should not have had, and
\* a dark page's logo is the dark one, the light one or the built-in one, in
\* that order; it changes with the theme.
BrandIsSafe ==
  \A t \in Mounted :
    /\ tabs[t].logo[2] = "good" /\ tabs[t].css # "bad"
    /\ tabs[t].logo[1] = "logoUrlDark" => tabs[t].dark
    /\ tabs[t].dark /\ tabs[t].config.logoUrlDark = "good"
         => tabs[t].logo[1] = "logoUrlDark"

\* What is painted, at first and ever after, in every tab, is what the preference,
\* the system and a safe configuration say.
LookIsAsChosen == [](ThemeIsCurrent /\ BrandIsSafe) /\ NoFlash
=============================================================================
