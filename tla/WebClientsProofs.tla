-------------------------- MODULE WebClientsProofs --------------------------
(***************************************************************************)
(* Proofs about the parts of WebClients, each as WebSpec follows it: for   *)
(* any number of keys, receipts, days, models and mishaps.                 *)
(***************************************************************************)
EXTENDS WebClients, ListLemmas

-----------------------------------------------------------------------------
(* The notifications *)

\* An item's action waits: no timer is set, unless an update has set one and left
\* the action unsaid.
Waiting(item) == item.actionProps /\ ~item.reTimed => item.timeout = Never

\* An item has the priority of its type.
Alarmed(item) ==
  ~item.ownPriority /\ ~item.promised => (item.priority = "high" <=> item.type \in {"warning", "error"})

\* An item that is open follows a promise.
Kept(item) == Waiting(item) /\ Alarmed(item) /\ (item.open => item.promised)

ToastInv == \A n \in DOMAIN toasts : toasts[n] \in Items /\ Kept(toasts[n])

\* What an item becomes by what is said of it.
LEMMA MergedKeeps ==
  ASSUME NEW item \in Items, NEW o \in Fields, Kept(item)
  PROVE  LET patch == withToastA11yDefaults(o)
             new   == Merged(item, o, patch) IN
         /\ new \in Items /\ Kept(new)
         /\ patch.timeout = Unsaid => ~patch.actionProps
<1> DEFINE patch == withToastA11yDefaults(o)
           new   == Merged(item, o, patch)
<1>1. /\ o.type \in {Unsaid, "success", "warning", "error", "info", "loading", "custom"}
      /\ o.priority \in {Unsaid, "low", "high"} /\ o.timeout \in {Unsaid, Never, "short"}
      /\ o.actionProps \in BOOLEAN /\ o.dismissible \in {Unsaid, "true", "false"}
  BY DEF Fields
<1>2. /\ patch.type = o.type /\ patch.priority = priorityOf(o) /\ patch.timeout = timeoutOf(o)
      /\ patch.actionProps = o.actionProps /\ patch.dismissible = o.dismissible
  BY DEF withToastA11yDefaults, Fields
<1>3. /\ item.type \in {Unsaid, "success", "warning", "error", "info", "loading", "custom"}
      /\ item.priority \in {"low", "high"} /\ item.timeout \in {DefaultTime, Never, "short"}
      /\ item.actionProps \in BOOLEAN /\ item.dismissible \in {Unsaid, "true", "false"}
      /\ item.ownPriority \in BOOLEAN /\ item.reTimed \in BOOLEAN
      /\ item.promised \in BOOLEAN /\ item.open \in BOOLEAN
  BY DEF Items
<1> HIDE DEF patch
<1>4. /\ new.type = Said(patch.type, item.type) /\ new.priority = Said(patch.priority, item.priority)
      /\ new.timeout = Said(patch.timeout, item.timeout)
      /\ new.actionProps = (item.actionProps \/ patch.actionProps)
      /\ new.ownPriority = (o.priority # Unsaid \/ (item.ownPriority /\ o.type = Unsaid))
      /\ new.reTimed = (/\ ~patch.actionProps
                        /\ item.reTimed \/ (item.actionProps /\ o.timeout # Unsaid))
      /\ new.promised = item.promised /\ new.open = item.open
  BY DEF Merged
<1>5. new \in Items
  BY <1>1, <1>2, <1>3 DEF Merged, Items, Said, Unsaid, priorityOf, timeoutOf
<1> HIDE DEF new
<1>6. Waiting(new)
  BY <1>1, <1>2, <1>3, <1>4 DEF Kept, Waiting, Said, Unsaid, Never, timeoutOf
<1>7. Alarmed(new)
  BY <1>1, <1>2, <1>3, <1>4
     DEF Kept, Alarmed, Said, Unsaid, priorityOf, getToastType, assertiveToastTypes
<1>8. patch.timeout = Unsaid => ~patch.actionProps
  BY <1>1, <1>2 DEF timeoutOf, Unsaid, Never
<1>9. new.open => new.promised
  BY <1>4 DEF Kept
<1> QED BY <1>5, <1>6, <1>7, <1>8, <1>9 DEF new, patch, Kept

\* A new item that nothing has been said of.
LEMMA NewItemKeeps == NewItem \in Items /\ Kept(NewItem)
BY DEF NewItem, Items, Kept, Waiting, Alarmed, Unsaid, DefaultTime

\* One item more, in the place of the one that is there or behind all others.
LEMMA ItemKeeps ==
  ASSUME ToastInv, NEW item, item \in Items, Kept(item)
  PROVE  /\ Added(item) => ToastInv'
         /\ \A n \in DOMAIN toasts : toasts' = [toasts EXCEPT ![n] = item] => ToastInv'
         /\ \A n : toasts' = Without(n) => ToastInv'
BY DEF ToastInv, Added, Without

LEMMA ToastStep ==
  ASSUME ToastInv, [ToastNext]_toastVars
  PROVE  ToastInv'
<1>0. /\ NewItem \in Items /\ Kept(NewItem)
      /\ \A o \in ToastOptions : o \in Fields
  BY NewItemKeeps, ToastAssumptions
<1>1. CASE UNCHANGED toastVars
  BY <1>1 DEF toastVars, ToastInv
<1>2. ASSUME NEW o \in ToastOptions, add(o)
      PROVE  ToastInv'
  <2> DEFINE new == Merged(NewItem, o, withToastA11yDefaults(o))
  <2>1. new \in Items /\ Kept(new)
    BY <1>0, MergedKeeps
  <2>2. Added(new)
    BY <1>2 DEF add
  <2> HIDE DEF new
  <2> QED BY <2>1, <2>2, ItemKeeps
<1>3. ASSUME NEW o \in ToastOptions, promise(o)
      PROVE  ToastInv'
  <2> DEFINE z   == Merged(NewItem, o, withToastA11yDefaults(o))
             new == [z EXCEPT !.type = "loading", !.promised = TRUE, !.open = TRUE]
  <2>1. z \in Items /\ Kept(z)
    BY <1>0, MergedKeeps
  <2>2. Added(new)
    BY <1>3 DEF promise, withPromiseStateA11yDefaults
  <2> HIDE DEF z
  <2>3. /\ new \in Items /\ new.type = "loading" /\ new.priority = z.priority /\ new.timeout = z.timeout
        /\ new.actionProps = z.actionProps /\ new.ownPriority = z.ownPriority
        /\ new.reTimed = z.reTimed /\ new.promised
    BY <2>1 DEF Items
  <2> HIDE DEF new
  <2>4. Kept(new)
    BY <2>1, <2>3 DEF Kept, Waiting, Alarmed
  <2> QED BY <2>2, <2>3, <2>4, ItemKeeps
<1>4. ASSUME NEW n \in 1 .. MaxToasts, NEW o \in ToastOptions, update(n, o)
      PROVE  ToastInv'
  <2> DEFINE new == Merged(toasts[n], o, withToastA11yDefaults(o))
  <2>0. n \in DOMAIN toasts /\ toasts' = [toasts EXCEPT ![n] = new]
    BY <1>4 DEF update
  <2>1. new \in Items /\ Kept(new)
    BY <1>0, <2>0, MergedKeeps DEF ToastInv
  <2> HIDE DEF new
  <2> QED BY <2>0, <2>1, ItemKeeps
<1>5. ASSUME NEW n \in 1 .. MaxToasts, NEW o \in ToastOptions, promiseEnds(n, o)
      PROVE  ToastInv'
  <2> DEFINE patch == withToastA11yDefaults(o)
             z     == Merged(toasts[n], o, patch)
             times == {z.timeout} \cup IF patch.timeout = Unsaid THEN {DefaultTime} ELSE {}
  <2>0. n \in DOMAIN toasts /\ toasts[n].open
    BY <1>5 DEF promiseEnds
  <2>1. z \in Items /\ Kept(z) /\ (patch.timeout = Unsaid => ~patch.actionProps)
    BY <1>0, <2>0, MergedKeeps DEF ToastInv
  <2>2. PICK outcome \in {"success", "error"}, time \in times :
          toasts' = [toasts EXCEPT ![n] =
            [z EXCEPT !.type = outcome, !.timeout = time, !.open = FALSE,
                      !.reTimed = @ \/ (z.actionProps /\ ~patch.actionProps)]]
    BY <1>5 DEF promiseEnds, withPromiseStateA11yDefaults
  <2> DEFINE new == [z EXCEPT !.type = outcome, !.timeout = time, !.open = FALSE,
                              !.reTimed = @ \/ (z.actionProps /\ ~patch.actionProps)]
  <2>p. z.promised
    <3>1. toasts[n].promised
      BY <2>0 DEF ToastInv, Kept
    <3> QED BY <3>1 DEF Merged
  <2>t. time \in {DefaultTime, Never, "short"} /\ (time # z.timeout => ~patch.actionProps)
    <3>1. z.timeout \in {DefaultTime, Never, "short"}
      BY <2>1 DEF Items
    <3> QED BY <2>1, <2>2, <3>1
  <2>n. toasts' = [toasts EXCEPT ![n] = new]
    BY <2>2
  <2> HIDE DEF z, patch, times
  <2>3. /\ new.type = outcome /\ new.priority = z.priority /\ new.timeout = time
        /\ new.actionProps = z.actionProps /\ new.promised = z.promised /\ ~new.open
        /\ new.reTimed = (z.reTimed \/ (z.actionProps /\ ~patch.actionProps))
    BY <2>1 DEF Items
  <2>4. new \in Items
    <3> DEFINE told == z.reTimed \/ (z.actionProps /\ ~patch.actionProps)
    <3>1. told \in BOOLEAN
      OBVIOUS
    <3>2. new = [z EXCEPT !.type = outcome, !.timeout = time, !.open = FALSE, !.reTimed = told]
      OBVIOUS
    <3> HIDE DEF told, new
    <3> QED BY <2>1, <2>t, <3>1, <3>2 DEF Items
  <2> HIDE DEF new
  <2>5. Kept(new)
    <3>1. z.reTimed \in BOOLEAN /\ z.actionProps \in BOOLEAN
      BY <2>1 DEF Items
    <3>2. CASE time = z.timeout
      BY <2>1, <2>3, <2>p, <3>1, <3>2 DEF Kept, Waiting, Alarmed
    <3>3. CASE ~patch.actionProps
      BY <2>3, <2>p, <3>1, <3>3 DEF Kept, Waiting, Alarmed
    <3> QED BY <2>t, <3>2, <3>3
  <2> QED BY <2>0, <2>n, <2>4, <2>5, ItemKeeps
<1>6. ASSUME NEW n \in 1 .. MaxToasts, timesOut(n) \/ closeToast(n)
      PROVE  ToastInv'
  BY <1>0, <1>6, ItemKeeps DEF timesOut, closeToast
<1> QED BY <1>1, <1>2, <1>3, <1>4, <1>5, <1>6 DEF ToastNext

\* Of the items no more are added, and no more often changed, than the bounds allow.
ToastCounts ==
  added \in 0 .. MaxToasts /\ updates \in 0 .. MaxUpdates /\ DOMAIN toasts \subseteq 1 .. added

\* Items change or go, and an update is one more.
ItemsChange ==
  /\ DOMAIN toasts' \subseteq DOMAIN toasts /\ added' = added
  /\ updates' # updates => updates < MaxUpdates /\ updates' = updates + 1

LEMMA CountsStep == ToastCounts /\ [ToastNext]_toastVars => ToastCounts'
<1> SUFFICES ASSUME ToastCounts, [ToastNext]_toastVars PROVE ToastCounts'
  OBVIOUS
<1>0. MaxToasts \in Nat /\ MaxUpdates \in Nat
  BY ToastAssumptions
<1>1. ASSUME NEW item, Added(item), updates' = updates PROVE ToastCounts'
  <2>1. DOMAIN toasts' = DOMAIN toasts \cup {added'} /\ added < MaxToasts /\ added' = added + 1
    BY <1>1 DEF Added
  <2> QED BY <1>0, <1>1, <2>1 DEF ToastCounts
<1>2. ItemsChange => ToastCounts'
  BY <1>0 DEF ToastCounts, ItemsChange
<1>3. ASSUME NEW n, NEW item, toasts' = [toasts EXCEPT ![n] = item] \/ toasts' = Without(n)
      PROVE  DOMAIN toasts' \subseteq DOMAIN toasts
  BY <1>3 DEF Without
<1>4. ASSUME NEW o, add(o) \/ promise(o) PROVE ToastCounts'
  <2>1. updates' = updates /\ \E item : Added(item)
    BY <1>4 DEF add, promise
  <2> QED BY <1>1, <2>1
<1>5. ASSUME NEW n, NEW o, update(n, o) PROVE ItemsChange
  <2>1. /\ \E item : toasts' = [toasts EXCEPT ![n] = item]
        /\ added' = added /\ updates < MaxUpdates /\ updates' = updates + 1
    BY <1>5, Zenon DEF update
  <2> QED BY <1>3, <2>1 DEF ItemsChange
<1>6. ASSUME NEW n, NEW o, promiseEnds(n, o) PROVE ItemsChange
  <2>1. /\ \E item : toasts' = [toasts EXCEPT ![n] = item]
        /\ added' = added /\ updates' = updates
    BY <1>6, Zenon DEF promiseEnds
  <2> QED BY <1>3, <2>1 DEF ItemsChange
<1>7. ASSUME NEW n, timesOut(n) \/ closeToast(n) PROVE ItemsChange
  <2>1. toasts' = Without(n) /\ added' = added /\ updates' = updates
    BY <1>7 DEF timesOut, closeToast
  <2> QED BY <1>3, <2>1 DEF ItemsChange
<1>8. CASE UNCHANGED toastVars
  BY <1>2, <1>8 DEF toastVars, ItemsChange
<1> QED BY <1>2, <1>4, <1>5, <1>6, <1>7, <1>8 DEF ToastNext

LEMMA ToastIsFollowed == WebSpec => ToastInit /\ [][ToastNext]_toastVars
<1>1. WebInit => ToastInit
  BY DEF WebInit
<1>2. [WebNext]_webVars => [ToastNext]_toastVars
  BY DEF WebNext, webVars, Waits
<1> QED BY <1>1, <1>2, PTL DEF WebSpec

LEMMA ToastInvariant == ToastInit /\ [][ToastNext]_toastVars => []ToastInv
<1>1. ToastInit => ToastInv
  BY DEF ToastInit, ToastInv
<1>2. ToastInv /\ [ToastNext]_toastVars => ToastInv'
  BY ToastStep
<1> QED BY <1>1, <1>2, PTL

LEMMA ToastKeepsTypes == WebSpec => []ToastTypeOK
<1>1. ToastInit => ToastCounts
  BY ToastAssumptions DEF ToastInit, ToastCounts
<1>2. ToastInv /\ ToastCounts => ToastTypeOK
  BY DEF ToastInv, ToastCounts, ToastTypeOK
<1> QED BY <1>1, <1>2, CountsStep, ToastInvariant, ToastIsFollowed, PTL

\* The manager's wrapper keeps its word through any sequence of adds, updates and ends of
\* promises: an action is never taken away by a timer (but where an update sets one and
\* leaves the action unsaid), can be closed by its user, and warnings and errors interrupt.
THEOREM ToastsReachTheirUser == WebSpec => []ToastsAreAccessible
<1>1. ToastInv => ToastsAreAccessible
  <2> SUFFICES ASSUME ToastInv PROVE ToastsAreAccessible
    OBVIOUS
  <2>1. ActionWaits
    BY DEF ToastInv, Kept, Waiting, ActionWaits, timed
  <2>2. ActionHasWayOut
    BY DEF ActionHasWayOut, closable
  <2>3. AlarmsInterrupt
    BY DEF ToastInv, Kept, Alarmed, AlarmsInterrupt
  <2> QED BY <2>1, <2>2, <2>3 DEF ToastsAreAccessible
<1> QED BY <1>1, ToastInvariant, ToastIsFollowed, PTL

-----------------------------------------------------------------------------
(* The look of both pages *)

TabRecords == [at : {"closed", "painted", "mounted"}, memory : Modes \cup {NoMode},
               mode : Modes, dark : BOOLEAN, config : Brands,
               logo : {"none", "logoUrl", "logoUrlDark", "built-in"} \X Values,
               css : Values]

\* What the page has of its configuration is fit to be shown.
SafeBrand(shownTab) ==
  shownTab.css # "bad" /\ shownTab.config.logoUrl # "bad" /\ shownTab.config.logoUrlDark # "bad"

\* A mounted tab shows the logo of its theme, and no other shows one.
LogoOfTheme(shownTab) ==
  shownTab.logo = IF shownTab.at = "mounted" THEN logoSrc(shownTab.config, shownTab.dark)
                  ELSE Closed.logo

\* No step has left the tab behind, and it looks as it would if it rendered now.
UpToDate(shownTab, why) ==
  why = {} =>
    /\ shownTab.at = "mounted" =>
         shownTab.dark = Resolve(readStoredMode(storage.read, stored, shownTab.memory), systemDark)
    /\ shownTab.at = "painted" => shownTab.dark = themeBootstrapScript(systemDark)

LookInv ==
  /\ stored \in Modes \cup {NoMode, "unknown"}
  /\ storage \in [read : BOOLEAN, write : BOOLEAN] /\ systemDark \in BOOLEAN
  /\ tabs \in [Tabs -> TabRecords] /\ DOMAIN outdated = Tabs
  /\ \A t \in Tabs :
       /\ SafeBrand(tabs[t]) /\ LogoOfTheme(tabs[t]) /\ UpToDate(tabs[t], outdated[t])
       /\ tabs[t].at = "closed" => tabs[t] = Closed /\ outdated[t] = {}
       /\ tabs[t].at = "painted" => tabs[t].memory = NoMode

\* A tab's parts, and what rendering makes of them.
LEMMA RenderedKeeps ==
  ASSUME NEW shownTab \in TabRecords, SafeBrand(shownTab), NEW read \in BOOLEAN,
         NEW value \in Modes \cup {NoMode, "unknown"}, NEW system \in BOOLEAN
  PROVE  LET new == Rendered(shownTab, read, value, system) IN
         /\ new \in TabRecords /\ new.at = "mounted" /\ SafeBrand(new) /\ LogoOfTheme(new)
         /\ new.dark = Resolve(readStoredMode(read, value, shownTab.memory), system)
         /\ new.memory = shownTab.memory
<1> DEFINE mode == readStoredMode(read, value, shownTab.memory)
           dark == Resolve(mode, system)
           logo == logoSrc(shownTab.config, dark)
           new  == Rendered(shownTab, read, value, system)
<1>1. /\ shownTab.memory \in Modes \cup {NoMode} /\ shownTab.config \in Brands /\ shownTab.css \in Values
      /\ shownTab.config.logoUrl \in Values /\ shownTab.config.logoUrlDark \in Values
  BY DEF TabRecords, Brands
<1>2. mode \in Modes
  BY <1>1 DEF readStoredMode, Modes
<1>3. dark \in BOOLEAN
  BY <1>2 DEF Resolve, Modes
<1>4. logo \in {"none", "logoUrl", "logoUrlDark", "built-in"} \X Values
  BY <1>1 DEF logoSrc, Values
<1>5. new = [shownTab EXCEPT !.at = "mounted", !.mode = mode, !.dark = dark, !.logo = logo]
  BY DEF Rendered
<1> HIDE DEF mode, dark, logo, new
<1>6. new \in TabRecords
  BY <1>2, <1>3, <1>4, <1>5 DEF TabRecords
<1>7. /\ new.at = "mounted" /\ new.dark = dark /\ new.logo = logo /\ new.memory = shownTab.memory
      /\ new.config = shownTab.config /\ new.css = shownTab.css
  BY <1>5 DEF TabRecords
<1> QED BY <1>6, <1>7 DEF SafeBrand, LogoOfTheme, new, mode, dark, logo

\* A tab on which another memory is put, or the configuration that Mount has read.
LEMMA MemoryKeeps ==
  ASSUME NEW shownTab \in TabRecords, SafeBrand(shownTab), NEW memory \in Modes \cup {NoMode}
  PROVE  LET new == [shownTab EXCEPT !.memory = memory] IN
         new \in TabRecords /\ SafeBrand(new) /\ new.memory = memory
BY DEF TabRecords, SafeBrand

LEMMA BrandedKeeps ==
  ASSUME NEW shownTab \in TabRecords, NEW c \in Brands
  PROVE  LET new == [shownTab EXCEPT !.config = Sanitized(c), !.css = safeCssValue(c.token)] IN
         new \in TabRecords /\ SafeBrand(new) /\ new.memory = shownTab.memory
<1>1. c.logoUrl \in Values /\ c.logoUrlDark \in Values /\ c.token \in Values
  BY DEF Brands
<1> DEFINE config == Sanitized(c) css == safeCssValue(c.token)
<1>2. /\ config \in Brands /\ config.logoUrl # "bad" /\ config.logoUrlDark # "bad"
      /\ css \in Values /\ css # "bad"
  BY <1>1 DEF Sanitized, sanitizeUrl, safeCssValue, Brands, Values
<1> HIDE DEF config, css
<1>3. [shownTab EXCEPT !.config = config, !.css = css] \in TabRecords
  BY <1>2 DEF TabRecords
<1> QED BY <1>2, <1>3 DEF TabRecords, SafeBrand, config, css

LEMMA ClosedKeeps ==
  /\ Closed \in TabRecords /\ SafeBrand(Closed) /\ Closed.at = "closed" /\ Closed.memory = NoMode
  /\ LogoOfTheme(Closed)
BY DEF Closed, TabRecords, SafeBrand, LogoOfTheme, NoBrand, Brands, Values, Modes

\* What is kept by a step that gives one tab a new record, and a new reason to be out
\* of date; the others look as they did, or have been left behind.
LEMMA TabKeeps ==
  ASSUME LookInv, NEW t \in Tabs, NEW new \in TabRecords, tabs' = [tabs EXCEPT ![t] = new],
         SafeBrand(new), LogoOfTheme(new),
         new.at = "closed" => new = Closed /\ outdated'[t] = {},
         new.at = "painted" => new.memory = NoMode,
         outdated'[t] = {} =>
           /\ new.at = "mounted" =>
                new.dark = Resolve(readStoredMode(storage.read, stored', new.memory), systemDark)
           /\ new.at = "painted" => new.dark = themeBootstrapScript(systemDark)',
         stored' \in Modes \cup {NoMode, "unknown"}, UNCHANGED <<storage, systemDark>>,
         DOMAIN outdated' = Tabs,
         \/ UNCHANGED stored /\ \A u \in Tabs \ {t} : outdated'[u] = outdated[u]
         \/ \A u \in Tabs \ {t} :
              IF tabs[u].at = "closed" THEN outdated'[u] = {} ELSE outdated'[u] # {}
  PROVE  LookInv'
<1>1. /\ tabs' \in [Tabs -> TabRecords] /\ tabs'[t] = new
      /\ \A u \in Tabs \ {t} : tabs'[u] = tabs[u]
  BY DEF LookInv
<1>2. ASSUME NEW u \in Tabs
      PROVE  /\ SafeBrand(tabs'[u]) /\ LogoOfTheme(tabs'[u])
             /\ tabs'[u].at = "closed" => tabs'[u] = Closed /\ outdated'[u] = {}
             /\ tabs'[u].at = "painted" => tabs'[u].memory = NoMode
  BY <1>1 DEF LookInv
<1>3. ASSUME NEW u \in Tabs
      PROVE  UpToDate(tabs[u], outdated[u])'
  <2>1. CASE u = t
    BY <1>1, <2>1 DEF UpToDate, themeBootstrapScript
  <2>2. CASE u # t /\ UNCHANGED stored /\ outdated'[u] = outdated[u]
    BY <1>1, <2>2 DEF LookInv, UpToDate, themeBootstrapScript
  <2>3. CASE u # t /\ (outdated'[u] # {} \/ tabs[u].at = "closed")
    BY <1>1, <2>3 DEF UpToDate
  <2> QED BY <2>1, <2>2, <2>3
<1> QED BY <1>1, <1>2, <1>3 DEF LookInv, SafeBrand, LogoOfTheme

\* The tabs that a change has left behind.
LEMMA LeftBehindSaysSo ==
  ASSUME LookInv, NEW told \in SUBSET Tabs, NEW why
  PROVE  LET left == LeftBehind(told, why) IN
         /\ DOMAIN left = Tabs
         /\ \A t \in told : left[t] = {}
         /\ \A t \in Tabs \ told :
              IF tabs[t].at = "closed" THEN left[t] = {} ELSE left[t] # {}
BY DEF LeftBehind

LEMMA LookInitHolds == LookInit => LookInv
<1> SUFFICES ASSUME LookInit PROVE LookInv
  OBVIOUS
<1>1. /\ stored \in Modes \cup {NoMode, "unknown"} /\ systemDark \in BOOLEAN
      /\ storage \in [read : BOOLEAN, write : BOOLEAN]
      /\ tabs \in [Tabs -> TabRecords] /\ DOMAIN outdated = Tabs
      /\ \A t \in Tabs : tabs[t] = Closed /\ outdated[t] = {}
  BY ClosedKeeps DEF LookInit, Modes
<1> QED BY <1>1, ClosedKeeps DEF LookInv, UpToDate

\* A tab is painted as it would be rendered: the script resolves the preference as
\* useThemePreference does.
LEMMA ScriptResolves ==
  ASSUME stored \in Modes \cup {NoMode, "unknown"}, storage.read \in BOOLEAN,
         NEW system \in BOOLEAN
  PROVE  themeBootstrapScript(system) = Resolve(readStoredMode(storage.read, stored, NoMode), system)
BY DEF themeBootstrapScript, Resolve, readStoredMode, Modes, NoMode

\* A tab is opened, mounted and closed.
LEMMA OpenKeeps ==
  ASSUME LookInv, NEW t \in Tabs, OpenTab(t)
  PROVE  LookInv'
<1> DEFINE dark == themeBootstrapScript(systemDark)
           new  == [Closed EXCEPT !.at = "painted", !.dark = dark]
<1>1. tabs[t] = Closed /\ UNCHANGED <<stored, storage, systemDark, outdated>>
  BY DEF LookInv, OpenTab
<1>2. dark \in BOOLEAN /\ dark = themeBootstrapScript(systemDark)'
  BY <1>1 DEF LookInv, themeBootstrapScript
<1>3. tabs' = [tabs EXCEPT ![t] = new]
  BY <1>1 DEF OpenTab, LookInv
<1> HIDE DEF dark
<1>4. new \in TabRecords /\ new.at = "painted" /\ new.dark = dark /\ new.memory = NoMode
      /\ new.config = Closed.config /\ new.css = Closed.css /\ new.logo = Closed.logo
  BY <1>2, ClosedKeeps DEF TabRecords
<1> HIDE DEF new
<1>5. SafeBrand(new) /\ LogoOfTheme(new)
  BY <1>4, ClosedKeeps DEF SafeBrand, LogoOfTheme
<1>6. /\ stored' \in Modes \cup {NoMode, "unknown"} /\ DOMAIN outdated' = Tabs
      /\ UNCHANGED stored /\ \A u \in Tabs \ {t} : outdated'[u] = outdated[u]
  BY <1>1 DEF LookInv
<1> QED BY <1>1, <1>2, <1>3, <1>4, <1>5, <1>6, TabKeeps

LEMMA MountKeeps ==
  ASSUME LookInv, NEW t \in Tabs, Mount(t)
  PROVE  LookInv'
<1>1. /\ tabs[t] \in TabRecords /\ tabs[t].memory = NoMode /\ storage.read \in BOOLEAN
      /\ systemDark \in BOOLEAN /\ stored \in Modes \cup {NoMode, "unknown"}
      /\ outdated' = [outdated EXCEPT ![t] = {}] /\ UNCHANGED <<stored, storage, systemDark>>
  BY DEF LookInv, Mount
<1>2. PICK c \in BrandFiles \cup {NoBrand} :
        tabs' = [tabs EXCEPT ![t] =
          Rendered([tabs[t] EXCEPT !.config = Sanitized(c), !.css = safeCssValue(c.token)],
                   storage.read, stored, systemDark)]
  BY DEF Mount
<1>3. c \in Brands
  BY LookAssumptions DEF NoBrand, Brands, Values
<1> DEFINE branded == [tabs[t] EXCEPT !.config = Sanitized(c), !.css = safeCssValue(c.token)]
           new == Rendered(branded, storage.read, stored, systemDark)
<1>4. branded \in TabRecords /\ SafeBrand(branded) /\ branded.memory = tabs[t].memory
  BY <1>1, <1>3, BrandedKeeps
<1> HIDE DEF branded
<1>5. /\ new \in TabRecords /\ new.at = "mounted" /\ SafeBrand(new) /\ LogoOfTheme(new)
      /\ new.dark = Resolve(readStoredMode(storage.read, stored, branded.memory), systemDark)
      /\ new.memory = branded.memory
  BY <1>1, <1>4, RenderedKeeps
<1>6. tabs' = [tabs EXCEPT ![t] = new]
  BY <1>2 DEF branded
<1> HIDE DEF new
<1>7. /\ DOMAIN outdated' = Tabs /\ stored' \in Modes \cup {NoMode, "unknown"}
      /\ \A u \in Tabs \ {t} : outdated'[u] = outdated[u]
  BY <1>1 DEF LookInv
<1> QED BY <1>1, <1>5, <1>6, <1>7, TabKeeps

LEMMA CloseKeeps ==
  ASSUME LookInv, NEW t \in Tabs, CloseTab(t)
  PROVE  LookInv'
<1>1. /\ tabs' = [tabs EXCEPT ![t] = Closed] /\ outdated' = [outdated EXCEPT ![t] = {}]
      /\ UNCHANGED <<stored, storage, systemDark>>
  BY DEF CloseTab
<1>2. /\ DOMAIN outdated' = Tabs /\ outdated'[t] = {}
      /\ stored' \in Modes \cup {NoMode, "unknown"}
      /\ \A u \in Tabs \ {t} : outdated'[u] = outdated[u]
  BY <1>1 DEF LookInv
<1> QED BY <1>1, <1>2, ClosedKeeps, TabKeeps

\* A choice is written and the other tabs do not hear of it, or the tab remembers it.
LEMMA ChoiceKeeps ==
  ASSUME LookInv, NEW t \in Tabs, NEW mode \in Modes, setThemeMode(t, mode)
  PROVE  LookInv'
<1>1. /\ tabs[t] \in TabRecords /\ SafeBrand(tabs[t]) /\ storage.read \in BOOLEAN
      /\ systemDark \in BOOLEAN /\ stored \in Modes \cup {NoMode, "unknown"}
      /\ UNCHANGED <<storage, systemDark>>
  BY DEF LookInv, setThemeMode
<1>2. ASSUME NEW memory \in Modes \cup {NoMode}, stored' \in Modes \cup {NoMode, "unknown"},
             tabs' = [tabs EXCEPT ![t] =
               Rendered([@ EXCEPT !.memory = memory], storage.read, stored', systemDark)],
             DOMAIN outdated' = Tabs,
             \/ UNCHANGED stored /\ \A u \in Tabs \ {t} : outdated'[u] = outdated[u]
             \/ \A u \in Tabs \ {t} :
                  IF tabs[u].at = "closed" THEN outdated'[u] = {} ELSE outdated'[u] # {}
      PROVE  LookInv'
  <2> DEFINE shownTab == [tabs[t] EXCEPT !.memory = memory]
             new == Rendered(shownTab, storage.read, stored', systemDark)
  <2>1. shownTab \in TabRecords /\ SafeBrand(shownTab) /\ shownTab.memory = memory
    BY <1>1, MemoryKeeps
  <2>3. tabs' = [tabs EXCEPT ![t] = new]
    BY <1>2, Zenon
  <2> HIDE DEF shownTab
  <2>2. /\ new \in TabRecords /\ new.at = "mounted" /\ SafeBrand(new) /\ LogoOfTheme(new)
        /\ new.dark = Resolve(readStoredMode(storage.read, stored', shownTab.memory), systemDark)
        /\ new.memory = shownTab.memory
    <3>1. storage.read \in BOOLEAN /\ systemDark \in BOOLEAN
      BY <1>1
    <3> QED BY <1>2, <2>1, <3>1, RenderedKeeps
  <2> HIDE DEF new
  <2> QED BY <1>1, <1>2, <2>2, <2>3, TabKeeps
<1>3. CASE storage.write
  <2>1. /\ stored' = mode /\ outdated' = LeftBehind({t}, "elsewhere")
        /\ tabs' = [tabs EXCEPT ![t] =
             Rendered([@ EXCEPT !.memory = NoMode], storage.read, mode, systemDark)]
    BY <1>3 DEF setThemeMode
  <2>2. /\ DOMAIN outdated' = Tabs
        /\ \A u \in Tabs \ {t} :
             IF tabs[u].at = "closed" THEN outdated'[u] = {} ELSE outdated'[u] # {}
    BY <2>1 DEF LeftBehind
  <2> QED BY <1>2, <2>1, <2>2
<1>4. CASE ~storage.write
  <2>1. /\ UNCHANGED stored /\ outdated' = [outdated EXCEPT ![t] = {}]
        /\ tabs' = [tabs EXCEPT ![t] =
             Rendered([@ EXCEPT !.memory = mode], storage.read, stored, systemDark)]
    BY <1>4 DEF setThemeMode
  <2>2. DOMAIN outdated' = Tabs /\ \A u \in Tabs \ {t} : outdated'[u] = outdated[u]
    BY <2>1 DEF LookInv
  <2> QED BY <1>1, <1>2, <2>1, <2>2
<1> QED BY <1>3, <1>4

\* The tabs that hear of the system's scheme render; the others are left behind.
LEMMA SchemeKeeps ==
  ASSUME LookInv, SchemeChanges
  PROVE  LookInv'
<1> DEFINE told == IF Events THEN Mounted ELSE {}
<1>1. /\ UNCHANGED <<stored, storage>> /\ systemDark' \in BOOLEAN
      /\ tabs' = [t \in Tabs |-> IF t \in told THEN Rendered(tabs[t], storage.read, stored, systemDark')
                                 ELSE tabs[t]]
      /\ outdated' = LeftBehind(told, "unheard") /\ told \in SUBSET Tabs
      /\ storage.read \in BOOLEAN /\ stored \in Modes \cup {NoMode, "unknown"}
  BY DEF SchemeChanges, Mounted, LookInv
<1> HIDE DEF told
<1>2. /\ DOMAIN outdated' = Tabs
      /\ \A t \in told : outdated'[t] = {}
      /\ \A t \in Tabs \ told :
           IF tabs[t].at = "closed" THEN outdated'[t] = {} ELSE outdated'[t] # {}
  BY <1>1, LeftBehindSaysSo
<1>3. ASSUME NEW t \in Tabs
      PROVE  /\ tabs'[t] \in TabRecords /\ SafeBrand(tabs'[t]) /\ LogoOfTheme(tabs'[t])
             /\ UpToDate(tabs[t], outdated[t])'
             /\ tabs'[t].at = "closed" => tabs'[t] = Closed /\ outdated'[t] = {}
             /\ tabs'[t].at = "painted" => tabs'[t].memory = NoMode
  <2>1. CASE t \in told
    <3> DEFINE new == Rendered(tabs[t], storage.read, stored, systemDark')
    <3>1. tabs[t] \in TabRecords /\ SafeBrand(tabs[t])
      BY DEF LookInv
    <3>2. /\ new \in TabRecords /\ new.at = "mounted" /\ SafeBrand(new) /\ LogoOfTheme(new)
          /\ new.dark = Resolve(readStoredMode(storage.read, stored, tabs[t].memory), systemDark')
          /\ new.memory = tabs[t].memory
      BY <1>1, <3>1, RenderedKeeps
    <3>3. tabs'[t] = new
      BY <1>1, <2>1
    <3> HIDE DEF new
    <3> QED BY <1>1, <3>2, <3>3 DEF UpToDate
  <2>2. CASE t \notin told
    <3>1. tabs'[t] = tabs[t]
      BY <1>1, <2>2
    <3> QED BY <1>2, <2>2, <3>1 DEF LookInv, UpToDate
  <2> QED BY <2>1, <2>2
<1>4. tabs' \in [Tabs -> TabRecords]
  BY <1>1, <1>3
<1> QED BY <1>1, <1>2, <1>3, <1>4 DEF LookInv, SafeBrand, LogoOfTheme

\* Storage comes or goes, and every tab may be out of date.
LEMMA StorageKeeps ==
  ASSUME LookInv, StorageChanges
  PROVE  LookInv'
<1>1. /\ UNCHANGED <<stored, systemDark, tabs>> /\ storage' \in [read : BOOLEAN, write : BOOLEAN]
      /\ outdated' = LeftBehind({}, "storage")
  BY DEF StorageChanges
<1>2. /\ DOMAIN outdated' = Tabs
      /\ \A t \in Tabs : IF tabs[t].at = "closed" THEN outdated'[t] = {} ELSE outdated'[t] # {}
  <2>1. {} \in SUBSET Tabs /\ Tabs \ {} = Tabs
    OBVIOUS
  <2> QED BY <1>1, <2>1, LeftBehindSaysSo
<1> QED BY <1>1, <1>2 DEF LookInv, UpToDate, SafeBrand, LogoOfTheme

LEMMA LookStep ==
  ASSUME LookInv, [LookNext]_lookVars
  PROVE  LookInv'
<1>1. CASE UNCHANGED lookVars
  BY <1>1 DEF lookVars, LookInv, SafeBrand, LogoOfTheme, UpToDate, themeBootstrapScript
<1>2. CASE LookNext
  BY <1>2, OpenKeeps, MountKeeps, CloseKeeps, ChoiceKeeps, SchemeKeeps, StorageKeeps
     DEF LookNext, ThemeMenu
<1> QED BY <1>1, <1>2

\* Mounting paints what the script painted.
LEMMA MountPaintsTheSame ==
  ASSUME LookInv, [LookNext]_lookVars
  PROVE  NoFlashStep
<1> SUFFICES ASSUME NEW t \in Tabs, tabs[t].at = "painted", tabs'[t].at = "mounted", outdated[t] = {}
             PROVE  tabs'[t].dark = tabs[t].dark
  BY DEF NoFlashStep
<1>1. /\ tabs[t] \in TabRecords /\ tabs[t].memory = NoMode /\ storage.read \in BOOLEAN
      /\ systemDark \in BOOLEAN /\ stored \in Modes \cup {NoMode, "unknown"}
      /\ tabs[t].dark = themeBootstrapScript(systemDark) /\ DOMAIN tabs = Tabs
  BY DEF LookInv, UpToDate
<1>2. tabs[t].dark = Resolve(readStoredMode(storage.read, stored, NoMode), systemDark)
  BY <1>1, ScriptResolves
<1>3. CASE Mount(t)
  <2>1. PICK c \in BrandFiles \cup {NoBrand} :
          tabs' = [tabs EXCEPT ![t] =
            Rendered([tabs[t] EXCEPT !.config = Sanitized(c), !.css = safeCssValue(c.token)],
                     storage.read, stored, systemDark)]
    BY <1>3 DEF Mount
  <2>2. c \in Brands
    BY LookAssumptions DEF NoBrand, Brands, Values
  <2> DEFINE branded == [tabs[t] EXCEPT !.config = Sanitized(c), !.css = safeCssValue(c.token)]
  <2>3. branded \in TabRecords /\ SafeBrand(branded) /\ branded.memory = tabs[t].memory
    BY <1>1, <2>2, BrandedKeeps
  <2>4. tabs'[t] = Rendered(branded, storage.read, stored, systemDark)
    BY <1>1, <2>1
  <2> HIDE DEF branded
  <2> QED BY <1>1, <1>2, <2>3, <2>4, RenderedKeeps
<1>4. CASE ~Mount(t)
  <2>1. tabs'[t] = tabs[t]
    <3>1. ASSUME NEW u \in Tabs, OpenTab(u) \/ CloseTab(u) \/ ThemeMenu(u) \/ (u # t /\ Mount(u))
          PROVE  tabs'[t] = tabs[t]
      <4>1. CASE u = t
        <5>1. tabs[t].at # "closed" /\ tabs[t].at # "mounted"
          OBVIOUS
        <5>2. CloseTab(t)
          BY <3>1, <4>1, <5>1 DEF OpenTab, ThemeMenu, setThemeMode
        <5>3. tabs'[t] = Closed
          BY <1>1, <5>2 DEF CloseTab
        <5> QED BY <5>3, ClosedKeeps
      <4>2. CASE u # t
        BY <1>1, <3>1, <4>2 DEF OpenTab, CloseTab, ThemeMenu, setThemeMode, Mount
      <4> QED BY <4>1, <4>2
    <3>2. CASE SchemeChanges
      BY <3>2 DEF SchemeChanges, Mounted
    <3>3. CASE StorageChanges \/ UNCHANGED lookVars
      BY <3>3 DEF StorageChanges, lookVars
    <3> QED BY <1>4, <3>1, <3>2, <3>3 DEF LookNext
  <2> QED BY <2>1
<1> QED BY <1>3, <1>4

\* What a tab has been left behind by is one of three changes.
ReasonsAreKnown == \A t \in Tabs : outdated[t] \subseteq {"elsewhere", "storage", "unheard"}

LEMMA ReasonsStep ==
  ASSUME LookInv, ReasonsAreKnown, [LookNext]_lookVars
  PROVE  ReasonsAreKnown'
<1> DEFINE Reasons == {"elsewhere", "storage", "unheard"}
<1>1. ASSUME NEW told, NEW why \in Reasons, outdated' = LeftBehind(told, why) PROVE ReasonsAreKnown'
  BY <1>1 DEF ReasonsAreKnown, LeftBehind
<1>2. ASSUME NEW t \in Tabs, outdated' = [outdated EXCEPT ![t] = {}] PROVE ReasonsAreKnown'
  BY <1>2 DEF ReasonsAreKnown, LookInv
<1>3. ASSUME UNCHANGED outdated PROVE ReasonsAreKnown'
  BY <1>3 DEF ReasonsAreKnown
<1>4. ASSUME NEW t \in Tabs, OpenTab(t) \/ Mount(t) \/ CloseTab(t) PROVE ReasonsAreKnown'
  BY <1>2, <1>3, <1>4 DEF OpenTab, Mount, CloseTab
<1>5. ASSUME NEW t \in Tabs, NEW mode \in Modes, setThemeMode(t, mode) PROVE ReasonsAreKnown'
  <2>1. \/ outdated' = LeftBehind({t}, "elsewhere") \/ outdated' = [outdated EXCEPT ![t] = {}]
    BY <1>5 DEF setThemeMode
  <2> QED BY <1>1, <1>2, <2>1
<1>6. ASSUME SchemeChanges \/ StorageChanges PROVE ReasonsAreKnown'
  <2>1. \E told : \/ outdated' = LeftBehind(told, "unheard") \/ outdated' = LeftBehind(told, "storage")
    BY <1>6 DEF SchemeChanges, StorageChanges
  <2> QED BY <1>1, <2>1
<1>7. UNCHANGED lookVars => UNCHANGED outdated
  BY DEF lookVars
<1> QED BY <1>3, <1>4, <1>5, <1>6, <1>7 DEF LookNext, ThemeMenu

LEMMA LookTypes == LookInv /\ ReasonsAreKnown => LookTypeOK
<1> SUFFICES ASSUME LookInv, ReasonsAreKnown PROVE LookTypeOK
  OBVIOUS
<1>1. ASSUME NEW t \in Tabs
      PROVE  /\ tabs[t] \in TabRecords /\ (tabs[t].logo[1] = "none" <=> tabs[t].at # "mounted")
  <2>1. tabs[t] \in TabRecords /\ LogoOfTheme(tabs[t])
    BY DEF LookInv
  <2>2. tabs[t].at = "mounted" => tabs[t].logo[1] \in {"logoUrl", "logoUrlDark", "built-in"}
    BY <2>1 DEF LogoOfTheme, logoSrc
  <2>3. tabs[t].at # "mounted" => tabs[t].logo[1] = "none"
    BY <2>1 DEF LogoOfTheme, Closed
  <2> QED BY <2>1, <2>2, <2>3
<1> QED BY <1>1 DEF LookInv, ReasonsAreKnown, LookTypeOK, TabRecords

LEMMA LookIsFollowed == WebSpec => LookInit /\ [][LookNext]_lookVars
<1>1. WebInit => LookInit
  BY DEF WebInit
<1>2. [WebNext]_webVars => [LookNext]_lookVars
  BY DEF WebNext, webVars, Waits
<1> QED BY <1>1, <1>2, PTL DEF WebSpec

LEMMA LookKeepsTypes == WebSpec => []LookTypeOK
<1>1. LookInit => LookInv /\ ReasonsAreKnown
  <2>1. LookInit => ReasonsAreKnown
    BY DEF LookInit, ReasonsAreKnown
  <2> QED BY <2>1, LookInitHolds
<1>2. LookInv /\ ReasonsAreKnown /\ [LookNext]_lookVars => LookInv' /\ ReasonsAreKnown'
  BY LookStep, ReasonsStep
<1> QED BY <1>1, <1>2, LookTypes, LookIsFollowed, PTL

\* In every tab, at first and ever after, what is painted is what the preference, the system
\* and a safe configuration say, and mounting repaints nothing.
THEOREM LookFollowsThePreference == WebSpec => LookIsAsChosen
<1>1. LookInit => LookInv
  BY LookInitHolds
<1>2. LookInv /\ [LookNext]_lookVars => LookInv' /\ NoFlashStep
  BY LookStep, MountPaintsTheSame
<1>3. LookInv => ThemeIsCurrent /\ BrandIsSafe
  <2> SUFFICES ASSUME LookInv PROVE ThemeIsCurrent /\ BrandIsSafe
    OBVIOUS
  <2>1. ThemeIsCurrent
    BY DEF LookInv, UpToDate, ThemeIsCurrent, Mounted
  <2>2. BrandIsSafe
    <3> SUFFICES ASSUME NEW t \in Tabs, tabs[t].at = "mounted"
                 PROVE  /\ tabs[t].logo[2] = "good" /\ tabs[t].css # "bad"
                        /\ tabs[t].logo[1] = "logoUrlDark" => tabs[t].dark
                        /\ tabs[t].dark /\ tabs[t].config.logoUrlDark = "good"
                             => tabs[t].logo[1] = "logoUrlDark"
      BY DEF BrandIsSafe, Mounted
    <3>1. /\ tabs[t].config \in Brands /\ tabs[t].config.logoUrl # "bad"
          /\ tabs[t].config.logoUrlDark # "bad" /\ tabs[t].css # "bad"
          /\ tabs[t].logo = logoSrc(tabs[t].config, tabs[t].dark) /\ tabs[t].dark \in BOOLEAN
      BY DEF LookInv, TabRecords, SafeBrand, LogoOfTheme
    <3>2. tabs[t].config.logoUrl \in Values /\ tabs[t].config.logoUrlDark \in Values
      BY <3>1 DEF Brands
    <3> DEFINE c == tabs[t].config
    <3>3. CASE tabs[t].dark /\ c.logoUrlDark # "absent"
      <4>1. tabs[t].logo = <<"logoUrlDark", "good">>
        BY <3>1, <3>2, <3>3 DEF logoSrc, Values
      <4>2. tabs[t].logo[1] = "logoUrlDark" /\ tabs[t].logo[2] = "good"
        BY <4>1
      <4>3. tabs[t].dark /\ tabs[t].css # "bad"
        BY <3>1, <3>3
      <4> QED BY <4>2, <4>3
    <3>4. CASE ~(tabs[t].dark /\ c.logoUrlDark # "absent") /\ c.logoUrl # "absent"
      <4>1. tabs[t].logo = <<"logoUrl", "good">>
        BY <3>1, <3>2, <3>4 DEF logoSrc, Values
      <4> QED BY <3>1, <3>4, <4>1
    <3>5. CASE ~(tabs[t].dark /\ c.logoUrlDark # "absent") /\ c.logoUrl = "absent"
      <4>1. tabs[t].logo = <<"built-in", "good">>
        BY <3>1, <3>2, <3>5 DEF logoSrc, Values
      <4> QED BY <3>1, <3>5, <4>1
    <3> QED BY <3>3, <3>4, <3>5
  <2> QED BY <2>1, <2>2
<1> QED BY <1>1, <1>2, <1>3, LookIsFollowed, PTL DEF LookIsAsChosen, NoFlash

-----------------------------------------------------------------------------
(* The console's frame *)

Vias == {None, "link", "row", "related", "back"}

Links == [url : Address, meant : [filters : Filters, range : Picked \cup {None}]]

ShellTabs == [at : {"shut", "loading", "failed", "open"}, entries : Seq(Address), range : Picked,
              known : SUBSET Receipts, palette : BOOLEAN, from : Links, via : Vias]

\* A link says what it was made to show.
Faithful(l) ==
  /\ l.url.filters = l.meant.filters
  /\ l.meant.range # None => l.url.range = l.meant.range /\ l.url.receipt = None

\* The address has no range but while the console is loading.
Settled(es) == es # <<>> /\ \A i \in 1 .. Len(es) : es[i].range = None

\* An open tab's history is settled, and it shows what its address is for.
Shows(t) ==
  /\ Settled(t.entries)
  /\ t.from.meant.range \in Ranges =>
       /\ t.range = t.from.meant.range
       /\ Last(t.entries).filters = t.from.meant.filters /\ Last(t.entries).receipt = None
  /\ Last(t.entries).receipt # None /\ t.via = "row" => Last(t.entries).receipt \in t.known

ShellInv ==
  /\ tab \in ShellTabs /\ link \in Links /\ Faithful(link)
  /\ savedRange \in [Browsers -> Picked \cup {None}]
  /\ tab.at = "loading" =>
       tab.entries = <<tab.from.url>> /\ Faithful(tab.from) /\ tab.via = "link"
  /\ IsOpen => Shows(tab)

LEMMA NoLinkType ==
  NoLink \in Links /\ NoLink.meant.range = None /\ None \notin Ranges /\ Faithful(NoLink)
BY ShellAssumptions DEF NoLink, Link, AddressOf, Links, Address, Faithful, Pages

\* What the steps make of a tab.
Moved(t, es, range, via) ==
  /\ t \in ShellTabs /\ t.at = "open" /\ t.entries = es /\ t.range = range
  /\ t.known = tab.known /\ t.from = NoLink /\ t.via = via

\* The user moves on: the tab shows what it says, and no longer what a link did.
LEMMA MovedKeeps ==
  ASSUME ShellInv, IsOpen, NEW es, Settled(es), NEW range, NEW via, Moved(tab', es, range, via),
         Last(es).receipt # None /\ via = "row" => Last(es).receipt \in tab.known,
         savedRange' = IF tab'.range = tab.range THEN savedRange
                       ELSE [savedRange EXCEPT ![browser] = tab'.range],
         UNCHANGED link
  PROVE  ShellInv'
<1>1. tab' \in ShellTabs /\ tab'.range \in Picked
  BY DEF Moved, ShellTabs
<1>2. savedRange' \in [Browsers -> Picked \cup {None}]
  BY <1>1 DEF ShellInv
<1>3. Shows(tab')
  BY NoLinkType DEF Shows, Moved
<1> QED BY <1>1, <1>2, <1>3 DEF ShellInv, IsOpen, Shows, Settled, Last, Faithful, Moved

\* Where the address has no range there is nothing to settle.
LEMMA NothingToSettle ==
  ASSUME NEW t, t.entries[Len(t.entries)].range = None
  PROVE  settle(t) = t
BY DEF settle

\* A new entry, and another one in the last one's place.
LEMMA EntryAdded ==
  ASSUME NEW es \in Seq(Address), Settled(es), NEW u \in Address, u.range = None
  PROVE  LET new == Append(es, u) IN
         new \in Seq(Address) /\ Settled(new) /\ Last(new) = u /\ Len(new) = Len(es) + 1
BY DEF Settled, Last

LEMMA EntryReplaced ==
  ASSUME NEW es \in Seq(Address), Settled(es), NEW u \in Address, u.range = None
  PROVE  LET new == [es EXCEPT ![Len(es)] = u] IN
         new \in Seq(Address) /\ Settled(new) /\ Last(new) = u /\ Len(new) = Len(es)
BY DEF Settled, Last

\* What an open tab's last address is.
LEMMA LastEntry ==
  ASSUME ShellInv, IsOpen
  PROVE  /\ tab \in ShellTabs /\ tab.at = "open" /\ tab.entries \in Seq(Address) /\ Settled(tab.entries)
         /\ Len(tab.entries) \in Nat /\ Len(tab.entries) >= 1
         /\ url = Last(tab.entries) /\ url \in Address /\ url.range = None
         /\ url.receipt # None /\ tab.via = "row" => url.receipt \in tab.known
<1>1. tab \in ShellTabs /\ tab.at = "open" /\ tab.entries \in Seq(Address) /\ Shows(tab)
  BY DEF ShellInv, ShellTabs, IsOpen
<1> QED BY <1>1 DEF Shows, Settled, Last, url

LEMMA Pushes ==
  ASSUME ShellInv, IsOpen, NEW u \in Address, u.range = None
  PROVE  Moved(MovedOn(Pushed(tab, u)), Append(tab.entries, u), tab.range, tab.via)
<1> DEFINE es == Append(tab.entries, u)
           t  == [tab EXCEPT !.entries = es, !.palette = FALSE]
<1>1. tab \in ShellTabs /\ tab.at = "open" /\ tab.entries \in Seq(Address) /\ Settled(tab.entries)
  BY LastEntry
<1>2. es \in Seq(Address) /\ es[Len(es)].range = None
  BY <1>1, EntryAdded DEF Last
<1>3. Pushed(tab, u) = settle(t)
  BY DEF Pushed
<1> HIDE DEF es
<1>4. /\ t \in ShellTabs /\ t.at = "open" /\ t.entries = es /\ t.range = tab.range
      /\ t.known = tab.known /\ t.via = tab.via
  BY <1>1, <1>2 DEF ShellTabs
<1> HIDE DEF t
<1>5. t.entries[Len(t.entries)].range = None
  BY <1>2, <1>4
<1>6. settle(t) = t
  BY <1>5, NothingToSettle
<1>7. MovedOn(Pushed(tab, u)) = [t EXCEPT !.from = NoLink]
  BY <1>3, <1>6 DEF MovedOn
<1> QED BY <1>4, <1>7, NoLinkType DEF Moved, ShellTabs, es

LEMMA Replaces ==
  ASSUME ShellInv, IsOpen, NEW u \in Address, u.range = None
  PROVE  Moved(MovedOn(Replaced(tab, u)), [tab.entries EXCEPT ![Len(tab.entries)] = u], tab.range, tab.via)
<1> DEFINE es == [tab.entries EXCEPT ![Len(tab.entries)] = u]
           t  == [tab EXCEPT !.entries = es]
<1>1. tab \in ShellTabs /\ tab.at = "open" /\ tab.entries \in Seq(Address) /\ Settled(tab.entries)
  BY LastEntry
<1>2. es \in Seq(Address) /\ es[Len(es)].range = None
  BY <1>1, EntryReplaced DEF Last
<1>3. Replaced(tab, u) = settle(t)
  BY DEF Replaced
<1> HIDE DEF es
<1>4. /\ t \in ShellTabs /\ t.at = "open" /\ t.entries = es /\ t.range = tab.range
      /\ t.known = tab.known /\ t.via = tab.via
  BY <1>1, <1>2 DEF ShellTabs
<1> HIDE DEF t
<1>5. t.entries[Len(t.entries)].range = None
  BY <1>2, <1>4
<1>6. settle(t) = t
  BY <1>5, NothingToSettle
<1>7. MovedOn(Replaced(tab, u)) = [t EXCEPT !.from = NoLink]
  BY <1>3, <1>6 DEF MovedOn
<1> QED BY <1>4, <1>7, NoLinkType DEF Moved, ShellTabs, es

\* Changing or clearing the filters leaves the receipt that is open.
KeepsReceipt ==
  (tab.at = "open" /\ tab'.at = "open" /\ Len(tab'.entries) = Len(tab.entries))
    => url'.receipt = url.receipt

\* A link is opened in a new tab.
LEMMA VisitKeeps ==
  ASSUME ShellInv, NEW b \in Browsers, Visit(b)
  PROVE  ShellInv' /\ KeepsReceipt
<1> DEFINE es    == <<link.url>>
           range == IF savedRange[b] = None THEN DefaultRange ELSE savedRange[b]
<1>1. tab' = [Shut EXCEPT !.at = "loading", !.entries = es, !.range = range, !.from = link, !.via = "link"]
  BY DEF Visit
<1>2. /\ link \in Links /\ Faithful(link) /\ es \in Seq(Address) /\ range \in Picked
      /\ UNCHANGED <<savedRange, link>>
  BY ShellAssumptions DEF ShellInv, Links, Visit, Picked
<1>3. Shut \in ShellTabs
  BY ShellAssumptions, NoLinkType DEF Shut, ShellTabs, Vias, Picked
<1> HIDE DEF es, range
<1>4. /\ tab' \in ShellTabs /\ tab'.at = "loading" /\ tab'.entries = es /\ tab'.from = link
      /\ tab'.via = "link"
  BY <1>1, <1>2, <1>3 DEF ShellTabs, Vias
<1>5. ShellInv'
  BY <1>2, <1>4 DEF ShellInv, IsOpen, Faithful, es
<1> QED BY <1>4, <1>5 DEF KeepsReceipt

\* The tab opens: what its link says of the range is taken over, and taken out of the
\* address.
LEMMA HydrateKeeps ==
  ASSUME ShellInv, hydrate
  PROVE  ShellInv' /\ KeepsReceipt
<1>1. /\ tab \in ShellTabs /\ tab.at = "loading" /\ tab.entries = <<tab.from.url>>
      /\ Faithful(tab.from) /\ tab.via = "link" /\ UNCHANGED link
      /\ tab.from \in Links /\ tab.from.url \in Address /\ tab.range \in Picked
      /\ tab.from.meant.range \in Picked \cup {None}
  BY DEF ShellInv, hydrate, ShellTabs, Links
<1>k. KeepsReceipt
  BY <1>1 DEF KeepsReceipt
<1>2. CASE tab' = [tab EXCEPT !.at = "failed"] /\ UNCHANGED savedRange
  <2>1. tab' \in ShellTabs /\ tab'.at = "failed"
    BY <1>1, <1>2 DEF ShellTabs
  <2> QED BY <1>1, <1>2, <1>k, <2>1 DEF ShellInv, IsOpen, Faithful
<1> DEFINE z == [tab EXCEPT !.at = "open", !.known = Seed]
<1>3. CASE Becomes(settle(z))
  <2>1. /\ z \in ShellTabs /\ z.at = "open" /\ z.entries = <<tab.from.url>> /\ z.from = tab.from
        /\ z.via = "link" /\ z.range = tab.range
    BY <1>1, ShellAssumptions DEF ShellTabs
  <2>2. /\ tab' = settle(z)
        /\ savedRange' = IF tab'.range = tab.range THEN savedRange
                         ELSE [savedRange EXCEPT ![browser] = tab'.range]
    BY <1>3 DEF Becomes
  <2> HIDE DEF z
  <2> DEFINE here == tab.from.url
  <2>3. z.entries[Len(z.entries)] = here
    BY <2>1
  <2>4. /\ tab' \in ShellTabs /\ tab'.at = "open" /\ tab'.from = tab.from /\ tab'.via = "link"
        /\ Len(tab'.entries) = 1 /\ tab'.entries[1].range = None
        /\ tab'.entries[1].filters = here.filters /\ tab'.entries[1].receipt = here.receipt
        /\ tab'.range = IF here.range # None /\ here.range \in Ranges THEN here.range ELSE tab.range
    <3>1. CASE here.range = None
      <4>1. tab' = z
        BY <2>2, <2>3, <3>1 DEF settle
      <4> QED BY <2>1, <3>1, <4>1
    <3>2. CASE here.range # None
      <4> DEFINE range == IF here.range \in Ranges THEN here.range ELSE z.range
                 bare  == [here EXCEPT !.range = None]
                 es    == <<bare>>
      <4>1. [z.entries EXCEPT ![Len(z.entries)].range = None] = es
        BY <2>1
      <4>2. tab' = [z EXCEPT !.range = range, !.entries = es]
        BY <2>2, <2>3, <3>2, <4>1 DEF settle
      <4>3. /\ bare \in Address /\ bare.range = None /\ bare.filters = here.filters
            /\ bare.receipt = here.receipt
        BY <1>1 DEF Address
      <4>4. /\ range \in Picked
            /\ range = IF here.range # None /\ here.range \in Ranges THEN here.range ELSE tab.range
        BY <1>1, <2>1, <3>2 DEF Picked
      <4> HIDE DEF range, bare
      <4>5. es \in Seq(Address) /\ Len(es) = 1 /\ es[1] = bare
        BY <4>3
      <4> HIDE DEF es
      <4>6. tab' \in ShellTabs /\ tab'.entries = es /\ tab'.range = range /\ tab'.at = "open"
            /\ tab'.from = tab.from /\ tab'.via = "link"
        BY <2>1, <4>2, <4>4, <4>5 DEF ShellTabs
      <4> QED BY <4>3, <4>4, <4>5, <4>6
    <3> QED BY <3>1, <3>2
  <2>5. Shows(tab')
    BY <1>1, <2>4, NoLinkType DEF Shows, Settled, Last, Faithful
  <2>6. savedRange' \in [Browsers -> Picked \cup {None}]
    BY <2>2, <2>4 DEF ShellInv, ShellTabs
  <2> QED BY <1>1, <1>k, <2>4, <2>5, <2>6 DEF ShellInv, IsOpen, Shows, Settled, Last, Faithful
<1> QED BY <1>2, <1>3 DEF hydrate

\* Links, and addresses that are left and come back to.
LEMMA NavigateKeeps ==
  ASSUME ShellInv, IsOpen, NEW u \in Address, u.range = None, NEW via \in Vias, NEW t,
         \/ t = MovedOn(Pushed(tab, u)) /\ via = tab.via
         \/ t = [MovedOn(Pushed(tab, u)) EXCEPT !.via = via],
         Becomes(t), UNCHANGED link, u.receipt # None /\ via = "row" => u.receipt \in tab.known
  PROVE  ShellInv' /\ KeepsReceipt /\ Len(tab'.entries) = Len(tab.entries) + 1
<1> DEFINE es == Append(tab.entries, u)
           m  == MovedOn(Pushed(tab, u))
<1>1. Moved(m, es, tab.range, tab.via)
  BY Pushes
<1> HIDE DEF m
<1>2. Moved(t, es, tab.range, via)
  BY <1>1 DEF Moved, ShellTabs, m
<1>3. Settled(es) /\ Last(es) = u /\ Len(es) = Len(tab.entries) + 1 /\ Len(tab.entries) \in Nat
  BY LastEntry, EntryAdded
<1>4. /\ tab' = t
      /\ savedRange' = IF tab'.range = tab.range THEN savedRange
                       ELSE [savedRange EXCEPT ![browser] = tab'.range]
  BY DEF Becomes
<1> HIDE DEF es
<1>5. ShellInv'
  BY <1>2, <1>3, <1>4, MovedKeeps
<1> QED BY <1>2, <1>3, <1>4, <1>5 DEF Moved, KeepsReceipt

\* Another choice of filters, in place.
LEMMA ReplaceKeeps ==
  ASSUME ShellInv, IsOpen, NEW u \in Address, u.range = None, u.receipt = url.receipt,
         Becomes(MovedOn(Replaced(tab, u))), UNCHANGED link
  PROVE  ShellInv' /\ KeepsReceipt
<1> DEFINE es == [tab.entries EXCEPT ![Len(tab.entries)] = u]
           t  == MovedOn(Replaced(tab, u))
<1>1. Moved(t, es, tab.range, tab.via)
  BY Replaces
<1>2. Settled(es) /\ Last(es) = u
  BY LastEntry, EntryReplaced
<1>3. /\ tab' = t
      /\ savedRange' = IF tab'.range = tab.range THEN savedRange
                       ELSE [savedRange EXCEPT ![browser] = tab'.range]
  BY DEF Becomes
<1>4. u.receipt # None /\ tab.via = "row" => u.receipt \in tab.known
  BY LastEntry
<1> HIDE DEF es, t
<1>5. ShellInv'
  BY <1>1, <1>2, <1>3, <1>4, MovedKeeps
<1>6. url'.receipt = u.receipt
  BY <1>1, <1>2, <1>3 DEF Moved, url, Last
<1> QED BY <1>5, <1>6 DEF KeepsReceipt

\* The entry before is shown again; it has no range to bring back.
LEMMA BackKeeps ==
  ASSUME ShellInv, Back
  PROVE  /\ ShellInv' /\ KeepsReceipt
         /\ Len(tab'.entries) = Len(tab.entries) - 1 /\ tab'.range = tab.range
<1> DEFINE es == SubSeq(tab.entries, 1, Len(tab.entries) - 1)
           t  == [tab EXCEPT !.entries = es, !.via = "back", !.palette = FALSE]
<1>0. IsOpen /\ Len(tab.entries) > 1 /\ Becomes(MovedOn(settle(t))) /\ UNCHANGED link
  BY DEF Back
<1>1. /\ tab \in ShellTabs /\ tab.at = "open" /\ tab.entries \in Seq(Address)
      /\ Settled(tab.entries) /\ Len(tab.entries) \in Nat
  BY <1>0, LastEntry
<1>2. es \in Seq(Address) /\ Settled(es) /\ Len(es) = Len(tab.entries) - 1
  BY <1>0, <1>1 DEF Settled
<1> HIDE DEF es
<1>3. es[Len(es)].range = None
  BY <1>0, <1>1, <1>2 DEF Settled
<1>4. /\ t \in ShellTabs /\ t.at = "open" /\ t.entries = es /\ t.range = tab.range
      /\ t.known = tab.known /\ t.via = "back"
  BY <1>1, <1>2 DEF ShellTabs, Vias
<1> HIDE DEF t
<1>5. t.entries[Len(t.entries)].range = None
  BY <1>3, <1>4
<1>6. settle(t) = t
  BY <1>5, NothingToSettle
<1>7. /\ tab' = [t EXCEPT !.from = NoLink]
      /\ savedRange' = IF tab'.range = tab.range THEN savedRange
                       ELSE [savedRange EXCEPT ![browser] = tab'.range]
  BY <1>0, <1>6 DEF Becomes, MovedOn
<1>8. Moved(tab', es, tab.range, "back")
  BY <1>4, <1>7, NoLinkType DEF Moved, ShellTabs
<1>9. ShellInv'
  BY <1>0, <1>2, <1>7, <1>8, MovedKeeps
<1> QED BY <1>1, <1>2, <1>8, <1>9 DEF Moved, KeepsReceipt

\* The range picker.
LEMMA RangeKeeps ==
  ASSUME ShellInv, NEW r \in Ranges, setRange(r)
  PROVE  ShellInv' /\ KeepsReceipt
<1> DEFINE t == [tab EXCEPT !.range = r]
<1>0. IsOpen /\ Becomes(MovedOn(t)) /\ UNCHANGED link
  BY DEF setRange
<1>1. /\ tab \in ShellTabs /\ tab.at = "open" /\ Settled(tab.entries) /\ url = Last(tab.entries)
      /\ url.receipt # None /\ tab.via = "row" => url.receipt \in tab.known
  BY <1>0, LastEntry
<1>2. /\ tab' = [t EXCEPT !.from = NoLink]
      /\ savedRange' = IF tab'.range = tab.range THEN savedRange
                       ELSE [savedRange EXCEPT ![browser] = tab'.range]
  BY <1>0 DEF Becomes, MovedOn
<1>3. /\ t \in ShellTabs /\ t.at = "open" /\ t.entries = tab.entries /\ t.range = r
      /\ t.known = tab.known /\ t.via = tab.via
  BY <1>1 DEF ShellTabs, Picked
<1> HIDE DEF t
<1>4. Moved(tab', tab.entries, r, tab.via)
  BY <1>2, <1>3, NoLinkType DEF Moved, ShellTabs
<1>5. ShellInv'
  BY <1>0, <1>1, <1>2, <1>4, MovedKeeps
<1> QED BY <1>4, <1>5 DEF Moved, KeepsReceipt, url

\* A link is copied, or mistyped.
LEMMA LinkKeeps ==
  ASSUME ShellInv, shareView \/ copyLink \/ MistypeRange
  PROVE  ShellInv' /\ KeepsReceipt
<1>1. UNCHANGED <<savedRange, tab>>
  BY DEF shareView, copyLink, MistypeRange
<1>2. link' \in Links /\ Faithful(link')
  <2>1. CASE shareView
    <3> DEFINE u == [url EXCEPT !.receipt = None, !.range = tab.range]
    <3>0. url \in Address /\ tab.range \in Picked
      BY <2>1, LastEntry DEF shareView, ShellTabs
    <3>1. u \in Address /\ u.range = tab.range /\ u.receipt = None
      BY <3>0 DEF Address, Picked
    <3>2. link' = Link(u, tab.range)
      BY <2>1 DEF shareView
    <3> HIDE DEF u
    <3> QED BY <3>0, <3>1, <3>2 DEF Link, Links, Faithful, Address
  <2>2. CASE copyLink
    <3>1. url \in Address /\ link' = Link(url, None)
      BY <2>2, LastEntry DEF copyLink
    <3> QED BY <3>1 DEF Link, Links, Faithful, Address
  <2>3. CASE MistypeRange
    <3> DEFINE u == [link.url EXCEPT !.range = Junk]
    <3>1. u \in Address
      BY DEF ShellInv, Links, Address
    <3>2. link' = Link(u, None)
      BY <2>3 DEF MistypeRange
    <3> HIDE DEF u
    <3> QED BY <3>1, <3>2 DEF Link, Links, Faithful, Address
  <2> QED BY <2>1, <2>2, <2>3
<1> QED BY <1>1, <1>2 DEF ShellInv, IsOpen, Shows, Settled, Last, Faithful, KeepsReceipt, url

\* The palette, and receipts that come.
LEMMA TabStays ==
  ASSUME ShellInv, \/ togglePalette \/ \E r \in Receipts : remember(r)
  PROVE  ShellInv' /\ KeepsReceipt
<1>1. IsOpen /\ UNCHANGED <<savedRange, link>>
  BY DEF togglePalette, remember
<1>2. tab \in ShellTabs /\ tab.at = "open" /\ Shows(tab)
  BY <1>1 DEF ShellInv, IsOpen
<1>3. /\ tab' \in ShellTabs /\ tab'.at = "open" /\ tab.known \subseteq tab'.known
      /\ tab'.entries = tab.entries /\ tab'.range = tab.range /\ tab'.from = tab.from
      /\ tab'.via = tab.via
  <2>1. CASE togglePalette
    BY <1>2, <2>1 DEF togglePalette, ShellTabs
  <2>2. ASSUME NEW r \in Receipts, remember(r)
        PROVE  <1>3!:
    BY <1>2, <2>2 DEF remember, ShellTabs
  <2> QED BY <2>1, <2>2
<1>4. Shows(tab')
  BY <1>2, <1>3 DEF Shows
<1> QED BY <1>1, <1>3, <1>4 DEF ShellInv, IsOpen, Shows, Settled, Last, Faithful, KeepsReceipt, url

LEMMA ShellStep ==
  ASSUME ShellInv, [ShellNext]_shellVars
  PROVE  /\ ShellInv' /\ KeepsReceipt
         /\ Back => Len(tab'.entries) = Len(tab.entries) - 1 /\ tab'.range = tab.range
<1>0. Back => Len(tab'.entries) = Len(tab.entries) - 1 /\ tab'.range = tab.range
  BY BackKeeps
<1>1. CASE UNCHANGED shellVars
  BY <1>0, <1>1 DEF shellVars, ShellInv, IsOpen, Shows, Settled, Last, Faithful, KeepsReceipt, url
<1>a. \A page \in Pages, f \in Filters :
        /\ AddressOf(page, f) \in Address /\ AddressOf(page, f).range = None
        /\ AddressOf(page, f).receipt = None
  BY DEF AddressOf, Address
<1>2. ASSUME NEW page \in Pages, NEW f \in Filters, navigate(page, f)
      PROVE  ShellInv' /\ KeepsReceipt
  <2>1. IsOpen /\ Becomes(MovedOn(Pushed(tab, AddressOf(page, f)))) /\ UNCHANGED link /\ tab.via \in Vias
    BY <1>2, LastEntry DEF navigate, ShellTabs
  <2> QED BY <1>a, <2>1, NavigateKeeps
<1>u. IsOpen => url \in Address /\ url.range = None /\ tab.via \in Vias
  BY LastEntry DEF ShellTabs
<1>3. ASSUME NEW f \in Filters, setFilter(f)
      PROVE  ShellInv' /\ KeepsReceipt
  <2> DEFINE u == [url EXCEPT !.filters = f]
  <2>1. IsOpen /\ Becomes(MovedOn(Replaced(tab, u))) /\ UNCHANGED link
    BY <1>3 DEF setFilter
  <2>2. u \in Address /\ u.range = None /\ u.receipt = url.receipt
    BY <1>u, <2>1 DEF Address
  <2> HIDE DEF u
  <2> QED BY <2>1, <2>2, ReplaceKeeps
<1>4. ASSUME clearAll
      PROVE  ShellInv' /\ KeepsReceipt
  <2> DEFINE u == [AddressOf("traffic", None) EXCEPT !.receipt = url.receipt]
  <2>1. IsOpen /\ Becomes(MovedOn(Replaced(tab, u))) /\ UNCHANGED link
    BY <1>4 DEF clearAll
  <2>2. u \in Address /\ u.range = None /\ u.receipt = url.receipt
    BY <1>u, <2>1, ShellAssumptions DEF AddressOf, Address, Pages
  <2> HIDE DEF u
  <2> QED BY <2>1, <2>2, ReplaceKeeps
<1>5. ASSUME NEW r \in Receipts, NEW via \in Vias, IsOpen, Becomes(Opened(r, via)), UNCHANGED link,
             via = "row" => r \in tab.known
      PROVE  ShellInv' /\ KeepsReceipt
  <2> DEFINE u == [url EXCEPT !.receipt = r]
             t == Opened(r, via)
  <2>1. t = [MovedOn(Pushed(tab, u)) EXCEPT !.via = via]
    BY DEF Opened
  <2>2. u \in Address /\ u.range = None /\ u.receipt = r
    BY <1>u, <1>5 DEF Address
  <2> HIDE DEF u, t
  <2>3. Becomes(t)
    BY <1>5 DEF t
  <2> QED BY <1>5, <2>1, <2>2, <2>3, NavigateKeeps
<1>6. ASSUME NEW r \in Receipts, openReceipt(r) \/ runResult(r) \/ openRelated(r)
      PROVE  ShellInv' /\ KeepsReceipt
  BY <1>5, <1>6 DEF openReceipt, runResult, openRelated, Vias
<1>7. ASSUME openInTraffic
      PROVE  ShellInv' /\ KeepsReceipt
  <2> DEFINE u == [AddressOf("traffic", None) EXCEPT !.receipt = url.receipt]
             t == MovedOn(Pushed(tab, u))
  <2>1. IsOpen /\ Becomes(t) /\ UNCHANGED link /\ url.receipt \in tab.known
    BY <1>7 DEF openInTraffic
  <2>2. u \in Address /\ u.range = None /\ u.receipt = url.receipt
    BY <1>u, <2>1, ShellAssumptions DEF AddressOf, Address, Pages
  <2> HIDE DEF u
  <2> QED BY <1>u, <2>1, <2>2, NavigateKeeps
<1>8. ASSUME closeReceipt
      PROVE  ShellInv' /\ KeepsReceipt
  <2> DEFINE u == [url EXCEPT !.receipt = None]
             t == MovedOn(Pushed(tab, u))
  <2>1. IsOpen /\ Becomes(t) /\ UNCHANGED link
    BY <1>8 DEF closeReceipt
  <2>2. u \in Address /\ u.range = None /\ u.receipt = None
    BY <1>u, <2>1 DEF Address
  <2> HIDE DEF u
  <2> QED BY <1>u, <2>1, <2>2, NavigateKeeps
<1>9. CASE ShellNext
  BY <1>0, <1>2, <1>3, <1>4, <1>6, <1>7, <1>8, <1>9, VisitKeeps, HydrateKeeps, BackKeeps, RangeKeeps,
     LinkKeeps, TabStays DEF ShellNext
<1> QED BY <1>0, <1>1, <1>9

LEMMA ShellInvariant == ShellInit /\ [][ShellNext]_shellVars => []ShellInv
<1>1. ShellInit => ShellInv
  <2> SUFFICES ASSUME ShellInit PROVE ShellInv
    OBVIOUS
  <2>1. Shut \in ShellTabs /\ Shut.at = "shut"
    BY ShellAssumptions, NoLinkType DEF Shut, ShellTabs, Vias, Picked
  <2> QED BY <2>1, NoLinkType DEF ShellInit, ShellInv, IsOpen, Picked
<1>2. ShellInv /\ [ShellNext]_shellVars => ShellInv'
  BY ShellStep
<1> QED BY <1>1, <1>2, PTL

LEMMA ShellIsFollowed == WebSpec => ShellInit /\ [][ShellNext]_shellVars
<1>1. WebInit => ShellInit
  BY DEF WebInit
<1>2. [WebNext]_webVars => [ShellNext]_shellVars
  BY DEF WebNext, webVars, Waits
<1> QED BY <1>1, <1>2, PTL DEF WebSpec

\* A tab that is shut has no history, and the palette is one of an open tab.
ShellShape ==
  /\ browser \in Browsers /\ (tab.at = "shut" <=> tab.entries = <<>>)
  /\ tab.palette => tab.at = "open"

\* What the user does leaves the tab open.
LEMMA StaysOpen ==
  ASSUME ShellInv, [ShellNext]_shellVars
  PROVE  \/ UNCHANGED <<browser, tab>>
         \/ IsOpen' /\ UNCHANGED browser
         \/ \E b \in Browsers : Visit(b)
         \/ tab.at = "loading" /\ tab' = [tab EXCEPT !.at = "failed"] /\ UNCHANGED browser
<1>1. tab \in ShellTabs
  BY DEF ShellInv
<1>2. ASSUME NEW t, "at" \in DOMAIN t, t.at = "open"
      PROVE  /\ "at" \in DOMAIN settle(t) /\ settle(t).at = "open"
             /\ "at" \in DOMAIN MovedOn(t) /\ MovedOn(t).at = "open"
  BY <1>2 DEF settle, MovedOn
<1>3. ASSUME NEW t, "at" \in DOMAIN t, t.at = "open", NEW u
      PROVE  /\ "at" \in DOMAIN Pushed(t, u) /\ Pushed(t, u).at = "open"
             /\ "at" \in DOMAIN Replaced(t, u) /\ Replaced(t, u).at = "open"
  <2>1. "at" \in DOMAIN [t EXCEPT !.entries = Append(@, u), !.palette = FALSE]
        /\ [t EXCEPT !.entries = Append(@, u), !.palette = FALSE].at = "open"
    BY <1>3
  <2>2. "at" \in DOMAIN [t EXCEPT !.entries = [@ EXCEPT ![Len(@)] = u]]
        /\ [t EXCEPT !.entries = [@ EXCEPT ![Len(@)] = u]].at = "open"
    BY <1>3
  <2> QED BY <1>2, <2>1, <2>2 DEF Pushed, Replaced
<1>4. IsOpen => "at" \in DOMAIN tab /\ tab.at = "open"
  BY <1>1 DEF ShellTabs, IsOpen
<1>5. ASSUME NEW t, t.at = "open", Becomes(t), UNCHANGED browser PROVE IsOpen' /\ UNCHANGED browser
  BY <1>5 DEF Becomes, IsOpen
<1>6. ASSUME NEW r \in Ranges, setRange(r) PROVE IsOpen' /\ UNCHANGED browser
  <2>1. [tab EXCEPT !.range = r].at = "open" /\ "at" \in DOMAIN [tab EXCEPT !.range = r]
    BY <1>4, <1>6 DEF setRange
  <2> QED BY <1>2, <1>5, <1>6, <2>1 DEF setRange
<1>7. ASSUME NEW u, UNCHANGED browser, IsOpen,
             Becomes(MovedOn(Pushed(tab, u))) \/ Becomes(MovedOn(Replaced(tab, u)))
      PROVE  IsOpen' /\ UNCHANGED browser
  BY <1>2, <1>3, <1>4, <1>5, <1>7
<1>8. ASSUME NEW page, NEW f, navigate(page, f) PROVE IsOpen' /\ UNCHANGED browser
  BY <1>7, <1>8 DEF navigate
<1>9. ASSUME clearAll \/ closeReceipt \/ openInTraffic \/ \E f \in Filters : setFilter(f)
      PROVE  IsOpen' /\ UNCHANGED browser
  BY <1>7, <1>9 DEF clearAll, closeReceipt, openInTraffic, setFilter
<1>10. ASSUME NEW r, openReceipt(r) \/ runResult(r) \/ openRelated(r)
       PROVE  IsOpen' /\ UNCHANGED browser
  <2>1. IsOpen /\ UNCHANGED browser /\ \E via : Becomes(Opened(r, via))
    BY <1>10 DEF openReceipt, runResult, openRelated
  <2>2. PICK via : Becomes(Opened(r, via))
    BY <2>1
  <2> DEFINE t == MovedOn(Pushed(tab, [url EXCEPT !.receipt = r]))
  <2>3. "at" \in DOMAIN t /\ t.at = "open"
    BY <1>2, <1>3, <1>4, <2>1
  <2>4. Opened(r, via) = [t EXCEPT !.via = via]
    BY DEF Opened
  <2> HIDE DEF t
  <2>5. Opened(r, via).at = "open"
    BY <2>3, <2>4
  <2> QED BY <1>5, <2>1, <2>2, <2>5
<1>11. ASSUME Back PROVE IsOpen' /\ UNCHANGED browser
  <2> DEFINE t == [tab EXCEPT !.entries = SubSeq(@, 1, Len(@) - 1), !.via = "back", !.palette = FALSE]
  <2>1. IsOpen /\ UNCHANGED browser /\ Becomes(MovedOn(settle(t)))
    BY <1>11 DEF Back
  <2>2. "at" \in DOMAIN t /\ t.at = "open"
    BY <1>4, <2>1
  <2> HIDE DEF t
  <2> QED BY <1>2, <1>5, <2>1, <2>2
<1>12. ASSUME togglePalette \/ \E r \in Receipts : remember(r) PROVE IsOpen' /\ UNCHANGED browser
  <2>1. IsOpen /\ UNCHANGED browser
    BY <1>12 DEF togglePalette, remember
  <2>2. tab'.at = tab.at
    BY <1>4, <1>12, <2>1 DEF togglePalette, remember
  <2> QED BY <2>1, <2>2 DEF IsOpen
<1>13. ASSUME shareView \/ copyLink \/ MistypeRange \/ UNCHANGED shellVars
       PROVE  UNCHANGED <<browser, tab>>
  BY <1>13 DEF shareView, copyLink, MistypeRange, shellVars
<1>14. ASSUME hydrate
       PROVE  \/ IsOpen' /\ UNCHANGED browser
              \/ tab.at = "loading" /\ tab' = [tab EXCEPT !.at = "failed"] /\ UNCHANGED browser
  <2> DEFINE t == [tab EXCEPT !.at = "open", !.known = Seed]
  <2>1. "at" \in DOMAIN t /\ t.at = "open"
    BY <1>1 DEF ShellTabs
  <2>2. UNCHANGED browser /\ tab.at = "loading"
        /\ (Becomes(settle(t)) \/ tab' = [tab EXCEPT !.at = "failed"])
    BY <1>14 DEF hydrate
  <2> HIDE DEF t
  <2> QED BY <1>2, <1>5, <2>1, <2>2
<1> QED BY <1>6, <1>8, <1>9, <1>10, <1>11, <1>12, <1>13, <1>14 DEF ShellNext

LEMMA ShellShapeStep ==
  ASSUME ShellInv, ShellInv', ShellShape, [ShellNext]_shellVars
  PROVE  ShellShape'
<1>1. CASE UNCHANGED <<browser, tab>>
  BY <1>1 DEF ShellShape
<1>2. CASE IsOpen' /\ UNCHANGED browser
  BY <1>2 DEF ShellShape, ShellInv, Shows, Settled, IsOpen
<1>3. ASSUME NEW b \in Browsers, Visit(b) PROVE ShellShape'
  <2>1. /\ browser' = b /\ tab'.at = "loading" /\ ~tab'.palette
        /\ tab'.entries = <<link.url>> /\ Len(tab'.entries) = 1
    BY <1>3 DEF Visit, Shut
  <2> QED BY <2>1 DEF ShellShape
<1>4. CASE tab.at = "loading" /\ tab' = [tab EXCEPT !.at = "failed"] /\ UNCHANGED browser
  BY <1>4 DEF ShellShape, ShellInv, ShellTabs
<1> QED BY <1>1, <1>2, <1>3, <1>4, StaysOpen

LEMMA ShellKeepsTypes == WebSpec => []ShellTypeOK
<1>1. ShellInit => ShellShape
  BY DEF ShellInit, ShellShape, Shut
<1>2. ShellInv /\ ShellInv' /\ ShellShape /\ [ShellNext]_shellVars => ShellShape'
  BY ShellShapeStep
<1>3. ShellInv /\ ShellShape => ShellTypeOK
  <2> SUFFICES ASSUME ShellInv, ShellShape PROVE ShellTypeOK
    OBVIOUS
  <2>1. tab \in ShellTabs /\ link \in Links
    BY DEF ShellInv
  <2>2. \A i \in 1 .. Len(tab.entries) : tab.entries[i] \in Address
    BY <2>1, ElementOfSeq DEF ShellTabs
  <2>3. /\ tab.at \in {"shut", "loading", "failed", "open"} /\ tab.range \in Picked
        /\ tab.known \subseteq Receipts
    BY <2>1 DEF ShellTabs
  <2>4. link.url \in Address
    BY <2>1 DEF Links
  <2>5. savedRange \in [Browsers -> Picked \cup {None}]
    BY DEF ShellInv
  <2>6. /\ browser \in Browsers /\ (tab.at = "shut" <=> tab.entries = <<>>)
        /\ tab.palette => tab.at = "open"
    BY DEF ShellShape
  <2> HIDE DEF ShellInv, ShellShape
  <2> QED BY <2>2, <2>3, <2>4, <2>5, <2>6 DEF ShellTypeOK
<1> QED BY <1>1, <1>2, <1>3, ShellInvariant, ShellIsFollowed, PTL

\* A shared view opens with its filters and its range, whatever range the browser had saved,
\* and the drawer finds the receipt it was opened for.
THEOREM LinksOpenTheirView == WebSpec => []WhatIsOpenedIsShown
<1>1. ShellInv => WhatIsOpenedIsShown
  BY DEF ShellInv, Shows, IsOpen, url, Last, WhatIsOpenedIsShown, LinkOpensItsView, OpenReceiptIsFound
<1> QED BY <1>1, ShellInvariant, ShellIsFollowed, PTL

\* Back leads to the entry before and brings back no range that a link once carried; no
\* choice of filters closes the open receipt or opens another.
THEOREM AddressStepsKeepTheView == WebSpec => AddressKeepsView
<1>1. ShellInv /\ [ShellNext]_shellVars =>
        [Back => /\ Len(tab'.entries) = Len(tab.entries) - 1
                 /\ tab'.range = tab.range]_shellVars
  BY ShellStep
<1>2. ShellInv /\ [ShellNext]_shellVars =>
        [(tab.at = "open" /\ tab'.at = "open" /\ Len(tab'.entries) = Len(tab.entries))
            => url'.receipt = url.receipt]_shellVars
  BY ShellStep DEF KeepsReceipt
<1> QED BY <1>1, <1>2, ShellInvariant, ShellIsFollowed, PTL
     DEF AddressKeepsView, BackKeepsRange, FiltersKeepReceipt

-----------------------------------------------------------------------------
(* The key manager's page *)

PageCalls == {"list", "create", "revoke"}

\* A request of which one part has changed is a request, and the other two are as
\* they were.
OnlyChanged(c, r) ==
  /\ calls' \in [PageCalls -> CallRecords] /\ DOMAIN calls' = PageCalls
  /\ calls'[c] = r /\ \A d \in PageCalls \ {c} : calls'[d] = calls[d]

LEMMA CallBecomes ==
  ASSUME PortalShape, NEW c \in PageCalls, NEW r \in CallRecords, calls' = [calls EXCEPT ![c] = r]
  PROVE  OnlyChanged(c, r)
BY DEF PortalShape, OnlyChanged, PageCalls

\* The requests that the page makes.
LEMMA AskingType ==
  /\ Idle \in CallRecords /\ Idle.at = "none" /\ Idle.reply = "none" /\ Idle.key = NoKey
  /\ \A k \in Keys \cup {NoKey}, forced \in BOOLEAN :
       LET r == [Asking(k) EXCEPT !.forced = forced] IN
       /\ r \in CallRecords /\ r.at = "token" /\ r.reply = "none" /\ r.key = k
  /\ \A k \in Keys \cup {NoKey} :
       /\ Asking(k) \in CallRecords /\ Asking(k).at = "token" /\ Asking(k).reply = "none"
       /\ Asking(k).key = k
BY DEF Idle, Asking, CallRecords

\* A request, part by part.
LEMMA CallFields ==
  ASSUME PortalShape, NEW c \in PageCalls
  PROVE  /\ calls[c].at \in {"none", "token", "sent", "replied"} /\ calls[c].forced \in BOOLEAN
         /\ calls[c].reply \in {"none", "ok", "401", "error"}
         /\ calls[c].key \in Keys \cup {NoKey} /\ calls[c].seen \in SUBSET Keys
         /\ calls[c] = [at |-> calls[c].at, forced |-> calls[c].forced, reply |-> calls[c].reply,
                        key |-> calls[c].key, seen |-> calls[c].seen]
<1>1. calls[c] \in CallRecords
  BY DEF PortalShape, PageCalls
<1> QED BY <1>1 DEF CallRecords

\* A request on its way stays a request when it is sent and when it is answered.
LEMMA SentType ==
  ASSUME PortalShape, NEW c \in PageCalls, NEW r, r = [calls[c] EXCEPT !.at = "sent"]
  PROVE  /\ r \in CallRecords /\ r.at = "sent" /\ r.reply = calls[c].reply
         /\ r.key = calls[c].key
<1> DEFINE at == calls[c].at forced == calls[c].forced reply == calls[c].reply
           key == calls[c].key seen == calls[c].seen
<1>1. /\ forced \in BOOLEAN /\ reply \in {"none", "ok", "401", "error"}
      /\ key \in Keys \cup {NoKey} /\ seen \in SUBSET Keys
      /\ calls[c] = [at |-> at, forced |-> forced, reply |-> reply, key |-> key, seen |-> seen]
  BY CallFields
<1> HIDE DEF at, forced, reply, key, seen
<1>2. r = [at |-> "sent", forced |-> forced, reply |-> reply, key |-> key, seen |-> seen]
  BY <1>1
<1>3. r \in CallRecords
  BY <1>1, <1>2 DEF CallRecords
<1> QED BY <1>2, <1>3 DEF reply, key

LEMMA RepliedType ==
  ASSUME PortalShape, NEW c \in PageCalls, NEW answer \in {"ok", "401", "error"},
         NEW k \in Keys \cup {NoKey}, NEW ks \in SUBSET Keys
  PROVE  LET r == Replied(c, answer, k, ks) IN
         r \in CallRecords /\ r.at = "replied" /\ r.reply = answer /\ r.key = k /\ r.seen = ks
<1>1. calls[c].forced \in BOOLEAN
  BY CallFields
<1> QED BY <1>1 DEF CallRecords, Replied

(***************************************************************************)
(* What each step keeps.                                                   *)
(***************************************************************************)
\* A request that has come to rest.
LEMMA RestKeeps ==
  ASSUME PortalInv, NEW c \in PageCalls, calls' = Done(c)
  PROVE  /\ OnlyChanged(c, Idle)
         /\ \A d \in PageCalls : calls'[d].reply # "none" <=> calls'[d].at = "replied"
         /\ Cardinality(minted) <= submits
         /\ Unserved' => Unserved /\ calls'["create"] = calls["create"]
<1>1. OnlyChanged(c, Idle)
  BY CallBecomes, AskingType DEF PortalInv, Done
<1>2. \A d \in PageCalls : calls'[d].reply # "none" <=> calls'[d].at = "replied"
  BY <1>1, AskingType DEF OnlyChanged, PortalInv, PortalTypeOK, PageCalls
<1>3. Unserved' => Unserved /\ calls'["create"] = calls["create"]
  BY <1>1, AskingType DEF OnlyChanged, Unserved, PageCalls
<1> QED BY <1>1, <1>2, <1>3 DEF PortalInv, MintedOnceAndShown, OneKeyPerSubmit

\* A call that fails, in whatever way: the list's error is shown, a creation that may
\* have minted a key is noted, and a session that is gone leads to the login.
LEMMA FailKeeps ==
  ASSUME PortalInv, NEW c \in PageCalls, boot = "shown", CallFails(c),
         UNCHANGED <<boot, keys, submits>>, mishaps' \in Nat,
         kc' \in [authenticated : BOOLEAN, redirecting : BOOLEAN],
         expired' => kc'.redirecting, kc'.authenticated \/ kc'.redirecting
  PROVE  PortalInv'
<1>1. calls' = Done(c)
  BY DEF CallFails, listFails, createFails, revokeFails
<1>2. /\ OnlyChanged(c, Idle)
      /\ \A d \in PageCalls : calls'[d].reply # "none" <=> calls'[d].at = "replied"
      /\ Cardinality(minted) <= submits
      /\ Unserved' => Unserved /\ calls'["create"] = calls["create"]
  BY <1>1, RestKeeps
<1>3. /\ UNCHANGED <<minted, shownKeys, behind>>
      /\ c # "create" => UNCHANGED unseen
      /\ c = "create" => unseen' = unseen \cup (minted \cap {calls["create"].key})
      /\ keyList' = keyList \/ (c = "list" /\ keyList' = [keyList EXCEPT !.error = TRUE])
      /\ dialog' = dialog \/ dialog' = NoDialog
      /\ form' = form \/ form' = [form EXCEPT !.error = TRUE]
      /\ errorAtom' \in BOOLEAN
  BY DEF CallFails, listFails, createFails, revokeFails, PortalInv, PortalTypeOK, keyHistory,
         screenVars
<1>k. /\ keyList' \in [held : BOOLEAN, data : SUBSET Keys, error : BOOLEAN]
      /\ keyList'.data = keyList.data /\ keyList'.held = keyList.held
      /\ c = "list" => keyList'.error
  <2>1. keyList \in [held : BOOLEAN, data : SUBSET Keys, error : BOOLEAN]
    BY DEF PortalInv, PortalShape
  <2>2. CASE keyList' = keyList /\ c # "list"
    BY <2>1, <2>2
  <2>3. CASE c = "list" /\ keyList' = [keyList EXCEPT !.error = TRUE]
    BY <2>1, <2>3
  <2> QED BY <1>3, <2>2, <2>3 DEF CallFails, listFails
<1>4. PortalShape'
  <2>1. dialog' \in [type : {"none", "create", "created", "revoke"}, key : Keys \cup {NoKey}]
    BY <1>3 DEF PortalInv, PortalShape, NoDialog
  <2> QED BY <1>2, <1>k, <2>1 DEF PortalInv, PortalShape, OnlyChanged, PageCalls
<1>5. PortalTypeOK'
  <2>1. /\ form' \in [model : BOOLEAN, error : BOOLEAN]
        /\ dialog'.type \in {"none", "create", "created", "revoke"}
        /\ dialog'.key # NoKey <=> dialog'.type \in {"created", "revoke"}
    <3>1. form \in [model : BOOLEAN, error : BOOLEAN]
      BY DEF PortalInv, PortalTypeOK
    <3>2. form' \in [model : BOOLEAN, error : BOOLEAN]
      BY <1>3, <3>1
    <3> QED BY <1>3, <3>2 DEF PortalInv, PortalTypeOK, NoDialog
  <2>2. \A d \in PageCalls :
          /\ calls'[d].at \in {"none", "token", "sent", "replied"}
          /\ calls'[d].reply \in {"none", "ok", "401", "error"}
          /\ calls'[d].key \in Keys \cup {NoKey} /\ calls'[d].seen \subseteq Keys
    BY <1>2 DEF OnlyChanged, CallRecords
  <2> QED BY <1>2, <1>3, <1>k, <2>1, <2>2 DEF PortalInv, PortalTypeOK, OnlyChanged, PageCalls
<1>6. MintedOnceAndShown'
  <2>1. NewKeyIsShown'
    BY <1>2, <1>3 DEF PortalInv, MintedOnceAndShown, NewKeyIsShown, OnlyChanged, PageCalls
  <2> QED BY <1>2, <1>3, <2>1 DEF MintedOnceAndShown, OneKeyPerSubmit
<1>7. OneKeyDue'
  BY <1>2, <1>3, AskingType DEF PortalInv, OneKeyDue, OnlyChanged, PageCalls
<1>8. ListCurrent'
  <2>1. CASE c = "list"
    BY <1>2, <1>k, <2>1, AskingType DEF ListCurrent, OnlyChanged, PageCalls
  <2>2. CASE c # "list"
    BY <1>2, <1>3, <2>2 DEF PortalInv, ListCurrent, OnlyChanged, PageCalls
  <2> QED BY <2>1, <2>2
<1> QED
  BY <1>4, <1>5, <1>6, <1>7, <1>8 DEF PortalInv, LoginIsUnderWay, SessionKnown

\* invalidateQueries starts the list's request, or leaves it as it was.
LEMMA InvalidateKeeps ==
  ASSUME PortalInv, NEW c \in {"create", "revoke"}, calls' = invalidate(Done(c))
  PROVE  /\ calls' \in [PageCalls -> CallRecords] /\ DOMAIN calls' = PageCalls
         /\ \A d \in PageCalls : calls'[d].reply # "none" <=> calls'[d].at = "replied"
         /\ calls'[c] = Idle
         /\ \A d \in {"create", "revoke"} \ {c} : calls'[d] = calls[d]
         /\ \/ calls'["list"].at = "token" /\ calls'["list"].reply = "none"
            \/ ~keyList.held /\ calls["list"].at # "none" /\ calls'["list"] = calls["list"]
<1> DEFINE cs == Done(c)
<1>1. /\ cs \in [PageCalls -> CallRecords] /\ cs[c] = Idle
      /\ \A d \in PageCalls \ {c} : cs[d] = calls[d]
  BY AskingType DEF PortalInv, PortalShape, Done, PageCalls
<1>2. \A d \in PageCalls : calls[d].reply # "none" <=> calls[d].at = "replied"
  BY DEF PortalInv, PortalTypeOK, PageCalls
<1> HIDE DEF cs
<1>3. CASE calls' = cs /\ cs["list"].at # "none" /\ ~keyList.held
  BY <1>1, <1>2, <1>3, AskingType DEF PageCalls
<1>4. CASE calls' = [cs EXCEPT !["list"] = Asking(NoKey)]
  <2>1. NoKey \in Keys \cup {NoKey}
    OBVIOUS
  <2> QED BY <1>1, <1>2, <1>4, <2>1, AskingType DEF PageCalls
<1>5. calls' = [cs EXCEPT !["list"] = IF cs["list"].at # "none" /\ ~keyList.held THEN cs["list"] ELSE Asking(NoKey)]
  BY DEF invalidate, cs
<1>6. cs["list"].at # "none" /\ ~keyList.held => calls' = cs
  BY <1>1, <1>5 DEF PageCalls
<1> QED BY <1>3, <1>4, <1>5, <1>6

\* The answer that a call has waited for: the list is the server's, and a new key is on
\* the screen.
LEMMA SucceedKeeps ==
  ASSUME PortalInv, NEW c \in PageCalls, boot = "shown", calls[c].reply = "ok", CallSucceeds(c),
         UNCHANGED <<boot, kc, keys, expired, countVars>>
  PROVE  PortalInv'
<1>1. CASE c = "list"
  <2>1. /\ keyList' = [held |-> TRUE, data |-> calls["list"].seen, error |-> FALSE]
        /\ calls' = Done("list")
        /\ UNCHANGED <<screenVars, keyHistory, behind>>
    BY <1>1 DEF CallSucceeds, listSucceeds
  <2>2. /\ OnlyChanged("list", Idle)
        /\ \A d \in PageCalls : calls'[d].reply # "none" <=> calls'[d].at = "replied"
        /\ Unserved' => Unserved /\ calls'["create"] = calls["create"]
    BY <2>1, RestKeeps DEF PageCalls
  <2>3. calls["list"].seen \in SUBSET Keys
    BY DEF PortalInv, PortalShape, CallRecords
  <2>4. PortalShape'
    BY <2>1, <2>2, <2>3 DEF PortalInv, PortalShape, OnlyChanged, screenVars, countVars, PageCalls
  <2>5. \A d \in PageCalls :
          /\ calls'[d].at \in {"none", "token", "sent", "replied"}
          /\ calls'[d].reply \in {"none", "ok", "401", "error"}
          /\ calls'[d].key \in Keys \cup {NoKey} /\ calls'[d].seen \subseteq Keys
    BY <2>2 DEF OnlyChanged, CallRecords
  <2>6. PortalTypeOK'
    BY <2>1, <2>2, <2>3, <2>5
       DEF PortalInv, PortalTypeOK, OnlyChanged, PageCalls, screenVars, keyHistory
  <2>7. MintedOnceAndShown' /\ OneKeyDue'
    BY <2>1, <2>2, AskingType
       DEF PortalInv, MintedOnceAndShown, OneKeyPerSubmit, NewKeyIsShown, OneKeyDue, OnlyChanged,
           PageCalls, keyHistory, countVars
  <2>8. ListCurrent'
    BY <1>1, <2>1, <2>2, AskingType DEF PortalInv, ListCurrent, OnlyChanged, PageCalls
  <2> QED
    BY <2>4, <2>6, <2>7, <2>8 DEF PortalInv, LoginIsUnderWay, SessionKnown
<1>2. CASE c \in {"create", "revoke"}
  <2>1. calls' = invalidate(Done(c)) /\ behind' = CaughtUp /\ keyList' = keyList
    BY <1>2 DEF CallSucceeds, createSucceeds, revokeSucceeds
  <2>2. /\ calls' \in [PageCalls -> CallRecords] /\ DOMAIN calls' = PageCalls
        /\ \A d \in PageCalls : calls'[d].reply # "none" <=> calls'[d].at = "replied"
        /\ calls'[c] = Idle
        /\ \A d \in {"create", "revoke"} \ {c} : calls'[d] = calls[d]
        /\ \/ calls'["list"].at = "token" /\ calls'["list"].reply = "none"
           \/ ~keyList.held /\ calls["list"].at # "none" /\ calls'["list"] = calls["list"]
    BY <1>2, <2>1, InvalidateKeeps
  <2>3. /\ UNCHANGED <<minted, unseen>> /\ errorAtom' = errorAtom
        /\ c = "create" => shownKeys' = shownKeys \cup {calls["create"].key}
        /\ c = "revoke" => shownKeys' = shownKeys
        /\ form' = form \/ form' = [form EXCEPT !.model = FALSE]
        /\ \/ dialog' = NoDialog
           \/ c = "create" /\ dialog' = [type |-> "created", key |-> calls["create"].key]
    BY <1>2 DEF CallSucceeds, createSucceeds, revokeSucceeds, keyHistory
  <2>4. c = "create" => calls["create"].key \in minted /\ calls["create"].key \in Keys
    BY DEF PortalInv, OneKeyDue, PortalTypeOK
  <2>k. NoKey \notin Keys
    BY DEF NoKey, Keys
  <2>5. PortalShape'
    BY <2>1, <2>2, <2>3, <2>4 DEF PortalInv, PortalShape, countVars, NoDialog, PageCalls
  <2>6. \A d \in PageCalls :
          /\ calls'[d].at \in {"none", "token", "sent", "replied"}
          /\ calls'[d].reply \in {"none", "ok", "401", "error"}
          /\ calls'[d].key \in Keys \cup {NoKey} /\ calls'[d].seen \subseteq Keys
    BY <2>2 DEF CallRecords
  <2>7. PortalTypeOK'
    <3>0. form \in [model : BOOLEAN, error : BOOLEAN]
      BY DEF PortalInv, PortalTypeOK
    <3>1. form' \in [model : BOOLEAN, error : BOOLEAN]
      BY <2>3, <3>0
    <3>d. /\ dialog'.type \in {"none", "create", "created", "revoke"}
          /\ dialog'.key # NoKey <=> dialog'.type \in {"created", "revoke"}
      BY <2>3, <2>4, <2>k DEF NoDialog
    <3>2. behind' \subseteq {"unanswered", "elsewhere", "firstLoad"}
      BY <2>1 DEF CaughtUp, PortalInv, PortalTypeOK
    <3>3. /\ minted' \subseteq Keys /\ unseen' \subseteq minted' /\ shownKeys' \subseteq minted'
          /\ errorAtom' \in BOOLEAN
          /\ keyList'.data \subseteq Keys /\ (keyList'.data # {} => keyList'.held)
      BY <1>2, <2>1, <2>3, <2>4 DEF PortalInv, PortalTypeOK
    <3> QED BY <2>2, <2>6, <3>1, <3>2, <3>3, <3>d DEF PortalInv, PortalTypeOK, PageCalls
  <2>8. MintedOnceAndShown' /\ OneKeyDue'
    <3>1. Unserved' => Unserved /\ calls'["create"] = calls["create"]
      BY <1>2, <2>2, AskingType DEF Unserved
    <3> QED BY <1>2, <2>2, <2>3, <3>1, AskingType
       DEF PortalInv, MintedOnceAndShown, OneKeyPerSubmit, NewKeyIsShown, OneKeyDue, countVars
  <2>9. ListCurrent'
    BY <2>1, <2>2 DEF PortalInv, PortalTypeOK, ListCurrent, CaughtUp, PageCalls
  <2> QED
    BY <2>5, <2>7, <2>8, <2>9 DEF PortalInv, LoginIsUnderWay, SessionKnown
<1> QED BY <1>1, <1>2 DEF PageCalls

\* The same of a request that is started, sent or answered: what the page shows does
\* not change.
LEMMA MoveKeeps ==
  ASSUME PortalInv, NEW c \in PageCalls, NEW r \in CallRecords, boot' = "shown",
         calls' = [calls EXCEPT ![c] = r], r.reply # "none" <=> r.at = "replied",
         kc' \in [authenticated : BOOLEAN, redirecting : BOOLEAN],
         keys' \subseteq Keys, minted \subseteq minted', minted' \subseteq Keys,
         behind' \subseteq {"unanswered", "elsewhere", "firstLoad"},
         UNCHANGED <<keyList, dialog, errorAtom, unseen, shownKeys>>,
         form' \in [model : BOOLEAN, error : BOOLEAN], submits' \in Nat, mishaps' \in Nat
  PROVE  PortalTypeOK' /\ PortalShape' /\ OnlyChanged(c, r)
<1>1. OnlyChanged(c, r)
  BY CallBecomes DEF PortalInv
<1>2. PortalShape'
  BY <1>1 DEF PortalInv, PortalShape, OnlyChanged, PageCalls
<1>3. \A d \in PageCalls :
        /\ calls'[d].at \in {"none", "token", "sent", "replied"}
        /\ calls'[d].reply \in {"none", "ok", "401", "error"}
        /\ calls'[d].reply # "none" <=> calls'[d].at = "replied"
        /\ calls'[d].key \in Keys \cup {NoKey} /\ calls'[d].seen \subseteq Keys
  BY <1>1 DEF OnlyChanged, CallRecords, PortalInv, PortalTypeOK, PageCalls
<1>4. PortalTypeOK'
  BY <1>1, <1>3 DEF PortalInv, PortalTypeOK, OnlyChanged, PageCalls
<1> QED BY <1>1, <1>2, <1>4

\* The keys are finitely many, and one more is one more.
LEMMA OneMore ==
  ASSUME NEW S \in SUBSET Keys, NEW k
  PROVE  /\ Cardinality(S) \in Nat
         /\ Cardinality(S \cup {k}) \in Nat
         /\ Cardinality(S \cup {k}) <= Cardinality(S) + 1
<1>1. MaxKeys \in Nat /\ 1 \in Int
  BY PortalAssumptions
<1>2. IsFiniteSet(Keys)
  BY <1>1, FS_Interval DEF Keys
<1>3. IsFiniteSet(S)
  BY <1>2, FS_Subset
<1>4. Cardinality(S) \in Nat
  BY <1>3, FS_CardinalityType
<1> QED BY <1>3, <1>4, FS_AddElement

\* A request that has its token is sent.
LEMMA TokenKeeps ==
  ASSUME PortalInv, NEW c \in PageCalls, getToken(c)
  PROVE  PortalInv'
<1> DEFINE r == [calls[c] EXCEPT !.at = "sent"]
<1>1. /\ boot = "shown" /\ calls[c].at = "token"
      /\ UNCHANGED <<boot, kc, keyList, dialog, form, errorAtom, keys, minted, unseen, shownKeys,
                     behind, expired, submits, mishaps>>
  BY DEF getToken, At, screenVars, keyHistory, countVars
<1>2. /\ r \in CallRecords /\ r.at = "sent" /\ r.reply = calls[c].reply /\ r.key = calls[c].key
      /\ r.reply = "none"
  BY <1>1, SentType DEF PortalInv, PortalTypeOK, PageCalls
<1>3. calls' = [calls EXCEPT ![c] = r]
  BY DEF getToken
<1> HIDE DEF r
<1>4. PortalTypeOK' /\ PortalShape' /\ OnlyChanged(c, r)
  BY <1>1, <1>2, <1>3, MoveKeeps DEF PortalInv, PortalTypeOK, PortalShape
<1>5. MintedOnceAndShown' /\ OneKeyDue'
  BY <1>1, <1>2, <1>4
     DEF PortalInv, MintedOnceAndShown, OneKeyPerSubmit, NewKeyIsShown, OneKeyDue, Unserved,
         OnlyChanged, PageCalls
<1>6. ListCurrent'
  BY <1>1, <1>2, <1>4 DEF PortalInv, ListCurrent, OnlyChanged, PageCalls
<1> QED BY <1>1, <1>4, <1>5, <1>6 DEF PortalInv, LoginIsUnderWay, SessionKnown

\* The server serves a request once, and a creation it serves owns a new key.
LEMMA ServeKeeps ==
  ASSUME PortalInv, NEW c \in PageCalls, Serve(c)
  PROVE  PortalInv'
<1>1. /\ boot = "shown" /\ calls[c].at = "sent"
      /\ UNCHANGED <<boot, kc, keyList, dialog, form, errorAtom, unseen, shownKeys, expired, submits>>
      /\ mishaps' \in Nat
  <2>1. mishaps' = mishaps \/ mishaps' = mishaps + 1
    BY DEF Serve, Applied, Mishap
  <2> QED BY <2>1 DEF Serve, At, screenVars, PortalInv, PortalShape
<1>t. /\ keys \subseteq Keys /\ minted \subseteq Keys
      /\ behind \subseteq {"unanswered", "elsewhere", "firstLoad"}
      /\ kc \in [authenticated : BOOLEAN, redirecting : BOOLEAN]
      /\ form \in [model : BOOLEAN, error : BOOLEAN] /\ submits \in Nat
      /\ calls[c].key \in Keys \cup {NoKey}
  BY DEF PortalInv, PortalTypeOK, PortalShape, PageCalls
<1>n. c = "create" => calls[c].key = NoKey /\ Cardinality(minted) < submits
  BY <1>1 DEF PortalInv, OneKeyDue, Unserved
<1>p. PortalShape
  BY DEF PortalInv
<1>m. NoKey \notin Keys
  BY DEF NoKey, Keys
<1>s. ASSUME PortalTypeOK', PortalShape', MintedOnceAndShown', OneKeyDue', ListCurrent'
      PROVE  PortalInv'
  BY <1>s, <1>1 DEF PortalInv, LoginIsUnderWay, SessionKnown
\* Nothing has changed, or the answer does not say what has.
<1>2. ASSUME NEW reply \in {"ok", "401", "error"}, calls' = [calls EXCEPT ![c] = Refused(c, reply)],
             minted' = minted, c = "create" \/ c = "list" => reply # "ok",
             \/ UNCHANGED <<behind, keys>>
             \/ behind' = behind \cup {"unanswered"} /\ keys' \subseteq keys
      PROVE  PortalInv'
  <2> DEFINE r == Replied(c, reply, calls[c].key, {})
  <2>1. r \in CallRecords /\ r.at = "replied" /\ r.reply = reply /\ r.key = calls[c].key
    BY <1>p, <1>t, RepliedType
  <2>2. calls' = [calls EXCEPT ![c] = r]
    BY <1>2 DEF Refused
  <2> HIDE DEF r
  <2>3. PortalTypeOK' /\ PortalShape' /\ OnlyChanged(c, r)
    BY <1>1, <1>t, <1>2, <2>1, <2>2, MoveKeeps
  <2>4. MintedOnceAndShown' /\ OneKeyDue'
    BY <1>1, <1>n, <1>2, <2>1, <2>3
       DEF PortalInv, MintedOnceAndShown, OneKeyPerSubmit, NewKeyIsShown, OneKeyDue, Unserved,
           OnlyChanged, PageCalls
  <2>5. ListCurrent'
    BY <1>1, <1>2, <2>1, <2>3 DEF PortalInv, ListCurrent, OnlyChanged, PageCalls
  <2> QED BY <1>s, <2>3, <2>4, <2>5
<1>3. CASE /\ c = "list" /\ calls' = [calls EXCEPT ![c] = Replied(c, "ok", NoKey, keys)]
           /\ behind' = {} /\ UNCHANGED <<keys, minted>>
  <2> DEFINE r == Replied(c, "ok", NoKey, keys)
  <2>1. r \in CallRecords /\ r.at = "replied" /\ r.reply = "ok" /\ r.seen = keys
    BY <1>p, <1>t, RepliedType
  <2>2. calls' = [calls EXCEPT ![c] = r]
    BY <1>3
  <2> HIDE DEF r
  <2>3. PortalTypeOK' /\ PortalShape' /\ OnlyChanged(c, r)
    <3>1. /\ keys' \subseteq Keys /\ minted \subseteq minted' /\ minted' \subseteq Keys
          /\ behind' \subseteq {"unanswered", "elsewhere", "firstLoad"}
      BY <1>t, <1>3
    <3> QED BY <1>1, <1>t, <2>1, <2>2, <3>1, MoveKeeps
  <2>4. MintedOnceAndShown' /\ OneKeyDue'
    BY <1>1, <1>3, <2>3
       DEF PortalInv, MintedOnceAndShown, OneKeyPerSubmit, NewKeyIsShown, OneKeyDue, Unserved,
           OnlyChanged, PageCalls
  <2>5. ListCurrent'
    BY <1>1, <1>3, <2>1, <2>3 DEF ListCurrent, OnlyChanged
  <2> QED BY <1>s, <2>3, <2>4, <2>5
<1>4. ASSUME NEW reply \in {"ok", "error"}, NEW k \in Keys, c = "create",
             calls' = [calls EXCEPT ![c] = Replied(c, reply, k, {})],
             keys' = keys \cup {k}, minted' = minted \cup {k},
             behind' = behind \cup {"unanswered"}
      PROVE  PortalInv'
  <2> DEFINE r == Replied(c, reply, k, {})
  <2>1. r \in CallRecords /\ r.at = "replied" /\ r.reply = reply /\ r.key = k
    BY <1>p, RepliedType
  <2>2. calls' = [calls EXCEPT ![c] = r]
    BY <1>4
  <2> HIDE DEF r
  <2>3. PortalTypeOK' /\ PortalShape' /\ OnlyChanged(c, r)
    <3>1. /\ keys' \subseteq Keys /\ minted \subseteq minted' /\ minted' \subseteq Keys
          /\ behind' \subseteq {"unanswered", "elsewhere", "firstLoad"}
      BY <1>t, <1>4
    <3> QED BY <1>1, <1>t, <2>1, <2>2, <3>1, MoveKeeps
  <2>4. Cardinality(minted') <= submits'
    <3>1. /\ Cardinality(minted) \in Nat /\ Cardinality(minted \cup {k}) \in Nat
          /\ Cardinality(minted \cup {k}) <= Cardinality(minted) + 1
      BY <1>t, OneMore
    <3> QED BY <1>1, <1>t, <1>n, <1>4, <3>1
  <2>5. NewKeyIsShown'
    <3>1. minted \subseteq shownKeys \cup unseen \cup {NoKey}
      BY <1>n, <1>4 DEF PortalInv, MintedOnceAndShown, NewKeyIsShown
    <3> QED BY <1>1, <1>t, <1>m, <1>4, <2>1, <2>3, <3>1 DEF NewKeyIsShown, OnlyChanged
  <2>o. OneKeyDue'
    BY <1>4, <2>1, <2>3 DEF OneKeyDue, Unserved, OnlyChanged
  <2>6. ListCurrent'
    BY <1>4 DEF ListCurrent
  <2> QED BY <1>s, <2>3, <2>4, <2>5, <2>6, <2>o DEF MintedOnceAndShown, OneKeyPerSubmit
<1> QED BY <1>2, <1>3, <1>4 DEF Serve, Applied, Refused

\* An answer ends its call, or a 401 sends the request once more.
LEMMA AnswerKeeps ==
  ASSUME PortalInv, NEW c \in PageCalls, answered(c)
  PROVE  PortalInv'
<1>1. /\ boot = "shown" /\ calls[c].at = "replied"
      /\ UNCHANGED <<boot, kc, keys, expired, submits, revokes, mishaps>>
  BY DEF answered, At, countVars
<1>t. /\ keys \subseteq Keys /\ minted \subseteq Keys /\ mishaps \in Nat /\ submits \in Nat
      /\ behind \subseteq {"unanswered", "elsewhere", "firstLoad"}
      /\ kc \in [authenticated : BOOLEAN, redirecting : BOOLEAN]
      /\ form \in [model : BOOLEAN, error : BOOLEAN]
      /\ calls[c].key \in Keys \cup {NoKey}
  BY DEF PortalInv, PortalTypeOK, PortalShape, PageCalls
<1>2. CASE Retries(c) /\ calls' = [calls EXCEPT ![c] = [Asking(@.key) EXCEPT !.forced = TRUE]]
           /\ UNCHANGED <<keyList, screenVars, keyHistory, behind>>
  <2> DEFINE r == [Asking(calls[c].key) EXCEPT !.forced = TRUE]
  <2>1. r \in CallRecords /\ r.at = "token" /\ r.reply = "none" /\ r.key = calls[c].key
    BY <1>t, AskingType
  <2>2. calls' = [calls EXCEPT ![c] = r]
    BY <1>2
  <2>3. UNCHANGED <<keyList, dialog, form, errorAtom, minted, unseen, shownKeys, behind>>
    BY <1>2 DEF screenVars, keyHistory
  <2>4. calls[c].reply = "401"
    BY <1>2 DEF Retries
  <2> HIDE DEF r
  <2>5. PortalTypeOK' /\ PortalShape' /\ OnlyChanged(c, r)
    BY <1>1, <1>t, <2>1, <2>2, <2>3, MoveKeeps
  <2>6. MintedOnceAndShown' /\ OneKeyDue'
    BY <1>1, <2>1, <2>3, <2>4, <2>5
       DEF PortalInv, MintedOnceAndShown, OneKeyPerSubmit, NewKeyIsShown, OneKeyDue, Unserved,
           OnlyChanged, PageCalls
  <2>7. ListCurrent'
    BY <1>1, <2>1, <2>3, <2>5 DEF PortalInv, ListCurrent, OnlyChanged, PageCalls
  <2> QED BY <1>1, <2>5, <2>6, <2>7 DEF PortalInv, LoginIsUnderWay, SessionKnown
<1>3. CASE calls[c].reply = "ok" /\ CallSucceeds(c)
  BY <1>1, <1>3, SucceedKeeps DEF countVars
<1>4. CASE CallFails(c)
  BY <1>1, <1>t, <1>4, FailKeeps DEF PortalInv, LoginIsUnderWay, SessionKnown
<1> QED BY <1>2, <1>3, <1>4 DEF answered

\* A call without a token or an answer fails.
LEMMA LossKeeps ==
  ASSUME PortalInv, NEW c \in PageCalls, refreshFails(c) \/ sessionExpired(c) \/ fetchRejects(c)
  PROVE  PortalInv'
<1>1. /\ boot = "shown" /\ CallFails(c) /\ UNCHANGED <<boot, keys, submits>>
      /\ mishaps' = mishaps \/ mishaps' = mishaps + 1
  BY DEF refreshFails, sessionExpired, fetchRejects, At, Mishap, countVars
<1>2. mishaps' \in Nat
  BY <1>1 DEF PortalInv, PortalShape
<1>3. /\ kc' \in [authenticated : BOOLEAN, redirecting : BOOLEAN]
      /\ (expired' => kc'.redirecting) /\ (kc'.authenticated \/ kc'.redirecting)
  <2>1. CASE refreshFails(c)
    BY <2>1 DEF refreshFails
  <2>2. CASE sessionExpired(c)
    BY <1>1, <2>2 DEF sessionExpired, PortalInv, PortalTypeOK, SessionKnown
  <2>3. CASE fetchRejects(c)
    BY <1>1, <2>3 DEF fetchRejects, PortalInv, PortalTypeOK, SessionKnown, LoginIsUnderWay
  <2> QED BY <2>1, <2>2, <2>3
<1> QED BY <1>1, <1>2, <1>3, FailKeeps

\* The page begins with nothing asked for and nothing known.
LEMMA PortalStarts == PortalInit => PortalInv
<1> SUFFICES ASSUME PortalInit PROVE PortalInv
  OBVIOUS
<1>1. 1 \in Keys /\ NoKey \notin Keys
  BY PortalAssumptions DEF Keys, NoKey
<1>2. /\ boot = "config" /\ ~expired /\ submits = 0 /\ mishaps = 0
      /\ kc \in [authenticated : BOOLEAN, redirecting : BOOLEAN]
      /\ calls \in [PageCalls -> CallRecords] /\ DOMAIN calls = PageCalls
      /\ \A c \in PageCalls : calls[c] = Idle
      /\ keyList \in [held : BOOLEAN, data : SUBSET Keys, error : BOOLEAN]
      /\ keyList.data = {} /\ ~keyList.held
      /\ dialog \in [type : {"none", "create", "created", "revoke"}, key : Keys \cup {NoKey}]
      /\ dialog.type = "none" /\ dialog.key = NoKey
      /\ form \in [model : BOOLEAN, error : BOOLEAN] /\ errorAtom \in BOOLEAN
      /\ keys = {1} /\ minted = {} /\ unseen = {} /\ shownKeys = {} /\ behind = {}
  BY AskingType DEF PortalInit, PageCalls, NoData, NoDialog, NoForm
<1>3. PortalShape
  BY <1>2 DEF PortalShape, PageCalls
<1>4. PortalTypeOK
  BY <1>1, <1>2 DEF PortalTypeOK, Pending, PageCalls, Idle
<1>5. MintedOnceAndShown
  BY <1>2, FS_EmptySet DEF MintedOnceAndShown, OneKeyPerSubmit, NewKeyIsShown
<1>6. OneKeyDue /\ ListCurrent
  BY <1>2, AskingType DEF OneKeyDue, Unserved, ListCurrent, PageCalls
<1> QED BY <1>2, <1>3, <1>4, <1>5, <1>6 DEF PortalInv, LoginIsUnderWay, SessionKnown

\* A step that touches none of the requests and neither the list nor the keys.
LEMMA QuietKeeps ==
  ASSUME PortalInv,
         UNCHANGED <<calls, keyList, keys, minted, unseen, shownKeys, behind, submits>>,
         boot' \in {"config", "login", "shown", "failed"},
         boot' = "shown" <=> boot = "shown", UNCHANGED <<kc, expired>>,
         dialog' \in [type : {"none", "create", "created", "revoke"}, key : Keys \cup {NoKey}],
         dialog'.key # NoKey <=> dialog'.type \in {"created", "revoke"},
         form' \in [model : BOOLEAN, error : BOOLEAN], errorAtom' \in BOOLEAN, mishaps' \in Nat
  PROVE  PortalInv'
<1>1. PortalTypeOK'
  BY DEF PortalInv, PortalTypeOK, Pending, PageCalls
<1>2. PortalShape'
  BY DEF PortalInv, PortalShape
<1>3. MintedOnceAndShown' /\ OneKeyDue'
  BY DEF PortalInv, MintedOnceAndShown, OneKeyPerSubmit, NewKeyIsShown, OneKeyDue, Unserved
<1>4. ListCurrent' /\ LoginIsUnderWay' /\ SessionKnown'
  BY DEF PortalInv, ListCurrent, LoginIsUnderWay, SessionKnown
<1> QED BY <1>1, <1>2, <1>3, <1>4 DEF PortalInv

\* Until the page is rendered there is nothing to lose.
LEMMA StartKeeps ==
  ASSUME PortalInv, loadAppConfig \/ initKeycloak
  PROVE  PortalInv'
<1>1. boot # "shown" /\ \A c \in PageCalls : ~Pending(c)
  BY DEF loadAppConfig, initKeycloak, PortalInv, PortalTypeOK, PageCalls
<1>2. mishaps' \in Nat
  BY DEF loadAppConfig, initKeycloak, Mishap, PortalInv, PortalShape
<1>3. UNCHANGED <<keyList, dialog, form, errorAtom, keys, minted, unseen, shownKeys, behind,
                  expired, submits>>
  BY DEF loadAppConfig, initKeycloak, screenVars, keyHistory
<1>t. /\ dialog \in [type : {"none", "create", "created", "revoke"}, key : Keys \cup {NoKey}]
      /\ dialog.key # NoKey <=> dialog.type \in {"created", "revoke"}
      /\ form \in [model : BOOLEAN, error : BOOLEAN] /\ errorAtom \in BOOLEAN
      /\ keys \subseteq Keys /\ minted \subseteq Keys /\ submits \in Nat
      /\ behind \subseteq {"unanswered", "elsewhere", "firstLoad"}
  BY DEF PortalInv, PortalTypeOK, PortalShape
<1>4. CASE boot' \in {"login", "failed"} /\ UNCHANGED <<kc, calls>>
  BY <1>1, <1>2, <1>3, <1>4, <1>t, QuietKeeps
<1>5. CASE /\ boot' = "shown" /\ kc' = [authenticated |-> TRUE, redirecting |-> FALSE]
           /\ calls' = [calls EXCEPT !["list"] = Asking(NoKey)]
  <2> DEFINE r == Asking(NoKey)
  <2>1. r \in CallRecords /\ r.at = "token" /\ r.reply = "none"
    BY AskingType
  <2>2. calls' = [calls EXCEPT !["list"] = r] /\ "list" \in PageCalls
    BY <1>5 DEF PageCalls
  <2> HIDE DEF r
  <2>3. PortalTypeOK' /\ PortalShape' /\ OnlyChanged("list", r)
    <3>1. kc' \in [authenticated : BOOLEAN, redirecting : BOOLEAN]
      BY <1>5
    <3> QED BY <1>2, <1>3, <1>5, <1>t, <2>1, <2>2, <3>1, MoveKeeps
  <2>4. MintedOnceAndShown' /\ OneKeyDue'
    BY <1>3, <2>3
       DEF PortalInv, MintedOnceAndShown, OneKeyPerSubmit, NewKeyIsShown, OneKeyDue, Unserved,
           OnlyChanged, PageCalls
  <2>5. ListCurrent'
    BY <2>1, <2>3 DEF ListCurrent, OnlyChanged
  <2>6. LoginIsUnderWay' /\ SessionKnown'
    <3>1. ~expired
      BY <1>1 DEF PortalInv, SessionKnown
    <3> QED BY <1>3, <1>5, <3>1 DEF LoginIsUnderWay, SessionKnown
  <2> QED BY <2>3, <2>4, <2>5, <2>6 DEF PortalInv
<1> QED BY <1>4, <1>5 DEF loadAppConfig, initKeycloak

\* The page goes with all that it knew, and notes the key that nobody will see.
LEMMA LeaveKeeps ==
  ASSUME PortalInv, LeavePage
  PROVE  PortalInv'
<1>1. /\ boot' = "config" /\ ~expired'
      /\ kc' \in [authenticated : BOOLEAN, redirecting : BOOLEAN]
      /\ calls' \in [PageCalls -> CallRecords] /\ DOMAIN calls' = PageCalls
      /\ \A c \in PageCalls : calls'[c] = Idle
      /\ keyList' \in [held : BOOLEAN, data : SUBSET Keys, error : BOOLEAN]
      /\ keyList'.data = {} /\ ~keyList'.held
      /\ dialog' \in [type : {"none", "create", "created", "revoke"}, key : Keys \cup {NoKey}]
      /\ dialog'.type = "none" /\ dialog'.key = NoKey
      /\ form' \in [model : BOOLEAN, error : BOOLEAN] /\ errorAtom' \in BOOLEAN
      /\ behind' = {} /\ UNCHANGED <<keys, minted, shownKeys, submits, mishaps>>
  BY AskingType
     DEF LeavePage, PortalInv, PortalTypeOK, PageCalls, NoData, NoDialog, NoForm, countVars
<1>2. unseen' = unseen \cup (minted \cap {calls["create"].key})
  BY DEF LeavePage
<1>3. PortalShape'
  BY <1>1 DEF PortalInv, PortalShape, PageCalls
<1>4. PortalTypeOK'
  BY <1>1, <1>2 DEF PortalInv, PortalTypeOK, Pending, PageCalls, Idle
<1>5. MintedOnceAndShown'
  BY <1>1, <1>2 DEF PortalInv, MintedOnceAndShown, OneKeyPerSubmit, NewKeyIsShown
<1>6. OneKeyDue' /\ ListCurrent'
  BY <1>1, AskingType DEF OneKeyDue, Unserved, ListCurrent, PageCalls
<1> QED BY <1>1, <1>3, <1>4, <1>5, <1>6 DEF PortalInv, LoginIsUnderWay, SessionKnown

\* Keys that somebody else removes are noted.
LEMMA ElsewhereKeeps ==
  ASSUME PortalInv, RevokedElsewhere
  PROVE  PortalInv'
<1>1. /\ UNCHANGED <<boot, kc, calls, keyList, dialog, form, errorAtom, minted, unseen, shownKeys,
                     expired, submits>>
      /\ mishaps' = mishaps + 1 /\ keys' \subseteq keys /\ behind' = behind \cup {"elsewhere"}
  BY DEF RevokedElsewhere, Mishap, screenVars, keyHistory
<1>2. PortalTypeOK' /\ PortalShape'
  BY <1>1 DEF PortalInv, PortalTypeOK, PortalShape, Pending
<1>3. MintedOnceAndShown' /\ OneKeyDue'
  BY <1>1 DEF PortalInv, MintedOnceAndShown, OneKeyPerSubmit, NewKeyIsShown, OneKeyDue, Unserved
<1> QED BY <1>1, <1>2, <1>3 DEF PortalInv, ListCurrent, LoginIsUnderWay, SessionKnown

\* A submit is counted before its request is made.
LEMMA SubmitKeeps ==
  ASSUME PortalInv, onSubmit
  PROVE  PortalInv'
<1>1. /\ UNCHANGED <<boot, kc, keyList, keys, minted, unseen, shownKeys, behind, expired, dialog,
                     errorAtom, mishaps>>
      /\ boot = "shown" /\ calls["create"].at = "none"
  BY DEF onSubmit, requestVars, keyHistory, OnScreen, Pending
<1>t. /\ dialog \in [type : {"none", "create", "created", "revoke"}, key : Keys \cup {NoKey}]
      /\ dialog.key # NoKey <=> dialog.type \in {"created", "revoke"}
      /\ form \in [model : BOOLEAN, error : BOOLEAN] /\ errorAtom \in BOOLEAN
      /\ kc \in [authenticated : BOOLEAN, redirecting : BOOLEAN]
      /\ keys \subseteq Keys /\ minted \subseteq Keys /\ submits \in Nat /\ mishaps \in Nat
      /\ behind \subseteq {"unanswered", "elsewhere", "firstLoad"}
  BY DEF PortalInv, PortalTypeOK, PortalShape
<1>f. form' \in [model : BOOLEAN, error : BOOLEAN]
  BY <1>t DEF onSubmit
<1>2. CASE UNCHANGED <<calls, submits>>
  BY <1>1, <1>2, <1>t, <1>f, QuietKeeps
<1>3. CASE submits' = submits + 1 /\ calls' = [calls EXCEPT !["create"] = Asking(NoKey)]
  <2> DEFINE r == Asking(NoKey)
  <2>1. r \in CallRecords /\ r.at = "token" /\ r.reply = "none" /\ r.key = NoKey
    BY AskingType
  <2>2. calls' = [calls EXCEPT !["create"] = r] /\ "create" \in PageCalls
    BY <1>3 DEF PageCalls
  <2>3. submits' \in Nat
    BY <1>3, <1>t
  <2> HIDE DEF r
  <2>4. PortalTypeOK' /\ PortalShape' /\ OnlyChanged("create", r)
    BY <1>1, <1>t, <1>f, <2>1, <2>2, <2>3, MoveKeeps
  <2>5. Cardinality(minted') < submits' /\ Cardinality(minted') <= submits'
    <3>1. Cardinality(minted) \in Nat /\ Cardinality(minted) <= submits
      BY <1>t, OneMore DEF PortalInv, MintedOnceAndShown, OneKeyPerSubmit
    <3> QED BY <1>1, <1>3, <1>t, <3>1
  <2>6. NewKeyIsShown'
    <3>1. calls["create"].key = NoKey
      BY <1>1 DEF PortalInv, OneKeyDue
    <3> QED BY <1>1, <2>1, <2>4, <3>1
         DEF PortalInv, MintedOnceAndShown, NewKeyIsShown, OnlyChanged
  <2>7. OneKeyDue'
    BY <2>1, <2>4, <2>5 DEF OneKeyDue, OnlyChanged
  <2>8. ListCurrent'
    BY <1>1, <2>4 DEF PortalInv, ListCurrent, OnlyChanged, PageCalls
  <2> QED BY <1>1, <2>4, <2>5, <2>6, <2>7, <2>8
       DEF PortalInv, MintedOnceAndShown, OneKeyPerSubmit, LoginIsUnderWay, SessionKnown
<1> QED BY <1>2, <1>3 DEF onSubmit

\* A revocation is for the row that its dialog was opened on.
LEMMA ConfirmKeeps ==
  ASSUME PortalInv, confirmRevoke
  PROVE  PortalInv'
<1>1. /\ UNCHANGED <<boot, kc, keyList, keys, minted, unseen, shownKeys, behind, expired, dialog,
                     form, errorAtom, mishaps>>
      /\ boot = "shown" /\ submits' = submits
      /\ calls' = [calls EXCEPT !["revoke"] = Asking(dialog.key)]
  BY DEF confirmRevoke, requestVars, keyHistory, screenVars, OnScreen
<1>t. /\ dialog.key \in Keys \cup {NoKey}
      /\ form \in [model : BOOLEAN, error : BOOLEAN]
      /\ kc \in [authenticated : BOOLEAN, redirecting : BOOLEAN]
      /\ keys \subseteq Keys /\ minted \subseteq Keys /\ submits \in Nat /\ mishaps \in Nat
      /\ behind \subseteq {"unanswered", "elsewhere", "firstLoad"}
  BY DEF PortalInv, PortalTypeOK, PortalShape
<1> DEFINE r == Asking(dialog.key)
<1>2. r \in CallRecords /\ r.at = "token" /\ r.reply = "none"
  BY <1>t, AskingType
<1>3. calls' = [calls EXCEPT !["revoke"] = r] /\ "revoke" \in PageCalls /\ submits' \in Nat
  BY <1>1, <1>t DEF PageCalls
<1> HIDE DEF r
<1>4. PortalTypeOK' /\ PortalShape' /\ OnlyChanged("revoke", r)
  BY <1>1, <1>t, <1>2, <1>3, MoveKeeps
<1>5. Cardinality(minted) \in Nat
  BY <1>t, OneMore
<1>6. MintedOnceAndShown' /\ OneKeyDue'
  BY <1>1, <1>t, <1>4, <1>5
     DEF PortalInv, MintedOnceAndShown, OneKeyPerSubmit, NewKeyIsShown, OneKeyDue, Unserved,
         OnlyChanged, PageCalls
<1>7. ListCurrent'
  BY <1>1, <1>4 DEF PortalInv, ListCurrent, OnlyChanged, PageCalls
<1> QED BY <1>1, <1>4, <1>6, <1>7 DEF PortalInv, LoginIsUnderWay, SessionKnown

\* Opening and closing dialogs touches no request, and no answer on its way.
LEMMA UserKeeps ==
  ASSUME PortalInv, PortalUser
  PROVE  PortalInv'
<1>t. /\ dialog \in [type : {"none", "create", "created", "revoke"}, key : Keys \cup {NoKey}]
      /\ dialog.key # NoKey <=> dialog.type \in {"created", "revoke"}
      /\ form \in [model : BOOLEAN, error : BOOLEAN] /\ errorAtom \in BOOLEAN
      /\ mishaps \in Nat /\ NoKey \notin Keys
      /\ boot \in {"config", "login", "shown", "failed"}
  BY DEF PortalInv, PortalTypeOK, PortalShape, Keys, NoKey
<1>1. ASSUME UNCHANGED <<requestVars, calls, countVars>>,
             dialog' \in [type : {"none", "create", "created", "revoke"}, key : Keys \cup {NoKey}],
             dialog'.key # NoKey <=> dialog'.type \in {"created", "revoke"},
             form' \in [model : BOOLEAN, error : BOOLEAN], errorAtom' \in BOOLEAN
      PROVE  PortalInv'
  BY <1>1, <1>t, QuietKeeps DEF requestVars, keyHistory, countVars
<1>2. CASE openCreate
  BY <1>1, <1>2, <1>t DEF openCreate, NoDialog
<1>3. CASE chooseModel
  BY <1>1, <1>3, <1>t DEF chooseModel
<1>4. CASE closeCreate
  BY <1>1, <1>4, <1>t DEF closeCreate, NoDialog, NoForm
<1>5. CASE closeCreated \/ cancelRevoke
  BY <1>1, <1>5, <1>t DEF closeCreated, cancelRevoke, NoDialog
<1>6. ASSUME NEW k \in Keys, openRevoke(k)
      PROVE  PortalInv'
  BY <1>1, <1>6, <1>t DEF openRevoke
<1>7. CASE dismissError
  BY <1>1, <1>7, <1>t DEF dismissError
<1> QED BY <1>2, <1>3, <1>4, <1>5, <1>6, <1>7, SubmitKeeps, ConfirmKeeps DEF PortalUser

LEMMA PortalStep ==
  ASSUME PortalInv, [PortalNext]_portalVars
  PROVE  PortalInv'
<1>1. CASE UNCHANGED portalVars
  BY <1>1
     DEF portalVars, screenVars, keyHistory, countVars, PortalInv, PortalTypeOK, PortalShape,
         Pending, MintedOnceAndShown, OneKeyPerSubmit, NewKeyIsShown, OneKeyDue, Unserved,
         ListCurrent, LoginIsUnderWay, SessionKnown
<1>2. CASE PortalNext
  <2>1. DOMAIN calls = PageCalls
    BY DEF PortalInv, PortalTypeOK, PageCalls
  <2>2. ASSUME NEW c \in DOMAIN calls,
               \/ getToken(c) \/ refreshFails(c) \/ sessionExpired(c)
               \/ Serve(c) \/ fetchRejects(c) \/ answered(c)
        PROVE  PortalInv'
    BY <2>1, <2>2, TokenKeeps, LossKeeps, ServeKeeps, AnswerKeeps
  <2> QED BY <1>2, <2>2, StartKeeps, LeaveKeeps, UserKeeps, ElsewhereKeeps DEF PortalNext
<1> QED BY <1>1, <1>2

(***************************************************************************)
(* The theorems.                                                           *)
(***************************************************************************)
LEMMA PortalInvariant == PortalSpec => []PortalInv
<1>1. PortalInit => PortalInv
  BY PortalStarts
<1>2. PortalInv /\ [PortalNext]_portalVars => PortalInv'
  BY PortalStep
<1> QED BY <1>1, <1>2, PTL DEF PortalSpec

\* request() sends a creation again only after a 401, so one submit never mints two keys;
\* and a key that was minted is shown, whatever dialog the user has gone to since, unless
\* its answer was lost, failed, or came after the page had gone.
THEOREM SubmitsMintOnce == PortalSpec => []MintedOnceAndShown
<1>1. PortalInv => MintedOnceAndShown
  BY DEF PortalInv
<1> QED BY <1>1, PortalInvariant, PTL

\* At rest the list is the server's: invalidateQueries cancels the answer that was made
\* before the change, except where the model says how the two come to differ.
THEOREM ListIsTheServers == PortalSpec => []ListCatchesUp
<1>1. PortalInv => ListCatchesUp
  BY DEF PortalInv, PortalTypeOK, ListCurrent, ListCatchesUp, Pending
<1> QED BY <1>1, PortalInvariant, PTL

\* Whenever a call has ended in SessionExpiredError the page is on its way to the login,
\* also when another call's refresh had dropped the session first.
THEOREM ExpiryLeadsToLogin == PortalSpec => []LoginIsUnderWay
<1>1. PortalInv => LoginIsUnderWay
  BY DEF PortalInv
<1> QED BY <1>1, PortalInvariant, PTL

LEMMA PageIsFollowed == WebSpec => PortalSpec
<1>1. WebInit => PortalInit
  BY DEF WebInit
<1>2. [WebNext]_webVars => [PortalNext]_portalVars
  BY DEF WebNext, webVars, Waits
<1> QED BY <1>1, <1>2, PTL DEF WebSpec, PortalSpec

\* Beside the others the page behaves as it does alone, and keeps what is shown above: one
\* key per submit, its user's to copy, a list that is the server's, and the login once a
\* session has expired.
THEOREM PageKeepsItsWord == WebSpec => [](MintedOnceAndShown /\ ListCatchesUp /\ LoginIsUnderWay)
BY PageIsFollowed, SubmitsMintOnce, ListIsTheServers, ExpiryLeadsToLogin, PTL

-----------------------------------------------------------------------------
(* The copies by id *)

\* A list of copies holds a receipt once.
OneCopyEach(s) == \A p, q \in DOMAIN s : s[p].id = s[q].id => p = q

CopyLists == {s \in Seq(Copies) : Len(s) <= ByIdCap /\ OneCopyEach(s)}

\* What remembering a receipt does: it comes last, the others stay in their order,
\* and one goes, the first, only where a receipt that was not there is one too many.
LEMMA RememberKeeps ==
  ASSUME NEW copies \in CopyLists, NEW r \in Copies
  PROVE  LET res == rememberCopy(copies, r) IN
         /\ res \in CopyLists
         /\ Len(res) \in DOMAIN res /\ res[Len(res)] = r
         /\ \A k \in DOMAIN res : k # Len(res) =>
              \E p \in DOMAIN copies : res[k] = copies[p] /\ copies[p].id # r.id
         /\ \A p \in DOMAIN copies :
              (/\ copies[p].id # r.id
               /\ p # 1 \/ Len(copies) < ByIdCap \/ r.id \in RowIdsOf(copies))
                => \E k \in DOMAIN res :
                     /\ res[k] = copies[p] /\ k # Len(res)
                     /\ \A l \in DOMAIN res : l > k /\ l # Len(res)
                          => \E q \in DOMAIN copies : q > p /\ res[l] = copies[q]
<1> DEFINE at   == {i \in DOMAIN copies : copies[i].id # r.id}
           rest0 == RowsAt(copies, at)
           kept == Append(rest0, r)
           res  == rememberCopy(copies, r)
           n    == Len(rest0)
<1>1. /\ copies \in Seq(Copies) /\ Len(copies) <= ByIdCap /\ Len(copies) \in Nat
      /\ DOMAIN copies = 1 .. Len(copies) /\ ByIdCap \in Nat /\ ByIdCap >= 1
      /\ \A p, q \in DOMAIN copies : copies[p].id = copies[q].id => p = q
  <2>1. ByIdCap \in Nat /\ ByIdCap >= 1
    BY RowAssumptions
  <2> QED BY <2>1, LenProperties DEF CopyLists, OneCopyEach
<1>2. /\ rest0 \in Seq(Copies) /\ n \in Nat
      /\ \E o \in [1 .. n -> at] :
           /\ \A k \in 1 .. n : rest0[k] = copies[o[k]]
           /\ \A i \in at : \E k \in 1 .. n : o[k] = i
           /\ \A j, k \in 1 .. n : j < k <=> o[j] < o[k]
           /\ \A j, k \in 1 .. n : o[j] = o[k] => j = k
  <2>1. at \in SUBSET DOMAIN copies
    OBVIOUS
  <2> HIDE DEF at
  <2>2. rest0 \in Seq(Copies)
    BY <1>1, <2>1, RowsAtKeeps
  <2> QED BY <1>1, <2>1, <2>2, RowsAtKeeps, LenProperties
<1>3. PICK o \in [1 .. n -> at] :
        /\ \A k \in 1 .. n : rest0[k] = copies[o[k]]
        /\ \A i \in at : \E k \in 1 .. n : o[k] = i
        /\ \A j, k \in 1 .. n : j < k <=> o[j] < o[k]
        /\ \A j, k \in 1 .. n : o[j] = o[k] => j = k
  BY <1>2
<1>4. n <= Len(copies) /\ (n = Len(copies) => at = DOMAIN copies)
  <2>1. at \in SUBSET DOMAIN copies
    OBVIOUS
  <2> HIDE DEF at
  <2>2. n = Cardinality(at) /\ Cardinality(at) <= Len(copies)
        /\ (Cardinality(at) = Len(copies) => at = DOMAIN copies)
    BY <1>1, <2>1, RowsAtLength
  <2> QED BY <2>2
<1>5. /\ kept \in Seq(Copies) /\ Len(kept) = n + 1 /\ kept[n + 1] = r
      /\ \A k \in 1 .. n : kept[k] = rest0[k]
  <2> HIDE DEF rest0, n
  <2>1. n = Len(rest0)
    BY DEF n
  <2> QED BY <1>2, <2>1
<1>6. \A k \in 1 .. n : o[k] \in DOMAIN copies /\ copies[o[k]].id # r.id /\ kept[k] = copies[o[k]]
  BY <1>3, <1>5
<1>7. \A j, k \in 1 .. n + 1 : kept[j].id = kept[k].id => j = k
  <2> SUFFICES ASSUME NEW j \in 1 .. n + 1, NEW k \in 1 .. n + 1, kept[j].id = kept[k].id
               PROVE  j = k
    OBVIOUS
  <2> HIDE DEF kept, rest0, n, at
  <2>1. CASE j = n + 1 /\ k = n + 1
    BY <2>1
  <2>2. CASE j = n + 1 /\ k # n + 1
    BY <1>2, <1>5, <1>6, <2>2, SMTT(30)
  <2>3. CASE j # n + 1 /\ k = n + 1
    BY <1>2, <1>5, <1>6, <2>3, SMTT(30)
  <2>4. CASE j # n + 1 /\ k # n + 1
    <3>1. j \in 1 .. n /\ k \in 1 .. n
      BY <1>2, <2>4
    <3>2. o[j] = o[k]
      BY <1>1, <1>6, <3>1
    <3> QED BY <1>3, <3>1, <3>2
  <2> QED BY <2>1, <2>2, <2>3, <2>4
<1>8. res = IF n + 1 > ByIdCap THEN Tail(kept) ELSE kept
  <2>1. res = IF Len(kept) > ByIdCap THEN Tail(kept) ELSE kept
    BY DEF rememberCopy
  <2> HIDE DEF res, kept, n
  <2> QED BY <1>5, <2>1
<1> HIDE DEF res, kept, n, rest0
<1>9. CASE n + 1 <= ByIdCap
  <2>1. res = kept /\ Len(res) = n + 1 /\ DOMAIN res = 1 .. n + 1
    BY <1>1, <1>2, <1>5, <1>8, <1>9
  <2>2. res \in CopyLists
    BY <1>5, <1>7, <1>9, <2>1 DEF CopyLists, OneCopyEach
  <2>3. Len(res) \in DOMAIN res /\ res[Len(res)] = r
    BY <1>2, <1>5, <2>1
  <2>4. ASSUME NEW k \in DOMAIN res, k # Len(res)
        PROVE  \E p \in DOMAIN copies : res[k] = copies[p] /\ copies[p].id # r.id
    <3>0. k \in 1 .. n + 1 /\ k # n + 1
      BY <2>1, <2>4
    <3>1. k \in 1 .. n
      BY <1>2, <3>0
    <3> QED BY <1>6, <2>1, <3>1
  <2>5. ASSUME NEW p \in DOMAIN copies, copies[p].id # r.id
        PROVE  \E k \in DOMAIN res :
                 /\ res[k] = copies[p] /\ k # Len(res)
                 /\ \A l \in DOMAIN res : l > k /\ l # Len(res)
                      => \E q \in DOMAIN copies : q > p /\ res[l] = copies[q]
    <3>1. PICK k \in 1 .. n : o[k] = p
      BY <1>3, <2>5
    <3>2. k \in DOMAIN res /\ res[k] = copies[p] /\ k # Len(res)
      BY <1>2, <1>6, <2>1, <3>1
    <3>3. ASSUME NEW l \in DOMAIN res, l > k, l # Len(res)
          PROVE  o[l] \in DOMAIN copies /\ o[l] > p /\ res[l] = copies[o[l]]
      <4>1. l \in 1 .. n
        BY <1>2, <2>1, <3>3
      <4> HIDE DEF at
      <4>2. o[k] < o[l] /\ o[l] \in DOMAIN copies /\ res[l] = copies[o[l]]
        BY <1>3, <1>6, <2>1, <3>1, <3>3, <4>1
      <4>3. o[l] \in Nat /\ p \in Nat
        BY <1>1, <4>2
      <4>4. p < o[l]
        BY <3>1, <4>2
      <4>5. o[l] > p
        BY <4>3, <4>4
      <4> QED BY <4>2, <4>5
    <3> QED BY <3>2, <3>3
  <2> QED BY <2>2, <2>3, <2>4, <2>5 DEF res
<1>10. CASE n + 1 > ByIdCap
  <2>1. n = Len(copies) /\ n = ByIdCap /\ at = DOMAIN copies
    <3>1. Len(copies) \in Nat /\ Len(copies) <= ByIdCap /\ ByIdCap \in Nat
      BY <1>1
    <3>2. n = Len(copies) /\ n = ByIdCap
      BY <1>2, <1>4, <1>10, <3>1
    <3> QED BY <1>4, <3>2
  <2>2. /\ res = Tail(kept) /\ res \in Seq(Copies) /\ Len(res) = n /\ DOMAIN res = 1 .. n
        /\ \A k \in 1 .. n : res[k] = kept[k + 1]
    <3>1. kept # <<>>
      BY <1>2, <1>5
    <3>2. res = Tail(kept)
      BY <1>8, <1>10
    <3>3. res \in Seq(Copies) /\ Len(res) = n /\ \A k \in 1 .. Len(res) : res[k] = kept[k + 1]
      BY <1>2, <1>5, <3>1, <3>2, HeadTailProperties
    <3> QED BY <3>2, <3>3, LenProperties
  <2>3. res \in CopyLists
    <3>1. \A j, k \in DOMAIN res : res[j].id = res[k].id => j = k
      <4> SUFFICES ASSUME NEW j \in 1 .. n, NEW k \in 1 .. n, res[j].id = res[k].id
                   PROVE  j = k
        BY <2>2
      <4>1. j + 1 \in 1 .. n + 1 /\ k + 1 \in 1 .. n + 1 /\ kept[j + 1].id = kept[k + 1].id
        BY <1>2, <2>2, SMTT(30)
      <4>2. j + 1 = k + 1
        BY <1>7, <4>1
      <4> QED BY <1>2, <4>2
    <3>2. Len(res) <= ByIdCap /\ res \in Seq(Copies)
      BY <1>1, <2>1, <2>2
    <3>3. OneCopyEach(res)
      BY <3>1 DEF OneCopyEach
    <3> QED BY <3>2, <3>3 DEF CopyLists
  <2>4. Len(res) \in DOMAIN res /\ res[Len(res)] = r
    <3>1. n \in 1 .. n
      BY <1>1, <2>1
    <3>2. res[n] = kept[n + 1] /\ Len(res) = n /\ DOMAIN res = 1 .. n
      BY <2>2, <3>1
    <3> QED BY <1>5, <3>1, <3>2
  <2>5. ASSUME NEW k \in DOMAIN res, k # Len(res)
        PROVE  \E p \in DOMAIN copies : res[k] = copies[p] /\ copies[p].id # r.id
    <3>0. k \in 1 .. n /\ k # n
      BY <2>2, <2>5
    <3>1. k + 1 \in 1 .. n
      BY <1>2, <3>0, SMTT(30)
    <3> QED BY <1>6, <2>2, <3>1
  <2>6. r.id \notin RowIdsOf(copies)
    BY <2>1 DEF RowIdsOf
  <2>7. ASSUME NEW p \in DOMAIN copies, copies[p].id # r.id, p # 1
        PROVE  \E k \in DOMAIN res :
                 /\ res[k] = copies[p] /\ k # Len(res)
                 /\ \A l \in DOMAIN res : l > k /\ l # Len(res)
                      => \E q \in DOMAIN copies : q > p /\ res[l] = copies[q]
    <3>1. PICK j \in 1 .. n : o[j] = p
      BY <1>3, <2>7
    <3>2. PICK i \in 1 .. n : o[i] = 1
      BY <1>1, <1>3, <2>1, <2>7, SMTT(30)
    <3>3. j # 1
      <4>1. o[i] < o[j]
        BY <1>1, <2>7, <3>1, <3>2
      <4>2. i < j
        BY <1>3, <4>1
      <4> QED BY <4>2
    <3>4. j - 1 \in 1 .. n /\ j - 1 # n /\ (j - 1) + 1 = j
      BY <1>2, <3>3
    <3>5. j - 1 \in DOMAIN res /\ res[j - 1] = copies[p] /\ j - 1 # Len(res)
      BY <1>6, <2>2, <3>1, <3>4
    <3>6. ASSUME NEW l \in DOMAIN res, l > j - 1, l # Len(res)
          PROVE  o[l + 1] \in DOMAIN copies /\ o[l + 1] > p /\ res[l] = copies[o[l + 1]]
      <4>1. l + 1 \in 1 .. n /\ l + 1 > j /\ l \in 1 .. n
        <5>1. l \in 1 .. n
          BY <2>2
        <5>2. l # n /\ l > j - 1 /\ j \in 1 .. n
          BY <2>2, <3>6
        <5>3. n \in Nat
          BY <1>2
        <5> QED BY <5>1, <5>2, <5>3
      <4> HIDE DEF at
      <4>2. o[j] < o[l + 1] /\ o[l + 1] \in DOMAIN copies /\ res[l] = copies[o[l + 1]]
        BY <1>3, <1>6, <2>2, <3>1, <4>1
      <4>3. o[l + 1] \in Nat /\ p \in Nat
        BY <1>1, <4>2
      <4>4. p < o[l + 1]
        BY <3>1, <4>2
      <4>5. o[l + 1] > p
        BY <4>3, <4>4
      <4> QED BY <4>2, <4>5
    <3> QED BY <3>5, <3>6
  <2> QED BY <1>1, <2>1, <2>3, <2>4, <2>5, <2>6, <2>7 DEF res
<1>11. n + 1 <= ByIdCap \/ n + 1 > ByIdCap
  BY <1>1, <1>2
<1> QED BY <1>9, <1>10, <1>11 DEF res

-----------------------------------------------------------------------------
(* A batch is remembered one event after the other *)

TakenLast(s) == Max(s)

RememberTable(copies, batch) == CHOOSE g : g = [s \in SUBSET DOMAIN batch |->
   IF s = {} THEN copies ELSE rememberCopy(g[s \ {TakenLast(s)}], batch[TakenLast(s)])]

LEMMA RememberUnfolds ==
  ASSUME NEW copies, NEW batch
  PROVE  FoldLeft(rememberCopy, copies, batch) = RememberTable(copies, batch)[DOMAIN batch]
BY Zenon DEF FoldLeft, MapThenFoldSet, RememberTable, TakenLast

RememberRow(copies, batch, g, s) ==
  IF s = {} THEN copies ELSE rememberCopy(g[s \ {TakenLast(s)}], batch[TakenLast(s)])

\* The last event of a part of a batch.
LEMMA TheLastIsIn ==
  ASSUME NEW batch \in Seq(Copies), NEW s \in SUBSET DOMAIN batch
  PROVE  /\ IsFiniteSet(s) /\ Cardinality(s) \in Nat
         /\ s # {} => /\ TakenLast(s) \in s /\ batch[TakenLast(s)] \in Copies
                      /\ \A i \in s : i <= TakenLast(s)
                      /\ s \ {TakenLast(s)} \in SUBSET DOMAIN batch
                      /\ Cardinality(s \ {TakenLast(s)}) = Cardinality(s) - 1
<1>1. DOMAIN batch = 1 .. Len(batch) /\ Len(batch) \in Nat
  BY LenProperties
<1>2. IsFiniteSet(s) /\ Cardinality(s) \in Nat /\ s \subseteq Nat
  <2>1. 1 \in Int /\ Len(batch) \in Int
    BY <1>1
  <2>2. IsFiniteSet(1 .. Len(batch))
    BY <2>1, FS_Interval
  <2>3. IsFiniteSet(s)
    BY <1>1, <2>2, FS_Subset
  <2> QED BY <1>1, <2>3, FS_CardinalityType
<1>3. ASSUME s # {}
      PROVE  /\ TakenLast(s) \in s /\ batch[TakenLast(s)] \in Copies
             /\ \A i \in s : i <= TakenLast(s)
             /\ s \ {TakenLast(s)} \in SUBSET DOMAIN batch
             /\ Cardinality(s \ {TakenLast(s)}) = Cardinality(s) - 1
  <2>1. TakenLast(s) \in s /\ \A i \in s : TakenLast(s) >= i
    BY <1>2, <1>3, GreatestIsIn DEF TakenLast
  <2>2. \A i \in s : i \in Nat /\ i \in DOMAIN batch /\ batch[i] \in Copies
    BY <1>1, <1>2
  <2>3. \A i \in s : i <= TakenLast(s)
    BY <2>1, <2>2
  <2>4. Cardinality(s \ {TakenLast(s)}) = Cardinality(s) - 1
    BY <1>2, <2>1, FS_RemoveElement
  <2> QED BY <2>1, <2>2, <2>3, <2>4
<1> QED BY <1>2, <1>3

LEMMA RememberTableExists ==
  ASSUME NEW copies \in CopyLists, NEW batch \in Seq(Copies)
  PROVE  \E g \in [SUBSET DOMAIN batch -> CopyLists] :
            \A s \in SUBSET DOMAIN batch : g[s] = RememberRow(copies, batch, g, s)
<1> DEFINE S == DOMAIN batch
           Level(n) == {s \in SUBSET S : Cardinality(s) <= n}
           Row(g, s) == RememberRow(copies, batch, g, s)
           Sol(n)   == {g \in [Level(n) -> CopyLists] : \A s \in Level(n) : g[s] = Row(g, s)}
           Bad      == {n \in Nat : Sol(n) = {}}
<1>1. \A s \in SUBSET S : IsFiniteSet(s) /\ Cardinality(s) \in Nat
  BY TheLastIsIn
<1>2. \A s \in SUBSET S : s # {} => /\ TakenLast(s) \in s /\ batch[TakenLast(s)] \in Copies
                                    /\ s \ {TakenLast(s)} \in SUBSET S
                                    /\ Cardinality(s \ {TakenLast(s)}) = Cardinality(s) - 1
  BY TheLastIsIn
<1>3. 0 \notin Bad
  <2> DEFINE g == [s \in Level(0) |-> copies]
  <2>1. \A s \in Level(0) : s = {}
    <3>1. \A s \in SUBSET S : s # {} => Cardinality(s) # 0
      <4> TAKE s \in SUBSET S
      <4> HAVE s # {}
      <4>1. Cardinality(s) - 1 \in Nat /\ Cardinality(s) \in Nat
        BY <1>1, <1>2
      <4> QED BY <4>1
    <3> QED BY <1>1, <3>1
  <2>2. g \in Sol(0)
    BY <2>1 DEF RememberRow
  <2> QED BY <2>2
<1>4. ASSUME NEW m \in Nat, m # 0, m - 1 \notin Bad PROVE m \notin Bad
  <2>1. m - 1 \in Nat
    BY <1>4
  <2>2. PICK g \in Sol(m - 1) : TRUE
    BY <1>4, <2>1
  <2> DEFINE h == [s \in Level(m) |-> Row(g, s)]
  <2>3. \A s \in Level(m) : s # {} => s \ {TakenLast(s)} \in Level(m - 1)
    <3> TAKE s \in Level(m)
    <3> HAVE s # {}
    <3>1. Cardinality(s) \in Nat /\ Cardinality(s) <= m
      BY <1>1
    <3>2. s \ {TakenLast(s)} \in SUBSET S /\ Cardinality(s \ {TakenLast(s)}) = Cardinality(s) - 1
      BY <1>2
    <3>3. Cardinality(s) - 1 <= m - 1
      BY <3>1
    <3> QED BY <3>2, <3>3
  <2>4. \A s \in Level(m - 1) : s \in Level(m) /\ g[s] \in CopyLists /\ g[s] = Row(g, s)
    <3>1. \A s \in SUBSET S : Cardinality(s) <= m - 1 => Cardinality(s) <= m
      BY <1>1, <2>1
    <3> QED BY <2>2, <3>1
  <2>5. \A s \in Level(m) : h[s] \in CopyLists
    <3> TAKE s \in Level(m)
    <3>1. h[s] = Row(g, s)
      OBVIOUS
    <3>2. ASSUME s # {} PROVE rememberCopy(g[s \ {TakenLast(s)}], batch[TakenLast(s)]) \in CopyLists
      <4>1. g[s \ {TakenLast(s)}] \in CopyLists /\ batch[TakenLast(s)] \in Copies
        BY <1>2, <2>3, <2>4, <3>2
      <4> QED BY <4>1, RememberKeeps
    <3> HIDE DEF h, Level
    <3> QED BY <3>1, <3>2 DEF RememberRow
  <2>6. \A s \in Level(m - 1) : h[s] = g[s]
    BY <2>4
  <2>7. \A s \in Level(m) : h[s] = Row(h, s)
    <3> TAKE s \in Level(m)
    <3>1. h[s] = Row(g, s)
      OBVIOUS
    <3> HIDE DEF h, Level
    <3> QED BY <2>3, <2>6, <3>1 DEF RememberRow
  <2>8. h \in Sol(m)
    <3>1. h \in [Level(m) -> CopyLists]
      <4> HIDE DEF Level, Row
      <4> QED BY <2>5
    <3> HIDE DEF h, Level
    <3> QED BY <2>7, <3>1
  <2> HIDE DEF Sol, h
  <2> QED BY <2>8
<1>5. Bad = {}
  <2> SUFFICES ASSUME Bad # {} PROVE FALSE
    OBVIOUS
  <2>1. Bad \in SUBSET Nat
    OBVIOUS
  <2> HIDE DEF Bad
  <2>2. PICK m \in Bad : \A x \in Bad : m <= x
    BY <2>1, LeastNumber
  <2>3. m \in Nat /\ m # 0 /\ m - 1 \in Nat /\ ~(m <= m - 1)
    BY <1>3, <2>1, <2>2
  <2> QED BY <1>4, <2>2, <2>3
<1>6. Level(Cardinality(S)) = SUBSET S
  <2>1. \A s \in SUBSET S : Cardinality(s) <= Cardinality(S)
    BY <1>1, FS_Subset
  <2> QED BY <2>1
<1>7. Cardinality(S) \in Nat /\ Sol(Cardinality(S)) # {}
  <2>1. Cardinality(S) \in Nat
    BY <1>1
  <2> HIDE DEF Sol
  <2> QED BY <1>5, <2>1
<1> QED BY <1>6, <1>7

\* What is remembered after some events of a batch: of each receipt the last that came,
\* or else the copy that was there.
Remembers(copies, batch, s, res) ==
  /\ res \in CopyLists
  /\ \A k \in DOMAIN res :
       \/ \E j \in s : res[k] = batch[j] /\ \A i \in s : batch[i].id = batch[j].id => i <= j
       \/ \E p \in DOMAIN copies : res[k] = copies[p] /\ \A i \in s : batch[i].id # copies[p].id

LEMMA BatchIsRemembered ==
  ASSUME NEW copies \in CopyLists, NEW batch \in Seq(Copies)
  PROVE  Remembers(copies, batch, DOMAIN batch, FoldLeft(rememberCopy, copies, batch))
<1> DEFINE S == DOMAIN batch
           g == RememberTable(copies, batch)
           Bad == {s \in SUBSET S : ~Remembers(copies, batch, s, g[s])}
<1>1. PICK h \in [SUBSET S -> CopyLists] :
        \A s \in SUBSET S : h[s] = RememberRow(copies, batch, h, s)
  BY RememberTableExists
<1>2. h = [s \in SUBSET S |-> RememberRow(copies, batch, h, s)]
  BY <1>1
<1>3. g = [s \in SUBSET S |-> RememberRow(copies, batch, g, s)]
  BY <1>2 DEF RememberTable, RememberRow
<1>4. \A s \in SUBSET S : g[s] = RememberRow(copies, batch, g, s)
  BY <1>3
<1> HIDE DEF g
<1>5. Bad = {}
  <2> SUFFICES ASSUME Bad # {} PROVE FALSE
    OBVIOUS
  <2>1. Bad \in SUBSET SUBSET S /\ IsFiniteSet(S)
    BY TheLastIsIn
  <2> HIDE DEF Bad
  <2>2. PICK s \in Bad : IsFiniteSet(s) /\ \A y \in s : s \ {y} \notin Bad
    BY <2>1, SmallestBad
  <2>3. s \in SUBSET S /\ ~Remembers(copies, batch, s, g[s])
    BY <2>2 DEF Bad
  <2>4. s # {}
    <3> SUFFICES ASSUME s = {} PROVE FALSE
      OBVIOUS
    <3>1. g[s] = copies
      BY <1>4, <2>3 DEF RememberRow
    <3> QED BY <2>3, <3>1 DEF Remembers
  <2> DEFINE t   == TakenLast(s)
             u   == s \ {t}
             r   == batch[t]
             old == g[u]
  <2>5. t \in s /\ r \in Copies /\ u \in SUBSET S /\ \A i \in s : i <= t
    BY <2>3, <2>4, TheLastIsIn
  <2>6. g[s] = rememberCopy(old, r)
    BY <1>4, <2>3, <2>4 DEF RememberRow
  <2>7. Remembers(copies, batch, u, old)
    BY <2>2, <2>5 DEF Bad
  <2> DEFINE res == rememberCopy(old, r)
  <2>8. /\ res \in CopyLists /\ res[Len(res)] = r
        /\ \A k \in DOMAIN res : k # Len(res) =>
             \E p \in DOMAIN old : res[k] = old[p] /\ old[p].id # r.id
    BY <2>5, <2>7, RememberKeeps DEF Remembers
  <2> HIDE DEF old, res, r
  <2>9. ASSUME NEW k \in DOMAIN res
        PROVE  \/ \E j \in s : res[k] = batch[j] /\ \A i \in s : batch[i].id = batch[j].id => i <= j
               \/ \E p \in DOMAIN copies : res[k] = copies[p] /\ \A i \in s : batch[i].id # copies[p].id
    <3>1. CASE k = Len(res)
      BY <2>5, <2>8, <3>1 DEF r
    <3>2. CASE k # Len(res)
      <4>1. PICK p \in DOMAIN old : res[k] = old[p] /\ old[p].id # r.id
        BY <2>8, <3>2
      <4>2. \/ \E j \in u : old[p] = batch[j] /\ \A i \in u : batch[i].id = batch[j].id => i <= j
            \/ \E q \in DOMAIN copies : old[p] = copies[q] /\ \A i \in u : batch[i].id # copies[q].id
        BY <2>7 DEF Remembers
      <4>3. ASSUME NEW j \in u, old[p] = batch[j], \A i \in u : batch[i].id = batch[j].id => i <= j
            PROVE  j \in s /\ res[k] = batch[j] /\ \A i \in s : batch[i].id = batch[j].id => i <= j
        BY <2>5, <4>1, <4>3 DEF r
      <4>4. ASSUME NEW q \in DOMAIN copies, old[p] = copies[q], \A i \in u : batch[i].id # copies[q].id
            PROVE  res[k] = copies[q] /\ \A i \in s : batch[i].id # copies[q].id
        BY <2>5, <4>1, <4>4 DEF r
      <4> QED BY <4>2, <4>3, <4>4
    <3> QED BY <3>1, <3>2
  <2>10. Remembers(copies, batch, s, res)
    BY <2>8, <2>9 DEF Remembers
  <2> QED BY <2>3, <2>6, <2>10 DEF res
<1>6. Remembers(copies, batch, S, g[S])
  <2>1. S \in SUBSET S
    OBVIOUS
  <2> QED BY <1>5, <2>1
<1>7. FoldLeft(rememberCopy, copies, batch) = g[S]
  BY RememberUnfolds DEF g
<1> QED BY <1>6, <1>7

-----------------------------------------------------------------------------
(* The live rows *)

LastOf(batch, id, j) ==
  /\ j \in DOMAIN batch /\ batch[j].id = id
  /\ \A l \in DOMAIN batch : batch[l].id = id => l <= j

\* A row that the batch has an event of becomes the last of them, and others stay.
LEMMA PatchedIs ==
  ASSUME NEW rs \in Seq(Copies), NEW batch \in Seq(Copies)
  PROVE  LET pat == patched(rs, batch) IN
         /\ pat \in Seq(Copies) /\ Len(pat) = Len(rs) /\ DOMAIN pat = DOMAIN rs
         /\ \A i \in DOMAIN rs :
              /\ pat[i].id = rs[i].id
              /\ rs[i].id \notin RowIdsOf(batch) => pat[i] = rs[i]
              /\ rs[i].id \in RowIdsOf(batch) =>
                   \E j \in DOMAIN batch : LastOf(batch, rs[i].id, j) /\ pat[i] = batch[j]
<1> DEFINE pat == patched(rs, batch)
           of(i) == {j \in DOMAIN batch : batch[j].id = rs[i].id}
<1>1. /\ DOMAIN rs = 1 .. Len(rs) /\ Len(rs) \in Nat /\ \A i \in DOMAIN rs : rs[i] \in Copies
      /\ DOMAIN batch = 1 .. Len(batch) /\ \A j \in DOMAIN batch : batch[j] \in Copies
  BY LenProperties, ElementOfSeq
<1>2. DOMAIN pat = DOMAIN rs
  BY DEF patched
<1>3. ASSUME NEW i \in DOMAIN rs, rs[i].id \in RowIdsOf(batch)
      PROVE  /\ pat[i] \in Copies /\ pat[i].id = rs[i].id
             /\ \E j \in DOMAIN batch : LastOf(batch, rs[i].id, j) /\ pat[i] = batch[j]
  <2>1. of(i) # {} /\ of(i) \in SUBSET DOMAIN batch
    BY <1>3 DEF RowIdsOf
  <2>2. TakenLast(of(i)) \in of(i) /\ \A l \in of(i) : l <= TakenLast(of(i))
    <3> HIDE DEF of
    <3> QED BY <2>1, TheLastIsIn
  <2>3. pat[i] = batch[TakenLast(of(i))]
    BY <1>3 DEF patched, TakenLast
  <2>4. LastOf(batch, rs[i].id, TakenLast(of(i)))
    BY <2>2 DEF LastOf
  <2> QED BY <1>1, <2>2, <2>3, <2>4
<1>4. ASSUME NEW i \in DOMAIN rs, rs[i].id \notin RowIdsOf(batch) PROVE pat[i] = rs[i]
  BY <1>4 DEF patched
<1> HIDE DEF pat
<1>5. \A i \in 1 .. Len(rs) : pat[i] \in Copies
  BY <1>1, <1>3, <1>4
<1>6. pat \in Seq(Copies) /\ Len(pat) = Len(rs)
  <2>1. pat = [i \in 1 .. Len(rs) |-> pat[i]]
    <3>1. pat = [i \in DOMAIN rs |-> pat[i]]
      BY <1>2 DEF patched, pat
    <3> QED BY <1>1, <3>1
  <2> QED BY <1>1, <1>2, <1>5, <2>1
<1> QED BY <1>2, <1>3, <1>4, <1>6 DEF pat

\* The rows after a batch.
NextRows(rs, batch) ==
  LET new == fresh(batch, RowIdsOf(rs)) IN
  IF new = <<>> THEN patched(rs, batch)
  ELSE cutRows(Reverse(new) \o patched(rs, batch))

\* They are the new ones, the last of the batch first, and then those that were, down
\* to the cap.
LEMMA RowsAfter ==
  ASSUME NEW rs \in Seq(Copies), Len(rs) <= RowCap, NEW batch \in Seq(Copies)
  PROVE  LET new == fresh(batch, RowIdsOf(rs))
             pat == patched(rs, batch)
             n   == Len(new)
             R   == NextRows(rs, batch)
         IN /\ n \in Nat /\ n <= Len(batch) /\ new \in Seq(Copies)
            /\ \E o \in [1 .. n -> DOMAIN batch] :
                 /\ \A k \in 1 .. n : new[k] = batch[o[k]] /\ new[k].id \notin RowIdsOf(rs)
                 /\ \A j \in DOMAIN batch : batch[j].id \notin RowIdsOf(rs)
                       => \E k \in 1 .. n : o[k] = j
                 /\ \A j, k \in 1 .. n : j < k <=> o[j] < o[k]
            /\ R \in Seq(Copies) /\ Len(R) <= RowCap /\ Len(R) \in Nat
            /\ Len(R) <= n + Len(rs) /\ (n <= RowCap => n <= Len(R))
            /\ \A i \in 1 .. Len(R) : i <= n => n - i + 1 \in 1 .. n /\ R[i] = new[n - i + 1]
            /\ \A i \in 1 .. Len(R) : i > n => i - n \in DOMAIN rs /\ R[i] = pat[i - n]
<1> DEFINE at  == {i \in DOMAIN batch : batch[i].id \notin RowIdsOf(rs)}
           new == fresh(batch, RowIdsOf(rs))
           pat == patched(rs, batch)
           n   == Len(new)
           R   == NextRows(rs, batch)
<1>1. at \in SUBSET DOMAIN batch /\ new = RowsAt(batch, at)
  BY DEF fresh
<1>2. /\ new \in Seq(Copies) /\ n \in Nat
      /\ \E o \in [1 .. n -> at] :
           /\ \A k \in 1 .. n : new[k] = batch[o[k]]
           /\ \A i \in at : \E k \in 1 .. n : o[k] = i
           /\ \A j, k \in 1 .. n : j < k <=> o[j] < o[k]
  <2> HIDE DEF at
  <2>1. new \in Seq(Copies)
    BY <1>1, RowsAtKeeps
  <2>2. n \in Nat
    BY <2>1, LenProperties
  <2> HIDE DEF new
  <2>3. new = RowsAt(batch, at) /\ n = Len(RowsAt(batch, at))
    BY <1>1
  <2> HIDE DEF n
  <2>4. \E o \in [1 .. n -> at] :
           /\ \A k \in 1 .. n : RowsAt(batch, at)[k] = batch[o[k]]
           /\ \A i \in at : \E k \in 1 .. n : o[k] = i
           /\ \A j, k \in 1 .. n : j < k <=> o[j] < o[k]
    BY <1>1, <2>3, RowsAtKeeps
  <2> QED BY <2>1, <2>2, <2>3, <2>4
<1>3. n <= Len(batch)
  <2> HIDE DEF at
  <2> QED BY <1>1, RowsAtLength
<1>4. \E o \in [1 .. n -> DOMAIN batch] :
                 /\ \A k \in 1 .. n : new[k] = batch[o[k]] /\ new[k].id \notin RowIdsOf(rs)
                 /\ \A j \in DOMAIN batch : batch[j].id \notin RowIdsOf(rs)
                       => \E k \in 1 .. n : o[k] = j
                 /\ \A j, k \in 1 .. n : j < k <=> o[j] < o[k]
  <2>1. PICK o \in [1 .. n -> at] :
           /\ \A k \in 1 .. n : new[k] = batch[o[k]]
           /\ \A i \in at : \E k \in 1 .. n : o[k] = i
           /\ \A j, k \in 1 .. n : j < k <=> o[j] < o[k]
    BY <1>2
  <2> HIDE DEF new, n
  <2>2. o \in [1 .. n -> DOMAIN batch]
    BY <1>1
  <2>3. \A k \in 1 .. n : new[k] = batch[o[k]] /\ new[k].id \notin RowIdsOf(rs)
    BY <2>1
  <2>4. \A j \in DOMAIN batch : batch[j].id \notin RowIdsOf(rs) => \E k \in 1 .. n : o[k] = j
    BY <2>1
  <2> QED BY <2>1, <2>2, <2>3, <2>4
<1>5. pat \in Seq(Copies) /\ Len(pat) = Len(rs) /\ Len(rs) \in Nat /\ DOMAIN rs = 1 .. Len(rs)
  BY PatchedIs, LenProperties
<1>6. RowCap \in Nat /\ RowCap >= 1
  BY RowAssumptions
<1>7. R = IF new = <<>> THEN pat ELSE cutRows(Reverse(new) \o pat)
  BY DEF NextRows
<1> HIDE DEF new, pat, R, at
<1>8. CASE new = <<>>
  <2>1. n = 0 /\ R = pat /\ Len(R) = Len(rs)
    BY <1>5, <1>7, <1>8
  <2>2. /\ R \in Seq(Copies) /\ Len(R) <= RowCap /\ Len(R) \in Nat
        /\ Len(R) <= n + Len(rs) /\ (n <= RowCap => n <= Len(R))
    <3> HIDE DEF n
    <3> QED BY <1>5, <1>6, <2>1
  <2>3. \A i \in 1 .. Len(R) : ~(i <= n) /\ i - n \in DOMAIN rs /\ R[i] = pat[i - n]
    <3> HIDE DEF n
    <3> QED BY <1>5, <2>1
  <2> QED BY <1>2, <1>3, <1>4, <2>2, <2>3 DEF R, new, pat
<1>9. CASE new # <<>>
  <2> DEFINE rev == Reverse(new)
             all == rev \o pat
             m   == Min({RowCap, Len(all)})
  <2>1. rev \in Seq(Copies) /\ Len(rev) = n /\ \A i \in 1 .. n : n - i + 1 \in 1 .. n /\ rev[i] = new[n - i + 1]
    <3>1. rev = [i \in 1 .. n |-> new[n - i + 1]]
      BY DEF Reverse
    <3>2. \A i \in 1 .. n : n - i + 1 \in 1 .. n
      <4> HIDE DEF n
      <4> QED BY <1>2
    <3>3. \A i \in 1 .. n : new[n - i + 1] \in Copies
      BY <1>2, <3>2, ElementOfSeq
    <3> HIDE DEF rev, n
    <3>4. rev \in Seq(Copies) /\ Len(rev) = n
      BY <1>2, <3>1, <3>3
    <3> QED BY <3>1, <3>2, <3>4
  <2> HIDE DEF rev
  <2>2. /\ all \in Seq(Copies) /\ Len(all) = n + Len(rs)
        /\ \A i \in 1 .. n + Len(rs) : all[i] = IF i <= n THEN rev[i] ELSE pat[i - n]
    <3>1. /\ all \in Seq(Copies) /\ Len(all) = Len(rev) + Len(pat)
          /\ \A i \in 1 .. Len(rev) + Len(pat) :
               all[i] = IF i <= Len(rev) THEN rev[i] ELSE pat[i - Len(rev)]
      <4>1. rev \in Seq(Copies) /\ pat \in Seq(Copies)
        BY <1>5, <2>1
      <4> HIDE DEF n
      <4> QED BY <4>1, ConcatProperties
    <3>2. Len(rev) = n /\ Len(pat) = Len(rs)
      BY <1>5, <2>1
    <3> HIDE DEF n, all
    <3> QED BY <3>1, <3>2
  <2> HIDE DEF all
  <2>3. Len(all) \in Nat
    BY <2>2, LenProperties
  <2>4. m \in Nat /\ m <= RowCap /\ m <= Len(all) /\ (m = RowCap \/ m = Len(all))
    <3>1. \E x \in {RowCap, Len(all)} : \A y \in {RowCap, Len(all)} : x =< y
      BY <1>6, <2>3
    <3>2. m \in {RowCap, Len(all)} /\ \A y \in {RowCap, Len(all)} : m =< y
      BY <3>1 DEF Min
    <3> QED BY <1>6, <2>3, <3>2
  <2>5. R = SubSeq(all, 1, m)
    BY <1>7, <1>9 DEF cutRows, all, rev
  <2> HIDE DEF m
  <2>6. R \in Seq(Copies) /\ Len(R) = m /\ \A i \in 1 .. m : R[i] = all[i]
    <3>1. \A i \in 1 .. m : i \in 1 .. Len(all) /\ all[i] \in Copies
      BY <2>2, <2>3, <2>4, ElementOfSeq
    <3>2. 1 \in Int /\ m \in Int
      BY <2>4
    <3>3. /\ SubSeq(all, 1, m) \in Seq(Copies)
          /\ Len(SubSeq(all, 1, m)) = IF 1 <= m THEN m - 1 + 1 ELSE 0
          /\ \A i \in 1 .. m - 1 + 1 : SubSeq(all, 1, m)[i] = all[1 + i - 1]
      BY <3>1, <3>2, SubSeqProperties
    <3>4. \A i \in 1 .. m : i \in 1 .. m - 1 + 1 /\ 1 + i - 1 = i
      BY <2>4
    <3>5. Len(SubSeq(all, 1, m)) = m
      BY <2>4, <3>3
    <3> QED BY <2>5, <3>3, <3>4, <3>5
  <2>7. /\ Len(R) <= RowCap /\ Len(R) \in Nat
        /\ Len(R) <= n + Len(rs) /\ (n <= RowCap => n <= Len(R))
    <3> HIDE DEF n
    <3>1. Len(R) = m /\ Len(all) = n + Len(rs) /\ n \in Nat /\ Len(rs) \in Nat
      BY <1>2, <1>5, <2>2, <2>6 DEF n
    <3> QED BY <1>6, <2>4, <3>1
  <2>8. \A i \in 1 .. Len(R) : i \in 1 .. n + Len(rs) /\ R[i] = all[i]
    <3>1. \A i \in 1 .. m : i \in 1 .. Len(all)
      BY <2>3, <2>4
    <3> QED BY <2>2, <2>6, <3>1
  <2>9. \A i \in 1 .. Len(R) : i <= n => n - i + 1 \in 1 .. n /\ R[i] = new[n - i + 1]
    <3> HIDE DEF n
    <3> TAKE i \in 1 .. Len(R)
    <3> HAVE i <= n
    <3>1. i \in 1 .. n
      BY <1>2, <2>7 DEF n
    <3> QED BY <2>1, <2>2, <2>8, <3>1
  <2>10. \A i \in 1 .. Len(R) : i > n => i - n \in DOMAIN rs /\ R[i] = pat[i - n]
    <3> HIDE DEF n
    <3> TAKE i \in 1 .. Len(R)
    <3> HAVE i > n
    <3>0. n \in Nat /\ i \in Nat
      BY <1>2, <2>7 DEF n
    <3>1. i \in 1 .. n + Len(rs) /\ R[i] = all[i]
      BY <2>8
    <3>2. ~(i <= n) /\ i - n \in 1 .. Len(rs)
      BY <1>5, <3>0, <3>1
    <3> QED BY <1>5, <2>2, <3>1, <3>2
  <2> QED BY <1>2, <1>3, <1>4, <2>6, <2>7, <2>9, <2>10 DEF R, new, pat
<1> QED BY <1>8, <1>9

\* Two rows of one receipt have joined in one batch, and only one of them streams.
RowsHold(rs, known, both) ==
  /\ rs \in Seq(Copies) /\ Len(rs) <= RowCap
  /\ \A i, j \in DOMAIN rs : i # j /\ rs[i].id = rs[j].id
       => rs[i].id \in both /\ rs[i].state # rs[j].state
  /\ \A i \in DOMAIN rs : rs[i].state = "open" /\ rs[i].id \in known => rs[i].id \in both

\* A receipt's events come in their order, each once, and none after the last; one that
\* is among the rows is there once.
BatchFits(rs, known, batch) ==
  /\ batch \in Seq(Copies)
  /\ \A i, j \in DOMAIN batch : i < j /\ batch[i].id = batch[j].id
       => batch[i].state = "open" /\ batch[j].state = "settled"
  /\ \A i \in DOMAIN batch, k, l \in DOMAIN rs : batch[i].id = rs[k].id /\ rs[l].id = rs[k].id => l = k
  /\ \A i \in DOMAIN batch : batch[i].id \notin known

NowHeard(known, batch) == known \cup {r.id : r \in {x \in Range(batch) : x.state = "settled"}}

NowJoined(both, new) ==
  both \cup {new[i].id : i \in {j \in DOMAIN new : \E k \in 1 .. j - 1 : new[k].id = new[j].id}}

LEMMA UpsertKeeps ==
  ASSUME NEW rs, NEW known, NEW both, NEW batch,
         RowsHold(rs, known, both), BatchFits(rs, known, batch)
  PROVE  LET R == NextRows(rs, batch) IN
         /\ RowsHold(R, NowHeard(known, batch), NowJoined(both, fresh(batch, RowIdsOf(rs))))
         /\ \A i \in DOMAIN R : (\E j \in DOMAIN batch : R[i] = batch[j])
                                \/ (\E k \in DOMAIN rs : R[i] = rs[k])
<1> DEFINE new == fresh(batch, RowIdsOf(rs))
           pat == patched(rs, batch)
           n   == Len(new)
           R   == NextRows(rs, batch)
           H   == NowHeard(known, batch)
           J   == NowJoined(both, new)
<1>1. rs \in Seq(Copies) /\ Len(rs) <= RowCap /\ batch \in Seq(Copies)
  BY DEF RowsHold, BatchFits
<1>2. /\ n \in Nat /\ new \in Seq(Copies)
      /\ \E o \in [1 .. n -> DOMAIN batch] :
           /\ \A k \in 1 .. n : new[k] = batch[o[k]] /\ new[k].id \notin RowIdsOf(rs)
           /\ \A j \in DOMAIN batch : batch[j].id \notin RowIdsOf(rs) => \E k \in 1 .. n : o[k] = j
           /\ \A j, k \in 1 .. n : j < k <=> o[j] < o[k]
      /\ R \in Seq(Copies) /\ Len(R) <= RowCap /\ Len(R) \in Nat
      /\ \A i \in 1 .. Len(R) : i <= n => n - i + 1 \in 1 .. n /\ R[i] = new[n - i + 1]
      /\ \A i \in 1 .. Len(R) : i > n => i - n \in DOMAIN rs /\ R[i] = pat[i - n]
  BY <1>1, RowsAfter
<1>3. PICK o \in [1 .. n -> DOMAIN batch] :
           /\ \A k \in 1 .. n : new[k] = batch[o[k]] /\ new[k].id \notin RowIdsOf(rs)
           /\ \A j \in DOMAIN batch : batch[j].id \notin RowIdsOf(rs) => \E k \in 1 .. n : o[k] = j
           /\ \A j, k \in 1 .. n : j < k <=> o[j] < o[k]
  BY <1>2
<1>4. \A i \in DOMAIN rs :
        /\ pat[i].id = rs[i].id
        /\ rs[i].id \notin RowIdsOf(batch) => pat[i] = rs[i]
        /\ rs[i].id \in RowIdsOf(batch) =>
             \E j \in DOMAIN batch :
               /\ batch[j].id = rs[i].id /\ pat[i] = batch[j]
               /\ \A m \in DOMAIN batch : batch[m].id = rs[i].id => m <= j
  BY <1>1, PatchedIs, SMTT(30) DEF LastOf
<1>5. DOMAIN R = 1 .. Len(R) /\ DOMAIN new = 1 .. n /\ DOMAIN batch = 1 .. Len(batch) /\ DOMAIN rs = 1 .. Len(rs)
      /\ Len(batch) \in Nat /\ Len(rs) \in Nat
  BY <1>1, <1>2, LenProperties
<1> HIDE DEF new, pat, n, R
\* A row is a new one or one of those that were.
<1>6. ASSUME NEW i \in DOMAIN R, i <= n
      PROVE  \E a \in 1 .. n : a = n - i + 1 /\ R[i] = new[a] /\ new[a] = batch[o[a]] /\ o[a] \in DOMAIN batch
  <2>1. i \in 1 .. n /\ n - i + 1 \in 1 .. n
    BY <1>2, <1>5, <1>6
  <2>2. R[i] = new[n - i + 1]
    BY <1>2, <1>5, <1>6
  <2>3. new[n - i + 1] = batch[o[n - i + 1]] /\ o[n - i + 1] \in DOMAIN batch
    BY <1>3, <2>1
  <2> QED BY <2>1, <2>2, <2>3
<1>7. ASSUME NEW i \in DOMAIN R, i > n
      PROVE  \E k \in DOMAIN rs : k = i - n /\ R[i] = pat[k]
  BY <1>2, <1>5, <1>7
<1>8. \A i \in DOMAIN R : i <= n \/ i > n
  BY <1>2, <1>5
\* An old row of a receipt that the batch brings is alone, and settles if the batch says so.
<1>9. ASSUME NEW k \in DOMAIN rs, rs[k].id \in RowIdsOf(batch)
      PROVE  /\ \E j \in DOMAIN batch : pat[k] = batch[j]
             /\ pat[k].id = rs[k].id /\ rs[k].id \notin known
             /\ \A m \in DOMAIN batch : batch[m].id = rs[k].id /\ batch[m].state = "settled"
                                         => pat[k].state = "settled"
             /\ \A l \in DOMAIN rs : rs[l].id = rs[k].id => l = k
  <2>1. PICK j \in DOMAIN batch : /\ batch[j].id = rs[k].id /\ pat[k] = batch[j]
                                  /\ \A m \in DOMAIN batch : batch[m].id = rs[k].id => m <= j
    BY <1>4, <1>9
  <2>2. \A l \in DOMAIN rs : rs[l].id = rs[k].id => l = k
    BY <2>1 DEF BatchFits
  <2>3. ASSUME NEW m \in DOMAIN batch, batch[m].id = rs[k].id, batch[m].state = "settled"
        PROVE  pat[k].state = "settled"
    <3>1. m = j \/ m < j
      BY <1>5, <2>1, <2>3
    <3>2. m < j => batch[m].state = "open"
      BY <2>1, <2>3 DEF BatchFits
    <3> QED BY <2>1, <2>3, <3>1, <3>2
  <2>4. rs[k].id \notin known
    BY <2>1 DEF BatchFits
  <2> QED BY <2>1, <2>2, <2>3, <2>4
\* Of two new rows of a receipt the later event's has joined.
<1>10. ASSUME NEW a \in 1 .. n, NEW b \in 1 .. n, new[a].id = new[b].id, a < b
       PROVE  new[a].id \in J /\ new[a].state = "open" /\ new[b].state = "settled"
  <2>1. a \in 1 .. b - 1 /\ b \in DOMAIN new
    BY <1>2, <1>5, <1>10
  <2>2. new[b].id \in J
    BY <1>10, <2>1 DEF NowJoined
  <2>3. o[a] < o[b] /\ o[a] \in DOMAIN batch /\ o[b] \in DOMAIN batch
    BY <1>3, <1>10
  <2>4. new[a] = batch[o[a]] /\ new[b] = batch[o[b]]
    BY <1>3
  <2> QED BY <1>10, <2>2, <2>3, <2>4 DEF BatchFits
<1>11. ASSUME NEW i \in DOMAIN R, NEW j \in DOMAIN R, i # j, R[i].id = R[j].id
       PROVE  R[i].id \in J /\ R[i].state # R[j].state
  <2>1. CASE i <= n /\ j <= n
    <3>1. PICK a \in 1 .. n : a = n - i + 1 /\ R[i] = new[a]
      BY <1>6, <2>1
    <3>2. PICK b \in 1 .. n : b = n - j + 1 /\ R[j] = new[b]
      BY <1>6, <2>1
    <3>3. a < b \/ b < a
      <4>1. i \in Nat /\ j \in Nat /\ n \in Nat
        BY <1>2, <1>5
      <4> QED BY <1>11, <3>1, <3>2, <4>1
    <3> QED BY <1>10, <1>11, <3>1, <3>2, <3>3
  <2>2. ASSUME NEW p \in DOMAIN R, NEW q \in DOMAIN R, p <= n, q > n, R[p].id = R[q].id
        PROVE  FALSE
    <3>1. PICK a \in 1 .. n : R[p] = new[a]
      BY <1>6, <2>2
    <3>2. PICK k \in DOMAIN rs : R[q] = pat[k]
      BY <1>7, <2>2
    <3>3. R[q].id \in RowIdsOf(rs)
      BY <1>4, <3>2 DEF RowIdsOf
    <3> QED BY <1>3, <2>2, <3>1, <3>3
  <2>3. CASE i > n /\ j > n
    <3>1. PICK k \in DOMAIN rs : k = i - n /\ R[i] = pat[k]
      BY <1>7, <2>3
    <3>2. PICK l \in DOMAIN rs : l = j - n /\ R[j] = pat[l]
      BY <1>7, <2>3
    <3>3. k # l
      <4>1. i \in Nat /\ j \in Nat /\ n \in Nat
        BY <1>2, <1>5
      <4> QED BY <1>11, <3>1, <3>2, <4>1
    <3>4. rs[k].id = rs[l].id
      BY <1>4, <1>11, <3>1, <3>2
    <3>5. rs[k].id \notin RowIdsOf(batch) /\ rs[l].id \notin RowIdsOf(batch)
      BY <1>9, <3>3, <3>4
    <3>6. R[i] = rs[k] /\ R[j] = rs[l]
      BY <1>4, <3>1, <3>2, <3>5
    <3>7. rs[k].id \in both /\ rs[k].state # rs[l].state
      BY <3>3, <3>4 DEF RowsHold
    <3> QED BY <3>6, <3>7 DEF NowJoined
  <2> QED BY <1>8, <1>11, <2>1, <2>2, <2>3
<1>12. ASSUME NEW i \in DOMAIN R, R[i].state = "open", R[i].id \in H
       PROVE  R[i].id \in J
  <2>1. ASSUME R[i].id \notin known
        PROVE  \E m \in DOMAIN batch : batch[m].id = R[i].id /\ batch[m].state = "settled"
    BY <1>12, <2>1 DEF NowHeard, Range
  <2>2. CASE i <= n
    <3>1. PICK a \in 1 .. n : R[i] = new[a] /\ new[a] = batch[o[a]] /\ o[a] \in DOMAIN batch
      BY <1>6, <2>2
    <3>2. R[i].id \notin known
      BY <3>1 DEF BatchFits
    <3>3. PICK m \in DOMAIN batch : batch[m].id = R[i].id /\ batch[m].state = "settled"
      BY <2>1, <3>2
    <3>4. PICK b \in 1 .. n : o[b] = m
      BY <1>3, <3>1, <3>3
    <3>5. new[b].id = new[a].id /\ new[b].state = "settled" /\ new[a].state = "open"
      BY <1>3, <1>12, <3>1, <3>3, <3>4
    <3>6. a # b
      BY <3>5
    <3>7. a < b \/ b < a
      BY <1>2, <3>6
    <3>8. a < b
      BY <1>10, <3>5, <3>7
    <3> QED BY <1>10, <3>1, <3>5, <3>8
  <2>3. CASE i > n
    <3>1. PICK k \in DOMAIN rs : R[i] = pat[k]
      BY <1>7, <2>3
    <3>2. rs[k].id \notin RowIdsOf(batch)
      <4> SUFFICES ASSUME rs[k].id \in RowIdsOf(batch) PROVE FALSE
        OBVIOUS
      <4>1. R[i].id = rs[k].id /\ R[i].id \notin known
        BY <1>9, <3>1
      <4> QED BY <1>9, <1>12, <2>1, <3>1, <4>1
    <3>3. R[i] = rs[k]
      BY <1>4, <3>1, <3>2
    <3>4. R[i].id \in known
      BY <2>1, <3>2, <3>3 DEF RowIdsOf
    <3> QED BY <1>12, <3>3, <3>4 DEF RowsHold, NowJoined
  <2> QED BY <1>8, <2>2, <2>3
<1>13. ASSUME NEW i \in DOMAIN R
       PROVE  (\E j \in DOMAIN batch : R[i] = batch[j]) \/ (\E k \in DOMAIN rs : R[i] = rs[k])
  <2>1. CASE i <= n
    BY <1>6, <2>1
  <2>2. CASE i > n
    <3>1. PICK k \in DOMAIN rs : R[i] = pat[k]
      BY <1>7, <2>2
    <3> QED BY <1>4, <1>9, <3>1
  <2> QED BY <1>8, <2>1, <2>2
<1>14. RowsHold(R, H, J)
  <2> HIDE DEF H, J
  <2> QED BY <1>2, <1>11, <1>12 DEF RowsHold
<1> QED BY <1>13, <1>14 DEF R, new

\* What a list says of the receipts was so once.
Told(s, made_) == \A i \in DOMAIN s : made_[s[i].id] \in {s[i].state, "settled"}

\* Of the receipts that were in flight only those overtaken stream in the drawer when
\* they have been heard to settle.
DrawerHolds(copies, known, late) ==
  \A p \in DOMAIN copies : copies[p].state = "open" /\ copies[p].id \in known => copies[p].id \in late

\* The receipts that can come between a row's copy and the end of the Map while the row
\* is among the rows: those behind it there and those that stream, without the rows above.
Behind(i, p) ==
  ({byId[q].id : q \in {k \in DOMAIN byId : k > p}} \cup Streaming)
    \ ({liveRows[k].id : k \in 1 .. i - 1} \cup {liveRows[i].id})

HasRoom(i) ==
  /\ made[liveRows[i].id] = "open"
  /\ \E p \in DOMAIN byId :
       /\ byId[p].id = liveRows[i].id
       /\ IsFiniteSet(Behind(i, p)) /\ Cardinality(Behind(i, p)) <= MaxStreams - 1

StreamsFit ==
  /\ IsFiniteSet(Streaming) /\ Cardinality(Streaming) <= MaxStreams
  /\ \A i \in DOMAIN liveRows : liveRows[i].state = "open" => HasRoom(i)

RowsAre ==
  /\ rowsMode \in {"api", "mock"} /\ made \in [RowIds -> {"absent", "open", "settled"}]
  /\ byId \in CopyLists
  /\ readPage = NoPage \/ (readPage \in Copies /\ made[readPage.id] \in {readPage.state, "settled"})

RowsAgree ==
  /\ RowsHold(liveRows, heard, joined) /\ BatchFits(liveRows, heard, pending)
  /\ \A id \in heard : id \in RowIds /\ made[id] = "settled"
  /\ Told(liveRows, made) /\ Told(byId, made) /\ Told(pending, made)
  /\ DrawerHolds(byId, heard, overtaken)

RowInv ==
  /\ RowsAre /\ RowsAgree
  /\ rowsMode = "mock" => pending = <<>> /\ readPage = NoPage /\ StreamsFit

-----------------------------------------------------------------------------

LEMMA EmptyBatchFits ==
  ASSUME NEW rs, NEW known
  PROVE  BatchFits(rs, known, <<>>)
BY DEF BatchFits

LEMMA RememberOne ==
  ASSUME NEW copies \in CopyLists, NEW r \in Copies
  PROVE  FoldLeft(rememberCopy, copies, <<r>>) = rememberCopy(copies, r)
<1> DEFINE batch == <<r>>
           S == DOMAIN batch
           g == RememberTable(copies, batch)
<1>1. batch \in Seq(Copies) /\ S = {1} /\ batch[1] = r
  OBVIOUS
<1> HIDE DEF batch
<1>2. PICK h \in [SUBSET S -> CopyLists] :
        \A s \in SUBSET S : h[s] = RememberRow(copies, batch, h, s)
  BY <1>1, RememberTableExists
<1>3. h = [s \in SUBSET S |-> RememberRow(copies, batch, h, s)]
  BY <1>2
<1>4. g = [s \in SUBSET S |-> RememberRow(copies, batch, g, s)]
  BY <1>3 DEF RememberTable, RememberRow
<1>5. \A s \in SUBSET S : g[s] = RememberRow(copies, batch, g, s)
  BY <1>4
<1> HIDE DEF g
<1>6. TakenLast({1}) = 1
  <2>1. {1} \in SUBSET DOMAIN batch /\ {1} # {}
    BY <1>1
  <2>2. TakenLast({1}) \in {1}
    BY <1>1, <2>1, TheLastIsIn
  <2> QED BY <2>2
<1>7. g[{}] = copies
  BY <1>5 DEF RememberRow
<1>8. g[{1}] = rememberCopy(g[{1} \ {1}], batch[1])
  BY <1>1, <1>5, <1>6 DEF RememberRow
<1>9. g[S] = rememberCopy(copies, r)
  BY <1>1, <1>7, <1>8
<1> QED BY <1>9, RememberUnfolds DEF g, batch

\* What a batch does to the rows and the copies.
LEMMA UpsertStep ==
  ASSUME NEW batch, upsertMany(batch), byId \in CopyLists,
         RowsHold(liveRows, heard, joined), BatchFits(liveRows, heard, batch)
  PROVE  /\ liveRows' = NextRows(liveRows, batch)
         /\ byId' = FoldLeft(rememberCopy, byId, batch) /\ byId' \in CopyLists
         /\ heard' = NowHeard(heard, batch)
         /\ RowsHold(liveRows', heard', joined')
         /\ \A i \in DOMAIN liveRows' : (\E j \in DOMAIN batch : liveRows'[i] = batch[j])
                                        \/ (\E k \in DOMAIN liveRows : liveRows'[i] = liveRows[k])
         /\ \A p \in DOMAIN byId' :
              \/ \E j \in DOMAIN batch : /\ byId'[p] = batch[j]
                                         /\ \A i \in DOMAIN batch : batch[i].id = batch[j].id => i <= j
              \/ \E q \in DOMAIN byId : /\ byId'[p] = byId[q]
                                        /\ \A i \in DOMAIN batch : batch[i].id # byId[q].id
<1>1. /\ liveRows' = NextRows(liveRows, batch) /\ heard' = NowHeard(heard, batch)
      /\ joined' = NowJoined(joined, fresh(batch, RowIdsOf(liveRows)))
      /\ byId' = FoldLeft(rememberCopy, byId, batch)
  BY DEF upsertMany, NextRows, NowHeard, NowJoined, knownIn
<1>2. /\ RowsHold(liveRows', heard', joined')
      /\ \A i \in DOMAIN liveRows' : (\E j \in DOMAIN batch : liveRows'[i] = batch[j])
                                     \/ (\E k \in DOMAIN liveRows : liveRows'[i] = liveRows[k])
  BY <1>1, UpsertKeeps
<1>3. batch \in Seq(Copies)
  BY DEF BatchFits
<1>4. Remembers(byId, batch, DOMAIN batch, byId')
  BY <1>1, <1>3, BatchIsRemembered
<1> QED BY <1>1, <1>2, <1>4 DEF Remembers

\* After a batch that is true the lists are.
LEMMA UpsertTells ==
  ASSUME NEW batch, upsertMany(batch), byId \in CopyLists,
         RowsHold(liveRows, heard, joined), BatchFits(liveRows, heard, batch),
         NEW m, Told(batch, m), Told(liveRows, m), Told(byId, m),
         DrawerHolds(byId, heard, overtaken)
  PROVE  Told(liveRows', m) /\ Told(byId', m) /\ DrawerHolds(byId', heard', overtaken)
<1>1. Told(liveRows', m) /\ Told(byId', m)
  BY UpsertStep DEF Told
<1>2. ASSUME NEW p \in DOMAIN byId', byId'[p].state = "open", byId'[p].id \in heard'
      PROVE  byId'[p].id \in overtaken
  <2>1. ASSUME byId'[p].id \notin heard
        PROVE  \E k \in DOMAIN batch : batch[k].id = byId'[p].id /\ batch[k].state = "settled"
    BY <1>2, <2>1, UpsertStep DEF NowHeard, Range
  <2>2. CASE \E j \in DOMAIN batch : /\ byId'[p] = batch[j]
                                     /\ \A i \in DOMAIN batch : batch[i].id = batch[j].id => i <= j
    <3>1. PICK j \in DOMAIN batch : /\ byId'[p] = batch[j]
                                    /\ \A i \in DOMAIN batch : batch[i].id = batch[j].id => i <= j
      BY <2>2
    <3>2. byId'[p].id \notin heard
      BY <3>1 DEF BatchFits
    <3>3. PICK k \in DOMAIN batch : batch[k].id = byId'[p].id /\ batch[k].state = "settled"
      BY <2>1, <3>2
    <3>4. k <= j /\ k # j /\ k \in Nat /\ j \in Nat
      <4>1. batch \in Seq(Copies)
        BY DEF BatchFits
      <4> QED BY <1>2, <3>1, <3>3, <4>1
    <3>5. k < j
      BY <3>4
    <3> QED BY <3>1, <3>3, <3>5 DEF BatchFits
  <2>3. CASE \E q \in DOMAIN byId : /\ byId'[p] = byId[q]
                                    /\ \A i \in DOMAIN batch : batch[i].id # byId[q].id
    BY <1>2, <2>1, <2>3 DEF DrawerHolds
  <2> QED BY <2>2, <2>3, UpsertStep
<1> QED BY <1>1, <1>2 DEF DrawerHolds

-----------------------------------------------------------------------------

LEMMA RowsStart == RowsInit => RowInv
<1> SUFFICES ASSUME RowsInit PROVE RowInv
  OBVIOUS
<1>1. PICK state \in {"open", "settled"} :
        /\ rowsMode = "mock" => state = "settled"
        /\ made = [id \in RowIds |-> IF id = FirstRow THEN state ELSE "absent"]
        /\ liveRows = <<[id |-> FirstRow, state |-> state]>>
  BY DEF RowsInit
<1>2. /\ rowsMode \in {"api", "mock"} /\ byId = liveRows /\ readPage = NoPage
      /\ pending = <<>> \/ (rowsMode = "api" /\ pending = liveRows)
      /\ heard = {} /\ joined = {}
  BY DEF RowsInit
<1>3. FirstRow \in RowIds /\ RowCap \in Nat \ {0} /\ MaxStreams \in Nat \ {0} /\ ByIdCap \in Nat
      /\ ByIdCap >= 1
  BY RowAssumptions
<1>4. /\ liveRows \in Seq(Copies) /\ Len(liveRows) = 1 /\ DOMAIN liveRows = {1}
      /\ liveRows[1].id = FirstRow /\ liveRows[1].state = state
  BY <1>1, <1>3 DEF Copies
<1>5. RowsAre
  <2>1. byId \in CopyLists
    BY <1>2, <1>3, <1>4 DEF CopyLists, OneCopyEach
  <2>2. made \in [RowIds -> {"absent", "open", "settled"}]
    BY <1>1
  <2> QED BY <1>2, <2>1, <2>2 DEF RowsAre
<1>6. RowsAgree
  <2>1. RowsHold(liveRows, heard, joined)
    BY <1>2, <1>3, <1>4 DEF RowsHold
  <2>2. Told(liveRows, made)
    BY <1>1, <1>3, <1>4 DEF Told
  <2>3. BatchFits(liveRows, heard, liveRows)
    BY <1>2, <1>4 DEF BatchFits
  <2>4. BatchFits(liveRows, heard, pending) /\ Told(pending, made)
    BY <1>2, <2>2, <2>3, EmptyBatchFits DEF Told
  <2> QED BY <1>2, <2>1, <2>2, <2>4 DEF RowsAgree, DrawerHolds
<1>7. ASSUME rowsMode = "mock" PROVE StreamsFit
  <2>1. state = "settled"
    BY <1>1, <1>7
  <2>2. Streaming = {}
    BY <1>1, <2>1 DEF Streaming
  <2>3. IsFiniteSet(Streaming) /\ Cardinality(Streaming) = 0
    BY <2>2, FS_EmptySet
  <2> QED BY <1>3, <1>4, <2>1, <2>3 DEF StreamsFit
<1> QED BY <1>2, <1>5, <1>6, <1>7 DEF RowInv

LEMMA EventKeeps ==
  ASSUME NEW id \in RowIds, RowInv, ReceiptEvent(id)
  PROVE  RowInv'
<1> USE DEF RowInv, RowsAre, RowsAgree
<1>1. PICK state \in {"open", "settled"} \ {made[id]} :
        /\ made' = [made EXCEPT ![id] = state]
        /\ \/ pending' = Append(pending, [id |-> id, state |-> state])
           \/ UNCHANGED pending
  BY DEF ReceiptEvent
<1>2. rowsMode = "api" /\ made[id] \in {"absent", "open"}
      /\ UNCHANGED <<rowsMode, liveRows, byId, readPage, heard, joined, overtaken>>
  BY DEF ReceiptEvent
<1>3. /\ made' \in [RowIds -> {"absent", "open", "settled"}] /\ made'[id] = state
      /\ \A x \in RowIds : x # id => made'[x] = made[x]
      /\ state = "settled" \/ made[id] = "absent"
  BY <1>1, <1>2
<1>4. ASSUME NEW c \in Copies, made[c.id] \in {c.state, "settled"}
      PROVE  /\ made'[c.id] \in {c.state, "settled"}
             /\ c.id = id => c.state = "open" /\ state = "settled" /\ made[id] = "open"
  BY <1>2, <1>3, <1>4 DEF Copies
<1>5. /\ byId \in Seq(Copies) /\ liveRows \in Seq(Copies) /\ pending \in Seq(Copies)
  BY DEF CopyLists, RowsHold, BatchFits
<1>6. Told(liveRows', made') /\ Told(byId', made') /\ Told(pending, made')
  BY <1>2, <1>4, <1>5, ElementOfSeq DEF Told
<1>7. RowsAre'
  BY <1>2, <1>3, <1>4
<1>8. \A x \in heard' : x \in RowIds /\ made'[x] = "settled"
  BY <1>2, <1>3
<1>9. CASE UNCHANGED pending
  BY <1>2, <1>6, <1>7, <1>8, <1>9
<1>10. CASE pending' = Append(pending, [id |-> id, state |-> state])
  <2> DEFINE r == [id |-> id, state |-> state]
             n == Len(pending)
  <2>1. r \in Copies /\ r.id = id /\ r.state = state
    BY DEF Copies
  <2>2. /\ pending' \in Seq(Copies) /\ n \in Nat /\ DOMAIN pending' = 1 .. n + 1 /\ pending'[n + 1] = r
        /\ DOMAIN pending = 1 .. n /\ \A k \in 1 .. n : pending'[k] = pending[k]
    BY <1>5, <1>10, <2>1
  <2> HIDE DEF r, n
  <2>3. \A k \in DOMAIN pending' : k = n + 1 \/ k \in DOMAIN pending
    BY <2>2
  <2>4. Told(pending', made')
    BY <1>3, <1>6, <2>1, <2>2, <2>3 DEF Told
  <2>5. ASSUME NEW i \in DOMAIN pending', NEW j \in DOMAIN pending', i < j, pending'[i].id = pending'[j].id
        PROVE  pending'[i].state = "open" /\ pending'[j].state = "settled"
    <3>1. i \in DOMAIN pending /\ pending'[i] = pending[i]
      BY <2>2, <2>5
    <3>2. CASE j = n + 1
      <4>1. pending[i] \in Copies /\ made[pending[i].id] \in {pending[i].state, "settled"}
        BY <1>5, <3>1, ElementOfSeq DEF Told
      <4> QED BY <1>4, <2>1, <2>2, <2>5, <3>1, <3>2, <4>1
    <3>3. CASE j \in DOMAIN pending
      BY <2>2, <2>5, <3>1, <3>3 DEF BatchFits
    <3> QED BY <2>3, <3>2, <3>3
  <2>6. ASSUME NEW i \in DOMAIN pending', NEW k \in DOMAIN liveRows, NEW l \in DOMAIN liveRows,
               pending'[i].id = liveRows[k].id, liveRows[l].id = liveRows[k].id
        PROVE  l = k
    <3>1. CASE i = n + 1
      <4>1. /\ liveRows[k] \in Copies /\ made[liveRows[k].id] \in {liveRows[k].state, "settled"}
            /\ liveRows[l] \in Copies /\ made[liveRows[l].id] \in {liveRows[l].state, "settled"}
        BY <1>5, ElementOfSeq DEF Told
      <4>2. liveRows[k].state = "open" /\ liveRows[l].state = "open"
        BY <1>4, <2>1, <2>2, <2>6, <3>1, <4>1
      <4> QED BY <2>6, <4>2 DEF RowsHold
    <3>2. CASE i \in DOMAIN pending
      BY <2>2, <2>6, <3>2 DEF BatchFits
    <3> QED BY <2>3, <3>1, <3>2
  <2>7. \A i \in DOMAIN pending' : pending'[i].id \notin heard
    BY <1>2, <2>1, <2>2, <2>3 DEF BatchFits
  <2>8. BatchFits(liveRows', heard', pending')
    BY <1>2, <2>2, <2>5, <2>6, <2>7 DEF BatchFits
  <2> QED BY <1>2, <1>6, <1>7, <1>8, <2>4, <2>8
<1> QED BY <1>1, <1>9, <1>10

LEMMA FlushKeeps ==
  ASSUME RowInv, flushRows
  PROVE  RowInv'
<1> USE DEF RowInv, RowsAre, RowsAgree
<1>1. /\ pending # <<>> /\ pending' = <<>> /\ upsertMany(pending)
      /\ UNCHANGED <<rowsMode, made, readPage, overtaken, asides>>
  BY DEF flushRows
<1>2. rowsMode = "api"
  BY <1>1
<1>3. /\ heard' = NowHeard(heard, pending) /\ byId' \in CopyLists /\ RowsHold(liveRows', heard', joined')
  BY <1>1, UpsertStep
<1>4. Told(liveRows', made') /\ Told(byId', made') /\ DrawerHolds(byId', heard', overtaken')
  BY <1>1, UpsertTells
<1>5. \A id \in heard' : id \in RowIds /\ made'[id] = "settled"
  <2>1. pending \in Seq(Copies)
    BY DEF BatchFits
  <2>2. \A i \in DOMAIN pending : pending[i].state = "settled"
          => pending[i].id \in RowIds /\ made[pending[i].id] = "settled"
    <3>0. \A i \in DOMAIN pending : pending[i] \in Copies
      BY <2>1, ElementOfSeq
    <3>1. \A i \in DOMAIN pending : pending[i].id \in RowIds
      BY <3>0 DEF Copies
    <3>2. \A i \in DOMAIN pending : made[pending[i].id] \in {pending[i].state, "settled"}
      BY DEF Told
    <3> QED BY <3>1, <3>2
  <2> QED BY <1>1, <1>3, <2>2 DEF NowHeard, Range
<1>6. BatchFits(liveRows', heard', pending') /\ Told(pending', made')
  BY <1>1, EmptyBatchFits DEF Told
<1> QED BY <1>1, <1>2, <1>3, <1>4, <1>5, <1>6

LEMMA ReadKeeps ==
  ASSUME NEW id \in RowIds, RowInv, PageRead(id)
  PROVE  RowInv'
<1> USE DEF RowInv, RowsAre, RowsAgree
<1>1. /\ rowsMode = "api" /\ made[id] # "absent" /\ readPage' = [id |-> id, state |-> made[id]]
      /\ UNCHANGED <<rowsMode, made, liveRows, byId, pending, heard, joined, overtaken>>
  BY DEF PageRead
<1>2. readPage' \in Copies /\ made'[readPage'.id] = readPage'.state
  BY <1>1 DEF Copies
<1> QED BY <1>1, <1>2

LEMMA PageKeeps ==
  ASSUME RowInv, pageComes
  PROVE  RowInv'
<1> USE DEF RowInv, RowsAre, RowsAgree
<1>1. /\ readPage # NoPage /\ readPage' = NoPage /\ byId' = rememberCopy(byId, readPage)
      /\ overtaken' = IF readPage.state = "open" /\ readPage.id \in heard
                      THEN overtaken \cup {readPage.id} ELSE overtaken
      /\ UNCHANGED <<rowsMode, made, liveRows, pending, heard, joined, asides>>
  BY DEF pageComes
<1>2. readPage \in Copies /\ made[readPage.id] \in {readPage.state, "settled"} /\ rowsMode = "api"
  BY <1>1
<1>3. /\ byId' \in CopyLists
      /\ \A k \in DOMAIN byId' : byId'[k] = readPage \/ \E p \in DOMAIN byId : byId'[k] = byId[p]
  BY <1>1, <1>2, RememberKeeps
<1>4. Told(byId', made')
  BY <1>1, <1>2, <1>3 DEF Told
<1>5. DrawerHolds(byId', heard', overtaken')
  BY <1>1, <1>3 DEF DrawerHolds
<1> QED BY <1>1, <1>2, <1>3, <1>4, <1>5

-----------------------------------------------------------------------------
(* The demo *)

\* While a row has room for one more above it, its copy is not the one the cap takes.
LEMMA CopyIsNotFirst ==
  ASSUME RowInv, rowsMode = "mock", NEW i \in DOMAIN liveRows, i <= RowCap - 1,
         NEW p \in DOMAIN byId, byId[p].id = liveRows[i].id,
         IsFiniteSet(Behind(i, p)), Cardinality(Behind(i, p)) <= MaxStreams - 1
  PROVE  p # 1 \/ Len(byId) < ByIdCap
<1> SUFFICES ASSUME p = 1, ~(Len(byId) < ByIdCap) PROVE FALSE
  OBVIOUS
<1> DEFINE n == Len(byId)
           m == i - 1
           later == {k \in DOMAIN byId : k > 1}
           A == {byId[q].id : q \in later}
           B == {liveRows[k].id : k \in 1 .. m}
           W == Behind(i, p)
<1>1. /\ n = ByIdCap /\ n \in Nat /\ n >= 1 /\ DOMAIN byId = 1 .. n
      /\ \A k, l \in DOMAIN byId : byId[k].id = byId[l].id => k = l
  <2>1. byId \in Seq(Copies) /\ Len(byId) <= ByIdCap /\ OneCopyEach(byId)
    BY DEF RowInv, RowsAre, CopyLists
  <2>2. n \in Nat /\ DOMAIN byId = 1 .. n
    BY <2>1, LenProperties
  <2>3. ByIdCap \in Nat /\ n <= ByIdCap /\ ~(n < ByIdCap)
    BY <2>1, RowAssumptions
  <2>4. \A k, l \in DOMAIN byId : byId[k].id = byId[l].id => k = l
    BY <2>1 DEF OneCopyEach
  <2> HIDE DEF n
  <2> QED BY <2>2, <2>3, <2>4
<1>2. i \in Nat /\ i >= 1 /\ m \in Nat
  <2>1. liveRows \in Seq(Copies)
    BY DEF RowInv, RowsAgree, RowsHold
  <2> QED BY <2>1, LenProperties
<1>3. later = 2 .. n
  BY <1>1
<1>4. IsFiniteSet(A) /\ Cardinality(A) = n - 1
  <2>1. IsFiniteSet(2 .. n) /\ Cardinality(2 .. n) = IF 2 > n THEN 0 ELSE n - 2 + 1
    <3>1. 2 \in Int /\ n \in Int
      BY <1>1
    <3> QED BY <3>1, FS_Interval
  <2>2. IsFiniteSet(later) /\ Cardinality(later) = n - 1
    <3> HIDE DEF later, n
    <3> QED BY <1>1, <1>3, <2>1
  <2> DEFINE h == [q \in later |-> byId[q].id]
  <2>3. (\A q \in later : h[q] \in A) /\ (\A t \in A : \E q \in later : h[q] = t)
    OBVIOUS
  <2>4. \A k, l \in later : h[k] = h[l] => k = l
    BY <1>1
  <2> HIDE DEF later, h, A, n
  <2>5. IsFiniteSet(A) /\ Cardinality(A) = Cardinality(later)
    BY <2>2, <2>3, <2>4, OneToOneCounts
  <2> QED BY <2>2, <2>5
<1>5. IsFiniteSet(B) /\ Cardinality(B) <= m /\ Cardinality(B) \in Nat
  <2>1. IsFiniteSet(1 .. m) /\ Cardinality(1 .. m) = m
    <3>1. IsFiniteSet(1 .. m) /\ Cardinality(1 .. m) = IF 1 > m THEN 0 ELSE m - 1 + 1
      <4>1. 1 \in Int /\ m \in Int
        BY <1>2
      <4> QED BY <4>1, FS_Interval
    <3> HIDE DEF m
    <3> QED BY <1>2, <3>1
  <2> DEFINE S == 1 .. m
             h == [k \in S |-> liveRows[k].id]
  <2>2. (\A k \in S : h[k] \in B) /\ (\A t \in B : \E k \in S : h[k] = t)
    OBVIOUS
  <2> HIDE DEF h, B, S
  <2>3. IsFiniteSet(S) /\ Cardinality(S) = m
    BY <2>1 DEF S
  <2>4. IsFiniteSet(B) /\ Cardinality(B) <= Cardinality(S) /\ Cardinality(B) \in Nat
    BY <2>2, <2>3, ImageCounts
  <2> HIDE DEF m
  <2> QED BY <2>3, <2>4
<1>6. A \subseteq W \cup B
  <2> SUFFICES ASSUME NEW q \in DOMAIN byId, q > 1 PROVE byId[q].id \in W \cup B
    OBVIOUS
  <2>1. byId[q].id # liveRows[i].id
    BY <1>1
  <2>2. byId[q].id \in {byId[r].id : r \in {k \in DOMAIN byId : k > p}}
    OBVIOUS
  <2> QED BY <2>1, <2>2 DEF Behind
<1> HIDE DEF A, B, W, later, n, m
<1>7. Cardinality(A) <= Cardinality(W \cup B)
  <2>1. IsFiniteSet(W \cup B)
    BY <1>5, FS_Union DEF W
  <2> QED BY <1>6, <2>1, FS_Subset
<1>8. Cardinality(W \cup B) <= Cardinality(W) + Cardinality(B) /\ Cardinality(W) \in Nat
      /\ Cardinality(W \cup B) \in Nat
  <2>1. IsFiniteSet(W)
    BY DEF W
  <2>2. /\ IsFiniteSet(W \cup B) /\ IsFiniteSet(W \cap B)
        /\ Cardinality(W \cup B) = Cardinality(W) + Cardinality(B) - Cardinality(W \cap B)
    BY <1>5, <2>1, FS_Union, FS_Intersection
  <2>3. Cardinality(W) \in Nat /\ Cardinality(W \cap B) \in Nat /\ Cardinality(W \cup B) \in Nat
    BY <2>1, <2>2, FS_CardinalityType
  <2> QED BY <1>5, <2>2, <2>3
<1>9. Cardinality(W) <= MaxStreams - 1
  BY DEF W
<1>10. RowCap \in Nat /\ MaxStreams \in Nat /\ ByIdCap >= RowCap + MaxStreams - 1 /\ n = ByIdCap
  BY <1>1, RowAssumptions
<1>11. m = i - 1 /\ i <= RowCap - 1
  BY DEF m
<1> QED BY <1>1, <1>2, <1>4, <1>5, <1>7, <1>8, <1>9, <1>10, <1>11

\* One receipt that is no row comes on top.
LEMMA OneMoreRow ==
  ASSUME NEW rs \in Seq(Copies), Len(rs) <= RowCap, NEW r \in Copies, r.id \notin RowIdsOf(rs)
  PROVE  LET R == NextRows(rs, <<r>>) IN
         /\ DOMAIN R = 1 .. Len(R) /\ Len(R) \in Nat /\ Len(R) <= RowCap
         /\ 1 \in DOMAIN R /\ R[1] = r
         /\ \A i \in DOMAIN R : i # 1 => i - 1 \in DOMAIN rs /\ R[i] = rs[i - 1]
<1> DEFINE batch == <<r>>
           new == fresh(batch, RowIdsOf(rs))
           pat == patched(rs, batch)
           n   == Len(new)
           R   == NextRows(rs, batch)
<1>1. batch \in Seq(Copies) /\ Len(batch) = 1 /\ DOMAIN batch = {1} /\ batch[1] = r
  OBVIOUS
<1> HIDE DEF batch
<1>2. /\ n \in Nat /\ n <= Len(batch) /\ new \in Seq(Copies)
      /\ \E o \in [1 .. n -> DOMAIN batch] :
           /\ \A k \in 1 .. n : new[k] = batch[o[k]] /\ new[k].id \notin RowIdsOf(rs)
           /\ \A j \in DOMAIN batch : batch[j].id \notin RowIdsOf(rs) => \E k \in 1 .. n : o[k] = j
           /\ \A j, k \in 1 .. n : j < k <=> o[j] < o[k]
      /\ R \in Seq(Copies) /\ Len(R) <= RowCap /\ Len(R) \in Nat /\ (n <= RowCap => n <= Len(R))
      /\ \A i \in 1 .. Len(R) : i <= n => n - i + 1 \in 1 .. n /\ R[i] = new[n - i + 1]
      /\ \A i \in 1 .. Len(R) : i > n => i - n \in DOMAIN rs /\ R[i] = pat[i - n]
  BY <1>1, RowsAfter
<1>3. \A i \in DOMAIN rs : pat[i] = rs[i]
  <2>1. RowIdsOf(batch) = {r.id}
    BY <1>1 DEF RowIdsOf
  <2>2. \A i \in DOMAIN rs : rs[i].id # r.id
    BY DEF RowIdsOf
  <2> QED BY <1>1, <2>1, <2>2, PatchedIs
<1> HIDE DEF new, pat, n, R
<1>4. PICK o \in [1 .. n -> DOMAIN batch] :
           /\ \A k \in 1 .. n : new[k] = batch[o[k]]
           /\ \A j \in DOMAIN batch : batch[j].id \notin RowIdsOf(rs) => \E k \in 1 .. n : o[k] = j
  BY <1>2, ZenonT(60)
<1>5. \E k \in 1 .. n : o[k] = 1
  BY <1>1, <1>4
<1>6. n = 1
  BY <1>1, <1>2, <1>5
<1>7. new[1] = r
  BY <1>1, <1>4, <1>6
<1>8. RowCap \in Nat /\ RowCap >= 1
  BY RowAssumptions
<1>9. DOMAIN R = 1 .. Len(R) /\ 1 <= Len(R)
  BY <1>2, <1>6, <1>8, LenProperties
<1>10. 1 \in DOMAIN R /\ R[1] = r
  <2>1. 1 \in 1 .. Len(R) /\ 1 <= n /\ n - 1 + 1 = 1
    BY <1>2, <1>6, <1>9
  <2> QED BY <1>2, <1>7, <1>9, <2>1
<1>11. \A i \in DOMAIN R : i # 1 => i - 1 \in DOMAIN rs /\ R[i] = rs[i - 1]
  BY <1>2, <1>3, <1>6, <1>9
<1> QED BY <1>2, <1>9, <1>10, <1>11 DEF R, batch

\* One that is a row is replaced where it stands.
LEMMA OneChangedRow ==
  ASSUME NEW rs \in Seq(Copies), Len(rs) <= RowCap, NEW r \in Copies, r.id \in RowIdsOf(rs)
  PROVE  LET R == NextRows(rs, <<r>>) IN
         /\ DOMAIN R = DOMAIN rs
         /\ \A i \in DOMAIN R : /\ R[i].id = rs[i].id
                                /\ R[i] = IF rs[i].id = r.id THEN r ELSE rs[i]
<1> DEFINE batch == <<r>>
           new == fresh(batch, RowIdsOf(rs))
           pat == patched(rs, batch)
           n   == Len(new)
<1>1. batch \in Seq(Copies) /\ Len(batch) = 1 /\ DOMAIN batch = {1} /\ batch[1] = r
  OBVIOUS
<1>u. RowIdsOf(batch) = {r.id}
  BY <1>1 DEF RowIdsOf
<1> HIDE DEF batch
<1>2. /\ n \in Nat /\ new \in Seq(Copies)
      /\ \E o \in [1 .. n -> DOMAIN batch] :
           /\ \A k \in 1 .. n : new[k] = batch[o[k]] /\ new[k].id \notin RowIdsOf(rs)
           /\ \A j \in DOMAIN batch : batch[j].id \notin RowIdsOf(rs) => \E k \in 1 .. n : o[k] = j
           /\ \A j, k \in 1 .. n : j < k <=> o[j] < o[k]
  BY <1>1, RowsAfter
<1> HIDE DEF n
<1>3. n = 0
  <2>1. \A k \in 1 .. n : FALSE
    BY <1>1, <1>2
  <2>2. n \in Nat /\ n # 0 => 1 \in 1 .. n
    OBVIOUS
  <2> QED BY <1>2, <2>1, <2>2
<1>4. new = <<>>
  BY <1>2, <1>3 DEF n
<1>5. NextRows(rs, batch) = pat
  BY <1>4 DEF NextRows
<1>6. /\ DOMAIN pat = DOMAIN rs
      /\ \A i \in DOMAIN rs : /\ pat[i].id = rs[i].id
                                /\ pat[i] = IF rs[i].id = r.id THEN r ELSE rs[i]
  <2>1. /\ DOMAIN pat = DOMAIN rs
        /\ \A i \in DOMAIN rs :
              /\ pat[i].id = rs[i].id
              /\ rs[i].id \notin RowIdsOf(batch) => pat[i] = rs[i]
              /\ rs[i].id \in RowIdsOf(batch) => \E j \in DOMAIN batch : pat[i] = batch[j]
    BY <1>1, PatchedIs
  <2> HIDE DEF pat
  <2> QED BY <1>1, <1>u, <2>1
<1> QED BY <1>5, <1>6 DEF batch

\* Room that no more receipts can take stays.
LEMMA RoomStays ==
  ASSUME NEW W, IsFiniteSet(W), Cardinality(W) <= MaxStreams - 1, NEW V \in SUBSET W
  PROVE  IsFiniteSet(V) /\ Cardinality(V) <= MaxStreams - 1
<1>1. IsFiniteSet(V) /\ Cardinality(V) <= Cardinality(W)
  BY FS_Subset
<1>2. Cardinality(V) \in Nat /\ Cardinality(W) \in Nat /\ MaxStreams \in Nat
  BY <1>1, FS_CardinalityType, RowAssumptions
<1> QED BY <1>1, <1>2

LEMMA TickKeeps ==
  ASSUME NEW id \in RowIds, RowInv, simulatedTick(id)
  PROVE  RowInv'
<1> USE DEF RowInv, RowsAre, RowsAgree
<1>1. PICK state \in {"open", "settled"} :
        /\ state = "open" => Cardinality(Streaming) < MaxStreams
        /\ made' = [made EXCEPT ![id] = state]
        /\ upsertMany(<<[id |-> id, state |-> state]>>)
  BY DEF simulatedTick
<1>2. rowsMode = "mock" /\ made[id] = "absent" /\ UNCHANGED <<rowsMode, pending, readPage, overtaken>>
      /\ pending = <<>> /\ readPage = NoPage /\ StreamsFit
  BY DEF simulatedTick
<1> DEFINE r == [id |-> id, state |-> state]
           batch == <<r>>
<1>3. /\ made' \in [RowIds -> {"absent", "open", "settled"}] /\ made'[id] = state
      /\ \A x \in RowIds : x # id => made'[x] = made[x]
  BY <1>1
<1>4. r \in Copies /\ r.id = id /\ r.state = state
  BY DEF Copies
<1>5. batch \in Seq(Copies) /\ DOMAIN batch = {1} /\ batch[1] = r /\ Range(batch) = {r}
  BY <1>4 DEF Range
<1>6. upsertMany(batch)
  BY <1>1
<1> HIDE DEF batch, r
<1>7. liveRows \in Seq(Copies) /\ byId \in Seq(Copies) /\ Len(liveRows) <= RowCap
  BY DEF RowsHold, CopyLists
<1>8. /\ \A k \in DOMAIN liveRows : liveRows[k].id \in RowIds /\ liveRows[k].id # id
      /\ \A k \in DOMAIN byId : byId[k].id \in RowIds /\ byId[k].id # id
  <2>1. /\ \A k \in DOMAIN liveRows : liveRows[k] \in Copies /\ made[liveRows[k].id] \in {liveRows[k].state, "settled"}
        /\ \A k \in DOMAIN byId : byId[k] \in Copies /\ made[byId[k].id] \in {byId[k].state, "settled"}
    BY <1>7, ElementOfSeq DEF Told
  <2> QED BY <1>2, <2>1 DEF Copies
<1>9. BatchFits(liveRows, heard, batch)
  BY <1>2, <1>4, <1>5, <1>8 DEF BatchFits
<1>10. Told(batch, made') /\ Told(liveRows, made') /\ Told(byId, made')
  BY <1>3, <1>4, <1>5, <1>8 DEF Told
<1>11. /\ RowsHold(liveRows', heard', joined') /\ byId' \in CopyLists
       /\ Told(liveRows', made') /\ Told(byId', made') /\ DrawerHolds(byId', heard', overtaken)
       /\ liveRows' = NextRows(liveRows, batch) /\ heard' = NowHeard(heard, batch)
       /\ byId' = FoldLeft(rememberCopy, byId, batch)
  BY <1>6, <1>9, <1>10, UpsertStep, UpsertTells
<1>12. \A x \in heard' : x \in RowIds /\ made'[x] = "settled"
  BY <1>2, <1>3, <1>4, <1>5, <1>11 DEF NowHeard
<1>13. StreamsFit'
  <2>1. IsFiniteSet(Streaming) /\ Cardinality(Streaming) <= MaxStreams /\ Cardinality(Streaming) \in Nat
        /\ MaxStreams \in Nat
    BY <1>2, FS_CardinalityType, RowAssumptions DEF StreamsFit
  <2>2. Streaming' = IF state = "open" THEN Streaming \cup {id} ELSE Streaming
    BY <1>2, <1>3 DEF Streaming
  <2>3. IsFiniteSet(Streaming') /\ Cardinality(Streaming') <= MaxStreams
    <3>1. IsFiniteSet(Streaming \cup {id})
          /\ Cardinality(Streaming \cup {id}) = IF id \in Streaming THEN Cardinality(Streaming) ELSE Cardinality(Streaming) + 1
      BY <2>1, FS_AddElement
    <3> QED BY <1>1, <2>1, <2>2, <3>1
  <2>4. /\ DOMAIN liveRows' = 1 .. Len(liveRows') /\ Len(liveRows') \in Nat /\ Len(liveRows') <= RowCap
        /\ 1 \in DOMAIN liveRows' /\ liveRows'[1] = r
        /\ \A i \in DOMAIN liveRows' : i # 1 => i - 1 \in DOMAIN liveRows /\ liveRows'[i] = liveRows[i - 1]
    BY <1>4, <1>7, <1>8, <1>11, OneMoreRow DEF RowIdsOf, batch
  <2>5. byId' = rememberCopy(byId, r)
    BY <1>4, <1>11, RememberOne DEF batch
  <2>6. /\ Len(byId') \in DOMAIN byId' /\ byId'[Len(byId')] = r
        /\ \A p \in DOMAIN byId :
              (p # 1 \/ Len(byId) < ByIdCap)
                => \E k \in DOMAIN byId' :
                     /\ byId'[k] = byId[p]
                     /\ \A l \in DOMAIN byId' : l > k /\ l # Len(byId')
                          => \E q \in DOMAIN byId : q > p /\ byId'[l] = byId[q]
    BY <1>4, <1>8, <2>5, RememberKeeps
  <2>7. ASSUME NEW j \in DOMAIN liveRows', liveRows'[j].state = "open", j = 1
        PROVE  HasRoom(j)'
    <3>0. PICK q : q = Len(byId')
      OBVIOUS
    <3>1. state = "open" /\ liveRows'[j].id = id
      BY <1>4, <2>4, <2>7
    <3>2. q \in Nat /\ DOMAIN byId' = 1 .. q
      <4>1. byId' \in Seq(Copies)
        BY <1>11 DEF CopyLists
      <4> QED BY <3>0, <4>1, LenProperties
    <3>3. {k \in DOMAIN byId' : k > q} = {}
      BY <3>2
    <3>4. Behind(j, q)' \subseteq Streaming
      BY <2>2, <3>1, <3>3 DEF Behind
    <3>5. Cardinality(Streaming) <= MaxStreams - 1
      BY <1>1, <2>1, <3>1
    <3>6. IsFiniteSet(Behind(j, q)') /\ Cardinality(Behind(j, q)') <= MaxStreams - 1
      BY <2>1, <3>4, <3>5, RoomStays
    <3>7. q \in DOMAIN byId' /\ byId'[q].id = id
      BY <1>4, <2>6, <3>0
    <3> QED BY <1>3, <3>1, <3>6, <3>7 DEF HasRoom
  <2>8. ASSUME NEW j \in DOMAIN liveRows', liveRows'[j].state = "open", j # 1
        PROVE  HasRoom(j)'
    <3> DEFINE i == j - 1
    <3>1. i \in DOMAIN liveRows /\ liveRows'[j] = liveRows[i] /\ i <= RowCap - 1 /\ i \in Nat /\ j \in Nat /\ j = i + 1
          /\ i >= 1
      BY <1>7, <2>4, <2>8, RowAssumptions, LenProperties
    <3> HIDE DEF i
    <3>2. HasRoom(i)
      BY <1>2, <2>8, <3>1 DEF StreamsFit
    <3>3. PICK p \in DOMAIN byId :
            /\ byId[p].id = liveRows[i].id
            /\ IsFiniteSet(Behind(i, p)) /\ Cardinality(Behind(i, p)) <= MaxStreams - 1
      BY <3>2 DEF HasRoom
    <3>4. p # 1 \/ Len(byId) < ByIdCap
      BY <1>2, <3>1, <3>3, CopyIsNotFirst
    <3>5. PICK q \in DOMAIN byId' :
            /\ byId'[q] = byId[p]
            /\ \A l \in DOMAIN byId' : l > q /\ l # Len(byId')
                 => \E k \in DOMAIN byId : k > p /\ byId'[l] = byId[k]
      BY <2>6, <3>4
    <3>6. ASSUME NEW x \in Behind(j, q)'
          PROVE  x \in Behind(i, p)
      <4>1. /\ x \notin {liveRows'[k].id : k \in 1 .. j - 1} /\ x # liveRows'[j].id
            /\ x \in {byId'[k].id : k \in {l \in DOMAIN byId' : l > q}} \cup Streaming'
        BY <3>6 DEF Behind
      <4>2. x # id
        <5>1. 1 \in 1 .. j - 1
          BY <3>1
        <5> QED BY <1>4, <2>4, <4>1, <5>1
      <4>3. x \notin {liveRows[k].id : k \in 1 .. i - 1}
        <5> SUFFICES ASSUME NEW k \in 1 .. i - 1, x = liveRows[k].id PROVE FALSE
          OBVIOUS
        <5>1. k + 1 \in 1 .. j - 1 /\ k + 1 \in DOMAIN liveRows' /\ k + 1 # 1 /\ (k + 1) - 1 = k
          BY <2>4, <3>1
        <5>2. liveRows'[k + 1] = liveRows[k]
          BY <2>4, <5>1
        <5> QED BY <4>1, <5>1, <5>2
      <4>4. x \in {byId[k].id : k \in {l \in DOMAIN byId : l > p}} \cup Streaming
        <5>1. CASE x \in Streaming'
          BY <2>2, <4>2, <5>1
        <5>2. CASE x \in {byId'[k].id : k \in {l \in DOMAIN byId' : l > q}}
          <6>1. PICK l \in DOMAIN byId' : l > q /\ x = byId'[l].id
            BY <5>2
          <6>2. l # Len(byId')
            BY <1>4, <2>6, <4>2, <6>1
          <6>3. PICK k \in DOMAIN byId : k > p /\ byId'[l] = byId[k]
            BY <3>5, <6>1, <6>2
          <6> QED BY <6>1, <6>3
        <5> QED BY <4>1, <5>1, <5>2
      <4> QED BY <3>1, <4>1, <4>3, <4>4 DEF Behind
    <3>7. IsFiniteSet(Behind(j, q)') /\ Cardinality(Behind(j, q)') <= MaxStreams - 1
      <4>1. Behind(j, q)' \subseteq Behind(i, p)
        BY <3>6
      <4> QED BY <3>3, <4>1, RoomStays
    <3>8. made'[liveRows'[j].id] = "open"
      BY <1>3, <1>8, <3>1, <3>2 DEF HasRoom
    <3>9. byId'[q].id = liveRows'[j].id
      BY <3>1, <3>3, <3>5
    <3> QED BY <3>7, <3>8, <3>9 DEF HasRoom
  <2> QED BY <2>3, <2>7, <2>8 DEF StreamsFit
<1>14. BatchFits(liveRows', heard', pending') /\ Told(pending', made')
  BY <1>2, EmptyBatchFits DEF Told
<1> QED BY <1>2, <1>3, <1>11, <1>12, <1>13, <1>14

\* A row that streams on after another has settled is where it was, or one further down.
LEMMA StreamsOn ==
  ASSUME NEW rs \in Seq(Copies), Len(rs) <= RowCap, NEW r \in Copies, r.state = "settled",
         NEW j \in DOMAIN NextRows(rs, <<r>>), NextRows(rs, <<r>>)[j].state = "open"
  PROVE  LET R == NextRows(rs, <<r>>) IN
         \E i \in DOMAIN rs :
           /\ R[j] = rs[i] /\ rs[i].id # r.id
           /\ \A k \in 1 .. i - 1 : \E l \in 1 .. j - 1 : R[l].id = rs[k].id
<1> DEFINE R == NextRows(rs, <<r>>)
<1>1. DOMAIN rs = 1 .. Len(rs) /\ Len(rs) \in Nat
  BY LenProperties
<1>2. CASE r.id \in RowIdsOf(rs)
  <2>1. /\ DOMAIN R = DOMAIN rs
        /\ \A i \in DOMAIN R : R[i].id = rs[i].id /\ R[i] = IF rs[i].id = r.id THEN r ELSE rs[i]
    BY <1>2, OneChangedRow
  <2> HIDE DEF R
  <2>2. j \in DOMAIN R /\ R[j].state = "open"
    BY DEF R
  <2>3. j \in DOMAIN rs /\ R[j] = rs[j] /\ rs[j].id # r.id
    BY <2>1, <2>2
  <2>4. \A k \in 1 .. j - 1 : k \in DOMAIN R /\ R[k].id = rs[k].id
    BY <1>1, <2>1, <2>3
  <2> QED BY <2>3, <2>4 DEF R
<1>3. CASE r.id \notin RowIdsOf(rs)
  <2>1. /\ DOMAIN R = 1 .. Len(R) /\ Len(R) \in Nat /\ R[1] = r
        /\ \A i \in DOMAIN R : i # 1 => i - 1 \in DOMAIN rs /\ R[i] = rs[i - 1]
    BY <1>3, OneMoreRow
  <2> HIDE DEF R
  <2>2. j \in DOMAIN R /\ R[j].state = "open"
    BY DEF R
  <2>3. j # 1
    BY <2>1, <2>2
  <2>4. j - 1 \in DOMAIN rs /\ R[j] = rs[j - 1] /\ rs[j - 1].id # r.id
    BY <1>3, <2>1, <2>2, <2>3 DEF RowIdsOf
  <2>5. \A k \in 1 .. (j - 1) - 1 : k + 1 \in 1 .. j - 1 /\ R[k + 1].id = rs[k].id
    <3> TAKE k \in 1 .. (j - 1) - 1
    <3>1. k + 1 \in 1 .. j - 1 /\ k + 1 \in DOMAIN R /\ k + 1 # 1 /\ (k + 1) - 1 = k
      BY <2>1, <2>2
    <3>2. R[k + 1] = rs[(k + 1) - 1]
      BY <2>1, <3>1
    <3> QED BY <3>1, <3>2
  <2> QED BY <2>4, <2>5 DEF R
<1> QED BY <1>2, <1>3

LEMMA SettleKeeps ==
  ASSUME NEW id \in RowIds, RowInv, simulatedSettle(id)
  PROVE  RowInv'
<1> USE DEF RowInv, RowsAre, RowsAgree
<1>1. rowsMode = "mock" /\ made[id] = "open" /\ UNCHANGED <<rowsMode, pending, readPage, overtaken>>
      /\ pending = <<>> /\ readPage = NoPage /\ StreamsFit /\ made' = [made EXCEPT ![id] = "settled"]
  BY DEF simulatedSettle
<1>2. /\ made' \in [RowIds -> {"absent", "open", "settled"}] /\ made'[id] = "settled"
      /\ \A x \in RowIds : x # id => made'[x] = made[x]
  BY <1>1
<1>3. liveRows \in Seq(Copies) /\ byId \in Seq(Copies) /\ Len(liveRows) <= RowCap
  BY DEF RowsHold, CopyLists
<1>4. /\ \A k \in DOMAIN liveRows : liveRows[k] \in Copies /\ liveRows[k].id \in RowIds
                                    /\ made[liveRows[k].id] \in {liveRows[k].state, "settled"}
      /\ \A k \in DOMAIN byId : byId[k] \in Copies /\ byId[k].id \in RowIds
                                /\ made[byId[k].id] \in {byId[k].state, "settled"}
  <2>1. (\A k \in DOMAIN liveRows : liveRows[k] \in Copies) /\ (\A k \in DOMAIN byId : byId[k] \in Copies)
    BY <1>3, ElementOfSeq
  <2>2. \A c \in Copies : c.id \in RowIds
    BY DEF Copies
  <2> QED BY <2>1, <2>2 DEF Told
<1>5. Told(liveRows, made') /\ Told(byId, made') /\ Told(pending', made')
  BY <1>1, <1>2, <1>4 DEF Told
<1>6. \A x \in heard : x \in RowIds /\ made'[x] = "settled"
  BY <1>2
<1>7. Streaming' = Streaming \ {id} /\ id \in Streaming
  BY <1>1, <1>2 DEF Streaming
<1>8. IsFiniteSet(Streaming') /\ Cardinality(Streaming') <= MaxStreams
  <2>1. IsFiniteSet(Streaming) /\ Cardinality(Streaming) <= MaxStreams /\ Cardinality(Streaming) \in Nat
        /\ MaxStreams \in Nat
    BY <1>1, FS_CardinalityType, RowAssumptions DEF StreamsFit
  <2>2. IsFiniteSet(Streaming') /\ Cardinality(Streaming') = Cardinality(Streaming) - 1
    BY <1>7, <2>1, FS_RemoveElement
  <2> QED BY <2>1, <2>2
<1>9. BatchFits(liveRows', heard', pending')
  BY <1>1, EmptyBatchFits
<1>10. CASE id \notin RowIdsOf(byId)
  <2>1. UNCHANGED <<liveRows, byId, heard, joined>>
    BY <1>10 DEF simulatedSettle
  <2>2. ASSUME NEW i \in DOMAIN liveRows', liveRows'[i].state = "open"
        PROVE  HasRoom(i)'
    <3>1. HasRoom(i)
      BY <1>1, <2>1, <2>2 DEF StreamsFit
    <3>2. PICK p \in DOMAIN byId :
            /\ byId[p].id = liveRows[i].id
            /\ IsFiniteSet(Behind(i, p)) /\ Cardinality(Behind(i, p)) <= MaxStreams - 1
      BY <3>1 DEF HasRoom
    <3>3. liveRows[i].id # id
      BY <1>10, <3>2 DEF RowIdsOf
    <3>4. Behind(i, p)' \subseteq Behind(i, p)
      BY <1>7, <2>1 DEF Behind
    <3>5. IsFiniteSet(Behind(i, p)') /\ Cardinality(Behind(i, p)') <= MaxStreams - 1
      BY <3>2, <3>4, RoomStays
    <3>6. made'[liveRows'[i].id] = "open" /\ byId'[p].id = liveRows'[i].id /\ p \in DOMAIN byId'
      BY <1>2, <1>4, <2>1, <3>1, <3>2, <3>3 DEF HasRoom
    <3> QED BY <3>5, <3>6 DEF HasRoom
  <2>3. StreamsFit'
    BY <1>8, <2>2 DEF StreamsFit
  <2> QED BY <1>1, <1>2, <1>5, <1>6, <1>9, <2>1, <2>3
<1>11. CASE id \in RowIdsOf(byId)
  <2> DEFINE c == CHOOSE x \in Range(byId) : x.id = id
             r == settleCopy(c)
             batch == <<r>>
  <2>1. upsertMany(batch)
    BY <1>11 DEF simulatedSettle
  <2>2. r \in Copies /\ r.id = id /\ r.state = "settled"
    <3>1. \E x \in Range(byId) : x.id = id
      BY <1>11 DEF RowIdsOf, Range
    <3>2. c \in Range(byId) /\ c.id = id
      BY <3>1
    <3>3. c \in Copies
      BY <1>4, <3>2 DEF Range
    <3> HIDE DEF c
    <3> QED BY <3>2, <3>3 DEF settleCopy, Copies
  <2> HIDE DEF c, r
  <2>3. batch \in Seq(Copies) /\ DOMAIN batch = {1} /\ batch[1] = r /\ Range(batch) = {r}
    BY <2>2 DEF Range
  <2> HIDE DEF batch
  <2>4. BatchFits(liveRows, heard, batch)
    <3>1. \A k \in DOMAIN liveRows : liveRows[k].id = id => liveRows[k].state = "open"
      BY <1>1, <1>4
    <3>2. id \notin heard
      BY <1>1
    <3>3. ASSUME NEW k \in DOMAIN liveRows, NEW l \in DOMAIN liveRows,
                 liveRows[k].id = id, liveRows[l].id = id
          PROVE  l = k
      BY <3>1, <3>3 DEF RowsHold
    <3> QED BY <2>2, <2>3, <3>2, <3>3 DEF BatchFits
  <2>5. Told(batch, made')
    BY <1>2, <2>2, <2>3 DEF Told
  <2>6. /\ RowsHold(liveRows', heard', joined') /\ byId' \in CopyLists
        /\ Told(liveRows', made') /\ Told(byId', made') /\ DrawerHolds(byId', heard', overtaken)
        /\ liveRows' = NextRows(liveRows, batch) /\ heard' = NowHeard(heard, batch)
        /\ byId' = FoldLeft(rememberCopy, byId, batch)
    BY <1>5, <2>1, <2>4, <2>5, UpsertStep, UpsertTells
  <2>7. \A x \in heard' : x \in RowIds /\ made'[x] = "settled"
    BY <1>2, <1>6, <2>2, <2>3, <2>6 DEF NowHeard
  <2>8. byId' = rememberCopy(byId, r)
    BY <2>2, <2>6, RememberOne DEF batch
  <2>9. /\ Len(byId') \in DOMAIN byId' /\ byId'[Len(byId')] = r
        /\ \A p \in DOMAIN byId :
              byId[p].id # id
                => \E k \in DOMAIN byId' :
                     /\ byId'[k] = byId[p]
                     /\ \A l \in DOMAIN byId' : l > k /\ l # Len(byId')
                          => \E q \in DOMAIN byId : q > p /\ byId'[l] = byId[q]
    <3>1. /\ Len(byId') \in DOMAIN byId' /\ byId'[Len(byId')] = r
          /\ \A p \in DOMAIN byId :
              (/\ byId[p].id # r.id
               /\ p # 1 \/ Len(byId) < ByIdCap \/ r.id \in RowIdsOf(byId))
                => \E k \in DOMAIN byId' :
                     /\ byId'[k] = byId[p] /\ k # Len(byId')
                     /\ \A l \in DOMAIN byId' : l > k /\ l # Len(byId')
                          => \E q \in DOMAIN byId : q > p /\ byId'[l] = byId[q]
      BY <2>2, <2>8, RememberKeeps
    <3> QED BY <1>11, <2>2, <3>1
  <2>10. ASSUME NEW j \in DOMAIN liveRows', liveRows'[j].state = "open"
         PROVE  HasRoom(j)'
    <3>1. PICK i \in DOMAIN liveRows :
            /\ liveRows'[j] = liveRows[i] /\ liveRows[i].id # id
            /\ \A k \in 1 .. i - 1 : \E l \in 1 .. j - 1 : liveRows'[l].id = liveRows[k].id
      BY <1>3, <2>2, <2>6, <2>10, StreamsOn DEF batch
    <3>2. HasRoom(i)
      BY <1>1, <2>10, <3>1 DEF StreamsFit
    <3>3. PICK p \in DOMAIN byId :
            /\ byId[p].id = liveRows[i].id
            /\ IsFiniteSet(Behind(i, p)) /\ Cardinality(Behind(i, p)) <= MaxStreams - 1
      BY <3>2 DEF HasRoom
    <3>4. PICK q \in DOMAIN byId' :
            /\ byId'[q] = byId[p]
            /\ \A l \in DOMAIN byId' : l > q /\ l # Len(byId')
                 => \E k \in DOMAIN byId : k > p /\ byId'[l] = byId[k]
      BY <2>9, <3>1, <3>3
    <3>5. ASSUME NEW x \in Behind(j, q)'
          PROVE  x \in Behind(i, p)
      <4>1. /\ x \notin {liveRows'[k].id : k \in 1 .. j - 1} /\ x # liveRows'[j].id
            /\ x \in {byId'[k].id : k \in {l \in DOMAIN byId' : l > q}} \cup Streaming'
        BY <3>5 DEF Behind
      <4>2. x \notin {liveRows[k].id : k \in 1 .. i - 1}
        BY <3>1, <4>1
      <4>3. x \in {byId[k].id : k \in {l \in DOMAIN byId : l > p}} \cup Streaming
        <5>1. CASE x \in Streaming'
          BY <1>7, <5>1
        <5>2. CASE x \in {byId'[k].id : k \in {l \in DOMAIN byId' : l > q}}
          <6>1. PICK l \in DOMAIN byId' : l > q /\ x = byId'[l].id
            BY <5>2
          <6>2. CASE l = Len(byId')
            BY <1>7, <2>2, <2>9, <6>1, <6>2
          <6>3. CASE l # Len(byId')
            <7>1. PICK k \in DOMAIN byId : k > p /\ byId'[l] = byId[k]
              BY <3>4, <6>1, <6>3
            <7> QED BY <6>1, <7>1
          <6> QED BY <6>2, <6>3
        <5> QED BY <4>1, <5>1, <5>2
      <4> QED BY <3>1, <4>1, <4>2, <4>3 DEF Behind
    <3>6. IsFiniteSet(Behind(j, q)') /\ Cardinality(Behind(j, q)') <= MaxStreams - 1
      <4>1. Behind(j, q)' \subseteq Behind(i, p)
        BY <3>5
      <4> QED BY <3>3, <4>1, RoomStays
    <3>7. made'[liveRows'[j].id] = "open" /\ byId'[q].id = liveRows'[j].id
      BY <1>2, <1>4, <3>1, <3>2, <3>3, <3>4 DEF HasRoom
    <3> QED BY <3>6, <3>7 DEF HasRoom
  <2>11. StreamsFit'
    BY <1>8, <2>10 DEF StreamsFit
  <2> QED BY <1>1, <1>2, <1>5, <1>9, <2>6, <2>7, <2>11
<1> QED BY <1>10, <1>11

LEMMA RowsStep == RowInv /\ [RowsNext]_rowsVars => RowInv'
<1> SUFFICES ASSUME RowInv, [RowsNext]_rowsVars PROVE RowInv'
  OBVIOUS
<1>1. CASE UNCHANGED rowsVars
  <2>1. RowsAre'
    BY <1>1 DEF rowsVars, RowInv, RowsAre
  <2>2. RowsAgree'
    BY <1>1 DEF rowsVars, RowInv, RowsAgree, Told, DrawerHolds
  <2>3. StreamsFit' = StreamsFit
    BY <1>1 DEF rowsVars, StreamsFit, HasRoom, Behind, Streaming
  <2> QED BY <1>1, <2>1, <2>2, <2>3 DEF rowsVars, RowInv
<1>2. CASE RowsNext
  BY <1>2, EventKeeps, FlushKeeps, ReadKeeps, PageKeeps, TickKeeps, SettleKeeps DEF RowsNext
<1> QED BY <1>1, <1>2

LEMMA RowsInvariant == RowsSpec => []RowInv
BY RowsStart, RowsStep, PTL DEF RowsSpec

-----------------------------------------------------------------------------
(* What the pages read of the rows *)

LEMMA RowTypes ==
  ASSUME RowInv
  PROVE  /\ liveRows \in Seq(Copies) /\ Len(liveRows) \in Nat /\ DOMAIN liveRows = 1 .. Len(liveRows)
         /\ IsFiniteSet(DOMAIN liveRows) /\ Cardinality(DOMAIN liveRows) = Len(liveRows)
         /\ \A i \in DOMAIN liveRows :
              /\ liveRows[i] \in Copies /\ liveRows[i].id \in RowIds
              /\ liveRows[i].state \in {"open", "settled"}
              /\ liveRows[i] = [id |-> liveRows[i].id, state |-> liveRows[i].state]
<1>1. liveRows \in Seq(Copies)
  BY DEF RowInv, RowsAgree, RowsHold
<1> DEFINE n == Len(liveRows)
<1>2. n \in Nat /\ DOMAIN liveRows = 1 .. n /\ \A i \in DOMAIN liveRows : liveRows[i] \in Copies
  BY <1>1, LenProperties, ElementOfSeq
<1>3. \A c \in Copies : c.id \in RowIds /\ c.state \in {"open", "settled"} /\ c = [id |-> c.id, state |-> c.state]
  BY DEF Copies
<1>4. IsFiniteSet(1 .. n) /\ Cardinality(1 .. n) = n
  <2> HIDE DEF n
  <2>1. IsFiniteSet(1 .. n) /\ Cardinality(1 .. n) = IF 1 > n THEN 0 ELSE n - 1 + 1
    <3>1. 1 \in Int /\ n \in Int
      BY <1>2
    <3> QED BY <3>1, FS_Interval
  <2> QED BY <1>2, <2>1
<1> QED BY <1>1, <1>2, <1>3, <1>4

\* Where no receipt has two rows, rows stand for as many receipts.
LEMMA RowsStandForReceipts ==
  ASSUME RowInv, RowIdsOf(liveRows) \cap joined = {}, NEW S \in SUBSET DOMAIN liveRows
  PROVE  Cardinality({liveRows[i].id : i \in S}) = Cardinality(S)
<1> DEFINE T == {liveRows[i].id : i \in S}
           h == [i \in S |-> liveRows[i].id]
<1>1. IsFiniteSet(S)
  BY RowTypes, FS_Subset
<1>2. (\A i \in S : h[i] \in T) /\ \A t \in T : \E i \in S : h[i] = t
  OBVIOUS
<1>3. \A i, j \in S : h[i] = h[j] => i = j
  <2> SUFFICES ASSUME NEW i \in S, NEW j \in S, liveRows[i].id = liveRows[j].id, i # j PROVE FALSE
    OBVIOUS
  <2>1. liveRows[i].id \in joined
    BY DEF RowInv, RowsAgree, RowsHold
  <2>2. liveRows[i].id \in RowIdsOf(liveRows)
    BY DEF RowIdsOf
  <2> QED BY <2>1, <2>2
<1> HIDE DEF T, h
<1>4. Cardinality(T) = Cardinality(S)
  BY <1>1, <1>2, <1>3, OneToOneCounts
<1> QED BY <1>4 DEF T

LEMMA FiguresAreCounted == RowInv => FiguresCountOnce
<1> SUFFICES ASSUME RowInv PROVE FiguresCountOnce
  OBVIOUS
<1> DEFINE done == {i \in DOMAIN liveRows : counted(liveRows[i])}
           priced == {i \in done : costUsd(liveRows[i]) # NoPrice}
           bare == {i \in done : VerdictOf[liveRows[i].id] \in unpriced}
           paid == {i \in done : VerdictOf[liveRows[i].id] = "allowed" /\ liveRows[i].state = "settled"}
           f == [i \in priced |-> costUsd(liveRows[i])]
           N == Cardinality(done)
           A == Cardinality(paid)
           C == Cardinality(bare)
           P == Cardinality(priced)
<1>1. "allowed" \notin unpriced
  BY DEF unpriced
<1>2. \A i \in done : /\ VerdictOf[liveRows[i].id] \in unpriced <=> costUsd(liveRows[i]) = NoPrice
                      /\ i \in paid => costUsd(liveRows[i]) = 1
                      /\ i \notin paid /\ i \notin bare => costUsd(liveRows[i]) = 0
                      /\ NoPrice = -1
  BY <1>1 DEF costUsd, NoPrice
<1>3. /\ done \in SUBSET DOMAIN liveRows /\ bare \in SUBSET DOMAIN liveRows
      /\ paid \in SUBSET DOMAIN liveRows /\ priced \in SUBSET DOMAIN liveRows
  OBVIOUS
<1>4. priced \cup bare = done /\ priced \cap bare = {} /\ paid \in SUBSET priced
  BY <1>1, <1>2
<1>5. \A i \in priced : f[i] \in {0, 1} /\ (f[i] = 1 <=> i \in paid)
  BY <1>2
<1>6. topModels = [n |-> N, unpriced |-> N - P, cost |-> SumFunction(f)]
  BY DEF topModels
<1>7. DOMAIN f = priced
  OBVIOUS
<1> HIDE DEF f, priced
<1>8. /\ IsFiniteSet(done) /\ IsFiniteSet(bare) /\ IsFiniteSet(paid) /\ IsFiniteSet(priced)
      /\ N \in Nat /\ A \in Nat /\ C \in Nat /\ P \in Nat /\ N <= Len(liveRows)
  <2> HIDE DEF done, bare, paid
  <2>1. IsFiniteSet(DOMAIN liveRows) /\ Cardinality(DOMAIN liveRows) = Len(liveRows)
    BY RowTypes
  <2>2. IsFiniteSet(done) /\ IsFiniteSet(bare) /\ IsFiniteSet(paid) /\ IsFiniteSet(priced)
        /\ Cardinality(done) <= Cardinality(DOMAIN liveRows)
    BY <1>3, <2>1, FS_Subset
  <2> QED BY <2>1, <2>2, FS_CardinalityType
<1>9. N = P + C
  <2> HIDE DEF done, bare, paid
  <2>1. Cardinality(priced \cup bare) = Cardinality(priced) + Cardinality(bare) - Cardinality(priced \cap bare)
    BY <1>8, FS_Union
  <2>2. Cardinality(priced \cap bare) = 0
    BY <1>4, FS_EmptySet
  <2> HIDE DEF N, P, C
  <2>3. N = P + C - 0
    BY <1>4, <2>1, <2>2 DEF N, P, C
  <2> QED BY <1>8, <2>3
<1>10. SumFunction(f) = A
  <2>1. {i \in priced : f[i] = 1} = paid
    BY <1>4, <1>5
  <2> HIDE DEF paid, done, bare
  <2>2. SumFunctionOnSet(f, priced) = Cardinality({i \in priced : f[i] = 1})
    BY <1>5, <1>7, <1>8, SumCounts
  <2> QED BY <1>7, <2>1, <2>2 DEF SumFunction
<1>11. topModels.n = N /\ topModels.unpriced = C /\ topModels.cost = A
  <2>1. topModels.n = N /\ topModels.unpriced = N - P /\ topModels.cost = SumFunction(f)
    BY <1>6
  <2> HIDE DEF N, P, C, A
  <2> QED BY <1>8, <1>9, <1>10, <2>1
<1> DEFINE rs == {r \in Range(liveRows) : counted(r)}
           ids(S) == {liveRows[i].id : i \in S}
<1>12. /\ {r.id : r \in rs} = ids(done)
       /\ {r.id : r \in {x \in rs : VerdictOf[x.id] \in unpriced}} = ids(bare)
       /\ {r.id : r \in {x \in rs : VerdictOf[x.id] = "allowed" /\ x.state = "settled"}} = ids(paid)
  BY DEF Range
<1>13. ASSUME RowIdsOf(liveRows) \cap joined = {}
       PROVE  Cardinality(ids(done)) = N /\ Cardinality(ids(bare)) = C /\ Cardinality(ids(paid)) = A
  <2> HIDE DEF done, bare, paid
  <2> QED BY <1>3, <1>13, RowsStandForReceipts
<1> HIDE DEF N, P, C, A, ids
<1>14. /\ modelTable.from = Len(liveRows) /\ modelTable.requests = N /\ modelTable.noPrice = C
       /\ modelTable.cost = IF C > 0 /\ A = 0 THEN NoPrice ELSE A
  BY <1>11 DEF modelTable
<1> HIDE DEF done, bare, paid
<1> QED BY <1>8, <1>12, <1>13, <1>14 DEF FiguresCountOnce

\* A list with each receipt once has as many receipts as entries.
LEMMA EntriesAreReceipts ==
  ASSUME NEW s \in Seq(Copies), OneCopyEach(s)
  PROVE  Cardinality(RowIdsOf(s)) = Len(s)
<1> DEFINE n == Len(s)
           S == 1 .. n
           T == RowIdsOf(s)
           h == [k \in S |-> s[k].id]
<1>1. n \in Nat /\ DOMAIN s = 1 .. n
  BY LenProperties
<1>2. (\A k \in S : h[k] \in T) /\ (\A t \in T : \E k \in S : h[k] = t)
  BY <1>1 DEF RowIdsOf
<1>3. \A j, k \in S : h[j] = h[k] => j = k
  BY <1>1 DEF OneCopyEach
<1> HIDE DEF n
<1>4. IsFiniteSet(S) /\ Cardinality(S) = n
  <2>1. IsFiniteSet(1 .. n) /\ Cardinality(1 .. n) = IF 1 > n THEN 0 ELSE n - 1 + 1
    <3>1. 1 \in Int /\ n \in Int
      BY <1>1
    <3> QED BY <3>1, FS_Interval
  <2> QED BY <1>1, <2>1
<1> HIDE DEF S, T, h
<1>5. Cardinality(T) = Cardinality(S)
  BY <1>2, <1>3, <1>4, OneToOneCounts
<1> QED BY <1>4, <1>5 DEF T, n

LEMMA RowsAreOnce == RowInv => OneRowPerReceipt
<1> SUFFICES ASSUME RowInv, RowIdsOf(blocks) \cap joined = {}
             PROVE  Cardinality(RowIdsOf(blocks)) = Len(blocks)
  BY DEF OneRowPerReceipt, RowInv, RowsAgree, RowsHold
<1> DEFINE at == {i \in DOMAIN liveRows : VerdictOf[liveRows[i].id] # "allowed"}
           n == Len(blocks)
<1>1. at \in SUBSET DOMAIN liveRows /\ blocks = RowsAt(liveRows, at)
  BY DEF blocks
<1> HIDE DEF at
<1>2. blocks \in Seq(Copies) /\ \E o \in [1 .. n -> at] :
           /\ \A k \in 1 .. n : blocks[k] = liveRows[o[k]]
           /\ \A i \in at : \E k \in 1 .. n : o[k] = i
           /\ \A j, k \in 1 .. n : j < k <=> o[j] < o[k]
  <2>1. liveRows \in Seq(Copies)
    BY RowTypes
  <2> DEFINE kept == RowsAt(liveRows, at)
  <2>2. kept \in Seq(Copies) /\ \E o \in [1 .. Len(kept) -> at] :
           /\ \A k \in 1 .. Len(kept) : kept[k] = liveRows[o[k]]
           /\ \A i \in at : \E k \in 1 .. Len(kept) : o[k] = i
           /\ \A j, k \in 1 .. Len(kept) : j < k <=> o[j] < o[k]
           /\ \A j, k \in 1 .. Len(kept) : o[j] = o[k] => j = k
    BY <1>1, <2>1, RowsAtKeeps
  <2>3. kept = blocks
    BY <1>1
  <2> HIDE DEF kept
  <2> QED BY <2>2, <2>3
<1>3. PICK o \in [1 .. n -> at] :
           /\ \A k \in 1 .. n : blocks[k] = liveRows[o[k]]
           /\ \A i \in at : \E k \in 1 .. n : o[k] = i
           /\ \A j, k \in 1 .. n : j < k <=> o[j] < o[k]
  BY <1>2
<1>4. n \in Nat /\ DOMAIN blocks = 1 .. n
  BY <1>2, LenProperties
<1> HIDE DEF n
<1>5. OneCopyEach(blocks)
  <2> SUFFICES ASSUME NEW j \in 1 .. n, NEW k \in 1 .. n, blocks[j].id = blocks[k].id, j # k PROVE FALSE
    BY <1>4 DEF OneCopyEach
  <2>1. j < k \/ k < j
    OBVIOUS
  <2>2. o[j] < o[k] \/ o[k] < o[j]
    BY <1>3, <2>1
  <2>3. o[j] \in DOMAIN liveRows /\ o[k] \in DOMAIN liveRows /\ o[j] # o[k]
    BY <1>1, <2>2, RowTypes
  <2>4. liveRows[o[j]].id = liveRows[o[k]].id /\ blocks[j].id = liveRows[o[j]].id
    BY <1>3
  <2>5. liveRows[o[j]].id \in joined
    BY <2>3, <2>4 DEF RowInv, RowsAgree, RowsHold
  <2>6. blocks[j].id \in RowIdsOf(blocks)
    BY <1>4 DEF RowIdsOf
  <2> QED BY <2>4, <2>5, <2>6
<1> QED BY <1>2, <1>5, EntriesAreReceipts

LEMMA RowsHaveTypes == RowInv => RowsTypeOK
<1> SUFFICES ASSUME RowInv PROVE RowsTypeOK
  OBVIOUS
<1> USE DEF RowInv, RowsAre, RowsAgree
<1>1. /\ byId \in Seq(Copies) /\ Len(byId) <= ByIdCap /\ OneCopyEach(byId)
      /\ liveRows \in Seq(Copies) /\ Len(liveRows) <= RowCap /\ pending \in Seq(Copies)
  BY DEF CopyLists, RowsHold, BatchFits
<1>2. \A r \in Range(liveRows) \cup Range(byId) \cup Range(pending) : made[r.id] \in {r.state, "settled"}
  BY DEF Told, Range
<1>3. Cardinality(RowIdsOf(byId)) = Len(byId)
  BY <1>1, EntriesAreReceipts
<1>4. Range(liveRows) \subseteq Copies /\ Range(byId) \subseteq Copies
  BY <1>1, ElementOfSeq DEF Range
<1> QED BY <1>1, <1>2, <1>3, <1>4 DEF RowsTypeOK

LEMMA CopiesSettle == RowInv => SettlesInPlace
BY DEF RowInv, RowsAgree, RowsHold, DrawerHolds, SettlesInPlace, Range

LEMMA StreamsHaveTimers == RowInv => StreamsWillSettle
BY DEF RowInv, StreamsFit, HasRoom, StreamsWillSettle, Range, RowIdsOf

LEMMA ArrivalsShow ==
  RowInv /\ flushRows => \/ Len(pending) > RowCap
                         \/ RowIdsOf(pending) \subseteq RowIdsOf(liveRows) \cup RowIdsOf(liveRows')
<1> SUFFICES ASSUME RowInv, flushRows, ~(Len(pending) > RowCap),
                    NEW j \in DOMAIN pending, pending[j].id \notin RowIdsOf(liveRows)
             PROVE  pending[j].id \in RowIdsOf(liveRows')
  BY DEF RowIdsOf
<1> DEFINE new == fresh(pending, RowIdsOf(liveRows))
           pat == patched(liveRows, pending)
           n   == Len(new)
           R   == NextRows(liveRows, pending)
<1>1. /\ liveRows \in Seq(Copies) /\ Len(liveRows) <= RowCap /\ pending \in Seq(Copies)
  BY DEF RowInv, RowsAgree, RowsHold, BatchFits
<1>2. liveRows' = R
  BY DEF flushRows, upsertMany, NextRows, knownIn
<1>3. /\ n \in Nat /\ n <= Len(pending) /\ new \in Seq(Copies)
      /\ \E o \in [1 .. n -> DOMAIN pending] :
           /\ \A k \in 1 .. n : new[k] = pending[o[k]] /\ new[k].id \notin RowIdsOf(liveRows)
           /\ \A i \in DOMAIN pending : pending[i].id \notin RowIdsOf(liveRows) => \E k \in 1 .. n : o[k] = i
           /\ \A i, k \in 1 .. n : i < k <=> o[i] < o[k]
      /\ R \in Seq(Copies) /\ Len(R) <= RowCap /\ Len(R) \in Nat
      /\ Len(R) <= n + Len(liveRows) /\ (n <= RowCap => n <= Len(R))
      /\ \A i \in 1 .. Len(R) : i <= n => n - i + 1 \in 1 .. n /\ R[i] = new[n - i + 1]
      /\ \A i \in 1 .. Len(R) : i > n => i - n \in DOMAIN liveRows /\ R[i] = pat[i - n]
  BY <1>1, RowsAfter
<1> HIDE DEF new, pat, n, R
<1>4. PICK o \in [1 .. n -> DOMAIN pending] :
           /\ \A k \in 1 .. n : new[k] = pending[o[k]] /\ new[k].id \notin RowIdsOf(liveRows)
           /\ \A i \in DOMAIN pending : pending[i].id \notin RowIdsOf(liveRows) => \E k \in 1 .. n : o[k] = i
           /\ \A i, k \in 1 .. n : i < k <=> o[i] < o[k]
  BY <1>3
<1>5. PICK k \in 1 .. n : o[k] = j
  BY <1>4
<1>6. n <= Len(R)
  <2>1. Len(pending) \in Nat /\ RowCap \in Nat
    BY <1>1, LenProperties, RowAssumptions
  <2> QED BY <1>3, <2>1
<1>7. n - k + 1 \in 1 .. Len(R) /\ n - k + 1 <= n /\ n - (n - k + 1) + 1 = k
  BY <1>3, <1>6
<1>8. R[n - k + 1] = new[k]
  BY <1>3, <1>7
<1>9. n - k + 1 \in DOMAIN R
  BY <1>3, <1>7, LenProperties
<1> QED BY <1>2, <1>4, <1>5, <1>8, <1>9 DEF RowIdsOf

LEMMA RowsAreFollowed == WebSpec => RowsSpec
<1>1. WebInit => RowsInit
  BY DEF WebInit
<1>2. [WebNext]_webVars => [RowsNext]_rowsVars
  BY DEF WebNext, webVars, Waits
<1> QED BY <1>1, <1>2, PTL DEF WebSpec, RowsSpec

\* upsertMany makes of every receipt that comes one row, which settles where it stands, but
\* for those that one batch brings twice before they are rows (app-state.tsx:219), which the
\* server's stream does send (stream.go:25); but for those, Keys counts each once; and the
\* demo's timers find what they are to settle, however many copies the caps have thrown out.
THEOREM RowsFollow == WebSpec => RowsFollowReceipts
<1>1. RowInv => OneRowPerReceipt /\ FiguresCountOnce /\ SettlesInPlace /\ StreamsWillSettle
  BY RowsAreOnce, FiguresAreCounted, CopiesSettle, StreamsHaveTimers
<1>2. RowInv /\ [RowsNext]_rowsVars =>
        [flushRows => \/ Len(pending) > RowCap
                      \/ RowIdsOf(pending) \subseteq RowIdsOf(liveRows) \cup RowIdsOf(liveRows')]_rowsVars
  BY ArrivalsShow
<1> QED BY <1>1, <1>2, RowsAreFollowed, RowsInvariant, PTL DEF RowsSpec, RowsFollowReceipts, ArrivalsAreShown

-----------------------------------------------------------------------------
(* The polling pages *)

PollChoices == [range : DOMAIN Quarters, dim : Dims]
Paths == [range : DOMAIN Quarters \cup {NoGroup}, dim : Dims \cup {NoGroup}]
Asks(n) == [path : Paths, live : BOOLEAN, at : {NoAnswer} \cup 0 .. n]

\* What a page holds: of an answer the path it is to, in the demo what Spend began with.
Holds(h, mode, page, n) ==
  /\ h.path \in Paths /\ h.loaded \in BOOLEAN /\ h.data \in [path : Paths, at : Demo .. n]
  /\ mode = "api" /\ h.loaded => h.data.path = h.path /\ h.data.at \in 0 .. n
  /\ mode = "mock" /\ page = "spend" => h.data \in Views /\ h.data.at = Demo

CsvHolds(x) ==
  /\ x.view \in Views /\ x.lines = spendCsv(Figures[x.view].rows)
  /\ dataMode = "api" => x.view.path = path

RowHolds(x) ==
  /\ x.view \in Views /\ x.row \in Figures[x.view].rows /\ x.href.id = x.row.id
  /\ dataMode = "api" => x.href.dim = x.view.path.dim

BarHolds(x) ==
  /\ x.shown \in DOMAIN Quarters /\ x.range \in DOMAIN Quarters
  /\ x.day \in Today - TrendDays[x.shown] + 1 .. Today
  /\ x.window = useWindow(x.range, dayLabel(x.day))

OutHolds ==
  \A x \in out : /\ x.kind = "csv" => CsvHolds(x)
                 /\ x.kind = "row" => RowHolds(x)
                 /\ x.kind = "bar" => BarHolds(x)

AskedHolds ==
  /\ asked \in Seq(Asks(growth)) /\ Len(asked) <= MaxAsked
  /\ \A i \in 1 .. Len(asked) : asked[i].live => asked[i].path = path
  /\ dataMode = "mock" => asked = <<>>

SpendInv ==
  /\ dataMode \in {"api", "mock"} /\ onPage \in PollingPages /\ choice \in PollChoices
  /\ growth \in 0 .. MaxGrowth
  /\ \E n \in 0 .. MaxGrowth : list = KeysAt(n)
  /\ openKey # NoGroup => onPage = "keys"
  /\ AskedHolds /\ Holds(held, dataMode, onPage, growth) /\ OutHolds

-----------------------------------------------------------------------------

LEMMA SpendConstants ==
  /\ Today \in Nat /\ Today >= 1 /\ Year \in Nat /\ NewYear \in 1 .. Year /\ Today <= Year
  /\ MaxGrowth \in Nat /\ TopN \in Nat /\ TopN >= 1 /\ MaxAsked \in Nat /\ MaxAsked >= 1
  /\ "24h" \in DOMAIN Quarters /\ "team" \in Dims
  /\ \A r \in DOMAIN Quarters : /\ Quarters[r] \in Nat /\ Quarters[r] >= 1
                                /\ TrendDays[r] \in Nat /\ TrendDays[r] >= 1 /\ TrendDays[r] <= Today
                                /\ Quarters[r] > 4 => Quarters[r] >= 4 * (TrendDays[r] - 1)
<1> DEFINE t == Today
<1>1. Year \in Nat /\ t \in 1 .. Year
  BY SpendAssumptions
<1> HIDE DEF t
<1>2. t \in Nat /\ t >= 1 /\ t <= Year
  BY <1>1
<1>3. \A r \in DOMAIN Quarters : Quarters[r] \in Nat \ {0} /\ TrendDays[r] \in 1 .. t
                                 /\ (Quarters[r] > 4 => Quarters[r] >= 4 * (TrendDays[r] - 1))
  BY SpendAssumptions DEF t
<1>4. \A r \in DOMAIN Quarters :
        /\ Quarters[r] \in Nat /\ Quarters[r] >= 1
        /\ TrendDays[r] \in Nat /\ TrendDays[r] >= 1 /\ TrendDays[r] <= t
        /\ Quarters[r] > 4 => Quarters[r] >= 4 * (TrendDays[r] - 1)
  BY <1>2, <1>3
<1>5. MaxGrowth \in Nat /\ TopN \in Nat \ {0} /\ MaxAsked \in Nat \ {0}
  BY SpendAssumptions
<1>6. NewYear \in 1 .. Year /\ "24h" \in DOMAIN Quarters /\ "team" \in Dims
  BY SpendAssumptions
<1>7. TopN \in Nat /\ TopN >= 1 /\ MaxAsked \in Nat /\ MaxAsked >= 1
  BY <1>5
<1> QED BY <1>1, <1>2, <1>4, <1>5, <1>6, <1>7 DEF t

\* What is asked for and first shown.
LEMMA PathsAre ==
  ASSUME NEW page \in PollingPages, NEW c \in PollChoices
  PROVE  /\ PathOf(page, c) \in Paths
         /\ page = "spend" => PathOf(page, c) = c
  BY DEF PathOf, Paths, PollChoices, PollingPages

LEMMA FirstHolds ==
  ASSUME NEW page \in PollingPages, NEW c \in PollChoices, dataMode \in {"api", "mock"}, NEW n \in Nat
  PROVE  Holds(FirstState(page, c), dataMode, page, n)
<1> DEFINE f == FirstState(page, c)
           d == initial(page, c)
<1>1. f.path = PathOf(page, c) /\ f.data = d /\ f.loaded = (dataMode = "mock") /\ f.loaded \in BOOLEAN
  BY DEF FirstState
<1>2. PathOf(page, c) \in Paths
  BY PathsAre
<1>3. d.path \in Paths
  <2>1. [c EXCEPT !.range = "24h"] \in PollChoices
    BY SpendConstants DEF PollChoices
  <2>2. PathOf(page, [c EXCEPT !.range = "24h"]) \in Paths
    BY <2>1, PathsAre
  <2> QED BY <1>2, <2>2 DEF initial
<1>4. d.at \in {Demo, NoAnswer} /\ d.at \in Demo .. n
  BY DEF initial, Demo, NoAnswer
<1>5. ASSUME dataMode = "mock", page = "spend"
      PROVE  d \in Views /\ d.at = Demo
  <2>1. d = [path |-> PathOf(page, c), at |-> Demo]
    BY <1>5 DEF initial
  <2>2. PathOf(page, c) \in [range : DOMAIN Quarters, dim : Dims]
    BY <1>5, PathsAre DEF PollChoices
  <2> QED BY <2>1, <2>2 DEF Views
<1>7. d = [path |-> d.path, at |-> d.at]
  BY DEF initial
<1> HIDE DEF f, d
<1>6. dataMode = "api" => ~f.loaded
  BY <1>1
<1> QED BY <1>1, <1>2, <1>3, <1>4, <1>5, <1>6, <1>7 DEF Holds, f

LEMMA LoadHolds ==
  ASSUME NEW p \in Paths, NEW n \in Nat, dataMode \in {"api", "mock"}
  PROVE  /\ load(p) \in Seq(Asks(n)) /\ Len(load(p)) <= 1
         /\ \A i \in 1 .. Len(load(p)) : load(p)[i].path = p
         /\ dataMode = "mock" => load(p) = <<>>
<1>1. Request(p) \in Asks(n) /\ Request(p).path = p
  BY DEF Request, Asks
<1>2. CASE dataMode = "api"
  <2>1. load(p) = <<Request(p)>>
    BY <1>2 DEF load
  <2>2. load(p) \in Seq(Asks(n)) /\ Len(load(p)) = 1 /\ load(p)[1] = Request(p)
    BY <1>1, <2>1
  <2> QED BY <1>1, <1>2, <2>2
<1>3. CASE dataMode = "mock"
  <2>1. load(p) = <<>>
    BY <1>3 DEF load
  <2> QED BY <2>1
<1> QED BY <1>2, <1>3

\* What a loaded Spend page shows.
LEMMA LoadedViews ==
  ASSUME SpendInv, onPage = "spend", Live.loaded
  PROVE  /\ Live.data \in Views
         /\ dataMode = "api" => Live.data.path = path /\ Live.data.at \in 0 .. growth
         /\ dataMode = "mock" => Live.data.at = Demo
<1>1. path = choice /\ choice \in [range : DOMAIN Quarters, dim : Dims] /\ growth \in 0 .. MaxGrowth
  BY PathsAre DEF SpendInv, path, PollChoices
<1>2. CASE dataMode = "mock"
  <2>1. Live = held
    BY <1>2 DEF Live
  <2> QED BY <1>2, <2>1 DEF SpendInv, Holds
<1>3. CASE dataMode = "api"
  <2>1. held.path = path /\ Live = held
    BY <1>3 DEF Live
  <2>2. held.data.path = path /\ held.data.at \in 0 .. growth
    BY <1>3, <2>1 DEF SpendInv, Holds
  <2>3. Live.data \in Views
    <3>1. held.data = [path |-> held.data.path, at |-> held.data.at]
      BY DEF SpendInv, Holds
    <3> QED BY <1>1, <2>1, <2>2, <3>1, SpendConstants DEF Views
  <2> QED BY <1>3, <2>1, <2>2, <2>3
<1> QED BY <1>2, <1>3 DEF SpendInv

-----------------------------------------------------------------------------
(* A step keeps the invariant *)

LEMMA NothingOut == out' = {} => OutHolds'
BY DEF OutHolds

\* What a page holds stays so while the ledger grows, and whatever its user does to it.
LEMMA HeldStays ==
  ASSUME NEW h, NEW mode, NEW page, NEW n \in Nat, Holds(h, mode, page, n), NEW m \in Nat, n <= m
  PROVE  Holds(h, mode, page, m)
<1>1. Demo .. n \subseteq Demo .. m /\ 0 .. n \subseteq 0 .. m
  BY DEF Demo
<1>2. h.data \in [path : Paths, at : Demo .. m]
  BY <1>1 DEF Holds
<1> QED BY <1>1, <1>2 DEF Holds

LEMMA PathIsOne == SpendInv => path \in Paths
BY PathsAre DEF SpendInv, path

LEMMA SpendStarts == SpendInit => SpendInv
<1> SUFFICES ASSUME SpendInit PROVE SpendInv
  OBVIOUS
<1>1. dataMode \in {"api", "mock"} /\ onPage = "overview" /\ onPage \in PollingPages
  BY DEF SpendInit, PollingPages
<1>2. choice \in PollChoices
  BY SpendConstants DEF SpendInit, PollChoices
<1>3. growth = 0 /\ growth \in 0 .. MaxGrowth /\ growth \in Nat
  BY SpendConstants DEF SpendInit
<1>4. list = KeysAt(0) /\ 0 \in 0 .. MaxGrowth
  BY SpendConstants DEF SpendInit, seedList
<1>5. Holds(held, dataMode, onPage, growth)
  BY <1>1, <1>2, <1>3, FirstHolds DEF SpendInit
<1>6. AskedHolds
  <2>1. path \in Paths
    BY <1>1, <1>2, PathsAre DEF path
  <2>2. /\ asked \in Seq(Asks(growth)) /\ Len(asked) <= 1
        /\ \A i \in 1 .. Len(asked) : asked[i].path = path
        /\ dataMode = "mock" => asked = <<>>
    BY <1>1, <1>3, <2>1, LoadHolds DEF SpendInit
  <2> QED BY <2>2, SpendConstants DEF AskedHolds
<1>7. OutHolds /\ openKey = NoGroup
  BY DEF SpendInit, OutHolds
<1> QED BY <1>1, <1>2, <1>3, <1>4, <1>5, <1>6, <1>7 DEF SpendInv

\* The requests of an effect that ends are dead.
LEMMA CleanupKeeps ==
  ASSUME NEW n \in Nat, NEW rs \in Seq(Asks(n))
  PROVE  /\ cleanup(rs) \in Seq(Asks(n)) /\ Len(cleanup(rs)) = Len(rs)
         /\ \A i \in 1 .. Len(rs) : ~cleanup(rs)[i].live
<1>1. \A i \in 1 .. Len(rs) : rs[i] \in Asks(n)
  BY ElementOfSeq
<1>2. \A i \in 1 .. Len(rs) : [rs[i] EXCEPT !.live = FALSE] \in Asks(n)
                              /\ [rs[i] EXCEPT !.live = FALSE].live = FALSE
  BY <1>1 DEF Asks
<1>3. cleanup(rs) = [i \in 1 .. Len(rs) |-> [rs[i] EXCEPT !.live = FALSE]]
  BY LenProperties DEF cleanup
<1>4. cleanup(rs) \in [1 .. Len(rs) -> Asks(n)] /\ Len(rs) \in Nat
  BY <1>2, <1>3, LenProperties
<1>5. cleanup(rs) \in Seq(Asks(n)) /\ Len(cleanup(rs)) = Len(rs)
  BY <1>4, IsASeq
<1> QED BY <1>2, <1>3, <1>5

LEMMA RerenderKeeps ==
  ASSUME SpendInv, NEW c \in PollChoices, Rerender(c)
  PROVE  SpendInv'
<1> DEFINE p == PathOf(onPage, c)
<1>1. dataMode \in {"api", "mock"} /\ growth \in 0 .. MaxGrowth /\ growth \in Nat /\ onPage \in PollingPages
  BY SpendConstants DEF SpendInv
<1>2. choice' = c /\ path' = p /\ p \in Paths
  BY <1>1, PathsAre DEF Rerender, path
<1>3. UNCHANGED <<dataMode, onPage, openKey, list, held, growth, outages>> /\ out' = {}
  BY DEF Rerender, keysVars
<1>4. Len(asked') <= MaxAsked /\ asked' = IF p = path THEN asked ELSE cleanup(asked) \o load(p)
  BY DEF Rerender
<1>5. asked \in Seq(Asks(growth)) /\ (dataMode = "mock" => asked = <<>>)
      /\ \A i \in 1 .. Len(asked) : asked[i].live => asked[i].path = path
  BY DEF SpendInv, AskedHolds
<1> HIDE DEF p
<1>6. CASE p = path
  <2>1. AskedHolds'
    BY <1>2, <1>3, <1>4, <1>5, <1>6 DEF AskedHolds
  <2> QED BY <1>2, <1>3, <2>1, NothingOut DEF SpendInv
<1>7. CASE p # path
  <2> DEFINE a == cleanup(asked)
             b == load(p)
  <2>1. /\ a \in Seq(Asks(growth)) /\ Len(a) = Len(asked)
        /\ \A i \in 1 .. Len(asked) : ~a[i].live
    BY <1>1, <1>5, CleanupKeeps
  <2>2. /\ b \in Seq(Asks(growth)) /\ \A i \in 1 .. Len(b) : b[i].path = p
        /\ dataMode = "mock" => b = <<>>
    BY <1>1, <1>2, LoadHolds
  <2>3. asked' = a \o b
    BY <1>4, <1>7
  <2>a. dataMode = "mock" => a = <<>>
    BY <1>5 DEF cleanup
  <2> HIDE DEF a, b
  <2>4. a \o b \in Seq(Asks(growth)) /\ Len(a \o b) = Len(a) + Len(b)
        /\ \A i \in 1 .. Len(a) + Len(b) : (a \o b)[i] = IF i <= Len(a) THEN a[i] ELSE b[i - Len(a)]
    BY <2>1, <2>2, ConcatProperties, ZenonT(60)
  <2>5. \A i \in 1 .. Len(a \o b) : (a \o b)[i].live => (a \o b)[i].path = p
    BY <2>1, <2>2, <2>4, LenProperties
  <2>6. dataMode = "mock" => a \o b = <<>>
    BY <2>2, <2>a
  <2>7. AskedHolds'
    BY <1>2, <1>3, <1>4, <2>3, <2>4, <2>5, <2>6 DEF AskedHolds
  <2> QED BY <1>2, <1>3, <2>7, NothingOut DEF SpendInv
<1> QED BY <1>6, <1>7

LEMMA PollKeeps == SpendInv /\ poll => SpendInv'
<1> SUFFICES ASSUME SpendInv, poll PROVE SpendInv'
  OBVIOUS
<1>1. growth \in Nat /\ asked \in Seq(Asks(growth)) /\ path \in Paths
  BY SpendConstants, PathIsOne DEF SpendInv, AskedHolds
<1>2. Request(path) \in Asks(growth) /\ Request(path).path = path
  BY <1>1 DEF Request, Asks
<1>3. /\ asked' \in Seq(Asks(growth)) /\ Len(asked') = Len(asked) + 1
      /\ \A i \in 1 .. Len(asked) : asked'[i] = asked[i]
      /\ asked'[Len(asked) + 1] = Request(path)
  BY <1>1, <1>2, AppendProperties DEF poll
<1>4. UNCHANGED <<dataMode, onPage, choice, openKey, list, held, growth, outages>> /\ out' = {}
  BY DEF poll, keysVars
<1>5. path' = path /\ dataMode = "api" /\ Len(asked) < MaxAsked /\ Len(asked) \in Nat
  BY <1>1, <1>4, LenProperties DEF poll, path
<1>6. AskedHolds'
  BY <1>2, <1>3, <1>4, <1>5, SpendConstants DEF SpendInv, AskedHolds
<1> QED BY <1>4, <1>6, NothingOut DEF SpendInv

LEMMA ReadsKeep == ASSUME SpendInv, NEW i \in 1 .. MaxAsked, ServerReads(i) PROVE SpendInv'
<1>1. growth \in Nat /\ growth \in 0 .. growth /\ asked \in Seq(Asks(growth))
  BY SpendConstants DEF SpendInv, AskedHolds
<1>2. i \in 1 .. Len(asked) /\ asked[i] \in Asks(growth)
  BY <1>1, ElementOfSeq DEF ServerReads
<1>3. [asked[i] EXCEPT !.at = growth] \in Asks(growth)
      /\ [asked[i] EXCEPT !.at = growth].live = asked[i].live
      /\ [asked[i] EXCEPT !.at = growth].path = asked[i].path
  BY <1>1, <1>2 DEF Asks
<1>4. asked' = [asked EXCEPT ![i] = [asked[i] EXCEPT !.at = growth]]
  BY DEF ServerReads
<1>5. /\ asked' \in Seq(Asks(growth)) /\ Len(asked') = Len(asked)
      /\ \A j \in 1 .. Len(asked) : asked'[j] = IF i = j THEN [asked[i] EXCEPT !.at = growth] ELSE asked[j]
  BY <1>1, <1>2, <1>3, <1>4, ExceptSeq
<1>6. UNCHANGED <<dataMode, onPage, choice, openKey, list, held, growth, outages>> /\ out' = {}
  BY DEF ServerReads, keysVars
<1>7. path' = path /\ (dataMode = "mock" => asked' = <<>>)
  BY <1>2, <1>6 DEF path, SpendInv, AskedHolds
<1>8. AskedHolds'
  BY <1>3, <1>5, <1>6, <1>7 DEF SpendInv, AskedHolds
<1> QED BY <1>6, <1>8, NothingOut DEF SpendInv

LEMMA FewerAsked ==
  ASSUME SpendInv, NEW i \in 1 .. Len(asked), asked' = RemoveAt(asked, i),
         UNCHANGED <<dataMode, onPage, choice, growth>>
  PROVE  AskedHolds'
<1>1. asked \in Seq(Asks(growth)) /\ Len(asked) <= MaxAsked /\ Len(asked) \in Nat
  BY LenProperties DEF SpendInv, AskedHolds
<1>2. /\ asked' \in Seq(Asks(growth)) /\ Len(asked') = Len(asked) - 1
      /\ \A j \in 1 .. Len(asked') : \E k \in 1 .. Len(asked) : asked'[j] = asked[k]
  <2> DEFINE A == Asks(growth)
             s == asked
             r == RemoveAt(s, i)
  <2>1. s \in Seq(A) /\ i \in 1 .. Len(s) /\ asked' = r
    BY <1>1
  <2> HIDE DEF A, s
  <2>2. /\ r \in Seq(A) /\ Len(r) = Len(s) - 1
        /\ \A j \in 1 .. Len(r) : \E k \in 1 .. Len(s) : r[j] = s[k]
    BY <2>1, RemoveKeeps
  <2> HIDE DEF r
  <2> QED BY <2>1, <2>2 DEF A, s
<1>3. path' = path
  BY DEF path
<1>4. \A j \in 1 .. Len(asked') : asked'[j].live => asked'[j].path = path
  BY <1>2 DEF SpendInv, AskedHolds
<1>5. dataMode # "mock"
  BY DEF SpendInv, AskedHolds
<1> QED BY <1>1, <1>2, <1>3, <1>4, <1>5, SpendConstants DEF AskedHolds

LEMMA PollAnswerKeeps == ASSUME SpendInv, NEW i \in 1 .. MaxAsked, liveAnswer(i) PROVE SpendInv'
<1> DEFINE r == asked[i]
<1>1. UNCHANGED <<dataMode, onPage, choice, openKey, growth, outages>> /\ out' = {}
  BY DEF liveAnswer
<1>2. i \in 1 .. Len(asked) /\ asked' = RemoveAt(asked, i) /\ r.at # NoAnswer
  BY DEF liveAnswer
<1>3. r \in Asks(growth) /\ dataMode = "api"
  <2>1. asked \in Seq(Asks(growth)) /\ dataMode # "mock"
    BY <1>2 DEF SpendInv, AskedHolds
  <2> QED BY <1>2, <2>1, ElementOfSeq DEF SpendInv
<1>4. r.at \in 0 .. growth /\ r.path \in Paths /\ growth \in 0 .. MaxGrowth
  BY <1>2, <1>3 DEF Asks, SpendInv
<1>5. AskedHolds'
  BY <1>1, <1>2, FewerAsked
<1>6. /\ held' = IF r.live THEN [path |-> r.path, loaded |-> TRUE, data |-> [path |-> r.path, at |-> r.at]]
                 ELSE held
      /\ list' = IF r.live /\ onPage = "keys" THEN KeysAt(r.at) ELSE list
  BY DEF liveAnswer
<1>7. \E n \in 0 .. MaxGrowth : list' = KeysAt(n)
  <2>1. r.at \in 0 .. MaxGrowth
    BY <1>4, SpendConstants
  <2> QED BY <1>6, <2>1 DEF SpendInv
<1> HIDE DEF r
<1>8. Holds(held', dataMode, onPage, growth)
  <2>1. CASE r.live
    <3>1. held'.path = r.path /\ held'.loaded = TRUE /\ held'.data = [path |-> r.path, at |-> r.at]
      BY <1>6, <2>1
    <3>2. held'.data \in [path : Paths, at : Demo .. growth]
      BY <1>4, <3>1 DEF Demo
    <3>3. held'.data.path = held'.path /\ held'.data.at \in 0 .. growth
      BY <1>4, <3>1
    <3>4. held'.path \in Paths /\ held'.loaded \in BOOLEAN
      BY <1>4, <3>1
    <3> QED BY <1>3, <3>2, <3>3, <3>4 DEF Holds
  <2>2. CASE ~r.live
    BY <1>6, <2>2 DEF SpendInv
  <2> QED BY <2>1, <2>2
<1> QED BY <1>1, <1>5, <1>7, <1>8, NothingOut DEF SpendInv

LEMMA FailureKeeps == ASSUME SpendInv, NEW i \in 1 .. MaxAsked, liveFailure(i) PROVE SpendInv'
<1>1. UNCHANGED <<dataMode, onPage, choice, openKey, list, held, growth>> /\ out' = {}
  BY DEF liveFailure, keysVars
<1>2. AskedHolds'
  BY <1>1, FewerAsked DEF liveFailure
<1> QED BY <1>1, <1>2, NothingOut DEF SpendInv

LEMMA GoesKeep ==
  ASSUME SpendInv, NEW page \in PollingPages, NEW k \in KeyIds \cup {NoGroup}, goTo(page, k)
  PROVE  SpendInv'
<1> DEFINE c == [choice EXCEPT !.dim = "team"]
           p == PathOf(page, c)
<1>1. UNCHANGED <<dataMode, growth, outages>> /\ out' = {}
  BY DEF goTo
<1>2. dataMode \in {"api", "mock"} /\ growth \in 0 .. MaxGrowth /\ growth \in Nat
  BY SpendConstants DEF SpendInv
<1>3. c \in PollChoices
  BY SpendConstants DEF SpendInv, PollChoices
<1>4. onPage' = page /\ openKey' = k /\ list' = KeysAt(0) /\ choice' = c /\ asked' = load(p)
      /\ held' = FirstState(page, c) /\ path' = p /\ (k # NoGroup => page = "keys")
  BY DEF goTo, seedList, path
<1>5. Holds(held', dataMode, page, growth)
  BY <1>2, <1>3, <1>4, FirstHolds
<1>6. p \in Paths
  BY <1>3, PathsAre
<1> HIDE DEF c, p
<1>7. AskedHolds'
  <2>1. /\ asked' \in Seq(Asks(growth)) /\ Len(asked') <= 1
        /\ \A i \in 1 .. Len(asked') : asked'[i].path = p
        /\ dataMode = "mock" => asked' = <<>>
    BY <1>2, <1>4, <1>6, LoadHolds
  <2>2. Len(asked') <= MaxAsked
    BY <2>1, SpendConstants, LenProperties
  <2> QED BY <1>1, <1>4, <2>1, <2>2 DEF AskedHolds
<1>8. 0 \in 0 .. MaxGrowth
  BY SpendConstants
<1> QED BY <1>1, <1>2, <1>3, <1>4, <1>5, <1>7, <1>8, NothingOut DEF SpendInv

LEMMA ChoosesKeep == ASSUME SpendInv, NEW k \in KeyIds \cup {NoGroup}, chooseKey(k) PROVE SpendInv'
<1>1. UNCHANGED <<dataMode, onPage, choice, list, held, asked, growth, outages>>
      /\ out' = {} /\ onPage = "keys" /\ path' = path
  BY DEF chooseKey, path
<1>2. AskedHolds'
  BY <1>1 DEF SpendInv, AskedHolds
<1> QED BY <1>1, <1>2, NothingOut DEF SpendInv

LEMMA GrowthKeeps == SpendInv /\ LedgerGrows => SpendInv'
<1> SUFFICES ASSUME SpendInv, LedgerGrows PROVE SpendInv'
  OBVIOUS
<1>1. UNCHANGED <<dataMode, onPage, choice, openKey, list, held, asked, outages>>
      /\ out' = {} /\ path' = path
  BY DEF LedgerGrows, keysVars, path
<1>2. growth \in Nat /\ growth' \in Nat /\ growth <= growth' /\ growth' \in 0 .. MaxGrowth
  BY SpendConstants DEF LedgerGrows, SpendInv
<1>3. Holds(held', dataMode', onPage', growth')
  BY <1>1, <1>2, HeldStays DEF SpendInv
<1>4. Asks(growth) \subseteq Asks(growth')
  BY <1>2 DEF Asks
<1>5. asked \in Seq(Asks(growth'))
  <2>1. asked \in Seq(Asks(growth))
    BY DEF SpendInv, AskedHolds
  <2> QED BY <1>4, <2>1
<1>6. AskedHolds'
  BY <1>1, <1>5 DEF SpendInv, AskedHolds
<1> QED BY <1>1, <1>2, <1>3, <1>6, NothingOut DEF SpendInv

\* Only what leads out of the page changes.
LEMMA OutKeeps ==
  ASSUME SpendInv, UNCHANGED <<dataMode, onPage, choice, keysVars, held, asked, growth, outages>>,
         OutHolds'
  PROVE  SpendInv'
<1>1. UNCHANGED <<dataMode, onPage, choice, openKey, list, held, asked, growth>> /\ path' = path
  BY DEF keysVars, path
<1>2. AskedHolds'
  BY <1>1 DEF SpendInv, AskedHolds
<1> QED BY <1>1, <1>2 DEF SpendInv

LEMMA CsvKeeps == SpendInv /\ downloadCsv => SpendInv'
<1> SUFFICES ASSUME SpendInv, downloadCsv PROVE SpendInv'
  OBVIOUS
<1> DEFINE v == Live.data
           x == [kind |-> "csv", view |-> v, lines |-> spendCsv(Figures[v].rows)]
<1>1. UNCHANGED <<dataMode, onPage, choice, keysVars, held, asked, growth, outages>> /\ out' = {x}
  BY DEF downloadCsv
<1>2. v \in Views /\ (dataMode = "api" => v.path = path)
  BY LoadedViews DEF downloadCsv
<1>3. path' = path
  BY <1>1 DEF path
<1>4. x.kind = "csv" /\ x.view = v /\ x.lines = spendCsv(Figures[v].rows)
  OBVIOUS
<1> HIDE DEF x, v
<1>5. OutHolds'
  BY <1>1, <1>2, <1>3, <1>4 DEF OutHolds, CsvHolds
<1> QED BY <1>1, <1>5, OutKeeps

LEMMA DrillKeeps == SpendInv /\ drill => SpendInv'
<1> SUFFICES ASSUME SpendInv, drill PROVE SpendInv'
  OBVIOUS
<1> DEFINE v == Live.data
           x(r) == [kind |-> "row", view |-> v, row |-> r, href |-> trafficHref(choice.dim, r.id)]
<1>1. UNCHANGED <<dataMode, onPage, choice, keysVars, held, asked, growth, outages>>
  BY DEF drill
<1>2. PICK r \in Figures[v].rows : out' = {x(r)}
  BY DEF drill
<1>3. v \in Views /\ (dataMode = "api" => v.path = path) /\ path = choice
  BY LoadedViews, PathsAre DEF drill, path, SpendInv
<1>4. x(r).kind = "row" /\ x(r).view = v /\ x(r).row = r
      /\ x(r).href.id = r.id /\ x(r).href.dim = choice.dim
  BY DEF trafficHref
<1> HIDE DEF x, v
<1>5. OutHolds'
  BY <1>1, <1>2, <1>3, <1>4 DEF OutHolds, RowHolds
<1> QED BY <1>1, <1>5, OutKeeps

LEMMA BarKeeps == ASSUME SpendInv, NEW d \in 1 .. Today, openBar(d) PROVE SpendInv'
<1> DEFINE s == Live.data.path.range
           x == [kind |-> "bar", day |-> d, shown |-> s, range |-> choice.range,
                 window |-> useWindow(choice.range, dayLabel(d))]
<1>1. UNCHANGED <<dataMode, onPage, choice, keysVars, held, asked, growth, outages>> /\ out' = {x}
  BY DEF openBar
<1>2. Live.data \in Views
  BY LoadedViews DEF openBar
<1>3. s \in DOMAIN Quarters /\ choice.range \in DOMAIN Quarters
  BY <1>2 DEF Views, SpendInv, PollChoices
<1>4. d \in Today - TrendDays[s] + 1 .. Today
  BY DEF openBar, charted
<1>5. x.kind = "bar" /\ x.day = d /\ x.shown = s /\ x.range = choice.range
      /\ x.window = useWindow(choice.range, dayLabel(d))
  OBVIOUS
<1> HIDE DEF x, s
<1>6. OutHolds'
  BY <1>1, <1>3, <1>4, <1>5 DEF OutHolds, BarHolds
<1> QED BY <1>1, <1>6, OutKeeps

LEMMA SpendStep == SpendInv /\ [SpendNext]_spendVars => SpendInv'
<1> SUFFICES ASSUME SpendInv, [SpendNext]_spendVars PROVE SpendInv'
  OBVIOUS
<1>1. ASSUME NEW r \in DOMAIN Quarters, pickRange(r) PROVE SpendInv'
  <2>1. [choice EXCEPT !.range = r] \in PollChoices
    BY DEF SpendInv, PollChoices
  <2> QED BY <1>1, <2>1, RerenderKeeps DEF pickRange
<1>2. ASSUME NEW d \in Dims, setDim(d) PROVE SpendInv'
  <2>1. [choice EXCEPT !.dim = d] \in PollChoices
    BY DEF SpendInv, PollChoices
  <2> QED BY <1>2, <2>1, RerenderKeeps DEF setDim
<1>3. CASE \E page \in PollingPages, k \in KeyIds \cup {NoGroup} : goTo(page, k)
  BY <1>3, GoesKeep
<1>4. CASE \E k \in KeyIds \cup {NoGroup} : chooseKey(k)
  BY <1>4, ChoosesKeep
<1>5. CASE \E d \in 1 .. Today : openBar(d)
  BY <1>5, BarKeeps
<1>6. CASE downloadCsv \/ drill \/ LedgerGrows \/ poll
  BY <1>6, CsvKeeps, DrillKeeps, GrowthKeeps, PollKeeps
<1>7. CASE \E i \in 1 .. MaxAsked : ServerReads(i) \/ liveAnswer(i) \/ liveFailure(i)
  BY <1>7, ReadsKeep, PollAnswerKeeps, FailureKeeps
<1>8. CASE UNCHANGED spendVars
  <2>1. UNCHANGED <<dataMode, onPage, choice, keysVars, held, asked, growth, out, outages>> /\ path' = path
    BY <1>8 DEF spendVars, path
  <2>2. OutHolds'
    BY <2>1 DEF SpendInv, OutHolds, CsvHolds, RowHolds, BarHolds
  <2> QED BY <2>1, <2>2, OutKeeps
<1> QED BY <1>1, <1>2, <1>3, <1>4, <1>5, <1>6, <1>7, <1>8 DEF SpendNext

LEMMA SpendInvariant == SpendInit /\ [][SpendNext]_spendVars => []SpendInv
BY SpendStarts, SpendStep, PTL

LEMMA SpendTypes == SpendInv => SpendTypeOK
<1> SUFFICES ASSUME SpendInv PROVE SpendTypeOK
  OBVIOUS
<1>1. list \subseteq KeyIds
  BY DEF SpendInv, KeysAt, KeyIds
<1>2. choice.range \in DOMAIN Quarters /\ choice.dim \in Dims
  BY DEF SpendInv, PollChoices
<1>3. Len(asked) <= MaxAsked /\ (dataMode = "mock" => asked = <<>>)
      /\ \A i \in 1 .. Len(asked) : asked[i].live => asked[i].path = path
  BY DEF SpendInv, AskedHolds
<1>4. held.data.at \in Demo .. growth /\ (held.loaded /\ dataMode = "api" => held.data.at >= 0)
  BY DEF SpendInv, Holds
<1> QED BY <1>1, <1>2, <1>3, <1>4 DEF SpendInv, SpendTypeOK

LEMMA FilesAreOfChoice == SpendInv => FileIsOfChoice
BY DEF SpendInv, OutHolds, CsvHolds, FileIsOfChoice, Made

LEMMA StaysLoaded ==
  SpendInv /\ [SpendNext]_spendVars /\ Live.loaded /\ UNCHANGED <<onPage, choice>> => Live'.loaded
<1> SUFFICES ASSUME SpendInv, [SpendNext]_spendVars, Live.loaded, UNCHANGED <<onPage, choice>>
             PROVE  Live'.loaded
  OBVIOUS
<1>1. path' = path
  BY DEF path
<1>2. dataMode' = dataMode
  BY DEF SpendNext, spendVars, pickRange, setDim, Rerender, goTo, chooseKey, openBar, downloadCsv, drill,
         LedgerGrows, poll, ServerReads, liveAnswer, liveFailure
<1>3. Live = held /\ held.loaded /\ (dataMode = "api" => held.path = path)
  BY DEF Live
<1>4. CASE held' = held
  BY <1>1, <1>2, <1>3, <1>4 DEF Live
<1>5. CASE \E i \in 1 .. MaxAsked : liveAnswer(i) /\ held' # held
  <2>1. PICK i \in 1 .. MaxAsked : liveAnswer(i) /\ held' # held
    BY <1>5
  <2>2. asked[i].live /\ i \in 1 .. Len(asked)
        /\ held' = [path |-> asked[i].path, loaded |-> TRUE,
                    data |-> [path |-> asked[i].path, at |-> asked[i].at]]
    BY <2>1 DEF liveAnswer
  <2>3. held'.path = path /\ held'.loaded
    BY <2>2 DEF SpendInv, AskedHolds
  <2> QED BY <1>1, <2>3 DEF Live
<1>6. ASSUME held' # held PROVE \E i \in 1 .. MaxAsked : liveAnswer(i) /\ held' # held
  BY <1>6 DEF SpendNext, spendVars, pickRange, setDim, Rerender, goTo, chooseKey, openBar, downloadCsv, drill,
         LedgerGrows, poll, ServerReads, liveFailure
<1> QED BY <1>4, <1>5, <1>6

LEMMA OpenKeysAreFound == SpendInv => OpenKeyIsFound
<1> SUFFICES ASSUME SpendInv, openKey \in KeysAt(MaxGrowth) PROVE openKey \in list
  BY DEF OpenKeyIsFound
<1>1. PICK n \in 0 .. MaxGrowth : list = KeysAt(n)
  BY DEF SpendInv
<1>2. PICK k \in SeedKeys : k.goneAt > MaxGrowth /\ openKey = k.id
  BY DEF KeysAt
<1>3. k.goneAt > n
  <2>1. k.goneAt \in Nat
    BY LedgerAssumptions
  <2> QED BY <1>2, <2>1, SpendConstants
<1> QED BY <1>1, <1>2, <1>3 DEF KeysAt

-----------------------------------------------------------------------------
(* A bar opens its day *)

\* The label of a day leads back to it, whichever side of the new year it is on.
LEMMA LabelsLeadBack == ASSUME NEW d \in 1 .. Today PROVE dayOf(dayLabel(d)) = d
<1> DEFINE t == Today
           y == Year
           n == NewYear
           l == dayLabel(d)
           w == (t - n) \div y
           k == w * y + n + l
<1>1. t \in Nat /\ y \in Nat /\ y >= 1 /\ n \in Nat /\ 1 <= n /\ n <= y /\ t <= y /\ t >= 1
  BY SpendConstants
<1>2. d \in Nat /\ 1 <= d /\ d <= t
  BY <1>1
<1>3. l = (d - n) % y
  BY DEF dayLabel
<1>4. dayOf(l) = IF 4 * (k - 1) > Clock THEN k - y ELSE k
  BY DEF dayOf
<1>a. dayLabel(d) = l /\ Clock = 4 * t - 1
  BY DEF Clock
<1> HIDE DEF t, y, n, l, w, k
<1>5. d - n \in Int /\ t - n \in Int /\ -y <= d - n /\ d - n < y /\ -y <= t - n /\ t - n < y
  BY <1>1, <1>2
<1>6. CASE n <= d
  <2>1. l = d - n
    BY <1>1, <1>2, <1>3, <1>5, <1>6, WithinAYear
  <2>2. w = 0
    BY <1>1, <1>2, <1>5, <1>6, WithinAYear DEF w
  <2>3. w * y = 0
    BY <1>1, <2>2
  <2>4. k = d
    BY <1>1, <1>2, <2>1, <2>3 DEF k
  <2>5. dayOf(l) = d
    BY <1>1, <1>2, <1>4, <1>a, <2>4
  <2> QED BY <1>a, <2>5
<1>7. CASE d < n /\ n <= t
  <2>1. l = d - n + y
    BY <1>1, <1>2, <1>3, <1>5, <1>7, WithinAYear
  <2>2. w = 0
    BY <1>1, <1>2, <1>5, <1>7, WithinAYear DEF w
  <2>3. w * y = 0
    BY <1>1, <2>2
  <2>4. k = d + y
    BY <1>1, <1>2, <2>1, <2>3 DEF k
  <2>5. dayOf(l) = d
    BY <1>1, <1>2, <1>4, <1>a, <2>4
  <2> QED BY <1>a, <2>5
<1>8. CASE t < n
  <2>1. l = d - n + y
    BY <1>1, <1>2, <1>3, <1>5, <1>8, WithinAYear, SMTT(30)
  <2>2. w = -1
    BY <1>1, <1>2, <1>5, <1>8, WithinAYear DEF w
  <2>3. w * y = -y
    BY <1>1, <2>2
  <2>4. k = d
    BY <1>1, <1>2, <2>1, <2>3 DEF k
  <2>5. dayOf(l) = d
    BY <1>1, <1>2, <1>4, <1>a, <2>4
  <2> QED BY <1>a, <2>5
<1> QED BY <1>1, <1>2, <1>6, <1>7, <1>8

LEMMA BarsOpenTheirDay == SpendInv => BarOpensItsDay
<1> SUFFICES ASSUME SpendInv, NEW x \in Made("bar")
             PROVE  LET opened == {q \in 0 .. 4 * Today - 1 : x.window.since <= q /\ q < x.window.before}
                        day    == {q \in 4 * (x.day - 1) .. 4 * x.day - 1 : q >= Clock - Quarters[x.range]}
                    IN opened = day /\ (x.shown = x.range /\ Quarters[x.range] > 4 => day # {})
  BY DEF BarOpensItsDay
<1>1. BarHolds(x)
  BY DEF SpendInv, OutHolds, Made
<1> DEFINE t == Today
           u == Quarters[x.range]
           d == x.day
           w == TrendDays[x.shown]
           from == Clock - u
<1>2. /\ x.shown \in DOMAIN Quarters /\ x.range \in DOMAIN Quarters
      /\ d \in t - w + 1 .. t /\ x.window = useWindow(x.range, dayLabel(d))
  BY <1>1 DEF BarHolds
<1>3. t \in Nat /\ t >= 1 /\ u \in Nat /\ w \in Nat /\ w >= 1 /\ w <= t
      /\ (x.shown = x.range /\ u > 4 => u >= 4 * (w - 1)) /\ from = 4 * t - 1 - u
  BY <1>2, SpendConstants DEF Clock
<1>4. dayOf(dayLabel(d)) = d
  <2>1. t - w + 1 >= 1
    BY <1>3
  <2> HIDE DEF d, w
  <2>2. d \in 1 .. t
    BY <1>2, <1>3, <2>1
  <2> QED BY <2>2, LabelsLeadBack
<1>5. x.window.since = Max({from, 4 * (d - 1)}) /\ x.window.before = 4 * d
  BY <1>2, <1>4 DEF useWindow
<1>6. \A q : q \in 4 * (x.day - 1) .. 4 * x.day - 1 <=> q \in 4 * (d - 1) .. 4 * d - 1
  OBVIOUS
<1> HIDE DEF t, u, d, w, from
<1>7. d \in Nat /\ 1 <= d /\ d <= t /\ d >= t - w + 1
  BY <1>2, <1>3
<1>8. from \in Int /\ 4 * (d - 1) \in Int
  BY <1>3, <1>7
<1>9. x.window.since = IF from >= 4 * (d - 1) THEN from ELSE 4 * (d - 1)
  BY <1>5, <1>8, GreaterOfTwo
<1>10. {q \in 0 .. 4 * t - 1 : x.window.since <= q /\ q < x.window.before}
         = {q \in 4 * (d - 1) .. 4 * d - 1 : q >= from}
  BY <1>3, <1>5, <1>7, <1>8, <1>9
<1>11. ASSUME x.shown = x.range, u > 4
       PROVE  {q \in 4 * (d - 1) .. 4 * d - 1 : q >= from} # {}
  <2>1. 4 * d - 1 \in 4 * (d - 1) .. 4 * d - 1 /\ 4 * d - 1 >= from
    BY <1>3, <1>7, <1>11
  <2> QED BY <2>1
<1> QED BY <1>10, <1>11 DEF t, u, d, w, from

-----------------------------------------------------------------------------
(* The cells of a view *)

CellIs(c) == c.priced \in BOOLEAN /\ c.spend \in [1 .. Today -> Nat]

LEMMA LedgerCells ==
  ASSUME NEW at \in Nat
  PROVE  IsFiniteSet(Ledger(at)) /\ \A c \in Ledger(at) : CellIs(c)
<1> DEFINE Op(c) == [c EXCEPT !.spend[Today] = @ + at]
<1>1. IsFiniteSet(Requests)
  BY LedgerAssumptions
<1>2. IsFiniteSet({Op(c) : c \in Requests})
  <2> DEFINE f == [c \in Requests |-> Op(c)]
             T == {Op(c) : c \in Requests}
  <2>1. (\A c \in Requests : f[c] \in T) /\ \A t \in T : \E c \in Requests : f[c] = t
    BY Zenon
  <2> HIDE DEF f, T
  <2>2. IsFiniteSet(T)
    BY <1>1, <2>1, ImageCounts
  <2> QED BY <2>2 DEF T
<1>3. Ledger(at) = {Op(c) : c \in Requests}
  BY DEF Ledger
<1>4. ASSUME NEW c \in Requests PROVE CellIs(Op(c))
  <2>1. /\ c = [team |-> c.team, person |-> c.person, project |-> c.project,
                projectId |-> c.projectId, key |-> c.key, model |-> c.model,
                priced |-> c.priced, spend |-> c.spend]
        /\ c.priced \in BOOLEAN /\ c.spend \in [1 .. Today -> Nat]
    BY LedgerAssumptions
  <2>2. Today \in 1 .. Today
    BY SpendConstants
  <2>3. [c.spend EXCEPT ![Today] = @ + at] \in [1 .. Today -> Nat]
    BY <2>1, <2>2
  <2>4. Op(c).spend = [c.spend EXCEPT ![Today] = @ + at] /\ Op(c).priced = c.priced
    BY <2>1
  <2> QED BY <2>1, <2>3, <2>4 DEF CellIs
<1> QED BY <1>2, <1>3, <1>4

\* What a share is divided by.
LEMMA WholeIsPositive == ASSUME NEW k \in SeedKeys PROVE whole(k) \in Nat /\ whole(k) >= 1
<1> DEFINE S == {l \in SeedKeys : l.team = k.team}
           f == [l \in S |-> l.requests]
           M == KeyModels[k.id] \cap DOMAIN ModelWeight[k.team]
           e == [m \in M |-> ModelWeight[k.team][m]]
           a == totalReq(k.team)
           b == wSum(k)
<1>1. IsFiniteSet(SeedKeys) /\ \A l \in SeedKeys : l.requests \in Nat \ {0}
  BY LedgerAssumptions
<1>2. IsFiniteSet(KeyModels[k.id]) /\ M # {} /\ k.team \in DOMAIN ModelWeight
  BY LedgerAssumptions
<1>3. \A m \in DOMAIN ModelWeight[k.team] : ModelWeight[k.team][m] \in Nat \ {0}
  BY <1>2, LedgerAssumptions
<1>4. a \in Nat /\ a >= 1
  <2>1. IsFiniteSet(S) /\ \A l \in S : f[l] \in Nat
    BY <1>1, FS_Subset
  <2>2. a = SumFunctionOnSet(f, S)
    BY DEF totalReq, SumOver, SumFunction
  <2>3. k \in S /\ f[k] \in Nat /\ f[k] >= 1
    BY <1>1
  <2> HIDE DEF S, f, a
  <2>4. SumFunctionOnSet(f, S) \in Nat /\ \A l \in S : f[l] <= SumFunctionOnSet(f, S)
    BY <2>1, SumNat
  <2>5. a \in Nat /\ f[k] <= a
    BY <2>2, <2>3, <2>4
  <2> QED BY <2>3, <2>5
<1>5. b \in Nat /\ b >= 1
  <2>1. IsFiniteSet(M) /\ \A m \in M : e[m] \in Nat
    BY <1>2, <1>3, FS_Subset
  <2>2. b = SumFunctionOnSet(e, M)
    BY DEF wSum, SumOver, SumFunction
  <2>3. PICK m \in M : e[m] \in Nat /\ e[m] >= 1
    BY <1>2, <1>3
  <2> HIDE DEF M, e, b
  <2>4. SumFunctionOnSet(e, M) \in Nat /\ \A x \in M : e[x] <= SumFunctionOnSet(e, M)
    BY <2>1, SumNat
  <2>5. b \in Nat /\ e[m] <= b
    BY <2>2, <2>3, <2>4
  <2> QED BY <2>3, <2>5
<1>6. whole(k) = a * b
  BY DEF whole
<1> HIDE DEF a, b
<1>7. a * b \in Nat /\ a * b >= 1
  BY <1>4, <1>5
<1> QED BY <1>6, <1>7

\* The part of a team's spend that a key has for a model it calls.
Part(d, k, m) == share(d, k, m) \div whole(k)

Calls(k) == KeyModels[k.id] \cap DOMAIN ModelWeight[k.team]

LEMMA PartsAreWhole ==
  ASSUME NEW k \in SeedKeys, NEW m \in Calls(k), NEW d \in 1 .. Today
  PROVE  /\ share(d, k, m) \in Nat /\ Part(d, k, m) \in Nat
         /\ whole(k) * Part(d, k, m) = share(d, k, m)
<1>1. whole(k) \in Nat /\ whole(k) >= 1
  BY WholeIsPositive
<1>2. k.requests \in Nat /\ k.team \in DOMAIN ModelWeight
  BY LedgerAssumptions
<1>3. ModelWeight[k.team][m] \in Nat
  BY <1>2, LedgerAssumptions DEF Calls
<1>4. ByTeam[d][k.team] \in Nat
  BY <1>2, LedgerAssumptions
<1>5. share(d, k, m) \in Nat
  <2> DEFINE x == ByTeam[d][k.team]
             y == k.requests
             z == ModelWeight[k.team][m]
  <2>1. share(d, k, m) = x * y * z
    BY DEF share
  <2> HIDE DEF x, y, z
  <2>2. x \in Nat /\ y \in Nat /\ z \in Nat
    BY <1>2, <1>3, <1>4 DEF x, y, z
  <2>3. x * y \in Nat
    BY <2>2
  <2>4. x * y * z \in Nat
    BY <2>2, <2>3
  <2> QED BY <2>1, <2>4
<1>6. whole(k) * (share(d, k, m) \div whole(k)) = share(d, k, m)
  <2>1. m \in UNION {KeyModels[x.id] : x \in SeedKeys} /\ m \in DOMAIN ModelWeight[k.team]
    BY DEF Calls
  <2> QED BY <2>1, SharesAreWhole
<1>7. share(d, k, m) \div whole(k) \in Nat
  <2> DEFINE a == share(d, k, m)
             b == whole(k)
  <2> HIDE DEF a, b
  <2>1. a \in Nat /\ b \in Nat /\ b >= 1
    BY <1>1, <1>5 DEF a, b
  <2>2. a \div b \in Nat
    BY <2>1
  <2> QED BY <2>2 DEF a, b
<1> QED BY <1>5, <1>6, <1>7 DEF Part

\* A demo cell.
CellOf(k, m) ==
  [team |-> k.team, person |-> k.owner, project |-> k.project, projectId |-> k.projectId,
   key |-> k.name, keyId |-> k.id, model |-> m, priced |-> TRUE,
   spend |-> [d \in 1 .. Today |-> Part(d, k, m)]]

Pairs == {p \in SeedKeys \X UNION {Calls(k) : k \in SeedKeys} : p[2] \in Calls(p[1])}

LEMMA DemoCells ==
  /\ IsFiniteSet(Pairs) /\ IsFiniteSet(cells)
  /\ \A c \in cells : CellIs(c) /\ c.priced
  /\ \A p \in Pairs : p[1] \in SeedKeys /\ p[2] \in Calls(p[1]) /\ CellOf(p[1], p[2]) \in cells
  /\ \A c \in cells : \E p \in Pairs : c = CellOf(p[1], p[2])
<1>1. IsFiniteSet(SeedKeys) /\ \A k \in SeedKeys : IsFiniteSet(Calls(k))
  BY LedgerAssumptions, FS_Subset, FS_Intersection DEF Calls
<1>2. IsFiniteSet(UNION {Calls(k) : k \in SeedKeys})
  <2> DEFINE f == [k \in SeedKeys |-> Calls(k)]
             T == {Calls(k) : k \in SeedKeys}
  <2>1. (\A k \in SeedKeys : f[k] \in T) /\ \A t \in T : \E k \in SeedKeys : f[k] = t
    OBVIOUS
  <2>2. \A t \in T : IsFiniteSet(t)
    BY <1>1
  <2> HIDE DEF f, T
  <2>3. IsFiniteSet(T)
    BY <1>1, <2>1, ImageCounts
  <2>4. IsFiniteSet(UNION T)
    BY <2>2, <2>3, FS_UNION
  <2> QED BY <2>4 DEF T
<1>3. IsFiniteSet(Pairs)
  BY <1>1, <1>2, FS_Product, FS_Subset DEF Pairs
<1>4. cells = UNION {{CellOf(k, m) : m \in Calls(k)} : k \in SeedKeys}
  BY DEF cells, CellOf, Calls, Part
<1>5. \A p \in Pairs : p[1] \in SeedKeys /\ p[2] \in Calls(p[1])
  BY DEF Pairs
<1>6. \A p \in Pairs : CellOf(p[1], p[2]) \in cells
  BY <1>4, <1>5
<1>7. ASSUME NEW c \in cells PROVE \E p \in Pairs : c = CellOf(p[1], p[2])
  <2>1. PICK k \in SeedKeys : \E m \in Calls(k) : c = CellOf(k, m)
    BY <1>4
  <2>2. PICK m \in Calls(k) : c = CellOf(k, m)
    BY <2>1
  <2>3. <<k, m>> \in Pairs
    BY DEF Pairs
  <2> QED BY <2>2, <2>3
<1>8. cells = {CellOf(p[1], p[2]) : p \in Pairs}
  BY <1>6, <1>7
<1>9. IsFiniteSet(cells)
  <2> DEFINE f == [p \in Pairs |-> CellOf(p[1], p[2])]
  <2>1. (\A p \in Pairs : f[p] \in cells) /\ \A c \in cells : \E p \in Pairs : f[p] = c
    BY <1>6, <1>7
  <2> HIDE DEF f
  <2> QED BY <1>3, <2>1, ImageCounts
<1>10. ASSUME NEW c \in cells PROVE CellIs(c) /\ c.priced
  <2>1. PICK p \in Pairs : c = CellOf(p[1], p[2])
    BY <1>7
  <2>2. \A d \in 1 .. Today : Part(d, p[1], p[2]) \in Nat
    BY <1>5, PartsAreWhole
  <2>3. c.priced = TRUE /\ c.spend = [d \in 1 .. Today |-> Part(d, p[1], p[2])]
    BY <2>1 DEF CellOf
  <2> QED BY <2>2, <2>3 DEF CellIs
<1> QED BY <1>3, <1>5, <1>6, <1>7, <1>9, <1>10

LEMMA CellTypes ==
  ASSUME NEW view \in Views
  PROVE  IsFiniteSet(Cells(view)) /\ \A c \in Cells(view) : CellIs(c)
<1>1. CASE view.at = Demo
  BY <1>1, DemoCells DEF Cells
<1>2. CASE view.at # Demo
  <2>1. view.at \in Nat
    BY <1>2, SpendConstants DEF Views
  <2> QED BY <1>2, <2>1, LedgerCells DEF Cells
<1> QED BY <1>1, <1>2

-----------------------------------------------------------------------------
(* The rows add up *)

\* The quarters of a day that a window of so many has.
Weigh(q, d) ==
  LET left == q - 4 * (Today - 0 - d) IN IF left > 4 THEN 4 ELSE IF left < 0 THEN 0 ELSE left

LEMMA WeighIs == ASSUME NEW q \in Nat, NEW d \in 1 .. Today PROVE Weigh(q, d) \in Nat
<1> DEFINE t == Today
           left == q - 4 * (t - 0 - d)
<1>1. t \in Nat
  BY SpendConstants
<1>2. Weigh(q, d) = IF left > 4 THEN 4 ELSE IF left < 0 THEN 0 ELSE left
  BY DEF Weigh
<1>3. d \in 1 .. t
  OBVIOUS
<1> HIDE DEF t, left
<1>4. left \in Int
  BY <1>1, <1>3 DEF left
<1> QED BY <1>2, <1>4

LEMMA TrailingIs ==
  ASSUME NEW spend, \A d \in 1 .. Today : spend[d] \in Nat, NEW q \in Nat
  PROVE  LET f == [d \in 1 .. Today |-> spend[d] * Weigh(q, d)] IN
         /\ \A d \in 1 .. Today : f[d] \in Nat
         /\ Trailing(spend, q, 0) = SumFunctionOnSet(f, 1 .. Today)
         /\ Trailing(spend, q, 0) \in Nat
<1> DEFINE f == [d \in 1 .. Today |-> spend[d] * Weigh(q, d)]
<1>1. Today - 0 = Today /\ Today \in Nat /\ 1 \in Int
  BY SpendConstants
<1>2. Trailing(spend, q, 0) = SumFunction([d \in 1 .. Today - 0 |-> spend[d] * Weigh(q, d)])
  BY DEF Trailing, SumOver, Weigh
<1>3. Trailing(spend, q, 0) = SumFunctionOnSet(f, 1 .. Today)
  BY <1>1, <1>2 DEF SumFunction
<1>4. \A d \in 1 .. Today : f[d] \in Nat
  <2> SUFFICES ASSUME NEW d \in 1 .. Today PROVE spend[d] * Weigh(q, d) \in Nat
    OBVIOUS
  <2> DEFINE a == spend[d]
             b == Weigh(q, d)
  <2>1. a \in Nat /\ b \in Nat
    BY WeighIs
  <2> HIDE DEF a, b
  <2>2. a * b \in Nat
    BY <2>1
  <2> QED BY <2>2 DEF a, b
<1> HIDE DEF f
<1>5. IsFiniteSet(1 .. Today)
  BY <1>1, FS_Interval
<1>6. SumFunctionOnSet(f, 1 .. Today) \in Nat
  BY <1>4, <1>5, SumNat
<1> QED BY <1>3, <1>4, <1>6 DEF f

\* What the cells spent in a window is what they spent, in the window.
LEMMA WindowsAddUp ==
  ASSUME NEW P, IsFiniteSet(P), \A c \in P : c.spend \in [1 .. Today -> Nat], NEW q \in Nat,
         NEW all, \A d \in 1 .. Today : all[d] = SumFunctionOnSet([c \in P |-> c.spend[d]], P)
  PROVE  SumFunctionOnSet([c \in P |-> Trailing(c.spend, q, 0)], P) = Trailing(all, q, 0)
<1> DEFINE D == 1 .. Today
           m == [c \in P |-> [d \in D |-> c.spend[d] * Weigh(q, d)]]
           r == [c \in P |-> Trailing(c.spend, q, 0)]
           w == [d \in D |-> all[d] * Weigh(q, d)]
           col(d) == [c \in P |-> c.spend[d]]
<1>0. Today \in Nat /\ 1 \in Int /\ IsFiniteSet(D)
  <2>1. Today \in Nat /\ 1 \in Int
    BY SpendConstants
  <2> QED BY <2>1, FS_Interval
<1>1. \A c \in P : \A d \in D : c.spend[d] \in Nat
  OBVIOUS
<1>2. ASSUME NEW c \in P PROVE (\A d \in D : m[c][d] \in Nat) /\ r[c] = SumFunctionOnSet(m[c], D)
  <2>1. \A d \in 1 .. Today : c.spend[d] \in Nat
    BY <1>1
  <2>2. LET f == [d \in 1 .. Today |-> c.spend[d] * Weigh(q, d)] IN
        /\ \A d \in 1 .. Today : f[d] \in Nat
        /\ Trailing(c.spend, q, 0) = SumFunctionOnSet(f, 1 .. Today)
        /\ Trailing(c.spend, q, 0) \in Nat
    BY <2>1, TrailingIs
  <2> QED BY <2>2
<1>3. ASSUME NEW d \in D
      PROVE  all[d] \in Nat /\ w[d] = SumFunctionOnSet(ColumnAt(m, P, d), P)
  <2> DEFINE e == col(d)
             h == ColumnAt(m, P, d)
             k == Weigh(q, d)
  <2>1. k \in Nat /\ k \in Int
    BY WeighIs
  <2>2. \A c \in P : e[c] \in Nat /\ e[c] \in Int /\ h[c] = k * e[c]
    <3> SUFFICES ASSUME NEW c \in P PROVE c.spend[d] \in Nat /\ c.spend[d] * k = k * c.spend[d]
      BY DEF ColumnAt
    <3> DEFINE a == c.spend[d]
    <3>1. a \in Nat
      BY <1>1
    <3> HIDE DEF a, k
    <3>2. a * k = k * a
      BY <2>1, <3>1
    <3> QED BY <3>1, <3>2 DEF a
  <2>3. all[d] = SumFunctionOnSet(e, P) /\ w[d] = all[d] * k
    OBVIOUS
  <2> HIDE DEF e, h, k, w
  <2>4. SumFunctionOnSet(h, P) = k * SumFunctionOnSet(e, P)
    BY <2>1, <2>2, SumScaled
  <2>5. SumFunctionOnSet(e, P) \in Nat
    BY <2>2, SumNat
  <2> HIDE DEF col
  <2>6. w[d] = SumFunctionOnSet(h, P)
    BY <2>1, <2>3, <2>4, <2>5
  <2> QED BY <2>3, <2>5, <2>6 DEF h
<1>4. Trailing(all, q, 0) = SumFunctionOnSet(w, D)
  <2>1. \A d \in 1 .. Today : all[d] \in Nat
    BY <1>3
  <2>2. LET f == [d \in 1 .. Today |-> all[d] * Weigh(q, d)] IN
        /\ \A d \in 1 .. Today : f[d] \in Nat
        /\ Trailing(all, q, 0) = SumFunctionOnSet(f, 1 .. Today)
        /\ Trailing(all, q, 0) \in Nat
    BY <2>1, TrailingIs
  <2> QED BY <2>2
<1>5. /\ \A c \in P, d \in D : m[c][d] \in Int
      /\ \A c \in P : r[c] = SumFunctionOnSet(m[c], D)
      /\ \A d \in D : w[d] = SumFunctionOnSet(ColumnAt(m, P, d), P)
  <2> HIDE DEF m, r, w, D
  <2> QED BY <1>2, <1>3
<1> HIDE DEF m, r, w, D
<1>6. SumFunctionOnSet(w, D) = SumFunctionOnSet(r, P)
  BY <1>0, <1>5, SumSwapped
<1> QED BY <1>4, <1>6 DEF r

\* Parts of a view: its groups, the cells of one with a price or without, and what
\* some of the cells spent in the window.
Groups(view) == {GroupOf(view, c) : c \in Cells(view)}
PricedCells(view) == {c \in Cells(view) : c.priced}
PricedIn(view, g) == {c \in {x \in Cells(view) : GroupOf(view, x) = g} : c.priced}
BareIn(view, g) == {c \in {x \in Cells(view) : GroupOf(view, x) = g} : ~c.priced}
Worths(view, S) ==
  SumFunctionOnSet([c \in S |-> Trailing(c.spend, Quarters[view.path.range], 0)], S)

LEMMA RowsAreGroups ==
  ASSUME NEW view
  PROVE  /\ \A r \in rows(view) :
              /\ r.id \in Groups(view)
              /\ r.spendUsd = Worths(view, PricedIn(view, r.id))
              /\ r.unpriced = Worths(view, BareIn(view, r.id))
         /\ \A g \in Groups(view) : \E r \in rows(view) : r.id = g
         /\ \A r, s \in rows(view) : r.id = s.id => r = s
<1> DEFINE prev(g) == SumOver(PricedIn(view, g), LAMBDA c :
                        Trailing(c.spend, Quarters[view.path.range], prevOffset(view.path.range)))
           Row(g) == [id |-> g, spendUsd |-> Worths(view, PricedIn(view, g)),
                      prevSpendUsd |-> prev(g), unpriced |-> Worths(view, BareIn(view, g))]
<1>1. rows(view) = {Row(g) : g \in Groups(view)}
  BY DEF rows, Groups, Worths, PricedIn, BareIn, SumOver, SumFunction
<1>2. \A g : /\ Row(g).id = g /\ Row(g).spendUsd = Worths(view, PricedIn(view, g))
             /\ Row(g).unpriced = Worths(view, BareIn(view, g))
  OBVIOUS
<1> HIDE DEF Row
<1> QED BY <1>1, <1>2

LEMMA ViewFields ==
  ASSUME NEW view \in Views
  PROVE  /\ view.path.range \in DOMAIN Quarters /\ view.path.dim \in Dims
         /\ view.at \in {Demo} \cup 0 .. MaxGrowth
         /\ Quarters[view.path.range] \in Nat
         /\ Figures[view].rows = rows(view) /\ Figures[view].bars = bars(view)
         /\ Figures[view].axes = axes(bars(view))
<1>1. view.path.range \in DOMAIN Quarters /\ view.path.dim \in Dims /\ view.at \in {Demo} \cup 0 .. MaxGrowth
  BY DEF Views
<1>2. Quarters[view.path.range] \in Nat
  BY <1>1, SpendConstants
<1>3. Figures[view] = [rows |-> rows(view), bars |-> bars(view), axes |-> axes(bars(view))]
  BY DEF Figures
<1> QED BY <1>1, <1>2, <1>3

\* What cells are worth is counted in whole numbers.
LEMMA WorthIs ==
  ASSUME NEW view \in Views, NEW S \in SUBSET Cells(view)
  PROVE  /\ IsFiniteSet(S) /\ Worths(view, S) \in Nat
         /\ \A c \in S : Trailing(c.spend, Quarters[view.path.range], 0) \in Nat
<1> DEFINE q == Quarters[view.path.range]
           f == [c \in S |-> Trailing(c.spend, q, 0)]
<1>1. IsFiniteSet(S) /\ \A c \in S : CellIs(c)
  BY CellTypes, FS_Subset
<1>2. q \in Nat
  BY ViewFields
<1>3. \A c \in S : Trailing(c.spend, q, 0) \in Nat
  <2> SUFFICES ASSUME NEW c \in S PROVE Trailing(c.spend, q, 0) \in Nat
    OBVIOUS
  <2>1. \A d \in 1 .. Today : c.spend[d] \in Nat
    BY <1>1 DEF CellIs
  <2>2. LET f0 == [d \in 1 .. Today |-> c.spend[d] * Weigh(q, d)] IN
        /\ \A d \in 1 .. Today : f0[d] \in Nat
        /\ Trailing(c.spend, q, 0) = SumFunctionOnSet(f0, 1 .. Today)
        /\ Trailing(c.spend, q, 0) \in Nat
    <3> HIDE DEF q
    <3> QED BY <1>2, <2>1, TrailingIs
  <2> QED BY <2>2
<1>4. Worths(view, S) = SumFunctionOnSet(f, S)
  BY DEF Worths
<1>5. \A c \in S : f[c] \in Nat
  BY <1>3
<1> HIDE DEF f
<1>6. SumFunctionOnSet(f, S) \in Nat
  BY <1>1, <1>5, SumNat
<1> QED BY <1>1, <1>3, <1>4, <1>6

\* The rows are worth what the cells with a price are.
LEMMA RowsAddUp ==
  ASSUME NEW view \in Views
  PROVE  /\ SumOver(rows(view), LAMBDA r : r.spendUsd) = Worths(view, PricedCells(view))
         /\ IsFiniteSet(rows(view)) /\ \A r \in rows(view) : r.spendUsd \in Nat
<1> DEFINE P == PricedCells(view)
           G == Groups(view)
           R == rows(view)
           q == Quarters[view.path.range]
           f == [c \in P |-> Trailing(c.spend, q, 0)]
           h == [c \in P |-> GroupOf(view, c)]
           t == [g \in G |-> Worths(view, PricedIn(view, g))]
           e == [r \in R |-> r.spendUsd]
           id == [r \in R |-> r.id]
<1>1. IsFiniteSet(Cells(view))
  BY CellTypes
<1>2. P \in SUBSET Cells(view) /\ IsFiniteSet(P)
  BY <1>1, FS_Subset DEF PricedCells
<1>3. IsFiniteSet(G)
  <2> DEFINE C == Cells(view)
             u == [c \in C |-> GroupOf(view, c)]
  <2>1. (\A c \in C : u[c] \in G) /\ \A g \in G : \E c \in C : u[c] = g
    BY DEF Groups
  <2> HIDE DEF C, u, G
  <2> QED BY <1>1, <2>1, ImageCounts DEF C
<1>4. \A c \in P : f[c] \in Int /\ h[c] \in G
  <2>1. \A c \in P : Trailing(c.spend, q, 0) \in Nat
    BY <1>2, WorthIs
  <2> QED BY <1>2, <2>1 DEF Groups
<1>5. \A g \in G : t[g] = SumFunctionOnSet(f, GroupAt(P, h, g))
  <2> SUFFICES ASSUME NEW g \in G PROVE Worths(view, PricedIn(view, g)) = SumFunctionOnSet(f, GroupAt(P, h, g))
    OBVIOUS
  <2> DEFINE S == PricedIn(view, g)
             k == [c \in S |-> Trailing(c.spend, q, 0)]
  <2>1. S = GroupAt(P, h, g)
    BY DEF PricedIn, GroupAt, PricedCells
  <2>2. S \in SUBSET Cells(view) /\ S \in SUBSET P
    BY DEF PricedIn, PricedCells
  <2>3. Worths(view, S) = SumFunctionOnSet(k, S)
    BY DEF Worths
  <2>4. IsFiniteSet(S) /\ \A c \in S : k[c] \in Int /\ k[c] = f[c]
    BY <1>2, <1>4, <2>2, FS_Subset
  <2> HIDE DEF S, k, f, h, P
  <2>5. SumFunctionOnSet(k, S) = SumFunctionOnSet(f, S)
    BY <2>4, SumSame
  <2> QED BY <2>1, <2>3, <2>5 DEF S
<1>6. /\ \A r \in R : r.id \in G /\ r.spendUsd = t[r.id]
      /\ \A g \in G : \E r \in R : r.id = g
      /\ \A r, s \in R : r.id = s.id => r = s
  BY RowsAreGroups
<1>7. \A g \in G : t[g] \in Nat
  <2> SUFFICES ASSUME NEW g \in G PROVE Worths(view, PricedIn(view, g)) \in Nat
    OBVIOUS
  <2>1. PricedIn(view, g) \in SUBSET Cells(view)
    BY DEF PricedIn
  <2> QED BY <2>1, WorthIs
<1>8. SumOver(R, LAMBDA r : r.spendUsd) = SumFunctionOnSet(e, R)
  BY DEF SumOver, SumFunction
<1>9. Worths(view, P) = SumFunctionOnSet(f, P)
  BY DEF Worths
<1>10. IsFiniteSet(R)
  <2> DEFINE row == [g \in G |-> CHOOSE r \in R : r.id = g]
  <2>1. \A g \in G : row[g] \in R /\ row[g].id = g
    BY <1>6
  <2>2. \A r \in R : row[r.id] = r /\ r.id \in G
    BY <1>6, <2>1
  <2> HIDE DEF row, G, R
  <2>3. (\A g \in G : row[g] \in R) /\ \A r \in R : \E g \in G : row[g] = r
    BY <2>1, <2>2
  <2> QED BY <1>3, <2>3, ImageCounts
<1>11. \A r \in R : id[r] \in G /\ e[r] \in Int /\ t[id[r]] = e[r] /\ e[r] \in Nat /\ r.spendUsd = e[r]
  BY <1>6, <1>7
<1>12. (\A r, s \in R : id[r] = id[s] => r = s) /\ \A g \in G : \E r \in R : id[r] = g
  BY <1>6
<1> HIDE DEF P, G, R, f, h, t, e, id, q
<1>13. SumFunctionOnSet(t, G) = SumFunctionOnSet(f, P)
  BY <1>2, <1>3, <1>4, <1>5, SumRegroup
<1>14. SumFunctionOnSet(t, G) = SumFunctionOnSet(e, R)
  <2>1. \A r \in R : id[r] \in G /\ e[r] \in Int /\ t[id[r]] = e[r]
    BY <1>11
  <2> QED BY <1>3, <1>10, <1>12, <2>1, SumMoved
<1>15. \A r \in R : r.spendUsd \in Nat
  BY <1>11
<1> QED BY <1>8, <1>9, <1>10, <1>13, <1>14, <1>15 DEF P, R

\* The link of a row selects the row's cells.
LEMMA RowsOpenTheirs == SpendInv => RowOpensItsReceipts
<1> SUFFICES ASSUME SpendInv, dataMode = "api", NEW x \in Made("row"),
                    x.view.path.dim \notin {"project", "person"}
             PROVE  LET selected == {c \in Cells(x.view) : Selects(x.href, c)}
                        Spend(priced) == SumOver({c \in selected : c.priced = priced},
                          LAMBDA c : Trailing(c.spend, Quarters[x.view.path.range], 0))
                    IN Spend(TRUE) = x.row.spendUsd /\ Spend(FALSE) = x.row.unpriced
  BY DEF RowOpensItsReceipts
<1> DEFINE v == x.view
           selected == {c \in Cells(v) : Selects(x.href, c)}
           Of(priced) == {c \in selected : c.priced = priced}
<1>1. x.view \in Views /\ x.row \in Figures[x.view].rows /\ x.href.id = x.row.id
      /\ x.href.dim = x.view.path.dim
  BY DEF SpendInv, OutHolds, Made, RowHolds
<1>2. x.row \in rows(v)
  BY <1>1, ViewFields
<1>3. x.row.spendUsd = Worths(v, PricedIn(v, x.row.id)) /\ x.row.unpriced = Worths(v, BareIn(v, x.row.id))
  BY <1>2, RowsAreGroups
<1>4. \A c : Selects(x.href, c) <=> GroupOf(v, c) = x.row.id
  BY <1>1 DEF Selects, GroupOf
<1>5. \A c \in Cells(v) : c.priced \in BOOLEAN
  BY <1>1, CellTypes DEF CellIs
<1>6. Of(TRUE) = PricedIn(v, x.row.id) /\ Of(FALSE) = BareIn(v, x.row.id)
  BY <1>4, <1>5 DEF PricedIn, BareIn
<1>7. \A S : SumOver(S, LAMBDA c : Trailing(c.spend, Quarters[x.view.path.range], 0)) = Worths(v, S)
  BY DEF SumOver, SumFunction, Worths
<1> QED BY <1>3, <1>6, <1>7

LEMMA LinksOpen == SpendInv => LinksOpenWhatIsShown
BY RowsOpenTheirs, BarsOpenTheirDay, OpenKeysAreFound DEF LinksOpenWhatIsShown

-----------------------------------------------------------------------------
(* The demo's cells spend what its teams do *)

\* A key's parts, of all the models it calls.
KeySpend(d, k) == SumFunctionOnSet([m \in Calls(k) |-> Part(d, k, m)], Calls(k))

LEMMA KeysSpend ==
  ASSUME NEW k \in SeedKeys, NEW d \in 1 .. Today
  PROVE  /\ KeySpend(d, k) \in Nat /\ totalReq(k.team) \in Nat /\ totalReq(k.team) >= 1
         /\ totalReq(k.team) * KeySpend(d, k) = ByTeam[d][k.team] * k.requests
<1> DEFINE M == Calls(k)
           f == [m \in M |-> Part(d, k, m)]
           s == [m \in M |-> share(d, k, m)]
           e == [m \in M |-> ModelWeight[k.team][m]]
           x == ByTeam[d][k.team] * k.requests
           a == totalReq(k.team)
           b == wSum(k)
           w == whole(k)
           K == KeySpend(d, k)
<1>1. IsFiniteSet(M) /\ \A m \in M : f[m] \in Nat /\ s[m] \in Nat /\ s[m] = w * f[m]
  <2>1. IsFiniteSet(M)
    BY LedgerAssumptions, FS_Subset, FS_Intersection DEF Calls
  <2>2. \A m \in M : /\ share(d, k, m) \in Nat /\ Part(d, k, m) \in Nat
                     /\ whole(k) * Part(d, k, m) = share(d, k, m)
    BY PartsAreWhole
  <2> QED BY <2>1, <2>2
<1>2. w \in Nat /\ w >= 1 /\ w = a * b
  BY WholeIsPositive DEF whole
<1>3. k.requests \in Nat /\ k.team \in DOMAIN ModelWeight /\ ByTeam[d][k.team] \in Nat
      /\ \A m \in M : e[m] \in Nat
  <2>1. k.requests \in Nat /\ k.team \in DOMAIN ModelWeight
    BY LedgerAssumptions
  <2> QED BY <2>1, LedgerAssumptions DEF Calls
<1>4. x \in Nat /\ \A m \in M : s[m] = x * e[m]
  <2>1. x \in Nat
    BY <1>3, Reorders
  <2> QED BY <2>1 DEF share
<1>5. b = SumFunctionOnSet(e, M)
  BY DEF wSum, SumOver, SumFunction, Calls
<1>6. a \in Nat
  <2> DEFINE S == {l \in SeedKeys : l.team = k.team}
             r == [l \in S |-> l.requests]
  <2>1. IsFiniteSet(SeedKeys) /\ \A l \in SeedKeys : l.requests \in Nat
    BY LedgerAssumptions
  <2>2. IsFiniteSet(S) /\ \A l \in S : r[l] \in Nat
    BY <2>1, FS_Subset
  <2>3. a = SumFunctionOnSet(r, S)
    BY DEF totalReq, SumOver, SumFunction
  <2> HIDE DEF S, r, a
  <2> QED BY <2>2, <2>3, SumNat
<1>7. K = SumFunctionOnSet(f, M)
  BY DEF KeySpend
<1> HIDE DEF M, f, s, e, x, a, b, w, K
<1>8. K \in Nat /\ b \in Nat
  BY <1>1, <1>3, <1>5, <1>7, SumNat
<1>9. SumFunctionOnSet(s, M) = w * K
  <2>1. w \in Int /\ \A m \in M : f[m] \in Int /\ s[m] = w * f[m]
    BY <1>1, <1>2
  <2> QED BY <1>1, <1>7, <2>1, SumScaled
<1>10. SumFunctionOnSet(s, M) = x * b
  <2>1. x \in Int /\ \A m \in M : e[m] \in Int /\ s[m] = x * e[m]
    BY <1>3, <1>4
  <2> QED BY <1>1, <1>5, <2>1, SumScaled
<1>11. a >= 1 /\ b >= 1
  <2> SUFFICES ASSUME a = 0 \/ b = 0 PROVE FALSE
    BY <1>6, <1>8
  <2>1. a * b = 0
    BY <1>6, <1>8
  <2> QED BY <1>2, <2>1
<1>12. b * (a * K) = b * x
  <2>1. (a * b) * K = x * b
    BY <1>2, <1>9, <1>10
  <2>2. (a * b) * K = b * (a * K)
    BY <1>6, <1>8, Reorders
  <2>3. x * b = b * x
    BY <1>4, <1>8
  <2> QED BY <2>1, <2>2, <2>3
<1>13. a * K \in Nat
  BY <1>6, <1>8, Reorders
<1>14. a * K = x
  BY <1>4, <1>8, <1>11, <1>12, <1>13, Cancels
<1> QED BY <1>6, <1>8, <1>11, <1>14 DEF a, K, x

\* All of a team's spend goes to its keys.
LEMMA TeamsSpend ==
  ASSUME NEW d \in 1 .. Today, NEW K, NEW h, NEW t \in DOMAIN ModelWeight,
         \A k \in SeedKeys : K[k] = KeySpend(d, k) /\ h[k] = k.team
  PROVE  SumFunctionOnSet(K, GroupAt(SeedKeys, h, t)) = ByTeam[d][t]
<1> DEFINE S == {l \in SeedKeys : l.team = t}
           r == [l \in S |-> l.requests]
           a == totalReq(t)
           x == ByTeam[d][t]
           T == SumFunctionOnSet(K, S)
           u == [k \in S |-> a * K[k]]
<1>1. IsFiniteSet(S) /\ \A k \in S : r[k] \in Nat
  BY LedgerAssumptions, FS_Subset
<1>2. a = SumFunctionOnSet(r, S)
  BY DEF totalReq, SumOver, SumFunction
<1>3. PICK k0 \in SeedKeys : k0.team = t
  BY LedgerAssumptions
<1>4. a \in Nat /\ a >= 1
  BY <1>3, KeysSpend
<1>5. x \in Nat
  BY LedgerAssumptions
<1>6. \A k \in S : K[k] \in Nat /\ a * K[k] = x * r[k] /\ u[k] = a * K[k]
  <2> SUFFICES ASSUME NEW k \in S PROVE K[k] \in Nat /\ a * K[k] = x * k.requests
    OBVIOUS
  <2>1. k \in SeedKeys /\ k.team = t /\ K[k] = KeySpend(d, k)
    OBVIOUS
  <2>2. KeySpend(d, k) \in Nat /\ totalReq(k.team) * KeySpend(d, k) = ByTeam[d][k.team] * k.requests
    BY <2>1, KeysSpend
  <2> QED BY <2>1, <2>2
<1>7. GroupAt(SeedKeys, h, t) = S
  BY DEF GroupAt
<1> HIDE DEF S, r, a, x, T, u
<1>8. T \in Nat
  BY <1>1, <1>6, SumNat DEF T
<1>9. SumFunctionOnSet(u, S) = a * T
  <2>1. a \in Int /\ \A k \in S : K[k] \in Int /\ u[k] = a * K[k]
    BY <1>4, <1>6
  <2> QED BY <1>1, <2>1, SumScaled DEF T
<1>10. SumFunctionOnSet(u, S) = x * a
  <2>1. x \in Int /\ \A k \in S : r[k] \in Int /\ u[k] = x * r[k]
    BY <1>1, <1>5, <1>6
  <2> QED BY <1>1, <1>2, <2>1, SumScaled
<1>11. a * T = a * x
  BY <1>4, <1>5, <1>9, <1>10
<1>12. T = x
  BY <1>4, <1>5, <1>8, <1>11, Cancels
<1> QED BY <1>7, <1>12 DEF T, x

LEMMA DemoSpends ==
  ASSUME NEW d \in 1 .. Today
  PROVE  SumFunctionOnSet([c \in cells |-> c.spend[d]], cells)
           = SumFunctionOnSet([t \in DOMAIN ModelWeight |-> ByTeam[d][t]], DOMAIN ModelWeight)
<1> DEFINE f == [p \in Pairs |-> Part(d, p[1], p[2])]
           e == [c \in cells |-> c.spend[d]]
           h == [p \in Pairs |-> CellOf(p[1], p[2])]
           g == [p \in Pairs |-> p[1]]
           K == [k \in SeedKeys |-> KeySpend(d, k)]
           team == [k \in SeedKeys |-> k.team]
           M == DOMAIN ModelWeight
           b == [t \in M |-> ByTeam[d][t]]
<1>1. IsFiniteSet(SeedKeys) /\ IsFiniteSet(M) /\ IsFiniteSet(Pairs) /\ IsFiniteSet(cells)
  BY LedgerAssumptions, DemoCells
<1>2. \A p \in Pairs : p[1] \in SeedKeys /\ p[2] \in Calls(p[1])
  BY DemoCells
<1>3. \A p \in Pairs : h[p] \in cells /\ f[p] \in Int /\ e[h[p]] = f[p]
  <2> SUFFICES ASSUME NEW p \in Pairs
               PROVE  CellOf(p[1], p[2]) \in cells /\ Part(d, p[1], p[2]) \in Int
                      /\ CellOf(p[1], p[2]).spend[d] = Part(d, p[1], p[2])
    OBVIOUS
  <2>1. Part(d, p[1], p[2]) \in Nat
    BY <1>2, PartsAreWhole
  <2>2. CellOf(p[1], p[2]).spend[d] = Part(d, p[1], p[2])
    BY DEF CellOf
  <2> QED BY <2>1, <2>2, DemoCells
<1>4. \A p, q \in Pairs : h[p] = h[q] => p = q
  <2> SUFFICES ASSUME NEW p \in Pairs, NEW q \in Pairs, CellOf(p[1], p[2]) = CellOf(q[1], q[2])
               PROVE  p = q
    OBVIOUS
  <2>1. CellOf(p[1], p[2]).keyId = p[1].id /\ CellOf(p[1], p[2]).model = p[2]
        /\ CellOf(q[1], q[2]).keyId = q[1].id /\ CellOf(q[1], q[2]).model = q[2]
    BY DEF CellOf
  <2>2. p[1].id = q[1].id /\ p[2] = q[2]
    BY <2>1
  <2>3. p[1] = q[1]
    BY <1>2, <2>2, LedgerAssumptions
  <2>4. p = <<p[1], p[2]>> /\ q = <<q[1], q[2]>>
    BY DEF Pairs
  <2> QED BY <2>2, <2>3, <2>4
<1>5. \A c \in cells : \E p \in Pairs : h[p] = c
  BY DemoCells
<1>6. \A k \in SeedKeys : K[k] \in Int /\ team[k] \in M
  BY KeysSpend, LedgerAssumptions
<1>7. \A k \in SeedKeys : K[k] = SumFunctionOnSet(f, GroupAt(Pairs, g, k))
  <2> TAKE k \in SeedKeys
  <2> DEFINE S == Calls(k)
             P == GroupAt(Pairs, g, k)
             s == [m \in S |-> Part(d, k, m)]
             u == [m \in S |-> <<k, m>>]
  <2>1. K[k] = SumFunctionOnSet(s, S)
    BY DEF KeySpend
  <2>2. P = {p \in Pairs : p[1] = k}
    BY DEF GroupAt
  <2>3. \A m \in S : u[m] \in P /\ s[m] \in Int /\ f[u[m]] = s[m]
    <3> TAKE m \in S
    <3>1. <<k, m>> \in Pairs
      BY DEF Pairs
    <3>2. Part(d, k, m) \in Nat
      BY PartsAreWhole
    <3> QED BY <2>2, <3>1, <3>2
  <2>4. \A m, n \in S : u[m] = u[n] => m = n
    OBVIOUS
  <2>5. \A p \in P : \E m \in S : u[m] = p
    <3> TAKE p \in P
    <3>1. p \in Pairs /\ p[1] = k /\ p[2] \in S
      BY <1>2, <2>2
    <3>2. p = <<k, p[2]>>
      BY <3>1 DEF Pairs
    <3> QED BY <3>1, <3>2
  <2>6. IsFiniteSet(S) /\ IsFiniteSet(P)
    <3>1. IsFiniteSet(S)
      BY LedgerAssumptions, FS_Subset, FS_Intersection DEF Calls
    <3> QED BY <1>1, <2>2, <3>1, FS_Subset
  <2> HIDE DEF S, P, s, u, f, K
  <2>7. SumFunctionOnSet(f, P) = SumFunctionOnSet(s, S)
    BY <2>3, <2>4, <2>5, <2>6, SumMoved
  <2> QED BY <2>1, <2>7 DEF P
<1>8. \A t \in M : b[t] = SumFunctionOnSet(K, GroupAt(SeedKeys, team, t))
  <2> TAKE t \in M
  <2>1. b[t] = ByTeam[d][t] /\ \A k \in SeedKeys : K[k] = KeySpend(d, k) /\ team[k] = k.team
    OBVIOUS
  <2> HIDE DEF K, team, b
  <2> QED BY <2>1, TeamsSpend
<1>9. \A p \in Pairs : f[p] \in Int /\ g[p] \in SeedKeys
  BY <1>2, <1>3
<1> HIDE DEF f, e, h, g, K, team, M, b
<1>10. SumFunctionOnSet(e, cells) = SumFunctionOnSet(f, Pairs)
  BY <1>1, <1>3, <1>4, <1>5, SumMoved
<1>11. SumFunctionOnSet(K, SeedKeys) = SumFunctionOnSet(f, Pairs)
  BY <1>1, <1>7, <1>9, SumRegroup
<1>12. SumFunctionOnSet(b, M) = SumFunctionOnSet(K, SeedKeys)
  BY <1>1, <1>6, <1>8, SumRegroup
<1> QED BY <1>10, <1>11, <1>12 DEF e, b, M

\* What a view's cells with a price spent on a day.
LEMMA CellsSpend ==
  ASSUME NEW view \in Views, NEW d \in 1 .. Today
  PROVE  LET P == PricedCells(view) IN
         /\ Spent(view.at)[d] = SumFunctionOnSet([c \in P |-> c.spend[d]], P)
         /\ Spent(view.at)[d] \in Nat
<1> DEFINE P == PricedCells(view)
           f == [c \in P |-> c.spend[d]]
<1>1. IsFiniteSet(P) /\ \A c \in P : c.spend \in [1 .. Today -> Nat] /\ f[c] \in Nat
  <2>1. IsFiniteSet(Cells(view)) /\ \A c \in Cells(view) : c.spend \in [1 .. Today -> Nat]
    BY CellTypes DEF CellIs
  <2> QED BY <2>1, FS_Subset DEF PricedCells
<1>2. SumFunctionOnSet(f, P) \in Nat
  <2> HIDE DEF f, P
  <2> QED BY <1>1, SumNat
<1>3. CASE view.at = Demo
  <2>1. P = cells
    BY <1>3, DemoCells DEF PricedCells, Cells
  <2>2. Spent(view.at)[d] = SumFunctionOnSet([t \in DOMAIN ModelWeight |-> ByTeam[d][t]], DOMAIN ModelWeight)
    BY <1>3 DEF Spent, SumOver, SumFunction
  <2> QED BY <1>2, <2>1, <2>2, DemoSpends
<1>4. CASE view.at # Demo
  <2>1. P = {c \in Ledger(view.at) : c.priced}
    BY <1>4 DEF PricedCells, Cells
  <2>2. Spent(view.at)[d] = SumFunctionOnSet(f, P)
    BY <1>4, <2>1 DEF Spent, SumOver, SumFunction
  <2> QED BY <1>2, <2>2
<1> QED BY <1>3, <1>4

\* "the breakdown and the trend reconcile to the same totals": the rows.
LEMMA RowsReconcile ==
  ASSUME NEW view \in Views
  PROVE  SumOver(rows(view), LAMBDA r : r.spendUsd)
           = Trailing(Spent(view.at), Quarters[view.path.range], 0)
<1> DEFINE P == PricedCells(view)
           all == Spent(view.at)
           q == Quarters[view.path.range]
<1>1. SumOver(rows(view), LAMBDA r : r.spendUsd) = Worths(view, P)
  BY RowsAddUp
<1>2. Worths(view, P) = SumFunctionOnSet([c \in P |-> Trailing(c.spend, q, 0)], P)
  BY DEF Worths
<1>3. IsFiniteSet(P) /\ \A c \in P : c.spend \in [1 .. Today -> Nat]
  <2>1. IsFiniteSet(Cells(view)) /\ \A c \in Cells(view) : c.spend \in [1 .. Today -> Nat]
    BY CellTypes DEF CellIs
  <2> QED BY <2>1, FS_Subset DEF PricedCells
<1>4. \A d \in 1 .. Today : all[d] = SumFunctionOnSet([c \in P |-> c.spend[d]], P)
  BY CellsSpend
<1>5. q \in Nat
  BY ViewFields
<1> HIDE DEF P, all, q
<1>6. SumFunctionOnSet([c \in P |-> Trailing(c.spend, q, 0)], P) = Trailing(all, q, 0)
  BY <1>3, <1>4, <1>5, WindowsAddUp
<1> QED BY <1>1, <1>2, <1>6 DEF all, q

-----------------------------------------------------------------------------
(* The bars add up *)

TrendGroups(view) == {TrendGroup(view, c) : c \in Cells(view)}

\* By group or in all, a day's cells spent the same.
LEMMA DayValues ==
  ASSUME NEW view \in Views, NEW d \in 1 .. Today
  PROVE  LET G == TrendGroups(view)
             v == [g \in G |-> dayValue(view, d, g)]
         IN /\ IsFiniteSet(G)
            /\ \A g \in G : dayValue(view, d, g) \in Nat /\ v[g] = dayValue(view, d, g)
            /\ SumFunctionOnSet(v, G) = 4 * Spent(view.at)[d]
<1> DEFINE G == TrendGroups(view)
           C == Cells(view)
           P == PricedCells(view)
           v == [g \in G |-> dayValue(view, d, g)]
           f == [c \in P |-> 4 * c.spend[d]]
           e == [c \in P |-> c.spend[d]]
           h == [c \in P |-> TrendGroup(view, c)]
           u == [c \in C |-> TrendGroup(view, c)]
           s == Spent(view.at)[d]
<1>1. IsFiniteSet(C) /\ \A c \in C : c.spend[d] \in Nat
  BY CellTypes DEF CellIs
<1>2. P \in SUBSET C /\ IsFiniteSet(P)
  BY <1>1, FS_Subset DEF PricedCells
<1>3. IsFiniteSet(G)
  <2>1. (\A c \in C : u[c] \in G) /\ \A g \in G : \E c \in C : u[c] = g
    BY DEF TrendGroups
  <2> HIDE DEF C, u, G
  <2> QED BY <1>1, <2>1, ImageCounts
<1>4. \A c \in P : /\ f[c] \in Nat /\ e[c] \in Nat /\ f[c] = 4 * e[c] /\ h[c] \in G
                   /\ f[c] \in Int /\ e[c] \in Int
  BY <1>1, <1>2 DEF TrendGroups
<1>5. ASSUME NEW g \in G
      PROVE  dayValue(view, d, g) \in Nat /\ dayValue(view, d, g) = SumFunctionOnSet(f, GroupAt(P, h, g))
  <2> DEFINE S == {c \in C : c.priced /\ TrendGroup(view, c) = g}
             k == [c \in S |-> 4 * c.spend[d]]
  <2>1. dayValue(view, d, g) = SumFunctionOnSet(k, S)
    BY DEF dayValue, SumOver, SumFunction
  <2>2. S = GroupAt(P, h, g)
    BY DEF GroupAt, PricedCells
  <2>3. S \in SUBSET P /\ IsFiniteSet(S)
    BY <1>1, FS_Subset DEF PricedCells
  <2>4. \A c \in S : k[c] \in Nat /\ k[c] \in Int /\ k[c] = f[c]
    BY <1>4, <2>3
  <2> HIDE DEF S, k, f
  <2>5. SumFunctionOnSet(k, S) \in Nat
    BY <2>3, <2>4, SumNat
  <2>6. SumFunctionOnSet(k, S) = SumFunctionOnSet(f, S)
    BY <2>3, <2>4, SumSame
  <2> QED BY <2>1, <2>2, <2>5, <2>6
<1>6. \A g \in G : v[g] = SumFunctionOnSet(f, GroupAt(P, h, g))
  BY <1>5
<1>7. s = SumFunctionOnSet(e, P)
  BY CellsSpend
<1>8. \A g \in G : dayValue(view, d, g) \in Nat /\ v[g] = dayValue(view, d, g)
  BY <1>5
<1> HIDE DEF G, P, v, f, e, h, s
<1>9. SumFunctionOnSet(v, G) = SumFunctionOnSet(f, P)
  <2>1. \A c \in P : f[c] \in Int /\ h[c] \in G
    BY <1>4
  <2> QED BY <1>2, <1>3, <1>6, <2>1, SumRegroup
<1>10. SumFunctionOnSet(f, P) = 4 * SumFunctionOnSet(e, P)
  <2>1. 4 \in Int /\ \A c \in P : e[c] \in Int /\ f[c] = 4 * e[c]
    BY <1>4
  <2> QED BY <1>2, <2>1, SumScaled
<1> QED BY <1>3, <1>7, <1>8, <1>9, <1>10 DEF G, v, s

\* The groups are ranked, all of them.
LEMMA OrderListsAll ==
  ASSUME NEW view \in Views
  PROVE  LET G == TrendGroups(view)
             n == Cardinality(G)
             s == order(view)
         IN /\ n \in Nat /\ s \in [1 .. n -> G]
            /\ \A i, j \in 1 .. n : s[i] = s[j] => i = j
            /\ \A g \in G : \E i \in 1 .. n : s[i] = g
<1> DEFINE G == TrendGroups(view)
           n == Cardinality(G)
           total == [g \in G |-> SumOver(1 .. Today, LAMBDA d : dayValue(view, d, g))]
           Fits(s) == \A i, j \in 1 .. n : i < j => s[i] # s[j] /\ total[s[i]] >= total[s[j]]
<1>1. 1 \in 1 .. Today /\ 1 \in Int /\ Today \in Int
  BY SpendConstants
<1>2. IsFiniteSet(G)
  BY <1>1, DayValues
<1>3. n \in Nat
  BY <1>2, FS_CardinalityType
<1>4. \A g \in G : total[g] \in Nat
  <2> SUFFICES ASSUME NEW g \in G PROVE SumOver(1 .. Today, LAMBDA d : dayValue(view, d, g)) \in Nat
    OBVIOUS
  <2> DEFINE D == 1 .. Today
             f == [d \in D |-> dayValue(view, d, g)]
  <2>1. SumOver(1 .. Today, LAMBDA d : dayValue(view, d, g)) = SumFunctionOnSet(f, D)
    BY DEF SumOver, SumFunction
  <2>2. \A d \in D : f[d] \in Nat
    BY DayValues
  <2>3. IsFiniteSet(D)
    BY <1>1, FS_Interval
  <2> HIDE DEF D, f
  <2>4. SumFunctionOnSet(f, D) \in Nat
    BY <2>2, <2>3, SumNat
  <2> QED BY <2>1, <2>4
<1>5. order(view) = CHOOSE s \in [1 .. n -> G] :
                      \A i, j \in DOMAIN s : i < j => s[i] # s[j] /\ total[s[i]] >= total[s[j]]
  BY DEF order, TrendGroups
<1>6. \E s \in [1 .. n -> G] :
        \A i, j \in 1 .. n : i < j => s[i] # s[j] /\ total[s[i]] >= total[s[j]]
  <2> HIDE DEF G, total
  <2> QED BY <1>2, <1>4, RankedByValue
<1> HIDE DEF G, n, total
<1>7. \E s \in [1 .. n -> G] :
        \A i, j \in DOMAIN s : i < j => s[i] # s[j] /\ total[s[i]] >= total[s[j]]
  <2>1. PICK s \in [1 .. n -> G] :
          \A i, j \in 1 .. n : i < j => s[i] # s[j] /\ total[s[i]] >= total[s[j]]
    BY <1>6
  <2>2. DOMAIN s = 1 .. n
    OBVIOUS
  <2> QED BY <2>1, <2>2
<1> DEFINE s == order(view)
<1>8. s \in [1 .. n -> G] /\ \A i, j \in DOMAIN s : i < j => s[i] # s[j] /\ total[s[i]] >= total[s[j]]
  BY <1>5, <1>7
<1> HIDE DEF s
<1>9. DOMAIN s = 1 .. n /\ \A i, j \in 1 .. n : i < j => s[i] # s[j]
  BY <1>8
<1>10. (\A i, j \in 1 .. n : s[i] = s[j] => i = j) /\ \A g \in G : \E i \in 1 .. n : s[i] = g
  BY <1>2, <1>8, <1>9, ListsAll DEF n
<1> QED BY <1>3, <1>8, <1>10 DEF G, n, s

LEMMA ChartedDays ==
  ASSUME NEW view \in Views
  PROVE  /\ \A d \in charted(view) : d \in 1 .. Today
         /\ Today \in charted(view) /\ IsFiniteSet(charted(view))
<1> DEFINE w == TrendDays[view.path.range]
           t == Today
<1>1. w \in Nat /\ 1 <= w /\ w <= t /\ t \in Nat
  BY ViewFields, SpendConstants
<1>2. charted(view) = t - w + 1 .. t
  BY DEF charted
<1> HIDE DEF w, t
<1>3. t - w + 1 \in Int /\ t \in Int
  BY <1>1
<1>4. IsFiniteSet(t - w + 1 .. t)
  BY <1>3, FS_Interval
<1>5. (\A d \in t - w + 1 .. t : d \in 1 .. t) /\ t \in t - w + 1 .. t
  BY <1>1
<1> QED BY <1>2, <1>4, <1>5 DEF t

\* "the breakdown and the trend reconcile to the same totals": the bars of a day.
LEMMA BarsAddUp ==
  ASSUME NEW view \in Views, NEW d \in charted(view)
  PROVE  LET b == bars(view)[d] IN
         /\ b \in Seq(Nat) /\ DOMAIN bars(view) = charted(view)
         /\ SumFunctionOnSet(b, DOMAIN b) = 4 * Spent(view.at)[d]
         /\ 4 * Spent(view.at)[d] \in Nat
<1> DEFINE G     == TrendGroups(view)
           n     == Cardinality(G)
           s     == order(view)
           I     == 1 .. n
           at    == {i \in DOMAIN s : \E e \in charted(view) : dayValue(view, e, s[i]) > 0}
           p     == RowsAt(s, at)
           m     == Len(p)
           v     == [g \in G |-> dayValue(view, d, g)]
           N     == TopN
           top   == SubSeq(p, 1, Min({N, m}))
           other == SubSeq(p, N + 1, m)
           bar   == [i \in DOMAIN top |-> v[top[i]]]
                      \o IF other = <<>> THEN <<>>
                         ELSE <<SumFunctionOnSet([i \in DOMAIN other |-> v[other[i]]], DOMAIN other)>>
           w     == [k \in 1 .. m |-> v[p[k]]]
           e     == [i \in I |-> v[s[i]]]
<1>1. d \in 1 .. Today
  BY ChartedDays
<1>2. /\ IsFiniteSet(G) /\ \A g \in G : dayValue(view, d, g) \in Nat /\ v[g] = dayValue(view, d, g)
      /\ SumFunctionOnSet(v, G) = 4 * Spent(view.at)[d]
  BY <1>1, DayValues
<1>3. /\ n \in Nat /\ s \in [1 .. n -> G]
      /\ \A i, j \in 1 .. n : s[i] = s[j] => i = j
      /\ \A g \in G : \E i \in 1 .. n : s[i] = g
  BY OrderListsAll
<1>4. s \in Seq(G) /\ Len(s) = n /\ DOMAIN s = I
  <2> HIDE DEF s, G, n
  <2> QED BY <1>3, IsASeq
<1>5. at \in SUBSET DOMAIN s
  OBVIOUS
<1>6. \A i \in I : i \notin at => v[s[i]] = 0
  <2> SUFFICES ASSUME NEW i \in I, i \notin at PROVE v[s[i]] = 0
    OBVIOUS
  <2>1. s[i] \in G
    BY <1>3
  <2>2. ~(dayValue(view, d, s[i]) > 0)
    BY <1>4
  <2>3. dayValue(view, d, s[i]) \in Nat /\ v[s[i]] = dayValue(view, d, s[i])
    BY <1>2, <2>1
  <2> HIDE DEF v, s
  <2> QED BY <2>2, <2>3
<1>7. /\ p \in Seq(G)
      /\ \E o \in [1 .. m -> at] :
           /\ \A k \in 1 .. m : p[k] = s[o[k]]
           /\ \A i \in at : \E k \in 1 .. m : o[k] = i
           /\ \A j, k \in 1 .. m : j < k <=> o[j] < o[k]
           /\ \A j, k \in 1 .. m : o[j] = o[k] => j = k
  <2>1. s \in Seq(G) /\ at \in SUBSET DOMAIN s
    BY <1>4, <1>5
  <2> HIDE DEF at, s, G
  <2> DEFINE kept == RowsAt(s, at)
  <2>2. kept \in Seq(G)
    BY <2>1, RowsAtKeeps
  <2>3. \E o \in [1 .. Len(kept) -> at] :
           /\ \A k \in 1 .. Len(kept) : kept[k] = s[o[k]]
           /\ \A i \in at : \E k \in 1 .. Len(kept) : o[k] = i
           /\ \A j, k \in 1 .. Len(kept) : j < k <=> o[j] < o[k]
           /\ \A j, k \in 1 .. Len(kept) : o[j] = o[k] => j = k
    BY <2>1, RowsAtKeeps, SMTT(60)
  <2>4. p = kept /\ m = Len(kept)
    OBVIOUS
  <2> HIDE DEF kept, p, m
  <2> QED BY <2>2, <2>3, <2>4
<1>8. N \in Nat /\ N >= 1
  BY SpendConstants
<1>9. DOMAIN bars(view) = charted(view)
  BY DEF bars, stacks
<1>10. bars(view)[d] = [i \in DOMAIN top |-> dayValue(view, d, top[i])]
                         \o IF other = <<>> THEN <<>>
                            ELSE <<SumOver(DOMAIN other, LAMBDA i : dayValue(view, d, other[i]))>>
  BY DEF bars, stacks, present, rest
<1>11. \A g \in G : v[g] \in Nat /\ v[g] = dayValue(view, d, g)
  BY <1>2
<1> HIDE DEF G, n, s, I, at, N, v
<1>12. (\A i \in DOMAIN top : top[i] \in G) /\ \A i \in DOMAIN other : other[i] \in G
  <2>1. m \in Nat /\ \A k \in 1 .. m : p[k] \in G
    BY <1>7, LenProperties, ElementOfSeq
  <2> HIDE DEF m, p
  <2>2. Min({N, m}) = IF N <= m THEN N ELSE m
    BY <1>8, <2>1, LesserOfTwo
  <2>a. Min({N, m}) \in Int /\ N + 1 \in Int /\ m \in Int /\ 1 \in Int
        /\ (\A i \in 1 .. Min({N, m}) : i \in 1 .. m) /\ \A i \in N + 1 .. m : i \in 1 .. m
    BY <1>8, <2>1, <2>2
  <2>3. (\A i \in 1 .. Min({N, m}) : p[i] \in G) /\ \A i \in N + 1 .. m : p[i] \in G
    BY <2>1, <2>a
  <2>4. top \in Seq(G)
    BY <2>3, <2>a, SubSeqProperties
  <2>5. other \in Seq(G)
    BY <2>3, <2>a, SubSeqProperties
  <2> HIDE DEF top, other
  <2> QED BY <2>4, <2>5, ElementOfSeq, LenProperties
<1> HIDE DEF m, p
<1>13. bars(view)[d] = bar
  <2>1. [i \in DOMAIN top |-> dayValue(view, d, top[i])] = [i \in DOMAIN top |-> v[top[i]]]
    <3> HIDE DEF top
    <3> QED BY <1>11, <1>12
  <2>2. [i \in DOMAIN other |-> dayValue(view, d, other[i])] = [i \in DOMAIN other |-> v[other[i]]]
    <3> HIDE DEF other
    <3> QED BY <1>11, <1>12
  <2>3. SumOver(DOMAIN other, LAMBDA i : dayValue(view, d, other[i]))
          = SumFunctionOnSet([i \in DOMAIN other |-> v[other[i]]], DOMAIN other)
    <3> HIDE DEF other
    <3>1. SumOver(DOMAIN other, LAMBDA i : dayValue(view, d, other[i]))
            = SumFunctionOnSet([i \in DOMAIN other |-> dayValue(view, d, other[i])], DOMAIN other)
      BY DEF SumOver, SumFunction
    <3> QED BY <2>2, <3>1
  <2> HIDE DEF top, other
  <2> QED BY <1>10, <2>1, <2>3
<1>14. bar \in Seq(Nat) /\ SumFunctionOnSet(bar, DOMAIN bar) = SumFunctionOnSet(w, 1 .. m)
  <2>1. (\A g \in G : v[g] \in Nat) /\ p \in Seq(G)
    BY <1>7, <1>11
  <2>2. LET k  == Len(p)
            t  == SubSeq(p, 1, Min({N, k}))
            r  == SubSeq(p, N + 1, k)
            b  == [i \in DOMAIN t |-> v[t[i]]]
                    \o IF r = <<>> THEN <<>>
                       ELSE <<SumFunctionOnSet([i \in DOMAIN r |-> v[r[i]]], DOMAIN r)>>
        IN /\ b \in Seq(Nat)
           /\ SumFunctionOnSet(b, DOMAIN b) = SumFunctionOnSet([j \in 1 .. k |-> v[p[j]]], 1 .. k)
    BY <1>8, <2>1, FoldedBar
  <2> QED BY <2>2 DEF m
<1> HIDE DEF bar, top, other
<1>15. PICK o \in [1 .. m -> at] :
         /\ \A k \in 1 .. m : p[k] = s[o[k]]
         /\ \A i \in at : \E k \in 1 .. m : o[k] = i
         /\ \A j, k \in 1 .. m : o[j] = o[k] => j = k
  BY <1>7
<1>16. \A i \in I : e[i] \in Nat /\ e[i] \in Int /\ e[i] = v[s[i]]
  BY <1>3, <1>11 DEF I
<1>17. m \in Nat /\ IsFiniteSet(1 .. m) /\ IsFiniteSet(I) /\ IsFiniteSet(at) /\ at \in SUBSET I
  <2>1. m \in Nat
    BY <1>7, LenProperties DEF m
  <2>2. 1 \in Int /\ m \in Int /\ n \in Int
    BY <1>3, <2>1
  <2>3. IsFiniteSet(1 .. m) /\ IsFiniteSet(I)
    BY <2>2, FS_Interval DEF I
  <2> QED BY <1>4, <1>5, <2>1, <2>3, FS_Subset
<1>18. \A k \in 1 .. m : o[k] \in at /\ w[k] \in Int /\ e[o[k]] = w[k]
  BY <1>15, <1>16, <1>17
<1> HIDE DEF e, w
<1>19. SumFunctionOnSet(e, at) = SumFunctionOnSet(w, 1 .. m)
  <2> DEFINE K == 1 .. m
  <2>1. /\ \A k \in K : o[k] \in at /\ w[k] \in Int /\ e[o[k]] = w[k]
        /\ \A j, k \in K : o[j] = o[k] => j = k
        /\ \A i \in at : \E k \in K : o[k] = i
    BY <1>15, <1>18
  <2>2. IsFiniteSet(K) /\ IsFiniteSet(at)
    BY <1>17
  <2> DEFINE h == [k \in K |-> o[k]]
  <2>3. /\ \A k \in K : h[k] \in at /\ w[k] \in Int /\ e[h[k]] = w[k]
        /\ \A j, k \in K : h[j] = h[k] => j = k
        /\ \A i \in at : \E k \in K : h[k] = i
    BY <2>1
  <2> HIDE DEF K, h
  <2>4. SumFunctionOnSet(e, at) = SumFunctionOnSet(w, K)
    BY <2>2, <2>3, SumMoved
  <2> QED BY <2>4 DEF K
<1> DEFINE off == I \ at
<1>20. SumFunctionOnSet(e, I) = SumFunctionOnSet(e, at) + SumFunctionOnSet(e, off)
  <2>1. IsFiniteSet(off) /\ at \cap off = {} /\ at \cup off = I
    BY <1>17, FS_Subset
  <2> HIDE DEF off
  <2>2. \A i \in at \cup off : e[i] \in Int
    BY <1>16, <2>1
  <2>3. SumFunctionOnSet(e, at \cup off) = SumFunctionOnSet(e, at) + SumFunctionOnSet(e, off)
    BY <1>17, <2>1, <2>2, SumUnion
  <2> QED BY <2>1, <2>3
<1>21. SumFunctionOnSet(e, off) = 0
  <2>1. IsFiniteSet(off) /\ \A i \in off : e[i] = 0
    BY <1>6, <1>16, <1>17, FS_Subset
  <2> HIDE DEF off
  <2> QED BY <2>1, SumZero
<1>22. SumFunctionOnSet(v, G) = SumFunctionOnSet(e, I)
  <2>1. /\ \A i \in I : s[i] \in G /\ e[i] \in Int /\ v[s[i]] = e[i]
        /\ \A i, j \in I : s[i] = s[j] => i = j
        /\ \A g \in G : \E i \in I : s[i] = g
    BY <1>3, <1>16 DEF I
  <2>2. IsFiniteSet(G) /\ IsFiniteSet(I)
    BY <1>2, <1>17
  <2> QED BY <2>1, <2>2, SumMoved
<1>23. SumFunctionOnSet(e, at) \in Nat
  <2>1. \A i \in at : e[i] \in Nat
    BY <1>16, <1>17
  <2> QED BY <1>17, <2>1, SumNat
<1> HIDE DEF off
<1>24. SumFunctionOnSet(bar, DOMAIN bar) = 4 * Spent(view.at)[d] /\ 4 * Spent(view.at)[d] \in Nat
  BY <1>2, <1>14, <1>19, <1>20, <1>21, <1>22, <1>23
<1> QED BY <1>9, <1>13, <1>14, <1>24

-----------------------------------------------------------------------------
(* The axis fits *)

TensRow(g, x) == IF x < 10 THEN 1 ELSE 10 * g[x \div 10]

\* The recursive function of the powers of ten exists.
LEMMA TensTable ==
  \E g \in [Nat -> Nat] : \A x \in Nat : g[x] = TensRow(g, x)
<1> DEFINE Sol(n) == {g \in [0 .. n -> Nat] : \A x \in 0 .. n : g[x] = TensRow(g, x)}
           Bad == {n \in Nat : Sol(n) = {}}
<1>1. \A x \in Nat : x \div 10 \in Nat /\ (x >= 10 => x \div 10 < x /\ x \div 10 \in 0 .. x - 1)
  OBVIOUS
<1>2. Bad = {}
  <2> SUFFICES ASSUME Bad # {} PROVE FALSE
    OBVIOUS
  <2>1. PICK n \in Bad : \A x \in Bad : n <= x
    <3>1. Bad \in SUBSET Nat
      OBVIOUS
    <3> HIDE DEF Bad
    <3> QED BY <3>1, LeastNumber
  <2>2. n \in Nat /\ Sol(n) = {}
    OBVIOUS
  <2>3. CASE n = 0
    <3> DEFINE f == [x \in 0 .. n |-> 1]
    <3>1. f \in Sol(n)
      BY <2>3 DEF TensRow
    <3> QED BY <2>2, <3>1
  <2>4. CASE n > 0
    <3>1. n - 1 \in Nat /\ n - 1 < n
      BY <2>2, <2>4
    <3>2. n - 1 \notin Bad
      <4> SUFFICES ASSUME n - 1 \in Bad PROVE FALSE
        OBVIOUS
      <4> HIDE DEF Bad
      <4>1. n <= n - 1
        BY <2>1
      <4> QED BY <2>2, <4>1
    <3>3. PICK g \in Sol(n - 1) : TRUE
      BY <3>1, <3>2
    <3>4. g \in [0 .. n - 1 -> Nat] /\ \A x \in 0 .. n - 1 : g[x] = TensRow(g, x)
      BY <3>3
    <3> DEFINE f == [x \in 0 .. n |-> IF x = n THEN TensRow(g, n) ELSE g[x]]
    <3>5. TensRow(g, n) \in Nat
      BY <1>1, <2>2, <3>4 DEF TensRow
    <3>6. f \in [0 .. n -> Nat] /\ \A x \in 0 .. n - 1 : f[x] = g[x]
      BY <2>2, <3>4, <3>5
    <3>7. ASSUME NEW x \in 0 .. n PROVE f[x] = TensRow(f, x)
      <4>1. TensRow(f, x) = TensRow(g, x)
        <5>1. x >= 10 => x \div 10 \in 0 .. n - 1
          BY <1>1, <2>2
        <5> HIDE DEF f
        <5> QED BY <3>6, <5>1, <2>2 DEF TensRow
      <4>2. f[x] = TensRow(g, x)
        BY <2>2, <3>4
      <4> QED BY <4>1, <4>2
    <3> HIDE DEF f
    <3>8. f \in Sol(n)
      BY <3>6, <3>7
    <3> QED BY <2>2, <3>8
  <2> QED BY <2>2, <2>3, <2>4
<1> DEFINE G(n) == CHOOSE g \in Sol(n) : TRUE
           h == [n \in Nat |-> G(n)[n]]
<1>3. \A n \in Nat : G(n) \in [0 .. n -> Nat] /\ \A x \in 0 .. n : G(n)[x] = TensRow(G(n), x)
  <2> TAKE n \in Nat
  <2>1. Sol(n) # {}
    BY <1>2
  <2>2. G(n) \in Sol(n)
    BY <2>1
  <2> HIDE DEF G
  <2> QED BY <2>2
<1> HIDE DEF G
<1> DEFINE Off == {x \in Nat : \E m, n \in Nat : x <= m /\ x <= n /\ G(m)[x] # G(n)[x]}
<1>4. Off = {}
  <2> SUFFICES ASSUME Off # {} PROVE FALSE
    OBVIOUS
  <2>1. PICK x \in Off : \A y \in Off : x <= y
    <3>1. Off \in SUBSET Nat
      OBVIOUS
    <3> HIDE DEF Off
    <3> QED BY <3>1, LeastNumber
  <2>2. PICK m \in Nat, n \in Nat : x <= m /\ x <= n /\ G(m)[x] # G(n)[x]
    OBVIOUS
  <2>3. x \in Nat /\ x \in 0 .. m /\ x \in 0 .. n
    BY <2>1, <2>2
  <2>4. G(m)[x] = TensRow(G(m), x) /\ G(n)[x] = TensRow(G(n), x)
    BY <1>3, <2>3
  <2>5. x >= 10
    BY <2>2, <2>3, <2>4 DEF TensRow
  <2>6. x \div 10 \in Nat /\ x \div 10 < x /\ x \div 10 <= m /\ x \div 10 <= n
    BY <1>1, <2>2, <2>3, <2>5
  <2>7. x \div 10 \notin Off
    BY <2>1, <2>3, <2>6
  <2>8. G(m)[x \div 10] = G(n)[x \div 10]
    BY <2>6, <2>7
  <2> QED BY <2>2, <2>4, <2>8 DEF TensRow
<1>5. ASSUME NEW x \in Nat PROVE h[x] \in Nat /\ h[x] = TensRow(h, x)
  <2>1. x \in 0 .. x
    OBVIOUS
  <2>2. h[x] = G(x)[x] /\ h[x] \in Nat /\ h[x] = TensRow(G(x), x)
    BY <1>3, <2>1
  <2>3. x >= 10 => h[x \div 10] = G(x)[x \div 10]
    <3>1. x >= 10 => x \div 10 \in Nat /\ x \div 10 <= x /\ x \div 10 <= x \div 10
      BY <1>1
    <3> QED BY <1>4, <3>1
  <2> HIDE DEF h
  <2> QED BY <2>2, <2>3 DEF TensRow
<1>6. h \in [Nat -> Nat]
  BY <1>5
<1> QED BY <1>5, <1>6

LEMMA TensRecur == \A x \in Nat : tens[x] = TensRow(tens, x)
<1>1. PICK g \in [Nat -> Nat] : \A x \in Nat : g[x] = TensRow(g, x)
  BY TensTable
<1>2. g = [raw \in Nat |-> IF raw < 10 THEN 1 ELSE 10 * g[raw \div 10]]
  BY <1>1 DEF TensRow
<1>3. \E f : f = [raw \in Nat |-> IF raw < 10 THEN 1 ELSE 10 * f[raw \div 10]]
  BY <1>2
<1>4. tens = [raw \in Nat |-> IF raw < 10 THEN 1 ELSE 10 * tens[raw \div 10]]
  BY <1>3 DEF tens
<1> QED BY <1>4 DEF TensRow

\* tens is what it says.
LEMMA TensAre ==
  ASSUME NEW raw \in Nat, raw >= 1
  PROVE  tens[raw] \in Nat /\ tens[raw] >= 1 /\ tens[raw] <= raw /\ raw < 10 * tens[raw]
<1> DEFINE Fits(x) == tens[x] \in Nat /\ tens[x] >= 1 /\ tens[x] <= x /\ x < 10 * tens[x]
           Bad == {x \in Nat : x >= 1 /\ ~Fits(x)}
<1>1. Bad = {}
  <2> SUFFICES ASSUME Bad # {} PROVE FALSE
    OBVIOUS
  <2>1. PICK x \in Bad : \A y \in Bad : x <= y
    <3>1. Bad \in SUBSET Nat
      OBVIOUS
    <3> HIDE DEF Bad
    <3> QED BY <3>1, LeastNumber
  <2>2. x \in Nat /\ x >= 1 /\ ~Fits(x)
    OBVIOUS
  <2>3. tens[x] = IF x < 10 THEN 1 ELSE 10 * tens[x \div 10]
    BY <2>2, TensRecur DEF TensRow
  <2>4. x >= 10
    BY <2>2, <2>3
  <2> DEFINE y == x \div 10
             t == tens[y]
  <2>5. y \in Nat /\ y >= 1 /\ y < x /\ 10 * y <= x /\ x < 10 * y + 10
    BY <2>2, <2>4
  <2>6. Fits(y)
    BY <2>1, <2>2, <2>5
  <2>7. tens[x] = 10 * t
    BY <2>3, <2>4, <2>2
  <2>8. t \in Nat /\ t >= 1 /\ t <= y /\ y < 10 * t
    BY <2>6
  <2> HIDE DEF y, t
  <2> QED BY <2>2, <2>5, <2>7, <2>8
<1> QED BY <1>1

\* "about four steps of a round size": at most four, the last of which holds the
\* greatest, and the one before it does not.
LEMMA TicksFit ==
  ASSUME NEW max \in Nat, max >= 1, NEW pow \in powers(25 * max)
  PROVE  LET ticks == niceTicks(max, pow) IN
         /\ ticks[Len(ticks)] >= 100 * max /\ Len(ticks) <= 5
         /\ Len(ticks) > 1 => ticks[Len(ticks) - 1] < 100 * max
<1> DEFINE raw == 25 * max
           five == (5 * pow) \div 2
           S == {pow, 2 * pow, five, 5 * pow, 10 * pow}
           Fit == {x \in S : x >= raw}
           step == Min(Fit)
           top == (100 * max + step - 1) \div step
           ticks == niceTicks(max, pow)
<1>1. raw \in Nat /\ raw >= 25 /\ 100 * max = 4 * raw
  OBVIOUS
<1>2. pow \in Nat /\ pow >= 1 /\ raw <= 10 * pow
  <2> DEFINE t == tens[raw]
             u == tens[raw \div 10]
  <2>1. t \in Nat /\ t >= 1 /\ t <= raw /\ raw < 10 * t
    <3> HIDE DEF raw
    <3> QED BY <1>1, TensAre
  <2>2. pow \in IF t = raw THEN {raw, raw \div 10} ELSE {t}
    BY DEF powers
  <2>3. t = 10 * u /\ raw \div 10 \in Nat /\ raw \div 10 >= 1
    <3> HIDE DEF raw
    <3>1. raw \div 10 \in Nat /\ raw \div 10 >= 1
      BY <1>1
    <3> QED BY <1>1, <3>1, TensRecur DEF TensRow
  <2>4. u \in Nat
    <3> HIDE DEF raw
    <3> QED BY <2>3, TensAre
  <2> HIDE DEF t, u, raw
  <2>5. CASE t = raw
    <3>1. raw = 10 * u
      BY <2>3, <2>5
    <3>2. raw \div 10 = u
      BY <2>4, <3>1
    <3> QED BY <1>1, <2>2, <2>4, <2>5, <3>1, <3>2
  <2>6. CASE t # raw
    <3>1. pow = t
      BY <2>2, <2>6
    <3> QED BY <1>1, <2>1, <3>1
  <2> QED BY <2>5, <2>6
<1>3. five \in Nat
  BY <1>2
<1> HIDE DEF raw, five
<1>4. Fit \subseteq Nat /\ 10 * pow \in Fit
  BY <1>2, <1>3
<1>5. step \in Fit
  <2> HIDE DEF Fit
  <2>1. PICK low \in Fit : \A x \in Fit : low <= x
    BY <1>4, LeastNumber
  <2>2. \E y \in Fit : \A x \in Fit : y <= x
    BY <2>1
  <2> QED BY <2>2 DEF Min
<1>6. step \in Nat /\ step >= raw /\ step >= 1
  <2>1. step >= raw
    BY <1>5
  <2>2. step \in Nat
    BY <1>4, <1>5
  <2> HIDE DEF step
  <2> QED BY <1>1, <2>1, <2>2
<1>7. ticks = [i \in 1 .. top + 1 |-> (i - 1) * step]
  BY DEF niceTicks, raw, five
<1> HIDE DEF step, Fit, S
<1>8. /\ top \in Nat /\ step * top <= 100 * max + step - 1 /\ 100 * max + step - 1 < step * top + step
  <2> DEFINE a == 100 * max + step - 1
  <2>1. a \in Nat
    BY <1>6
  <2> HIDE DEF a
  <2>2. a \div step \in Nat /\ step * (a \div step) <= a /\ a < step * (a \div step) + step
    BY <1>6, <2>1, QuotientIs
  <2> QED BY <2>2 DEF a
<1> HIDE DEF ticks, top
<1>9. top <= 4
  <2> SUFFICES ASSUME top >= 5 PROVE FALSE
    BY <1>8
  <2>1. step * top >= step * 5
    BY <1>6, <1>8
  <2>2. step * 5 <= 4 * raw + step - 1
    <3> DEFINE a == step * top
    <3>1. a \in Nat
      BY <1>6, <1>8
    <3> HIDE DEF a
    <3> QED BY <1>1, <1>6, <1>8, <2>1, <3>1 DEF a
  <2> QED BY <1>1, <1>6, <2>2
<1>10. Len(ticks) = top + 1
  <2>1. top + 1 \in Nat /\ \A i \in 1 .. top + 1 : (i - 1) * step \in Int
    BY <1>6, <1>8
  <2>2. ticks \in [1 .. top + 1 -> Int]
    BY <1>7, <2>1
  <2> QED BY <2>1, <2>2, IsASeq
<1>11. ticks[top + 1] = top * step
  BY <1>7, <1>8
<1>12. top >= 1 => ticks[top] = (top - 1) * step
  BY <1>7, <1>8
<1> DEFINE b == step * top
<1>13. b \in Nat /\ top * step = b /\ (top - 1) * step = b - step
  BY <1>6, <1>8
<1> HIDE DEF b
<1>14. b <= 100 * max + step - 1 /\ 100 * max + step - 1 < b + step
  BY <1>8 DEF b
<1>15. b >= 100 * max /\ b - step < 100 * max
  BY <1>6, <1>13, <1>14
<1>16. ticks[Len(ticks)] >= 100 * max /\ Len(ticks) <= 5
  BY <1>8, <1>9, <1>10, <1>11, <1>13, <1>15
<1>17. Len(ticks) > 1 => ticks[Len(ticks) - 1] < 100 * max
  BY <1>8, <1>10, <1>12, <1>13, <1>15
<1> QED BY <1>16, <1>17 DEF ticks

LEMMA HeightsAre ==
  ASSUME NEW view \in Views, NEW d \in charted(view)
  PROVE  /\ barHeight(bars(view)[d]) = 4 * Spent(view.at)[d] /\ 4 * Spent(view.at)[d] \in Nat
         /\ SumOver(DOMAIN bars(view)[d], LAMBDA i : bars(view)[d][i]) = 4 * Spent(view.at)[d]
<1> DEFINE b == bars(view)[d]
<1>1. b \in Seq(Nat) /\ SumFunctionOnSet(b, DOMAIN b) = 4 * Spent(view.at)[d]
      /\ 4 * Spent(view.at)[d] \in Nat
  BY BarsAddUp
<1>2. SumOver(DOMAIN bars(view)[d], LAMBDA i : bars(view)[d][i])
        = SumFunctionOnSet([i \in DOMAIN b |-> b[i]], DOMAIN b)
  BY DEF SumOver, SumFunction
<1>3. barHeight(bars(view)[d]) = SumFunctionOnSet([i \in DOMAIN b |-> b[i]], DOMAIN b)
  BY DEF barHeight, SumOver, SumFunction
<1>4. [i \in DOMAIN b |-> b[i]] = b
  <2> HIDE DEF b
  <2> QED BY <1>1
<1> QED BY <1>1, <1>2, <1>3, <1>4

LEMMA AxesFit ==
  ASSUME NEW view \in Views, NEW ticks \in axes(bars(view))
  PROVE  LET spent   == {4 * Spent(view.at)[d] : d \in charted(view)}
             highest == 100 * Max(spent)
         IN /\ ticks[Len(ticks)] >= highest /\ Len(ticks) <= 5
            /\ Len(ticks) > 1 => ticks[Len(ticks) - 1] < highest
<1> DEFINE D == charted(view)
           f == [d \in D |-> 4 * Spent(view.at)[d]]
           H == {4 * Spent(view.at)[d] : d \in D}
           M == Max(H)
           B == {barHeight(bars(view)[d]) : d \in DOMAIN bars(view)} \cup {0}
           max == Max(B)
<1>1. D # {} /\ IsFiniteSet(D)
  BY ChartedDays
<1>2. \A d \in D : 4 * Spent(view.at)[d] \in Nat /\ barHeight(bars(view)[d]) = 4 * Spent(view.at)[d]
  BY HeightsAre
<1>3. IsFiniteSet(H) /\ H \subseteq Nat /\ H # {}
  <2>1. (\A d \in D : f[d] \in H) /\ \A h \in H : \E d \in D : f[d] = h
    OBVIOUS
  <2>2. H \subseteq Nat /\ H # {}
    BY <1>1, <1>2
  <2> HIDE DEF D, f, H
  <2>3. IsFiniteSet(H)
    BY <1>1, <2>1, ImageCounts
  <2> QED BY <2>2, <2>3
<1>4. B = H \cup {0}
  <2>1. DOMAIN bars(view) = D
    BY <1>1, BarsAddUp
  <2> QED BY <1>2, <2>1
<1>5. M \in H /\ \A y \in H : M >= y
  <2> HIDE DEF H
  <2> QED BY <1>3, GreatestIsIn
<1>6. max \in B /\ \A y \in B : max >= y
  <2>1. IsFiniteSet(B) /\ B \subseteq Nat /\ B # {}
    <3>1. IsFiniteSet(H \cup {0})
      BY <1>3, FS_AddElement
    <3> HIDE DEF H, B
    <3> QED BY <1>3, <1>4, <3>1
  <2> HIDE DEF B
  <2> QED BY <2>1, GreatestIsIn
<1>7. max = M /\ M \in Nat
  <2> HIDE DEF M, max, H, B
  <2>1. M \in Nat /\ M \in B /\ max >= M
    BY <1>3, <1>4, <1>5, <1>6
  <2>2. max \in H \cup {0} /\ max \in Nat
    BY <1>3, <1>4, <1>6
  <2>3. M >= max
    BY <1>5, <2>1, <2>2
  <2> QED BY <2>1, <2>2, <2>3
<1>8. axes(bars(view)) = IF max <= 0 THEN {<<0>>} ELSE {niceTicks(max, pow) : pow \in powers(25 * max)}
  BY DEF axes
<1> SUFFICES /\ ticks[Len(ticks)] >= 100 * M /\ Len(ticks) <= 5
             /\ Len(ticks) > 1 => ticks[Len(ticks) - 1] < 100 * M
  OBVIOUS
<1> HIDE DEF M, max
<1>9. CASE max <= 0
  <2>1. M = 0 /\ ticks = <<0>>
    BY <1>7, <1>8, <1>9
  <2>2. Len(ticks) = 1 /\ ticks[1] = 0
    BY <2>1
  <2> QED BY <2>1, <2>2
<1>10. CASE max > 0
  <2>1. ~(max <= 0) /\ max \in Nat /\ max >= 1
    BY <1>7, <1>10
  <2>2. PICK pow \in powers(25 * max) : ticks = niceTicks(max, pow)
    BY <1>8, <2>1
  <2>3. /\ niceTicks(max, pow)[Len(niceTicks(max, pow))] >= 100 * max /\ Len(niceTicks(max, pow)) <= 5
        /\ Len(niceTicks(max, pow)) > 1 => niceTicks(max, pow)[Len(niceTicks(max, pow)) - 1] < 100 * max
    BY <2>1, TicksFit
  <2> QED BY <1>7, <2>2, <2>3
<1> QED BY <1>7, <1>9, <1>10

\* "no price" or not, the lines of a file are those of the rows.
LEMMA LinesAddUp ==
  ASSUME NEW view \in Views
  PROVE  LET L == spendCsv(rows(view)) IN
         /\ SumOver({l \in L : l.spend # NoAnswer}, LAMBDA l : l.spend)
              = SumOver(rows(view), LAMBDA r : r.spendUsd)
         /\ \A c \in Cells(view) : \E l \in L : l.id = GroupOf(view, c)
<1> DEFINE R == rows(view)
           L == spendCsv(R)
           Line(r) == [id |-> r.id, spend |-> spendCell(r), unpriced |-> r.unpriced]
           R1 == {r \in R : spendCell(r) # NoAnswer}
           R0 == R \ R1
           L1 == {l \in L : l.spend # NoAnswer}
           f == [r \in R |-> r.spendUsd]
           h == [r \in R1 |-> Line(r)]
           e == [l \in L1 |-> l.spend]
<1>1. IsFiniteSet(R) /\ \A r \in R : r.spendUsd \in Nat
  BY RowsAddUp
<1>2. L = {Line(r) : r \in R}
  BY DEF spendCsv
<1>3. \A r : Line(r).id = r.id /\ Line(r).spend = spendCell(r)
  OBVIOUS
<1>4. /\ \A g \in Groups(view) : \E r \in R : r.id = g
      /\ \A r, s \in R : r.id = s.id => r = s
  BY RowsAreGroups
<1>5. SumOver(L1, LAMBDA l : l.spend) = SumFunctionOnSet(e, L1)
      /\ SumOver(R, LAMBDA r : r.spendUsd) = SumFunctionOnSet(f, R)
  BY DEF SumOver, SumFunction
<1>6. \A r \in R1 : r \in R /\ spendCell(r) = r.spendUsd
  BY DEF spendCell
<1>7. \A r \in R0 : r \in R /\ r.spendUsd = 0
  <2> HIDE DEF R
  <2> QED BY <1>1 DEF spendCell, NoAnswer
<1>8. \A c \in Cells(view) : GroupOf(view, c) \in Groups(view)
  BY DEF Groups
<1>9. \A c \in Cells(view) : \E l \in L : l.id = GroupOf(view, c)
  <2> HIDE DEF R, L, Line
  <2> QED BY <1>2, <1>3, <1>4, <1>8
<1> HIDE DEF Line, L, R
<1>10. /\ \A r \in R1 : h[r] \in L1 /\ f[r] \in Int /\ e[h[r]] = f[r]
       /\ \A r, s \in R1 : h[r] = h[s] => r = s
       /\ \A l \in L1 : \E r \in R1 : h[r] = l
  <2>1. \A r \in R1 : Line(r) \in L1
    BY <1>2, <1>3
  <2>2. \A r \in R1 : e[Line(r)] = r.spendUsd
    BY <1>3, <1>6, <2>1
  <2>3. \A r \in R1 : f[r] \in Int /\ f[r] = r.spendUsd
    BY <1>1
  <2>4. \A r, s \in R1 : Line(r) = Line(s) => r = s
    BY <1>3, <1>4
  <2>5. \A l \in L1 : \E r \in R1 : Line(r) = l
    BY <1>2, <1>3
  <2> HIDE DEF L1, R1, f, e
  <2> QED BY <2>1, <2>2, <2>3, <2>4, <2>5
<1>11. IsFiniteSet(R1) /\ IsFiniteSet(R0) /\ R1 \cap R0 = {} /\ R1 \cup R0 = R
  BY <1>1, FS_Subset
<1>12. (\A r \in R1 \cup R0 : f[r] \in Int) /\ (\A r \in R0 : f[r] = 0) /\ \A r \in R1 : f[r] \in Nat
  BY <1>1, <1>7
<1> HIDE DEF R1, R0, L1, f, h, e
<1>13. IsFiniteSet(L1)
  <2>1. (\A r \in R1 : h[r] \in L1) /\ \A l \in L1 : \E r \in R1 : h[r] = l
    BY <1>10
  <2> QED BY <1>11, <2>1, ImageCounts
<1>14. SumFunctionOnSet(e, L1) = SumFunctionOnSet(f, R1)
  BY <1>10, <1>11, <1>13, SumMoved
<1>15. SumFunctionOnSet(f, R) = SumFunctionOnSet(f, R1) + SumFunctionOnSet(f, R0)
  <2>1. SumFunctionOnSet(f, R1 \cup R0) = SumFunctionOnSet(f, R1) + SumFunctionOnSet(f, R0)
    BY <1>11, <1>12, SumUnion
  <2> QED BY <1>11, <2>1
<1>16. SumFunctionOnSet(f, R0) = 0 /\ SumFunctionOnSet(f, R1) \in Nat
  BY <1>11, <1>12, SumZero, SumNat
<1>17. SumFunctionOnSet(e, L1) = SumFunctionOnSet(f, R)
  BY <1>14, <1>15, <1>16
<1> QED BY <1>5, <1>9, <1>17 DEF L, L1, R

LEMMA Reconciles == SpendInv => FiguresReconcile
<1> SUFFICES ASSUME SpendInv PROVE FiguresReconcile
  OBVIOUS
<1>1. TotalsReconcile
  <2> SUFFICES ASSUME onPage = "spend", Live.loaded
               PROVE  LET view  == Live.data
                          shown == Figures[view]
                      IN /\ SumOver(shown.rows, LAMBDA r : r.spendUsd)
                              = Trailing(Spent(view.at), Quarters[view.path.range], 0)
                         /\ \A d \in charted(view) :
                              SumOver(DOMAIN shown.bars[d], LAMBDA i : shown.bars[d][i])
                                = 4 * Spent(view.at)[d]
    BY DEF TotalsReconcile
  <2> DEFINE view == Live.data
  <2>1. view \in Views
    BY LoadedViews
  <2> HIDE DEF view
  <2>2. Figures[view].rows = rows(view) /\ Figures[view].bars = bars(view)
    BY <2>1, ViewFields
  <2>3. SumOver(Figures[view].rows, LAMBDA r : r.spendUsd)
          = Trailing(Spent(view.at), Quarters[view.path.range], 0)
    <3>1. SumOver(rows(view), LAMBDA r : r.spendUsd)
            = Trailing(Spent(view.at), Quarters[view.path.range], 0)
      BY <2>1, RowsReconcile
    <3> QED BY <2>2, <3>1 DEF SumOver
  <2>4. ASSUME NEW d \in charted(view)
        PROVE  SumOver(DOMAIN Figures[view].bars[d], LAMBDA i : Figures[view].bars[d][i])
                 = 4 * Spent(view.at)[d]
    <3>1. SumOver(DOMAIN bars(view)[d], LAMBDA i : bars(view)[d][i]) = 4 * Spent(view.at)[d]
      BY <2>1, HeightsAre
    <3> QED BY <2>2, <3>1 DEF SumOver
  <2> QED BY <2>3, <2>4 DEF view
<1>2. FileAddsUp
  <2> SUFFICES ASSUME NEW file \in Made("csv")
               PROVE  /\ SumOver({l \in file.lines : l.spend # NoAnswer}, LAMBDA l : l.spend)
                           = Trailing(Spent(file.view.at), Quarters[file.view.path.range], 0)
                      /\ \A c \in Cells(file.view) :
                           \E l \in file.lines : l.id = GroupOf(file.view, c)
    BY DEF FileAddsUp
  <2> DEFINE view == file.view
  <2>1. view \in Views /\ file.lines = spendCsv(Figures[view].rows)
    BY DEF SpendInv, OutHolds, Made, CsvHolds
  <2> HIDE DEF view
  <2>2. file.lines = spendCsv(rows(view))
    BY <2>1, ViewFields
  <2>3. SumOver(rows(view), LAMBDA r : r.spendUsd) = Trailing(Spent(view.at), Quarters[view.path.range], 0)
    BY <2>1, RowsReconcile
  <2> DEFINE L == spendCsv(rows(view))
  <2>4. /\ SumOver({l \in L : l.spend # NoAnswer}, LAMBDA l : l.spend)
             = SumOver(rows(view), LAMBDA r : r.spendUsd)
        /\ \A c \in Cells(view) : \E l \in L : l.id = GroupOf(view, c)
    BY <2>1, LinesAddUp
  <2> HIDE DEF L
  <2>5. file.lines = L
    BY <2>2 DEF L
  <2> QED BY <2>3, <2>4, <2>5 DEF view
<1>3. AxisFits
  <2> SUFFICES ASSUME onPage = "spend", Live.loaded, NEW ticks \in Figures[Live.data].axes
               PROVE  LET spent   == {4 * Spent(Live.data.at)[d] : d \in charted(Live.data)}
                          highest == 100 * Max(spent)
                      IN /\ ticks[Len(ticks)] >= highest /\ Len(ticks) <= 5
                         /\ Len(ticks) > 1 => ticks[Len(ticks) - 1] < highest
    BY DEF AxisFits
  <2>1. Live.data \in Views
    BY LoadedViews
  <2>2. ticks \in axes(bars(Live.data))
    BY <2>1, ViewFields
  <2> QED BY <2>1, <2>2, AxesFit
<1> QED BY <1>1, <1>2, <1>3 DEF FiguresReconcile

-----------------------------------------------------------------------------
(* The polling pages keep their word *)

LEMMA SpendIsFollowed == WebSpec => SpendInit /\ [][SpendNext]_spendVars
<1>1. WebInit => SpendInit
  BY DEF WebInit
<1>2. [WebNext]_webVars => [SpendNext]_spendVars
  BY DEF WebNext, webVars, Waits
<1> QED BY <1>1, <1>2, PTL DEF WebSpec

\* Spend's rows, bars, file and axis are computed from the same cells and agree on what was
\* spent, for any ledger, any shares of the demo's teams and any number of days.
THEOREM FiguresAgree == WebSpec => []FiguresReconcile
BY Reconciles, SpendInvariant, SpendIsFollowed, PTL

\* drill and trafficHref: Traffic selects by a row's link what makes up the row, by team, key
\* or model (of the control plane's projects and persons that is not so); openBar: a bar opens
\* its own day; and a key that the server has is found.
THEOREM LinksHoldWhatIsShown == WebSpec => []LinksOpenWhatIsShown
BY LinksOpen, SpendInvariant, SpendIsFollowed, PTL

\* useLive: a file is of the view that its user has chosen, and no late answer, to a request
\* of an earlier choice, takes a view away that has loaded.
THEOREM ChoiceIsFollowed == WebSpec => []FileIsOfChoice /\ LoadedStays
<1>1. SpendInv /\ [SpendNext]_spendVars =>
        [(Live.loaded /\ UNCHANGED <<onPage, choice>>) => Live'.loaded]_spendVars
  BY StaysLoaded
<1> QED BY <1>1, FilesAreOfChoice, SpendInvariant, SpendIsFollowed, PTL DEF LoadedStays

-----------------------------------------------------------------------------
(* The parts together *)

\* Every part keeps within its types, whichever of them is followed.
THEOREM WebTypesCorrect == WebSpec => []WebTypeOK
<1>1. PortalInv => PortalTypeOK
  BY DEF PortalInv
<1>2. WebSpec => []PortalTypeOK
  BY <1>1, PageIsFollowed, PortalInvariant, PTL
<1>3. WebSpec => []SpendTypeOK
  BY SpendTypes, SpendInvariant, SpendIsFollowed, PTL
<1>4. WebSpec => []RowsTypeOK
  BY RowsHaveTypes, RowsInvariant, RowsAreFollowed, PTL
<1>5. PortalTypeOK /\ LookTypeOK /\ ShellTypeOK /\ SpendTypeOK /\ RowsTypeOK /\ ToastTypeOK
        => WebTypeOK
  BY DEF WebTypeOK
<1> QED BY <1>2, <1>3, <1>4, <1>5, LookKeepsTypes, ShellKeepsTypes, ToastKeepsTypes, PTL
=============================================================================
