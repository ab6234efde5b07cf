------------------------------- MODULE Toasts -------------------------------
(***************************************************************************)
(* The usage console's notifications                                       *)
(* (usage-console/console/src/components/ui/toast.tsx): a wrapper around   *)
(* Base UI's toast manager that gives every add, update and promise state  *)
(* its priority and its time, and the list that renders the items.         *)
(*                                                                         *)
(* Base UI is external: it merges an update into the item field by field,  *)
(* closes an item when its time is over, never one that is loading, and    *)
(* updates a promise's item, with the type of its outcome, when it ends.   *)
(***************************************************************************)
EXTENDS Naturals, FiniteSets

CONSTANTS
  ToastOptions,   \* what callers say of an item, in any call
  ToastLimit,     \* the items shown (5 in the code)
  MaxToasts,      \* bound: items added
  MaxUpdates      \* bound: updates

Unsaid      == "unsaid"     \* a field that the caller leaves out
DefaultTime == "default"    \* Base UI's own timeout
Never       == "never"      \* timeout 0

Fields == [type : {Unsaid, "success", "warning", "error", "info", "loading", "custom"},
           priority : {Unsaid, "low", "high"}, timeout : {Unsaid, Never, "short"},
           actionProps : BOOLEAN, dismissible : {Unsaid, "true", "false"}]

ASSUME ToastAssumptions ==
  /\ ToastOptions \subseteq Fields /\ ToastLimit \in Nat \ {0}
  /\ MaxToasts \in Nat /\ MaxUpdates \in Nat

VARIABLES
  toasts,     \* the manager's items, by number; a higher one is newer
  added, updates

toastVars == <<toasts, added, updates>>

\* ownPriority, reTimed and promised are history: the caller named the
\* priority; an update or a promise's end left the action of the item unsaid
\* and gave it another time; the item follows a promise.
Items == [type : {Unsaid, "success", "warning", "error", "info", "loading", "custom"},
          priority : {"low", "high"}, timeout : {DefaultTime, Never, "short"},
          actionProps : BOOLEAN, dismissible : {Unsaid, "true", "false"},
          ownPriority : BOOLEAN, reTimed : BOOLEAN, promised : BOOLEAN, open : BOOLEAN]

ToastTypeOK ==
  /\ added \in 0 .. MaxToasts /\ updates \in 0 .. MaxUpdates
  /\ DOMAIN toasts \subseteq 1 .. added
  /\ \A n \in DOMAIN toasts : toasts[n] \in Items

ToastInit == toasts = <<>> /\ added = 0 /\ updates = 0

-----------------------------------------------------------------------------
(* The rules *)

\* What is not one of the types with a look of their own is the plain one.
getToastType(t) ==
  IF t \in {"success", "warning", "error", "info", "loading"} THEN t ELSE "default"

assertiveToastTypes == {"warning", "error"}

\* A type that is named brings its priority, unless the caller has one.
priorityOf(o) ==
  IF o.priority = Unsaid /\ o.type # Unsaid
    THEN IF getToastType(o.type) \in assertiveToastTypes THEN "high" ELSE "low"
    ELSE o.priority

\* Mutant: a time that the caller gives stands.
timeoutDefault(o) == IF o.actionProps /\ o.timeout = Unsaid THEN Never ELSE o.timeout

\* "it overrides an explicit `timeout` rather than deferring to it"
\* (toast.tsx:95).
timeoutOf(o) == IF o.actionProps THEN Never ELSE o.timeout

withToastA11yDefaults(o) ==
  [o EXCEPT !.priority = priorityOf(o), !.timeout = timeoutOf(o)]

\* One state of a promise.  A string is a description and says nothing else.
withPromiseStateA11yDefaults(o) == withToastA11yDefaults(o)

-----------------------------------------------------------------------------
(* Base UI's manager *)

Said(new, old) == IF new = Unsaid THEN old ELSE new

\* Only what the patch says is merged onto the item.
Merged(item, o, patch) ==
  [type        |-> Said(patch.type, item.type),
   priority    |-> Said(patch.priority, item.priority),
   timeout     |-> Said(patch.timeout, item.timeout),
   actionProps |-> item.actionProps \/ patch.actionProps,
   dismissible |-> Said(patch.dismissible, item.dismissible),
   ownPriority |-> o.priority # Unsaid \/ (item.ownPriority /\ o.type = Unsaid),
   reTimed     |-> /\ ~patch.actionProps
                   /\ item.reTimed \/ (item.actionProps /\ o.timeout # Unsaid),
   promised    |-> item.promised,
   open        |-> item.open]

NewItem == [type |-> Unsaid, priority |-> "low", timeout |-> DefaultTime,
            actionProps |-> FALSE, dismissible |-> Unsaid, ownPriority |-> FALSE,
            reTimed |-> FALSE, promised |-> FALSE, open |-> FALSE]

Added(item) ==
  /\ added < MaxToasts /\ added' = added + 1
  /\ toasts' = [n \in DOMAIN toasts \cup {added'} |-> IF n = added' THEN item ELSE toasts[n]]

Without(n) == [m \in DOMAIN toasts \ {n} |-> toasts[m]]

-----------------------------------------------------------------------------
(* The wrapped manager *)

add(o) ==
  /\ Added(Merged(NewItem, o, withToastA11yDefaults(o)))
  /\ UNCHANGED updates

update(n, o) ==
  /\ n \in DOMAIN toasts /\ updates < MaxUpdates /\ updates' = updates + 1
  /\ toasts' = [toasts EXCEPT ![n] = Merged(@, o, withToastA11yDefaults(o))]
  /\ UNCHANGED added

\* The item of a promise, while it is pending.
promise(o) ==
  /\ Added([Merged(NewItem, o, withPromiseStateA11yDefaults(o))
              EXCEPT !.type = "loading", !.promised = TRUE, !.open = TRUE])
  /\ UNCHANGED updates

\* The promise ends; if its item is still there it is updated, once.  A state
\* that says no time may put the item back to the default one.
promiseEnds(n, o) ==
  /\ n \in DOMAIN toasts /\ toasts[n].open
  /\ LET patch == withPromiseStateA11yDefaults(o)
         item  == Merged(toasts[n], o, patch)
         times == {item.timeout} \cup IF patch.timeout = Unsaid THEN {DefaultTime} ELSE {}
     IN \E outcome \in {"success", "error"}, time \in times :
          toasts' = [toasts EXCEPT ![n] =
            [item EXCEPT !.type = outcome, !.timeout = time, !.open = FALSE,
                         !.reTimed = @ \/ (item.actionProps /\ ~patch.actionProps)]]
  /\ UNCHANGED <<added, updates>>

\* The timer of an item; an item that loads has none.
timed(item) == item.timeout # Never /\ item.type # "loading"

timesOut(n) ==
  /\ n \in DOMAIN toasts /\ timed(toasts[n])
  /\ toasts' = Without(n) /\ UNCHANGED <<added, updates>>

-----------------------------------------------------------------------------
(* What is rendered *)

\* Toaster: the newest items are shown, those behind them wait.
shownToasts == {n \in DOMAIN toasts : Cardinality({m \in DOMAIN toasts : m > n}) < ToastLimit}

\* ToastList: the close control.
closable(item) == item.actionProps \/ item.dismissible # "false"

\* The user's way out.
closeToast(n) ==
  /\ n \in shownToasts /\ closable(toasts[n])
  /\ toasts' = Without(n) /\ UNCHANGED <<added, updates>>

ToastNext ==
  \/ \E o \in ToastOptions : add(o) \/ promise(o)
  \/ \E n \in 1 .. MaxToasts, o \in ToastOptions : update(n, o) \/ promiseEnds(n, o)
  \/ \E n \in 1 .. MaxToasts : timesOut(n) \/ closeToast(n)

-----------------------------------------------------------------------------
(* Properties *)

\* "a toast carrying an action never auto-dismisses, so the action cannot
\* disappear before it is used" (toast.tsx:93), whatever the order of its
\* updates.  The one exception is the documented one, an update that gives a
\* time and does not restate the action: it "is not re-checked" (toast.tsx:103).
ActionWaits ==
  \A n \in DOMAIN toasts :
    (toasts[n].actionProps /\ ~toasts[n].reTimed) => ~timed(toasts[n])

\* "An action must never be the only way out of a toast" (toast.tsx:496): what
\* its timer will not close can be closed by its user as soon as it is shown,
\* though some update says that it cannot be dismissed.
ActionHasWayOut ==
  \A n \in shownToasts :
    (toasts[n].actionProps /\ toasts[n].timeout = Never) => closable(toasts[n])

\* Warnings and errors interrupt, and nothing else does, though updates change
\* an item's type and others say nothing of it; the caller may ask otherwise.
\* Items of promises are left out: Base UI names their outcome's type after
\* the rule has looked for one.
AlarmsInterrupt ==
  \A n \in DOMAIN toasts :
    LET item == toasts[n] IN
    (~item.ownPriority /\ ~item.promised) =>
      (item.priority = "high" <=> item.type \in {"warning", "error"})

\* A toast's action and its alarm reach their user, through any sequence of
\* updates, and neither traps them.
ToastsAreAccessible == ActionWaits /\ ActionHasWayOut /\ AlarmsInterrupt

ToastSpec == ToastInit /\ [][ToastNext]_toastVars
=============================================================================
