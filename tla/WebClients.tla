----------------------------- MODULE WebClients -----------------------------
(***************************************************************************)
(* The two web clients side by side: the key manager's page (KeyPortal),   *)
(* the look both have (Appearance), and the usage console's frame, polling *)
(* pages, live rows and notifications (ConsoleShell, SpendView,            *)
(* ReceiptRows, Toasts).  The parts share no state, so nothing that one    *)
(* does can meet another: a behaviour follows one of them while the others *)
(* wait at their start.                                                    *)
(***************************************************************************)
EXTENDS KeyPortal, Appearance, ConsoleShell, SpendView, ReceiptRows, Toasts

VARIABLE part   \* the part that is followed

webVars == <<part, portalVars, lookVars, shellVars, spendVars, rowsVars, toastVars>>

WebInit ==
  /\ part \in {"portal", "look", "shell", "spend", "rows", "toasts"}
  /\ PortalInit /\ LookInit /\ ShellInit /\ SpendInit /\ RowsInit /\ ToastInit
  /\ part # "look" => stored = NoMode /\ ~systemDark
  /\ part # "shell" => browser = CHOOSE b \in Browsers : TRUE
  /\ part # "spend" => dataMode = "mock"
  /\ part # "rows" => rowsMode = "mock"

\* What waits while p is followed.
Waits(p) ==
  /\ p # "portal" => UNCHANGED portalVars
  /\ p # "look" => UNCHANGED lookVars
  /\ p # "shell" => UNCHANGED shellVars
  /\ p # "spend" => UNCHANGED spendVars
  /\ p # "rows" => UNCHANGED rowsVars
  /\ p # "toasts" => UNCHANGED toastVars

WebNext ==
  /\ UNCHANGED part
  /\ \/ part = "portal" /\ PortalNext
     \/ part = "look" /\ LookNext
     \/ part = "shell" /\ ShellNext
     \/ part = "spend" /\ SpendNext
     \/ part = "rows" /\ RowsNext
     \/ part = "toasts" /\ ToastNext
  /\ Waits(part)

\* A part that waits has nothing to be fair to.
WebSpec == WebInit /\ [][WebNext]_webVars /\ PortalFairness /\ SpendFairness

\* Each part keeps within its types: among them that no stored theme preference,
\* toast timeout or answer of an effect that has ended is taken as it is.
WebTypeOK ==
  PortalTypeOK /\ LookTypeOK /\ ShellTypeOK /\ SpendTypeOK /\ RowsTypeOK /\ ToastTypeOK
=============================================================================
