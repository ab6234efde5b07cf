---------------------------- MODULE ConsoleShell ----------------------------
(***************************************************************************)
(* The usage console around its pages (usage-console/console/src): the     *)
(* address with its filters, open receipt and shared range, the range      *)
(* picker and what the browser keeps of it, the command palette, the links *)
(* between pages and the receipts the tab can show.                        *)
(*                                                                         *)
(* Tabs of different browsers share the links their users pass on, and     *)
(* nothing else: the model follows one tab at a time, from browser to      *)
(* browser.  An event, with the render and the effects it causes, is one   *)
(* step.                                                                   *)
(***************************************************************************)
EXTENDS Naturals, Sequences

CONSTANTS
  Browsers,           \* each with its own storage
  Ranges,             \* timeRanges
  Filters,            \* the sets of filters a Traffic link may carry
  Receipts, Seed,     \* the server's receipts, and those hydrate() loads
  MaxEntries,         \* bound: entries of a tab's history
  MaxVisits           \* bound: pages opened

None == "none"
Junk == "junk"        \* a range that is none: mistyped, or left in storage
DefaultRange == "24h"
Pages == {"traffic", "other"}   \* Overview, Spend and Keys are alike here

ASSUME ShellAssumptions ==
  /\ DefaultRange \in Ranges /\ Ranges \cap {None, Junk} = {} /\ None \in Filters
  /\ Seed \subseteq Receipts /\ None \notin Receipts
  /\ MaxEntries \in Nat /\ MaxVisits \in Nat

VARIABLES
  savedRange,   \* gw:range in each browser's localStorage
  browser,      \* the browser whose tab is followed
  tab,
  link,         \* the link last copied, or typed
  visits

shellVars == <<savedRange, browser, tab, link, visits>>

Address == [page : Pages, filters : Filters, receipt : Receipts \cup {None},
            range : Ranges \cup {None, Junk}]

\* What the picker's range can be: usePersisted takes what storage has as it is.
Picked == Ranges \cup {Junk}

AddressOf(page, filters) == [page |-> page, filters |-> filters, receipt |-> None,
                      range |-> None]

\* meant: history, the view the link was copied from.
Link(url, range) == [url |-> url, meant |-> [filters |-> url.filters, range |-> range]]

NoLink == Link(AddressOf("other", None), None)

\* known is byId; from and via are history: the link the tab still shows, and
\* where the open receipt was asked for.
Shut == [at |-> "shut", entries |-> <<>>, range |-> DefaultRange, known |-> {},
         palette |-> FALSE, from |-> NoLink, via |-> None]

url == tab.entries[Len(tab.entries)]

ShellTypeOK ==
  /\ savedRange \in [Browsers -> Picked \cup {None}] /\ browser \in Browsers
  /\ link.url \in Address
  /\ tab.at \in {"shut", "loading", "failed", "open"}
  /\ tab.at = "shut" <=> tab.entries = <<>>
  /\ \A i \in 1 .. Len(tab.entries) : tab.entries[i] \in Address
  /\ tab.range \in Picked /\ tab.known \subseteq Receipts
  /\ tab.palette => tab.at = "open"

\* Storage may hold a range that this console has not, or has no more.
ShellInit ==
  /\ savedRange \in [Browsers -> {None, Junk}] /\ browser \in Browsers
  /\ tab = Shut /\ link = NoLink /\ visits = 0

-----------------------------------------------------------------------------
(* The address *)

\* Mutant: the cleaned address is a new entry.
settlePushes(t) ==
  LET here == t.entries[Len(t.entries)] IN
  IF here.range = None THEN t
  ELSE [t EXCEPT !.range = IF here.range \in Ranges THEN here.range ELSE @,
                 !.entries = Append(@, [here EXCEPT !.range = None])]

\* The effect on urlRange, after every change of the address: a valid range is
\* taken over, and any range leaves the address, without a new entry.
settle(t) ==
  LET here == t.entries[Len(t.entries)] IN
  IF here.range = None THEN t
  ELSE [t EXCEPT !.range = IF here.range \in Ranges THEN here.range ELSE @,
                 !.entries = [@ EXCEPT ![Len(@)].range = None]]

Pushed(t, u) == settle([t EXCEPT !.entries = Append(@, u), !.palette = FALSE])

Replaced(t, u) == settle([t EXCEPT !.entries = [@ EXCEPT ![Len(@)] = u]])

\* The user has moved on from what the link showed.
MovedOn(t) == [t EXCEPT !.from = NoLink]

\* A range that changes is written through to storage (usePersisted).
Becomes(t) ==
  /\ Len(t.entries) <= MaxEntries
  /\ tab' = t
  /\ savedRange' = IF t.range = tab.range THEN savedRange
                   ELSE [savedRange EXCEPT ![browser] = t.range]

IsOpen == tab.at = "open"

-----------------------------------------------------------------------------
(* Opening the console *)

\* The link is opened in place of what the tab had; the range is the saved one,
\* whatever that is, until the address says otherwise.
Visit(b) ==
  /\ visits < MaxVisits /\ visits' = visits + 1
  /\ browser' = b
  /\ tab' = [Shut EXCEPT !.at = "loading", !.entries = <<link.url>>,
                         !.range = IF savedRange[b] = None THEN DefaultRange
                                   ELSE savedRange[b],
                         !.from = link, !.via = "link"]
  /\ UNCHANGED <<savedRange, link>>

\* hydrate(): the catalog is loaded before the app is; one failed answer and
\* the page says that it cannot reach the control plane.
hydrate ==
  /\ tab.at = "loading"
  /\ \/ Becomes(settle([tab EXCEPT !.at = "open", !.known = Seed]))
     \/ tab' = [tab EXCEPT !.at = "failed"] /\ UNCHANGED savedRange
  /\ UNCHANGED <<browser, link, visits>>

-----------------------------------------------------------------------------
(* What the user does *)

setRange(r) ==
  /\ IsOpen /\ r \in Ranges
  /\ Becomes(MovedOn([tab EXCEPT !.range = r]))
  /\ UNCHANGED <<browser, link, visits>>

\* The sidebar, the palette's models and keys, and the links of the pages:
\* a new address, with nothing of the old one.
navigate(page, f) ==
  /\ IsOpen /\ (f # None => page = "traffic")
  /\ Becomes(MovedOn(Pushed(tab, AddressOf(page, f))))
  /\ UNCHANGED <<browser, link, visits>>

\* FilterMenu: a box that is checked or cleared, or "Clear" when one is checked.
\* There is no choice that leaves the filters as they are.
FilterMenu(current) == Filters \ {current}

setFilter(f) ==
  /\ IsOpen /\ url.page = "traffic" /\ f \in FilterMenu(url.filters)
  /\ Becomes(MovedOn(Replaced(tab, [url EXCEPT !.filters = f])))
  /\ UNCHANGED <<browser, link, visits>>

\* clearAll keeps the open receipt.
clearAll ==
  /\ IsOpen /\ url.page = "traffic" /\ url.filters # None
  /\ Becomes(MovedOn(Replaced(tab,
       [AddressOf("traffic", None) EXCEPT !.receipt = url.receipt])))
  /\ UNCHANGED <<browser, link, visits>>

Opened(r, via) ==
  [MovedOn(Pushed(tab, [url EXCEPT !.receipt = r])) EXCEPT !.via = via]

\* A row of Traffic or of Keys: the tab has seen it.
openReceipt(r) ==
  /\ IsOpen /\ r \in tab.known /\ url.receipt = None
  /\ Becomes(Opened(r, "row"))
  /\ UNCHANGED <<browser, link, visits>>

\* A result of the palette: a receipt the tab has, over whatever is open.  Keys
\* and models are links.
runResult(r) ==
  /\ IsOpen /\ tab.palette /\ r \in tab.known
  /\ Becomes(Opened(r, "row"))
  /\ UNCHANGED <<browser, link, visits>>

\* RelatedList, in an open receipt: rows asked of the server for the drawer.
openRelated(r) ==
  /\ IsOpen /\ url.receipt \in tab.known \ {r}
  /\ Becomes(Opened(r, "related"))
  /\ UNCHANGED <<browser, link, visits>>

\* "Open in Traffic", from a receipt over another page.
openInTraffic ==
  /\ IsOpen /\ url.receipt \in tab.known /\ url.page # "traffic"
  /\ Becomes(MovedOn(Pushed(tab,
       [AddressOf("traffic", None) EXCEPT !.receipt = url.receipt])))
  /\ UNCHANGED <<browser, link, visits>>

\* Closing pushes too: Back opens the receipt again.
closeReceipt ==
  /\ IsOpen /\ url.receipt # None
  /\ Becomes(MovedOn(Pushed(tab, [url EXCEPT !.receipt = None])))
  /\ UNCHANGED <<browser, link, visits>>

\* The browser's Back, within the console.
Back ==
  /\ IsOpen /\ Len(tab.entries) > 1
  /\ Becomes(MovedOn(settle([tab EXCEPT
       !.entries = SubSeq(@, 1, Len(@) - 1), !.via = "back", !.palette = FALSE])))
  /\ UNCHANGED <<browser, link, visits>>

\* Ctrl-K opens the palette; Escape closes it, as does running a result.
togglePalette ==
  /\ IsOpen
  /\ tab' = [tab EXCEPT !.palette = ~@]
  /\ UNCHANGED <<savedRange, browser, link, visits>>

\* Mutant: the link is the address, which has no range.
shareAddress ==
  /\ IsOpen /\ url.page = "traffic"
  /\ link' = Link([url EXCEPT !.receipt = None], tab.range)
  /\ UNCHANGED <<savedRange, browser, tab, visits>>

\* shareView: the link carries the range, and not the receipt.
shareView ==
  /\ IsOpen /\ url.page = "traffic"
  /\ link' = Link([url EXCEPT !.receipt = None, !.range = tab.range],
                  tab.range)
  /\ UNCHANGED <<savedRange, browser, tab, visits>>

\* "Copy link" of the drawer: the address as it stands, which has no range.
copyLink ==
  /\ IsOpen /\ url.receipt \in tab.known
  /\ link' = Link(url, None)
  /\ UNCHANGED <<savedRange, browser, tab, visits>>

\* A link is typed, with a range that is none.
MistypeRange ==
  /\ link.url.range \in Ranges
  /\ link' = Link([link.url EXCEPT !.range = Junk], None)
  /\ UNCHANGED <<savedRange, browser, tab, visits>>

\* A page of the list, or the stream, brings a receipt: it is remembered before
\* it is shown, and can be opened from then on.
remember(r) ==
  /\ IsOpen /\ url.page = "traffic" /\ r \notin tab.known
  /\ tab' = [tab EXCEPT !.known = @ \cup {r}]
  /\ UNCHANGED <<savedRange, browser, link, visits>>

ShellNext ==
  \/ \E b \in Browsers : Visit(b)
  \/ hydrate \/ clearAll \/ closeReceipt \/ Back \/ openInTraffic
  \/ togglePalette \/ shareView \/ copyLink \/ MistypeRange
  \/ \E r \in Ranges : setRange(r)
  \/ \E page \in Pages, f \in Filters : navigate(page, f)
  \/ \E f \in Filters : setFilter(f)
  \/ \E r \in Receipts : openReceipt(r) \/ runResult(r) \/ openRelated(r) \/ remember(r)

-----------------------------------------------------------------------------
(* Properties *)

\* "Filters and the time range are part of the link" (traffic.tsx:178): whoever
\* opens a shared view sees its filters, its range and no receipt, whatever
\* range the browser had saved, a range or not, until they change something.
\* (Shared with a range that is none, a view opens in the reader's own range.)
LinkOpensItsView ==
  IsOpen /\ tab.from.meant.range \in Ranges =>
    /\ tab.range = tab.from.meant.range
    /\ url.filters = tab.from.meant.filters
    /\ url.receipt = None

\* The picker is "the one source of truth" (app-state.tsx:269): the Back button
\* leads to the entry before, and brings back no range that a link once carried.
BackKeepsRange == [][
  Back => /\ Len(tab'.entries) = Len(tab.entries) - 1
          /\ tab'.range = tab.range]_shellVars

\* Changing or clearing the filters in place never closes the open receipt, nor
\* opens another.
FiltersKeepReceipt == [][
  (tab.at = "open" /\ tab'.at = "open" /\ Len(tab'.entries) = Len(tab.entries))
    => url'.receipt = url.receipt]_shellVars

\* The drawer finds the receipt it is opened for, unless a link or Back led to
\* it or it came from the list of related receipts, whose rows the tab does not
\* remember.
OpenReceiptIsFound ==
  IsOpen /\ url.receipt # None /\ tab.via = "row" => url.receipt \in tab.known

\* The address opens what it was made for: a shared view, or the receipt in it.
WhatIsOpenedIsShown == LinkOpensItsView /\ OpenReceiptIsFound

\* No step that changes one part of the address, or leaves it, changes another.
AddressKeepsView == BackKeepsRange /\ FiltersKeepReceipt
=============================================================================
