----------------------------- MODULE Workspace -----------------------------
(***************************************************************************)
(* What the SQL editor keeps in localStorage: its tabs, the history of     *)
(* successful runs and the saved queries (web/src/pages/QueryEditor.tsx,   *)
(* editor/storage.ts, api/saved-queries.ts).  The storage is shared with   *)
(* the other windows of the browser, which nobody is notified of; runs     *)
(* outlive the component that started them.  A word stands for a query     *)
(* with its parameters.                                                    *)
(***************************************************************************)
EXTENDS Naturals, Sequences, FiniteSets, SequencesExt

CONSTANTS
    Words,      \* queries
    Names,      \* of saved queries
    TabIds,     \* bound: tabs that the editor may have
    Elsewhere,  \* the tab of another window
    SavedIds,   \* bound: saved queries
    MaxHistory, \* MAX_HISTORY
    MaxRuns     \* bound: runs under way

VARIABLES
    connected, \* the property that App passes down
    ui,        \* the component's state
    req,       \* runs under way
    disk       \* localStorage

vars == <<connected, ui, req, disk>>

IdsOf(tabs) == {tabs[i].id : i \in DOMAIN tabs}
Of(tabs, id) == CHOOSE i \in DOMAIN tabs : tabs[i].id = id
Tab(id, word) == [id |-> id, sql |-> word]
NamesOf(saved) == {q.name : q \in saved}

\* What a component starts with.
Mounted(d) == [tabs |-> d.tabs, active |-> d.active, history |-> d.history, saved |-> d.saved]

\* The effect of the tabs and of the active one; the results, the running
\* flag and the detached job of a tab are not stored.
Persisted(u) == [disk EXCEPT !.tabs = u.tabs, !.active = u.active]

\* Without a stored tab there is an empty one.
Init ==
    /\ connected \in BOOLEAN
    /\ \E id \in TabIds, word \in Words :
         disk = [tabs |-> <<Tab(id, word)>>, active |-> id, history |-> <<>>, saved |-> {}]
    /\ ui = Mounted(disk)
    /\ req = {}

-----------------------------------------------------------------------------
(* Tabs                                                                    *)

Active == Of(ui.tabs, ui.active)
Sql == ui.tabs[Active].sql

\* A change of the tabs and its effect.
Change(u) ==
    /\ ui' = u
    /\ disk' = Persisted(u)
    /\ UNCHANGED <<connected, req>>

\* Typing, a suggestion of the advisor, the formatter, an entry of the
\* history or of the saved queries.
SetSQLText(word) ==
    /\ connected
    /\ Change([ui EXCEPT !.tabs[Active].sql = word])

\* Another page, or a shared link, sends a query to the active tab, also
\* while the page is not connected.
Receive(word) == Change([ui EXCEPT !.tabs[Active].sql = word])

AddTab(word) ==
    /\ connected
    /\ \E id \in TabIds \ IdsOf(ui.tabs) :
         Change([ui EXCEPT !.tabs = Append(@, Tab(id, word)), !.active = id])

\* Mutant: the active tab is closed and stays active.
CloseKeeps(u, i) == [u EXCEPT !.tabs = RemoveAt(@, i)]

\* The tab that takes the place of the active one, or else the last.
Closed(u, i) ==
    LET next == RemoveAt(u.tabs, i)
        at == IF i <= Len(next) THEN i ELSE Len(next)
    IN  [u EXCEPT !.tabs = next,
                  !.active = IF @ = u.tabs[i].id THEN next[at].id ELSE @]

CloseTab(i) ==
    /\ connected /\ Len(ui.tabs) > 1 /\ i \in DOMAIN ui.tabs
    /\ Change(Closed(ui, i))

Activate(i) ==
    /\ connected /\ i \in DOMAIN ui.tabs
    /\ Change([ui EXCEPT !.active = ui.tabs[i].id])

-----------------------------------------------------------------------------
(* History                                                                 *)

Run ==
    /\ connected /\ Cardinality(req) < MaxRuns
    /\ req' = req \union {[sql |-> Sql, mounted |-> TRUE]}
    /\ UNCHANGED <<connected, ui, disk>>

\* The oldest entries are dropped.
Newest(list) == SubSeq(list, 1, IF Len(list) < MaxHistory THEN Len(list) ELSE MaxHistory)

\* Mutant: the newest entry of the component's own list is not repeated.
AddedToOwn(word) ==
    IF ui.history # <<>> /\ ui.history[1] = word THEN disk.history
    ELSE Newest(<<word>> \o disk.history)

\* The newest entry of the storage is not repeated.
Added(word) ==
    IF disk.history # <<>> /\ disk.history[1] = word THEN disk.history
    ELSE Newest(<<word>> \o disk.history)

\* A run that ends, not all of it in errors, enters the history even if its
\* component is gone; the list that is shown is read again.
RunEnds(r) ==
    /\ disk' = [disk EXCEPT !.history = Added(r.sql)]
    /\ ui' = IF r.mounted THEN [ui EXCEPT !.history = disk'.history] ELSE ui
    /\ req' = req \ {r}
    /\ UNCHANGED connected

RunFails(r) ==
    /\ req' = req \ {r}
    /\ UNCHANGED <<connected, ui, disk>>

ClearHistory ==
    /\ connected /\ ui.history # <<>>
    /\ ui' = [ui EXCEPT !.history = <<>>]
    /\ disk' = [disk EXCEPT !.history = <<>>]
    /\ UNCHANGED <<connected, req>>

-----------------------------------------------------------------------------
(* Saved queries                                                           *)

\* A change of the storage, after which the list that is shown is read again.
Store(saved) ==
    /\ disk' = [disk EXCEPT !.saved = saved]
    /\ ui' = [ui EXCEPT !.saved = saved]
    /\ UNCHANGED <<connected, req>>

Free(saved) == SavedIds \ {q.id : q \in saved}
Entry(id, name) == [id |-> id, name |-> name]

\* Names may repeat.
Save(name) ==
    /\ connected /\ Free(disk.saved) # {}
    /\ Store(disk.saved \union {Entry(CHOOSE id \in Free(disk.saved) : TRUE, name)})

\* What the list shows may be gone from the storage.
Delete(q) ==
    /\ connected /\ q \in ui.saved
    /\ Store({x \in disk.saved : x.id # q.id})

\* Mutant: the names that the component shows.
MissingFromList(file) == file \ NamesOf(ui.saved)

Missing(file) == file \ NamesOf(disk.saved)

\* The entries of a file whose names are not there yet.
Import(file) ==
    /\ connected /\ file # {}
    /\ Cardinality(Missing(file)) <= Cardinality(Free(disk.saved))
    /\ \E id \in [Missing(file) -> Free(disk.saved)] :
         /\ \A n, m \in Missing(file) : id[n] = id[m] => n = m
         /\ Store(disk.saved \union {Entry(id[n], n) : n \in Missing(file)})

-----------------------------------------------------------------------------
(* The page and the other windows                                          *)

\* Another route and back, or a reload: runs end without the component.
Remount ==
    /\ ui' = Mounted(disk)
    /\ req' = {[r EXCEPT !.mounted = FALSE] : r \in req}
    /\ UNCHANGED <<connected, disk>>

\* Another window stores its tabs over this one's, runs, saves and deletes.
OtherWindow ==
    /\ \/ \E w \in Words :
            disk' = [disk EXCEPT !.tabs = <<Tab(Elsewhere, w)>>, !.active = Elsewhere]
       \/ \E w \in Words : disk' = [disk EXCEPT !.history = Added(w)]
       \/ \E n \in Names, id \in Free(disk.saved) :
            disk' = [disk EXCEPT !.saved = @ \union {Entry(id, n)}]
       \/ \E q \in disk.saved : disk' = [disk EXCEPT !.saved = @ \ {q}]
    /\ UNCHANGED <<connected, ui, req>>

Connect ==
    /\ connected' = ~ connected
    /\ UNCHANGED <<ui, req, disk>>

Next ==
    \/ Run \/ ClearHistory \/ Remount \/ OtherWindow \/ Connect
    \/ \E w \in Words : SetSQLText(w) \/ Receive(w) \/ AddTab(w)
    \/ \E i \in 1 .. Cardinality(TabIds) + 1 : CloseTab(i) \/ Activate(i)
    \/ \E r \in req : RunEnds(r) \/ RunFails(r)
    \/ \E n \in Names : Save(n)
    \/ \E q \in ui.saved : Delete(q)
    \/ \E file \in SUBSET Names : Import(file)

Spec == Init /\ [][Next]_vars

-----------------------------------------------------------------------------
(* Properties                                                              *)

\* The editor always has its active tab, and so has what a later component
\* restores, whichever tabs were closed and whichever window stored last.
ActiveIsOpen == ui.active \in IdsOf(ui.tabs) /\ disk.active \in IdsOf(disk.tabs)

\* The history keeps within its limit and repeats no entry in a row, whether
\* the runs of this window, of an earlier component or of another window
\* ended last.
HistoryHasNoRepeats ==
    /\ Len(disk.history) <= MaxHistory
    /\ \A i \in 1 .. Len(disk.history) - 1 : disk.history[i] # disk.history[i + 1]

\* An import keeps what is saved and adds no name that is, although another
\* window may have changed the list since it was shown.
ImportStep ==
    \A file \in SUBSET Names :
        Import(file) =>
            /\ disk.saved \subseteq disk'.saved
            /\ \A q \in disk'.saved \ disk.saved : q.name \in file \ NamesOf(disk.saved)
            /\ file \subseteq NamesOf(disk'.saved)
=============================================================================
