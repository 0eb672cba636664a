------------------------------ MODULE Session ------------------------------
(***************************************************************************)
(* How the web app connects, web/src/main.tsx, components/Layout.tsx,      *)
(* components/AuthDialog.tsx, api/connection.ts and api/client.ts: the     *)
(* operator's default of /api/config, the saved connection, the form, the  *)
(* headers of every request, the access token, and what of it a reload of  *)
(* the page keeps.                                                         *)
(***************************************************************************)
EXTENDS Naturals, FiniteSets

CONSTANTS
    Servers,     \* ClickHouse servers
    Localhost,   \* the server of DEFAULT_CONNECTION
    Tokens,      \* what X-Auth-Token may be
    NoToken,     \* ... when there is none
    MaxTests     \* bound: connection tests under way when one is sent

VARIABLES
    backend,  \* the operator's default connection and the token it requires
    disk,     \* localStorage and sessionStorage
    headers,  \* the connection headers, if there are any
    app,      \* the state of App
    form,     \* the state of Layout's connection bar
    dialog,   \* the AuthDialog is open
    req       \* requests under way

vars == <<backend, disk, headers, app, form, dialog, req>>

\* The secret is whether a password was typed.
Params == [server : Servers, secret : BOOLEAN]
Default == [server |-> Localhost, secret |-> FALSE]

\* The password is never in localStorage; the session has it.
Loaded(d) ==
    IF d.saved = {} THEN Default
    ELSE [server |-> CHOOSE s \in d.saved : TRUE, secret |-> d.secret]

\* Mutant: the connection is not saved with its headers.
NotSaved(d, p) == d

Saved(d, p) == [d EXCEPT !.saved = {p.server}, !.secret = p.secret]

Sent(what, p, d) == [what |-> what, params |-> p, token |-> d.token]
Accepted(r) == backend.token \in {NoToken, r.token}
Tests == {r \in req : r.what # "config"}

-----------------------------------------------------------------------------
(* The page                                                                *)

\* The headers are primed from a saved connection only; the effect of App
\* keeps what was saved by then, and asks for the operator's default.
Page(d) ==
    /\ disk' = d
    /\ headers' = IF d.saved = {} THEN {} ELSE {Loaded(d)}
    /\ app' = [connected |-> FALSE, default |-> {},
               saved |-> IF d.saved = {} THEN {} ELSE {Loaded(d)}]
    /\ form' = [params |-> Loaded(d), editing |-> TRUE, testing |-> FALSE, error |-> FALSE]
    /\ dialog' = FALSE
    /\ req' = {Sent("config", Default, d)}

\* The operator sets a default server, with its password or without, or none.
Backends ==
    [default : {{}} \union {{d} : d \in [server : Servers, has : BOOLEAN]}, token : Tokens]

\* What an earlier session of the browser left.
FirstDisks ==
    [saved : {{}} \union {{s} : s \in Servers}, secret : {FALSE}, token : Tokens, zone : {{}}]

Init ==
    /\ backend \in Backends
    /\ disk \in FirstDisks
    /\ headers = IF disk.saved = {} THEN {} ELSE {Loaded(disk)}
    /\ app = [connected |-> FALSE, default |-> {},
              saved |-> IF disk.saved = {} THEN {} ELSE {Loaded(disk)}]
    /\ form = [params |-> Loaded(disk), editing |-> TRUE, testing |-> FALSE, error |-> FALSE]
    /\ dialog = FALSE
    /\ req = {Sent("config", Default, disk)}

Reload ==
    /\ Page(disk)
    /\ UNCHANGED backend

-----------------------------------------------------------------------------
(* The operator's default                                                  *)

\* tryConnect: the headers at once, the connection when the test is answered.
TryConnect(p, r) ==
    /\ headers' = {p}
    /\ disk' = Saved(disk, p)
    /\ req' = (req \ {r}) \union {Sent("auto", p, disk)}

\* What was saved when the page was loaded.
TrySaved(r) ==
    IF app.saved = {} THEN UNCHANGED <<headers, disk>> /\ req' = req \ {r}
    ELSE TryConnect(CHOOSE p \in app.saved : TRUE, r)

\* A saved connection that is not the untouched default is respected.
ChoseExplicitly == \E p \in app.saved : p.server # Localhost

\* Otherwise the form and the ref take the operator's, which is tried if the
\* server has its password.
ConfigArrives(r) ==
    /\ r.what = "config" /\ Accepted(r)
    /\ IF backend.default = {} \/ ChoseExplicitly
       THEN TrySaved(r) /\ UNCHANGED <<app, form>>
       ELSE LET dc == CHOOSE c \in backend.default : TRUE
                p == [server |-> dc.server, secret |-> FALSE]
            IN  /\ app' = [app EXCEPT !.default = {p}]
                /\ form' = [form EXCEPT !.params = p]
                /\ IF dc.has THEN TryConnect(p, r) ELSE TrySaved(r)
    /\ UNCHANGED <<backend, dialog>>

\* Also a refusal for want of the token, which opens the dialog.
ConfigFails(r) ==
    /\ r.what = "config"
    /\ TrySaved(r)
    /\ dialog' = (dialog \/ ~ Accepted(r))
    /\ UNCHANGED <<backend, app, form>>

-----------------------------------------------------------------------------
(* Tests of a connection                                                   *)

\* The zone of a server is kept when it names one, and else the one before.
Zone(r) == {disk.zone, {r.params.server}}

\* The bar closes once a connection is established.
Established(f) == IF app.connected THEN f ELSE [f EXCEPT !.editing = FALSE]

AutoAnswers(r) ==
    /\ r.what = "auto" /\ Accepted(r)
    /\ \E zone \in Zone(r) : disk' = [disk EXCEPT !.zone = zone]
    /\ app' = [app EXCEPT !.connected = TRUE]
    /\ form' = Established(form)
    /\ req' = req \ {r}
    /\ UNCHANGED <<backend, headers, dialog>>

AutoFails(r) ==
    /\ r.what = "auto"
    /\ app' = [app EXCEPT !.connected = FALSE]
    /\ dialog' = (dialog \/ ~ Accepted(r))
    /\ req' = req \ {r}
    /\ UNCHANGED <<backend, disk, headers, form>>

\* The button is disabled while a test is under way, the Enter key is not.
HandleConnect ==
    /\ form.editing
    /\ Cardinality(Tests) < MaxTests
    /\ form' = [form EXCEPT !.testing = TRUE, !.error = FALSE]
    /\ headers' = {form.params}
    /\ disk' = Saved(disk, form.params)
    /\ req' = req \union {Sent("form", form.params, disk)}
    /\ UNCHANGED <<backend, app, dialog>>

\* The untouched default gives way to the operator's.
FormAnswers(r) ==
    LET p == IF r.params = Default /\ app.default # {} THEN CHOOSE d \in app.default : TRUE
             ELSE r.params
    IN  /\ r.what = "form" /\ Accepted(r)
        /\ \E zone \in Zone(r) : disk' = [Saved(disk, p) EXCEPT !.zone = zone]
        /\ headers' = {p}
        /\ app' = [app EXCEPT !.connected = TRUE]
        /\ form' = [form EXCEPT !.params = p, !.editing = FALSE, !.testing = FALSE]
        /\ req' = req \ {r}
        /\ UNCHANGED <<backend, dialog>>

\* Mutant: the catch returns before the finally.
FormFailsTesting(r) ==
    /\ r.what = "form"
    /\ form' = [form EXCEPT !.error = TRUE]
    /\ dialog' = (dialog \/ ~ Accepted(r))
    /\ req' = req \ {r}
    /\ UNCHANGED <<backend, disk, headers, app>>

FormFails(r) ==
    /\ r.what = "form"
    /\ form' = [form EXCEPT !.error = TRUE, !.testing = FALSE]
    /\ dialog' = (dialog \/ ~ Accepted(r))
    /\ req' = req \ {r}
    /\ UNCHANGED <<backend, disk, headers, app>>

-----------------------------------------------------------------------------
(* The user                                                                *)

Edit(p) ==
    /\ form.editing
    /\ form' = [form EXCEPT !.params = p]
    /\ UNCHANGED <<backend, disk, headers, app, dialog, req>>

OpenForm ==
    /\ ~ app.connected /\ ~ form.editing
    /\ form' = [form EXCEPT !.editing = TRUE]
    /\ UNCHANGED <<backend, disk, headers, app, dialog, req>>

\* Mutant: the password stays in the session.
DisconnectKeeps ==
    /\ app.connected /\ ~ form.editing
    /\ headers' = {}
    /\ app' = [app EXCEPT !.connected = FALSE]
    /\ form' = [form EXCEPT !.editing = TRUE]
    /\ UNCHANGED <<backend, disk, dialog, req>>

Disconnect ==
    /\ app.connected /\ ~ form.editing
    /\ headers' = {}
    /\ disk' = [disk EXCEPT !.secret = FALSE]
    /\ app' = [app EXCEPT !.connected = FALSE]
    /\ form' = [form EXCEPT !.editing = TRUE]
    /\ UNCHANGED <<backend, dialog, req>>

CloseDialog ==
    /\ dialog
    /\ dialog' = FALSE
    /\ UNCHANGED <<backend, disk, headers, app, form, req>>

\* Mutant: the page goes on with the new token.
SubmitStays(token) ==
    /\ dialog
    /\ dialog' = FALSE
    /\ disk' = [disk EXCEPT !.token = token]
    /\ UNCHANGED <<backend, headers, app, form, req>>

\* Save and reload; an empty one forgets the token.
Submit(token) ==
    /\ dialog
    /\ Page([disk EXCEPT !.token = token])
    /\ UNCHANGED backend

Answers(r) ==
    \/ ConfigArrives(r) \/ ConfigFails(r)
    \/ AutoAnswers(r) \/ AutoFails(r) \/ FormAnswers(r) \/ FormFails(r)

Next ==
    \/ Reload \/ HandleConnect \/ OpenForm \/ Disconnect \/ CloseDialog
    \/ \E p \in Params : Edit(p)
    \/ \E token \in Tokens : Submit(token)
    \/ \E r \in req : Answers(r)

Spec == Init /\ [][Next]_vars

-----------------------------------------------------------------------------
(* Properties                                                              *)

\* A reload of the page goes on with the headers that the page sends, however
\* the automatic and the manual attempts overlapped.
ReloadKeepsHeaders == headers # {} => headers = {Loaded(disk)}

\* Once the page is disconnected the password is in no storage, from which a
\* reload would send it.
DisconnectForgets == headers = {} => ~ disk.secret

\* What is under way was sent with the token that is saved: no request that a
\* new token would have let pass is left to fail with the old one.
RequestsCarryToken == \A r \in req : r.token = disk.token

\* The bar says that it tests only while a test is under way, and Connect is
\* offered again after the last.
TestingEnds == form.testing => \E r \in req : r.what = "form"
=============================================================================
