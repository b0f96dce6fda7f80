-------------------------------- MODULE RouteEditor --------------------------------
(* The administrators' route page and the saves it sends:                      *)
(* RouteManagementPanel.tsx with lib/routeSaveClient.ts. A page shows one      *)
(* editor; an editor that was cancelled goes on waiting for its save. A save   *)
(* whose request was not answered is looked up under its id, sent once more if *)
(* the backend never saw it, and kept under that id while nothing is known.    *)
EXTENDS RouteCatalog

CONSTANTS
    Pages,          \* route pages of administrators
    MaxEditors,     \* bound: editors opened
    MaxTroubles     \* bound: timeouts, crashes, refusals and leases that end

ASSUME RequestAssumption == "none" \notin Requests

VARIABLES
    editor,      \* each editor: its draft, its saveOperationRef, the save under way
    shown,       \* the editor a page shows, or 0
    sender,      \* the editor that sent a save, or 0
    told,        \* what the page said of a save
    troubles,    \* what went wrong so far
    erased       \* saves that succeeded before the route was last deleted

pageVars == <<editor, shown, sender, told, troubles, erased>>
editorVars == <<catalogVars, pageVars>>

Editors == 1..MaxEditors

\* ref: the operation a save of the same payload is sent under again; call: the
\* stage of saveRoute, its operation and its request.
NoCall == [at |-> "idle", id |-> "none", request |-> "none", payload |-> <<>>]
NoRef == [id |-> "none", payload |-> <<>>]
Unopened == [page |-> "none", mode |-> "none", version |-> 0, draft |-> "none", ref |-> NoRef, call |-> NoCall]

EditorInit ==
    /\ CatalogInit
    /\ editor = [n \in Editors |-> Unopened]
    /\ shown = [p \in Pages |-> 0]
    /\ sender = [i \in Saves |-> 0]
    /\ told = [i \in Saves |-> "nothing"]
    /\ erased = {}
    /\ troubles = 0

-----------------------------------------------------------------------------
\* The page.

Open(n, p, mode, version, draft) ==
    /\ shown[p] = 0
    /\ editor[n] = Unopened
    /\ n > 1 => editor[n - 1] # Unopened
    /\ editor' = [editor EXCEPT ![n] = [Unopened EXCEPT !.page = p, !.mode = mode, !.version = version, !.draft = draft]]
    /\ shown' = [shown EXCEPT ![p] = n]
    /\ UNCHANGED <<catalogVars, sender, told, troubles, erased>>

\* A listing that is behind opens the editor that was opened earlier.
OpenCreate(n, p) == \E s \in Shapes : Open(n, p, "create", 0, s)
OpenEdit(n, p) == Exists /\ Open(n, p, "edit", route.config, route.shape)

\* Stops are added, moved, renamed and removed, while a save is under way too.
Draw(n, s) ==
    /\ shown[editor[n].page] = n
    /\ editor[n].draft # s
    /\ editor' = [editor EXCEPT ![n].draft = s]
    /\ UNCHANGED <<catalogVars, shown, sender, told, troubles, erased>>

\* Its save is not aborted.
Cancel(p) ==
    /\ shown[p] # 0
    /\ shown' = [shown EXCEPT ![p] = 0]
    /\ UNCHANGED <<catalogVars, editor, sender, told, troubles, erased>>

Payload(n) == <<editor[n].mode, editor[n].version, editor[n].draft>>

\* newRouteSaveId; and a request with an operation leaves the page.
FreshSave == CHOOSE i \in Saves : sender[i] = 0
FreeRequest == CHOOSE r \in Requests : attempt[r] = NoAttempt
Put(r, i, p) ==
    /\ attempt' = [attempt EXCEPT ![r] = [NoAttempt EXCEPT !.at = "claiming", !.id = i, !.payload = p]]
    /\ UNCHANGED <<route, save, pin, bound>>

\* handleSave: the same operation for the same payload, until its outcome is
\* known. The button waits for the answer.
SaveDraft(n) ==
    /\ shown[editor[n].page] = n
    /\ editor[n].call = NoCall
    /\ editor[n].version < MaxVersion
    /\ \E r \in Requests : attempt[r] = NoAttempt
    /\ LET p == Payload(n)
           known == editor[n].ref.payload = p
           i == IF known THEN editor[n].ref.id ELSE FreshSave
           r == FreeRequest
       IN /\ known \/ \E free \in Saves : sender[free] = 0
          /\ Put(r, i, p)
          /\ editor' = [editor EXCEPT ![n].ref = [id |-> i, payload |-> p],
                                      ![n].call = [at |-> "putting", id |-> i, request |-> r, payload |-> p]]
          /\ sender' = [sender EXCEPT ![i] = n]
    /\ UNCHANGED <<shown, told, troubles, erased>>

\* Faulty: the editor the page shows is taken for the one that was saved.
ClosesShown(n, p) == shown[p] # 0
Closes(n, p) == shown[p] = n

\* The promise of saveRoute settles: handleSaved, or the catch of handleSave. An
\* answer with a status is an outcome (apiClient.ts), whatever it says of itself.
EndSave(n, said) ==
    /\ told' = [told EXCEPT ![editor[n].call.id] = said]
    /\ editor' = [editor EXCEPT ![n].call = NoCall, ![n].ref = IF said = "failed" THEN NoRef ELSE @]
    /\ shown' = IF said = "saved" /\ Closes(n, editor[n].page) THEN [shown EXCEPT ![editor[n].page] = 0] ELSE shown

Waiting(n) == editor[n].call.at \in {"putting", "again"}
Polling(n) == editor[n].call.at \in {"polling", "checking"}

\* The first request is looked up; a second one that is not answered is unknown.
Unanswered(n) ==
    IF editor[n].call.at = "putting"
    THEN /\ editor' = [editor EXCEPT ![n].call.at = "polling", ![n].call.request = "none"]
         /\ UNCHANGED <<shown, told>>
    ELSE EndSave(n, "unknown")

Hear(n, answer) ==
    IF answer = "processing"
    THEN /\ editor' = [editor EXCEPT ![n].call.at = "checking", ![n].call.request = "none"]
         /\ UNCHANGED <<shown, told>>
    ELSE EndSave(n, answer)

Trouble == troubles < MaxTroubles /\ troubles' = troubles + 1

\* The timeout of a request, or a broken connection.
TimeOut(n) ==
    /\ Waiting(n)
    /\ Unanswered(n)
    /\ Trouble
    /\ UNCHANGED <<catalogVars, sender, erased>>

\* reconcile: GET /api/routes/:id/save-operations/:saveId, until it is known.
Poll(n) ==
    /\ Polling(n)
    /\ LET i == editor[n].call.id IN
       \/ save[i].status = "succeeded" /\ EndSave(n, "saved") /\ UNCHANGED <<catalogVars, sender>>
       \/ save[i].status = "failed" /\ EndSave(n, "failed") /\ UNCHANGED <<catalogVars, sender>>
       \/ /\ save[i] = NoSave /\ editor[n].call.at = "polling"
          /\ \E r \in Requests : attempt[r] = NoAttempt
          /\ Put(FreeRequest, i, editor[n].call.payload)
          /\ editor' = [editor EXCEPT ![n].call.at = "again", ![n].call.request = FreeRequest]
          /\ UNCHANGED <<shown, told, sender>>
    /\ UNCHANGED <<troubles, erased>>

\* A read that is refused (401, 403) ends the save as failed, 35 s without an
\* outcome as unknown.
StopAsking(n) ==
    /\ Polling(n)
    /\ \E said \in {"failed", "unknown"} : EndSave(n, said)
    /\ Trouble
    /\ UNCHANGED <<catalogVars, sender, erased>>

-----------------------------------------------------------------------------
\* The backend, and what it answers.

\* The claim's transaction answers what it decided; a claim whose commit is not
\* acknowledged answers 503.
ClaimAnswer(i) ==
    CASE save[i].status = "succeeded" -> "saved"
      [] save[i].status = "processing" /\ ~save[i].over -> "processing"
      [] OTHER -> "failed"

Answers(r, step, answer) ==
    /\ step
    /\ IF attempt'[r] = NoAttempt /\ \E n \in Editors : editor[n].call.request = r
       THEN Hear(CHOOSE n \in Editors : editor[n].call.request = r, answer)
       ELSE UNCHANGED <<editor, shown, told>>
    /\ UNCHANGED <<sender, erased>>

\* Validation, authentication, or a ride on the route refuses the request.
Refuse(r) ==
    /\ attempt[r].at = "claiming"
    /\ Answers(r, Lose(r), "failed")
    /\ Trouble

Cut(r) ==
    /\ Lose(r)
    /\ \/ (\A n \in Editors : editor[n].call.request # r) /\ UNCHANGED <<editor, shown, told>>
       \/ \E n \in Editors : editor[n].call.request = r /\ Unanswered(n)
    /\ Trouble
    /\ UNCHANGED <<sender, erased>>

Serve(r) ==
    \/ Answers(r, ClaimSave(r), ClaimAnswer(attempt[r].id)) /\ UNCHANGED troubles
    \/ Answers(r, Compute(r), "none") /\ UNCHANGED troubles
    \/ Answers(r, Commit(r), "saved") /\ UNCHANGED troubles
    \/ Answers(r, RecordFailed(r), "failed") /\ UNCHANGED troubles
    \/ Refuse(r)
    \/ Cut(r)

\* confirmDeleteRoute.
Erase ==
    /\ DeleteRoute
    /\ erased' = {i \in Saves : save[i].status = "succeeded"}
    /\ UNCHANGED <<editor, shown, sender, told, troubles>>

EditorNext ==
    \/ \E n \in Editors, p \in Pages : OpenCreate(n, p) \/ OpenEdit(n, p)
    \/ \E n \in Editors, s \in Shapes : editor[n] # Unopened /\ Draw(n, s)
    \/ \E p \in Pages : Cancel(p)
    \/ \E n \in Editors : editor[n] # Unopened /\ SaveDraft(n)
    \/ \E n \in Editors : TimeOut(n) \/ Poll(n) \/ StopAsking(n)
    \/ \E r \in Requests : Serve(r)
    \/ Erase
    \/ \E i \in Saves : LeaseEnds(i) /\ Trouble /\ UNCHANGED <<editor, shown, sender, told, erased>>

EditorSpec == EditorInit /\ [][EditorNext]_editorVars

-----------------------------------------------------------------------------
\* Properties.

\* "Route updated!" is said of a save that is stored, never of one that was
\* replaced by an answer for another (routeSaveClient.ts completed).
SaidIsStored == \A i \in Saves : told[i] = "saved" => save[i].status = "succeeded"

\* However often an editor was told that its save failed, and sent it again under
\* another id, the route takes one of its saves: all name the version the editor
\* was opened with (polyline.ts:708). A deletion starts the versions anew.
OneSaveOfAnEditor ==
    \A n \in Editors : \A i, j \in Saves \ erased :
        /\ sender[i] = n /\ save[i].status = "succeeded"
        /\ sender[j] = n /\ save[j].status = "succeeded"
        => i = j

\* An editor goes from its page by its own cancel or its own success: a save that
\* outlives its cancelled editor does not close a newer draft
\* (RouteManagementPanel.tsx handleSaved).
DraftsStay ==
    \A p \in Pages :
        shown'[p] # shown[p] /\ shown[p] # 0 =>
            \/ editor' = editor
            \/ \E i \in Saves : sender[i] = shown[p] /\ told'[i] = "saved"

\* All three, of pages and backend together.
DraftsAreSavedOnce == [][SaidIsStored' /\ OneSaveOfAnEditor' /\ DraftsStay]_editorVars
=============================================================================
