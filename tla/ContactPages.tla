---------------------------- MODULE ContactPages ----------------------------
(* The page of contacts (contacts-workspace.tsx, contact-create-dialog.tsx)*)
(* with the profile over it (contact-profile.tsx, contact-editor.tsx,      *)
(* interaction-form.tsx).  A load of the list is given up when another     *)
(* begins; loads of a profile, and what was submitted, are not given up    *)
(* when it is closed.                                                      *)
EXTENDS Naturals, FiniteSets, Sequences

CONSTANTS
    People,         \* ids that contacts may have, as numbers in the order of the list
    Narrow,         \* those that the filters let through
    Limit,          \* contacts of a page of the list
    Forms,          \* of create, edit and log, those that are used
    MaxRequests,    \* bound on requests of the page
    MaxRevision     \* bound on the changes of a contact

VARIABLES
    server,         \* the contacts, and what was logged of them
    page,           \* list, profile, editor, forms; and whether others changed what is shown
    requests        \* all of them, in the order they were sent

contactPagesVars == <<server, page, requests>>

\* Contact methods have who chose them last: nobody since the beginning, another page, or this.
Contact(id, revision, methods) == [id |-> id, revision |-> revision, methods |-> methods]
Nobody == Contact(0, 0, "first")
NoDraft == [methods |-> "first", dirty |-> FALSE, saving |-> FALSE, editor |-> 0]
IdsOf(contacts) == {c.id : c \in contacts}

Load(query) == [kind |-> "list", stage |-> "sent", query |-> query, data |-> {}, old |-> FALSE]

Init ==
    /\ \E ids \in SUBSET People :
          server = [contacts |-> {Contact(id, 0, "first") : id \in ids}, logged |-> {}]
    /\ LET query == [narrow |-> FALSE, offset |-> 0]
       IN /\ page = [query |-> query, items |-> {}, total |-> 0, loading |-> TRUE, error |-> FALSE,
                     list |-> 1, old |-> FALSE, create |-> "closed",
                     open |-> 0, profile |-> 0, contact |-> Nobody, editing |-> FALSE,
                     draft |-> NoDraft, form |-> 0, logging |-> FALSE]
          /\ requests = <<Load(query)>>

TypeOK ==
    /\ IdsOf(server.contacts) \subseteq People
    /\ Cardinality(server.contacts) = Cardinality(IdsOf(server.contacts))
    /\ page.open \in People \cup {0} /\ page.create \in {"closed", "open", "saving", "hidden"}
    /\ page.contact.id \in {0, page.open} /\ Cardinality(page.items) <= Limit
    /\ page.list \in DOMAIN requests /\ page.form \in {0} \cup 1 .. MaxRequests + 1

-----------------------------------------------------------------------------
(* The server, and other pages.                                            *)

The(id) == CHOOSE c \in server.contacts : c.id = id
Has(id) == id \in IdsOf(server.contacts)
Changed(c, methods) == Contact(c.id, c.revision + 1, methods)
Replace(old, new) == [server EXCEPT !.contacts = (@ \ {old}) \cup {new}]

Matching(query) == {c \in server.contacts : query.narrow => c.id \in Narrow}
Listed(query) ==
    LET all == Matching(query)
        Before(c) == Cardinality({d \in all : d.id < c.id})
    IN [items |-> {c \in all : Before(c) \in query.offset .. query.offset + Limit - 1},
        total |-> Cardinality(all)]

\* History: lists that were read before are old.
Outdated(rs) ==
    [r \in DOMAIN rs |-> IF rs[r].kind = "list" /\ rs[r].stage = "served"
                         THEN [rs[r] EXCEPT !.old = TRUE] ELSE rs[r]]

Elsewhere(id) ==
    /\ Has(id)
    /\ \/ server' = [server EXCEPT !.contacts = @ \ {The(id)}]
       \/ /\ The(id).revision < MaxRevision /\ "edit" \in Forms
          /\ server' = Replace(The(id), Changed(The(id), "other"))
    /\ page' = [page EXCEPT !.old = TRUE]
    /\ requests' = Outdated(requests)

Answer(r, ok) == requests' = [requests EXCEPT ![r].stage = "served", ![r].ok = ok]

Serve(r) ==
    /\ requests[r].stage = "sent"
    /\ LET request == requests[r]
       IN \/ /\ request.kind = "list" /\ UNCHANGED server
             /\ requests' = [requests EXCEPT ![r].stage = "served",
                                             ![r].data = Listed(request.query)]
          \/ /\ request.kind = "detail" /\ UNCHANGED server
             /\ LET has == Has(request.id)
                IN requests' = [requests EXCEPT ![r].stage = "served", ![r].ok = has,
                                   ![r].data = IF has THEN The(request.id) ELSE Nobody]
          \/ /\ request.kind = "create"
             /\ \E id \in People \ IdsOf(server.contacts) :
                   server' = [server EXCEPT !.contacts = @ \cup {Contact(id, 0, "first")}]
             /\ Answer(r, TRUE)
          \/ /\ request.kind = "save" /\ Answer(r, Has(request.id))
             /\ server' = IF ~Has(request.id) THEN server
                          ELSE Replace(The(request.id),
                                  Changed(The(request.id), IF request.sendsMethods
                                             THEN request.methods ELSE The(request.id).methods))
          \/ /\ request.kind = "log"
             /\ LET again == \E entry \in server.logged : entry.key = request.key
                IN /\ Answer(r, again \/ Has(request.id))
                   /\ server' = IF again \/ ~Has(request.id) THEN server
                                ELSE [Replace(The(request.id),
                                              Changed(The(request.id), The(request.id).methods))
                                      EXCEPT !.logged = @ \cup {[key |-> request.key,
                                                                 form |-> request.form]}]
    /\ UNCHANGED page

-----------------------------------------------------------------------------
(* The list.                                                               *)

Over == [kind |-> "none", stage |-> "over"]
Ended(rs, r) == [rs EXCEPT ![r] = Over]
Under(r, kind) == requests[r].kind = kind /\ requests[r].stage # "over"

\* The effect of another query or version: the load that is under way is given up.
WithLoad(p, rs, query) ==
    /\ page' = [p EXCEPT !.query = query, !.loading = TRUE, !.error = FALSE, !.list = Len(rs) + 1]
    /\ requests' = Append(IF rs[p.list].kind = "list" THEN Ended(rs, p.list) ELSE rs, Load(query))

Room(n) == Len(requests) + n <= MaxRequests

Ask(query) ==
    /\ query # page.query /\ Room(1)
    /\ \/ query.offset = 0
       \/ /\ ~page.loading /\ query.narrow = page.query.narrow
          /\ \/ query.offset = page.query.offset + Limit /\ query.offset < page.total
             \/ query.offset + Limit = page.query.offset
    /\ WithLoad(page, requests, query)
    /\ UNCHANGED server

Retry ==
    /\ page.error /\ Room(1)
    /\ WithLoad(page, requests, page.query)
    /\ UNCHANGED server

\* The offset of the last page that there is.
Bounded(offset, total) ==
    IF total = 0 THEN 0 ELSE IF offset < total THEN offset ELSE ((total - 1) \div Limit) * Limit

TakeList(r) ==
    /\ Under(r, "list") /\ requests[r].stage = "served"
    /\ LET offset == page.query.offset
           bounded == Bounded(offset, requests[r].data.total)
       IN \/ /\ bounded = offset
             /\ page' = [page EXCEPT !.items = requests[r].data.items, !.loading = FALSE,
                            !.total = requests[r].data.total, !.old = requests[r].old]
             /\ requests' = Ended(requests, r)
          \/ /\ bounded # offset /\ Room(1)
             /\ WithLoad(page, requests, [page.query EXCEPT !.offset = bounded])
    /\ UNCHANGED server

FailList(r) ==
    /\ Under(r, "list")
    /\ page' = [page EXCEPT !.loading = FALSE, !.error = TRUE]
    /\ requests' = Ended(requests, r)
    /\ UNCHANGED server

\* Mutant: only the profile is loaded again.
NotRefreshed(p, rs) == page' = p /\ requests' = rs

\* refreshList, onMutation
Refreshed(p, rs) == WithLoad(p, rs, p.query)

-----------------------------------------------------------------------------
(* The dialog of a new contact.  It can be closed while it is saving.      *)

OpenCreate ==
    /\ "create" \in Forms /\ page.create \in {"closed", "hidden"} /\ page.open = 0
    /\ page' = [page EXCEPT !.create = IF @ = "hidden" THEN "saving" ELSE "open"]
    /\ UNCHANGED <<server, requests>>

CloseCreate ==
    /\ page.create \in {"open", "saving"}
    /\ page' = [page EXCEPT !.create = IF @ = "saving" THEN "hidden" ELSE "closed"]
    /\ UNCHANGED <<server, requests>>

SubmitCreate ==
    /\ page.create = "open" /\ Room(2)
    /\ page' = [page EXCEPT !.create = "saving"]
    /\ requests' = Append(requests, [kind |-> "create", stage |-> "sent", ok |-> FALSE])
    /\ UNCHANGED server

Done(r) == requests[r].stage = "served" /\ requests[r].ok

\* Refused, not arrived, or the answer is lost: then the page does not know what was done.
Fails(r, p) ==
    /\ page' = IF Done(r) THEN [p EXCEPT !.old = TRUE] ELSE p
    /\ requests' = IF Done(r) THEN Outdated(Ended(requests, r)) ELSE Ended(requests, r)

EndCreate(r) ==
    /\ Under(r, "create")
    /\ \/ /\ Done(r)
          /\ WithLoad([page EXCEPT !.create = "closed"], Ended(requests, r),
                      [page.query EXCEPT !.offset = 0])
       \/ Fails(r, [page EXCEPT !.create = IF @ = "hidden" THEN "closed" ELSE "open"])
    /\ UNCHANGED server

-----------------------------------------------------------------------------
(* The profile.  Profiles are numbered by the requests that they begin     *)
(* with; an answer that belongs to another one changes nothing that shows. *)

Detail(id, profile, then) ==
    [kind |-> "detail", stage |-> "sent", id |-> id, profile |-> profile, then |-> then,
     ok |-> FALSE, data |-> {}]
Mounted(request) == page.open # 0 /\ page.profile = request.profile

Closed(p) ==
    [p EXCEPT !.open = 0, !.profile = 0, !.contact = Nobody, !.editing = FALSE, !.draft = NoDraft,
              !.form = 0, !.logging = FALSE]

OpenProfile(id) ==
    /\ page.open = 0 /\ page.create \in {"closed", "hidden"} /\ id \in IdsOf(page.items) /\ Room(1)
    /\ page' = [page EXCEPT !.open = id, !.profile = Len(requests) + 1]
    /\ requests' = Append(requests, Detail(id, Len(requests) + 1, FALSE))
    /\ UNCHANGED server

CloseProfile ==
    /\ page.open # 0
    /\ page' = Closed(page)
    /\ UNCHANGED <<server, requests>>

\* Editors are numbered likewise: requests with lower numbers are not theirs.
NewDraft(contact) == [NoDraft EXCEPT !.methods = contact.methods, !.editor = Len(requests) + 1]

\* The editor is made anew of another revision; after a save it is left.
Shows(contact, then) ==
    [page EXCEPT !.contact = contact, !.editing = @ /\ ~then,
                 !.draft = IF ~page.editing \/ then THEN NoDraft
                           ELSE IF page.contact.revision = contact.revision THEN @
                           ELSE NewDraft(contact)]

\* If it is gone, closeProfile leaves whatever profile is open.
TakeDetail(r) ==
    /\ Under(r, "detail") /\ requests[r].stage = "served"
    /\ page' = IF ~requests[r].ok THEN Closed(page)
               ELSE IF Mounted(requests[r]) THEN Shows(requests[r].data, requests[r].then)
               ELSE page
    /\ requests' = Ended(requests, r)
    /\ UNCHANGED server

FailDetail(r) ==
    /\ Under(r, "detail")
    /\ page' = IF Mounted(requests[r]) /\ requests[r].then
               THEN [page EXCEPT !.editing = FALSE, !.draft = NoDraft] ELSE page
    /\ requests' = Ended(requests, r)
    /\ UNCHANGED server

StartEdit ==
    /\ "edit" \in Forms /\ page.contact # Nobody /\ ~page.editing
    /\ page' = [page EXCEPT !.editing = TRUE, !.draft = NewDraft(page.contact), !.form = 0,
                            !.logging = FALSE]
    /\ UNCHANGED <<server, requests>>

CancelEdit ==
    /\ page.editing
    /\ page' = [page EXCEPT !.editing = FALSE, !.draft = NoDraft]
    /\ UNCHANGED <<server, requests>>

EditMethods ==
    /\ page.editing /\ ~page.draft.dirty
    /\ page' = [page EXCEPT !.draft.dirty = TRUE, !.draft.methods = "this"]
    /\ UNCHANGED <<server, requests>>

\* Mutant: the methods go with every save.
AlwaysSends(draft) == TRUE

SendsMethods(draft) == draft.dirty

Save ==
    /\ page.editing /\ ~page.draft.saving /\ Room(3) /\ page.contact.revision < MaxRevision
    /\ page' = [page EXCEPT !.draft.saving = TRUE]
    /\ requests' = Append(requests,
          [kind |-> "save", stage |-> "sent", id |-> page.open, profile |-> page.profile,
           methods |-> page.draft.methods, sendsMethods |-> SendsMethods(page.draft),
           ok |-> FALSE])
    /\ UNCHANGED server

\* afterProfileMutation, afterInteraction: profile and list are loaded again.
Reloads(p, r, then) ==
    Refreshed(p, Append(Ended(requests, r), Detail(requests[r].id, requests[r].profile, then)))

EndSave(r) ==
    /\ Under(r, "save")
    /\ \/ Done(r) /\ Room(2) /\ Reloads(page, r, TRUE)
       \/ Fails(r, IF page.editing /\ r >= page.draft.editor
                   THEN [page EXCEPT !.draft.saving = FALSE] ELSE page)
    /\ UNCHANGED server

\* Forms are numbered too; a form makes one key for one text until it is resolved.
OpenForm ==
    /\ "log" \in Forms /\ page.contact # Nobody /\ ~page.editing /\ page.form = 0
    /\ page' = [page EXCEPT !.form = Len(requests) + 1]
    /\ UNCHANGED <<server, requests>>

CloseForm ==
    /\ page.form # 0
    /\ page' = [page EXCEPT !.form = 0, !.logging = FALSE]
    /\ UNCHANGED <<server, requests>>

\* Mutant: every attempt has a key of its own.
KeyOfAttempt(form) == Len(requests) + 1

KeyOf(form) == form

Log ==
    /\ page.form # 0 /\ ~page.logging /\ Room(3) /\ page.contact.revision < MaxRevision
    /\ page' = [page EXCEPT !.logging = TRUE]
    /\ requests' = Append(requests,
          [kind |-> "log", stage |-> "sent", id |-> page.open, profile |-> page.profile,
           form |-> page.form, key |-> KeyOf(page.form), ok |-> FALSE])
    /\ UNCHANGED server

\* A receipt closes whatever form the profile has open.
EndLog(r) ==
    /\ Under(r, "log")
    /\ \/ /\ Done(r) /\ Room(2)
          /\ Reloads(IF Mounted(requests[r]) THEN [page EXCEPT !.form = 0, !.logging = FALSE]
                     ELSE page, r, FALSE)
       \/ Fails(r, [page EXCEPT !.logging = IF page.form = requests[r].form THEN FALSE ELSE @])
    /\ UNCHANGED server

Next ==
    \/ Retry \/ OpenCreate \/ CloseCreate \/ SubmitCreate \/ CloseProfile \/ StartEdit
    \/ CancelEdit \/ EditMethods \/ Save \/ OpenForm \/ CloseForm \/ Log
    \/ \E narrow \in BOOLEAN, offset \in {0} \cup {n * Limit : n \in 1 .. Cardinality(People)} :
          Ask([narrow |-> narrow, offset |-> offset])
    \/ \E id \in People : Elsewhere(id) \/ OpenProfile(id)
    \/ \E r \in DOMAIN requests :
          \/ Serve(r) \/ TakeList(r) \/ FailList(r) \/ EndCreate(r) \/ TakeDetail(r)
          \/ FailDetail(r) \/ EndSave(r) \/ EndLog(r)

Spec == Init /\ [][Next]_contactPagesVars

-----------------------------------------------------------------------------
\* Once nothing is on its way, the list is that of the server for what is asked: after all
\* that was created, saved or logged here, in whatever order the answers came, and never of a
\* page beyond the last.  Only what others did, or an answer that was lost, may be missing.
ListFollows ==
    (\A r \in DOMAIN requests : requests[r].stage = "over") /\ ~page.error /\ ~page.old =>
       /\ ~page.loading
       /\ [items |-> page.items, total |-> page.total] = Listed(page.query)
       /\ page.items = {} => page.total = 0

\* One text is logged once in a form, however often it is submitted.
FormLogsOnce ==
    \A one, other \in server.logged : one.form = other.form => one = other

\* Methods that another page wrote, or this one, are not lost to a save of something else.
MethodsStay ==
    \A c \in server.contacts, d \in server'.contacts :
       c.id = d.id /\ d.revision > c.revision => (c.methods # "first" => d.methods # "first")

=============================================================================
