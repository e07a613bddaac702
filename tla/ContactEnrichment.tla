-------------------------- MODULE ContactEnrichment --------------------------
(* What is known of the owner's contacts, and where it came from           *)
(* (modules/contacts/contacts.service.ts, modules/contact-enrichment/      *)
(* contact-enrichment.service.ts, cli/contact-enrichment-collector.ts).    *)
(*                                                                         *)
(* The owner writes contacts at will.  An operator exports them, and runs  *)
(* a collector that turns notes, address cards, browser history and search *)
(* results into candidates for their fields, by names that match the       *)
(* export it has read, and writes them out at its end if nothing fails.    *)
(* Agents submit these and candidates of their own, later and in any       *)
(* order, accept what needs no review, and correct links.  Each tool call  *)
(* is one Serializable transaction that rolls back when it throws, hence   *)
(* one step.                                                               *)
EXTENDS Integers, FiniteSets

CONSTANTS
    Contacts,  \* ids of Contact rows
    Names,     \* normalised names
    Fields,    \* ENRICHMENT_FIELDS; "socialLinks" is one of them
    Values,    \* what fields hold, normalised
    Evidence,  \* the records there are: [kind, place, how, name, field, value]
    Offered    \* those of them that agents come to submit by themselves

VARIABLES
    contact,    \* the Contact rows
    candidate,  \* the ContactEnrichmentCandidate rows by what their contentHash stands for
    exported,   \* the names of the contacts in the operator's export
    collector,  \* the run of the collector: the export it read and what it has gathered
    collected,  \* what collectors have written out
    corrected,  \* candidates of corrections, by their contentHash
    filledBy    \* history: the candidates applied to a field since it was last empty

enrichmentVars == <<contact, candidate, exported, collector, collected, corrected, filledBy>>

None == "none"
Hashes == Contacts \X Evidence
Contact == [names : SUBSET Names, value : [Fields -> Values \cup {None}]]
NoContact == [names |-> {}, value |-> [f \in Fields |-> None]]
NoCollector == [running |-> FALSE, names |-> [c \in Contacts |-> {}], gathered |-> {}]
Exists(c) == contact[c].names # {}

\* A candidate that is pending with a confidence below AUTO_ACCEPT_CONFIDENCE is doubtful.
Statuses == {"none", "pending", "doubtful", "accepted", "superseded"}
Pending(h) == candidate[h] \in {"pending", "doubtful"}

TypeOK ==
    /\ contact \in [Contacts -> Contact]
    /\ candidate \in [Hashes -> Statuses]
    /\ exported \in [Contacts -> SUBSET Names]
    /\ collector \in [running : BOOLEAN, names : [Contacts -> SUBSET Names], gathered : SUBSET Hashes]
    /\ collected \in SUBSET Hashes
    /\ corrected \in SUBSET (Contacts \X Values \X Values)
    /\ filledBy \in [Contacts -> [Fields -> SUBSET Evidence]]

Init ==
    /\ contact = [c \in Contacts |-> NoContact]
    /\ candidate = [h \in Hashes |-> "none"]
    /\ exported = [c \in Contacts |-> {}]
    /\ collector = NoCollector
    /\ collected = {} /\ corrected = {}
    /\ filledBy = [c \in Contacts |-> [f \in Fields |-> {}]]

-----------------------------------------------------------------------------
\* The owner.

\* create, which lets names repeat, and createForAgent, which does not.
CreateContact(c) ==
    /\ ~Exists(c)
    /\ \E n \in Names, byAgent \in BOOLEAN :
          /\ byAgent => \A other \in Contacts : n \notin contact[other].names
          /\ contact' = [contact EXCEPT ![c].names = {n}]
    /\ UNCHANGED <<candidate, exported, collector, collected, corrected, filledBy>>

\* update: a name is changed, a field written or cleared.
RenameContact(c) ==
    /\ Exists(c)
    /\ \E names \in SUBSET Names \ {{}} : contact' = [contact EXCEPT ![c].names = names]
    /\ UNCHANGED <<candidate, exported, collector, collected, corrected, filledBy>>

WriteField(c, f) ==
    /\ Exists(c)
    /\ \E v \in Values \cup {None} :
          /\ contact' = [contact EXCEPT ![c].value[f] = v]
          /\ filledBy' = IF v = None THEN [filledBy EXCEPT ![c][f] = {}] ELSE filledBy
    /\ UNCHANGED <<candidate, exported, collector, collected, corrected>>

\* delete, which takes the candidates of the contact along.
DeleteContact(c) ==
    /\ Exists(c)
    /\ contact' = [contact EXCEPT ![c] = NoContact]
    /\ candidate' = [h \in Hashes |-> IF h[1] = c THEN "none" ELSE candidate[h]]
    /\ corrected' = {k \in corrected : k[1] # c}
    /\ filledBy' = [filledBy EXCEPT ![c] = [f \in Fields |-> {}]]
    /\ UNCHANGED <<exported, collector, collected>>

-----------------------------------------------------------------------------
\* The operator and the collector.

\* The export the collector is given.
Export ==
    /\ exported' = [c \in Contacts |-> contact[c].names]
    /\ UNCHANGED <<contact, candidate, collector, collected, corrected, filledBy>>

\* runCollectorCli reads the export once, then the sources it is given.
StartCollector ==
    /\ ~collector.running
    /\ collector' = [running |-> TRUE, names |-> exported, gathered |-> {}]
    /\ UNCHANGED <<contact, candidate, exported, collected, corrected, filledBy>>

\* It writes once, at its end.
WriteCandidates ==
    /\ collector.running
    /\ collected' = collected \cup collector.gathered
    /\ collector' = NoCollector
    /\ UNCHANGED <<contact, candidate, exported, corrected, filledBy>>

\* A file that is too large or cannot be parsed ends it, and nothing is written.
FailCollector ==
    /\ collector.running
    /\ collector' = NoCollector
    /\ UNCHANGED <<contact, candidate, exported, collected, corrected, filledBy>>

\* uniqueNameMatch: nobody, or the one contact of the export with that name.
UniqueNameMatch(name) ==
    LET matches == {c \in Contacts : name \in collector.names[c]}
    IN IF Cardinality(matches) = 1 THEN matches ELSE {}

\* Where the collector does not look: notes that are hidden, vendored or named for
\* secrets, files that are no vCards, browser files that are no profile's, search results
\* of data brokers.
AllowedNote(e) == e.place = "note"
ExplicitExport(e) == e.place = "card"
SafeArcSource(e) == e.place = "history"
ArcPublicJson(e) == e.place = "sidebar"
SafeLocator(e) == e.place = "site"

\* Confidence of a candidate in percent, from the kind of source and how it matched.
MarkdownConfidence(e) == IF e.field = "socialLinks" THEN 95 ELSE 97
VCardConfidence == 99
ArcConfidence(e) == IF e.how = "title" THEN 92 ELSE 80
PublicConfidence(e) ==
    IF e.how = "explicit" THEN 60 ELSE IF e.field = "socialLinks" THEN 50 ELSE 35

Confidence(e) ==
    CASE e.kind = "second_brain" -> MarkdownConfidence(e)
      [] e.kind = "vcard" -> VCardConfidence
      [] e.kind \in {"arc_history", "arc_sidebar"} -> ArcConfidence(e)
      [] e.kind = "public_web" -> PublicConfidence(e)

\* normalizeCandidateValue has a normal form for it, in which Evidence is written then.
Normalizes(value) == value \in Values

\* addValidCandidate omits what does not normalise, stableCandidates what is there.
Gathered(matches, e) ==
    /\ collector.running
    /\ matches # {} /\ Normalizes(e.value)
    /\ collector' = [collector EXCEPT !.gathered = @ \cup {<<c, e>> : c \in matches}]
    /\ UNCHANGED <<contact, candidate, exported, collected, corrected, filledBy>>

\* A note names its contact on a line of its own or by its file; a card by its full name.
ReadMarkdown(e) == e.kind = "second_brain" /\ AllowedNote(e)
CollectFromMarkdown(e) == ReadMarkdown(e) /\ Gathered(UniqueNameMatch(e.name), e)
ReadVCard(e) == e.kind = "vcard" /\ ExplicitExport(e)
CollectFromVCard(e) == ReadVCard(e) /\ Gathered(UniqueNameMatch(e.name), e)

\* A search result may bring the id of a contact, which counts if the export has it.
CollectFromPublicResults(e) ==
    /\ e.kind = "public_web" /\ SafeLocator(e)
    /\ \/ e.how = "explicit" /\ \E c \in {c \in Contacts : collector.names[c] # {}} : Gathered({c}, e)
       \/ e.how # "explicit" /\ Gathered(UniqueNameMatch(e.name), e)

\* A page that was visited or pinned is a link, matched by its title; a profile on a
\* social network by the end of its address as well.
ReadArc(e) ==
    \/ e.kind = "arc_history" /\ SafeArcSource(e)
    \/ e.kind = "arc_sidebar" /\ ArcPublicJson(e)
CollectFromArcRows(e) ==
    /\ ReadArc(e) /\ e.field = "socialLinks"
    /\ Gathered(UniqueNameMatch(e.name), e)

-----------------------------------------------------------------------------
\* The agents.

\* normalizeSourceLocator: a source is named as its kind is.
LocatorFits(e) ==
    e.place \in CASE e.kind = "second_brain" -> {"note", "private note"}
                  [] e.kind = "vcard" -> {"card"}
                  [] e.kind = "arc_history" -> {"history", "stray history"}
                  [] e.kind = "arc_sidebar" -> {"sidebar"}
                  [] e.kind = "public_web" -> {"site"}

Submittable(e) == LocatorFits(e) /\ Normalizes(e.value)

AutoAccept == 90  \* AUTO_ACCEPT_CONFIDENCE in percent

\* submitCandidate: the caller says how sure it is, and what was submitted before keeps
\* its confidence and its decision.
Submit(h, confidence) ==
    /\ Submittable(h[2]) /\ Exists(h[1]) /\ candidate[h] = "none"
    /\ candidate' = [candidate EXCEPT ![h] = IF confidence < AutoAccept THEN "doubtful" ELSE "pending"]
    /\ UNCHANGED <<contact, exported, collector, collected, corrected, filledBy>>

\* Whether it passes on what a collector has written, or comes from the agent itself.
SubmitAny(h) ==
    \/ h \in collected /\ Submit(h, Confidence(h[2]))
    \/ h[2] \in Offered /\ \E confidence \in {0, 100} : Submit(h, confidence)

\* Mutant: leaves it to the reviewer to see whether the field is empty.
AnyField(c, f) == Exists(c)

\* The condition of the update in contactUpdate.
Unpopulated(c, f) == Exists(c) /\ contact[c].value[f] = None

NeedsReview(h) == h[2].kind = "public_web" \/ candidate[h] = "doubtful"

\* acceptCandidate; its rivals for the field are superseded.
Accept(h) ==
    LET c == h[1]
        e == h[2]
        rivals == {g \in Hashes : /\ g # h /\ g[1] = c /\ g[2].field = e.field
                                  /\ Pending(g)}
    IN /\ Pending(h) /\ ~NeedsReview(h) /\ Unpopulated(c, e.field)
       /\ contact' = [contact EXCEPT ![c].value[e.field] = e.value]
       /\ candidate' = [g \in Hashes |-> IF g = h THEN "accepted"
                                         ELSE IF g \in rivals THEN "superseded"
                                         ELSE candidate[g]]
       /\ filledBy' = [filledBy EXCEPT ![c][e.field] = @ \cup {e}]
       /\ UNCHANGED <<exported, collector, collected, corrected>>

\* normalizeSocialCorrection: what the caller has seen is there still, and both links
\* are compared in their normal form.
Corrects(c, seen, better) ==
    /\ contact[c].value["socialLinks"] = seen
    /\ Normalizes(seen) /\ Normalizes(better) /\ better # seen

\* correctSocialLink: the same correction twice violates a unique index and is rolled back.
CorrectSocialLink(c) ==
    /\ Exists(c)
    /\ \E seen, better \in Values :
          /\ Corrects(c, seen, better)
          /\ <<c, seen, better>> \notin corrected
          /\ contact' = [contact EXCEPT ![c].value["socialLinks"] = better]
          /\ corrected' = corrected \cup {<<c, seen, better>>}
    /\ UNCHANGED <<candidate, exported, collector, collected, filledBy>>

Next ==
    \/ \E c \in Contacts : \/ CreateContact(c) \/ RenameContact(c) \/ DeleteContact(c)
                           \/ CorrectSocialLink(c)
                           \/ \E f \in Fields : WriteField(c, f)
    \/ Export \/ StartCollector \/ WriteCandidates \/ FailCollector
    \/ \E e \in Evidence : \/ CollectFromMarkdown(e) \/ CollectFromVCard(e)
                           \/ CollectFromPublicResults(e) \/ CollectFromArcRows(e)
    \/ \E h \in Hashes : SubmitAny(h) \/ Accept(h)

Spec == Init /\ [][Next]_enrichmentVars

-----------------------------------------------------------------------------
\* However long ago candidates were collected, and in whatever order they are submitted and
\* accepted, a field takes one of them until the owner empties it, and never one of the
\* web; and what the collector wrote out is of no place that it is to leave alone.
EvidenceFillsOnce ==
    /\ \A c \in Contacts, f \in Fields :
          /\ Cardinality(filledBy[c][f]) <= 1
          /\ \A e \in filledBy[c][f] : /\ candidate[<<c, e>>] = "accepted"
                                       /\ e.field = f /\ e.kind # "public_web"
    /\ \A h \in collected : h[2].place \in {"note", "card", "history", "sidebar", "site"}

=============================================================================
