---------------------------- MODULE MCProviders ----------------------------
(* The components that meet providers and feeds, in one run.  They share no *)
(* state, so nothing is lost by looking at one at a time: `scene` says     *)
(* whose steps are taken, and the variables of the others are Off, except  *)
(* those of Location, which stay as they begin.                            *)
EXTENDS Location

CONSTANTS
    Off,                    \* the value of what another scene is about
    a1, r1, r2,             \* a consent; callbacks, runs or requests at once
    k1, n1, e1, v1, v2      \* a calendar, a name, an event, values

VARIABLES
    scene,
    attempt, callback, granted, oauthClock,
    link, mirrored, listing, history_, listClock, told,
    contact, candidate, exported, collector, collected, corrected, filledBy,
    celebration, attachment, attaching, telling, today,
    source, found, offered, poller, pollClock,
    listed, followed, page,
    pref, save,
    said, busy, resync, advised, day,
    feed, step, seen, instances,
    contacts, run, touched,
    theirs, moved, kept, synced, gathering

oauthVars == <<attempt, callback, granted, oauthClock>>
listVars == <<link, mirrored, listing, history_, listClock, told>>
enrichmentVars == <<contact, candidate, exported, collector, collected, corrected, filledBy>>
celebrationVars == <<celebration, attachment, attaching, telling, today>>
discoveryVars == <<source, found, offered, poller, pollClock>>
catalogVars == <<listed, followed, page>>
preferenceVars == <<pref, save>>
recommendationVars == <<said, busy, resync, advised, day>>
feedVars == <<feed, step, seen, instances>>
importVars == <<contacts, run, touched>>
contentVars == <<theirs, moved, kept, synced, gathering>>
sceneVars == <<scene, vars, oauthVars, listVars, enrichmentVars, celebrationVars, discoveryVars,
               catalogVars, preferenceVars, recommendationVars, feedVars, importVars,
               contentVars>>

-----------------------------------------------------------------------------
Consent == INSTANCE GoogleOAuth WITH
    Attempts <- {a1}, Callbacks <- {r1, r2}, AttemptTime <- 1, PruneAge <- 2, MaxTime <- 4

List == INSTANCE CalendarList WITH
    Calendars <- {k1}, ListRuns <- {r1, r2}, ListLease <- 0, ListJitter <- 1,
    MaxListings <- 1, MaxListClock <- 2, history <- history_, heard <- told

\* A vCard and a note disagree; a title of the web and a page of a profile do.  Of what
\* is to be left alone, a note is hidden, a result of the web is a data broker's, and one
\* link is none.  Agents submit what the vCard says by themselves.
Claim_(kind, where, how, name, field, value) ==
    [kind |-> kind, place |-> where, how |-> how, name |-> name, field |-> field, value |-> value]
Claims ==
    {Claim_("vcard", "card", "name", n1, "company", v1),
     Claim_("second_brain", "note", "name", n1, "company", v2),
     Claim_("second_brain", "private note", "name", n1, "company", v1),
     Claim_("arc_history", "history", "title", n1, "socialLinks", v2),
     Claim_("public_web", "site", "explicit", n1, "socialLinks", v1),
     Claim_("public_web", "broker", "explicit", n1, "socialLinks", v2),
     Claim_("arc_sidebar", "sidebar", "title", n1, "socialLinks", "no link")}
Enrichment == INSTANCE ContactEnrichment WITH
    Contacts <- {"c1"}, Names <- {n1}, Fields <- {"company", "socialLinks"}, Values <- {v1, v2},
    Evidence <- Claims, Offered <- {e \in Claims : e.place = "card"}

\* A fixed date, one that is in leap years only, a lunar one and one of a single year.
Date(kind, at) == [kind |-> kind, day |-> at]
Feasts == {Date("fixed", 1), Date("fixed", 0), Date("lunar", 0), Date("full", 5)}
Days == INSTANCE Celebrations WITH
    Contacts <- {"c1"}, System <- {"s1"}, Own <- {"o1"}, YearDays <- 4, LeapDay <- 1,
    ReminderWindow <- 2, MaxListed <- 1, MaxToday <- 12, Dates <- Feasts

Feed == INSTANCE EventDiscovery WITH
    EventSources <- {"s1"}, Pollers <- {r1, r2}, Events <- {e1}, EndsAt <- [e \in {e1} |-> 1],
    Lease <- 1, PollInterval <- 1, MaxFeeds <- 2, MaxPollClock <- 3

Catalog == INSTANCE EventCatalog WITH Slugs <- {1, 2, 3}, PageSize <- 1

Preference == INSTANCE EventPreferences WITH
    RowIds <- {1, 2, 3}, Saves <- {r1, r2}, MaxAttempts <- 3

Event(i, start, end, category, distance, tags, weight, known) ==
    [id |-> i, startAt |-> start, endAt |-> end, category |-> category, distance |-> distance,
     tags |-> tags, weight |-> weight, contacts |-> known]
Offers == {Event(1, 1, 2, "social", 0, 0, 5, 1), Event(2, 2, 3, "social", 40, 0, 5, 0),
           Event(3, 3, 5, "", -1, 1, 2, 0), Event(4, 3, 4, "", 60, 2, 5, 0),
           Event(5, 2, 4, "", 0, 0, 0, 0)}
Advice == INSTANCE EventRecommendation WITH
    Events <- Offers, MaxDistance <- 50, BusyDays <- {2},
    Travel <- [d \in {0, 40, 60} |-> IF d = 0 THEN 0 ELSE 1], DismissalLasts <- 1, Remembered <- 2, MaxSnooze <- 2, MaxSaid <- 2, MaxDay <- 2

\* Series that begin before, in or never near the window, with and without an end,
\* exceptions that move, shorten or cancel an occurrence, and excluded dates.
Masters == [start : {0, 2}, length : {0, 1, 3}, interval : {0, 1, 2}, count : {0, 2, 5},
            cancelled : BOOLEAN]
Exceptions == [id : {1, 2, 4, 6}, moved : BOOLEAN, start : {0, 3, 6}, length : {0, 1},
               cancelled : BOOLEAN]
IcsFeeds == [masters : {{}} \cup {{m} : m \in Masters},
             exceptions : {{}} \cup {{x} : x \in Exceptions},
             exdates : {{}, {2}, {8}}]
Ics == INSTANCE IcsFeed WITH
    Feeds <- IcsFeeds, Now <- 2, ReadAhead <- 3, MaxWork <- 8

\* Two owners with a vault each, one of whom has or adds a second contact; an export of two.
Line(number, text) == [source |-> number, text |-> text]
Own(o, v, i) == [owner |-> o, vault |-> v, id |-> i]
Homes == {[owner |-> "o1", vault |-> "v1"], [owner |-> "o2", vault |-> "v2"]}
AlreadyThere == {Own("o1", "v1", 11), Own("o1", "v1", 12), Own("o2", "v2", 11)}
Monica == INSTANCE MonicaImport WITH
    Vaults <- Homes, Natives <- AlreadyThere, Exports <- {<<Line(1, "two"), Line(2, "two")>>},
    DemoCount <- 1, Runs <- {r1, r2}

\* One event in every form, all day in zones that put their clocks forward over midnight,
\* back over it, and so that midnight in UTC has another offset.
ZoneChange(before, after, at) == [before |-> before, after |-> after, at |-> at]
Form(says, shape, zone, start, end, text, series) ==
    [status |-> says, shape |-> shape, zone |-> zone, start |-> start, end |-> end,
     text |-> text, series |-> series]
Shapes == {Form("confirmed", "timed", Off, 1, 2, "a", Off),
           Form("confirmed", "timed", Off, 2, 3, "b", "s"),
           Form("confirmed", "timed", Off, 2, 2, "b", Off),
           Form("confirmed", "allDay", Off, 1, 2, "a", Off),
           Form("confirmed", "none", Off, 0, 0, "a", Off),
           Form("cancelled", "none", Off, 0, 0, Off, Off),
           Form("cancelled", "none", Off, 0, 0, Off, "s"),
           Form("cancelled", "timed", Off, 1, 2, "a", Off),
           Form("cancelled", "allDay", Off, 2, 1, Off, Off)}
          \cup {Form("confirmed", "allDay", z, 2, 3, "a", Off) : z \in {"forward", "back", "west"}}
Clocks == [z \in {"plain", "forward", "back", "west"} |->
              CASE z = "plain" -> ZoneChange(1, 1, 0) [] z = "forward" -> ZoneChange(1, 2, 7)
                [] z = "back" -> ZoneChange(2, 1, 6) [] z = "west" -> ZoneChange(-2, -3, 9)]
Contents == INSTANCE EventContents WITH
    Occurrences <- {e1}, Nil <- Off, DayLength <- 4, Attempts <- 4, SourceZone <- "plain",
    Zones <- Clocks, Forms <- Shapes

-----------------------------------------------------------------------------
OffStage ==
    /\ scene # "consent" => attempt = Off /\ callback = Off /\ granted = Off /\ oauthClock = Off
    /\ scene # "list" =>
          /\ link = Off /\ mirrored = Off /\ listing = Off
          /\ history_ = Off /\ listClock = Off /\ told = Off
    /\ scene # "enrichment" =>
          /\ contact = Off /\ candidate = Off /\ exported = Off /\ collector = Off
          /\ collected = Off /\ corrected = Off /\ filledBy = Off
    /\ scene # "days" =>
          /\ celebration = Off /\ attachment = Off /\ attaching = Off
          /\ telling = Off /\ today = Off
    /\ scene # "feed" =>
          /\ source = Off /\ found = Off /\ offered = Off /\ poller = Off /\ pollClock = Off
    /\ scene # "catalog" => listed = Off /\ followed = Off /\ page = Off
    /\ scene # "preference" => pref = Off /\ save = Off
    /\ scene # "advice" =>
          said = Off /\ busy = Off /\ resync = Off /\ advised = Off /\ day = Off
    /\ scene # "ics" => feed = Off /\ step = Off /\ seen = Off /\ instances = Off
    /\ scene # "import" => contacts = Off /\ run = Off /\ touched = Off
    /\ scene # "contents" =>
          theirs = Off /\ moved = Off /\ kept = Off /\ synced = Off /\ gathering = Off

SceneInit ==
    /\ scene \in {"location", "consent", "list", "enrichment", "days", "feed", "catalog",
                  "preference", "advice", "ics", "import", "contents"}
    /\ Init
    /\ scene = "consent" => Consent!Init
    /\ scene = "list" => List!Init
    /\ scene = "enrichment" => Enrichment!Init
    /\ scene = "days" => Days!Init
    /\ scene = "feed" => Feed!Init
    /\ scene = "catalog" => Catalog!Init
    /\ scene = "preference" => Preference!Init
    /\ scene = "advice" => Advice!Init
    /\ scene = "ics" => Ics!Init
    /\ scene = "import" => Monica!Init
    /\ scene = "contents" => Contents!Init
    /\ OffStage

\* The scene of s is on, and the other components stand still.
Only(s) ==
    /\ scene = s /\ UNCHANGED scene
    /\ s # "location" => UNCHANGED vars
    /\ s # "consent" => UNCHANGED oauthVars
    /\ s # "list" => UNCHANGED listVars
    /\ s # "enrichment" => UNCHANGED enrichmentVars
    /\ s # "days" => UNCHANGED celebrationVars
    /\ s # "feed" => UNCHANGED discoveryVars
    /\ s # "catalog" => UNCHANGED catalogVars
    /\ s # "preference" => UNCHANGED preferenceVars
    /\ s # "advice" => UNCHANGED recommendationVars
    /\ s # "ics" => UNCHANGED feedVars
    /\ s # "import" => UNCHANGED importVars
    /\ s # "contents" => UNCHANGED contentVars

SceneNext ==
    \/ Only("location") /\ Next
    \/ Only("consent") /\ Consent!Next
    \/ Only("list") /\ List!Next
    \/ Only("enrichment") /\ Enrichment!Next
    \/ Only("days") /\ Days!Next
    \/ Only("feed") /\ Feed!Next
    \/ Only("catalog") /\ Catalog!Next
    \/ Only("preference") /\ Preference!Next
    \/ Only("advice") /\ Advice!Next
    \/ Only("ics") /\ Ics!Next
    \/ Only("import") /\ Monica!Next
    \/ Only("contents") /\ Contents!Next

SceneSpec == SceneInit /\ [][SceneNext]_sceneVars

-----------------------------------------------------------------------------
\* Every component keeps the types of its state.
TypesOK ==
    /\ TypeOK
    /\ scene = "consent" => Consent!TypeOK
    /\ scene = "list" => List!TypeOK
    /\ scene = "enrichment" => Enrichment!TypeOK
    /\ scene = "days" => Days!TypeOK
    /\ scene = "feed" => Feed!TypeOK
    /\ scene = "catalog" => Catalog!TypeOK
    /\ scene = "preference" => Preference!TypeOK
    /\ scene = "advice" => Advice!TypeOK
    /\ scene = "ics" => Ics!TypeOK
    /\ scene = "import" => Monica!TypeOK
    /\ scene = "contents" => Contents!TypeOK

\* What is stored or shown is what its source says, however runs, pages and saves
\* overlapped with its changes: the list of calendars and its token (CalendarList), the
\* events of a calendar (EventContents), the instances of a feed (IcsFeed), the pages of
\* the catalogue (EventCatalog), the sealed preferences (EventPreferences), the days to be
\* reminded of (Celebrations), and the contacts of an export (MonicaImport).  Visits rest on
\* the samples they are derived from (Location): on any, so it is enough to look at those
\* that are there before there are visits.
MatchesSource ==
    /\ scene = "location" /\ written = 0 /\ (\A q \in Requests : request[q] = Idle)
          => VisitsRestOn(samples)
    /\ scene = "list" => List!ListMatchesToken
    /\ scene = "ics" => Ics!ReadsTheWindow
    /\ scene = "catalog" => Catalog!PagesCoverListing
    /\ scene = "preference" => Preference!PreferenceReadable
    /\ scene = "days" => Days!RemindsOfTheNext
    /\ scene = "import" => Monica!ImportIsWhole
    /\ scene = "contents" => Contents!KeptAsTheirs

\* What may happen once happens once, however often it is asked for at the same time: a
\* consent makes one connection (GoogleOAuth), a field of a contact is filled by one
\* piece of evidence (ContactEnrichment).
OnceOnly ==
    /\ scene = "consent" => Consent!OneConnectionPerConsent
    /\ scene = "enrichment" => Enrichment!EvidenceFillsOnce

\* A change of the list of calendars that the connection was told of is listed or due.
NothingUntold == scene = "list" => List!ToldIsListedOrDue

\* A run of event discovery stores what it polled for the source as it is set now,
\* recommendations heed what the owner said and the calendar knew when they were made, and
\* an import overwrites nothing that an owner changed after it began.  A cancellation takes
\* no contents of an event away.
StepsAreCurrent ==
    [][/\ scene = "feed" => Feed!PolledAsSet
       /\ scene = "advice" /\ advised' # advised => Advice!GoodAdvice
       /\ scene = "import" => Monica!ImportLosesNothing
       /\ scene = "contents" => Contents!CancelledKeepsContents]_sceneVars

=============================================================================
