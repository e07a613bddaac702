----------------------------- MODULE DungeonMaster -----------------------------
(* A game session of two participants (modules/dungeon-master/             *)
(* dungeon-master.service.ts, dm-state-machine.ts).  A request reads the   *)
(* session, which expires it when its deadline has passed, decides on what *)
(* it read, and writes later; only the two calls of the language model     *)
(* work under a claim that the last write checks.                          *)
(*                                                                         *)
(* The XState actor of the service is shared by every session and read by  *)
(* nothing; the status of the row is the state of the machine.             *)
EXTENDS Integers, FiniteSets

CONSTANTS
    Players,        \* the participants: 1 invites, 2 is invited
    GameRequests,   \* concurrent requests
    TotalScenes,    \* DungeonMasterScenario.totalScenes
    SceneDeadline,  \* SCENE_DEADLINE_HOURS
    ClaimTimeout,   \* LLM_CLAIM_TIMEOUT_MS
    MaxGameClock, MaxScene, MaxAwards   \* bounds on the clock, the scene and the awards

VARIABLES
    session,     \* the DMSession row
    responses,   \* the DMSceneResponse rows: <<player, scene>>
    request,     \* local state of each request
    gameClock,
    awards,      \* how often the scenario's XP was added to both participants
    reopened     \* history: how often a completed session was written back to another status

gameVars == <<session, responses, request, gameClock, awards, reopened>>

Nil == -1
Waiting == [stage |-> "idle", player |-> 1, status |-> "waiting", scene |-> 0, claim |-> Nil]
Expirable == {"waiting", "active", "scene_submission", "scene_review"}

Init ==
    /\ session = [status |-> "waiting", scene |-> 0, narrative |-> Nil, sceneStartedAt |-> Nil,
                  debriefStartedAt |-> Nil, deadline |-> SceneDeadline]
    /\ responses = {}
    /\ request = [r \in GameRequests |-> Waiting]
    /\ gameClock = 0
    /\ awards = 0
    /\ reopened = 0

Stale(startedAt) == startedAt # Nil /\ startedAt < gameClock - ClaimTimeout
Finished(r) == request' = [request EXCEPT ![r] = Waiting]
Goes(r, stage) == request' = [request EXCEPT ![r].stage = stage]
Reopens == reopened' = reopened + (IF session.status = "completed" THEN 1 ELSE 0)

(* getSession.                                                             *)
Overdue == session.deadline # Nil /\ gameClock > session.deadline /\ session.status \in Expirable

(* What a request of each kind accepts in the session it read. *)
MayBegin(stage, player) ==
    CASE stage = "accept" -> player = 2 /\ session.status = "waiting"
      [] stage = "begin" -> \/ session.status = "active"
                            \/ session.status = "scene_processing" /\ Stale(session.sceneStartedAt)
      [] stage = "submit" -> session.status = "scene_submission"
      [] stage = "advance" -> session.status = "scene_review"
      [] stage = "debrief" -> \/ session.status = "debrief"
                              \/ session.status = "debrief_processing" /\ Stale(session.debriefStartedAt)

ReadSession(r, stage, player) ==
    /\ request[r].stage = "idle"
    /\ IF Overdue
       THEN /\ session' = [session EXCEPT !.status = "expired"]
            /\ UNCHANGED request
       ELSE /\ MayBegin(stage, player)
            /\ request' = [request EXCEPT ![r] = [stage |-> stage, player |-> player,
                              status |-> session.status, scene |-> session.scene, claim |-> Nil]]
            /\ UNCHANGED session
    /\ UNCHANGED <<responses, gameClock, awards, reopened>>

(* Statements that write on what the request read.                         *)
Accept(r) ==
    /\ request[r].stage = "accept"
    /\ session' = [session EXCEPT !.status = "active", !.deadline = gameClock + SceneDeadline]
    /\ Reopens
    /\ Finished(r)
    /\ UNCHANGED <<responses, gameClock, awards>>

Submit(r) ==
    LET response == <<request[r].player, request[r].scene>>
    IN  /\ request[r].stage = "submit"
        /\ responses' = responses \cup {response}
        /\ IF response \in responses THEN Finished(r) ELSE Goes(r, "count")
        /\ UNCHANGED <<session, gameClock, awards, reopened>>

CountResponses(r) ==
    /\ request[r].stage = "count"
    /\ IF Cardinality({x \in responses : x[2] = session.scene}) >= 2
       THEN Goes(r, "review") ELSE Finished(r)
    /\ UNCHANGED <<session, responses, gameClock, awards, reopened>>

Review(r) ==
    /\ request[r].stage = "review"
    /\ session' = [session EXCEPT !.status = "scene_review"]
    /\ Reopens
    /\ Finished(r)
    /\ UNCHANGED <<responses, gameClock, awards>>

getNextState(scene) == IF scene >= TotalScenes - 1 THEN "debrief" ELSE "scene_submission"

Advance(r) ==
    LET scene == request[r].scene
    IN  /\ request[r].stage = "advance"
        /\ scene < MaxScene
        /\ session' = IF getNextState(scene) = "debrief"
                      THEN [session EXCEPT !.status = "debrief", !.scene = scene + 1, !.deadline = Nil]
                      ELSE [session EXCEPT !.status = "active", !.scene = scene + 1, !.narrative = Nil]
        /\ Reopens
        /\ Finished(r)
        /\ UNCHANGED <<responses, gameClock, awards>>

(* The narrative of a scene, and the debrief, under a claim.               *)
Claimable(r, processing, startedAt) ==
    /\ session.status = request[r].status
    /\ session.status = processing => Stale(startedAt)

Narrating(r) ==
    /\ session.status = "scene_processing"
    /\ session.scene = request[r].scene
    /\ session.sceneStartedAt = request[r].claim

ClaimScene(r) ==
    /\ request[r].stage = "begin"
    /\ IF Claimable(r, "scene_processing", session.sceneStartedAt) /\ session.scene = request[r].scene
       THEN /\ session' = [session EXCEPT !.status = "scene_processing", !.sceneStartedAt = gameClock]
            /\ request' = [request EXCEPT ![r].stage = "narrate", ![r].claim = gameClock]
       ELSE Finished(r) /\ UNCHANGED session
    /\ UNCHANGED <<responses, gameClock, awards, reopened>>

CompleteScene(r) ==
    /\ request[r].stage = "narrate"
    /\ session' = IF Narrating(r)
                  THEN [session EXCEPT !.status = "scene_submission", !.sceneStartedAt = Nil,
                          !.narrative = request[r].scene, !.deadline = gameClock + SceneDeadline]
                  ELSE session
    /\ Finished(r)
    /\ UNCHANGED <<responses, gameClock, awards, reopened>>

ReleaseScene(r) ==
    /\ request[r].stage = "narrate"
    /\ session' = IF Narrating(r)
                  THEN [session EXCEPT !.status = "active", !.sceneStartedAt = Nil] ELSE session
    /\ Finished(r)
    /\ UNCHANGED <<responses, gameClock, awards, reopened>>

Unchecked(r) == TRUE

Debriefing(r) == session.status = "debrief_processing" /\ session.debriefStartedAt = request[r].claim

ClaimDebrief(r) ==
    /\ request[r].stage = "debrief"
    /\ IF Claimable(r, "debrief_processing", session.debriefStartedAt)
       THEN /\ session' = [session EXCEPT !.status = "debrief_processing", !.debriefStartedAt = gameClock]
            /\ request' = [request EXCEPT ![r].stage = "judge", ![r].claim = gameClock]
       ELSE Finished(r) /\ UNCHANGED session
    /\ UNCHANGED <<responses, gameClock, awards, reopened>>

(* One transaction: the claim is checked, and both participants are paid. *)
CompleteDebrief(r) ==
    /\ request[r].stage = "judge"
    /\ awards < MaxAwards
    /\ IF Debriefing(r)
       THEN /\ session' = [session EXCEPT !.status = "completed", !.debriefStartedAt = Nil]
            /\ awards' = awards + 1
       ELSE UNCHANGED <<session, awards>>
    /\ Finished(r)
    /\ UNCHANGED <<responses, gameClock, reopened>>

ReleaseDebrief(r) ==
    /\ request[r].stage = "judge"
    /\ session' = IF Debriefing(r)
                  THEN [session EXCEPT !.status = "debrief", !.debriefStartedAt = Nil] ELSE session
    /\ Finished(r)
    /\ UNCHANGED <<responses, gameClock, awards, reopened>>

(* The process dies, and with it the request. *)
Lose(r) ==
    /\ request[r].stage # "idle"
    /\ Finished(r)
    /\ UNCHANGED <<session, responses, gameClock, awards, reopened>>

Tick ==
    /\ gameClock < MaxGameClock
    /\ gameClock' = gameClock + 1
    /\ UNCHANGED <<session, responses, request, awards, reopened>>

Next ==
    \/ \E r \in GameRequests :
          \/ \E player \in Players : \E stage \in {"accept", "begin", "submit", "advance", "debrief"} :
                 ReadSession(r, stage, player)
          \/ Accept(r) \/ Submit(r) \/ CountResponses(r) \/ Review(r) \/ Advance(r)
          \/ ClaimScene(r) \/ CompleteScene(r) \/ ReleaseScene(r)
          \/ ClaimDebrief(r) \/ CompleteDebrief(r) \/ ReleaseDebrief(r) \/ Lose(r)
    \/ Tick

Spec == Init /\ [][Next]_gameVars

(* The XP of a session is awarded once, however its debriefs are claimed,  *)
(* taken over, lost and retried.  Statements that write without looking at *)
(* the status may bring a completed session back, and each time it does    *)
(* may be paid again: they are counted.  While participants may answer,    *)
(* the narrative is the one of their scene.                                *)
PaidOncePerEnd ==
    /\ awards <= 1 + reopened
    /\ session.status = "completed" => awards = 1 + reopened
    /\ session.status = "scene_submission" => session.narrative = session.scene
================================================================================
