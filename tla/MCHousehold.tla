---------------------------- MODULE MCHousehold ----------------------------
(* The pets, the timeline, the feeder's meals and a device's settings share  *)
(* no variable, so each is explored beside the others at rest: `focus' says  *)
(* which.                                                                    *)
EXTENDS MCPets, MCStories, FeedPlan, Settings, Visits
VARIABLE focus

\* A device as the defaults have it, and one whose level differs and is not shown.
MCShipped == {DefaultSettings, [DefaultSettings EXCEPT !.surplusStandard = 1]}

HouseholdInit ==
  /\ Init /\ TimelineInit /\ FeedInit /\ SettingsInit
  /\ aliases[1] = {}    \* at the start the foreign identity is nobody's or pet 2's
  /\ focus \in {"pets", "visits", "meals", "settings"}
  /\ focus # "pets" => aliases[2] = {}
  /\ focus # "visits" => story = CHOOSE s \in Stories : TRUE
  /\ focus # "meals" => feed = NoFeed
  /\ focus # "settings" => actual = DefaultSettings

HouseholdNext ==
  /\ UNCHANGED focus
  /\ \/ /\ focus = "pets" /\ Next
        /\ started' + kills' <= 3    \* bound: three requests, or two and a kill
        /\ UNCHANGED <<timelineVars, feedVars, settingsVars>>
     \/ focus = "visits" /\ TimelineNext /\ UNCHANGED <<vars, feedVars, settingsVars>>
     \/ /\ focus = "meals" /\ FeedNext
        /\ copy' # copy => edits < MaxEdits    \* an editor opened later saves nothing
        /\ UNCHANGED <<vars, timelineVars, settingsVars>>
     \/ /\ focus = "settings" /\ SettingsNext
        /\ writes' + changes' + pulls' <= 3    \* bound: of the four, three at a time
        /\ UNCHANGED <<vars, timelineVars, feedVars>>

HouseholdSpec ==
  HouseholdInit /\ [][HouseholdNext]_<<vars, timelineVars, feedVars, settingsVars, focus>>

TypesOK == TypeOK /\ TimelineTypeOK /\ FeedTypeOK /\ SettingsTypeOK
=============================================================================
