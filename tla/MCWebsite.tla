----------------------------- MODULE MCWebsite -----------------------------
(***************************************************************************)
(* The web site of Battle of the Galaxies on small instances: two circuits *)
(* that upload the same or another file while the sanity checks run; and   *)
(* the scoreboard of two teams over two rounds.  The parts keep separate   *)
(* state; scene, fixed by the initial state, says which of them runs.      *)
(***************************************************************************)
EXTENDS Uploads, Scoreboard

VARIABLE scene

NoRating == -2
UnknownRating == -1

commit == uploadVars
board == vars
website == << scene, commit, board >>

WebsiteInit ==
    /\ scene \in {"uploads", "scoreboard"}
    /\ UploadInit
    /\ ScoreInit
    /\ scene = "uploads" => \A t \in Teams : binary[t] = 0

Uploading(A) == scene = "uploads" /\ A /\ UNCHANGED << scene, board >>
Showing(A)   == scene = "scoreboard" /\ A /\ UNCHANGED << scene, commit >>

WebsiteNext == Uploading(UploadNext) \/ Showing(ScoreNext)

(* Checks and refreshes are loops that survive every exception; and a      *)
(* launch that can succeed is not answered by an exception for ever, since *)
(* every launch draws a map of its own (random.Next()).                    *)
WebsiteFairness ==
    /\ WF_website(Uploading(Proceed))
    /\ SF_website(Uploading(Play))
    /\ WF_website(Showing(Refresh))

WebsiteSpec == WebsiteInit /\ [][WebsiteNext]_website /\ WebsiteFairness

-----------------------------------------------------------------------------
(* Every binary is judged, and every round shown, in the end               *)
(* (SanityCheckRunner.cs:17, ScoreboardCache.cs:15-25).                    *)
WebsiteGoesOn == RowsAreJudged /\ ScoreboardCatchesUp
=============================================================================
