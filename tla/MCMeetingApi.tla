----------------------------- MODULE MCMeetingApi -----------------------------
(* MeetingApi with one stream, one JSON calculation and one details request *)
(* over two meeting requests, two artifacts and two references.             *)
EXTENDS MeetingApi, TLC

CONSTANTS stream, post, details

MCKind == (stream :> "stream") @@ (post :> "post") @@ (details :> "details")

MCBases == [body : Bodies, artifact : Artifacts, status : {"ok", "no-result"}]

===============================================================================
