------------------------------ MODULE Services ------------------------------
(***************************************************************************)
(* The services that share no row, lock or clock with one another, side by *)
(* side: a behaviour is one of one of them, the others stand still.  What  *)
(* holds of each behaviour of each holds of them all, for no property here *)
(* relates two of them.                                                    *)
(***************************************************************************)
EXTENDS Sessions, Submissions, Comments, OAuth, RateLimit, Materialise, Throttle, Tiers, Pages,
        Calendar, Bookmarks, Collections, LlmsTxt, Jwks, Playground

VARIABLE part   \* the service that is observed

Parts == {"sessions", "submissions", "comments", "oauth", "rate limits",
          "materialise", "throttle", "tiers", "pages", "calendar",
          "bookmarks", "collections", "llms.txt", "jwks",
          "playground"}

allVars == <<part, sessionVars, submissionVars, commentVars, oauthVars, rateLimitVars,
             materialiseVars, throttleVars, tierVars, pageVars,
             calendarVars, bookmarkVars, collectionVars, llmsVars, jwksVars,
             playgroundVars>>

ServicesInit ==
    /\ part \in Parts
    /\ SessionInit /\ SubmissionInit /\ CommentInit /\ OAuthInit /\ RateLimitInit
    /\ MaterialiseInit /\ ThrottleInit /\ TiersInit /\ PagesInit
    /\ CalendarInit /\ (part # "calendar" => today = FirstDay)
    /\ BookmarkInit /\ CollectionInit /\ LlmsInit /\ JwksInit
    /\ PlaygroundInit

Still(name, variables) == part # name => UNCHANGED variables

\* Only the observed service moves.
OthersStill ==
    /\ UNCHANGED part
    /\ Still("sessions", sessionVars) /\ Still("submissions", submissionVars)
    /\ Still("comments", commentVars) /\ Still("oauth", oauthVars)
    /\ Still("rate limits", rateLimitVars) /\ Still("materialise", materialiseVars)
    /\ Still("throttle", throttleVars) /\ Still("tiers", tierVars) /\ Still("pages", pageVars)
    /\ Still("calendar", calendarVars) /\ Still("bookmarks", bookmarkVars)
    /\ Still("collections", collectionVars) /\ Still("llms.txt", llmsVars)
    /\ Still("jwks", jwksVars) /\ Still("playground", playgroundVars)

ServicesNext ==
    \/ part = "sessions" /\ SessionNext /\ OthersStill
    \/ part = "submissions" /\ SubmissionNext /\ OthersStill
    \/ part = "comments" /\ CommentNext /\ OthersStill
    \/ part = "oauth" /\ OAuthNext /\ OthersStill
    \/ part = "rate limits" /\ RateLimitNext /\ OthersStill
    \/ part = "materialise" /\ MaterialiseNext /\ OthersStill
    \/ part = "throttle" /\ ThrottleNext /\ OthersStill
    \/ part = "tiers" /\ TiersNext /\ OthersStill
    \/ part = "pages" /\ PagesNext /\ OthersStill
    \/ part = "calendar" /\ CalendarNext /\ OthersStill
    \/ part = "bookmarks" /\ BookmarkNext /\ OthersStill
    \/ part = "collections" /\ CollectionNext /\ OthersStill
    \/ part = "llms.txt" /\ LlmsNext /\ OthersStill
    \/ part = "jwks" /\ JwksNext /\ OthersStill
    \/ part = "playground" /\ PlaygroundNext /\ OthersStill

ServicesSpec == ServicesInit /\ [][ServicesNext]_allVars
=============================================================================
