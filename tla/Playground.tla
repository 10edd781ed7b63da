----------------------------- MODULE Playground -----------------------------
(***************************************************************************)
(* A playground page of the web front end: the page's host                 *)
(* (playgrounds/host.ts) and the shim inside the sandboxed iframe          *)
(* (playgrounds/shim.js) know each other only by posted messages, and      *)
(* either may be up first.  The page is rendered by the server, so its     *)
(* iframe may have loaded before the host listens; the visitor leaves by   *)
(* client-side navigation, which keeps the window and its timers.          *)
(***************************************************************************)
EXTENDS Handlers, Sequences

CONSTANTS
    AppStates,  \* values an app passes to setState
    TooLarge,   \* those of them whose encoding is over MAX_ENCODED_STATE_BYTES
    AppCalls,    \* calls of tdh.fetch one document makes
    MaxPosted   \* bound: messages of the child under way

ASSUME PlaygroundAssumption ==
    /\ TooLarge \subseteq AppStates /\ None \notin AppStates
    /\ MaxPosted \in Nat \ {0}

VARIABLES
    frame,          \* the iframe: not there, blank, its document without the shim,
                    \* the same after an early load event, with the shim, and loaded
    hosted,         \* attachPlaygroundHost has run and has not been detached
    shareLink,      \* ?state= of the address bar
    latestState,    \* what the timer will write
    urlTimer,       \* pendingUrlUpdate # null
    toChild,        \* messages posted to contentWindow
    toParent,       \* messages posted to window.parent
    initialised,    \* the shim's flag: getState has resolved
    fetches,        \* fetches[c], the promise of a tdh.fetch
    proxied,        \* calls the host is fetching
    told            \* ghost: the state the app was given, then the last one it set

hostVars == <<hosted, shareLink, latestState, urlTimer, proxied>>
shimVars == <<initialised, fetches, told>>
playgroundVars == <<frame, hostVars, shimVars, toChild, toParent>>

Linked == (AppStates \ TooLarge) \cup {None}

MessagesToChild == [type : {"init"}, state : Linked] \cup [type : {"response"}, id : AppCalls]
MessagesToParent ==
    [type : {"ready"}] \cup [type : {"state"}, state : AppStates]
    \cup [type : {"call"}, id : AppCalls, allowed : BOOLEAN]

PlaygroundTypeOK ==
    /\ frame \in {"none", "blank", "document", "early", "shim", "loaded"}
    /\ hosted \in BOOLEAN /\ urlTimer \in BOOLEAN /\ initialised \in BOOLEAN
    /\ shareLink \in Linked
    /\ latestState \in AppStates \cup {None} /\ told \in AppStates \cup {None}
    /\ toChild \in Seq(MessagesToChild) /\ toParent \in Seq(MessagesToParent)
    /\ fetches \in [AppCalls -> {"none", "pending", "settled"}]
    /\ proxied \subseteq AppCalls

PlaygroundInit ==
    /\ frame = "none" /\ hosted = FALSE
    /\ shareLink = None /\ latestState = None /\ urlTimer = FALSE
    /\ toChild = <<>> /\ toParent = <<>>
    /\ initialised = FALSE
    /\ fetches = [c \in AppCalls |-> "none"]
    /\ proxied = {} /\ told = None

-----------------------------------------------------------------------------
(* The host.                                                               *)

InitMessage == [type |-> "init", state |-> shareLink]
ApiResponse(c) == [type |-> "response", id |-> c]

\* Mutant: Attach leaves INIT to READY and the load event.
AttachSilent ==
    /\ frame # "none" /\ ~hosted
    /\ hosted' = TRUE
    /\ UNCHANGED <<frame, shareLink, latestState, urlTimer, proxied, toChild, toParent, shimVars>>

\* onMount, at any time after the server's page is there: INIT is sent at once.
Attach ==
    /\ frame # "none" /\ ~hosted
    /\ hosted' = TRUE
    /\ toChild' = Append(toChild, InitMessage)
    /\ UNCHANGED <<frame, shareLink, latestState, urlTimer, proxied, toParent, shimVars>>

\* READY is answered by INIT; a new state starts the timer unless it runs; a
\* call is fetched, or refused for its path, its method or its shape.
HandleMessage(m) ==
    CASE m.type = "ready" ->
           /\ toChild' = Append(toChild, InitMessage)
           /\ UNCHANGED <<latestState, urlTimer, proxied>>
      [] m.type = "state" ->
           /\ latestState' = m.state /\ urlTimer' = TRUE
           /\ UNCHANGED <<proxied, toChild>>
      [] m.type = "call" ->
           /\ IF m.allowed THEN proxied' = proxied \cup {m.id} /\ UNCHANGED toChild
              ELSE toChild' = Append(toChild, ApiResponse(m.id)) /\ UNCHANGED proxied
           /\ UNCHANGED <<latestState, urlTimer>>

\* A message nobody listens for is lost.
ParentHears ==
    /\ toParent # <<>>
    /\ toParent' = Tail(toParent)
    /\ IF hosted THEN HandleMessage(Head(toParent))
       ELSE UNCHANGED <<latestState, urlTimer, proxied, toChild>>
    /\ UNCHANGED <<frame, hosted, shareLink, shimVars>>

\* replaceState on whatever page the window shows; too large a state is dropped.
UpdateUrl ==
    /\ urlTimer
    /\ urlTimer' = FALSE
    /\ shareLink' = IF latestState \in TooLarge THEN shareLink ELSE latestState
    /\ UNCHANGED <<frame, hosted, latestState, proxied, toChild, toParent, shimVars>>

\* The fetch is answered or fails; both are posted to the child.
ProxyAnswers(c) ==
    /\ c \in proxied
    /\ proxied' = proxied \ {c}
    /\ toChild' = Append(toChild, ApiResponse(c))
    /\ UNCHANGED <<frame, hosted, shareLink, latestState, urlTimer, toParent, shimVars>>

-----------------------------------------------------------------------------
(* The iframe.                                                             *)

\* What was posted to about:blank goes with it.
DocumentStarts ==
    /\ frame = "blank"
    /\ frame' = "document" /\ toChild' = <<>>
    /\ UNCHANGED <<hostVars, toParent, shimVars>>

ShimRuns ==
    /\ frame \in {"document", "early"}
    /\ frame' = IF frame = "document" THEN "shim" ELSE "loaded"
    /\ toParent' = Append(toParent, [type |-> "ready"])
    /\ UNCHANGED <<hostVars, toChild, shimVars>>

\* The load event, which the host answers as it does READY; some browsers fire
\* it before the shim has run.
FrameLoads ==
    /\ frame \in {"document", "shim"}
    /\ frame' = IF frame = "document" THEN "early" ELSE "loaded"
    /\ toChild' = IF hosted THEN Append(toChild, InitMessage) ELSE toChild
    /\ UNCHANGED <<hostVars, toParent, shimVars>>

\* Only the first INIT resolves getState; before the shim nobody listens.
ChildHears ==
    LET m == Head(toChild)
        resolves == m.type = "init" /\ ~initialised
    IN  /\ toChild # <<>>
        /\ toChild' = Tail(toChild)
        /\ IF frame \notin {"shim", "loaded"} THEN UNCHANGED shimVars
           ELSE /\ initialised' = (initialised \/ resolves)
                /\ told' = IF resolves THEN m.state ELSE told
                /\ fetches' = IF m.type = "init" THEN fetches
                              ELSE [fetches EXCEPT ![m.id] = "settled"]
        /\ UNCHANGED <<frame, hostVars, toParent>>

\* The apps set and fetch only once getState has resolved.
SetState(s) ==
    /\ initialised /\ Len(toParent) < MaxPosted
    /\ told' = s
    /\ toParent' = Append(toParent, [type |-> "state", state |-> s])
    /\ UNCHANGED <<frame, hostVars, toChild, initialised, fetches>>

Fetch(c, allowed) ==
    /\ initialised /\ fetches[c] = "none" /\ Len(toParent) < MaxPosted
    /\ fetches' = [fetches EXCEPT ![c] = "pending"]
    /\ toParent' = Append(toParent, [type |-> "call", id |-> c, allowed |-> allowed])
    /\ UNCHANGED <<frame, hostVars, toChild, initialised, told>>

-----------------------------------------------------------------------------
(* The visitor.                                                            *)

\* With a shared link or without; a timer left behind is still running.
EnterPage(s) ==
    /\ frame = "none"
    /\ frame' = "blank" /\ shareLink' = s /\ told' = s
    /\ UNCHANGED <<hosted, latestState, urlTimer, proxied, toChild, toParent, initialised, fetches>>

\* The iframe is gone with its messages, its promises and its flag.
PageGone ==
    /\ frame # "none"
    /\ frame' = "none" /\ shareLink' = None /\ told' = None
    /\ hosted' = FALSE
    /\ toChild' = <<>> /\ toParent' = <<>>
    /\ initialised' = FALSE
    /\ fetches' = [c \in AppCalls |-> "none"]
    /\ proxied' = {}

\* onDestroy, or a reload.
LeavePage == PageGone /\ latestState' = None /\ urlTimer' = FALSE

PlaygroundNext ==
    \/ Attach \/ ParentHears \/ UpdateUrl
    \/ DocumentStarts \/ ShimRuns \/ FrameLoads \/ ChildHears
    \/ \E s \in AppStates : SetState(s)
    \/ \E c \in AppCalls, allowed \in BOOLEAN : Fetch(c, allowed)
    \/ \E c \in AppCalls : ProxyAnswers(c)
    \/ \E s \in Linked : EnterPage(s)
    \/ LeavePage

PlaygroundSpec == PlaygroundInit /\ [][PlaygroundNext]_playgroundVars

-----------------------------------------------------------------------------
(* Properties.                                                             *)

Quiet == toChild = <<>> /\ toParent = <<>> /\ ~urlTimer /\ proxied = {}

\* Whatever the order in which the host and the shim came up, once nothing is
\* under way the app has its state, every call it made is settled, and the
\* address bar shows the last state it set, unless that one is too large; a page
\* without a playground keeps the address it has (host.ts:74-94 "what we MUST
\* avoid is zero INITs reaching a loaded shim", :263-270).
AtRest ==
    /\ hosted /\ Quiet /\ frame \in {"shim", "loaded"} =>
        /\ initialised
        /\ told \notin TooLarge => shareLink = told
        /\ \A c \in AppCalls : fetches[c] # "pending"
    /\ frame = "none" => shareLink = None

\* What AtRest rests on: which messages are under way.
Readies == [type : {"ready"}]
Inits == [type : {"init"}, state : Linked]
NewStates == [type : {"state"}, state : AppStates]
CallsOf(c) == [type : {"call"}, id : {c}, allowed : BOOLEAN]
ResponsesTo(c) == [type : {"response"}, id : {c}]

UnderWay(box, kind) == \E i \in DOMAIN box : box[i] \in kind

\* The last message of the kind says s.
LastSays(box, kind, s) ==
    \A i \in DOMAIN box :
        box[i] \in kind /\ (\A j \in DOMAIN box : j > i => box[j] \notin kind) => box[i].state = s

\* Nobody posts to the child but the host, and nothing outlives the page.
PageInv ==
    /\ initialised => hosted /\ frame \in {"shim", "loaded"}
    /\ hosted => frame # "none"
    /\ ~hosted => toChild = <<>>
    /\ frame = "none" => shareLink = None /\ told = None /\ toParent = <<>>

\* A shim that waits has an INIT coming, or its READY is yet to be answered.
HandshakeInv ==
    hosted /\ frame \in {"shim", "loaded"} /\ ~initialised =>
        UnderWay(toParent, Readies) \/ UnderWay(toChild, Inits)

\* Until then the app has done nothing, and every INIT says what the link says.
FreshInv ==
    ~initialised =>
        /\ ~urlTimer /\ proxied = {} /\ told = shareLink
        /\ \A c \in AppCalls : fetches[c] = "none"
        /\ \A i \in DOMAIN toParent : toParent[i] \in Readies
        /\ \A i \in DOMAIN toChild : toChild[i] = InitMessage

\* The state the app set last is on its way to the address bar, or is there.
StateInv ==
    /\ LastSays(toParent, NewStates, told)
    /\ ~UnderWay(toParent, NewStates) =>
          IF urlTimer THEN latestState = told ELSE told \notin TooLarge => shareLink = told

\* A pending call is somewhere between the two sides.
FetchInv ==
    \A c \in AppCalls : fetches[c] = "pending" =>
        c \in proxied \/ UnderWay(toParent, CallsOf(c)) \/ UnderWay(toChild, ResponsesTo(c))

PlaygroundIInv ==
    PlaygroundTypeOK /\ PageInv /\ HandshakeInv /\ FreshInv /\ StateInv /\ FetchInv
=============================================================================
