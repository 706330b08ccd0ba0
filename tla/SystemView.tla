----------------------------- MODULE SystemView -----------------------------
(***************************************************************************)
(* One tab of the dashboard's System area (ui/src/components/              *)
(* SystemView.tsx with lib/systemLog.ts and lib/api.ts) reading the ring   *)
(* of LogRing over HTTP.  The hook useRing follows the tail with a poll    *)
(* every five seconds (since = newest cursor held) and pages backwards on  *)
(* demand (before = oldest cursor held).  A request is captured when it is *)
(* sent, answered by the service later, and delivered to the view later    *)
(* still; the cleanup of the effect cancels polls, and never cancels the   *)
(* request for an older page.                                              *)
(*                                                                         *)
(* The list is the set of its entries: it is sorted by cursor and has one  *)
(* entry for a cursor whenever it changes.                                 *)
(***************************************************************************)
EXTENDS LogRing, Sequences

CONSTANTS Page,        \* PAGE_SIZE
          Keep,        \* KEEP_ENTRIES
          MaxPolls,    \* bound: polls in flight (a slow answer outlives 5 s)
          MaxEvents    \* bound: filter, pause and tab changes and failed requests

ASSUME SystemViewAssumption ==
    /\ {Page, Keep} \subseteq Nat \ {0}
    /\ {MaxPolls, MaxEvents} \subseteq Nat

VARIABLES shown,     \* RingState: [entries, atOldest]
          level,     \* the level filter, part of filterKey
          active,    \* this tab is the visible one
          paused,    \* the pause button
          polls,     \* polls in flight that the effect has not cancelled,
                     \* in the order they were sent
          older,     \* the older page in flight (loadingOlder), or NoRequest
          events,    \* how many of those, for the bound
          spoiled    \* history: what has disturbed the list since it was
                     \* last filled from nothing

viewVars == <<ring, nextSeq, run, pushes, shown, level, active, paused,
              polls, older, events, spoiled>>

AllLevels == Max(Levels)    \* "" of the level filter

NoPage == [entries |-> {}, reset |-> FALSE, more |-> FALSE, run |-> -1, last |-> 0]
\* "late" is for the properties: since the request was sent the list has
\* been emptied, filled anew or trimmed.
Query(cursor, minLevel) ==
    [cursor |-> cursor, level |-> minLevel, page |-> NoPage, late |-> FALSE]
Request(cursor) == Query(cursor, level)
NoRequest == Query(-1, 0)

\* The requests in flight but for the i-th.
Without(requests, i) ==
    [j \in 1 .. Len(requests) - 1 |-> requests[IF j < i THEN j ELSE j + 1]]

\* emptyRingState
Blank == [entries |-> {}, atOldest |-> FALSE]

\* newestCursor and oldestCursor
Newest(entries) == IF entries = {} THEN None ELSE Max({e.seq : e \in entries})
Oldest(entries) == IF entries = {} THEN None ELSE Min({e.seq : e \in entries})

\* deduplicate(sortNewestFirst([...first, ...second])): the sort is stable,
\* so of two entries with one cursor the one listed first is kept.
Merge(first, second) ==
    first \cup {e \in second : \A f \in first : f.seq # e.seq}

\* replaceAll
StartOver(page) == [entries |-> page.entries, atOldest |-> page.entries = {}]

\* Mutant of MergeNewer: trimming the tail forgets to re-open the older end.
MergeNewerKeepsEnd(state, page) ==
    IF page.reset THEN StartOver(page)
    ELSE [entries |-> Top(Merge(page.entries, state.entries), Keep),
          atOldest |-> state.atOldest]

\* Mutant of MergeNewer: a page that reports a reset is merged like any other.
MergeNewerIgnoresReset(state, page) ==
    LET merged  == Merge(page.entries, state.entries)
        trimmed == Top(merged, Keep)
    IN  [entries |-> trimmed, atOldest |-> state.atOldest /\ trimmed = merged]

\* mergeNewer
MergeNewer(state, page) ==
    LET merged  == Merge(page.entries, state.entries)
        trimmed == Top(merged, Keep)
    IN  IF page.reset THEN StartOver(page)
        ELSE [entries |-> trimmed, atOldest |-> state.atOldest /\ trimmed = merged]

\* appendOlder
AppendOlder(state, page) ==
    IF page.entries = {} THEN [state EXCEPT !.atOldest = TRUE]
    ELSE [entries |-> Merge(state.entries, page.entries), atOldest |-> FALSE]

ViewInit ==
    /\ RingInit
    /\ shown = Blank
    /\ level = AllLevels
    /\ active = TRUE
    /\ paused = FALSE
    /\ polls = <<Query(None, AllLevels)>>
    /\ older = NoRequest
    /\ events = 0
    /\ spoiled = {}

\* What undermines the list when a poll's page is merged into it: the page
\* does not meet the list (it was cut off above it, was asked for from above
\* it, or was overtaken by a later poll and lies below it), or it comes from
\* another process run than the list and the cursor could not tell.
PollSpoils(request) ==
    LET page == request.page
        gap  == /\ page.entries # {}
                /\ \/ /\ Oldest(page.entries) > Newest(shown.entries)
                      /\ page.more \/ request.cursor > Newest(shown.entries)
                   \/ Newest(page.entries) < Oldest(shown.entries)
        mixed == /\ request.cursor <= page.last
                 /\ \E e \in shown.entries : e.run # page.run
    IN  (IF gap THEN {"polls out of step"} ELSE {}) \cup (IF mixed THEN {"unnoticed restart"} ELSE {})

\* The same for an older page: the list it was asked for is no longer the
\* one it is appended to.
OlderSpoils ==
    LET mixed == \E e \in shown.entries : e.run # older.page.run
    IN  (IF older.late THEN {"late older page"} ELSE {}) \cup (IF mixed THEN {"unnoticed restart"} ELSE {})

Overtaken(changed) ==
    IF older # NoRequest /\ changed THEN [older EXCEPT !.late = TRUE] ELSE older

\* setInterval: the next poll is sent.
Poll ==
    /\ active /\ ~paused
    /\ Len(polls) < MaxPolls
    /\ polls' = Append(polls, Request(Newest(shown.entries)))
    /\ UNCHANGED <<ringVars, shown, level, active, paused, older, events, spoiled>>

\* loadOlder, from the button below a list that is not at its end.
LoadOlder ==
    /\ older = NoRequest
    /\ active /\ shown.entries # {} /\ ~shown.atOldest
    /\ older' = Request(Oldest(shown.entries))
    /\ UNCHANGED <<ringVars, shown, level, active, paused, polls, events, spoiled>>

\* logs_handler answers a poll, or the request for an older page.
ServePoll(i) ==
    /\ i \in DOMAIN polls /\ polls[i].page = NoPage
    /\ polls' = [polls EXCEPT ![i].page = ReadPage(polls[i].cursor, None, polls[i].level, Page)]
    /\ UNCHANGED <<ringVars, shown, level, active, paused, older, events, spoiled>>

ServeOlder ==
    /\ older # NoRequest /\ older.page = NoPage
    /\ older' = [older EXCEPT !.page = ReadPage(None, older.cursor, older.level, Page)]
    /\ UNCHANGED <<ringVars, shown, level, active, paused, polls, events, spoiled>>

\* setState in poll().
DeliverPoll(i) ==
    /\ i \in DOMAIN polls /\ polls[i].page # NoPage
    /\ polls' = Without(polls, i)
    /\ LET page == polls[i].page
           anew == shown.entries = {} \/ page.reset
       IN  /\ shown' = IF shown.entries = {} THEN StartOver(page) ELSE MergeNewer(shown, page)
           /\ spoiled' = IF anew THEN {} ELSE spoiled \cup PollSpoils(polls[i])
           /\ older' = Overtaken(anew \/ Oldest(shown'.entries) # Oldest(shown.entries))
    /\ UNCHANGED <<ringVars, level, active, paused, events>>

\* setState in loadOlder().
DeliverOlder ==
    /\ older # NoRequest /\ older.page # NoPage
    /\ older' = NoRequest
    /\ shown' = AppendOlder(shown, older.page)
    /\ spoiled' = spoiled \cup OlderSpoils
    /\ UNCHANGED <<ringVars, level, active, paused, polls, events>>

\* A request fails; the list keeps its content.
RequestFails ==
    /\ events < MaxEvents
    /\ events' = events + 1
    /\ \/ /\ \E i \in DOMAIN polls : polls' = Without(polls, i)
          /\ UNCHANGED older
       \/ /\ older # NoRequest
          /\ older' = NoRequest
          /\ UNCHANGED polls
    /\ UNCHANGED <<ringVars, shown, level, active, paused, spoiled>>

\* Mutant of RestartEffect: the cleanup does not cancel.
RestartEffectUncancelled(entries) ==
    polls' = IF active' THEN Append(polls, Query(Newest(entries), level')) ELSE polls

\* The polling effect runs again: its cleanup cancels the polls in flight and
\* a visible tab sends one at once, paused or not.
RestartEffect(entries) ==
    polls' = IF active' THEN <<Query(Newest(entries), level')>> ELSE <<>>

\* A new filterKey empties the list and its cursor.
ChangeFilter ==
    /\ events < MaxEvents
    /\ events' = events + 1
    /\ active
    /\ level' \in Levels \ {level}
    /\ shown' = Blank
    /\ spoiled' = {}
    /\ UNCHANGED <<active, paused>>
    /\ RestartEffect({})
    /\ older' = Overtaken(TRUE)
    /\ UNCHANGED ringVars

TogglePause ==
    /\ events < MaxEvents
    /\ events' = events + 1
    /\ active
    /\ paused' = ~paused
    /\ UNCHANGED <<level, active>>
    /\ RestartEffect(shown.entries)
    /\ UNCHANGED <<ringVars, shown, older, spoiled>>

SwitchTab ==
    /\ events < MaxEvents
    /\ events' = events + 1
    /\ active' = ~active
    /\ UNCHANGED <<level, paused>>
    /\ RestartEffect(shown.entries)
    /\ UNCHANGED <<ringVars, shown, older, spoiled>>

Service == /\ Capture \/ Restart
           /\ UNCHANGED <<shown, level, active, paused, polls, older, events, spoiled>>

ViewNext ==
    \/ Service
    \/ Poll \/ LoadOlder
    \/ \E i \in 1 .. MaxPolls : ServePoll(i) \/ DeliverPoll(i)
    \/ ServeOlder \/ DeliverOlder \/ RequestFails
    \/ ChangeFilter \/ TogglePause \/ SwitchTab

ViewSpec ==
    /\ ViewInit /\ [][ViewNext]_viewVars
    /\ WF_viewVars(Poll)
    /\ WF_viewVars(ServePoll(1)) /\ WF_viewVars(DeliverPoll(1))
----------------------------------------------------------------------------
PageType ==
    [entries : SUBSET Entry, reset : BOOLEAN, more : BOOLEAN,
     run : 0 .. MaxRestarts, last : Nat] \cup {NoPage}

RequestType == [cursor : Nat, level : Levels, page : PageType, late : BOOLEAN]

ViewTypeOK ==
    /\ ring \subseteq Record
    /\ nextSeq \in Nat \ {0} /\ run \in 0 .. MaxRestarts /\ pushes \in 0 .. MaxPushes
    /\ shown \in [entries : SUBSET Entry, atOldest : BOOLEAN]
    /\ level \in Levels
    /\ active \in BOOLEAN /\ paused \in BOOLEAN
    /\ polls \in Seq(RequestType)
    /\ older \in RequestType \cup {NoRequest}
    /\ events \in 0 .. MaxEvents
    /\ spoiled \subseteq {"polls out of step", "unnoticed restart", "late older page"}

\* The records of the ring the filter admits.
Wanted == {EntryOf(r) : r \in {q \in ring : q.level <= level}}

\* Every entry held passes the filter the view shows, unless a page asked for
\* under another filter arrived late (useRing, SystemView.tsx:100-115).
ShownAsFiltered ==
    "late older page" \notin spoiled =>
        \A e \in shown.entries : e.level <= level

\* A list that nothing has disturbed comes from one process run, and holds
\* every admitted record of the ring between its newest and oldest entry.
NoHole ==
    spoiled = {} =>
        /\ \A e, f \in shown.entries : e.run = f.run
        /\ \A r \in Wanted :
              (/\ \A e \in shown.entries : e.run = run
               /\ Oldest(shown.entries) <= r.seq /\ r.seq <= Newest(shown.entries))
              => r \in shown.entries

\* "You have reached the oldest entry" is only said when the ring holds no
\* admitted record older than the list (atOldest, systemLog.ts:73-110).
AtOldestIsHonest ==
    (spoiled = {} /\ shown.atOldest /\ shown.entries # {}) =>
        \A r \in Wanted :
            (\A e \in shown.entries : e.run = run) => r.seq >= Oldest(shown.entries)

\* A visible, unpaused view catches up with the newest admitted record and
\* stays there, also across a restart of the service, unless the restart
\* went unnoticed or a late older page has put a foreign cursor on top.
CaughtUp ==
    Wanted # {} =>
        \E r \in Wanted : /\ \A q \in Wanted : q.seq <= r.seq
                          /\ r \in shown.entries
FollowsTail ==
    (<>[](active /\ ~paused /\ spoiled \subseteq {"polls out of step"})) => <>[]CaughtUp

\* application-log-buffer/spec.md:253-255: the whole retained window is
\* reachable; when the view says it is at the oldest entry and nothing is in
\* flight, every admitted record up to its newest entry has been loaded.
WholeWindowReached ==
    (/\ shown.atOldest /\ shown.entries # {}
     /\ polls = <<>>
     /\ older = NoRequest
     /\ \A e \in shown.entries : e.run = run)
    => \A r \in Wanted : r.seq <= Newest(shown.entries) => r \in shown.entries
============================================================================
