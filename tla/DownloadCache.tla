---------------------------- MODULE DownloadCache ----------------------------
(***************************************************************************)
(* src/discovery.rs (Client): documents that a run fetches, each kept in a *)
(* file of the state directory for runs without a network. A marker beside *)
(* the file says that the server had none. What a host's own server gave   *)
(* over HTTPS is trusted on first use, so it has files of its own and may  *)
(* not come by a redirect from elsewhere.                                  *)
(***************************************************************************)
EXTENDS Naturals, Sequences

CONSTANTS
    Url,
    Documents,  \* the URLs that are asked for, the others are redirected to
    Origin,     \* url |-> the server it names
    Editions,   \* of what servers have
    Absent, Unknown

Uses == {"general", "host"}
Slot == Uses \X Documents
Body == [origin : {Origin[url] : url \in Url}, edition : Editions]

ASSUME DocumentsAssumption == Documents \subseteq Url
ASSUME AbsentAssumption == Absent \notin Body /\ Unknown \notin Body /\ Absent # Unknown

VARIABLES
    file,       \* slot |-> the body [origin, edition] it has, Absent without
    missing,    \* slot |-> whether the marker is there
    task,       \* the fetch at hand: its slot, what it got, and what is left
    returned,   \* history: the last answer to a caller, Unknown before
    received    \* history: what servers answered since

cacheVars == <<file, missing, task, returned, received>>

NoTask == [slot |-> <<>>, got |-> Absent, steps |-> <<>>]

CacheInit ==
    /\ file = [s \in Slot |-> Absent] /\ missing = [s \in Slot |-> FALSE]
    /\ task = NoTask
    /\ returned = [s \in Slot |-> Unknown] /\ received = [s \in Slot |-> {}]

-----------------------------------------------------------------------------
\* fetch_under without a network: the file, or that there is none.
Offline(slot) ==
    IF file[slot] = Absent /\ ~missing[slot] THEN Unknown ELSE file[slot]

\* The redirects that are followed: for a host within its origin.
MayGo(slot, url) == slot[1] = "host" => Origin[url] = Origin[slot[2]]

\* What a request may end with: servers redirect to anywhere, and what they
\* have changes. Anything else is an error that leaves the cache alone.
Bodies(slot) ==
    [origin : {Origin[url] : url \in {u \in Url : u = slot[2] \/ MayGo(slot, u)}},
     edition : Editions]

Answer(slot, got) ==
    /\ returned' = [returned EXCEPT ![slot] = got]
    /\ received' = [received EXCEPT ![slot] = {}]
    /\ task' = NoTask

\* The order after a 404: first the marker, then the file goes.
MutantFileFirst == <<"remove", "mark">>
AfterAbsent == <<"mark", "remove">>

\* What is left to do once a server answered.
StepsFor(got) == IF got = Absent THEN AfterAbsent ELSE <<"persist", "unmark">>

\* fetch_under. fetch_host is given the host's own URLs only.
Fetch(slot) ==
    /\ task = NoTask
    /\ \E got \in Bodies(slot) \cup {Absent} :
         /\ received' = [received EXCEPT ![slot] = @ \cup {got}]
         /\ task' = [slot |-> slot, got |-> got, steps |-> StepsFor(got)]
    /\ UNCHANGED <<file, missing, returned>>

\* The next change of a file or a marker; the caller gets the answer after the
\* last one.
Store ==
    /\ task # NoTask
    /\ LET slot == task.slot
           step == Head(task.steps)
       IN  /\ file' = [file EXCEPT ![slot] =
                          IF step \in {"persist", "remove"} THEN task.got ELSE @]
           /\ missing' = [missing EXCEPT ![slot] =
                          IF step \in {"mark", "unmark"} THEN step = "mark" ELSE @]
           /\ IF Len(task.steps) = 1 THEN Answer(slot, task.got)
              ELSE /\ task' = [task EXCEPT !.steps = Tail(@)]
                   /\ UNCHANGED <<returned, received>>

\* download: an artifact of a known size, with no marker.
Download(url) ==
    LET slot == <<"general", url>>
    IN  /\ task = NoTask
        /\ \E got \in Bodies(slot) :
             file' = [file EXCEPT ![slot] = got] /\ Answer(slot, got)
        /\ UNCHANGED missing

CacheStep ==
    \/ \E slot \in Slot : Fetch(slot)
    \/ \E url \in Documents : Download(url)
    \/ Store

\* A kill, or a failure to write or remove.
CacheLeave == task' = NoTask /\ UNCHANGED <<file, missing, returned, received>>

-----------------------------------------------------------------------------
(* Properties.                                                             *)

\* Client::fetch_under: wherever a run was killed, one without a network is told
\* what the last caller with a network was told, or what a server answered
\* since; it never finds that nothing is known of a URL that was answered. And a
\* host's documents come from that host, however they got into the cache.
OfflineAsAnswered ==
    \A slot \in Slot :
        /\ Offline(slot) \in {returned[slot]} \cup received[slot]
        /\ slot[1] = "host" /\ file[slot] # Absent => file[slot].origin = Origin[slot[2]]
=============================================================================
