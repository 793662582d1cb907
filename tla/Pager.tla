------------------------------- MODULE Pager -------------------------------
(***************************************************************************)
(* The object table of the console (engine/wwwroot/app.js) and the server  *)
(* that lists for it: the user pages, filters and refreshes faster than    *)
(* answers come, answers overtake each other, and rows come and go between *)
(* two pages.                                                              *)
(*                                                                         *)
(* A page and a summary are answered at one moment (module Listing), sent  *)
(* and received at others.  None is the cursor null and undefined.         *)
(***************************************************************************)
EXTENDS Listing

CONSTANTS
  Prefixes,
  InitRows,    \* sets of keys, one of which is in the index initially
  PageSizes, FirstSize,  \* page sizes to choose from, and the one chosen at first
  MaxCalls,    \* bound: calls under way
  MaxPages,    \* bound: pages forward
  MaxEvents    \* bound: clicks on anything but Next, rows that change, calls that fail

ASSUME PagerConstants ==
  /\ Prefixes \subseteq Seq(Nat) /\ <<>> \in Prefixes /\ InitRows \subseteq SUBSET Keys
  /\ PageSizes \subseteq Nat \ {0} /\ FirstSize \in PageSizes
  /\ MaxCalls \in Nat /\ MaxPages \in Nat /\ MaxEvents \in Nat

VARIABLES
  rows,       \* the keys in the index
  prefix, pageSize, pageCursors, pageIndex, listSeq,  \* the console's state
  calls,      \* calls under way: the answer is None until the server gives it
  shown,      \* the table: a page, or None for an error message
  summary,    \* the totals above the table, or None
  events,
  begun,      \* history: the listSeq with which the listing began
  quiet,      \* history: no row has come or gone since the listing began
  stayed,     \* history: the rows that have been there since then
  ahead,      \* history: a click asked for a page whose cursor was not known
  walk        \* history: the keys shown by clicks on Next alone, or None

console == <<prefix, pageSize, pageCursors, pageIndex, listSeq>>
past    == <<begun, quiet, stayed, ahead, walk>>
vars    == <<rows, console, calls, shown, summary, events, past>>

Pages == 0..MaxPages
Failed == [failed |-> TRUE]

ListCall(seq, p, cursor, size) ==
  [what |-> "list", seq |-> seq, prefix |-> p, cursor |-> cursor, size |-> size, answer |-> None]
StatsCall(seq, p) ==
  [what |-> "stats", seq |-> seq, prefix |-> p, cursor |-> None, size |-> 0, answer |-> None]

Room(n) == Cardinality(calls) + n <= MaxCalls

-----------------------------------------------------------------------------
(* The console *)

\* fetchObjectPage, up to its await.
FetchObjectPage(p, size, cursors, index) ==
  /\ Room(1)
  /\ listSeq' = listSeq + 1
  /\ pageIndex' = index
  /\ calls' = calls \cup {ListCall(listSeq + 1, p, cursors[index], size)}

\* listObjects: back to the first page, and new totals.
ListObjects_StatsCounted(p, size) ==
  LET none == [i \in Pages |-> None] IN
  /\ Room(2)
  /\ prefix' = p /\ pageSize' = size
  /\ pageCursors' = none
  /\ listSeq' = listSeq + 2
  /\ pageIndex' = 0
  /\ calls' = calls \cup {ListCall(listSeq + 1, p, None, size), StatsCall(listSeq + 2, p)}
  /\ begun' = listSeq + 2 /\ quiet' = TRUE /\ stayed' = rows /\ ahead' = FALSE /\ walk' = <<>>
ListObjects(p, size) ==
  LET none == [i \in Pages |-> None] IN
  /\ Room(2)
  /\ prefix' = p /\ pageSize' = size
  /\ pageCursors' = none
  /\ listSeq' = listSeq + 1
  /\ pageIndex' = 0
  /\ calls' = calls \cup {ListCall(listSeq + 1, p, None, size), StatsCall(listSeq + 1, p)}
  /\ begun' = listSeq + 1 /\ quiet' = TRUE /\ stayed' = rows /\ ahead' = FALSE /\ walk' = <<>>

Init ==
  /\ rows \in InitRows
  /\ prefix = <<>> /\ pageSize = FirstSize
  /\ calls = {ListCall(1, <<>>, None, FirstSize), StatsCall(1, <<>>)}
  /\ pageCursors = [i \in Pages |-> None]
  /\ pageIndex = 0
  /\ listSeq = 1
  /\ shown = None
  /\ summary = None
  /\ events = 0
  /\ begun = 1 /\ quiet = TRUE /\ stayed = rows /\ ahead = FALSE /\ walk = <<>>

Event == events < MaxEvents /\ events' = events + 1
Move == Event /\ UNCHANGED <<rows, shown, summary>>

\* The filter, the folder, the page size; and a deletion or an upload of the user's.
Relist ==
  /\ Move
  /\ \/ \E p \in Prefixes : ListObjects(p, pageSize)
     \/ \E size \in PageSizes : ListObjects(prefix, size)

\* The buttons are as the last rendering left them.  Bound: who has run ahead of the
\* cursors clicks on Next no more in this listing.
ClickNext ==
  /\ shown # None /\ shown.more
  /\ pageIndex < MaxPages /\ ~ahead
  /\ FetchObjectPage(prefix, pageSize, pageCursors, pageIndex + 1)
  /\ ahead' = (pageCursors[pageIndex + 1] = None)
  /\ UNCHANGED <<rows, prefix, pageSize, pageCursors, shown, summary, events, begun, quiet, stayed, walk>>

ClickPrev ==
  /\ Move
  /\ shown # None /\ shown.index > 0
  /\ pageIndex > 0
  /\ FetchObjectPage(prefix, pageSize, pageCursors, pageIndex - 1)
  /\ walk' = None
  /\ UNCHANGED <<prefix, pageSize, pageCursors, begun, quiet, stayed, ahead>>

\* After a change of visibility the page is fetched again.
Refresh ==
  /\ Move
  /\ shown # None /\ shown.keys # <<>>
  /\ FetchObjectPage(prefix, pageSize, pageCursors, pageIndex)
  /\ walk' = None
  /\ UNCHANGED <<prefix, pageSize, pageCursors, begun, quiet, stayed, ahead>>

\* The rest of fetchObjectPage: an answer that a newer fetch has overtaken is dropped, a
\* cursor that is known already stays.
ShowPage(c) ==
  LET a == c.answer  i == pageIndex IN
  IF a = Failed
    THEN /\ shown' = None
         /\ walk' = None
         /\ UNCHANGED pageCursors
    ELSE /\ shown' = [index |-> i, keys |-> a.keys, more |-> a.more, prefix |-> c.prefix]
         /\ pageCursors' = IF a.more /\ i < MaxPages /\ pageCursors[i + 1] = None
                             THEN [pageCursors EXCEPT ![i + 1] = a.next] ELSE pageCursors
         /\ walk' = IF walk = None THEN None ELSE walk \o a.keys

ReceivePage_Any(c) ==
  /\ c.what = "list" /\ c.answer # None
  /\ calls' = calls \ {c}
  /\ ShowPage(c)
  /\ UNCHANGED <<rows, prefix, pageSize, pageIndex, listSeq, summary, events, begun, quiet, stayed, ahead>>
ReceivePage(c) ==
  /\ c.what = "list" /\ c.answer # None
  /\ calls' = calls \ {c}
  /\ IF c.seq = listSeq THEN ShowPage(c) ELSE UNCHANGED <<shown, pageCursors, walk>>
  /\ UNCHANGED <<rows, prefix, pageSize, pageIndex, listSeq, summary, events, begun, quiet, stayed, ahead>>

\* The rest of refreshStats: the last answer to come stays.
ReceiveStats(c) ==
  /\ c.what = "stats" /\ c.answer # None
  /\ calls' = calls \ {c}
  /\ summary' = IF c.answer = Failed THEN None ELSE [seq |-> c.seq, totals |-> c.answer]
  /\ UNCHANGED <<rows, console, shown, events, past>>

-----------------------------------------------------------------------------
(* The server *)

Answer(c, a) == calls' = (calls \ {c}) \cup {[c EXCEPT !.answer = a]}

Serve(c) ==
  /\ c.answer = None
  /\ Answer(c, IF c.what = "list" THEN Page(rows, c.prefix, c.cursor, c.size)
                                  ELSE Stats(rows, c.prefix))
  /\ UNCHANGED <<rows, console, shown, summary, events, past>>

Fail(c) ==
  /\ Event
  /\ c.answer = None
  /\ Answer(c, Failed)
  /\ UNCHANGED <<rows, console, shown, summary, past>>

\* Uploads and deletions of other clients.
Change ==
  /\ Event
  /\ \E k \in Keys : \/ k \notin rows /\ rows' = rows \cup {k}
                     \/ k \in rows /\ rows' = rows \ {k}
  /\ stayed' = stayed \cap rows'
  /\ quiet' = FALSE
  /\ UNCHANGED <<console, calls, shown, summary, begun, ahead, walk>>

Rest == calls = {} /\ UNCHANGED vars

Next ==
  \/ Relist \/ ClickNext \/ ClickPrev \/ Refresh \/ Change \/ Rest
  \/ \E c \in calls : Serve(c) \/ Fail(c) \/ ReceivePage(c) \/ ReceiveStats(c)

Spec == Init /\ [][Next]_vars

\* Calls are answered or fail, answers arrive, and a user who wants to see everything
\* clicks Next as long as there is more: one of these goes on while any can.
Goes == ClickNext \/ \E c \in calls : Serve(c) \/ Fail(c) \/ ReceivePage(c) \/ ReceiveStats(c)

FairSpec == Spec /\ WF_vars(Goes)

-----------------------------------------------------------------------------
(* Properties *)

PageTypes == [keys : Seq(Keys), more : BOOLEAN, next : Keys \cup {None}]
StatsTypes == [objects : Nat, folders : Nat, files : Nat]

PagerTypeOK ==
  /\ rows \subseteq Keys /\ stayed \subseteq Keys
  /\ prefix \in Prefixes /\ pageSize \in PageSizes /\ pageIndex \in Pages /\ listSeq \in Nat
  /\ pageCursors \in [Pages -> Keys \cup {None}]
  /\ \A c \in calls :
       /\ c.what \in {"list", "stats"} /\ c.seq \in 1..listSeq
       /\ c.prefix \in Prefixes /\ c.cursor \in Keys \cup {None}
       /\ c.answer \in {None, Failed} \cup (IF c.what = "list" THEN PageTypes ELSE StatsTypes)
  /\ shown \in {None} \cup
       [index : Pages, keys : Seq(Keys), more : BOOLEAN, prefix : Prefixes]
  /\ summary \in {None} \cup [seq : 1..listSeq, totals : StatsTypes]
  /\ events \in 0..MaxEvents
  /\ begun \in 1..listSeq /\ quiet \in BOOLEAN /\ ahead \in BOOLEAN /\ walk \in {None} \cup Seq(Keys)

\* No fetch of a page is under way whose answer will be shown.
Settled == ~\E c \in calls : c.what = "list" /\ c.seq = listSeq

\* Whatever was clicked and in which order answers came: once no newer fetch is under
\* way, the table shows the page that the console is at, of the filter that it has
\* (state.listSeq: "drops responses that arrive after a newer listing was started").
NewestShown ==
  Settled /\ shown # None => shown.index = pageIndex /\ shown.prefix = prefix

\* The i-th page is the keys with i * limit to (i + 1) * limit - 1 keys before them.
Slice(i) ==
  {k \in Under(rows, prefix) :
     Cardinality({j \in Under(rows, prefix) : Before(j, k)}) \div Limit(pageSize) = i}

\* While no rows come or go, page i shows the i-th slice of the keys, by whatever clicks
\* on Next, Prev and others it was reached, and Next is offered just if there is more;
\* unless a click on Next ran ahead of the cursor it needs.
ExactPages ==
  Settled /\ shown # None /\ quiet /\ ~ahead =>
    /\ {shown.keys[j] : j \in 1..Len(shown.keys)} = Slice(pageIndex)
    /\ Len(shown.keys) = Cardinality(Slice(pageIndex))
    /\ shown.more <=> Slice(pageIndex + 1) # {}

\* Clicking Next through a listing shows keys in order and none twice, and no key that was
\* there all the time is passed over, although rows come and go between the pages.
WalkMissesNothing ==
  walk # None /\ ~ahead =>
    /\ \A i, j \in 1..Len(walk) : i < j => Before(walk[i], walk[j])
    /\ \A k \in Under(stayed, prefix) :
         \/ \E i \in 1..Len(walk) : walk[i] = k
         \/ walk = <<>> \/ Before(walk[Len(walk)], k)
    /\ Settled /\ shown # None /\ ~shown.more =>
         \A k \in Under(stayed, prefix) : \E i \in 1..Len(walk) : walk[i] = k

\* While no rows come or go, the totals above the table are those of the keys that a walk
\* to the end shows, unless an older answer has come after theirs: as many objects, and
\* the folders and files at the top are the names that its keys have up to the first slash.
TopLevel(k) == IF HasSlash(k) THEN <<Folder(k), Slash>> ELSE <<k>>
TotalsMatchWalk ==
  /\ walk # None /\ quiet /\ ~ahead /\ Settled
  /\ shown # None /\ ~shown.more
  /\ summary # None /\ summary.seq = begun
  => /\ summary.totals.objects = Len(walk)
     /\ summary.totals.folders + summary.totals.files
          = Cardinality({TopLevel(walk[i]) : i \in 1..Len(walk)})

\* Whatever answers are dropped because a newer fetch was begun, none is waited for in
\* vain: who keeps clicking Next comes to the last page, or sees an error message (shown is
\* then None, and so is walk; before the first answer of a listing walk is not).  A click
\* on Next that runs ahead of the cursor it needs is answered, but with the first page over
\* again: where such a user gets to is not claimed.
WalkEnds ==
  <>[](calls = {} /\ (IF shown = None THEN walk = None ELSE ahead \/ ~shown.more))
=============================================================================
