--------------------------- MODULE FindingTriage ---------------------------
(* The findings page of one browser tab (apps/frontend, FindingsClientPage and
   useFindingLifecycle): lists of findings under one cache key per set of
   filters, a drawer on one finding, and the lifecycle buttons, whose effect is
   written into the cached list before the server has answered.

   A view stands for one key (the filters, the page, grouped or not).  The
   server applies a lifecycle request at once (FindingSla has its handlers);
   the request can also be refused, or applied and its answer lost. *)
EXTENDS QueryCache, Naturals, Sequences, FiniteSets

CONSTANTS
  Findings, NoFinding,
  Views, FirstView, \* the cache keys the page can be on, and opens on
  Filter,           \* [Views -> set of states]: the state filter of a view
  ActionStates,     \* what a button sets: ignored, resolved, snoozed
  MaxClicks,        \* button presses
  MaxEvents         \* changes of view, departures, and changes by other users

States == {"open"} \cup ActionStates
Clicks == 1 .. MaxClicks
NoClick == 0

Answers(k) == [at : Nat, rows : UNION {[S -> States] : S \in SUBSET Findings}]

TriageAssumption ==
  /\ Filter \in [Views -> SUBSET States]
  /\ "open" \notin ActionStates
  /\ MaxClicks \in Nat /\ MaxEvents \in Nat
  /\ NoFinding \notin Findings /\ FirstView \in Views
  /\ \A k \in Views : NoData \notin Answers(k)

VARIABLES
  history,    \* the server's states of the findings and who set them, oldest first
  lists,      \* [Views -> cache entry]
  view,       \* the view the page shows
  mounted,    \* is the page open?
  selected,   \* the finding in the drawer
  clicks,     \* [Clicks -> mutation]
  current,    \* the mutation of this mount of the page: its buttons follow it
  events

vars == <<history, lists, view, mounted, selected, clicks, current, events>>

Latest == history[Len(history)].states

Changed(f, s, c) == Append(history, [states |-> [Latest EXCEPT ![f] = s], by |-> c])

Listed(k, i) ==
  [at |-> i,
   rows |-> [f \in {x \in Findings : history[i].states[x] \in Filter[k]} |-> history[i].states[f]]]

(* A button press.  `key` is the key its callbacks act on, the page's latest
   one; `home` the key it was pressed on; `previous` the list before the
   optimistic change; `made` the place in history of the server's change;
   `stayed` remembers that the user has not left the view since. *)
Unpressed ==
  [phase |-> "idle", finding |-> NoFinding, to |-> "open", key |-> CHOOSE k \in Views : TRUE,
   home |-> CHOOSE k \in Views : TRUE, previous |-> NoData, ok |-> FALSE, made |-> 0,
   stayed |-> FALSE]

Phases == {"idle", "asked", "answered", "settling", "over"}

TypeOK ==
  /\ history \in Seq([states : [Findings -> States], by : Clicks \cup {NoClick}]) /\ Len(history) > 0
  /\ \A k \in Views :
       /\ lists[k].data = NoData \/ lists[k].data \in Answers(k)
       /\ lists[k].answer = NoData \/ lists[k].answer \in Answers(k)
       /\ lists[k].answer # NoData => lists[k].busy
  /\ view \in Views /\ mounted \in BOOLEAN
  /\ selected \in Findings \cup {NoFinding}
  /\ \A c \in Clicks : clicks[c].phase \in Phases /\ clicks[c].made \in 0 .. Len(history)
  /\ current \in Clicks \cup {NoClick}
  /\ events \in 0 .. MaxEvents

Init ==
  /\ history = <<[states |-> [f \in Findings |-> "open"], by |-> NoClick]>>
  /\ view = FirstView
  /\ lists = [k \in Views |-> IF k = view THEN Mount(NewEntry) ELSE NewEntry]
  /\ mounted = TRUE
  /\ selected = NoFinding
  /\ clicks = [c \in Clicks |-> Unpressed]
  /\ current = NoClick
  /\ events = 0

Shown == lists[view].data
ShownFindings == IF Shown = NoData THEN {} ELSE DOMAIN Shown.rows

\* The drawer closes as soon as its finding is not in the list shown.
Reselected(entry) ==
  IF entry.data # NoData /\ selected \in DOMAIN entry.data.rows THEN selected ELSE NoFinding

\* The cache has a new list under key k: what the page does at its next render.
NewList(k, entry) ==
  /\ lists' = [lists EXCEPT ![k] = entry]
  /\ selected' = IF mounted /\ k = view THEN Reselected(entry) ELSE selected

IsPending == current # NoClick /\ clicks[current].phase \in {"asked", "answered", "settling"}

\* A mutation that awaits the refetch of key k stops waiting when that request
\* is cancelled.
Released(k) ==
  [c \in Clicks |-> IF clicks[c].phase = "settling" /\ clicks[c].key = k
                    THEN [clicks[c] EXCEPT !.phase = "over"] ELSE clicks[c]]

-----------------------------------------------------------------------------
(* The page *)

OpenFinding(f) ==
  /\ mounted /\ f \in ShownFindings /\ selected # f
  /\ selected' = f
  /\ UNCHANGED <<history, lists, view, mounted, clicks, current, events>>

CloseFinding ==
  /\ mounted /\ selected # NoFinding
  /\ selected' = NoFinding
  /\ UNCHANGED <<history, lists, view, mounted, clicks, current, events>>

Optimistic(f, s) == [lists[view].data EXCEPT !.rows[f] = s]

\* A lifecycle button: the list's requests are cancelled, the list remembered
\* and changed, and the request sent.
RunAction(c, s) ==
  /\ mounted /\ selected # NoFinding /\ ~IsPending
  /\ clicks[c].phase = "idle" /\ \A b \in Clicks : b < c => clicks[b].phase # "idle"
  /\ clicks' = [Released(view) EXCEPT ![c] =
       [Unpressed EXCEPT !.phase = "asked", !.finding = selected, !.to = s, !.key = view,
                         !.home = view, !.previous = Shown, !.stayed = TRUE]]
  /\ lists' = [lists EXCEPT ![view] = SetData(Cancel(@), Optimistic(selected, s))]
  /\ current' = c
  /\ UNCHANGED <<history, view, mounted, selected, events>>

Strayed(cs) == [c \in Clicks |-> [cs[c] EXCEPT !.stayed = FALSE]]

\* The address bar, a filter or the pager: the callbacks of a pending action
\* now act on the new key.
SwitchView(k) ==
  /\ mounted /\ k # view /\ events < MaxEvents
  /\ view' = k
  /\ lists' = [lists EXCEPT ![k] = Mount(@)]
  /\ selected' = Reselected(lists[k])
  /\ clicks' = Strayed([c \in Clicks |->
       IF c = current /\ clicks[c].phase \in {"asked", "answered"}
       THEN [clicks[c] EXCEPT !.key = k] ELSE clicks[c]])
  /\ events' = events + 1
  /\ UNCHANGED <<history, mounted, current>>

LeavePage ==
  /\ mounted /\ events < MaxEvents
  /\ mounted' = FALSE /\ selected' = NoFinding /\ current' = NoClick
  /\ clicks' = Strayed(clicks)
  /\ events' = events + 1
  /\ UNCHANGED <<history, lists, view>>

ReturnToPage ==
  /\ ~mounted
  /\ mounted' = TRUE
  /\ lists' = [lists EXCEPT ![view] = Mount(@)]
  /\ UNCHANGED <<history, view, selected, clicks, current, events>>

\* The button beside the error, there while old rows are read again too: a request
\* that is out is sent anew, and what awaited it waits no more.
RetryList ==
  /\ mounted /\ IsError(lists[view])
  /\ lists' = [lists EXCEPT ![view] = Invalidate(@)] /\ clicks' = Released(view)
  /\ UNCHANGED <<history, view, mounted, selected, current, events>>

-----------------------------------------------------------------------------
(* The server, and the answers *)

\* A failure is heard of when it happens: it changes no list.
ReadList(k) ==
  /\ Unanswered(lists[k])
  /\ \/ lists' = [lists EXCEPT ![k] = Answer(@, Listed(k, Len(history)))]
     \/ lists' = [lists EXCEPT ![k] = Deliver(Answer(@, Failure))]
  /\ UNCHANGED <<history, view, mounted, selected, clicks, current, events>>

DeliverList(k) ==
  /\ Answered(lists[k])
  /\ NewList(k, Deliver(lists[k]))
  /\ UNCHANGED <<history, view, mounted, clicks, current, events>>

\* Slip: a failed request is sent once more, as the cache does for its queries.
ApplyActionRetried(c) ==
  /\ clicks[c].phase = "asked"
  /\ history' = Changed(clicks[c].finding, clicks[c].to, c)
  /\ \E p \in {"asked", "answered"} :
       clicks' = [clicks EXCEPT ![c].phase = p, ![c].ok = (p = "answered"),
                                ![c].made = Len(history) + 1]
  /\ Len(history) < 5
  /\ UNCHANGED <<lists, view, mounted, selected, current, events>>

\* The server makes the change; the answer may still be lost.
ApplyAction(c) ==
  /\ clicks[c].phase = "asked"
  /\ history' = Changed(clicks[c].finding, clicks[c].to, c)
  /\ \E ok \in BOOLEAN :
       clicks' = [clicks EXCEPT ![c].phase = "answered", ![c].ok = ok,
                                ![c].made = Len(history) + 1]
  /\ UNCHANGED <<lists, view, mounted, selected, current, events>>

\* The server refuses, or is never reached.
RefuseAction(c) ==
  /\ clicks[c].phase = "asked"
  /\ clicks' = [clicks EXCEPT ![c].phase = "answered"]
  /\ UNCHANGED <<history, lists, view, mounted, selected, current, events>>

\* onError: the remembered list is put back, under the key the page has now.
RolledBack(c) ==
  IF clicks[c].ok THEN lists[clicks[c].key] ELSE SetData(lists[clicks[c].key], clicks[c].previous)

\* Slip: the settled action refetches nothing.
SettledUnread(c) == RolledBack(c)

\* onSettled: only a key some mounted page shows is fetched again.
Settled(c) ==
  IF mounted /\ clicks[c].key = view THEN Invalidate(RolledBack(c)) ELSE RolledBack(c)

SettleAction(c) ==
  /\ clicks[c].phase = "answered"
  /\ NewList(clicks[c].key, Settled(c))
  /\ clicks' = [Released(clicks[c].key) EXCEPT ![c].phase =
                  IF mounted /\ clicks[c].key = view THEN "settling" ELSE "over"]
  /\ UNCHANGED <<history, view, mounted, current, events>>

\* Slip: the mutation waits for a refetch that succeeds.
FinishActionOnSuccess(c) ==
  /\ clicks[c].phase = "settling" /\ AtRest(lists[clicks[c].key])
  /\ clicks' = [clicks EXCEPT ![c].phase = "over"]
  /\ UNCHANGED <<history, lists, view, mounted, selected, current, events>>

\* The refetch the mutation awaits has come back: the buttons work again.
FinishAction(c) ==
  /\ clicks[c].phase = "settling" /\ ~lists[clicks[c].key].busy
  /\ clicks' = [clicks EXCEPT ![c].phase = "over"]
  /\ UNCHANGED <<history, lists, view, mounted, selected, current, events>>

OtherUser(f, s) ==
  /\ events < MaxEvents /\ Latest[f] # s
  /\ history' = Changed(f, s, NoClick)
  /\ events' = events + 1
  /\ UNCHANGED <<lists, view, mounted, selected, clicks, current>>

Page ==
  \/ \E f \in Findings : OpenFinding(f)
  \/ CloseFinding
  \/ \E c \in Clicks, s \in ActionStates : RunAction(c, s)
  \/ \E k \in Views : SwitchView(k)
  \/ LeavePage \/ ReturnToPage \/ RetryList

Answering(c) ==
  \/ ApplyAction(c) \/ RefuseAction(c) \/ SettleAction(c) \/ FinishAction(c)

Reading(k) == ReadList(k) \/ DeliverList(k)

Next ==
  \/ Page
  \/ \E k \in Views : Reading(k)
  \/ \E c \in Clicks : Answering(c)
  \/ \E f \in Findings, s \in States : OtherUser(f, s)

\* A request that is out comes back, or the browser gives it up.
Fairness ==
  /\ \A k \in Views : WF_vars(Reading(k))
  /\ \A c \in Clicks : WF_vars(Answering(c))

Spec == Init /\ [][Next]_vars /\ Fairness

-----------------------------------------------------------------------------
(* Properties *)

WasServed(k, data) == \E i \in DOMAIN history : data = Listed(k, i)

Quiet == \A c \in Clicks : clicks[c].phase \in {"idle", "over"}

(* Once no action is pending and the list shown has been read again, it holds
   what the server served, with no trace of an optimistic row; and a user who
   has stayed on it since pressing a button reads the server after the change
   was made, however the answers of earlier requests were ordered. *)
QuietListIsServed ==
  (mounted /\ Quiet /\ AtRest(lists[view])) =>
    /\ WasServed(view, Shown)
    /\ \A c \in Clicks : clicks[c].stayed => Shown.at >= clicks[c].made

(* "Optimistic cache update + rollback": an action that failed leaves no trace
   in the list it was taken on, whose rows are rows the server has had. *)
FailureIsRolledBack ==
  \A c \in Clicks :
    (clicks[c].phase = "over" /\ ~clicks[c].ok) =>
      LET k == clicks[c].home
      IN lists[k].data = NoData \/
           \E i \in DOMAIN history : lists[k].data.rows = Listed(k, i).rows

Ask(c) == [click |-> c, finding |-> clicks[c].finding, to |-> clicks[c].to]

Asked == {Ask(c) : c \in {x \in Clicks : clicks[x].phase = "asked"}}

ChangesBy(c) == {i \in DOMAIN history : history[i].by = c}

Made == [c \in {x \in Clicks : clicks[x].phase # "idle"} |-> Cardinality(ChangesBy(c))]

Contract == INSTANCE TriageContract WITH states <- Latest, asked <- Asked, made <- Made

(* A press of a button changes the server at most once, and only while the
   press is being answered, whatever the lists and the page do. *)
ImplementsContract == Contract!Spec

(* The buttons come back: every press is over in the end. *)
EveryActionEnds ==
  \A c \in Clicks : clicks[c].phase = "asked" ~> clicks[c].phase = "over"
=============================================================================
