--------------------------- MODULE SessionProofs ---------------------------
(* What a sign-out leaves behind, for any number of scopes, sign-ins and      *)
(* sign-outs, and however requests, answers and retries overlap with them.    *)
EXTENDS Session, TLAPS

-----------------------------------------------------------------------------
(* What the cache's operations make of an entry.                             *)

\* Kept folded, since the prover types what it knows to be Boolean.
Flags == BOOLEAN

EntryRecords(D) == [data : D \cup {NoData}, busy : Flags,
                    answer : D \cup {NoData, Failure}, failed : Flags]

LEMMA FlagsHave == TRUE \in Flags /\ FALSE \in Flags
  BY DEF Flags

LEMMA EntriesAre == ASSUME NEW D PROVE Entries(D) = EntryRecords(D)
  BY DEF Entries, EntryRecords, Flags

LEMMA NewEntryType ==
  ASSUME NEW D
  PROVE  NewEntry \in EntryRecords(D) /\ NewEntry.data = NoData /\ ~NewEntry.busy /\ NewEntry.answer = NoData
  BY FlagsHave DEF NewEntry, EntryRecords

\* A request goes out: what is shown stays, and no answer is left.
LEMMA SendType ==
  ASSUME NEW D, NEW e \in EntryRecords(D), NEW u,
         u = [e EXCEPT !.busy = TRUE, !.answer = NoData]
  PROVE  u \in EntryRecords(D) /\ u.data = e.data /\ u.answer = NoData /\ u.busy
  BY FlagsHave DEF EntryRecords

LEMMA MountType ==
  ASSUME NEW D, NEW e \in EntryRecords(D)
  PROVE  /\ Mount(e) \in EntryRecords(D) /\ Mount(e).data = e.data /\ Mount(e).busy
         /\ e.busy => Mount(e) = e
         /\ ~e.busy => Mount(e).answer = NoData
  BY SendType DEF Mount

LEMMA InvalidateType ==
  ASSUME NEW D, NEW e \in EntryRecords(D)
  PROVE  /\ Invalidate(e) \in EntryRecords(D) /\ Invalidate(e).data = e.data
         /\ Invalidate(e).busy
         /\ IsLoading(e) => Invalidate(e) = e
         /\ ~IsLoading(e) => Invalidate(e).answer = NoData
  BY SendType DEF Invalidate, IsLoading

LEMMA AnswerType ==
  ASSUME NEW D, NEW e \in EntryRecords(D), NEW d \in D \cup {Failure}
  PROVE  /\ Answer(e, d) \in EntryRecords(D) /\ Answer(e, d).data = e.data
         /\ Answer(e, d).answer = d /\ Answer(e, d).busy = e.busy
         /\ Answer(e, d).failed = e.failed
  BY DEF Answer, EntryRecords

LEMMA DeliverType ==
  ASSUME NEW D, NEW e \in EntryRecords(D)
  PROVE  /\ Deliver(e) \in EntryRecords(D) /\ Deliver(e).answer = NoData /\ ~Deliver(e).busy
         /\ (Deliver(e).failed /\ Deliver(e).data = e.data) \/ Deliver(e).data = e.answer
  <1>1. CASE e.answer = Failure
    <2> DEFINE u == Cancel(e)
    <2>1. u \in EntryRecords(D) /\ u.data = e.data /\ u.answer = NoData /\ ~u.busy
      BY FlagsHave DEF Cancel, EntryRecords
    <2>2. Deliver(e) = [u EXCEPT !.failed = TRUE]
      BY <1>1 DEF Deliver
    <2> HIDE DEF u
    <2> QED BY <2>1, <2>2, FlagsHave DEF EntryRecords
  <1>2. CASE e.answer # Failure
    <2> DEFINE u == SetData(e, e.answer)
    <2>0. e.answer \in D \cup {NoData}
      BY <1>2 DEF EntryRecords
    <2>1. u \in EntryRecords(D) /\ u.data = e.answer
      BY <2>0, FlagsHave DEF SetData, EntryRecords
    <2>2. Deliver(e) = [u EXCEPT !.busy = FALSE, !.answer = NoData]
      BY <1>2 DEF Deliver
    <2> HIDE DEF u
    <2> QED BY <2>1, <2>2, FlagsHave DEF EntryRecords
  <1> QED BY <1>1, <1>2

-----------------------------------------------------------------------------
(* The inductive invariant.                                                  *)

CacheType == cache \in [Keys -> EntryRecords(Stamps)] /\ sent \in [Keys -> Stamps]

SessionTyped ==
  /\ stored \in Scopes \cup {NoScope} /\ cookie \in Scopes \cup {NoScope}
  /\ screen \in {"login", "page"} /\ rendered \in Scopes \cup {NoScope}
  /\ signIn \in [phase : {"idle", "asked", "accepted", "refused", "reading"},
                  scope : Scopes \cup {NoScope}]
  /\ signOut \in {"idle", "asked", "done", "failed"}
  /\ signIns \in 0 .. MaxSignIns /\ signOuts \in 0 .. MaxSignOuts
  /\ signOut # "idle" => signOuts < MaxSignOuts

\* What may be answered to a question of scope k[2] when n sign-outs are over.
Mark(k, n) == [scope |-> k[2], after |-> n]

\* A request that is out, or whose answer is, was sent since the last sign-out,
\* and for the scope of its key if for any.
Current(k, e, x, n) ==
  /\ e.data \in {NoData, Mark(k, n)}
  /\ e.answer \in {NoData, Failure, Mark(k, n)}
  /\ e.busy => x.scope \in {k[2], NoScope} /\ x.after = n

\* The tab has lost its scope, or has the one the screen was rendered with.
Agreed == stored \in {rendered, NoScope}

SessionInv ==
  /\ SessionTyped /\ CacheType /\ Agreed
  /\ \A k \in Keys : Current(k, cache[k], sent[k], signOuts)

-----------------------------------------------------------------------------
(* Steps of the cache.                                                       *)

LEMMA MountedKeys ==
  ASSUME NEW v, NEW r \in Scopes \cup {NoScope}
  PROVE  /\ Mounted(v, r) \subseteq Keys
         /\ \A k \in Mounted(v, r) : k[2] = r
         /\ r = NoScope => Mounted(v, r) = {}
  BY DEF Mounted, Keys, Questions

\* What is current when the tab renders a screen stays current.
LEMMA RenderedCurrent ==
  ASSUME NEW v, NEW r \in Scopes \cup {NoScope}, NEW entries \in [Keys -> EntryRecords(Stamps)],
         sent \in [Keys -> Stamps], Rendered(v, r, entries),
         stored' \in Scopes \cup {NoScope}, stored' \in {r, NoScope},
         signOuts' \in 0 .. MaxSignOuts,
         \A k \in Keys : Current(k, entries[k], sent[k], signOuts')
  PROVE  CacheType' /\ \A k \in Keys : Current(k, cache[k], sent[k], signOuts)'
  <1> DEFINE new == Mounted(v, r) \ (IF v = screen THEN Mounted(screen, rendered) ELSE {})
             stamp == [scope |-> stored', after |-> signOuts']
  <1>1. /\ cache' = [k \in Keys |-> IF k \in new THEN Mount(entries[k]) ELSE entries[k]]
        /\ sent' = [k \in Keys |-> IF k \in new /\ ~entries[k].busy THEN stamp ELSE sent[k]]
    BY DEF Rendered
  <1>2. stamp \in Stamps /\ stamp.scope = stored' /\ stamp.after = signOuts'
    BY DEF Stamps
  <1>3. \A k \in new : k[2] = r
    BY MountedKeys
  <1> HIDE DEF new, stamp
  <1>4. CacheType'
    BY <1>1, <1>2, MountType DEF CacheType
  <1>5. ASSUME NEW k \in Keys PROVE Current(k, cache'[k], sent'[k], signOuts')
    <2>1. CASE k \in new /\ ~entries[k].busy
      <3>1. cache'[k] = Mount(entries[k]) /\ sent'[k] = stamp
        BY <1>1, <2>1
      <3>2. Mount(entries[k]).data = entries[k].data /\ Mount(entries[k]).answer = NoData
        BY <2>1, MountType
      <3> QED BY <1>2, <1>3, <2>1, <3>1, <3>2 DEF Current
    <2>2. CASE ~(k \in new /\ ~entries[k].busy)
      <3>1. cache'[k] = entries[k] /\ sent'[k] = sent[k]
        BY <1>1, <2>2, MountType
      <3> QED BY <3>1
    <2> QED BY <2>1, <2>2
  <1> QED BY <1>4, <1>5

LEMMA ForgottenCurrent ==
  ASSUME NEW n
  PROVE  /\ Forgotten \in [Keys -> EntryRecords(Stamps)]
         /\ \A k \in Keys : Current(k, Forgotten[k], sent[k], n)
  BY NewEntryType DEF Forgotten, Current

LEMMA KeptCurrent ==
  ASSUME SessionInv
  PROVE  /\ cache \in [Keys -> EntryRecords(Stamps)] /\ sent \in [Keys -> Stamps]
         /\ \A k \in Keys : cache[k] \in EntryRecords(Stamps) /\ sent[k] \in Stamps
         /\ \A k \in Keys : Current(k, cache[k], sent[k], signOuts)
  BY DEF SessionInv, CacheType

-----------------------------------------------------------------------------
(* Steps of the tab.                                                         *)

LEMMA SubmitLoginInv ==
  ASSUME SessionAssumption, SessionInv, NEW s \in Scopes, SubmitLogin(s)
  PROVE  SessionInv'
  <1>1. SessionTyped' /\ Agreed' /\ signOuts' = signOuts /\ stored' = s
    BY DEF SubmitLogin, Rendered, SessionInv, SessionTyped, Agreed, NoSignIn, SessionAssumption
  <1>2. Rendered("login", s, cache) /\ signOuts \in 0 .. MaxSignOuts
    BY DEF SubmitLogin, SessionInv, SessionTyped
  <1> QED BY <1>1, <1>2, KeptCurrent, RenderedCurrent DEF SessionInv

LEMMA LoginAcceptedInv ==
  ASSUME SessionInv, LoginAccepted
  PROVE  SessionInv'
  <1> DEFINE shown == Mounted(screen, rendered) \cap ({"me"} \X Scopes)
  <1>1. /\ cache' = [k \in Keys |-> IF k \in shown THEN Invalidate(cache[k]) ELSE cache[k]]
        /\ sent' = [k \in Keys |-> IF k \in shown /\ ~IsLoading(cache[k]) THEN Stamp ELSE sent[k]]
    BY DEF LoginAccepted
  <1>2. /\ Stamp \in Stamps /\ Stamp.scope \in {rendered, NoScope} /\ Stamp.after = signOuts
        /\ rendered \in Scopes \cup {NoScope}
    BY DEF Stamp, Stamps, SessionInv, SessionTyped, Agreed
  <1>3. \A k \in shown : k[2] = rendered
    BY <1>2, MountedKeys
  <1>4. SessionTyped' /\ Agreed' /\ signOuts' = signOuts
    BY DEF LoginAccepted, SessionInv, SessionTyped, Agreed
  <1> HIDE DEF shown
  <1>5. CacheType'
    BY <1>1, <1>2, KeptCurrent, InvalidateType DEF CacheType
  <1>6. ASSUME NEW k \in Keys PROVE Current(k, cache'[k], sent'[k], signOuts)
    <2>1. CASE k \in shown /\ ~IsLoading(cache[k])
      <3>1. cache'[k] = Invalidate(cache[k]) /\ sent'[k] = Stamp
        BY <1>1, <2>1
      <3>2. Invalidate(cache[k]).data = cache[k].data /\ Invalidate(cache[k]).answer = NoData
        BY <2>1, KeptCurrent, InvalidateType
      <3> QED BY <1>2, <1>3, <2>1, <3>1, <3>2, KeptCurrent DEF Current
    <2>2. CASE ~(k \in shown /\ ~IsLoading(cache[k]))
      <3>1. cache'[k] = cache[k] /\ sent'[k] = sent[k]
        BY <1>1, <2>2, KeptCurrent, InvalidateType
      <3> QED BY <3>1, KeptCurrent
    <2> QED BY <2>1, <2>2
  <1> QED BY <1>4, <1>5, <1>6 DEF SessionInv

LEMMA LoginEndsInv ==
  ASSUME SessionInv, LoginEnds
  PROVE  SessionInv'
  <1>1. SessionTyped' /\ Agreed' /\ signOuts' = signOuts /\ stored' = stored
    BY DEF LoginEnds, Rendered, SessionInv, SessionTyped, Agreed, NoSignIn
  <1>2. /\ Rendered("page", stored, cache) /\ signOuts \in 0 .. MaxSignOuts
        /\ stored \in Scopes \cup {NoScope}
    BY DEF LoginEnds, SessionInv, SessionTyped
  <1> QED BY <1>1, <1>2, KeptCurrent, RenderedCurrent DEF SessionInv

LEMMA LoginRefusedInv ==
  ASSUME SessionInv, LoginRefused
  PROVE  SessionInv'
  <1>1. SessionTyped' /\ Agreed' /\ signOuts' = signOuts /\ stored' = NoScope
    BY DEF LoginRefused, Rendered, SessionInv, SessionTyped, Agreed, NoSignIn
  <1>2. Rendered("login", NoScope, cache) /\ signOuts \in 0 .. MaxSignOuts
    BY DEF LoginRefused, SessionInv, SessionTyped
  <1> QED BY <1>1, <1>2, KeptCurrent, RenderedCurrent DEF SessionInv

LEMMA GuardPageInv ==
  ASSUME SessionInv, GuardPage
  PROVE  SessionInv'
  <1>1. SessionTyped' /\ Agreed' /\ signOuts' = signOuts /\ stored' = stored
    BY DEF GuardPage, Rendered, SessionInv, SessionTyped, Agreed
  <1>2. /\ Rendered("login", stored, cache) /\ signOuts \in 0 .. MaxSignOuts
        /\ stored \in Scopes \cup {NoScope}
    BY DEF GuardPage, SessionInv, SessionTyped
  <1> QED BY <1>1, <1>2, KeptCurrent, RenderedCurrent DEF SessionInv

LEMMA LogoutEndsInv ==
  ASSUME SessionAssumption, SessionInv, LogoutEnds
  PROVE  SessionInv'
  <1>1. /\ SessionTyped' /\ stored' = NoScope /\ signOuts' \in 0 .. MaxSignOuts
        /\ sent \in [Keys -> Stamps]
    <2>1. signOuts' \in 0 .. MaxSignOuts /\ signOut' = "idle" /\ stored' = NoScope
      BY DEF LogoutEnds, SessionInv, SessionTyped, SessionAssumption
    <2>2. screen' \in {"login", "page"} /\ rendered' \in Scopes \cup {NoScope}
      BY DEF LogoutEnds, Rendered, SessionInv, SessionTyped
    <2> QED BY <2>1, <2>2, KeptCurrent DEF LogoutEnds, SessionInv, SessionTyped
  <1>2. CASE signOut = "done"
    <2>1. Rendered("login", NoScope, Forgotten)
      BY <1>2 DEF LogoutEnds
    <2>2. CacheType' /\ \A k \in Keys : Current(k, cache[k], sent[k], signOuts)'
      BY <1>1, <2>1, ForgottenCurrent, RenderedCurrent
    <2>3. Agreed'
      BY <1>1 DEF Agreed
    <2> QED BY <1>1, <2>2, <2>3 DEF SessionInv
  <1>3. CASE signOut # "done"
    <2>1. cache' = Forgotten /\ sent' = sent
      BY <1>3 DEF LogoutEnds
    <2>2. CacheType' /\ \A k \in Keys : Current(k, cache'[k], sent'[k], signOuts')
      BY <1>1, <2>1, ForgottenCurrent DEF CacheType
    <2>3. Agreed'
      BY <1>1 DEF Agreed
    <2> QED BY <1>1, <2>2, <2>3 DEF SessionInv
  <1> QED BY <1>2, <1>3

LEMMA RetryRowsInv ==
  ASSUME SessionInv, NEW s \in Scopes, RetryRows(s)
  PROVE  SessionInv'
  <1> DEFINE k == <<"rows", s>>
  <1>1. /\ Stamp \in Stamps /\ Stamp.scope \in {rendered, NoScope} /\ Stamp.after = signOuts
        /\ rendered \in Scopes \cup {NoScope}
    BY DEF Stamp, Stamps, SessionInv, SessionTyped, Agreed
  <1>2. k \in Keys /\ k[2] = rendered
    BY <1>1, MountedKeys DEF RetryRows
  <1>3. cache' = cache /\ sent' = [sent EXCEPT ![k] = Stamp]
    BY DEF RetryRows
  <1>4. SessionTyped' /\ Agreed' /\ signOuts' = signOuts
    BY DEF RetryRows, SessionInv, SessionTyped, Agreed
  <1> HIDE DEF k
  <1>5. CacheType'
    BY <1>1, <1>2, <1>3, KeptCurrent DEF CacheType
  <1>6. \A q \in Keys : Current(q, cache'[q], sent'[q], signOuts)
    BY <1>1, <1>2, <1>3, KeptCurrent DEF Current
  <1> QED BY <1>4, <1>5, <1>6 DEF SessionInv

\* One entry changes.
LEMMA OneEntry ==
  ASSUME SessionInv, NEW k \in Keys, NEW u \in EntryRecords(Stamps),
         Current(k, u, sent[k], signOuts), cache' = [cache EXCEPT ![k] = u],
         UNCHANGED <<stored, cookie, screen, rendered, sent, signIn, signOut, signIns, signOuts>>
  PROVE  SessionInv'
  <1>1. SessionTyped' /\ Agreed' /\ sent' = sent /\ signOuts' = signOuts
    BY DEF SessionInv, SessionTyped, Agreed
  <1>2. CacheType'
    BY <1>1, KeptCurrent DEF CacheType
  <1>3. \A q \in Keys : Current(q, cache'[q], sent[q], signOuts)
    BY KeptCurrent
  <1> QED BY <1>1, <1>2, <1>3 DEF SessionInv

LEMMA ReadQueryInv ==
  ASSUME SessionInv, NEW k \in Keys, ReadQuery(k)
  PROVE  SessionInv'
  <1> DEFINE e == cache[k]
  <1>1. /\ e \in EntryRecords(Stamps) /\ sent[k] \in Stamps /\ Current(k, e, sent[k], signOuts)
        /\ e.busy
    BY KeptCurrent DEF ReadQuery, Unanswered
  <1>2. CASE sent[k].scope # NoScope /\ cache' = [cache EXCEPT ![k] = Answer(e, sent[k])]
    <2>1. sent[k] = Mark(k, signOuts)
      BY <1>1, <1>2 DEF Current, Mark, Stamps
    <2> DEFINE u == Answer(e, sent[k])
    <2>2. u \in EntryRecords(Stamps) /\ u.data = e.data /\ u.answer = sent[k]
      BY <1>1, AnswerType
    <2> HIDE DEF u, e
    <2>3. Current(k, u, sent[k], signOuts)
      BY <1>1, <2>1, <2>2 DEF Current
    <2> QED BY <1>2, <2>2, <2>3, OneEntry DEF ReadQuery, u
  <1>3. CASE cache' = [cache EXCEPT ![k] = Deliver(Answer(e, Failure))]
    <2> DEFINE a == Answer(e, Failure)
               u == Deliver(a)
    <2>1. a \in EntryRecords(Stamps) /\ a.data = e.data /\ a.answer = Failure
      BY <1>1, AnswerType
    <2> HIDE DEF a
    <2>2. u \in EntryRecords(Stamps) /\ u.answer = NoData /\ ~u.busy
      BY <2>1, DeliverType
    <2>3. u.data = e.data
      BY <2>1, FlagsHave DEF Deliver, Cancel, EntryRecords
    <2>4. Current(k, u, sent[k], signOuts)
      BY <1>1, <2>2, <2>3 DEF Current
    <2> QED BY <1>3, <2>2, <2>4, OneEntry DEF ReadQuery, a
  <1> QED BY <1>2, <1>3 DEF ReadQuery

LEMMA DeliverQueryInv ==
  ASSUME SessionInv, NEW k \in Keys, DeliverQuery(k)
  PROVE  SessionInv'
  <1> DEFINE e == cache[k]
             u == Deliver(e)
  <1>1. /\ e \in EntryRecords(Stamps) /\ Current(k, e, sent[k], signOuts)
        /\ e.answer # NoData
    BY KeptCurrent DEF DeliverQuery, Answered
  <1>2. /\ u \in EntryRecords(Stamps) /\ u.answer = NoData /\ ~u.busy
        /\ u.data \in {e.data, e.answer}
    BY <1>1, DeliverType
  <1>3. e.answer = Failure => u.data = e.data
    BY <1>1, FlagsHave DEF Deliver, Cancel, EntryRecords
  <1>4. Current(k, u, sent[k], signOuts)
    BY <1>1, <1>2, <1>3 DEF Current
  <1>5. cache' = [cache EXCEPT ![k] = u]
    BY DEF DeliverQuery
  <1> HIDE DEF u
  <1> QED BY <1>2, <1>4, <1>5, OneEntry DEF DeliverQuery

-----------------------------------------------------------------------------
(* The invariant.                                                            *)

LEMMA InitInv ==
  ASSUME SessionAssumption, Init
  PROVE  SessionInv
  <1>1. SessionTyped /\ Agreed
    BY DEF Init, SessionTyped, Agreed, NoSignIn, SessionAssumption
  <1>2. CacheType
    BY NewEntryType DEF Init, CacheType, Stamps, SessionAssumption
  <1>3. \A k \in Keys : Current(k, cache[k], sent[k], signOuts)
    BY NewEntryType DEF Init, Current
  <1> QED BY <1>1, <1>2, <1>3 DEF SessionInv

\* The steps that leave the cache alone.
LEMMA OtherInv ==
  ASSUME SessionInv, AnswerLogin \/ PressLogout \/ AnswerLogout \/ SessionExpires
  PROVE  SessionInv'
  <1>1. UNCHANGED <<stored, rendered, cache, sent, signOuts>>
    BY DEF AnswerLogin, PressLogout, AnswerLogout, SessionExpires
  <1>2. SessionTyped'
    BY DEF AnswerLogin, PressLogout, AnswerLogout, SessionExpires, SessionInv, SessionTyped
  <1> QED BY <1>1, <1>2 DEF SessionInv, CacheType, Agreed

LEMMA StepInv ==
  ASSUME SessionAssumption, SessionInv, [Next]_vars
  PROVE  SessionInv'
  <1>1. CASE Next
    BY <1>1, SubmitLoginInv, LoginAcceptedInv, LoginEndsInv, LoginRefusedInv, GuardPageInv,
       LogoutEndsInv, RetryRowsInv, ReadQueryInv, DeliverQueryInv, OtherInv DEF Next
  <1>2. CASE UNCHANGED vars
    BY <1>2 DEF vars, SessionInv, SessionTyped, CacheType, Agreed
  <1> QED BY <1>1, <1>2

(* The tab and its cache keep to the invariant. *)
THEOREM Invariant ==
  ASSUME SessionAssumption
  PROVE  Spec => []SessionInv
  <1>1. SessionInv /\ [Next]_vars => SessionInv'
    BY StepInv
  <1> QED BY <1>1, InitInv, PTL DEF Spec

LEMMA InvTypes == SessionInv => TypeOK
  BY EntriesAre DEF SessionInv, SessionTyped, CacheType, TypeOK

(* Every variable keeps its type. *)
THEOREM TypeCorrect ==
  ASSUME SessionAssumption
  PROVE  Spec => []TypeOK
  BY InvTypes, Invariant, PTL

LEMMA InvForgets == SessionInv => NothingOutlivesSignOut
  BY DEF SessionInv, Current, Mark, NothingOutlivesSignOut

(* Nothing that was asked for before a sign-out is found in the cache after it,
   and nothing is under a scope's key but what was read for that scope. *)
THEOREM SignOutForgets ==
  ASSUME SessionAssumption
  PROVE  Spec => []NothingOutlivesSignOut
  BY InvForgets, Invariant, PTL
=============================================================================
