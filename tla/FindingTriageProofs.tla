------------------------ MODULE FindingTriageProofs ------------------------
(* What a press of a lifecycle button does to the server, for any number of   *)
(* findings, views, presses and other users: it implements TriageContract.    *)
(* And what the page then shows: the list as the server has it.               *)
EXTENDS FindingTriage, FiniteSetTheorems, TLAPS

-----------------------------------------------------------------------------
(* The inductive invariant.                                                  *)

Moments == [states : [Findings -> States], by : Clicks \cup {NoClick}]

Fields == {"phase", "finding", "to"}

\* A press that is asked for knows its change; one still to come has made none.
Pressed(c) ==
  /\ Fields \subseteq DOMAIN clicks[c]
  /\ clicks[c].phase = "idle" => ChangesBy(c) = {}
  /\ clicks[c].phase = "asked" => clicks[c].finding \in Findings /\ clicks[c].to \in States

TriageInv ==
  /\ history \in Seq(Moments) /\ Len(history) > 0
  /\ selected \in Findings \cup {NoFinding}
  /\ DOMAIN clicks = Clicks
  /\ \A c \in Clicks : Pressed(c)

-----------------------------------------------------------------------------
(* History.                                                                  *)

LEMMA LatestType ==
  ASSUME history \in Seq(Moments), Len(history) > 0
  PROVE  Latest \in [Findings -> States]
  <1>1. history[Len(history)] \in Moments
    OBVIOUS
  <1> QED BY <1>1 DEF Latest, Moments

\* A change is the latest one, and counts for whoever made it.
LEMMA ChangedHistory ==
  ASSUME history \in Seq(Moments), Len(history) > 0, NEW f \in Findings, NEW s \in States,
         NEW b \in Clicks \cup {NoClick}, history' = Changed(f, s, b)
  PROVE  /\ history' \in Seq(Moments) /\ Len(history') > 0
         /\ Latest' = [Latest EXCEPT ![f] = s]
         /\ \A c \in Clicks : ChangesBy(c)' =
              IF c = b THEN ChangesBy(c) \cup {Len(history) + 1} ELSE ChangesBy(c)
  <1> DEFINE m == [states |-> [Latest EXCEPT ![f] = s], by |-> b]
  <1>0. [Latest EXCEPT ![f] = s] \in [Findings -> States]
    BY LatestType
  <1>1. m \in Moments /\ m.by = b /\ m.states = [Latest EXCEPT ![f] = s]
    BY <1>0 DEF Moments
  <1>2. history' = Append(history, m)
    BY DEF Changed
  <1> HIDE DEF m
  <1>3. /\ history' \in Seq(Moments) /\ Len(history') = Len(history) + 1
        /\ history'[Len(history) + 1] = m
        /\ \A i \in 1 .. Len(history) : history'[i] = history[i]
    BY <1>1, <1>2
  <1>4. Latest' = [Latest EXCEPT ![f] = s]
    BY <1>1, <1>3 DEF Latest
  <1>5. /\ DOMAIN history = 1 .. Len(history) /\ Len(history) \in Nat
        /\ DOMAIN history' = 1 .. Len(history) + 1
    BY <1>3
  <1>6. \A c \in Clicks : ChangesBy(c)' =
          IF c = b THEN ChangesBy(c) \cup {Len(history) + 1} ELSE ChangesBy(c)
    <2> TAKE c \in Clicks
    <2>1. DOMAIN history' = DOMAIN history \cup {Len(history) + 1}
      BY <1>5
    <2>2. Len(history) + 1 \notin DOMAIN history
      BY <1>5
    <2>3. \A i \in DOMAIN history : history'[i] = history[i]
      BY <1>3, <1>5
    <2>4. history'[Len(history) + 1].by = b
      BY <1>1, <1>3
    <2> QED BY <2>1, <2>2, <2>3, <2>4 DEF ChangesBy
  <1>7. Len(history') > 0
    BY <1>3, <1>5
  <1> QED BY <1>3, <1>4, <1>6, <1>7

\* One more change is one more.
LEMMA OneMore ==
  ASSUME history \in Seq(Moments), NEW c
  PROVE  Cardinality(ChangesBy(c) \cup {Len(history) + 1}) = Cardinality(ChangesBy(c)) + 1
  <1>1. DOMAIN history = 1 .. Len(history) /\ Len(history) \in Nat
    OBVIOUS
  <1>2. IsFiniteSet(1 .. Len(history))
    BY <1>1, FS_Interval
  <1>3. ChangesBy(c) \subseteq 1 .. Len(history)
    BY <1>1 DEF ChangesBy
  <1>4. IsFiniteSet(ChangesBy(c))
    BY <1>2, <1>3, FS_Subset
  <1>5. Len(history) + 1 \notin ChangesBy(c)
    BY <1>1, <1>3
  <1> QED BY <1>4, <1>5, FS_AddElement

-----------------------------------------------------------------------------
(* Presses.                                                                  *)

\* An update of one or two fields leaves the others and the domain alone.
LEMMA FieldsChange ==
  ASSUME NEW r, Fields \subseteq DOMAIN r, NEW x
  PROVE  /\ Fields \subseteq DOMAIN [r EXCEPT !.phase = x]
         /\ [r EXCEPT !.phase = x].phase = x
         /\ [r EXCEPT !.phase = x].finding = r.finding
         /\ [r EXCEPT !.phase = x].to = r.to
         /\ \A k \in {"ok", "made", "stayed", "key", "home", "previous"} :
              /\ Fields \subseteq DOMAIN [r EXCEPT ![k] = x]
              /\ [r EXCEPT ![k] = x].phase = r.phase
              /\ [r EXCEPT ![k] = x].finding = r.finding
              /\ [r EXCEPT ![k] = x].to = r.to
  BY DEF Fields

\* Every press has the same place in the contract as before.
Alike(cs) ==
  /\ DOMAIN cs = Clicks
  /\ \A c \in Clicks :
       /\ Fields \subseteq DOMAIN cs[c]
       /\ cs[c].phase = "idle" <=> clicks[c].phase = "idle"
       /\ cs[c].phase = "asked" <=> clicks[c].phase = "asked"
       /\ cs[c].finding = clicks[c].finding /\ cs[c].to = clicks[c].to

LEMMA NothingAlike ==
  ASSUME TriageInv
  PROVE  Alike(clicks)
  BY DEF TriageInv, Pressed, Alike

\* A mutation that stops waiting stays where it was in the contract.
LEMMA ReleasedAlike ==
  ASSUME TriageInv, NEW k
  PROVE  Alike(Released(k))
  <1> SUFFICES ASSUME NEW c \in Clicks
               PROVE  /\ Fields \subseteq DOMAIN Released(k)[c]
                      /\ Released(k)[c].phase = "idle" <=> clicks[c].phase = "idle"
                      /\ Released(k)[c].phase = "asked" <=> clicks[c].phase = "asked"
                      /\ Released(k)[c].finding = clicks[c].finding
                      /\ Released(k)[c].to = clicks[c].to
    BY DEF Alike, Released
  <1>1. Fields \subseteq DOMAIN clicks[c]
    BY DEF TriageInv, Pressed
  <1>2. CASE clicks[c].phase = "settling" /\ clicks[c].key = k
    <2>1. Released(k)[c] = [clicks[c] EXCEPT !.phase = "over"]
      BY <1>2 DEF Released
    <2> QED BY <1>1, <1>2, <2>1, FieldsChange
  <1>3. CASE ~(clicks[c].phase = "settling" /\ clicks[c].key = k)
    <2>1. Released(k)[c] = clicks[c]
      BY <1>3 DEF Released
    <2> QED BY <1>1, <2>1
  <1> QED BY <1>2, <1>3

\* So does a press whose view the user leaves, or whose key follows the page.
LEMMA StrayedAlike ==
  ASSUME NEW cs, Alike(cs)
  PROVE  Alike(Strayed(cs))
  <1>1. \A c \in Clicks : Strayed(cs)[c] = [cs[c] EXCEPT !.stayed = FALSE]
    BY DEF Strayed
  <1>2. DOMAIN Strayed(cs) = Clicks
    BY DEF Strayed
  <1>3. \A c \in Clicks : Fields \subseteq DOMAIN cs[c]
    BY DEF Alike
  <1>4. \A c \in Clicks : /\ Fields \subseteq DOMAIN Strayed(cs)[c]
                          /\ Strayed(cs)[c].phase = cs[c].phase
                          /\ Strayed(cs)[c].finding = cs[c].finding
                          /\ Strayed(cs)[c].to = cs[c].to
    <2> TAKE c \in Clicks
    <2>1. \A x : /\ Fields \subseteq DOMAIN [cs[c] EXCEPT !.stayed = x]
                 /\ [cs[c] EXCEPT !.stayed = x].phase = cs[c].phase
                 /\ [cs[c] EXCEPT !.stayed = x].finding = cs[c].finding
                 /\ [cs[c] EXCEPT !.stayed = x].to = cs[c].to
      BY <1>3, FieldsChange
    <2> QED BY <1>1, <2>1, Zenon
  <1> QED BY <1>2, <1>4 DEF Alike

LEMMA RekeyedAlike ==
  ASSUME TriageInv, NEW k, NEW cs,
         cs = [c \in Clicks |->
           IF c = current /\ clicks[c].phase \in {"asked", "answered"}
           THEN [clicks[c] EXCEPT !.key = k] ELSE clicks[c]]
  PROVE  Alike(cs)
  <1>1. \A c \in Clicks : Fields \subseteq DOMAIN clicks[c]
    BY DEF TriageInv, Pressed
  <1>2. \A c \in Clicks : cs[c] = clicks[c] \/ cs[c] = [clicks[c] EXCEPT !.key = k]
    OBVIOUS
  <1>3. \A c \in Clicks : /\ Fields \subseteq DOMAIN cs[c]
                          /\ cs[c].phase = clicks[c].phase
                          /\ cs[c].finding = clicks[c].finding
                          /\ cs[c].to = clicks[c].to
    BY <1>1, <1>2, FieldsChange
  <1> QED BY <1>3 DEF Alike

\* The phase of one press moves on, among those after the answer.
LEMMA MovedAlike ==
  ASSUME NEW c \in Clicks, NEW p \in {"settling", "over"},
         clicks[c].phase \notin {"idle", "asked"}, NEW cs, Alike(cs)
  PROVE  Alike([cs EXCEPT ![c].phase = p])
  <1> DEFINE ds == [cs EXCEPT ![c].phase = p]
  <1>1. ds[c] = [cs[c] EXCEPT !.phase = p] /\ DOMAIN ds = Clicks
    BY DEF Alike
  <1>2. \A b \in Clicks \ {c} : ds[b] = cs[b]
    BY DEF Alike
  <1>3. Fields \subseteq DOMAIN cs[c] /\ cs[c].finding = clicks[c].finding /\ cs[c].to = clicks[c].to
    BY DEF Alike
  <1>4. /\ Fields \subseteq DOMAIN ds[c] /\ ds[c].phase = p
        /\ ds[c].finding = clicks[c].finding /\ ds[c].to = clicks[c].to
    BY <1>1, <1>3, FieldsChange
  <1> HIDE DEF ds
  <1>5. Alike(ds)
    <2>1. p # "idle" /\ p # "asked"
      OBVIOUS
    <2>2. \A b \in Clicks : /\ Fields \subseteq DOMAIN cs[b]
                            /\ cs[b].phase = "idle" <=> clicks[b].phase = "idle"
                            /\ cs[b].phase = "asked" <=> clicks[b].phase = "asked"
                            /\ cs[b].finding = clicks[b].finding /\ cs[b].to = clicks[b].to
      BY DEF Alike
    <2>3. \A b \in Clicks : /\ Fields \subseteq DOMAIN ds[b]
                            /\ ds[b].phase = "idle" <=> clicks[b].phase = "idle"
                            /\ ds[b].phase = "asked" <=> clicks[b].phase = "asked"
                            /\ ds[b].finding = clicks[b].finding /\ ds[b].to = clicks[b].to
      <3> TAKE b \in Clicks
      <3>1. CASE b = c
        BY <1>4, <2>1, <3>1
      <3>2. CASE b # c
        BY <1>2, <2>2, <3>2
      <3> QED BY <3>1, <3>2
    <2> QED BY <1>1, <2>3 DEF Alike
  <1> QED BY <1>5 DEF ds

-----------------------------------------------------------------------------
(* Steps.                                                                    *)

\* A step of the page or of the cache is none of the contract's.
LEMMA Silent ==
  ASSUME TriageInv, history' = history, selected' \in Findings \cup {NoFinding},
         Alike(clicks')
  PROVE  TriageInv' /\ UNCHANGED <<Latest, Asked, Made>>
  <1>1. \A c \in Clicks : ChangesBy(c)' = ChangesBy(c)
    BY DEF ChangesBy
  <1>2. TriageInv'
    <2>1. \A c \in Clicks : Pressed(c)'
      BY <1>1 DEF TriageInv, Pressed, Alike
    <2> QED BY <2>1 DEF TriageInv, Alike
  <1>3. Latest' = Latest
    BY DEF Latest
  <1>4. Asked' = Asked
    BY DEF Asked, Ask, Alike
  <1>5. Made' = Made
    BY <1>1 DEF Made, Alike
  <1> QED BY <1>2, <1>3, <1>4, <1>5

LEMMA ReselectedType ==
  ASSUME TriageInv, NEW k, NEW e, NewList(k, e)
  PROVE  selected' \in Findings \cup {NoFinding}
  BY DEF TriageInv, NewList, Reselected

\* One press goes from a phase to another that counts, and the others stay.
LEMMA Moved ==
  ASSUME TriageInv, NEW c \in Clicks, clicks[c].phase = "asked",
         Fields \subseteq DOMAIN clicks'[c], clicks'[c].phase = "answered",
         DOMAIN clicks' = Clicks, \A b \in Clicks \ {c} : clicks'[b] = clicks[b]
  PROVE  /\ Asked' = Asked \ {Ask(c)} /\ Ask(c) \in Asked
         /\ DOMAIN Made' = DOMAIN Made
         /\ \A b \in Clicks : Fields \subseteq DOMAIN clicks'[b]
         /\ \A b \in Clicks : clicks'[b].phase = "idle" <=> clicks[b].phase = "idle"
         /\ \A b \in Clicks : clicks'[b].phase = "asked" =>
              /\ clicks[b].phase = "asked"
              /\ clicks'[b].finding = clicks[b].finding /\ clicks'[b].to = clicks[b].to
  <1>1. \A b \in Clicks : Fields \subseteq DOMAIN clicks'[b]
    BY DEF TriageInv, Pressed
  <1>2. \A b \in Clicks : clicks'[b].phase = "idle" <=> clicks[b].phase = "idle"
    OBVIOUS
  <1>3. \A b \in Clicks : clicks'[b].phase = "asked" =>
          /\ clicks[b].phase = "asked"
          /\ clicks'[b].finding = clicks[b].finding /\ clicks'[b].to = clicks[b].to
    OBVIOUS
  <1>4. DOMAIN Made' = DOMAIN Made
    BY <1>2 DEF Made
  <1>5. Ask(c) \in Asked
    BY DEF Asked
  <1>6. \A b \in Clicks \ {c} : Ask(b)' = Ask(b) /\ Ask(b) # Ask(c)
    BY DEF Ask
  <1>7. Asked' = Asked \ {Ask(c)}
    <2>1. {x \in Clicks : clicks'[x].phase = "asked"} = {x \in Clicks : clicks[x].phase = "asked"} \ {c}
      OBVIOUS
    <2>2. Asked' = {Ask(b)' : b \in {x \in Clicks : clicks[x].phase = "asked"} \ {c}}
      BY <2>1 DEF Asked, Ask
    <2>3. Asked' = {Ask(b) : b \in {x \in Clicks : clicks[x].phase = "asked"} \ {c}}
      BY <1>6, <2>2
    <2> QED BY <1>6, <2>3 DEF Asked
  <1> QED BY <1>1, <1>2, <1>3, <1>4, <1>5, <1>7

\* A press is the contract's Ask.
LEMMA PressAsks ==
  ASSUME TriageInv, NEW c \in Clicks, NEW s \in ActionStates, RunAction(c, s)
  PROVE  TriageInv' /\ Contract!Next
  <1> DEFINE u1 == [Unpressed EXCEPT !.phase = "asked", !.finding = selected, !.to = s]
             u2 == [u1 EXCEPT !.key = view, !.home = view]
             u == [u2 EXCEPT !.previous = Shown, !.stayed = TRUE]
  <1>1. clicks' = [Released(view) EXCEPT ![c] = u]
    BY Zenon DEF RunAction
  <1>2. Fields \subseteq DOMAIN u1 /\ u1.phase = "asked" /\ u1.finding = selected /\ u1.to = s
    BY DEF Unpressed, Fields
  <1> HIDE DEF u1
  <1>3. Fields \subseteq DOMAIN u2 /\ u2.phase = "asked" /\ u2.finding = selected /\ u2.to = s
    BY <1>2 DEF Fields
  <1> HIDE DEF u2
  <1>4. Fields \subseteq DOMAIN u /\ u.phase = "asked" /\ u.finding = selected /\ u.to = s
    BY <1>3 DEF Fields
  <1> HIDE DEF u
  <1>5. /\ selected \in Findings /\ s \in States /\ clicks[c].phase = "idle"
        /\ history' = history /\ selected' = selected
    BY DEF RunAction, TriageInv, States
  <1>6. Alike(Released(view))
    BY ReleasedAlike
  <1>7. /\ DOMAIN clicks' = Clicks /\ clicks'[c] = u
        /\ \A b \in Clicks \ {c} :
             /\ Fields \subseteq DOMAIN clicks'[b]
             /\ clicks'[b].phase = "idle" <=> clicks[b].phase = "idle"
             /\ clicks'[b].phase = "asked" <=> clicks[b].phase = "asked"
             /\ clicks'[b].finding = clicks[b].finding /\ clicks'[b].to = clicks[b].to
    BY <1>1, <1>6 DEF Alike
  <1>8. \A b \in Clicks : ChangesBy(b)' = ChangesBy(b)
    BY <1>5 DEF ChangesBy
  <1>9. TriageInv'
    <2>1. \A b \in Clicks \ {c} : Pressed(b)'
      BY <1>7, <1>8 DEF TriageInv, Pressed
    <2>2. Pressed(c)'
      BY <1>4, <1>5, <1>7 DEF Pressed
    <2> QED BY <1>5, <1>7, <2>1, <2>2 DEF TriageInv
  <1>10. Latest' = Latest
    BY <1>5 DEF Latest
  <1>11. Asked' = Asked \cup {[click |-> c, finding |-> selected, to |-> s]}
    <2>1. {x \in Clicks : clicks'[x].phase = "asked"} =
            {x \in Clicks : clicks[x].phase = "asked"} \cup {c}
      BY <1>4, <1>7
    <2>2. /\ Ask(c)' = [click |-> c, finding |-> selected, to |-> s]
          /\ \A b \in Clicks \ {c} : Ask(b)' = Ask(b)
      BY <1>4, <1>7 DEF Ask
    <2>3. c \notin {x \in Clicks : clicks[x].phase = "asked"}
      BY <1>5
    <2> QED BY <2>1, <2>2, <2>3 DEF Asked
  <1>12. c \notin DOMAIN Made
    BY <1>5 DEF Made
  <1>13. Made' = [x \in DOMAIN Made \cup {c} |-> IF x = c THEN 0 ELSE Made[x]]
    <2>1. {x \in Clicks : clicks'[x].phase # "idle"} =
            {x \in Clicks : clicks[x].phase # "idle"} \cup {c}
      BY <1>4, <1>7
    <2>2. Cardinality(ChangesBy(c)) = 0
      BY <1>5, FS_EmptySet DEF TriageInv, Pressed
    <2>3. Made' = [x \in {y \in Clicks : clicks[y].phase # "idle"} \cup {c} |->
                     Cardinality(ChangesBy(x))]
      BY <1>8, <2>1 DEF Made
    <2> QED BY <2>2, <2>3 DEF Made
  <1>14. Contract!Ask(c, selected, s)
    BY <1>10, <1>11, <1>12, <1>13 DEF Contract!Ask
  <1> QED BY <1>5, <1>9, <1>14 DEF Contract!Next

\* A press that the server applies is the contract's Make.
LEMMA ApplyMakes ==
  ASSUME TriageInv, TriageAssumption, NEW c \in Clicks, ApplyAction(c)
  PROVE  TriageInv' /\ Contract!Next
  <1> DEFINE f == clicks[c].finding
             s == clicks[c].to
  <1>1. /\ history \in Seq(Moments) /\ Len(history) > 0 /\ Fields \subseteq DOMAIN clicks[c]
        /\ clicks[c].phase = "asked" /\ f \in Findings /\ s \in States
        /\ history' = Changed(f, s, c) /\ selected' = selected
    BY DEF ApplyAction, TriageInv, Pressed
  <1>2. PICK ok \in BOOLEAN :
          clicks' = [clicks EXCEPT ![c].phase = "answered", ![c].ok = ok,
                                   ![c].made = Len(history) + 1]
    BY DEF ApplyAction
  <1>3. /\ Fields \subseteq DOMAIN clicks'[c] /\ clicks'[c].phase = "answered"
        /\ DOMAIN clicks' = Clicks /\ \A b \in Clicks \ {c} : clicks'[b] = clicks[b]
    <2> DEFINE r1 == [clicks[c] EXCEPT !.phase = "answered"]
               r2 == [r1 EXCEPT !.ok = ok]
               r3 == [r2 EXCEPT !.made = Len(history) + 1]
    <2>1. /\ clicks'[c] = r3
          /\ DOMAIN clicks' = Clicks /\ \A b \in Clicks \ {c} : clicks'[b] = clicks[b]
      BY <1>2, Zenon DEF TriageInv
    <2>2. Fields \subseteq DOMAIN r1 /\ r1.phase = "answered"
      BY <1>1, FieldsChange
    <2> HIDE DEF r1
    <2>3. Fields \subseteq DOMAIN r2 /\ r2.phase = "answered"
      <3>1. \A x : Fields \subseteq DOMAIN [r1 EXCEPT !.ok = x] /\ [r1 EXCEPT !.ok = x].phase = r1.phase
        BY <2>2, FieldsChange
      <3> QED BY <2>2, <3>1, Zenon
    <2> HIDE DEF r2
    <2>4. Fields \subseteq DOMAIN r3 /\ r3.phase = "answered"
      BY <2>3, FieldsChange
    <2> QED BY <2>1, <2>4
  <1>4. /\ history' \in Seq(Moments) /\ Len(history') > 0
        /\ Latest' = [Latest EXCEPT ![f] = s]
        /\ \A b \in Clicks : ChangesBy(b)' =
             IF b = c THEN ChangesBy(b) \cup {Len(history) + 1} ELSE ChangesBy(b)
    BY <1>1, ChangedHistory
  <1>5. Asked' = Asked \ {Ask(c)} /\ Ask(c) \in Asked /\ DOMAIN Made' = DOMAIN Made
    BY <1>1, <1>3, Moved
  <1>6. TriageInv'
    <2>1. \A b \in Clicks \ {c} : Pressed(b)'
      BY <1>3, <1>4 DEF TriageInv, Pressed
    <2>2. Pressed(c)'
      BY <1>3 DEF Pressed
    <2> QED BY <1>1, <1>3, <1>4, <2>1, <2>2 DEF TriageInv
  <1>7. c \in DOMAIN Made /\ Made[c] = Cardinality(ChangesBy(c))
    BY <1>1 DEF Made
  <1>8. Made' = [Made EXCEPT ![c] = Made[c] + 1]
    <2>1. \A b \in DOMAIN Made : Made'[b] = Cardinality(ChangesBy(b)')
      BY <1>5 DEF Made
    <2>2. Cardinality(ChangesBy(c)') = Made[c] + 1
      BY <1>1, <1>4, <1>7, OneMore
    <2>3. \A b \in DOMAIN Made \ {c} : Made'[b] = Made[b]
      BY <1>4, <2>1 DEF Made
    <2>4. Made'[c] = Made[c] + 1
      BY <1>7, <2>1, <2>2
    <2>5. Made' = [b \in DOMAIN Made |-> Made'[b]]
      BY <1>5 DEF Made
    <2>6. [Made EXCEPT ![c] = Made[c] + 1] =
            [b \in DOMAIN Made |-> IF b = c THEN Made[c] + 1 ELSE Made[b]]
      OBVIOUS
    <2> QED BY <2>3, <2>4, <2>5, <2>6
  <1>9. Ask(c).click = c /\ Ask(c).finding = f /\ Ask(c).to = s
    BY DEF Ask
  <1>10. Contract!Make(Ask(c))
    BY <1>4, <1>5, <1>8, <1>9 DEF Contract!Make
  <1>11. \E r \in Asked : Contract!Make(r) \/ Contract!Refuse(r)
    BY <1>5, <1>10
  <1> QED BY <1>6, <1>11 DEF Contract!Next

\* A press that the server refuses, or never hears of, is the contract's Refuse.
LEMMA RefuseRefuses ==
  ASSUME TriageInv, NEW c \in Clicks, RefuseAction(c)
  PROVE  TriageInv' /\ Contract!Next
  <1>1. /\ clicks[c].phase = "asked" /\ Fields \subseteq DOMAIN clicks[c]
        /\ history' = history /\ selected' = selected
        /\ clicks' = [clicks EXCEPT ![c].phase = "answered"]
    BY DEF RefuseAction, TriageInv, Pressed
  <1>2. /\ clicks'[c] = [clicks[c] EXCEPT !.phase = "answered"] /\ DOMAIN clicks' = Clicks
        /\ \A b \in Clicks \ {c} : clicks'[b] = clicks[b]
    BY <1>1 DEF TriageInv
  <1>3. Fields \subseteq DOMAIN clicks'[c] /\ clicks'[c].phase = "answered"
    BY <1>1, <1>2, FieldsChange
  <1>4. Asked' = Asked \ {Ask(c)} /\ Ask(c) \in Asked /\ DOMAIN Made' = DOMAIN Made
    BY <1>1, <1>2, <1>3, Moved
  <1>5. \A b \in Clicks : ChangesBy(b)' = ChangesBy(b)
    BY <1>1 DEF ChangesBy
  <1>6. Latest' = Latest /\ Made' = Made
    <2>1. Latest' = Latest
      BY <1>1 DEF Latest
    <2> QED BY <1>4, <1>5, <2>1 DEF Made
  <1>7. TriageInv'
    <2>1. \A b \in Clicks \ {c} : Pressed(b)'
      BY <1>2, <1>5 DEF TriageInv, Pressed
    <2>2. Pressed(c)'
      BY <1>3 DEF Pressed
    <2> QED BY <1>1, <1>2, <2>1, <2>2 DEF TriageInv
  <1>8. Contract!Refuse(Ask(c))
    BY <1>4, <1>6 DEF Contract!Refuse
  <1> QED BY <1>4, <1>7, <1>8 DEF Contract!Next

\* Another user's change is the contract's Others.
LEMMA OthersChange ==
  ASSUME TriageInv, TriageAssumption, NEW f \in Findings, NEW s \in States, OtherUser(f, s)
  PROVE  TriageInv' /\ Contract!Next
  <1>1. /\ history \in Seq(Moments) /\ Len(history) > 0 /\ history' = Changed(f, s, NoClick)
        /\ clicks' = clicks /\ selected' = selected
    BY DEF OtherUser, TriageInv
  <1>2. NoClick \notin Clicks
    BY DEF NoClick, Clicks, TriageAssumption
  <1>3. NoClick \in Clicks \cup {NoClick}
    OBVIOUS
  <1>4. /\ history' \in Seq(Moments) /\ Len(history') > 0
        /\ Latest' = [Latest EXCEPT ![f] = s]
        /\ \A b \in Clicks : ChangesBy(b)' =
             IF b = NoClick THEN ChangesBy(b) \cup {Len(history) + 1} ELSE ChangesBy(b)
    BY <1>1, <1>3, ChangedHistory
  <1>5. \A b \in Clicks : ChangesBy(b)' = ChangesBy(b)
    BY <1>2, <1>4
  <1>6. TriageInv'
    BY <1>1, <1>4, <1>5 DEF TriageInv, Pressed
  <1>7. Asked' = Asked /\ Made' = Made
    BY <1>1, <1>5 DEF Asked, Made, Ask
  <1>8. Contract!Others(f, s)
    BY <1>4, <1>7 DEF Contract!Others
  <1> QED BY <1>6, <1>8 DEF Contract!Next

-----------------------------------------------------------------------------
(* The theorems.                                                             *)

LEMMA InitTriage ==
  ASSUME TriageAssumption, Init
  PROVE  TriageInv /\ Contract!Init
  <1>1. /\ history = <<[states |-> [f \in Findings |-> "open"], by |-> NoClick]>>
        /\ selected = NoFinding /\ clicks = [c \in Clicks |-> Unpressed]
    BY DEF Init
  <1> DEFINE m == [states |-> [f \in Findings |-> "open"], by |-> NoClick]
  <1>2. m \in Moments /\ m.states \in [Findings -> States] /\ m.by = NoClick
    BY DEF Moments, States
  <1> HIDE DEF m
  <1>3. history = <<m>>
    BY <1>1 DEF m
  <1>4. history \in Seq(Moments) /\ Len(history) = 1 /\ history[1] = m /\ DOMAIN history = {1}
    BY <1>2, <1>3
  <1>5. NoClick \notin Clicks
    BY DEF NoClick, Clicks, TriageAssumption
  <1>6. \A c \in Clicks : ChangesBy(c) = {}
    BY <1>2, <1>4, <1>5 DEF ChangesBy
  <1>7. Unpressed.phase = "idle" /\ Fields \subseteq DOMAIN Unpressed
    BY DEF Unpressed, Fields
  <1>8. DOMAIN clicks = Clicks /\ \A c \in Clicks : clicks[c] = Unpressed
    BY <1>1
  <1>9. TriageInv
    BY <1>1, <1>4, <1>6, <1>7, <1>8 DEF TriageInv, Pressed
  <1>10. Latest \in [Findings -> States]
    BY <1>2, <1>4 DEF Latest
  <1>11. {x \in Clicks : clicks[x].phase = "asked"} = {} /\ {x \in Clicks : clicks[x].phase # "idle"} = {}
    BY <1>7, <1>8
  <1>12. Asked = {} /\ Made = [c \in {} |-> 0]
    BY <1>11 DEF Asked, Made
  <1> QED BY <1>9, <1>10, <1>12 DEF Contract!Init

\* A step of the page keeps the invariant, and is a press or none of the contract's.
LEMMA PageStep ==
  ASSUME TriageInv, Page
  PROVE  TriageInv' /\ (Contract!Next \/ UNCHANGED <<Latest, Asked, Made>>)
  <1>1. CASE \E f \in Findings : OpenFinding(f)
    BY <1>1, NothingAlike, Silent DEF OpenFinding
  <1>2. CASE CloseFinding
    BY <1>2, NothingAlike, Silent DEF CloseFinding
  <1>3. CASE \E c \in Clicks, s \in ActionStates : RunAction(c, s)
    BY <1>3, PressAsks
  <1>4. CASE \E k \in Views : SwitchView(k)
    <2>1. PICK k \in Views : SwitchView(k)
      BY <1>4
    <2>2. selected' \in Findings \cup {NoFinding}
      BY <2>1 DEF SwitchView, Reselected, TriageInv
    <2> DEFINE cs == [c \in Clicks |->
                        IF c = current /\ clicks[c].phase \in {"asked", "answered"}
                        THEN [clicks[c] EXCEPT !.key = k] ELSE clicks[c]]
    <2>3. Alike(cs)
      BY RekeyedAlike
    <2>4. clicks' = Strayed(cs) /\ history' = history
      BY <2>1 DEF SwitchView
    <2> HIDE DEF cs
    <2>5. Alike(clicks')
      BY <2>3, <2>4, StrayedAlike
    <2> QED BY <2>2, <2>4, <2>5, Silent
  <1>5. CASE LeavePage
    <2>1. Alike(Strayed(clicks))
      BY NothingAlike, StrayedAlike
    <2> QED BY <1>5, <2>1, Silent DEF LeavePage
  <1>6. CASE ReturnToPage
    BY <1>6, NothingAlike, Silent DEF ReturnToPage, TriageInv
  <1>7. CASE RetryList
    <2>1. Alike(Released(view))
      BY ReleasedAlike
    <2> QED BY <1>7, <2>1, Silent DEF RetryList, TriageInv
  <1> QED BY <1>1, <1>2, <1>3, <1>4, <1>5, <1>6, <1>7 DEF Page

\* Reading a list is none of the contract's.
LEMMA ReadingStep ==
  ASSUME TriageInv, NEW k \in Views, Reading(k)
  PROVE  TriageInv' /\ UNCHANGED <<Latest, Asked, Made>>
  <1>1. CASE ReadList(k)
    BY <1>1, NothingAlike, Silent DEF ReadList, TriageInv
  <1>2. CASE DeliverList(k)
    <2>1. selected' \in Findings \cup {NoFinding}
      BY <1>2, ReselectedType DEF DeliverList
    <2> QED BY <1>2, <2>1, NothingAlike, Silent DEF DeliverList
  <1> QED BY <1>1, <1>2 DEF Reading

\* A press is applied or refused, and what follows is none of the contract's.
LEMMA AnsweringStep ==
  ASSUME TriageInv, TriageAssumption, NEW c \in Clicks, Answering(c)
  PROVE  TriageInv' /\ (Contract!Next \/ UNCHANGED <<Latest, Asked, Made>>)
  <1>1. CASE ApplyAction(c)
    BY <1>1, ApplyMakes
  <1>2. CASE RefuseAction(c)
    BY <1>2, RefuseRefuses
  <1>3. CASE SettleAction(c)
    <2>1. selected' \in Findings \cup {NoFinding}
      BY <1>3, ReselectedType DEF SettleAction
    <2>2. PICK p \in {"settling", "over"} :
            clicks' = [Released(clicks[c].key) EXCEPT ![c].phase = p]
      BY <1>3 DEF SettleAction
    <2>3. clicks[c].phase \notin {"idle", "asked"} /\ history' = history
      BY <1>3 DEF SettleAction
    <2>4. Alike(Released(clicks[c].key))
      BY ReleasedAlike
    <2>5. Alike(clicks')
      BY <2>2, <2>3, <2>4, MovedAlike
    <2> QED BY <2>1, <2>3, <2>5, Silent
  <1>4. CASE FinishAction(c)
    <2>1. /\ clicks' = [clicks EXCEPT ![c].phase = "over"]
          /\ clicks[c].phase \notin {"idle", "asked"}
          /\ history' = history /\ selected' = selected
      BY <1>4 DEF FinishAction
    <2>2. Alike(clicks')
      BY <2>1, NothingAlike, MovedAlike
    <2> QED BY <2>1, <2>2, Silent DEF TriageInv
  <1> QED BY <1>1, <1>2, <1>3, <1>4 DEF Answering

LEMMA NextTriage ==
  ASSUME TriageInv, TriageAssumption, [Next]_vars
  PROVE  TriageInv' /\ [Contract!Next]_<<Latest, Asked, Made>>
  <1>1. CASE Page
    BY <1>1, PageStep
  <1>2. CASE \E k \in Views : Reading(k)
    BY <1>2, ReadingStep
  <1>3. CASE \E c \in Clicks : Answering(c)
    BY <1>3, AnsweringStep
  <1>4. CASE \E f \in Findings, s \in States : OtherUser(f, s)
    BY <1>4, OthersChange
  <1>5. CASE UNCHANGED vars
    BY <1>5, NothingAlike, Silent DEF vars, TriageInv
  <1> QED BY <1>1, <1>2, <1>3, <1>4, <1>5 DEF Next

(* The findings page knows which finding and which change every press that is
   still asked for is about, whatever its lists do meanwhile. *)
THEOREM Invariant ==
  ASSUME TriageAssumption
  PROVE  Spec => []TriageInv
  <1>1. Init => TriageInv
    BY InitTriage
  <1>2. TriageInv /\ [Next]_vars => TriageInv'
    BY NextTriage
  <1> QED BY <1>1, <1>2, PTL DEF Spec

(* The findings page implements the contract of its buttons: a press of
   useFindingLifecycle changes the server at most once, to what was pressed,
   and only while the press is being answered. *)
THEOREM Implements ==
  ASSUME TriageAssumption
  PROVE  Spec => ImplementsContract
  <1>1. Init => Contract!Init
    BY InitTriage
  <1>2. TriageInv /\ [Next]_vars => [Contract!Next]_<<Latest, Asked, Made>>
    BY NextTriage
  <1> QED BY <1>1, <1>2, Invariant, PTL DEF Spec, ImplementsContract, Contract!Spec

-----------------------------------------------------------------------------
(* What the cache's operations make of a list.                               *)

\* Kept folded, since the prover types what it knows to be Boolean.
Flags == BOOLEAN

AllAnswers == [at : Nat, rows : UNION {[S -> States] : S \in SUBSET Findings}]

Entry == [data : AllAnswers \cup {NoData}, busy : Flags,
          answer : AllAnswers \cup {NoData, Failure}, failed : Flags]

Presses ==
  [phase : Phases, finding : Findings \cup {NoFinding}, to : States, key : Views, home : Views,
   previous : AllAnswers \cup {NoData}, ok : Flags, made : Nat, stayed : Flags]

LEMMA FlagsHave == TRUE \in Flags /\ FALSE \in Flags
  BY DEF Flags

LEMMA MountEntry ==
  ASSUME NEW e \in Entry
  PROVE  /\ Mount(e) \in Entry /\ Mount(e).data = e.data /\ Mount(e).busy
         /\ Mount(e).answer = NoData \/ (e.busy /\ Mount(e).answer = e.answer)
  <1>1. CASE e.busy
    BY <1>1 DEF Mount
  <1>2. CASE ~e.busy
    <2>1. Mount(e) = [e EXCEPT !.busy = TRUE, !.answer = NoData]
      BY <1>2 DEF Mount
    <2> QED BY <2>1, FlagsHave DEF Entry
  <1> QED BY <1>1, <1>2

LEMMA InvalidateEntry ==
  ASSUME NEW e \in Entry
  PROVE  /\ Invalidate(e) \in Entry /\ Invalidate(e).data = e.data /\ Invalidate(e).busy
         /\ Invalidate(e).answer = NoData
              \/ (e.busy /\ e.data = NoData /\ Invalidate(e).answer = e.answer)
  <1>1. CASE e.busy /\ e.data = NoData
    BY <1>1 DEF Invalidate
  <1>2. CASE ~(e.busy /\ e.data = NoData)
    <2>1. Invalidate(e) = [e EXCEPT !.busy = TRUE, !.answer = NoData]
      BY <1>2 DEF Invalidate
    <2> QED BY <2>1, FlagsHave DEF Entry
  <1> QED BY <1>1, <1>2

LEMMA SetDataEntry ==
  ASSUME NEW e \in Entry, NEW d \in AllAnswers \cup {NoData}
  PROVE  /\ SetData(e, d) \in Entry /\ SetData(e, d).data = d
         /\ SetData(e, d).busy = e.busy /\ SetData(e, d).answer = e.answer
  BY FlagsHave DEF SetData, Entry

LEMMA CancelEntry ==
  ASSUME NEW e \in Entry
  PROVE  /\ Cancel(e) \in Entry /\ Cancel(e).data = e.data
         /\ ~Cancel(e).busy /\ Cancel(e).answer = NoData
  BY FlagsHave DEF Cancel, Entry

LEMMA AnswerEntry ==
  ASSUME NEW e \in Entry, NEW d \in AllAnswers \cup {Failure}
  PROVE  /\ Answer(e, d) \in Entry /\ Answer(e, d).data = e.data /\ Answer(e, d).answer = d
         /\ Answer(e, d).busy = e.busy /\ Answer(e, d).failed = e.failed
  BY DEF Answer, Entry

LEMMA DeliverEntry ==
  ASSUME NEW e \in Entry, e.answer # NoData \/ e.answer = Failure
  PROVE  /\ Deliver(e) \in Entry /\ Deliver(e).answer = NoData
         /\ \/ Deliver(e).failed /\ Deliver(e).data = e.data
            \/ e.answer # Failure /\ Deliver(e).data = e.answer
  <1>1. CASE e.answer = Failure
    <2> DEFINE u == Cancel(e)
    <2>1. u \in Entry /\ u.data = e.data /\ u.answer = NoData
      BY CancelEntry
    <2>2. Deliver(e) = [u EXCEPT !.failed = TRUE]
      BY <1>1 DEF Deliver
    <2> HIDE DEF u
    <2> QED BY <2>1, <2>2, FlagsHave DEF Entry
  <1>2. CASE e.answer # Failure
    <2> DEFINE u == SetData(e, e.answer)
    <2>1. e.answer \in AllAnswers \cup {NoData}
      BY <1>2 DEF Entry
    <2>2. u \in Entry /\ u.data = e.answer
      BY <2>1, SetDataEntry
    <2>3. Deliver(e) = [u EXCEPT !.busy = FALSE, !.answer = NoData]
      BY <1>2 DEF Deliver
    <2> HIDE DEF u
    <2> QED BY <1>2, <2>2, <2>3, FlagsHave DEF Entry
  <1> QED BY <1>1, <1>2

-----------------------------------------------------------------------------
(* The invariant of what the page shows.                                     *)

\* The answers that the server has had for a list.
Served(k) == {Listed(k, i) : i \in DOMAIN history}

EntryOK(e, S) == e \in Entry /\ (e.answer = NoData \/ (e.busy /\ e.answer \in S))

\* A press that the server or the page has yet to deal with.
Out(r) == r.phase \in {"asked", "answered"}

PressOK(r, n) == r \in Presses /\ r.made <= n /\ (Out(r) => r.previous # NoData)

InHand(cs, v) == \E c \in Clicks : Out(cs[c]) /\ cs[c].key = v

\* What is shown is being read again, is known to be old, was served, or will
\* be read again by a press that is out.
Sound(e, S, v, cs) ==
  e.busy \/ e.failed \/ e.data = NoData \/ e.data \in S \/ InHand(cs, v)

\* A press whose user has stayed is out on the view, or what is shown is as new
\* as its change, is being read after it, or will be.
Fresh(e, v, cs, c) ==
  IF Out(cs[c]) THEN cs[c].key = v
  ELSE /\ e.answer = NoData \/ e.answer.at >= cs[c].made
       /\ e.busy \/ e.failed \/ e.data.at >= cs[c].made \/ InHand(cs, v)

ViewOK(e, S, v, cs, m) ==
  /\ m => Sound(e, S, v, cs)
  /\ \A c \in Clicks : cs[c].stayed => m /\ e.data # NoData /\ Fresh(e, v, cs, c)

SelectedOK(x, m, e) == x # NoFinding => m /\ e.data # NoData

ShownInv ==
  /\ lists \in [Views -> Entry] /\ \A k \in Views : EntryOK(lists[k], Served(k))
  /\ clicks \in [Clicks -> Presses] /\ \A c \in Clicks : PressOK(clicks[c], Len(history))
  /\ view \in Views /\ mounted \in Flags /\ current \in Clicks \cup {NoClick}
  /\ SelectedOK(selected, mounted, lists[view])
  /\ ViewOK(lists[view], Served(view), view, clicks, mounted)

\* A press that is dealt with no differently than before.
Kin(r, q) ==
  /\ r \in Presses
  /\ Out(r) <=> Out(q)
  /\ r.key = q.key /\ r.previous = q.previous
  /\ r.made = q.made \/ Out(r)
  /\ r.stayed => q.stayed

LEMMA PhaseKin ==
  ASSUME NEW q \in Presses, NEW p \in Phases, NEW r, r = [q EXCEPT !.phase = p]
  PROVE  /\ r \in Presses /\ r.phase = p /\ r.key = q.key /\ r.made = q.made
         /\ r.previous = q.previous /\ r.stayed = q.stayed
  BY DEF Presses

LEMMA StayedKin ==
  ASSUME NEW q \in Presses, NEW r, r = [q EXCEPT !.stayed = FALSE]
  PROVE  /\ r \in Presses /\ r.phase = q.phase /\ r.key = q.key /\ r.made = q.made
         /\ r.previous = q.previous /\ ~r.stayed
  BY FlagsHave DEF Presses

LEMMA ReleasedKin ==
  ASSUME clicks \in [Clicks -> Presses], NEW k
  PROVE  /\ Released(k) \in [Clicks -> Presses]
         /\ \A c \in Clicks : Kin(Released(k)[c], clicks[c])
  <1>1. \A c \in Clicks : Kin(Released(k)[c], clicks[c])
    <2> TAKE c \in Clicks
    <2>1. clicks[c] \in Presses
      OBVIOUS
    <2>2. CASE clicks[c].phase = "settling" /\ clicks[c].key = k
      <3>1. Released(k)[c] = [clicks[c] EXCEPT !.phase = "over"]
        BY <2>2 DEF Released
      <3>2. "over" \in Phases
        BY DEF Phases
      <3> QED BY <2>1, <2>2, <3>1, <3>2, PhaseKin DEF Kin, Out
    <2>3. CASE ~(clicks[c].phase = "settling" /\ clicks[c].key = k)
      <3>1. Released(k)[c] = clicks[c]
        BY <2>3 DEF Released
      <3> QED BY <2>1, <3>1 DEF Kin
    <2> QED BY <2>2, <2>3
  <1>2. Released(k) = [c \in Clicks |-> Released(k)[c]]
    BY DEF Released
  <1>3. \A c \in Clicks : Released(k)[c] \in Presses
    BY <1>1, Zenon DEF Kin
  <1> QED BY <1>1, <1>2, <1>3

LEMMA ReleasedMade ==
  ASSUME clicks \in [Clicks -> Presses], NEW k
  PROVE  \A c \in Clicks : Released(k)[c].made = clicks[c].made
  BY DEF Released, Presses

\* The answers that were served stay served.
LEMMA ServedGrows ==
  ASSUME TriageInv, TriageInv',
         history' = history \/ \E f \in Findings, s \in States : \E b : history' = Changed(f, s, b)
  PROVE  /\ \A k \in Views : Served(k) \subseteq Served(k)'
         /\ Len(history) \in Nat /\ Len(history') \in Nat /\ Len(history) <= Len(history')
  <1>1. CASE history' = history
    BY <1>1 DEF Served, Listed, TriageInv
  <1>2. CASE \E f \in Findings, s \in States : \E b : history' = Changed(f, s, b)
    <2>1. PICK m : history' = Append(history, m)
      BY <1>2 DEF Changed
    <2>2. /\ history \in Seq(Moments) /\ history' \in Seq(Moments)
      BY DEF TriageInv
    <2>3. /\ Len(history') = Len(history) + 1
          /\ \A i \in 1 .. Len(history) : history'[i] = history[i]
      BY <2>1, <2>2
    <2>4. DOMAIN history = 1 .. Len(history) /\ DOMAIN history' = 1 .. Len(history')
      BY <2>2
    <2>5. Len(history) \in Nat /\ Len(history') \in Nat
      BY <2>2
    <2>6. \A i \in DOMAIN history : i \in DOMAIN history' /\ history'[i] = history[i]
      BY <2>3, <2>4, <2>5
    <2>7. \A k \in Views, i \in DOMAIN history : Listed(k, i)' = Listed(k, i)
      BY <2>6 DEF Listed
    <2> QED BY <2>3, <2>5, <2>6, <2>7 DEF Served
  <1> QED BY <1>1, <1>2

LEMMA ServedAre ==
  ASSUME TriageInv, TriageAssumption, NEW k \in Views
  PROVE  /\ Served(k) \subseteq AllAnswers /\ NoData \notin AllAnswers
         /\ Listed(k, Len(history)) \in Served(k)
         /\ Listed(k, Len(history)).at = Len(history)
         /\ \A d \in AllAnswers : d.at \in Nat
  <1>1. NoData \notin AllAnswers
    BY DEF TriageAssumption, Answers, AllAnswers
  <1>2. DOMAIN history = 1 .. Len(history) /\ Len(history) \in DOMAIN history
    BY DEF TriageInv
  <1>3. \A i \in DOMAIN history : Listed(k, i) \in AllAnswers
    <2> TAKE i \in DOMAIN history
    <2>1. history[i].states \in [Findings -> States]
      <3>1. history[i] \in Moments
        BY DEF TriageInv
      <3> QED BY <3>1 DEF Moments
    <2> DEFINE X == {x \in Findings : history[i].states[x] \in Filter[k]}
               rows == [f \in X |-> history[i].states[f]]
    <2>2. X \in SUBSET Findings /\ rows \in [X -> States]
      BY <2>1
    <2>3. i \in Nat
      BY <1>2
    <2>4. Listed(k, i) = [at |-> i, rows |-> rows]
      BY DEF Listed
    <2> HIDE DEF X, rows
    <2> QED BY <2>2, <2>3, <2>4 DEF AllAnswers
  <1>4. Listed(k, Len(history)).at = Len(history)
    BY DEF Listed
  <1>5. \A d \in AllAnswers : d.at \in Nat
    BY DEF AllAnswers
  <1> QED BY <1>1, <1>2, <1>3, <1>4, <1>5 DEF Served

\* The optimistic list is a list, as old as the one it was.
LEMMA OptimisticIs ==
  ASSUME NEW d \in AllAnswers, NEW f \in Findings, NEW s \in States
  PROVE  [d EXCEPT !.rows[f] = s] \in AllAnswers
  <1>1. PICK S \in SUBSET Findings : d.rows \in [S -> States]
    BY DEF AllAnswers
  <1>2. [d.rows EXCEPT ![f] = s] \in [S -> States]
    BY <1>1
  <1>3. [d EXCEPT !.rows[f] = s] = [d EXCEPT !.rows = [d.rows EXCEPT ![f] = s]]
    OBVIOUS
  <1> QED BY <1>2, <1>3 DEF AllAnswers

-----------------------------------------------------------------------------
(* Steps that change no list.                                                *)

LEMMA ViewKept ==
  ASSUME NEW e, NEW S, NEW R, S \subseteq R, NEW v, NEW cs, NEW ds, NEW m, NEW w,
         ViewOK(e, S, v, cs, m), \A c \in Clicks : Kin(ds[c], cs[c]),
         w = m \/ (~w /\ \A c \in Clicks : ~ds[c].stayed)
  PROVE  ViewOK(e, R, v, ds, w)
  <1>1. InHand(cs, v) => InHand(ds, v)
    BY DEF InHand, Kin
  <1>2. w => m
    OBVIOUS
  <1>3. w => Sound(e, R, v, ds)
    BY <1>1, <1>2 DEF ViewOK, Sound
  <1>4. ASSUME NEW c \in Clicks, ds[c].stayed
        PROVE  w /\ e.data # NoData /\ Fresh(e, v, ds, c)
    <2>1. cs[c].stayed /\ w = m
      BY <1>4 DEF Kin
    <2>2. m /\ e.data # NoData /\ Fresh(e, v, cs, c)
      BY <2>1 DEF ViewOK
    <2>3. /\ Out(ds[c]) <=> Out(cs[c])
          /\ ds[c].key = cs[c].key /\ (ds[c].made = cs[c].made \/ Out(ds[c]))
      BY DEF Kin
    <2>4. Fresh(e, v, ds, c)
      BY <1>1, <2>2, <2>3 DEF Fresh
    <2> QED BY <2>1, <2>2, <2>4
  <1> QED BY <1>3, <1>4 DEF ViewOK

\* What a list that is read again, or known to be old, or in hand, needs.
LEMMA ViewAgain ==
  ASSUME NEW e, NEW S, NEW v, NEW ds, NEW m, e.busy \/ e.failed \/ InHand(ds, v),
         \A c \in Clicks : ds[c].stayed =>
           m /\ e.data # NoData /\ e.answer = NoData /\ (Out(ds[c]) => ds[c].key = v)
  PROVE  ViewOK(e, S, v, ds, m)
  BY DEF ViewOK, Sound, Fresh

LEMMA StayedAre ==
  ASSUME NEW e, NEW S, NEW v, NEW cs, NEW m, ViewOK(e, S, v, cs, m), NEW c \in Clicks,
         NEW r, Kin(r, cs[c]), r.stayed
  PROVE  m /\ e.data # NoData /\ (Out(r) => r.key = v)
  BY DEF ViewOK, Fresh, Kin

LEMMA Itself ==
  ASSUME clicks \in [Clicks -> Presses]
  PROVE  \A c \in Clicks : Kin(clicks[c], clicks[c])
  BY DEF Kin

LEMMA ListsKept ==
  ASSUME TriageInv, TriageInv', ShownInv, UNCHANGED <<lists, view>>,
         history' = history \/ \E f \in Findings, s \in States : \E b : history' = Changed(f, s, b),
         clicks' \in [Clicks -> Presses], \A c \in Clicks : Kin(clicks'[c], clicks[c]),
         \A c \in Clicks : clicks'[c].made = clicks[c].made \/ clicks'[c].made <= Len(history'),
         mounted' \in Flags,
         mounted' = mounted \/ (~mounted' /\ \A c \in Clicks : ~clicks'[c].stayed),
         SelectedOK(selected', mounted', lists[view]), current' \in Clicks \cup {NoClick}
  PROVE  ShownInv'
  <1>1. /\ \A k \in Views : Served(k) \subseteq Served(k)'
        /\ Len(history) \in Nat /\ Len(history') \in Nat /\ Len(history) <= Len(history')
    BY ServedGrows
  <1>2. \A k \in Views : EntryOK(lists'[k], Served(k)')
    BY <1>1 DEF ShownInv, EntryOK
  <1>3. \A c \in Clicks : PressOK(clicks'[c], Len(history'))
    <2> TAKE c \in Clicks
    <2>1. PressOK(clicks[c], Len(history)) /\ Kin(clicks'[c], clicks[c])
      BY DEF ShownInv
    <2>2. clicks[c].made \in Nat
      BY DEF ShownInv, Presses
    <2>3. clicks'[c].made <= Len(history')
      <3>1. CASE clicks'[c].made = clicks[c].made
        BY <1>1, <2>1, <2>2, <3>1 DEF PressOK
      <3> QED BY <3>1
    <2>4. clicks'[c] \in Presses /\ (Out(clicks'[c]) => clicks'[c].previous # NoData)
      BY <2>1 DEF PressOK, Kin
    <2> QED BY <2>3, <2>4 DEF PressOK
  <1>4. ViewOK(lists[view], Served(view)', view, clicks', mounted')
    BY <1>1, ViewKept DEF ShownInv
  <1> QED BY <1>2, <1>3, <1>4 DEF ShownInv

LEMMA QuietPage ==
  ASSUME TriageInv, TriageInv', ShownInv,
         (\E f \in Findings : OpenFinding(f)) \/ CloseFinding \/ LeavePage \/ UNCHANGED vars
  PROVE  ShownInv'
  <1>1. /\ clicks \in [Clicks -> Presses] /\ mounted \in Flags /\ current \in Clicks \cup {NoClick}
        /\ SelectedOK(selected, mounted, lists[view]) /\ view \in Views
    BY DEF ShownInv
  <1>2. CASE \E f \in Findings : OpenFinding(f)
    <2>1. PICK f \in Findings : OpenFinding(f)
      BY <1>2
    <2>2. SelectedOK(selected', mounted', lists[view])
      BY <2>1 DEF OpenFinding, SelectedOK, ShownFindings, Shown
    <2> QED BY <1>1, <2>1, <2>2, Itself, ListsKept DEF OpenFinding
  <1>3. CASE CloseFinding
    <2>1. SelectedOK(selected', mounted', lists[view])
      BY <1>3 DEF CloseFinding, SelectedOK
    <2> QED BY <1>1, <1>3, <2>1, Itself, ListsKept DEF CloseFinding
  <1>4. CASE LeavePage
    <2>1. SelectedOK(selected', mounted', lists[view])
      BY <1>4 DEF LeavePage, SelectedOK
    <2>2. \A c \in Clicks : clicks'[c] = [clicks[c] EXCEPT !.stayed = FALSE]
      BY <1>4 DEF LeavePage, Strayed
    <2>3. \A c \in Clicks :
            /\ clicks'[c] \in Presses /\ Kin(clicks'[c], clicks[c]) /\ ~clicks'[c].stayed
            /\ clicks'[c].made = clicks[c].made
      BY <1>1, <2>2, StayedKin DEF Kin, Out
    <2>4. clicks' \in [Clicks -> Presses]
      <3>1. clicks' = [c \in Clicks |-> clicks'[c]]
        BY <1>4 DEF LeavePage, Strayed
      <3> QED BY <2>3, <3>1
    <2> QED BY <1>1, <1>4, <2>1, <2>3, <2>4, FlagsHave, ListsKept DEF LeavePage
  <1>5. CASE UNCHANGED vars
    BY <1>1, <1>5, Itself, ListsKept DEF vars
  <1> QED BY <1>2, <1>3, <1>4, <1>5

LEMMA ServerSteps ==
  ASSUME TriageInv, TriageInv', ShownInv,
         \/ \E c \in Clicks : ApplyAction(c) \/ RefuseAction(c) \/ FinishAction(c)
         \/ \E f \in Findings, s \in States : OtherUser(f, s)
  PROVE  ShownInv'
  <1>1. /\ clicks \in [Clicks -> Presses] /\ mounted \in Flags /\ current \in Clicks \cup {NoClick}
        /\ SelectedOK(selected, mounted, lists[view]) /\ view \in Views
    BY DEF ShownInv
  <1>2. CASE \E c \in Clicks : ApplyAction(c)
    <2>1. PICK c \in Clicks : ApplyAction(c)
      BY <1>2
    <2>2. PICK ok \in BOOLEAN :
            clicks' = [clicks EXCEPT ![c].phase = "answered", ![c].ok = ok,
                                     ![c].made = Len(history) + 1]
      BY <2>1 DEF ApplyAction
    <2> DEFINE r1 == [clicks[c] EXCEPT !.phase = "answered"]
               r2 == [r1 EXCEPT !.ok = ok]
               r3 == [r2 EXCEPT !.made = Len(history) + 1]
    <2>3. clicks'[c] = r3 /\ \A b \in Clicks \ {c} : clicks'[b] = clicks[b]
      BY <1>1, <2>2, Zenon
    <2>4. DOMAIN clicks' = Clicks /\ clicks' = [b \in Clicks |-> clicks'[b]]
      BY <1>1, <2>2
    <2>5. clicks[c].phase = "asked" /\ clicks[c].finding \in Findings /\ clicks[c].to \in States
      BY <2>1 DEF ApplyAction, TriageInv, Pressed
    <2>6. history' = Changed(clicks[c].finding, clicks[c].to, c)
      BY <2>1 DEF ApplyAction
    <2>7. /\ r1 \in Presses /\ r1.phase = "answered" /\ r1.key = clicks[c].key
          /\ r1.previous = clicks[c].previous /\ r1.stayed = clicks[c].stayed
      <3>1. clicks[c] \in Presses /\ "answered" \in Phases
        BY <1>1 DEF Phases
      <3> QED BY <3>1, PhaseKin
    <2> HIDE DEF r1
    <2>8. /\ r2 \in Presses /\ r2.phase = "answered" /\ r2.key = clicks[c].key
          /\ r2.previous = clicks[c].previous /\ r2.stayed = clicks[c].stayed
      <3>1. ok \in Flags
        BY DEF Flags
      <3> QED BY <2>7, <3>1 DEF Presses
    <2> HIDE DEF r2
    <2>9. Len(history) \in Nat /\ Len(history') = Len(history) + 1
      BY <2>6 DEF TriageInv, Changed
    <2>10. /\ r3 \in Presses /\ r3.phase = "answered" /\ r3.key = clicks[c].key
           /\ r3.previous = clicks[c].previous /\ r3.stayed = clicks[c].stayed
           /\ r3.made = Len(history')
      BY <2>8, <2>9 DEF Presses
    <2> HIDE DEF r3
    <2>11. Kin(clicks'[c], clicks[c])
      BY <2>3, <2>5, <2>10 DEF Kin, Out
    <2>12. \A b \in Clicks : Kin(clicks'[b], clicks[b])
      BY <1>1, <2>3, <2>11, Itself
    <2>13. \A b \in Clicks : clicks'[b].made = clicks[b].made \/ clicks'[b].made <= Len(history')
      BY <2>3, <2>9, <2>10
    <2>14. clicks' \in [Clicks -> Presses]
      BY <1>1, <2>3, <2>4, <2>10
    <2> QED BY <1>1, <2>1, <2>5, <2>6, <2>12, <2>13, <2>14, ListsKept DEF ApplyAction
  <1>3. ASSUME NEW c \in Clicks, NEW p \in {"answered", "over"},
               clicks' = [clicks EXCEPT ![c].phase = p],
               UNCHANGED <<history, lists, view, mounted, selected, current>>,
               p = "answered" => clicks[c].phase = "asked",
               p = "over" => clicks[c].phase = "settling"
        PROVE  ShownInv'
    <2>1. /\ clicks'[c] = [clicks[c] EXCEPT !.phase = p]
          /\ \A b \in Clicks \ {c} : clicks'[b] = clicks[b]
          /\ clicks' = [b \in Clicks |-> clicks'[b]]
      BY <1>1, <1>3
    <2>2. clicks[c] \in Presses /\ p \in Phases
      BY <1>1 DEF Phases
    <2>3. clicks'[c] \in Presses /\ Kin(clicks'[c], clicks[c]) /\ clicks'[c].made = clicks[c].made
      BY <1>3, <2>1, <2>2, PhaseKin DEF Kin, Out
    <2>4. \A b \in Clicks : Kin(clicks'[b], clicks[b])
      BY <1>1, <2>1, <2>3, Itself
    <2>5. clicks' \in [Clicks -> Presses] /\ \A b \in Clicks : clicks'[b].made = clicks[b].made
      BY <1>1, <2>1, <2>3
    <2> QED BY <1>1, <1>3, <2>4, <2>5, ListsKept
  <1>4. CASE \E c \in Clicks : RefuseAction(c)
    BY <1>3, <1>4 DEF RefuseAction
  <1>5. CASE \E c \in Clicks : FinishAction(c)
    BY <1>3, <1>5 DEF FinishAction
  <1>6. CASE \E f \in Findings, s \in States : OtherUser(f, s)
    BY <1>1, <1>6, Itself, ListsKept DEF OtherUser
  <1> QED BY <1>2, <1>4, <1>5, <1>6

-----------------------------------------------------------------------------
(* Steps that change one list.                                               *)

\* The list that is changed is as it should be, and so is the page: then the
\* others are, which the step leaves alone.
LEMMA OneList ==
  ASSUME TriageInv, ShownInv, NEW k \in Views, NEW e, lists' = [lists EXCEPT ![k] = e],
         EntryOK(e, Served(k)), history' = history,
         clicks' \in [Clicks -> Presses], \A c \in Clicks : PressOK(clicks'[c], Len(history)),
         view' \in Views, mounted' \in Flags, current' \in Clicks \cup {NoClick},
         SelectedOK(selected', mounted', lists'[view']),
         ViewOK(lists'[view'], Served(view'), view', clicks', mounted')
  PROVE  ShownInv'
  <1>1. \A j \in Views : Served(j)' = Served(j)
    BY DEF Served, Listed
  <1>2. lists' \in [Views -> Entry] /\ \A j \in Views : EntryOK(lists'[j], Served(j)')
    BY <1>1 DEF ShownInv, EntryOK
  <1>3. Served(view)' = Served(view')
    BY <1>1
  <1> QED BY <1>2, <1>3 DEF ShownInv

LEMMA KinOK ==
  ASSUME ShownInv, NEW cs \in [Clicks -> Presses], \A c \in Clicks : Kin(cs[c], clicks[c]),
         \A c \in Clicks : cs[c].made = clicks[c].made
  PROVE  \A c \in Clicks : PressOK(cs[c], Len(history))
  BY DEF ShownInv, PressOK, Kin

\* What is shown is data that has been served, or made of such data.
LEMMA ShownType ==
  ASSUME TriageInv, ShownInv, selected # NoFinding
  PROVE  Shown \in AllAnswers /\ selected \in Findings /\ mounted
  BY DEF ShownInv, SelectedOK, Shown, TriageInv, Entry

LEMMA RunShown ==
  ASSUME TriageInv, TriageAssumption, ShownInv, NEW c \in Clicks, NEW s \in ActionStates,
         RunAction(c, s)
  PROVE  ShownInv'
  <1> DEFINE d == Optimistic(selected, s)
             e == SetData(Cancel(lists[view]), d)
  <1>1. /\ mounted /\ selected # NoFinding /\ lists' = [lists EXCEPT ![view] = e]
        /\ current' = c /\ UNCHANGED <<history, view, mounted, selected>>
    BY DEF RunAction
  <1>2. Shown \in AllAnswers /\ selected \in Findings /\ s \in States /\ NoData \notin AllAnswers
    BY <1>1, ShownType, ServedAre DEF States, ShownInv
  <1>3. d \in AllAnswers
    BY <1>2, OptimisticIs DEF Optimistic, Shown
  <1>4. lists \in [Views -> Entry] /\ view \in Views /\ mounted \in Flags
    BY DEF ShownInv
  <1>5. e \in Entry /\ e.data = d /\ e.answer = NoData
    <2>1. lists[view] \in Entry /\ d \in AllAnswers \cup {NoData}
      BY <1>3, <1>4
    <2> HIDE DEF d
    <2> QED BY <2>1, CancelEntry, SetDataEntry
  <1> HIDE DEF d
  <1> DEFINE u1 == [Unpressed EXCEPT !.phase = "asked", !.finding = selected, !.to = s]
             u2 == [u1 EXCEPT !.key = view, !.home = view]
             u == [u2 EXCEPT !.previous = Shown, !.stayed = TRUE]
  <1>6. clicks' = [Released(view) EXCEPT ![c] = u]
    BY Zenon DEF RunAction
  <1>7. /\ u1 \in Presses /\ u1.phase = "asked" /\ u1.made = 0
    <2>1. Unpressed \in Presses /\ Unpressed.made = 0
      <3>1. (CHOOSE k \in Views : TRUE) \in Views
        BY <1>4
      <3> QED BY <3>1, FlagsHave DEF Unpressed, Presses, Phases, States
    <2>2. "asked" \in Phases
      BY DEF Phases
    <2> QED BY <1>2, <2>1, <2>2 DEF Presses
  <1> HIDE DEF u1
  <1>8. /\ u2 \in Presses /\ u2.phase = "asked" /\ u2.made = 0 /\ u2.key = view
    BY <1>4, <1>7 DEF Presses
  <1> HIDE DEF u2
  <1>9. /\ u \in Presses /\ u.phase = "asked" /\ u.made = 0 /\ u.key = view /\ u.previous = Shown
    BY <1>2, <1>8, FlagsHave DEF Presses
  <1> HIDE DEF u, e
  <1>10. /\ Released(view) \in [Clicks -> Presses]
         /\ \A b \in Clicks : Kin(Released(view)[b], clicks[b])
    BY ReleasedKin DEF ShownInv
  <1>11. \A b \in Clicks : Released(view)[b].made = clicks[b].made
    BY ReleasedMade DEF ShownInv
  <1>12. /\ clicks' \in [Clicks -> Presses] /\ clicks'[c] = u
         /\ \A b \in Clicks \ {c} : clicks'[b] = Released(view)[b]
    BY <1>6, <1>9, <1>10
  <1>13. \A b \in Clicks : PressOK(clicks'[b], Len(history))
    <2>1. \A b \in Clicks : PressOK(Released(view)[b], Len(history))
      BY <1>10, <1>11, KinOK
    <2>2. PressOK(u, Len(history))
      <3>1. 0 <= Len(history)
        BY DEF TriageInv
      <3> QED BY <1>2, <1>9, <3>1 DEF PressOK
    <2> QED BY <1>12, <2>1, <2>2
  <1>14. InHand(clicks', view)
    BY <1>9, <1>12 DEF InHand, Out
  <1>15. ASSUME NEW b \in Clicks, clicks'[b].stayed
         PROVE  mounted /\ e.data # NoData /\ e.answer = NoData
                /\ (Out(clicks'[b]) => clicks'[b].key = view)
    <2>1. e.data # NoData
      BY <1>2, <1>3, <1>5
    <2>2. Out(clicks'[b]) => clicks'[b].key = view
      <3>1. CASE b = c
        BY <1>9, <1>12, <3>1
      <3>2. CASE b # c
        <4>1. ViewOK(lists[view], Served(view), view, clicks, mounted)
          BY DEF ShownInv
        <4>2. Kin(clicks'[b], clicks[b])
          BY <1>10, <1>12, <3>2
        <4> QED BY <1>15, <4>1, <4>2, StayedAre
      <3> QED BY <3>1, <3>2
    <2> QED BY <1>1, <1>5, <2>1, <2>2
  <1>16. ViewOK(e, Served(view), view, clicks', mounted)
    BY <1>14, <1>15, ViewAgain
  <1>17. EntryOK(e, Served(view))
    BY <1>5 DEF EntryOK
  <1>18. lists'[view'] = e
    BY <1>1, <1>4
  <1>19. SelectedOK(selected', mounted', e)
    BY <1>1, <1>2, <1>3, <1>5 DEF SelectedOK
  <1>20. /\ view' \in Views /\ mounted' \in Flags /\ current' \in Clicks \cup {NoClick}
         /\ history' = history /\ view' = view /\ mounted' = mounted
         /\ lists' = [lists EXCEPT ![view] = e]
    BY <1>1, <1>4
  <1> QED BY <1>4, <1>12, <1>13, <1>16, <1>17, <1>18, <1>19, <1>20, OneList

\* A view that is shown anew is read again, and no press has stayed on it.
LEMMA MountShown ==
  ASSUME TriageInv, ShownInv, (\E k \in Views : SwitchView(k)) \/ ReturnToPage
  PROVE  ShownInv'
  <1>1. /\ clicks \in [Clicks -> Presses] /\ lists \in [Views -> Entry] /\ mounted \in Flags
        /\ current \in Clicks \cup {NoClick} /\ view \in Views
        /\ \A k \in Views : EntryOK(lists[k], Served(k))
        /\ \A c \in Clicks : PressOK(clicks[c], Len(history))
    BY DEF ShownInv
  <1>2. ASSUME NEW k \in Views, lists' = [lists EXCEPT ![k] = Mount(@)], view' = k, mounted',
               mounted' \in Flags,
               SelectedOK(selected', mounted', lists[k]), UNCHANGED <<history, current>>,
               clicks' \in [Clicks -> Presses],
               \A c \in Clicks : PressOK(clicks'[c], Len(history)) /\ ~clicks'[c].stayed
        PROVE  ShownInv'
    <2> DEFINE e == Mount(lists[k])
    <2>1. lists' = [lists EXCEPT ![k] = e] /\ lists'[view'] = e
      BY <1>1, <1>2
    <2>2. /\ e \in Entry /\ e.data = lists[k].data /\ e.busy
          /\ e.answer = NoData \/ (lists[k].busy /\ e.answer = lists[k].answer)
      BY <1>1, MountEntry
    <2> HIDE DEF e
    <2>3. EntryOK(e, Served(k))
      BY <1>1, <2>2 DEF EntryOK
    <2>4. SelectedOK(selected', mounted', e)
      BY <1>2, <2>2 DEF SelectedOK
    <2>5. ViewOK(e, Served(k), k, clicks', mounted')
      BY <1>2, <2>2, ViewAgain
    <2> QED BY <1>1, <1>2, <2>1, <2>3, <2>4, <2>5, OneList
  <1>3. CASE \E k \in Views : SwitchView(k)
    <2>1. PICK k \in Views : SwitchView(k)
      BY <1>3
    <2>2. /\ mounted /\ view' = k /\ lists' = [lists EXCEPT ![k] = Mount(@)]
          /\ selected' = Reselected(lists[k]) /\ UNCHANGED <<history, mounted, current>>
      BY <2>1 DEF SwitchView
    <2>3. SelectedOK(selected', mounted', lists[k])
      BY <2>2 DEF Reselected, SelectedOK
    <2> DEFINE r(c) == IF c = current /\ clicks[c].phase \in {"asked", "answered"}
                       THEN [clicks[c] EXCEPT !.key = k] ELSE clicks[c]
    <2>4. \A c \in Clicks : clicks'[c] = [r(c) EXCEPT !.stayed = FALSE]
      BY <2>1, Zenon DEF SwitchView, Strayed
    <2>5. clicks' = [c \in Clicks |-> clicks'[c]]
      BY <2>1 DEF SwitchView, Strayed
    <2>6. \A c \in Clicks : /\ r(c) \in Presses /\ r(c).phase = clicks[c].phase
                            /\ r(c).made = clicks[c].made /\ r(c).previous = clicks[c].previous
      <3> TAKE c \in Clicks
      <3>1. clicks[c] \in Presses
        BY <1>1
      <3> QED BY <3>1 DEF Presses
    <2> HIDE DEF r
    <2>7. \A c \in Clicks :
            /\ clicks'[c] \in Presses /\ clicks'[c].phase = clicks[c].phase
            /\ clicks'[c].made = clicks[c].made /\ clicks'[c].previous = clicks[c].previous
            /\ ~clicks'[c].stayed
      BY <2>4, <2>6, StayedKin
    <2>8. \A c \in Clicks : PressOK(clicks'[c], Len(history)) /\ ~clicks'[c].stayed
      BY <1>1, <2>7 DEF PressOK, Out
    <2>9. clicks' \in [Clicks -> Presses]
      BY <2>5, <2>7
    <2> QED BY <1>1, <1>2, <2>2, <2>3, <2>8, <2>9
  <1>4. CASE ReturnToPage
    <2>1. /\ ~mounted /\ mounted' /\ lists' = [lists EXCEPT ![view] = Mount(@)]
          /\ UNCHANGED <<history, view, selected, clicks, current>> /\ mounted' \in Flags
      BY <1>4, FlagsHave DEF ReturnToPage
    <2>2. SelectedOK(selected', mounted', lists[view])
      BY <2>1 DEF ShownInv, SelectedOK
    <2>3. \A c \in Clicks : ~clicks[c].stayed
      BY <2>1 DEF ShownInv, ViewOK
    <2> QED BY <1>1, <1>2, <2>1, <2>2, <2>3
  <1> QED BY <1>3, <1>4

LEMMA RetryShown ==
  ASSUME TriageInv, ShownInv, RetryList
  PROVE  ShownInv'
  <1> DEFINE e == Invalidate(lists[view])
  <1>1. /\ lists \in [Views -> Entry] /\ view \in Views /\ mounted \in Flags
        /\ current \in Clicks \cup {NoClick}
        /\ SelectedOK(selected, mounted, lists[view])
        /\ ViewOK(lists[view], Served(view), view, clicks, mounted)
    BY DEF ShownInv
  <1>2. /\ ~(lists[view].busy /\ lists[view].data = NoData)
        /\ lists' = [lists EXCEPT ![view] = e] /\ clicks' = Released(view)
        /\ UNCHANGED <<history, view, mounted, selected, current>>
    BY DEF RetryList, IsError, IsLoading
  <1>3. e \in Entry /\ e.data = lists[view].data /\ e.busy /\ e.answer = NoData
    BY <1>1, <1>2, InvalidateEntry
  <1> HIDE DEF e
  <1>4. /\ clicks' \in [Clicks -> Presses] /\ \A c \in Clicks : Kin(clicks'[c], clicks[c])
        /\ \A c \in Clicks : clicks'[c].made = clicks[c].made
    BY <1>2, ReleasedKin, ReleasedMade DEF ShownInv
  <1>5. \A c \in Clicks : PressOK(clicks'[c], Len(history))
    BY <1>4, KinOK
  <1>6. ViewOK(e, Served(view), view, clicks', mounted)
    <2>1. \A c \in Clicks : clicks'[c].stayed =>
            mounted /\ lists[view].data # NoData /\ (Out(clicks'[c]) => clicks'[c].key = view)
      BY <1>1, <1>4, StayedAre
    <2> QED BY <1>3, <2>1, ViewAgain
  <1>7. EntryOK(e, Served(view)) /\ SelectedOK(selected', mounted', e) /\ lists'[view'] = e
    BY <1>1, <1>2, <1>3 DEF EntryOK, SelectedOK
  <1> QED BY <1>1, <1>2, <1>4, <1>5, <1>6, <1>7, OneList

\* What the server reads now is as new as every change that was made.
LEMMA ReadShown ==
  ASSUME TriageInv, TriageAssumption, ShownInv, NEW k \in Views, ReadList(k)
  PROVE  ShownInv'
  <1> DEFINE answer == Listed(k, Len(history))
             old == lists[k]
  <1>1. /\ lists \in [Views -> Entry] /\ view \in Views /\ mounted \in Flags
        /\ clicks \in [Clicks -> Presses] /\ current \in Clicks \cup {NoClick}
        /\ \A c \in Clicks : PressOK(clicks[c], Len(history))
        /\ SelectedOK(selected, mounted, lists[view])
        /\ ViewOK(lists[view], Served(view), view, clicks, mounted)
    BY DEF ShownInv
  <1>2. old.busy /\ UNCHANGED <<history, view, mounted, selected, clicks, current>>
    BY DEF ReadList, Unanswered
  <1>3. answer \in Served(k) /\ answer \in AllAnswers /\ answer.at = Len(history)
    BY ServedAre
  <1> HIDE DEF answer
  <1>4. PICK e : /\ lists' = [lists EXCEPT ![k] = e]
                 /\ e = Answer(old, answer) \/ e = Deliver(Answer(old, Failure))
    BY DEF ReadList, answer
  <1>5. old \in Entry
    BY <1>1
  <1>6. /\ EntryOK(e, Served(k)) /\ e.data = old.data /\ (e.busy \/ e.failed)
        /\ e.answer \in {NoData, answer}
    <2>1. CASE e = Answer(old, answer)
      BY <1>2, <1>3, <1>5, <2>1, AnswerEntry DEF EntryOK
    <2>2. CASE e = Deliver(Answer(old, Failure))
      <3> DEFINE a == Answer(old, Failure)
      <3>1. a \in Entry /\ a.data = old.data /\ a.answer = Failure
        BY <1>5, AnswerEntry
      <3> HIDE DEF a
      <3>2. e = Deliver(a)
        BY <2>2 DEF a
      <3> QED BY <3>1, <3>2, DeliverEntry DEF EntryOK
    <2> QED BY <1>4, <2>1, <2>2
  <1>7. CASE k # view
    <2>1. lists'[view'] = lists[view]
      BY <1>1, <1>2, <1>4, <1>7
    <2> QED BY <1>1, <1>2, <1>4, <1>6, <2>1, OneList
  <1>8. CASE k = view
    <2>1. lists'[view'] = e
      BY <1>1, <1>2, <1>4, <1>8
    <2>2. SelectedOK(selected', mounted', e)
      BY <1>1, <1>2, <1>6, <1>8 DEF SelectedOK
    <2>3. ASSUME NEW c \in Clicks, clicks[c].stayed
          PROVE  mounted /\ e.data # NoData /\ Fresh(e, view, clicks, c)
      <3>1. mounted /\ old.data # NoData /\ Fresh(old, view, clicks, c)
        BY <1>1, <1>8, <2>3 DEF ViewOK
      <3>2. Len(history) >= clicks[c].made
        BY <1>1 DEF PressOK, Presses, TriageInv
      <3>3. e.answer = NoData \/ e.answer.at >= clicks[c].made
        BY <1>3, <1>6, <3>2
      <3> QED BY <1>6, <3>1, <3>3 DEF Fresh
    <2>4. ViewOK(e, Served(view), view, clicks, mounted)
      BY <1>6, <2>3 DEF ViewOK, Sound
    <2> QED BY <1>1, <1>2, <1>4, <1>6, <1>8, <2>1, <2>2, <2>4, OneList
  <1> QED BY <1>7, <1>8

\* The drawer after a list has changed.
LEMMA SelectedAfter ==
  ASSUME TriageInv, ShownInv, NEW k \in Views, NEW e, NewList(k, e),
         UNCHANGED <<view, mounted>>
  PROVE  SelectedOK(selected', mounted', lists'[view'])
  <1>1. lists \in [Views -> Entry] /\ SelectedOK(selected, mounted, lists[view])
    BY DEF ShownInv
  <1>2. lists' = [lists EXCEPT ![k] = e]
    BY DEF NewList
  <1>3. CASE mounted /\ k = view
    BY <1>1, <1>2, <1>3 DEF NewList, Reselected, SelectedOK
  <1>4. CASE mounted /\ k # view
    BY <1>1, <1>2, <1>4 DEF NewList, SelectedOK
  <1>5. CASE ~mounted
    BY <1>1, <1>5 DEF NewList, SelectedOK
  <1> QED BY <1>3, <1>4, <1>5

LEMMA DeliverShown ==
  ASSUME TriageInv, TriageAssumption, ShownInv, NEW k \in Views, DeliverList(k)
  PROVE  ShownInv'
  <1> DEFINE old == lists[k]
             e == Deliver(old)
  <1>1. /\ lists \in [Views -> Entry] /\ view \in Views /\ mounted \in Flags
        /\ clicks \in [Clicks -> Presses] /\ current \in Clicks \cup {NoClick}
        /\ \A c \in Clicks : PressOK(clicks[c], Len(history))
        /\ EntryOK(lists[k], Served(k))
        /\ ViewOK(lists[view], Served(view), view, clicks, mounted)
    BY DEF ShownInv
  <1>2. /\ old.answer # NoData /\ NewList(k, e)
        /\ UNCHANGED <<history, view, mounted, clicks, current>>
    BY DEF DeliverList, Answered
  <1>3. old \in Entry /\ old.answer \in Served(k)
    BY <1>1, <1>2 DEF EntryOK
  <1>4. /\ e \in Entry /\ e.answer = NoData
        /\ (e.failed /\ e.data = old.data) \/ e.data = old.answer
    BY <1>2, <1>3, DeliverEntry
  <1>5. lists' = [lists EXCEPT ![k] = e]
    BY <1>2 DEF NewList
  <1>6. SelectedOK(selected', mounted', lists'[view'])
    BY <1>2, SelectedAfter
  <1> HIDE DEF e
  <1>7. EntryOK(e, Served(k))
    BY <1>4 DEF EntryOK
  <1>8. CASE k # view
    <2>1. lists'[view'] = lists[view]
      BY <1>1, <1>2, <1>5, <1>8
    <2> QED BY <1>1, <1>2, <1>5, <1>6, <1>7, <2>1, OneList
  <1>9. CASE k = view
    <2>1. lists'[view'] = e
      BY <1>1, <1>2, <1>5, <1>9
    <2>2. ASSUME NEW c \in Clicks, clicks[c].stayed
          PROVE  mounted /\ e.data # NoData /\ Fresh(e, view, clicks, c)
      <3>1. mounted /\ old.data # NoData /\ Fresh(old, view, clicks, c)
        BY <1>1, <1>9, <2>2 DEF ViewOK
      <3>2. e.data # NoData
        BY <1>2, <1>4, <3>1
      <3>3. CASE Out(clicks[c])
        BY <3>1, <3>2, <3>3 DEF Fresh
      <3>4. CASE ~Out(clicks[c])
        <4>1. old.answer.at >= clicks[c].made
          BY <1>2, <3>1, <3>4 DEF Fresh
        <4>2. e.failed \/ e.data.at >= clicks[c].made
          BY <1>4, <4>1
        <4> QED BY <1>4, <3>1, <3>2, <3>4, <4>2 DEF Fresh
      <3> QED BY <3>3, <3>4
    <2>3. e.failed \/ e.data \in Served(view)
      BY <1>3, <1>4, <1>9
    <2>4. ViewOK(e, Served(view), view, clicks, mounted)
      BY <2>2, <2>3 DEF ViewOK, Sound
    <2> QED BY <1>1, <1>2, <1>5, <1>6, <1>7, <1>9, <2>1, <2>4, OneList
  <1> QED BY <1>8, <1>9

\* A press that settles reads the list it is about again, if it is shown.
LEMMA SettleShown ==
  ASSUME TriageInv, ShownInv, NEW c \in Clicks, SettleAction(c)
  PROVE  ShownInv'
  <1> DEFINE k == clicks[c].key
             back == RolledBack(c)
             e == Settled(c)
  <1>1. /\ lists \in [Views -> Entry] /\ view \in Views /\ mounted \in Flags
        /\ clicks \in [Clicks -> Presses] /\ current \in Clicks \cup {NoClick}
        /\ \A j \in Views : EntryOK(lists[j], Served(j))
        /\ \A b \in Clicks : PressOK(clicks[b], Len(history))
        /\ ViewOK(lists[view], Served(view), view, clicks, mounted)
    BY DEF ShownInv
  <1>2. /\ clicks[c].phase = "answered" /\ NewList(k, e)
        /\ UNCHANGED <<history, view, mounted, current>>
    BY DEF SettleAction
  <1>3. k \in Views /\ clicks[c] \in Presses
    BY <1>1 DEF Presses
  <1>4. clicks[c].previous \in AllAnswers /\ clicks[c].previous # NoData
    BY <1>1, <1>2 DEF PressOK, Out, Presses
  <1>5. /\ back \in Entry /\ back.busy = lists[k].busy /\ back.answer = lists[k].answer
        /\ back.data = NoData => lists[k].data = NoData
    <2>1. lists[k] \in Entry
      BY <1>1, <1>3
    <2> QED BY <1>4, <2>1, SetDataEntry DEF RolledBack
  <1>6. EntryOK(lists[k], Served(k))
    BY <1>1, <1>3
  <1> HIDE DEF back
  <1>7. /\ e \in Entry /\ EntryOK(e, Served(k)) /\ (e.data = NoData => lists[k].data = NoData)
        /\ mounted /\ k = view => e.busy /\ (e.data # NoData => e.answer = NoData)
    <2>1. CASE mounted /\ k = view
      <3>1. e = Invalidate(back)
        BY <2>1 DEF Settled, back
      <3> QED BY <1>5, <1>6, <2>1, <3>1, InvalidateEntry DEF EntryOK
    <2>2. CASE ~(mounted /\ k = view)
      <3>1. e = back
        BY <2>2 DEF Settled, back
      <3> QED BY <1>5, <1>6, <2>2, <3>1 DEF EntryOK
    <2> QED BY <2>1, <2>2
  <1>8. lists' = [lists EXCEPT ![k] = e]
    BY <1>2 DEF NewList
  <1>9. SelectedOK(selected', mounted', lists'[view'])
    BY <1>2, <1>3, SelectedAfter
  <1> HIDE DEF e
  <1> DEFINE cs == Released(k)
  <1>10. PICK p \in {"settling", "over"} : clicks' = [cs EXCEPT ![c].phase = p]
    BY DEF SettleAction
  <1>11. /\ cs \in [Clicks -> Presses] /\ \A b \in Clicks : Kin(cs[b], clicks[b])
         /\ \A b \in Clicks : cs[b].made = clicks[b].made
    BY <1>1, ReleasedKin, ReleasedMade
  <1>12. cs[c] = clicks[c]
    BY <1>2 DEF Released
  <1> HIDE DEF cs
  <1>13. /\ clicks'[c] = [clicks[c] EXCEPT !.phase = p]
         /\ \A b \in Clicks \ {c} : clicks'[b] = cs[b]
         /\ clicks' = [b \in Clicks |-> clicks'[b]]
    BY <1>10, <1>11, <1>12
  <1>14. /\ clicks'[c] \in Presses /\ clicks'[c].phase = p /\ clicks'[c].made = clicks[c].made
         /\ clicks'[c].stayed = clicks[c].stayed
    <2>1. p \in Phases
      BY DEF Phases
    <2> QED BY <1>3, <1>13, <2>1, PhaseKin
  <1>15. ~Out(clicks'[c])
    BY <1>14 DEF Out
  <1>16. clicks' \in [Clicks -> Presses]
    BY <1>11, <1>13, <1>14
  <1>17. \A b \in Clicks : PressOK(clicks'[b], Len(history))
    <2>1. \A b \in Clicks : PressOK(cs[b], Len(history))
      BY <1>11, KinOK
    <2>2. PressOK(clicks'[c], Len(history))
      BY <1>1, <1>14, <1>15 DEF PressOK
    <2> QED BY <1>13, <2>1, <2>2
  <1>18. CASE mounted /\ k = view
    <2>1. lists'[view'] = e
      BY <1>1, <1>2, <1>8, <1>18
    <2>2. ASSUME NEW b \in Clicks, clicks'[b].stayed
          PROVE  mounted /\ lists[view].data # NoData /\ (Out(clicks'[b]) => clicks'[b].key = view)
      <3>1. CASE b = c
        BY <1>1, <1>14, <1>15, <2>2, <3>1 DEF ViewOK
      <3>2. CASE b # c
        <4>1. Kin(clicks'[b], clicks[b])
          BY <1>11, <1>13, <3>2
        <4> QED BY <1>1, <2>2, <4>1, StayedAre
      <3> QED BY <3>1, <3>2
    <2>3. \A b \in Clicks : clicks'[b].stayed =>
            /\ mounted /\ e.data # NoData /\ e.answer = NoData
            /\ Out(clicks'[b]) => clicks'[b].key = view
      BY <1>7, <1>18, <2>2
    <2>4. ViewOK(e, Served(view), view, clicks', mounted)
      BY <1>7, <1>18, <2>3, ViewAgain
    <2> QED BY <1>1, <1>2, <1>3, <1>7, <1>8, <1>9, <1>16, <1>17, <1>18, <2>1, <2>4, OneList
  <1>19. CASE ~(mounted /\ k = view)
    <2>1. ASSUME mounted
          PROVE  InHand(clicks, view) => InHand(clicks', view)
      <3>1. k # view
        BY <1>19, <2>1
      <3>2. \A b \in Clicks \ {c} : Kin(clicks'[b], clicks[b])
        BY <1>11, <1>13
      <3> QED BY <3>1, <3>2 DEF InHand, Kin
    <2>2. ASSUME mounted
          PROVE  lists'[view'] = lists[view]
      BY <1>1, <1>2, <1>8, <1>19, <2>2
    <2>3. mounted => Sound(lists[view], Served(view), view, clicks')
      BY <1>1, <2>1 DEF ViewOK, Sound
    <2>4. ASSUME NEW b \in Clicks, clicks'[b].stayed
          PROVE  mounted /\ lists[view].data # NoData /\ Fresh(lists[view], view, clicks', b)
      <3>1. clicks[b].stayed
        BY <1>11, <1>13, <1>14, <2>4 DEF Kin
      <3>2. mounted /\ lists[view].data # NoData /\ Fresh(lists[view], view, clicks, b)
        BY <1>1, <3>1 DEF ViewOK
      <3>3. b # c
        BY <1>2, <1>19, <3>2 DEF Fresh, Out
      <3>4. clicks'[b] = cs[b] /\ Kin(cs[b], clicks[b])
        BY <1>11, <1>13, <3>3
      <3>5. Fresh(lists[view], view, clicks', b)
        BY <2>1, <3>2, <3>4 DEF Fresh, Kin
      <3> QED BY <3>2, <3>5
    <2>5. ViewOK(lists[view], Served(view), view, clicks', mounted)
      BY <2>3, <2>4 DEF ViewOK
    <2>6. ViewOK(lists'[view'], Served(view'), view', clicks', mounted')
      <3>1. CASE mounted
        BY <1>2, <2>2, <2>5, <3>1
      <3>2. CASE ~mounted
        BY <1>2, <2>4, <3>2 DEF ViewOK
      <3> QED BY <3>1, <3>2
    <2> QED BY <1>1, <1>2, <1>3, <1>7, <1>8, <1>9, <1>16, <1>17, <2>6, OneList
  <1> QED BY <1>18, <1>19

LEMMA InitShown ==
  ASSUME TriageAssumption, Init, TriageInv
  PROVE  ShownInv
  <1>1. /\ view = FirstView /\ lists = [k \in Views |-> IF k = view THEN Mount(NewEntry) ELSE NewEntry]
        /\ mounted = TRUE /\ selected = NoFinding /\ clicks = [c \in Clicks |-> Unpressed]
        /\ current = NoClick
    BY DEF Init
  <1>2. view \in Views
    BY <1>1 DEF TriageAssumption
  <1>3. NewEntry \in Entry /\ NewEntry.answer = NoData
    BY FlagsHave DEF NewEntry, Entry
  <1>4. Mount(NewEntry) \in Entry /\ Mount(NewEntry).busy /\ Mount(NewEntry).answer = NoData
    BY <1>3, MountEntry
  <1>5. lists \in [Views -> Entry] /\ lists[view].busy /\ \A k \in Views : lists[k].answer = NoData
    BY <1>1, <1>2, <1>3, <1>4
  <1>6. \A k \in Views : EntryOK(lists[k], Served(k))
    BY <1>5 DEF EntryOK
  <1>7. /\ Unpressed \in Presses /\ Unpressed.made = 0 /\ Unpressed.phase = "idle"
        /\ ~Unpressed.stayed
    <2>1. (CHOOSE k \in Views : TRUE) \in Views
      BY <1>2
    <2> QED BY <2>1, FlagsHave DEF Unpressed, Presses, Phases, States
  <1>8. clicks \in [Clicks -> Presses] /\ \A c \in Clicks : clicks[c] = Unpressed
    BY <1>1, <1>7
  <1>9. 0 <= Len(history)
    BY DEF TriageInv
  <1>10. \A c \in Clicks : PressOK(clicks[c], Len(history)) /\ ~clicks[c].stayed
    BY <1>7, <1>8, <1>9 DEF PressOK, Out
  <1>11. ViewOK(lists[view], Served(view), view, clicks, mounted)
    BY <1>5, <1>10, ViewAgain
  <1>12. SelectedOK(selected, mounted, lists[view]) /\ mounted \in Flags
    BY <1>1, FlagsHave DEF SelectedOK
  <1> QED BY <1>1, <1>2, <1>5, <1>6, <1>8, <1>10, <1>11, <1>12 DEF ShownInv

LEMMA NextShown ==
  ASSUME TriageInv, TriageInv', TriageAssumption, ShownInv, [Next]_vars
  PROVE  ShownInv'
  <1>1. CASE Page
    BY <1>1, QuietPage, RunShown, MountShown, RetryShown DEF Page
  <1>2. CASE \E k \in Views : Reading(k)
    BY <1>2, ReadShown, DeliverShown DEF Reading
  <1>3. CASE \E c \in Clicks : Answering(c)
    BY <1>3, ServerSteps, SettleShown DEF Answering
  <1>4. CASE \E f \in Findings, s \in States : OtherUser(f, s)
    BY <1>4, ServerSteps
  <1>5. CASE UNCHANGED vars
    BY <1>5, QuietPage
  <1> QED BY <1>1, <1>2, <1>3, <1>4, <1>5 DEF Next

LEMMA InvQuiet ==
  ASSUME ShownInv
  PROVE  QuietListIsServed
  <1> SUFFICES ASSUME mounted, Quiet, AtRest(lists[view])
               PROVE  /\ WasServed(view, Shown)
                      /\ \A c \in Clicks : clicks[c].stayed => Shown.at >= clicks[c].made
    BY DEF QuietListIsServed
  <1>1. \A c \in Clicks : ~Out(clicks[c])
    BY DEF Quiet, Out
  <1>2. ~InHand(clicks, view)
    BY <1>1 DEF InHand
  <1>3. ~lists[view].busy /\ ~lists[view].failed /\ Shown = lists[view].data /\ Shown # NoData
    BY DEF AtRest, Shown
  <1>4. ViewOK(lists[view], Served(view), view, clicks, mounted)
    BY DEF ShownInv
  <1>5. WasServed(view, Shown)
    BY <1>2, <1>3, <1>4 DEF ViewOK, Sound, Served, WasServed
  <1>6. \A c \in Clicks : clicks[c].stayed => Shown.at >= clicks[c].made
    BY <1>1, <1>2, <1>3, <1>4 DEF ViewOK, Fresh
  <1> QED BY <1>5, <1>6

LEMMA EventsStep ==
  ASSUME TriageAssumption, events \in 0 .. MaxEvents, [Next]_vars
  PROVE  events' \in 0 .. MaxEvents
  <1>1. MaxEvents \in Nat
    BY DEF TriageAssumption
  <1>2. events' = events \/ (events < MaxEvents /\ events' = events + 1)
    BY DEF Next, Page, OpenFinding, CloseFinding, RunAction, SwitchView, LeavePage, ReturnToPage,
         RetryList, Reading, ReadList, DeliverList, Answering, ApplyAction, RefuseAction,
         SettleAction, FinishAction, OtherUser, vars
  <1> QED BY <1>1, <1>2

\* All of it.
PageInv == TriageInv /\ ShownInv /\ events \in 0 .. MaxEvents

LEMMA InitPage ==
  ASSUME TriageAssumption, Init
  PROVE  PageInv
  <1>1. events \in 0 .. MaxEvents
    BY DEF Init, TriageAssumption
  <1> QED BY <1>1, InitTriage, InitShown DEF PageInv

LEMMA StepPage ==
  ASSUME TriageAssumption, PageInv, [Next]_vars
  PROVE  PageInv'
  BY NextTriage, NextShown, EventsStep DEF PageInv

LEMMA PageType ==
  ASSUME TriageAssumption, PageInv
  PROVE  TypeOK
  <1>1. /\ history \in Seq(Moments) /\ Len(history) > 0 /\ selected \in Findings \cup {NoFinding}
        /\ lists \in [Views -> Entry] /\ \A k \in Views : EntryOK(lists[k], Served(k))
        /\ clicks \in [Clicks -> Presses] /\ \A c \in Clicks : PressOK(clicks[c], Len(history))
        /\ view \in Views /\ mounted \in Flags /\ current \in Clicks \cup {NoClick}
        /\ events \in 0 .. MaxEvents
    BY DEF PageInv, TriageInv, ShownInv
  <1>2. ASSUME NEW k \in Views
        PROVE  /\ lists[k].data = NoData \/ lists[k].data \in Answers(k)
               /\ lists[k].answer = NoData \/ lists[k].answer \in Answers(k)
               /\ lists[k].answer # NoData => lists[k].busy
    <2>1. Answers(k) = AllAnswers /\ Served(k) \subseteq AllAnswers
      BY ServedAre DEF Answers, AllAnswers, PageInv
    <2>2. lists[k].data \in AllAnswers \cup {NoData}
      BY <1>1 DEF Entry
    <2> QED BY <1>1, <2>1, <2>2 DEF EntryOK
  <1>3. ASSUME NEW c \in Clicks
        PROVE  clicks[c].phase \in Phases /\ clicks[c].made \in 0 .. Len(history)
    <2>1. clicks[c].phase \in Phases /\ clicks[c].made \in Nat
      BY <1>1 DEF Presses
    <2>2. clicks[c].made <= Len(history) /\ Len(history) \in Nat
      BY <1>1 DEF PressOK
    <2> QED BY <2>1, <2>2
  <1> QED BY <1>1, <1>2, <1>3 DEF TypeOK, Moments, Flags

(* The findings page is in a state of its types, whatever its presses, lists
   and other users do. *)
THEOREM TypeCorrect ==
  ASSUME TriageAssumption
  PROVE  Spec => []TypeOK
  <1>1. Init => PageInv
    BY InitPage
  <1>2. PageInv /\ [Next]_vars => PageInv'
    BY StepPage
  <1>3. PageInv => TypeOK
    BY PageType
  <1> QED BY <1>1, <1>2, <1>3, PTL DEF Spec

(* When the buttons are at rest and the list shown has been read again, it is a
   list the server served, and no older than the changes of a user who has
   stayed on it: useFindingLifecycle cancels, rolls back and invalidates in an
   order that no overlap of requests upsets. *)
THEOREM QuietServed ==
  ASSUME TriageAssumption
  PROVE  Spec => []QuietListIsServed
  <1>1. Init => PageInv
    BY InitPage
  <1>2. PageInv /\ [Next]_vars => PageInv'
    BY StepPage
  <1>3. PageInv => QuietListIsServed
    BY InvQuiet DEF PageInv
  <1> QED BY <1>1, <1>2, <1>3, PTL DEF Spec
=============================================================================
