--------------------------- MODULE DeliveryProofs ---------------------------
(***************************************************************************)
(* Theorems about Outbox, Messages and Media, as components of Backend:    *)
(* for any number of delivery cycles, requests and workers that run at the *)
(* same time, any choices of channels, any conversations and files of any  *)
(* size.                                                                   *)
(***************************************************************************)
EXTENDS Backend, Sequences, NaturalLemmas, FiniteSetTheorems, SequenceTheorems, TLAPS

-----------------------------------------------------------------------------
\* Outbox.

\* A delivery cycle.
ObCycle ==
    [step : {"idle", "push", "sms"}, new : BOOLEAN,
     prefs : Choices \cup {Ob!DefaultChoice, {}}, todo : BOOLEAN, seen : Ob!InboxStatus,
     read : [Ob!Channel -> Nat], result : [Ob!Channel -> {"none", "sent", "refused"}]]

ObType ==
    /\ Ob!TypeOK
    /\ cycle \in [Worker -> ObCycle]
    /\ accepted \in [Ob!Channel -> {0, 1, 2}]
    /\ written \in BOOLEAN /\ overlapped \in BOOLEAN /\ cutShort \in BOOLEAN

\* What holds of a cycle whatever else runs: it has called for rows that are
\* written, by itself or before, once for each.
ObCycleTrue(q) ==
    /\ \A c \in Ob!Channel : q.result[c] = "sent" => accepted[c] > 0
    /\ q.new => ~written
    /\ q.step = "idle" => ~q.new /\ ~q.todo /\ q.result["push"] = "none"
    /\ q.step # "sms" => q.result["sms"] = "none"
    /\ q.todo => q.result[q.step] = "none" /\ (q.new \/ written)
    /\ \A c \in Ob!Channel : q.result[c] # "none" => q.new \/ written

\* Rows say what was done, whatever runs at the same time.
ObTrue ==
    /\ \A c \in Ob!Channel : dispatch[c].status = "sent" => accepted[c] > 0
    /\ ~written => inbox = "none" /\ \A c \in Ob!Channel : dispatch[c].status = "none"
    /\ \A w \in Worker : ObCycleTrue(cycle[w])
    /\ \A v, w \in Worker : cycle[v].new /\ cycle[w].new => v = w

\* A cycle that runs alone finds the rows at its commit as it has read them.
ObCycleAlone(q) ==
    /\ q.todo => Ob!DispatchIn(q)[q.step].status = "pending"
    /\ \A c \in Ob!Channel : q.result[c] # "none" => Ob!DispatchIn(q)[c].status = "pending"
    /\ q.result["push"] # "none" => q.seen = Ob!InboxIn(q)

\* A cycle that no other overlaps knows its rows.
ObAlone ==
    /\ \A v, w \in Worker : cycle[v].step # "idle" /\ cycle[w].step # "idle" => v = w
    /\ inbox \in {"pending", "sent", "failed"} => inbox = dispatch["push"].status
    /\ \A w \in Worker : ObCycleAlone(cycle[w])

\* What was accepted is recorded, or will be at the commit.
ObOnce ==
    \A c \in Ob!Channel : accepted[c] # 0 =>
        /\ accepted[c] = 1
        /\ dispatch[c].status = "sent" \/ \E w \in Worker : cycle[w].result[c] = "sent"

ObInv ==
    /\ ObType /\ ObTrue
    /\ ~overlapped => ObAlone
    /\ ~overlapped /\ ~cutShort => ObOnce

\* To begin with nothing is written and no cycle runs.
LEMMA ObInit == Ob!Init => ObInv
<1> SUFFICES ASSUME Ob!Init PROVE ObInv
  OBVIOUS
<1>1. /\ Ob!Idle \in ObCycle /\ Ob!Idle.step = "idle" /\ ~Ob!Idle.new /\ ~Ob!Idle.todo
      /\ \A c \in Ob!Channel : Ob!Idle.result[c] = "none"
  BY DEF Ob!Idle, ObCycle, Ob!Channel, Ob!InboxStatus
<1>2. /\ cycle \in [Worker -> ObCycle] /\ \A w \in Worker : cycle[w] = Ob!Idle
  BY <1>1 DEF Ob!Init
<1>3. /\ dispatch \in [Ob!Channel -> Ob!Dispatch]
      /\ \A c \in Ob!Channel : dispatch[c].status = "none"
  BY DEF Ob!Init, Ob!Dispatches, Ob!Dispatch
<1>4. /\ accepted \in [Ob!Channel -> {0, 1, 2}] /\ \A c \in Ob!Channel : accepted[c] = 0
  BY DEF Ob!Init
<1>5. ObType
  BY <1>1, <1>2, <1>3, <1>4 DEF Ob!Init, ObType, Ob!TypeOK, Ob!InboxStatus
<1>6. "push" \in Ob!Channel /\ "sms" \in Ob!Channel
  BY DEF Ob!Channel
<1>7. ObTrue
  BY <1>1, <1>2, <1>3, <1>4, <1>6 DEF Ob!Init, ObTrue, ObCycleTrue
<1>8. ObAlone
  BY <1>1, <1>2, <1>3, <1>4, <1>6 DEF Ob!Init, ObAlone, ObCycleAlone
<1>9. ObOnce
  BY <1>4 DEF ObOnce
<1> QED
  BY <1>5, <1>7, <1>8, <1>9 DEF ObInv

\* Steps that change neither rows nor cycles: the user and the subject.
LEMMA ObQuiet ==
  ASSUME ObInv,
         UNCHANGED <<event, written, inbox, dispatch, cycle, accepted, overlapped, cutShort>>,
         Ob!TypeOK'
  PROVE  ObInv'
<1>1. ObType'
  BY DEF ObInv, ObType, ObCycle, Ob!DefaultChoice, Ob!InboxStatus, Ob!Channel
<1>2. ObTrue'
  BY DEF ObInv, ObTrue, ObCycleTrue, Ob!Channel
<1>3. ~overlapped' => ObAlone'
  BY DEF ObInv, ObAlone, ObCycleAlone, Ob!DispatchIn, Ob!InboxIn, Ob!Dispatches, Ob!InboxRow,
     Ob!Channel
<1>4. ~overlapped' /\ ~cutShort' => ObOnce'
  BY DEF ObInv, ObOnce, Ob!Channel
<1> QED
  BY <1>1, <1>2, <1>3, <1>4 DEF ObInv

\* The user reads, chooses and opens.
LEMMA ObUser ==
  ASSUME ObInv,
         \/ Ob!ListPreferences \/ Ob!SwitchReminders \/ Ob!SwitchPersonalization
         \/ Ob!RegisterDevice \/ Ob!RemoveDevice \/ Ob!TimePasses \/ Ob!Settled
         \/ \E c \in {"role", "both"}, p \in Choices : Ob!SetPreference(c, p)
  PROVE  ObInv'
<1>1. UNCHANGED <<event, written, inbox, dispatch, cycle, accepted, overlapped, cutShort>>
  BY DEF Ob!ListPreferences, Ob!SwitchReminders, Ob!SwitchPersonalization, Ob!RegisterDevice,
     Ob!RemoveDevice, Ob!TimePasses, Ob!Settled, Ob!SetPreference, Ob!rows
<1>2. subject' \in {"quiet", "due", "late", "over"}
  BY DEF Ob!ListPreferences, Ob!SwitchReminders, Ob!SwitchPersonalization, Ob!RegisterDevice,
     Ob!RemoveDevice, Ob!TimePasses, Ob!Settled, Ob!SetPreference, ObInv, ObType, Ob!TypeOK
<1>3. prefs' \in [context : {"none", "both", "role"}, choice : Choices \cup {Ob!DefaultChoice}]
  BY DEF Ob!ListPreferences, Ob!SwitchReminders, Ob!SwitchPersonalization, Ob!RegisterDevice,
     Ob!RemoveDevice, Ob!TimePasses, Ob!Settled, Ob!SetPreference, ObInv, ObType, Ob!TypeOK,
     Ob!Preferred, Ob!user
<1>4. Ob!TypeOK'
  BY <1>1, <1>2, <1>3 DEF ObInv, ObType, Ob!TypeOK, Ob!DefaultChoice, Ob!Channel, Ob!Dispatch,
     Ob!InboxStatus, Ob!Event, Ob!Requested, Ob!Reminder
<1> QED
  BY <1>1, <1>4, ObQuiet

\* Rows are written once, so nobody has called for them yet.
LEMMA ObEnqueue ==
  ASSUME ObInv, Ob!Enqueue
  PROVE  ObInv'
<1>1. /\ Ob!Unwritten /\ written'
      /\ inbox' = Ob!InboxRow(prefs.choice) /\ dispatch' = Ob!Dispatches(prefs.choice)
      /\ UNCHANGED <<event, subject, prefs, cycle, accepted, overlapped, cutShort>>
  BY DEF Ob!Enqueue, Ob!user
<1>2. ~written /\ \A w \in Worker : ~cycle[w].new
  BY <1>1 DEF Ob!Unwritten
<1>3. /\ dispatch' \in [Ob!Channel -> Ob!Dispatch]
      /\ \A c \in Ob!Channel : dispatch'[c].status \in {"none", "pending"}
      /\ inbox' \in {"none", "disabled", "pending"}
      /\ inbox' = "pending" => dispatch'["push"].status = "pending"
  BY <1>1 DEF Ob!Dispatches, Ob!InboxRow, Ob!Channel, Ob!Dispatch
<1>4. \A w \in Worker :
        ~cycle[w].todo /\ \A c \in Ob!Channel : cycle[w].result[c] = "none"
  BY <1>2 DEF ObInv, ObType, ObTrue, ObCycleTrue, ObCycle
<1>5. ObType'
  BY <1>1, <1>3 DEF ObInv, ObType, Ob!TypeOK, ObCycle, Ob!DefaultChoice, Ob!Channel, Ob!Dispatch,
     Ob!InboxStatus, Ob!Event, Ob!Requested, Ob!Reminder
<1>6. ObTrue'
  BY <1>1, <1>2, <1>3, <1>4 DEF ObInv, ObTrue, ObCycleTrue, Ob!Channel
<1>7. ~overlapped' => ObAlone'
  BY <1>1, <1>3, <1>4 DEF ObInv, ObAlone, ObCycleAlone, Ob!Channel
<1>8. ~overlapped' /\ ~cutShort' => ObOnce'
  BY <1>1, <1>2 DEF ObInv, ObTrue, ObOnce, Ob!Channel
<1> QED
  BY <1>5, <1>6, <1>7, <1>8 DEF ObInv

\* A cycle begins with what is pending.
LEMMA ObBegin ==
  ASSUME ObInv, NEW w \in Worker, Ob!Begin(w)
  PROVE  ObInv'
<1> DEFINE q == [Ob!Idle EXCEPT !.step = "push", !.new = Ob!Due /\ ~written, !.prefs = prefs.choice]
           p == [q EXCEPT !.todo = Ob!DispatchIn(q)["push"].status = "pending",
                          !.read = [c \in Ob!Channel |-> Ob!DispatchIn(q)[c].attempts]]
<1>1. /\ cycle[w].step = "idle" /\ cycle' = [cycle EXCEPT ![w] = p]
      /\ q.new => Ob!Unwritten
      /\ subject' \in {subject, "over"}
      /\ overlapped' = (overlapped \/ \E v \in Worker : cycle[v].step # "idle")
      /\ UNCHANGED <<event, prefs, written, inbox, dispatch, accepted, cutShort>>
  BY DEF Ob!Begin, Ob!user, Ob!rows
<1>2. /\ Ob!Idle \in ObCycle /\ \A c \in Ob!Channel : Ob!Idle.result[c] = "none"
      /\ prefs.choice \in Choices \cup {Ob!DefaultChoice}
      /\ (Ob!Due /\ ~written) \in BOOLEAN
  BY DEF ObInv, ObType, Ob!TypeOK, Ob!Idle, ObCycle, Ob!Channel, Ob!InboxStatus
<1>3. /\ q \in ObCycle /\ q.step = "push" /\ q.new = (Ob!Due /\ ~written)
      /\ q.prefs = prefs.choice
      /\ \A c \in Ob!Channel : q.result[c] = "none"
  BY <1>2 DEF ObCycle
<1> HIDE DEF q
<1>4. Ob!DispatchIn(q) \in [Ob!Channel -> Ob!Dispatch]
  BY DEF Ob!DispatchIn, Ob!Dispatches, Ob!Dispatch, Ob!Channel, ObInv, ObType, Ob!TypeOK
<1>5. /\ (Ob!DispatchIn(q)["push"].status = "pending") \in BOOLEAN
      /\ [c \in Ob!Channel |-> Ob!DispatchIn(q)[c].attempts] \in [Ob!Channel -> Nat]
  BY <1>4 DEF Ob!Dispatch
<1>6. /\ p \in ObCycle /\ p.step = "push" /\ p.new = q.new /\ p.prefs = q.prefs
      /\ p.todo = (Ob!DispatchIn(q)["push"].status = "pending")
      /\ \A c \in Ob!Channel : p.result[c] = "none"
  BY <1>3, <1>5 DEF ObCycle
<1> HIDE DEF p
<1>7. /\ cycle' \in [Worker -> ObCycle] /\ cycle'[w] = p
      /\ \A v \in Worker : v # w => cycle'[v] = cycle[v]
  BY <1>1, <1>6 DEF ObInv, ObType
<1>8. p.new => ~written /\ \A v \in Worker : ~cycle[v].new
  BY <1>1, <1>6 DEF Ob!Unwritten
<1>9. p.todo => p.new \/ written
  BY <1>3, <1>6 DEF ObInv, ObTrue, Ob!DispatchIn, Ob!Channel
<1>10. ObType'
  <2>1. subject' \in {"quiet", "due", "late", "over"} /\ overlapped' \in BOOLEAN
    BY <1>1 DEF ObInv, ObType, Ob!TypeOK
  <2>2. \A v \in Worker : cycle'[v].step \in {"idle"} \cup Ob!Channel
    BY <1>7 DEF ObCycle, Ob!Channel
  <2> QED
    BY <1>1, <1>7, <2>1, <2>2 DEF ObInv, ObType, Ob!TypeOK, ObCycle, Ob!DefaultChoice, Ob!Channel,
       Ob!Dispatch, Ob!InboxStatus, Ob!Event, Ob!Requested, Ob!Reminder
<1>11. ObTrue'
  BY <1>1, <1>6, <1>7, <1>8, <1>9 DEF ObInv, ObTrue, ObCycleTrue, Ob!Channel
<1>12. ASSUME ~overlapped' PROVE ObAlone'
  <2>1. ~overlapped /\ ObAlone /\ \A v \in Worker : cycle[v].step = "idle"
    BY <1>1, <1>12 DEF ObInv, ObType
  <2>2. \A v \in Worker : v # w => cycle'[v].step = "idle" /\ cycle'[v] = cycle[v]
    BY <1>7, <2>1
  <2>3. \A v \in Worker : v # w => ~cycle[v].todo
          /\ \A c \in Ob!Channel : cycle[v].result[c] = "none"
    BY <2>1 DEF ObInv, ObTrue, ObCycleTrue, Ob!Channel
  <2>4. \A v \in Worker : v # w => ObCycleAlone(cycle[v])'
    BY <2>2, <2>3 DEF ObCycleAlone, Ob!Channel
  <2>5. ObCycleAlone(cycle[w])'
    <3>1. /\ cycle'[w].step = "push" /\ \A c \in Ob!Channel : cycle'[w].result[c] = "none"
          /\ cycle'[w].new = q.new /\ cycle'[w].prefs = q.prefs
          /\ cycle'[w].todo => Ob!DispatchIn(q)["push"].status = "pending"
      BY <1>6, <1>7 DEF Ob!Channel
    <3> QED
      BY <1>1, <3>1 DEF ObCycleAlone, Ob!DispatchIn, Ob!Dispatches, Ob!Channel
  <2> QED
    BY <1>1, <2>1, <2>2, <2>4, <2>5 DEF ObAlone
<1>13. ASSUME ~overlapped', ~cutShort' PROVE ObOnce'
  <2>1. ~overlapped /\ ~cutShort /\ ObOnce
    BY <1>1, <1>13 DEF ObInv, ObType
  <2>2. \A c \in Ob!Channel : cycle[w].result[c] # "sent"
    BY <1>1 DEF ObInv, ObTrue, ObCycleTrue, Ob!Channel
  <2> QED
    BY <1>1, <1>7, <2>1, <2>2 DEF ObOnce, Ob!Channel
<1> QED
  BY <1>10, <1>11, <1>12, <1>13 DEF ObInv

\* What a call leaves of the cycle that makes it.
LEMMA ObCallShape ==
  ASSUME ObInv, NEW w \in Worker, NEW o \in Ob!Outcomes, Ob!Call(w, o),
         cycle[w].step \in Ob!Channel
  PROVE  /\ cycle' \in [Worker -> ObCycle]
         /\ \A v \in Worker : v # w => cycle'[v] = cycle[v]
         /\ cycle'[w].step = cycle[w].step /\ cycle'[w].new = cycle[w].new
         /\ cycle'[w].prefs = cycle[w].prefs /\ ~cycle'[w].todo
         /\ cycle'[w].seen = (IF cycle[w].step = "push" THEN Ob!InboxIn(cycle[w]) ELSE cycle[w].seen)
         /\ cycle'[w].result[cycle[w].step] = o.heard
         /\ \A c \in Ob!Channel : c # cycle[w].step => cycle'[w].result[c] = cycle[w].result[c]
<1> DEFINE q == cycle[w]
           seen == IF q.step = "push" THEN Ob!InboxIn(q) ELSE q.seen
           result == [q.result EXCEPT ![q.step] = o.heard]
           p == [q EXCEPT !.todo = FALSE, !.seen = seen, !.result = result]
<1>1. q \in ObCycle /\ q.step \in Ob!Channel
  BY DEF ObInv, ObType
<1>2. o.heard \in {"none", "sent", "refused"}
  BY DEF Ob!Outcomes
<1>3. seen \in Ob!InboxStatus
  BY <1>1 DEF ObCycle, Ob!InboxIn, Ob!InboxRow, Ob!InboxStatus, ObInv, ObType, Ob!TypeOK
<1>4. /\ result \in [Ob!Channel -> {"none", "sent", "refused"}] /\ result[q.step] = o.heard
      /\ \A c \in Ob!Channel : c # q.step => result[c] = q.result[c]
  BY <1>1, <1>2 DEF ObCycle
<1>5. cycle' = [cycle EXCEPT ![w] = p]
  BY <1>1 DEF Ob!Call, ObCycle, ObInv, ObType
<1> HIDE DEF seen, result
<1>6. /\ p \in ObCycle /\ p.step = q.step /\ p.new = q.new /\ p.prefs = q.prefs /\ ~p.todo
      /\ p.seen = seen /\ p.result = result
  BY <1>1, <1>3, <1>4 DEF ObCycle
<1> HIDE DEF p
<1>7. cycle' \in [Worker -> ObCycle] /\ cycle'[w] = p
      /\ \A v \in Worker : v # w => cycle'[v] = cycle[v]
  BY <1>5, <1>6 DEF ObInv, ObType
<1> QED
  BY <1>4, <1>6, <1>7 DEF seen

\* The provider is called.
LEMMA ObCall ==
  ASSUME ObInv, NEW w \in Worker, Ob!Push(w) \/ Ob!Sms(w)
  PROVE  ObInv'
<1>1. PICK o \in Ob!Outcomes : Ob!Call(w, o) /\ cycle[w].todo /\ cycle[w].step \in Ob!Channel
  BY DEF Ob!Push, Ob!Sms, Ob!Channel
<1> DEFINE k == cycle[w].step
<1>2. /\ \/ /\ accepted' = [accepted EXCEPT ![k] = Ob!Twice(@ + 1)]
            /\ o.heard = "sent" /\ cutShort' = cutShort
         \/ /\ accepted' = [accepted EXCEPT ![k] = Ob!Twice(@ + 1)]
            /\ o.heard = "refused" /\ cutShort'
         \/ accepted' = accepted /\ o.heard = "refused" /\ cutShort' = cutShort
      /\ cutShort' \in BOOLEAN
      /\ UNCHANGED <<event, subject, prefs, written, inbox, dispatch, overlapped>>
  <2>1. /\ accepted' = IF o.took THEN [accepted EXCEPT ![k] = Ob!Twice(@ + 1)] ELSE accepted
        /\ cutShort' = (cutShort \/ (o.took /\ o.heard = "refused"))
        /\ UNCHANGED <<event, subject, prefs, written, inbox, dispatch, overlapped>>
    BY <1>1 DEF Ob!Call, Ob!user, Ob!rows
  <2>2. \/ o = [took |-> FALSE, heard |-> "refused"]
        \/ o = [took |-> TRUE, heard |-> "sent"]
        \/ o = [took |-> TRUE, heard |-> "refused"]
    BY <1>1 DEF Ob!Outcomes
  <2>3. cutShort \in BOOLEAN
    BY DEF ObInv, ObType
  <2>4. CASE o = [took |-> FALSE, heard |-> "refused"]
    BY <2>1, <2>3, <2>4
  <2>5. CASE o = [took |-> TRUE, heard |-> "sent"]
    BY <2>1, <2>3, <2>5
  <2>6. CASE o = [took |-> TRUE, heard |-> "refused"]
    BY <2>1, <2>3, <2>6
  <2> QED
    BY <2>1, <2>2, <2>4, <2>5, <2>6
<1>3. /\ cycle' \in [Worker -> ObCycle]
      /\ \A v \in Worker : v # w => cycle'[v] = cycle[v]
      /\ cycle'[w].step = k /\ cycle'[w].new = cycle[w].new
      /\ cycle'[w].prefs = cycle[w].prefs /\ ~cycle'[w].todo
      /\ cycle'[w].seen = (IF k = "push" THEN Ob!InboxIn(cycle[w]) ELSE cycle[w].seen)
      /\ cycle'[w].result[k] = o.heard
      /\ \A c \in Ob!Channel : c # k => cycle'[w].result[c] = cycle[w].result[c]
  BY <1>1, ObCallShape
<1>4. k \in Ob!Channel /\ o.heard \in {"sent", "refused"}
  BY <1>1, <1>2
<1>5. /\ accepted' \in [Ob!Channel -> {0, 1, 2}]
      /\ \A c \in Ob!Channel : c # k => accepted'[c] = accepted[c]
      /\ accepted'[k] # 0 \/ (accepted'[k] = accepted[k] /\ o.heard = "refused")
      /\ accepted[k] = 0 => accepted'[k] \in {0, 1}
  <2>1. accepted \in [Ob!Channel -> {0, 1, 2}]
    BY DEF ObInv, ObType
  <2>2. /\ Ob!Twice(accepted[k] + 1) \in {1, 2}
        /\ accepted[k] = 0 => Ob!Twice(accepted[k] + 1) = 1
    BY <1>4, <2>1 DEF Ob!Twice
  <2> QED
    BY <1>2, <1>4, <2>1, <2>2
<1>6. cycle[w].new \/ written
  BY <1>1 DEF ObInv, ObTrue, ObCycleTrue
<1> HIDE DEF k
<1>7. ObType'
  <2>1. \A v \in Worker : cycle'[v].step \in {"idle"} \cup Ob!Channel
    BY <1>3 DEF ObCycle, Ob!Channel
  <2> QED
    BY <1>2, <1>3, <1>5, <2>1 DEF ObInv, ObType, Ob!TypeOK, ObCycle, Ob!DefaultChoice,
       Ob!Channel, Ob!Dispatch, Ob!InboxStatus, Ob!Event, Ob!Requested, Ob!Reminder
<1>8. ObTrue'
  <2>1. \A c \in Ob!Channel : accepted[c] > 0 => accepted'[c] > 0
    BY <1>4, <1>5 DEF ObInv, ObType
  <2>2. \A v \in Worker : v # w => ObCycleTrue(cycle[v])'
    BY <1>2, <1>3, <2>1 DEF ObInv, ObTrue, ObCycleTrue, Ob!Channel
  <2>3. ObCycleTrue(cycle[w])'
    <3>1. \A c \in Ob!Channel : cycle'[w].result[c] = "sent" => accepted'[c] > 0
      BY <1>3, <1>4, <1>5, <2>1 DEF ObInv, ObType, ObTrue, ObCycleTrue
    <3>2. k = cycle[w].step
      BY DEF k
    <3> QED
      BY <1>2, <1>3, <1>4, <1>6, <3>1, <3>2 DEF ObInv, ObTrue, ObCycleTrue, Ob!Channel
  <2>4. \A c \in Ob!Channel : dispatch[c].status = "sent" => accepted'[c] > 0
    BY <2>1 DEF ObInv, ObTrue
  <2> QED
    BY <1>2, <1>3, <2>2, <2>3, <2>4 DEF ObInv, ObTrue, Ob!Channel
<1>9. ASSUME ~overlapped' PROVE ObAlone'
  <2>1. ObAlone
    BY <1>2, <1>9 DEF ObInv
  <2>2. \A v \in Worker : v # w => ObCycleAlone(cycle[v])'
    BY <1>2, <1>3, <2>1 DEF ObAlone, ObCycleAlone, Ob!DispatchIn, Ob!InboxIn, Ob!Dispatches,
       Ob!InboxRow, Ob!Channel
  <2>3. Ob!DispatchIn(cycle[w])[k].status = "pending"
    BY <1>1, <2>1 DEF ObAlone, ObCycleAlone, k
  <2>4. ObCycleAlone(cycle[w])'
    <3>1. /\ Ob!DispatchIn(cycle[w])["push"] = (Ob!DispatchIn(cycle[w])["push"])'
          /\ Ob!DispatchIn(cycle[w])["sms"] = (Ob!DispatchIn(cycle[w])["sms"])'
      BY <1>2, <1>3 DEF Ob!DispatchIn, Ob!Dispatches, Ob!Channel
    <3>2. Ob!InboxIn(cycle[w]) = (Ob!InboxIn(cycle[w]))'
      BY <1>2, <1>3 DEF Ob!InboxIn, Ob!InboxRow
    <3> QED
      BY <1>3, <1>4, <2>1, <2>3, <3>1, <3>2 DEF ObAlone, ObCycleAlone, Ob!Channel
  <2> QED
    BY <1>2, <1>3, <2>1, <2>2, <2>4 DEF ObAlone, k
<1>10. ASSUME ~overlapped', ~cutShort' PROVE ObOnce'
  <2>1. /\ ~overlapped /\ ~cutShort /\ ObOnce /\ ObAlone
        /\ o.heard = "sent" \/ accepted' = accepted
    BY <1>2, <1>10 DEF ObInv, ObType
  <2>2. Ob!DispatchIn(cycle[w])[k].status = "pending"
    BY <1>1, <2>1 DEF ObAlone, ObCycleAlone, k
  <2>3. dispatch[k].status # "sent"
    BY <1>4, <2>2 DEF ObInv, ObTrue, ObCycleTrue, Ob!DispatchIn
  <2>4. \A v \in Worker : cycle[v].result[k] # "sent"
    <3>1. \A v \in Worker : v # w => cycle[v].step = "idle"
      BY <1>1, <2>1 DEF ObAlone, Ob!Channel
    <3>2. \A v \in Worker : v # w => \A c \in Ob!Channel : cycle[v].result[c] = "none"
      BY <3>1 DEF ObInv, ObTrue, ObCycleTrue, Ob!Channel
    <3>3. cycle[w].result[k] = "none"
      BY <1>1 DEF ObInv, ObTrue, ObCycleTrue, k
    <3> QED
      BY <1>1, <3>2, <3>3 DEF k
  <2>5. accepted[k] = 0
    BY <1>4, <2>1, <2>3, <2>4 DEF ObOnce
  <2>6. \A c \in Ob!Channel : c # k => \A v \in Worker : cycle'[v].result[c] = cycle[v].result[c]
    BY <1>3
  <2> QED
    BY <1>2, <1>3, <1>4, <1>5, <2>1, <2>5, <2>6 DEF ObOnce
<1> QED
  BY <1>7, <1>8, <1>9, <1>10 DEF ObInv

\* The pushes are done; the pending SMS are read.
LEMMA ObReadSms ==
  ASSUME ObInv, NEW w \in Worker, Ob!ReadSms(w)
  PROVE  ObInv'
<1> DEFINE q == cycle[w]
           todo == Ob!DispatchIn(q)["sms"].status = "pending"
           read == [q.read EXCEPT !["sms"] = Ob!DispatchIn(q)["sms"].attempts]
           p == [q EXCEPT !.step = "sms", !.todo = todo, !.read = read]
<1>1. /\ q.step = "push" /\ ~q.todo
      /\ UNCHANGED <<event, subject, prefs, written, inbox, dispatch, accepted, overlapped, cutShort>>
  BY DEF Ob!ReadSms, Ob!user, Ob!rows
<1>2. q \in ObCycle
  BY DEF ObInv, ObType
<1>3. cycle' = [cycle EXCEPT ![w] = p]
  BY <1>2 DEF Ob!ReadSms, ObInv, ObType, ObCycle
<1>4. Ob!DispatchIn(q) \in [Ob!Channel -> Ob!Dispatch]
  BY DEF Ob!DispatchIn, Ob!Dispatches, Ob!Dispatch, Ob!Channel, ObInv, ObType, Ob!TypeOK
<1>5. todo \in BOOLEAN /\ read \in [Ob!Channel -> Nat]
  BY <1>2, <1>4 DEF ObCycle, Ob!Dispatch, Ob!Channel
<1>6. todo => q.new \/ written
  BY DEF ObInv, ObTrue, Ob!DispatchIn, Ob!Channel
<1> HIDE DEF todo, read
<1>7. /\ p \in ObCycle /\ p.step = "sms" /\ p.new = q.new /\ p.prefs = q.prefs
      /\ p.todo = todo /\ p.seen = q.seen /\ p.result = q.result
  BY <1>2, <1>5 DEF ObCycle
<1> HIDE DEF p
<1>8. cycle' \in [Worker -> ObCycle] /\ cycle'[w] = p
      /\ \A v \in Worker : v # w => cycle'[v] = cycle[v]
  BY <1>3, <1>7 DEF ObInv, ObType
<1>9. ObType'
  <2>1. \A v \in Worker : cycle'[v].step \in {"idle"} \cup Ob!Channel
    BY <1>8 DEF ObCycle, Ob!Channel
  <2> QED
    BY <1>1, <1>8, <2>1 DEF ObInv, ObType, Ob!TypeOK, ObCycle, Ob!DefaultChoice,
       Ob!Channel, Ob!Dispatch, Ob!InboxStatus, Ob!Event, Ob!Requested, Ob!Reminder
<1>10. ObTrue'
  BY <1>1, <1>6, <1>7, <1>8 DEF ObInv, ObTrue, ObCycleTrue, Ob!Channel
<1>11. ASSUME ~overlapped' PROVE ObAlone'
  <2>1. ObAlone
    BY <1>1, <1>11 DEF ObInv
  <2>2. \A v \in Worker : v # w => ObCycleAlone(cycle[v])'
    BY <1>1, <1>8, <2>1 DEF ObAlone, ObCycleAlone, Ob!DispatchIn, Ob!InboxIn, Ob!Dispatches,
       Ob!InboxRow, Ob!Channel
  <2>3. ObCycleAlone(cycle[w])'
    <3>1. /\ Ob!DispatchIn(cycle[w])["push"] = (Ob!DispatchIn(cycle[w])["push"])'
          /\ Ob!DispatchIn(cycle[w])["sms"] = (Ob!DispatchIn(cycle[w])["sms"])'
      BY <1>1, <1>7, <1>8 DEF Ob!DispatchIn, Ob!Dispatches, Ob!Channel
    <3>2. Ob!InboxIn(cycle[w]) = (Ob!InboxIn(cycle[w]))'
      BY <1>1, <1>7, <1>8 DEF Ob!InboxIn, Ob!InboxRow
    <3>3. /\ cycle'[w].step = "sms" /\ cycle'[w].seen = q.seen /\ cycle'[w].result = q.result
          /\ cycle'[w].todo => Ob!DispatchIn(q)["sms"].status = "pending"
      BY <1>7, <1>8 DEF todo
    <3>4. ObCycleAlone(q)
      BY <2>1 DEF ObAlone
    <3> QED
      BY <3>1, <3>2, <3>3, <3>4 DEF ObCycleAlone, Ob!Channel
  <2> QED
    BY <1>1, <1>7, <1>8, <2>1, <2>2, <2>3 DEF ObAlone
<1>12. ASSUME ~overlapped', ~cutShort' PROVE ObOnce'
  <2>1. ObOnce
    BY <1>1, <1>12 DEF ObInv
  <2>2. \A v \in Worker : cycle'[v].result = cycle[v].result
    BY <1>7, <1>8
  <2> QED
    BY <1>1, <2>1, <2>2 DEF ObOnce
<1> QED
  BY <1>9, <1>10, <1>11, <1>12 DEF ObInv

\* A cycle that ends, with its rows written or not.
LEMMA ObEnds ==
  ASSUME ObInv, NEW w \in Worker, cycle[w].step # "idle", cycle' = [cycle EXCEPT ![w] = Ob!Idle]
  PROVE  /\ cycle' \in [Worker -> ObCycle] /\ cycle'[w] = Ob!Idle
         /\ \A v \in Worker : v # w => cycle'[v] = cycle[v]
         /\ Ob!Idle.step = "idle" /\ ~Ob!Idle.new /\ ~Ob!Idle.todo
         /\ \A c \in Ob!Channel : Ob!Idle.result[c] = "none"
<1>1. Ob!Idle \in ObCycle
  BY DEF Ob!Idle, ObCycle, Ob!Channel, Ob!InboxStatus
<1> QED
  BY <1>1 DEF ObInv, ObType, Ob!Idle

\* It may die with its calls made and nothing committed.
LEMMA ObDie ==
  ASSUME ObInv, NEW w \in Worker, Ob!Die(w)
  PROVE  ObInv'
<1>1. /\ cycle[w].step # "idle" /\ cycle' = [cycle EXCEPT ![w] = Ob!Idle] /\ cutShort'
      /\ UNCHANGED <<event, subject, prefs, written, inbox, dispatch, accepted, overlapped>>
      /\ cutShort' \in BOOLEAN
  BY DEF Ob!Die, Ob!user, Ob!rows
<1>2. /\ cycle' \in [Worker -> ObCycle] /\ cycle'[w] = Ob!Idle
      /\ \A v \in Worker : v # w => cycle'[v] = cycle[v]
      /\ Ob!Idle.step = "idle" /\ ~Ob!Idle.new /\ ~Ob!Idle.todo
      /\ \A c \in Ob!Channel : Ob!Idle.result[c] = "none"
  BY <1>1, ObEnds
<1>3. ObType'
  <2>1. \A v \in Worker : cycle'[v].step \in {"idle"} \cup Ob!Channel
    BY <1>2 DEF ObCycle, Ob!Channel
  <2> QED
    BY <1>1, <1>2, <2>1 DEF ObInv, ObType, Ob!TypeOK, ObCycle, Ob!DefaultChoice,
       Ob!Channel, Ob!Dispatch, Ob!InboxStatus, Ob!Event, Ob!Requested, Ob!Reminder
<1>4. ObTrue'
  BY <1>1, <1>2 DEF ObInv, ObTrue, ObCycleTrue, Ob!Channel
<1>5. ASSUME ~overlapped' PROVE ObAlone'
  <2>1. ObAlone
    BY <1>1, <1>5 DEF ObInv
  <2>2. \A v \in Worker : v # w => ObCycleAlone(cycle[v])'
    BY <1>1, <1>2, <2>1 DEF ObAlone, ObCycleAlone, Ob!DispatchIn, Ob!InboxIn, Ob!Dispatches,
       Ob!InboxRow, Ob!Channel
  <2>3. ObCycleAlone(cycle[w])'
    BY <1>2 DEF ObCycleAlone, Ob!Channel
  <2> QED
    BY <1>1, <1>2, <2>1, <2>2, <2>3 DEF ObAlone
<1> QED
  BY <1>1, <1>3, <1>4, <1>5 DEF ObInv

\* The rows as the commit leaves them.
LEMMA ObRows ==
  ASSUME ObInv, NEW w \in Worker, dispatch' = [c \in Ob!Channel |-> Ob!Written(cycle[w], c)],
         inbox' = Ob!InboxWritten(cycle[w])
  PROVE  /\ dispatch' \in [Ob!Channel -> Ob!Dispatch] /\ inbox' \in Ob!InboxStatus
         /\ \A c \in Ob!Channel :
               /\ cycle[w].result[c] = "none" => dispatch'[c] = Ob!DispatchIn(cycle[w])[c]
               /\ cycle[w].result[c] = "sent" => dispatch'[c].status = "sent"
               /\ cycle[w].result[c] = "refused" =>
                     dispatch'[c].status \in {"failed", Ob!DispatchIn(cycle[w])[c].status}
<1> DEFINE q == cycle[w]
<1>1. q \in ObCycle
  BY DEF ObInv, ObType
<1>2. Ob!DispatchIn(q) \in [Ob!Channel -> Ob!Dispatch] /\ Ob!InboxIn(q) \in Ob!InboxStatus
  BY DEF Ob!DispatchIn, Ob!Dispatches, Ob!Dispatch, Ob!Channel, ObInv, ObType, Ob!TypeOK,
     Ob!InboxIn, Ob!InboxRow, Ob!InboxStatus
<1> HIDE DEF q
<1>3. \A c \in Ob!Channel :
        /\ q.result[c] \in {"none", "sent", "refused"} /\ q.read[c] + 1 \in Nat
        /\ Ob!Status(q, c) \in {"sent", "failed", "pending"}
        /\ q.result[c] = "sent" => Ob!Status(q, c) = "sent"
        /\ q.result[c] # "sent" => Ob!Status(q, c) # "sent"
  BY <1>1 DEF Ob!Status, ObCycle
<1>4. \A c \in Ob!Channel : dispatch'[c] = Ob!Written(q, c)
  BY DEF q
<1>5. \A c \in Ob!Channel :
        /\ dispatch'[c] \in Ob!Dispatch
        /\ q.result[c] = "none" => dispatch'[c] = Ob!DispatchIn(q)[c]
        /\ q.result[c] = "sent" => dispatch'[c].status = "sent"
        /\ q.result[c] = "refused" =>
              dispatch'[c].status \in {"failed", Ob!DispatchIn(q)[c].status}
  <2> TAKE c \in Ob!Channel
  <2> DEFINE i == Ob!DispatchIn(q)[c]
             s == Ob!Status(q, c)
  <2>1. i \in Ob!Dispatch
    BY <1>2
  <2>2. dispatch'[c] = IF q.result[c] = "none" THEN i
                       ELSE [status |-> IF s = "pending" THEN i.status ELSE s,
                             attempts |-> q.read[c] + 1]
    BY <1>4 DEF Ob!Written
  <2>3. /\ q.result[c] \in {"none", "sent", "refused"} /\ q.read[c] + 1 \in Nat
        /\ s \in {"sent", "failed", "pending"}
        /\ q.result[c] = "sent" => s = "sent"
        /\ q.result[c] # "sent" => s # "sent"
    BY <1>3
  <2> HIDE DEF i, s
  <2>4. dispatch'[c] \in Ob!Dispatch
    BY <2>1, <2>2, <2>3 DEF Ob!Dispatch
  <2>5. q.result[c] = "none" => dispatch'[c] = i
    BY <2>2
  <2>6. q.result[c] = "sent" => dispatch'[c].status = "sent"
    BY <2>2, <2>3
  <2>7. q.result[c] = "refused" => dispatch'[c].status \in {"failed", i.status}
    BY <2>2, <2>3
  <2> QED
    BY <2>4, <2>5, <2>6, <2>7 DEF i
<1>6. inbox' \in Ob!InboxStatus
  BY <1>2, <1>3 DEF Ob!InboxWritten, Ob!InboxStatus, Ob!Channel, q
<1>7. dispatch' \in [Ob!Channel -> Ob!Dispatch]
  BY <1>5
<1> QED
  BY <1>5, <1>6, <1>7 DEF q

\* The cycle commits what the providers have answered.
LEMMA ObCommit ==
  ASSUME ObInv, NEW w \in Worker, Ob!Commit(w)
  PROVE  ObInv'
<1> DEFINE q == cycle[w]
<1>1. /\ q.step = "sms" /\ ~q.todo /\ written' = (written \/ q.new)
      /\ dispatch' = [c \in Ob!Channel |-> Ob!Written(q, c)] /\ inbox' = Ob!InboxWritten(q)
      /\ subject' \in {subject, "over"} /\ cycle' = [cycle EXCEPT ![w] = Ob!Idle]
      /\ UNCHANGED <<event, prefs, accepted, overlapped, cutShort>>
  BY DEF Ob!Commit, Ob!user
<1>2. /\ cycle' \in [Worker -> ObCycle] /\ cycle'[w] = Ob!Idle
      /\ \A v \in Worker : v # w => cycle'[v] = cycle[v]
      /\ Ob!Idle.step = "idle" /\ ~Ob!Idle.new /\ ~Ob!Idle.todo
      /\ \A c \in Ob!Channel : Ob!Idle.result[c] = "none"
  BY <1>1, ObEnds
<1>3. /\ dispatch' \in [Ob!Channel -> Ob!Dispatch] /\ inbox' \in Ob!InboxStatus
      /\ \A c \in Ob!Channel :
               /\ q.result[c] = "none" => dispatch'[c] = Ob!DispatchIn(q)[c]
               /\ q.result[c] = "sent" => dispatch'[c].status = "sent"
               /\ q.result[c] = "refused" =>
                     dispatch'[c].status \in {"failed", Ob!DispatchIn(q)[c].status}
  BY <1>1, ObRows
<1>4. q \in ObCycle /\ ObCycleTrue(q)
  BY DEF ObInv, ObType, ObTrue
<1>5. q.new => ~written /\ \A v \in Worker : v # w => ~cycle[v].new
  BY <1>4 DEF ObInv, ObTrue, ObCycleTrue
<1>6. \A c \in Ob!Channel : q.result[c] \in {"none", "sent", "refused"}
  BY <1>4 DEF ObCycle
<1>7. q.new => \A c \in Ob!Channel : Ob!DispatchIn(q)[c].status \in {"none", "pending"}
  BY DEF Ob!DispatchIn, Ob!Dispatches
<1>8. ~q.new => Ob!DispatchIn(q) = dispatch /\ Ob!InboxIn(q) = inbox
  BY DEF Ob!DispatchIn, Ob!InboxIn
<1>9. ~written /\ ~q.new =>
        /\ \A c \in Ob!Channel : q.result[c] = "none" /\ dispatch'[c] = dispatch[c]
        /\ inbox' = inbox
  BY <1>1, <1>3, <1>4, <1>8 DEF ObCycleTrue, Ob!InboxWritten, Ob!Channel
<1>10. ObType'
  <2>1. \A v \in Worker : cycle'[v].step \in {"idle"} \cup Ob!Channel
    BY <1>2 DEF ObCycle, Ob!Channel
  <2>2. written' \in BOOLEAN /\ subject' \in {"quiet", "due", "late", "over"}
    BY <1>1, <1>4 DEF ObInv, ObType, ObCycle, Ob!TypeOK
  <2> QED
    BY <1>1, <1>2, <1>3, <2>1, <2>2 DEF ObInv, ObType, Ob!TypeOK, ObCycle, Ob!DefaultChoice,
       Ob!Channel, Ob!Dispatch, Ob!InboxStatus, Ob!Event, Ob!Requested, Ob!Reminder
<1>11. ObTrue'
  <2>1. \A c \in Ob!Channel : dispatch'[c].status = "sent" => accepted'[c] > 0
    BY <1>1, <1>3, <1>4, <1>6, <1>7, <1>8 DEF ObInv, ObTrue, ObCycleTrue
  <2>2. ~written' => inbox' = "none" /\ \A c \in Ob!Channel : dispatch'[c].status = "none"
    BY <1>1, <1>9 DEF ObInv, ObTrue
  <2>3. \A v \in Worker : ObCycleTrue(cycle[v])'
    BY <1>1, <1>2, <1>5 DEF ObInv, ObTrue, ObCycleTrue, Ob!Channel
  <2>4. \A u, v \in Worker : cycle'[u].new /\ cycle'[v].new => u = v
    BY <1>2 DEF ObInv, ObTrue
  <2> QED
    BY <2>1, <2>2, <2>3, <2>4 DEF ObTrue, Ob!Channel
<1>12. ASSUME ~overlapped' PROVE ObAlone'
  <2>1. ObAlone
    BY <1>1, <1>12 DEF ObInv
  <2>2. \A v \in Worker : cycle'[v].step = "idle"
    BY <1>1, <1>2, <2>1 DEF ObAlone
  <2>3. \A v \in Worker : ~cycle'[v].todo /\ \A c \in Ob!Channel : cycle'[v].result[c] = "none"
    BY <1>2, <2>2 DEF ObInv, ObTrue, ObCycleTrue, Ob!Channel
  <2>4. inbox' \in {"pending", "sent", "failed"} => inbox' = dispatch'["push"].status
    <3> "push" \in Ob!Channel
      BY DEF Ob!Channel
    <3>1. Ob!InboxIn(q) \in {"pending", "sent", "failed"} =>
            Ob!InboxIn(q) = Ob!DispatchIn(q)["push"].status
      BY <1>8, <2>1 DEF ObAlone, Ob!InboxIn, Ob!DispatchIn, Ob!InboxRow, Ob!Dispatches
    <3>2. CASE q.result["push"] = "none"
      BY <1>1, <1>3, <3>1, <3>2 DEF Ob!InboxWritten
    <3>3. CASE q.result["push"] # "none"
      <4>1. Ob!DispatchIn(q)["push"].status = "pending" /\ q.seen = Ob!InboxIn(q)
        BY <2>1, <3>3 DEF ObAlone, ObCycleAlone, Ob!Channel
      <4>2. dispatch'["push"].status = Ob!Status(q, "push")
        BY <1>1, <3>3, <4>1 DEF Ob!Written, Ob!Status
      <4> QED
        BY <1>1, <3>1, <3>3, <4>1, <4>2 DEF Ob!InboxWritten
    <3> QED
      BY <3>2, <3>3
  <2> QED
    BY <2>2, <2>3, <2>4 DEF ObAlone, ObCycleAlone, Ob!Channel
<1>13. ASSUME ~overlapped', ~cutShort' PROVE ObOnce'
  <2>1. ObOnce /\ ObAlone
    BY <1>1, <1>13 DEF ObInv
  <2>2. ASSUME NEW c \in Ob!Channel, accepted[c] # 0
        PROVE  accepted[c] = 1 /\ dispatch'[c].status = "sent"
    <3>1. accepted[c] = 1
      BY <2>1, <2>2 DEF ObOnce
    <3>2. CASE \E v \in Worker : cycle[v].result[c] = "sent"
      <4>1. \A v \in Worker : v # w => cycle[v].result[c] # "sent"
        BY <1>1, <2>1 DEF ObAlone, ObInv, ObTrue, ObCycleTrue, Ob!Channel
      <4> QED
        BY <1>3, <3>1, <3>2, <4>1
    <3>3. CASE dispatch[c].status = "sent"
      <4>1. written
        BY <3>3 DEF ObInv, ObTrue
      <4>2. ~q.new
        BY <1>5, <4>1
      <4>3. Ob!DispatchIn(q)[c].status = "sent"
        BY <1>8, <3>3, <4>2
      <4>4. q.result[c] # "refused" \/ dispatch'[c].status = "sent"
        BY <2>1, <4>3 DEF ObAlone, ObCycleAlone
      <4> QED
        BY <1>3, <1>6, <3>1, <4>3, <4>4
    <3> QED
      BY <2>1, <2>2, <3>2, <3>3 DEF ObOnce
  <2> QED
    BY <1>1, <2>2 DEF ObOnce
<1> QED
  BY <1>10, <1>11, <1>12, <1>13 DEF ObInv

\* What the invariant is about stays.
LEMMA ObStutter ==
  ASSUME ObInv,
         UNCHANGED <<event, subject, prefs, wants, device, written, inbox, dispatch, cycle,
                     started, accepted, overlapped, cutShort>>
  PROVE  ObInv'
<1>1. Ob!TypeOK'
  BY DEF ObInv, ObType, Ob!TypeOK, Ob!DefaultChoice, Ob!Channel, Ob!Dispatch,
     Ob!InboxStatus, Ob!Event, Ob!Requested, Ob!Reminder
<1> QED
  BY <1>1, ObQuiet

\* Every step of Outbox keeps it.
LEMMA ObStep == ObInv /\ Ob!Next => ObInv'
<1> SUFFICES ASSUME ObInv, Ob!Next PROVE ObInv'
  OBVIOUS
<1>1. CASE \/ Ob!ListPreferences \/ Ob!SwitchReminders \/ Ob!SwitchPersonalization
           \/ Ob!RegisterDevice \/ Ob!RemoveDevice \/ Ob!TimePasses \/ Ob!Settled
           \/ \E c \in {"role", "both"}, p \in Choices : Ob!SetPreference(c, p)
  BY <1>1, ObUser
<1>2. CASE Ob!Enqueue
  BY <1>2, ObEnqueue
<1>3. ASSUME NEW w \in Worker, Ob!Begin(w) PROVE ObInv'
  BY <1>3, ObBegin
<1>4. ASSUME NEW w \in Worker, Ob!Push(w) \/ Ob!Sms(w) PROVE ObInv'
  BY <1>4, ObCall
<1>5. ASSUME NEW w \in Worker, Ob!ReadSms(w) PROVE ObInv'
  BY <1>5, ObReadSms
<1>6. ASSUME NEW w \in Worker, Ob!Commit(w) PROVE ObInv'
  BY <1>6, ObCommit
<1>7. ASSUME NEW w \in Worker, Ob!Die(w) PROVE ObInv'
  BY <1>7, ObDie
<1> QED
  BY <1>1, <1>2, <1>3, <1>4, <1>5, <1>6, <1>7 DEF Ob!Next

\* The invariant, of the component when it is the one that runs.
OutboxHolds == component = "outbox" => ObInv

\* It holds in every state.
LEMMA OutboxInvariant == Spec => []OutboxHolds
<1>1. Init => OutboxHolds
  BY ObInit DEF Init, OutboxHolds
<1>2. OutboxHolds /\ [Next]_vars => OutboxHolds'
  <2> SUFFICES ASSUME OutboxHolds, [Next]_vars, component' = "outbox" PROVE ObInv'
    BY DEF OutboxHolds
  <2>1. CASE OutboxStep
    BY <2>1, ObStep DEF OutboxStep, OutboxHolds
  <2>2. CASE UNCHANGED vars
    BY <2>2, ObStutter DEF vars, obVars, OutboxHolds
  <2>3. CASE Next /\ ~OutboxStep
    BY <2>3 DEF Next, IdentitiesStep, SessionsStep, PhoneCodesStep, CouponsStep, MediaStep,
       MessagesStep, ListingsStep, PayoutsStep, SharingStep
  <2> QED
    BY <2>1, <2>2, <2>3
<1> QED
  BY <1>1, <1>2, PTL DEF Spec

\* ToldOnce: one event reaches a channel once, while no two delivery cycles overlap
\* and none is cut short between a provider's answer and the commit.
THEOREM OutboxToldOnce == Spec => []ToldOnce
<1>1. OutboxHolds => ToldOnce
  <2> SUFFICES ASSUME OutboxHolds, component = "outbox", ~cutShort, ~overlapped,
                      NEW c \in Ob!Channel
               PROVE  accepted[c] <= 1
    BY DEF ToldOnce, Ob!ToldOnce
  <2>1. ObOnce /\ accepted[c] \in {0, 1, 2}
    BY DEF OutboxHolds, ObInv, ObType
  <2> QED
    BY <2>1 DEF ObOnce
<1> QED
  BY <1>1, OutboxInvariant, PTL

\* RowsAreTrue: a dispatch that is recorded as sent was accepted by its provider,
\* whatever overlaps; the inbox says what the push did while no cycles overlap.
THEOREM OutboxRowsAreTrue == Spec => []RowsAreTrue
<1>1. OutboxHolds => RowsAreTrue
  BY DEF OutboxHolds, RowsAreTrue, Ob!RowsAreTrue, ObInv, ObTrue, ObAlone
<1> QED
  BY <1>1, OutboxInvariant, PTL

-----------------------------------------------------------------------------
\* Messages and watermarks.

\* What sends messages, and what else a request may be.
MsSends == {"chat", "offer", "price"}
MsKinds == MsSends \cup {"none", "read", "open", "cleanup"}

MsMessage == [conv : Conv, by : Ms!Party, at : 1..MaxClock, kind : MsSends]

MsRequest ==
    [kind : MsKinds, conv : SUBSET Conv, by : Ms!Party, now : 0..MaxClock,
     sent : 0..MaxClock, read : [Conv -> Ms!Conversation], set : [Conv -> Ms!Conversation]]

MsType ==
    /\ Ms!TypeOK
    /\ messages \subseteq MsMessage /\ IsFiniteSet(messages)
    /\ req \in [Request -> MsRequest]
    /\ shown \in [Ms!Party -> SUBSET messages]

\* Nothing carries a time that is still to come.
MsPast(x, t) == x.lastAt <= t /\ \A u \in Ms!Party : x.readAt[u] <= t

MsTimes ==
    /\ \A m \in messages : m.at <= clock
    /\ \A c \in Conv : MsPast(row[c], clock)
    /\ \A r \in Request :
          /\ req[r].now <= clock /\ req[r].sent <= clock
          /\ \A c \in Conv : MsPast(req[r].read[c], clock) /\ MsPast(req[r].set[c], clock)

\* Messages are in rows that exist; a request names rows that exist or did; a row
\* that never did is empty.
MsRows ==
    /\ \A m \in messages : row[m.conv].exists
    /\ \A r \in Request : \A c \in req[r].conv : row[c].exists \/ row[c].gone
    /\ \A c \in Conv : row[c].exists \/ row[c].gone \/ row[c].lastAt = 0

\* Who has flushed holds the locks of its rows, alone.
MsSent(r) == req[r].sent > 0

MsLocks ==
    /\ \A r \in Request : MsSent(r) => /\ req[r].kind \in MsSends
                                       /\ \A c \in req[r].conv : row[c].exists
    /\ \A r, s \in Request : r # s /\ MsSent(r) /\ MsSent(s) => req[r].conv \cap req[s].conv = {}

\* A message that is not committed is later than all the row knows of, and than
\* what is about to be written to it.
MsLast(c, t) ==
    /\ \A m \in messages : m.conv = c => m.at < t
    /\ row[c].lastAt < t
    /\ \A u \in Ms!Party : row[c].readAt[u] < t

MsBelow(q, c, t) ==
    q.kind = "read" /\ c \in q.conv => \A u \in Ms!Party : q.set[c].readAt[u] < t

MsLatest ==
    \A r \in Request : MsSent(r) /\ req[r].kind # "price" =>
        \A c \in req[r].conv : /\ MsLast(c, req[r].sent)
                               /\ \A s \in Request : MsBelow(req[s], c, req[r].sent)

\* Who has read nothing of what there is has something unread.
MsUnread ==
    \A c \in Conv, u \in Ms!Party :
        /\ row[c].readAt[u] = 0 /\ Ms!In(c, u) # {} => row[c].unread[u] > 0
        /\ row[c].unread[u] > 0 => Ms!In(c, u) # {}

MsSeen(c, u, t) ==
    \A m \in Ms!In(c, u) : m.kind # "price" /\ m.at <= t => m \in shown[u]

\* What a read is about to write is true of what is there.
MsReading(q, c, u) ==
    /\ q.set[c].readAt[u] # q.read[c].readAt[u] =>
          q.set[c].readAt[u] > 0 /\ MsSeen(c, u, q.set[c].readAt[u])
    /\ q.read[c].readAt[u] > 0 => row[c].readAt[u] > 0
    /\ q.set[c].unread[u] # q.read[c].unread[u] =>
          Ms!In(c, u) # {} /\ q.set[c].readAt[u] > 0

MsReads ==
    \A r \in Request : req[r].kind = "read" =>
        \A c \in req[r].conv, u \in Ms!Party : row[c].exists => MsReading(req[r], c, u)

\* What a sender has read of the one it sends to, and what it writes.
MsSending(q, c, u) ==
    /\ q.read[c].unread[u] > 0 => Ms!In(c, u) # {}
    /\ q.read[c].readAt[u] <= q.now
    /\ q.kind = "price" => q.read[c].readAt[u] < q.now
    /\ q.sent > 0 => /\ q.set[c].unread[u] > 0
                     /\ \A v \in Ms!Party : v # u => q.set[c].unread[v] = q.read[c].unread[v]
                     /\ q.set[c].readAt = q.read[c].readAt

MsSendings ==
    \A r \in Request : req[r].kind \in MsSends =>
        \A c \in req[r].conv : row[c].exists => MsSending(req[r], c, Ms!Other(req[r].by))

MsAcked == \A c \in Conv, u \in Ms!Party : MsSeen(c, u, row[c].readAt[u])

MsInv == /\ MsType /\ MsTimes /\ MsRows /\ MsLocks /\ MsLatest
         /\ MsUnread /\ MsReads /\ MsSendings /\ MsAcked

\* Cardinality is the same operator wherever it is instantiated.
LEMMA MsCardinality == \A S : Ms!Cardinality(S) = Cardinality(S)
  BY DEF Ms!Cardinality, Cardinality

\* What is counted is there.
LEMMA MsCount ==
  ASSUME MsType, NEW c \in Conv, NEW u \in Ms!Party, NEW t
  PROVE  /\ Ms!CountUnread(c, u, t) \in Nat
         /\ Ms!CountUnread(c, u, t) > 0 => Ms!In(c, u) # {}
<1> DEFINE S == {m \in Ms!In(c, u) : m.at > t}
<1>1. S \subseteq messages
  BY DEF Ms!In
<1>2. IsFiniteSet(S)
  BY <1>1, FS_Subset DEF MsType
<1>3. Ms!CountUnread(c, u, t) = Cardinality(S)
  BY MsCardinality DEF Ms!CountUnread
<1>4. Cardinality(S) \in Nat /\ (S = {} => Cardinality(S) = 0)
  BY <1>2, FS_CardinalityType, FS_EmptySet
<1>5. Ms!In(c, u) = {} => S = {}
  OBVIOUS
<1> QED
  BY <1>3, <1>4, <1>5

\* The latest of a bounded set of times.
LEMMA MsMax ==
  ASSUME NEW S, S \subseteq 0..MaxClock
  PROVE  /\ Ms!Latest(S) \in S \cup {0}
         /\ S # {} => Ms!Latest(S) \in S
<1>1. S # {} => \E t \in S : \A x \in S : x <= t
  BY GreatestNatural, ChatAssumption
<1> QED
  BY <1>1 DEF Ms!Latest

\* Rows, and what changes of one.
LEMMA MsNoRow ==
  /\ Ms!NoRow \in Ms!Conversation /\ ~Ms!NoRow.exists /\ ~Ms!NoRow.gone /\ Ms!NoRow.lastAt = 0
  /\ \A u \in Ms!Party : Ms!NoRow.unread[u] = 0 /\ Ms!NoRow.readAt[u] = 0
  BY DEF Ms!NoRow, Ms!Conversation, Ms!Party

\* A request that is not there has nothing.
LEMMA MsNoRequest ==
  LET q == Ms!NoRequest
  IN  /\ q \in MsRequest /\ q.kind = "none" /\ q.conv = {} /\ q.sent = 0 /\ q.now = 0
      /\ \A c \in Conv : q.set[c] = Ms!NoRow /\ q.read[c] = Ms!NoRow
  BY MsNoRow, ChatAssumption DEF Ms!NoRequest, MsRequest, MsKinds, Ms!Party

\* The columns of one party.
LEMMA MsColumns ==
  ASSUME NEW u \in Ms!Party, NEW n \in Nat, NEW k \in Nat
  PROVE  LET y == Ms!Columns(u, n, k)
         IN  /\ y \in Ms!Conversation /\ y.lastAt = 0
             /\ y.unread[u] = n /\ y.readAt[u] = k
             /\ \A v \in Ms!Party : v # u => y.unread[v] = 0 /\ y.readAt[v] = 0
<1> DEFINE y == Ms!Columns(u, n, k)
           a == [[v \in Ms!Party |-> 0] EXCEPT ![u] = n]
           b == [[v \in Ms!Party |-> 0] EXCEPT ![u] = k]
<1>1. y = [Ms!NoRow EXCEPT !.unread = a, !.readAt = b]
  BY DEF Ms!NoRow, Ms!Columns
<1>2. /\ a \in [Ms!Party -> Nat] /\ a[u] = n /\ (\A v \in Ms!Party : v # u => a[v] = 0)
      /\ b \in [Ms!Party -> Nat] /\ b[u] = k /\ (\A v \in Ms!Party : v # u => b[v] = 0)
  OBVIOUS
<1> HIDE DEF a, b, y
<1>3. y.unread = a /\ y.readAt = b /\ y.lastAt = 0
  BY <1>1 DEF Ms!NoRow
<1>4. y \in Ms!Conversation
  BY <1>1, <1>2 DEF Ms!NoRow, Ms!Conversation
<1>5. /\ y \in Ms!Conversation /\ y.lastAt = 0
      /\ y.unread[u] = n /\ y.readAt[u] = k
      /\ \A v \in Ms!Party : v # u => y.unread[v] = 0 /\ y.readAt[v] = 0
  BY <1>2, <1>3, <1>4
<1> QED
  BY <1>5 DEF y

\* What is read of the rows.
LEMMA MsRowsRead ==
  ASSUME MsType, NEW C \in SUBSET Conv, NEW u \in Ms!Party
  PROVE  /\ Ms!Rows(C, u) \in [Conv -> Ms!Conversation]
         /\ \A c \in Conv : /\ Ms!Rows(C, u)[c].lastAt = 0
                            /\ \A v \in Ms!Party : v # u =>
                                  Ms!Rows(C, u)[c].unread[v] = 0 /\ Ms!Rows(C, u)[c].readAt[v] = 0
         /\ \A c \in C : /\ Ms!Rows(C, u)[c].unread[u] = row[c].unread[u]
                         /\ Ms!Rows(C, u)[c].readAt[u] = row[c].readAt[u]
         /\ \A c \in Conv \ C : Ms!Rows(C, u)[c] = Ms!NoRow
<1> DEFINE y(c) == Ms!Columns(u, row[c].unread[u], row[c].readAt[u])
<1>1. \A c \in Conv : row[c].unread[u] \in Nat /\ row[c].readAt[u] \in Nat
  BY DEF MsType, Ms!TypeOK, Ms!Conversation
<1>2. ASSUME NEW c \in Conv
      PROVE  /\ y(c) \in Ms!Conversation
             /\ y(c).unread[u] = row[c].unread[u] /\ y(c).readAt[u] = row[c].readAt[u]
             /\ y(c).lastAt = 0
             /\ \A v \in Ms!Party : v # u => y(c).unread[v] = 0 /\ y(c).readAt[v] = 0
  <2>1. row[c].unread[u] \in Nat /\ row[c].readAt[u] \in Nat
    BY <1>1
  <2> QED
    BY <2>1, MsColumns
<1>3. Ms!Rows(C, u) = [c \in Conv |-> IF c \in C THEN y(c) ELSE Ms!NoRow]
  BY DEF Ms!Rows
<1> HIDE DEF y
<1> QED
  BY <1>2, <1>3, MsNoRow

\* What a commit writes of a row, column by column.
LEMMA MsWritten ==
  ASSUME MsType, NEW r \in Request, NEW c \in Conv
  PROVE  LET y == Ms!Written(r, c)
             q == req[r]
         IN  /\ y \in Ms!Conversation /\ y.exists = row[c].exists /\ y.gone = row[c].gone
             /\ y.lastAt = IF q.set[c].lastAt = q.read[c].lastAt THEN row[c].lastAt
                           ELSE q.set[c].lastAt
             /\ \A u \in Ms!Party :
                   /\ y.unread[u] = IF q.set[c].unread[u] = q.read[c].unread[u]
                                    THEN row[c].unread[u] ELSE q.set[c].unread[u]
                   /\ y.readAt[u] = IF q.set[c].readAt[u] = q.read[c].readAt[u]
                                    THEN row[c].readAt[u] ELSE q.set[c].readAt[u]
<1> DEFINE y == Ms!Written(r, c)
           set == req[r].set[c]
           read == req[r].read[c]
<1>1. row[c] \in Ms!Conversation /\ set \in Ms!Conversation /\ read \in Ms!Conversation
  BY DEF MsType, Ms!TypeOK, MsRequest
<1>2. y = [exists |-> row[c].exists, gone |-> row[c].gone,
           lastAt |-> Ms!Saved(row[c].lastAt, read.lastAt, set.lastAt),
           unread |-> [u \in Ms!Party |-> Ms!Saved(row[c].unread[u], read.unread[u], set.unread[u])],
           readAt |-> [u \in Ms!Party |-> Ms!Saved(row[c].readAt[u], read.readAt[u], set.readAt[u])]]
  BY DEF Ms!Written
<1>3. \A a \in Nat, b \in Nat, d \in Nat : Ms!Saved(a, b, d) \in Nat
  BY DEF Ms!Saved
<1> HIDE DEF y, set, read
<1>4. y \in Ms!Conversation
  <2>1. row[c].exists \in BOOLEAN /\ row[c].gone \in BOOLEAN
    BY <1>1 DEF Ms!Conversation
  <2>2. Ms!Saved(row[c].lastAt, read.lastAt, set.lastAt) \in Nat
    BY <1>1, <1>3 DEF Ms!Conversation
  <2>3. [u \in Ms!Party |-> Ms!Saved(row[c].unread[u], read.unread[u], set.unread[u])] \in [Ms!Party -> Nat]
    BY <1>1, <1>3 DEF Ms!Conversation
  <2>4. [u \in Ms!Party |-> Ms!Saved(row[c].readAt[u], read.readAt[u], set.readAt[u])] \in [Ms!Party -> Nat]
    BY <1>1, <1>3 DEF Ms!Conversation
  <2> QED
    BY <1>2, <2>1, <2>2, <2>3, <2>4 DEF Ms!Conversation
<1> QED
  <2>1. y.exists = row[c].exists /\ y.gone = row[c].gone
    BY <1>2
  <2>2. y.lastAt = Ms!Saved(row[c].lastAt, read.lastAt, set.lastAt)
    BY <1>2
  <2>3. \A u \in Ms!Party : /\ y.unread[u] = Ms!Saved(row[c].unread[u], read.unread[u], set.unread[u])
                            /\ y.readAt[u] = Ms!Saved(row[c].readAt[u], read.readAt[u], set.readAt[u])
    BY <1>2
  <2> HIDE DEF y
  <2>4. \A a, b, d : Ms!Saved(a, b, d) = IF d = b THEN a ELSE d
    BY DEF Ms!Saved
  <2>5. y.lastAt = IF set.lastAt = read.lastAt THEN row[c].lastAt ELSE set.lastAt
    BY <2>2, <2>4
  <2>6. \A u \in Ms!Party :
           /\ y.unread[u] = IF set.unread[u] = read.unread[u] THEN row[c].unread[u] ELSE set.unread[u]
           /\ y.readAt[u] = IF set.readAt[u] = read.readAt[u] THEN row[c].readAt[u] ELSE set.readAt[u]
    BY <2>3, <2>4
  <2> QED
    BY <1>4, <2>1, <2>5, <2>6 DEF y, set, read

\* What is past stays past.
LEMMA MsLater ==
  \A x \in Ms!Conversation : \A t \in Nat, k \in Nat : MsPast(x, t) /\ t <= k => MsPast(x, k)
  BY DEF MsPast, Ms!Conversation

-----------------------------------------------------------------------------
\* A request that begins, flushes or ends without a commit.
LEMMA MsReplaced ==
  ASSUME MsInv, NEW r \in Request, NEW q \in MsRequest,
         req' = [req EXCEPT ![r] = q], row' = row, messages' = messages,
         clock' \in clock..MaxClock,
         shown' \in [Ms!Party -> SUBSET messages],
         \A u \in Ms!Party : shown[u] \subseteq shown'[u],
         q.now <= clock', q.sent <= clock',
         \A c \in Conv : MsPast(q.read[c], clock') /\ MsPast(q.set[c], clock'),
         \A c \in q.conv : row[c].exists \/ row[c].gone,
         q.sent > 0 => /\ q.kind \in MsSends /\ \A c \in q.conv : row[c].exists
                       /\ \A s \in Request \ {r} : MsSent(s) => q.conv \cap req[s].conv = {},
         q.sent > 0 /\ q.kind # "price" => \A c \in q.conv :
            MsLast(c, q.sent) /\ \A s \in Request \ {r} : MsBelow(req[s], c, q.sent),
         q.kind = "read" => \A s \in Request \ {r} : MsSent(s) /\ req[s].kind # "price" =>
            \A c \in req[s].conv : MsBelow(q, c, req[s].sent),
         q.kind = "read" => \A c \in q.conv, u \in Ms!Party : row[c].exists => MsReading(q, c, u)',
         q.kind \in MsSends => \A c \in q.conv : row[c].exists => MsSending(q, c, Ms!Other(q.by))
  PROVE  MsInv'
<1>1. req'[r] = q /\ \A s \in Request : s # r => req'[s] = req[s]
  BY DEF MsInv, MsType
<1>2. clock \in 1..MaxClock /\ clock' \in 1..MaxClock /\ clock <= clock'
  BY ChatAssumption DEF MsInv, MsType, Ms!TypeOK
<1>3. MsType'
  BY <1>2 DEF MsInv, MsType, Ms!TypeOK
<1>4. MsTimes'
  <2>1. \A m \in messages : m.at \in Nat
    BY DEF MsInv, MsType, MsMessage
  <2>2. \A c \in Conv : MsPast(row[c], clock')
    BY <1>2, MsLater DEF MsInv, MsTimes, MsType, Ms!TypeOK
  <2>3. ASSUME NEW s \in Request
        PROVE  /\ req'[s].now <= clock' /\ req'[s].sent <= clock'
               /\ \A c \in Conv : MsPast(req'[s].read[c], clock') /\ MsPast(req'[s].set[c], clock')
    <3>1. CASE s = r
      BY <1>1, <3>1
    <3>2. CASE s # r
      <4>1. req[s] \in MsRequest
        BY DEF MsInv, MsType
      <4>2. /\ req[s].now \in Nat /\ req[s].sent \in Nat
            /\ \A c \in Conv : req[s].read[c] \in Ms!Conversation /\ req[s].set[c] \in Ms!Conversation
        BY <4>1, ChatAssumption DEF MsRequest
      <4>3. req[s].now <= clock' /\ req[s].sent <= clock'
        BY <1>2, <4>2 DEF MsInv, MsTimes
      <4>4. \A c \in Conv : MsPast(req[s].read[c], clock') /\ MsPast(req[s].set[c], clock')
        BY <1>2, <4>2, MsLater DEF MsInv, MsTimes
      <4> QED
        BY <1>1, <3>2, <4>3, <4>4
    <3> QED
      BY <3>1, <3>2
  <2> QED
    BY <1>2, <2>1, <2>2, <2>3 DEF MsInv, MsTimes, MsPast
<1>5. MsRows'
  BY <1>1 DEF MsInv, MsRows
<1>6. MsLocks'
  BY <1>1 DEF MsInv, MsLocks, MsSent
<1>7. MsLatest'
  <2>1. \A c, t : MsLast(c, t)' <=> MsLast(c, t)
    BY DEF MsLast
  <2>2. ASSUME NEW s \in Request, MsSent(s)', req'[s].kind # "price", NEW c \in req'[s].conv
        PROVE  MsLast(c, req'[s].sent) /\ \A x \in Request : MsBelow(req'[x], c, req'[s].sent)
    <3>1. CASE s = r
      <4>1. MsBelow(q, c, q.sent)
        BY <1>1, <2>2, <3>1 DEF MsBelow, MsSent, MsSends
      <4> QED
        BY <1>1, <2>2, <3>1, <4>1 DEF MsSent
    <3>2. CASE s # r
      BY <1>1, <2>2, <3>2 DEF MsInv, MsLatest, MsSent, MsBelow
    <3> QED
      BY <3>1, <3>2
  <2> QED
    BY <2>1, <2>2 DEF MsLatest, MsBelow
<1>8. MsUnread'
  BY DEF MsInv, MsUnread, Ms!In
<1>9. \A c \in Conv, u \in Ms!Party : \A t : MsSeen(c, u, t) => MsSeen(c, u, t)'
  BY DEF MsSeen, Ms!In
<1>10. MsReads'
  <2>1. ASSUME NEW s \in Request, s # r, req[s].kind = "read", NEW c \in req[s].conv,
               NEW u \in Ms!Party, row[c].exists
        PROVE  MsReading(req[s], c, u)'
    <3>1. MsReading(req[s], c, u) /\ c \in Conv /\ req'[s] = req[s]
      BY <1>1, <2>1 DEF MsInv, MsReads, MsType, MsRequest
    <3>2. \A t : MsSeen(c, u, t) => MsSeen(c, u, t)'
      BY <1>9, <3>1
    <3>3. Ms!In(c, u)' = Ms!In(c, u)
      BY DEF Ms!In
    <3> QED
      BY <3>1, <3>2, <3>3 DEF MsReading
  <2> QED
    BY <1>1, <2>1 DEF MsReads
<1>11. MsSendings'
  BY <1>1 DEF MsInv, MsSendings, MsSending, Ms!In
<1>12. MsAcked'
  BY <1>9 DEF MsInv, MsAcked
<1> QED
  BY <1>3, <1>4, <1>5, <1>6, <1>7, <1>8, <1>10, <1>11, <1>12 DEF MsInv

\* What is read of the rows is past.
LEMMA MsRowsPast ==
  ASSUME MsType, MsTimes, NEW C \in SUBSET Conv, NEW u \in Ms!Party, NEW t \in Nat, clock <= t
  PROVE  \A c \in Conv : MsPast(Ms!Rows(C, u)[c], t)
<1> SUFFICES ASSUME NEW c \in Conv PROVE MsPast(Ms!Rows(C, u)[c], t)
  OBVIOUS
<1> DEFINE x == Ms!Rows(C, u)[c]
<1>1. MsPast(row[c], t)
  BY MsLater DEF MsType, MsTimes, Ms!TypeOK
<1>2. x.lastAt = 0 /\ \A v \in Ms!Party : v # u => x.readAt[v] = 0
  BY MsRowsRead
<1>3. x.readAt[u] = 0 \/ x.readAt[u] = row[c].readAt[u]
  <2>1. CASE c \in C
    BY <2>1, MsRowsRead
  <2>2. CASE c \notin C
    <3>1. x = Ms!NoRow
      BY <2>2, MsRowsRead
    <3> QED
      BY <3>1, MsNoRow
  <2> QED
    BY <2>1, <2>2
<1> HIDE DEF x
<1>4. MsPast(x, t)
  BY <1>1, <1>2, <1>3 DEF MsPast
<1> QED
  BY <1>4 DEF x

\* There are two parties.
LEMMA MsParty ==
  ASSUME NEW u \in Ms!Party
  PROVE  /\ Ms!Other(u) \in Ms!Party /\ Ms!Other(Ms!Other(u)) = u /\ Ms!Other(u) # u
         /\ \A v \in Ms!Party : v = u \/ v = Ms!Other(u)
  BY DEF Ms!Party, Ms!Other

\* A sender reads the row of the conversation.
LEMMA MsSendBegin ==
  ASSUME MsInv, NEW r \in Request, NEW u \in Ms!Party, NEW C \in SUBSET Conv, NEW k \in MsSends,
         Ms!SendBegin(r, u, k, C)
  PROVE  MsInv'
<1> PICK now \in Nat : now = clock'
  BY DEF Ms!SendBegin, MsInv, MsType, Ms!TypeOK
<1> DEFINE q == [Ms!NoRequest EXCEPT !.kind = k, !.conv = C, !.by = u, !.now = now,
                                     !.read = Ms!Rows(C, Ms!Other(u))]
           v == Ms!Other(u)
<1>1. /\ req' = [req EXCEPT ![r] = q]
      /\ row' = row /\ messages' = messages /\ shown' = shown
      /\ clock' = IF k = "price" THEN clock + 1 ELSE clock
      /\ clock < MaxClock
      /\ \A c \in C : row[c].exists
  BY DEF Ms!SendBegin
<1>2. clock \in 1..MaxClock
  BY DEF MsInv, MsType, Ms!TypeOK
<1>3. v \in Ms!Party
  BY MsParty
<1>4. /\ q.kind = k /\ q.conv = C /\ q.by = u /\ q.now = now /\ q.sent = 0
      /\ q.read = Ms!Rows(C, v) /\ q.set = [c \in Conv |-> Ms!NoRow]
  BY DEF Ms!NoRequest
<1>5. Ms!Rows(C, v) \in [Conv -> Ms!Conversation]
  BY <1>3, MsRowsRead DEF MsInv
<1>6. q \in MsRequest
  <2>1. Ms!NoRequest \in MsRequest /\ now \in 0..MaxClock /\ k \in MsKinds
    BY <1>1, <1>2, MsNoRequest, ChatAssumption DEF MsKinds
  <2> QED
    BY <1>5, <2>1 DEF MsRequest
<1> HIDE DEF q
<1>7. ASSUME NEW c \in C PROVE MsSending(q, c, v)
  <2>1. q.read[c].unread[v] = row[c].unread[v] /\ q.read[c].readAt[v] = row[c].readAt[v]
    BY <1>3, <1>4, MsRowsRead DEF MsInv
  <2>2. row[c].readAt[v] \in Nat /\ row[c].readAt[v] <= clock
    BY <1>3 DEF MsInv, MsTimes, MsPast, MsType, Ms!TypeOK, Ms!Conversation
  <2>3. row[c].unread[v] > 0 => Ms!In(c, v) # {}
    BY <1>3 DEF MsInv, MsUnread
  <2> QED
    BY <1>1, <1>2, <1>4, <2>1, <2>2, <2>3 DEF MsSending
<1>8. \A c \in Conv : q.set[c].lastAt = 0 /\ \A x \in Ms!Party : q.set[c].readAt[x] = 0
  BY <1>4, MsNoRow
<1>9. q.kind # "read" /\ shown \in [Ms!Party -> SUBSET messages] /\ clock' \in clock..MaxClock
  BY <1>1, <1>2, <1>4, ChatAssumption DEF MsSends, MsInv, MsType
<1>10. \A c \in C : row[c].exists => MsSending(q, c, Ms!Other(q.by))
  BY <1>4, <1>7
<1> QED
  <2>1. q.now <= clock' /\ q.sent <= clock' /\ ~(q.sent > 0)
        /\ \A c \in Conv : MsPast(q.read[c], clock') /\ MsPast(q.set[c], clock')
    <3>1. now \in Nat /\ clock <= now /\ now = clock'
      BY <1>1, <1>2
    <3>2. \A c \in Conv : MsPast(q.read[c], now)
      BY <1>3, <1>4, <3>1, MsRowsPast DEF MsInv
    <3>3. \A c \in Conv : MsPast(q.set[c], now)
      BY <1>8 DEF MsPast
    <3> QED
      BY <1>4, <3>1, <3>2, <3>3
  <2>2. \A c \in q.conv : row[c].exists \/ row[c].gone
    BY <1>1, <1>4
  <2>3. q.kind \in MsSends => \A c \in q.conv : row[c].exists => MsSending(q, c, Ms!Other(q.by))
    BY <1>4, <1>10
  <2> QED
    BY <1>1, <1>6, <1>9, <2>1, <2>2, <2>3, MsReplaced

\* A request that only names rows that are there.
LEMMA MsNames ==
  ASSUME MsInv, NEW r \in Request, NEW q \in MsRequest, req' = [req EXCEPT ![r] = q],
         row' = row, messages' = messages, clock' = clock, shown' = shown,
         q.kind \in {"none", "open", "cleanup"}, q.sent = 0, q.now = 0,
         \A c \in Conv : q.set[c] = Ms!NoRow /\ q.read[c] = Ms!NoRow,
         \A c \in q.conv : row[c].exists
  PROVE  MsInv'
<1>1. clock \in 1..MaxClock /\ clock \in Nat /\ shown \in [Ms!Party -> SUBSET messages]
      /\ clock \in clock..MaxClock
  BY ChatAssumption DEF MsInv, MsType, Ms!TypeOK
<1>2. q.kind \notin MsSends /\ q.kind # "read"
  BY DEF MsSends
<1>3. q.now <= clock' /\ q.sent <= clock' /\ ~(q.sent > 0)
      /\ \A c \in Conv : MsPast(q.read[c], clock') /\ MsPast(q.set[c], clock')
  BY <1>1, MsNoRow DEF MsPast
<1> QED
  BY <1>1, <1>2, <1>3, MsReplaced

\* A request that ends: nothing is left of it.
LEMMA MsEnds ==
  ASSUME MsInv, NEW r \in Request, req' = [req EXCEPT ![r] = Ms!NoRequest],
         row' = row, messages' = messages, clock' = clock, shown' = shown
  PROVE  MsInv'
<1>a. PICK q : q = Ms!NoRequest
  OBVIOUS
<1>1. /\ q \in MsRequest /\ q.kind = "none" /\ q.conv = {} /\ q.sent = 0 /\ q.now = 0
      /\ \A c \in Conv : q.set[c] = Ms!NoRow /\ q.read[c] = Ms!NoRow
  BY <1>a, MsNoRequest
<1>2. req' = [req EXCEPT ![r] = q]
  BY <1>a
<1> QED
  BY <1>1, <1>2, MsNames

\* What a sender changes of a row.
LEMMA MsSentRow ==
  ASSUME NEW x \in Ms!Conversation, NEW u \in Ms!Party, NEW count \in Nat, NEW time \in Nat
  PROVE  LET y == Ms!Updated(x, u, time, count)
         IN  /\ y \in Ms!Conversation /\ y.lastAt = time /\ y.unread[u] = count
             /\ y.readAt = x.readAt
             /\ \A v \in Ms!Party : v # u => y.unread[v] = x.unread[v]
<1> DEFINE a == [x.unread EXCEPT ![u] = count]
           y == Ms!Updated(x, u, time, count)
<1>1. a \in [Ms!Party -> Nat] /\ a[u] = count /\ \A v \in Ms!Party : v # u => a[v] = x.unread[v]
  BY DEF Ms!Conversation
<1>2. y = [x EXCEPT !.lastAt = time, !.unread = a]
  BY DEF Ms!Updated, Ms!Conversation
<1> HIDE DEF a, y
<1>3. y \in Ms!Conversation /\ y.lastAt = time /\ y.unread = a /\ y.readAt = x.readAt
  BY <1>1, <1>2 DEF Ms!Conversation
<1>4. /\ y \in Ms!Conversation /\ y.lastAt = time /\ y.unread[u] = count
      /\ y.readAt = x.readAt
      /\ \A v \in Ms!Party : v # u => y.unread[v] = x.unread[v]
  BY <1>1, <1>3
<1> QED
  BY <1>4 DEF y

\* The flush takes the lock, and the message its time.
LEMMA MsSendFlush == ASSUME MsInv, NEW r \in Request, Ms!SendFlush(r) PROVE MsInv'
<1> DEFINE q == req[r]
           u == Ms!Other(req[r].by)
<1>1. /\ q.kind \in MsSends /\ q.sent = 0 /\ q \in MsRequest
      /\ row' = row /\ messages' = messages /\ shown' = shown
      /\ \A c \in q.conv : ~Ms!Locked(c)
  BY DEF Ms!SendFlush, MsSends, MsInv, MsType
<1>2. clock \in 1..MaxClock /\ shown \in [Ms!Party -> SUBSET messages]
  BY DEF MsInv, MsType, Ms!TypeOK
<1>3. q.by \in Ms!Party /\ u \in Ms!Party /\ q.conv \subseteq Conv /\ q.now \in 0..clock
  BY <1>1, <1>2, MsParty, ChatAssumption DEF MsRequest, MsInv, MsTimes
<1>4. CASE \E c \in q.conv : ~row[c].exists
  BY <1>1, <1>4, MsEnds DEF Ms!SendFlush
<1>5. CASE \A c \in q.conv : row[c].exists
  <2> PICK t \in Nat : t = Ms!SentAt(r)
    BY <1>2, <1>3 DEF Ms!SentAt
  <2>1. /\ clock' \in clock..MaxClock /\ t <= clock'
        /\ q.kind # "price" => t = clock + 1
        /\ q.kind = "price" => t = q.now
    <3>1. /\ clock < MaxClock \/ q.kind = "price"
          /\ clock' = IF q.kind = "price" THEN clock ELSE clock + 1
      BY <1>5 DEF Ms!SendFlush
    <3>2. t = IF q.kind = "price" THEN q.now ELSE clock + 1
      BY DEF Ms!SentAt
    <3> QED
      BY <1>2, <1>3, <3>1, <3>2, ChatAssumption
  <2> DEFINE n(c) == IF q.kind = "offer" THEN q.read[c].unread[u] + 1
                     ELSE Ms!CountUnread(c, u, q.read[c].readAt[u])
                          + (IF t > q.read[c].readAt[u] THEN 1 ELSE 0)
             new(c) == Ms!Updated(q.read[c], u, q.now, n(c))
             set == [c \in Conv |-> IF c \in q.conv THEN new(c) ELSE q.read[c]]
             p == [q EXCEPT !.sent = t, !.set = set]
  <2>2. req' = [req EXCEPT ![r] = p]
    BY <1>5 DEF Ms!SendFlush
  <2>3. \A c \in Conv : /\ q.read[c] \in Ms!Conversation
                        /\ q.read[c].unread[u] \in Nat /\ q.read[c].readAt[u] \in Nat
    BY <1>1, <1>3 DEF MsRequest, Ms!Conversation
  <2>4. ASSUME NEW c \in q.conv PROVE n(c) \in Nat \ {0}
    <3>1. Ms!CountUnread(c, u, q.read[c].readAt[u]) \in Nat
      BY <1>3, MsCount DEF MsInv
    <3>2. MsSending(q, c, u)
      BY <1>1, <1>5 DEF MsInv, MsSendings
    <3>3. q.read[c].readAt[u] < t
      BY <1>2, <1>3, <2>1, <2>3, <3>2 DEF MsSending
    <3> QED
      BY <1>3, <2>3, <3>1, <3>3
  <2> HIDE DEF n
  <2>5. ASSUME NEW c \in q.conv
        PROVE  /\ new(c) \in Ms!Conversation /\ new(c).lastAt = q.now /\ new(c).unread[u] = n(c)
               /\ new(c).readAt = q.read[c].readAt
               /\ \A v \in Ms!Party : v # u => new(c).unread[v] = q.read[c].unread[v]
    <3>1. PICK x \in Ms!Conversation, w \in Ms!Party, k \in Nat, m \in Nat :
            x = q.read[c] /\ w = u /\ k = q.now /\ m = n(c)
      BY <1>2, <1>3, <2>3, <2>4
    <3> DEFINE y == Ms!Updated(x, w, k, m)
    <3>2. y \in Ms!Conversation /\ y.lastAt = k
      BY MsSentRow
    <3>3. y.unread[w] = m
      BY MsSentRow, SMTT(30)
    <3>4. y.readAt = x.readAt
      BY MsSentRow
    <3>5. ASSUME NEW v \in Ms!Party, v # w PROVE y.unread[v] = x.unread[v]
      BY <3>5, MsSentRow
    <3>6. new(c) = y
      BY <3>1
    <3> HIDE DEF new, y
    <3> QED
      BY <3>1, <3>2, <3>3, <3>4, <3>5, <3>6
  <2> HIDE DEF new
  <2>6. set \in [Conv -> Ms!Conversation]
    BY <2>3, <2>5
  <2>7. \A c \in q.conv : set[c] = new(c)
    BY <1>3
  <2>8. \A c \in Conv : c \notin q.conv => set[c] = q.read[c]
    OBVIOUS
  <2> HIDE DEF set
  <2>9. /\ p \in MsRequest /\ p.kind = q.kind /\ p.conv = q.conv /\ p.by = q.by /\ p.now = q.now
        /\ p.read = q.read /\ p.sent = t /\ p.set = set
    <3>1. t \in 0..MaxClock
      BY <2>1, <1>2, ChatAssumption
    <3> QED
      BY <1>1, <2>6, <3>1 DEF MsRequest
  <2> HIDE DEF p
  <2>10. /\ p.now <= clock' /\ p.sent <= clock'
         /\ \A c \in Conv : MsPast(p.read[c], clock') /\ MsPast(p.set[c], clock')
    <3>1. p.now <= clock' /\ p.sent <= clock'
      BY <1>2, <1>3, <2>1, <2>9
    <3>2. \A c \in Conv : MsPast(q.read[c], clock')
      BY <1>2, <2>1, <2>3, MsLater DEF MsInv, MsTimes
    <3>3. ASSUME NEW c \in q.conv PROVE MsPast(set[c], clock')
      BY <1>3, <2>5, <2>7, <2>9, <3>1, <3>2, <3>3 DEF MsPast
    <3> QED
      BY <2>8, <2>9, <3>1, <3>2, <3>3
  <2>11. ASSUME NEW c \in q.conv PROVE MsSending(p, c, u)
    <3>1. MsSending(q, c, u)
      BY <1>1, <1>5 DEF MsInv, MsSendings
    <3>2. \A v \in Ms!Party : v # u => p.set[c].unread[v] = p.read[c].unread[v]
      BY <2>5, <2>7, <2>9
    <3>3. p.set[c].unread[u] > 0 /\ p.set[c].readAt = p.read[c].readAt
      BY <2>4, <2>5, <2>7, <2>9
    <3> QED
      BY <2>9, <3>1, <3>2, <3>3 DEF MsSending
  <2>12. \A s \in Request \ {r} : MsSent(s) => q.conv \cap req[s].conv = {}
    BY <1>1 DEF Ms!Locked, MsSent
  <2>13. ASSUME q.kind # "price", NEW c \in q.conv
         PROVE  MsLast(c, t) /\ \A s \in Request \ {r} : MsBelow(req[s], c, t)
    <3>1. t = clock + 1
      BY <2>1, <2>13
    <3>2. MsLast(c, t)
      <4>1. \A m \in messages : m.at \in Nat
        BY DEF MsInv, MsType, MsMessage
      <4>2. row[c].lastAt \in Nat /\ \A v \in Ms!Party : row[c].readAt[v] \in Nat
        BY <1>3 DEF MsInv, MsType, Ms!TypeOK, Ms!Conversation
      <4> QED
        BY <1>2, <1>3, <3>1, <4>1, <4>2 DEF MsInv, MsTimes, MsPast, MsLast
    <3>3. ASSUME NEW s \in Request PROVE MsBelow(req[s], c, t)
      <4>1. \A v \in Ms!Party : req[s].set[c].readAt[v] \in Nat /\ req[s].set[c].readAt[v] <= clock
        BY <1>3 DEF MsInv, MsType, MsRequest, Ms!Conversation, MsTimes, MsPast
      <4> QED
        BY <1>2, <3>1, <4>1 DEF MsBelow
    <3> QED
      BY <3>2, <3>3
  <2>14. p.kind \in MsSends /\ p.kind # "read"
    BY <1>1, <2>9 DEF MsSends
  <2>15. p.sent > 0 => /\ p.kind \in MsSends /\ \A c \in p.conv : row[c].exists
                       /\ \A s \in Request \ {r} : MsSent(s) => p.conv \cap req[s].conv = {}
    BY <1>5, <2>9, <2>12, <2>14
  <2>16. p.sent > 0 /\ p.kind # "price" => \A c \in p.conv :
            MsLast(c, p.sent) /\ \A s \in Request \ {r} : MsBelow(req[s], c, p.sent)
    BY <2>9, <2>13
  <2>17. p.kind \in MsSends => \A c \in p.conv : row[c].exists => MsSending(p, c, Ms!Other(p.by))
    BY <2>9, <2>11
  <2>18. \A c \in p.conv : row[c].exists \/ row[c].gone
    BY <1>5, <2>9
  <2> HIDE DEF q, u
  <2> QED
    BY <1>1, <1>2, <2>1, <2>2, <2>9, <2>10, <2>14, <2>15, <2>16, <2>17, <2>18, MsReplaced
<1> QED
  BY <1>4, <1>5
\* Up to when a read says that it has read: up to a message that is there.
LEMMA MsUpTo ==
  ASSUME MsInv, NEW c \in Conv, NEW u \in Ms!Party, NEW upto \in Nat
  PROVE  LET until == Ms!ReadUpTo(c, u, upto)
         IN  /\ until \in Nat
             /\ until = 0 \/ \E m \in messages : m.conv = c /\ m.at = until
             /\ Ms!In(c, u) # {} => until > 0
<1> DEFINE S == {x.at : x \in {y \in Ms!In(c, u) : y.at <= upto}}
           T == {m.at : m \in Ms!In(c, u)}
           named == {m \in messages : m.conv = c /\ m.at = upto}
           until == Ms!ReadUpTo(c, u, upto)
           first == IF \E m \in named : m.by = u THEN Ms!Latest(S)
                    ELSE IF named # {} THEN upto ELSE 0
<1>1. \A m \in messages : m.at \in 1..MaxClock
  BY DEF MsInv, MsType, MsMessage
<1>2. \A m \in Ms!In(c, u) : m \in messages /\ m.conv = c
  BY DEF Ms!In
<1>3. S \subseteq 0..MaxClock /\ T \subseteq 0..MaxClock
  BY <1>1, <1>2, ChatAssumption
<1>4. Ms!Latest(S) \in S \cup {0} /\ Ms!Latest(T) \in T \cup {0} /\ (T # {} => Ms!Latest(T) \in T)
  BY <1>3, MsMax
<1>5. until = IF first = 0 THEN Ms!Latest(T) ELSE first
  BY DEF Ms!ReadUpTo
<1>6. /\ \A t \in S : t \in Nat /\ t > 0 /\ \E m \in messages : m.conv = c /\ m.at = t
      /\ \A t \in T : t \in Nat /\ t > 0 /\ \E m \in messages : m.conv = c /\ m.at = t
  BY <1>1, <1>2
<1>7. first \in Nat /\ (first = 0 \/ \E m \in messages : m.conv = c /\ m.at = first)
  <2> HIDE DEF S, T
  <2> QED
    BY <1>4, <1>6
<1>8. Ms!In(c, u) # {} => T # {}
  OBVIOUS
<1> HIDE DEF S, T, first, until
<1>9. /\ until \in Nat
      /\ until = 0 \/ \E m \in messages : m.conv = c /\ m.at = until
      /\ Ms!In(c, u) # {} => until > 0
  BY <1>4, <1>5, <1>6, <1>7, <1>8
<1> QED
  BY <1>9 DEF until

\* What may be marked as read now lies before every message to come.
LEMMA MsBefore ==
  ASSUME MsInv, NEW s \in Request, MsSent(s), req[s].kind # "price", NEW c \in req[s].conv,
         NEW t \in Nat,
         \/ t = 0 \/ t = row[c].lastAt \/ (\E u \in Ms!Party : t = row[c].readAt[u])
         \/ \E m \in messages : m.conv = c /\ m.at = t
  PROVE  t < req[s].sent
<1>1. MsLast(c, req[s].sent)
  BY DEF MsInv, MsLatest
<1>2. req[s].sent \in Nat /\ req[s].sent > 0
  BY ChatAssumption DEF MsInv, MsType, MsRequest, MsSent
<1> QED
  BY <1>1, <1>2 DEF MsLast

\* A read decides how far it has read.
LEMMA MsReadBegin ==
  ASSUME MsInv, NEW r \in Request, NEW u \in Ms!Party, NEW c \in Conv,
         NEW upto \in {0} \cup {m.at : m \in messages}, Ms!ReadBegin(r, u, c, upto)
  PROVE  MsInv'
<1>a. PICK until, was : until = Ms!ReadUpTo(c, u, upto) /\ was = row[c].readAt[u]
  OBVIOUS
<1>b. PICK readAt : readAt = IF until >= was THEN until ELSE was
  OBVIOUS
<1>c. PICK count, read : count = Ms!CountUnread(c, u, readAt) /\ read = Ms!Rows({c}, u)
  OBVIOUS
<1>d. PICK x : x = Ms!Columns(u, count, readAt)
  OBVIOUS
<1>e. PICK set : set = [read EXCEPT ![c] = x]
  OBVIOUS
<1>f. PICK q : q = [Ms!NoRequest EXCEPT !.kind = "read", !.conv = {c}, !.by = u,
                                      !.read = read, !.set = set]
  OBVIOUS
<1>1. /\ req' = [req EXCEPT ![r] = q]
      /\ row' = row /\ messages' = messages /\ clock' = clock
      /\ shown' = [shown EXCEPT ![u] = @ \cup Ms!In(c, u)]
      /\ row[c].exists
  BY <1>a, <1>b, <1>c, <1>d, <1>e, <1>f DEF Ms!ReadBegin
<1>2. clock \in 1..MaxClock /\ clock \in Nat /\ upto \in Nat /\ was \in Nat /\ was <= clock
      /\ row[c].unread[u] \in Nat
  BY <1>a, ChatAssumption DEF MsInv, MsType, Ms!TypeOK, MsMessage, Ms!Conversation, MsTimes, MsPast
<1>3. /\ until \in Nat
      /\ until = 0 \/ \E m \in messages : m.conv = c /\ m.at = until
      /\ Ms!In(c, u) # {} => until > 0
  BY <1>a, <1>2, MsUpTo
<1>4. until <= clock
  BY <1>2, <1>3 DEF MsInv, MsTimes
<1>5. readAt \in Nat /\ readAt <= clock /\ until <= readAt /\ was <= readAt
      /\ (readAt = was \/ readAt = until)
  BY <1>b, <1>2, <1>3, <1>4
<1>6. count \in Nat /\ (count > 0 => Ms!In(c, u) # {})
  BY <1>c, <1>5, MsCount DEF MsInv
<1>7. /\ read \in [Conv -> Ms!Conversation] /\ read[c].lastAt = 0
      /\ read[c].unread[u] = row[c].unread[u] /\ read[c].readAt[u] = was
      /\ \A v \in Ms!Party : v # u => read[c].unread[v] = 0 /\ read[c].readAt[v] = 0
      /\ \A d \in Conv : MsPast(read[d], clock)
  <2>1. {c} \in SUBSET Conv /\ MsType /\ MsTimes
    BY DEF MsInv
  <2>2. \A d \in Conv : MsPast(read[d], clock)
    BY <1>c, <1>2, <2>1, MsRowsPast
  <2> QED
    BY <1>a, <1>c, <2>1, <2>2, MsRowsRead
<1>9. /\ x \in Ms!Conversation /\ x.lastAt = 0
      /\ x.unread[u] = count /\ x.readAt[u] = readAt
      /\ \A v \in Ms!Party : v # u => x.unread[v] = 0 /\ x.readAt[v] = 0
  <2>1. LET y == Ms!Columns(u, count, readAt)
        IN  /\ y \in Ms!Conversation /\ y.lastAt = 0
            /\ y.unread[u] = count /\ y.readAt[u] = readAt
            /\ \A v \in Ms!Party : v # u => y.unread[v] = 0 /\ y.readAt[v] = 0
    BY <1>5, <1>6, MsColumns
  <2> QED
    BY <1>d, <2>1
<1>11. set \in [Conv -> Ms!Conversation] /\ set[c] = x /\ \A d \in Conv : d # c => set[d] = read[d]
  BY <1>e, <1>7, <1>9
<1>12. /\ q \in MsRequest /\ q.kind = "read" /\ q.conv = {c} /\ q.by = u /\ q.now = 0
       /\ q.sent = 0 /\ q.read = read /\ q.set = set
  <2>1. /\ Ms!NoRequest \in MsRequest /\ Ms!NoRequest.sent = 0 /\ Ms!NoRequest.now = 0
        /\ "read" \in MsKinds
    BY MsNoRequest DEF MsKinds
  <2> QED
    BY <1>f, <1>7, <1>11, <2>1 DEF MsRequest
<1>13. \A d \in Conv : MsPast(q.read[d], clock') /\ MsPast(q.set[d], clock')
  <2>1. MsPast(x, clock)
    <3>1. ASSUME NEW v \in Ms!Party PROVE x.readAt[v] <= clock
      <4>1. CASE v = u
        BY <1>5, <1>9, <4>1
      <4>2. CASE v # u
        BY <1>2, <1>9, <4>2
      <4> QED
        BY <4>1, <4>2
    <3> QED
      BY <1>2, <1>9, <3>1 DEF MsPast
  <2>2. \A d \in Conv : MsPast(set[d], clock)
    BY <1>7, <1>11, <2>1
  <2> QED
    BY <1>1, <1>7, <1>12, <2>2
<1>14. /\ shown' \in [Ms!Party -> SUBSET messages]
       /\ shown'[u] = shown[u] \cup Ms!In(c, u)
       /\ \A v \in Ms!Party : shown[v] \subseteq shown'[v]
  BY <1>1 DEF MsInv, MsType, Ms!In
<1>15. row[c].unread[u] > 0 => Ms!In(c, u) # {}
  BY DEF MsInv, MsUnread
<1>16. Ms!In(c, u)' = Ms!In(c, u) /\ MsSeen(c, u, readAt)'
  BY <1>1, <1>14 DEF MsSeen, Ms!In
<1>17. ASSUME NEW v \in Ms!Party PROVE MsReading(q, c, v)'
  <2>1. CASE v = u
    <3>1. q.set[c].readAt[u] = readAt /\ q.set[c].unread[u] = count
      BY <1>9, <1>11, <1>12
    <3>2. q.read[c].readAt[u] = was /\ q.read[c].unread[u] = row[c].unread[u]
      BY <1>7, <1>12
    <3>3. readAt # was => readAt > 0
      BY <1>2, <1>3, <1>5
    <3>4. count # row[c].unread[u] => Ms!In(c, u) # {} /\ readAt > 0
      BY <1>2, <1>3, <1>5, <1>6, <1>15
    <3>5. row'[c].readAt[u] = was
      BY <1>a, <1>1
    <3>6. /\ q.set[c].readAt[u] # q.read[c].readAt[u] =>
                q.set[c].readAt[u] > 0 /\ MsSeen(c, u, q.set[c].readAt[u])'
          /\ q.read[c].readAt[u] > 0 => row'[c].readAt[u] > 0
          /\ q.set[c].unread[u] # q.read[c].unread[u] =>
                Ms!In(c, u)' # {} /\ q.set[c].readAt[u] > 0
      BY <1>16, <3>1, <3>2, <3>3, <3>4, <3>5
    <3> QED
      BY <2>1, <3>6 DEF MsReading
  <2>2. CASE v # u
    <3>1. q.set[c].readAt[v] = 0 /\ q.set[c].unread[v] = 0
      BY <1>9, <1>11, <1>12, <2>2
    <3>2. q.read[c].readAt[v] = 0 /\ q.read[c].unread[v] = 0
      BY <1>7, <1>12, <2>2
    <3> QED
      BY <3>1, <3>2 DEF MsReading
  <2> QED
    BY <2>1, <2>2
<1>18. ASSUME NEW s \in Request, MsSent(s), req[s].kind # "price", NEW d \in req[s].conv
       PROVE  MsBelow(q, d, req[s].sent)
  <2> SUFFICES ASSUME d = c, NEW v \in Ms!Party PROVE q.set[c].readAt[v] < req[s].sent
    BY <1>12 DEF MsBelow
  <2>1. q.set[c].readAt[v] \in {0, readAt}
    <3>1. q.set[c] = x
      BY <1>11, <1>12
    <3>2. CASE v = u
      BY <1>9, <3>1, <3>2
    <3>3. CASE v # u
      BY <1>9, <3>1, <3>3
    <3> QED
      BY <3>2, <3>3
  <2>2. 0 < req[s].sent
    BY <1>18, MsBefore
  <2>3. readAt < req[s].sent
    BY <1>a, <1>3, <1>5, <1>18, MsBefore
  <2> QED
    BY <2>1, <2>2, <2>3
<1>19. q.now <= clock' /\ q.sent <= clock' /\ ~(q.sent > 0) /\ q.kind \notin MsSends
       /\ clock' \in clock..MaxClock /\ \A d \in q.conv : row[d].exists
  BY <1>1, <1>2, <1>12, ChatAssumption DEF MsSends
<1>20. \A d \in q.conv, v \in Ms!Party : row[d].exists => MsReading(q, d, v)'
  BY <1>12, <1>17
<1>21. \A s \in Request \ {r} : MsSent(s) /\ req[s].kind # "price" =>
          \A d \in req[s].conv : MsBelow(q, d, req[s].sent)
  BY <1>18
<1>22. \A d \in q.conv : row[d].exists \/ row[d].gone
  BY <1>19
<1> QED
  <2>1. /\ req' = [req EXCEPT ![r] = q] /\ row' = row /\ messages' = messages /\ q \in MsRequest
        /\ clock' \in clock..MaxClock /\ shown' \in [Ms!Party -> SUBSET messages]
        /\ \A v \in Ms!Party : shown[v] \subseteq shown'[v]
        /\ q.now <= clock' /\ q.sent <= clock'
    BY <1>1, <1>12, <1>14, <1>19
  <2>2. q.sent > 0 => FALSE
    BY <1>19
  <2>3. q.kind \in MsSends => FALSE
    BY <1>19
  <2> QED
    BY <1>13, <1>20, <1>21, <1>22, <2>1, <2>2, <2>3, MsReplaced

\* The watermarks of a row alone.
LEMMA MsReadAt ==
  ASSUME NEW a \in [Ms!Party -> Nat]
  PROVE  LET y == [Ms!NoRow EXCEPT !.readAt = a]
         IN  /\ y \in Ms!Conversation /\ y.lastAt = 0 /\ y.readAt = a
             /\ \A v \in Ms!Party : y.unread[v] = 0
<1> DEFINE y == [Ms!NoRow EXCEPT !.readAt = a]
<1>1. y.lastAt = 0 /\ y.readAt = a /\ y.unread = [v \in Ms!Party |-> 0]
  BY DEF Ms!NoRow
<1>2. y \in Ms!Conversation
  BY MsNoRow DEF Ms!Conversation
<1> QED
  BY <1>1, <1>2

\* A starting process fills watermarks of rows in which nothing is unread: nothing
\* is there then that the party was not shown.
LEMMA MsBackfillBegin == ASSUME MsInv, NEW r \in Request, Ms!BackfillBegin(r) PROVE MsInv'
<1> DEFINE fill(c) == [v \in Ms!Party |->
                         IF row[c].unread[v] = 0 /\ row[c].readAt[v] = 0 THEN row[c].lastAt
                         ELSE row[c].readAt[v]]
           old(c) == [Ms!NoRow EXCEPT !.readAt = row[c].readAt]
           new(c) == [Ms!NoRow EXCEPT !.readAt = fill(c)]
<1>a. PICK C : C = {c \in Conv : new(c) # old(c)}
  OBVIOUS
<1>b. PICK read, set : /\ read = [c \in Conv |-> IF c \in C THEN old(c) ELSE Ms!NoRow]
                       /\ set = [c \in Conv |-> IF c \in C THEN new(c) ELSE Ms!NoRow]
  OBVIOUS
<1>c. PICK q : q = [Ms!NoRequest EXCEPT !.kind = "read", !.conv = C, !.read = read, !.set = set]
  OBVIOUS
<1>1. /\ req' = [req EXCEPT ![r] = q]
      /\ row' = row /\ messages' = messages /\ clock' = clock /\ shown' = shown
  BY <1>a, <1>b, <1>c DEF Ms!BackfillBegin
<1>2. clock \in 1..MaxClock /\ clock \in Nat
  BY ChatAssumption DEF MsInv, MsType, Ms!TypeOK
<1>3. ASSUME NEW c \in Conv
      PROVE  /\ row[c].lastAt \in Nat /\ row[c].lastAt <= clock
             /\ row[c].readAt \in [Ms!Party -> Nat]
             /\ \A v \in Ms!Party : row[c].readAt[v] <= clock
             /\ fill(c) \in [Ms!Party -> Nat]
  <2>1. row[c].lastAt \in Nat /\ row[c].readAt \in [Ms!Party -> Nat]
    BY DEF MsInv, MsType, Ms!TypeOK, Ms!Conversation
  <2> QED
    BY <2>1 DEF MsInv, MsTimes, MsPast
<1>4. ASSUME NEW c \in Conv, NEW v \in Ms!Party
      PROVE  /\ fill(c)[v] \in {row[c].lastAt, row[c].readAt[v]}
             /\ fill(c)[v] # row[c].readAt[v] =>
                  row[c].unread[v] = 0 /\ row[c].readAt[v] = 0 /\ fill(c)[v] = row[c].lastAt
  OBVIOUS
<1>5. ASSUME NEW c \in Conv
      PROVE  /\ old(c) \in Ms!Conversation /\ old(c).lastAt = 0 /\ old(c).readAt = row[c].readAt
             /\ new(c) \in Ms!Conversation /\ new(c).lastAt = 0 /\ new(c).readAt = fill(c)
             /\ \A v \in Ms!Party : old(c).unread[v] = 0 /\ new(c).unread[v] = 0
  BY <1>3, MsReadAt
<1>6. ASSUME NEW c \in C PROVE c \in Conv /\ row[c].lastAt > 0
  <2>1. c \in Conv /\ fill(c) # row[c].readAt
    BY <1>a
  <2>2. PICK v \in Ms!Party : fill(c)[v] # row[c].readAt[v]
    BY <1>3, <2>1
  <2> QED
    BY <1>3, <1>4, <2>1, <2>2
<1> HIDE DEF fill, old, new
<1>7. /\ read \in [Conv -> Ms!Conversation] /\ set \in [Conv -> Ms!Conversation]
      /\ \A c \in C : read[c] = old(c) /\ set[c] = new(c)
      /\ \A c \in Conv \ C : read[c] = Ms!NoRow /\ set[c] = Ms!NoRow
  BY <1>b, <1>5, <1>6, MsNoRow
<1>8. /\ q \in MsRequest /\ q.kind = "read" /\ q.conv = C /\ q.now = 0
      /\ q.sent = 0 /\ q.read = read /\ q.set = set
  <2>1. /\ Ms!NoRequest \in MsRequest /\ Ms!NoRequest.sent = 0 /\ Ms!NoRequest.now = 0
        /\ "read" \in MsKinds /\ C \in SUBSET Conv
    BY <1>6, MsNoRequest DEF MsKinds
  <2> QED
    BY <1>c, <1>7, <2>1 DEF MsRequest
<1>9. ASSUME NEW c \in Conv PROVE MsPast(q.read[c], clock') /\ MsPast(q.set[c], clock')
  <2>1. CASE c \in C
    <3>1. MsPast(old(c), clock)
      BY <1>2, <1>3, <1>5 DEF MsPast
    <3>2. \A v \in Ms!Party : fill(c)[v] <= clock
      BY <1>3, <1>4
    <3>3. MsPast(new(c), clock)
      BY <1>2, <1>5, <3>2 DEF MsPast
    <3> QED
      BY <1>1, <1>7, <1>8, <2>1, <3>1, <3>3
  <2>2. CASE c \notin C
    BY <1>1, <1>2, <1>7, <1>8, <2>2, MsNoRow DEF MsPast
  <2> QED
    BY <2>1, <2>2
<1>10. \A c \in q.conv : row[c].exists \/ row[c].gone
  BY <1>6, <1>8 DEF MsInv, MsRows
<1>11. ASSUME NEW c \in C, NEW v \in Ms!Party PROVE MsReading(q, c, v)'
  <2>1. /\ q.set[c].readAt[v] = fill(c)[v] /\ q.set[c].unread[v] = 0
        /\ q.read[c].readAt[v] = row[c].readAt[v] /\ q.read[c].unread[v] = 0
    BY <1>5, <1>6, <1>7, <1>8
  <2>2. ASSUME fill(c)[v] # row[c].readAt[v]
        PROVE  fill(c)[v] > 0 /\ Ms!In(c, v) = {}
    <3>1. fill(c)[v] = row[c].lastAt /\ row[c].unread[v] = 0 /\ row[c].readAt[v] = 0
      BY <1>4, <1>6, <2>2
    <3> QED
      BY <1>6, <3>1 DEF MsInv, MsUnread
  <2>3. PICK f : f = fill(c)[v]
    OBVIOUS
  <2>4. f # row'[c].readAt[v] => f > 0 /\ MsSeen(c, v, f)'
    <3>1. Ms!In(c, v)' = Ms!In(c, v) /\ row'[c].readAt[v] = row[c].readAt[v]
      BY <1>1 DEF Ms!In
    <3> QED
      BY <2>2, <2>3, <3>1 DEF MsSeen
  <2>5. q.set[c].readAt[v] = f /\ q.read[c].readAt[v] = row'[c].readAt[v]
    BY <1>1, <2>1, <2>3
  <2> QED
    BY <2>1, <2>4, <2>5 DEF MsReading
<1>12. ASSUME NEW s \in Request, MsSent(s), req[s].kind # "price", NEW c \in req[s].conv
       PROVE  MsBelow(q, c, req[s].sent)
  <2> SUFFICES ASSUME c \in C, NEW v \in Ms!Party PROVE q.set[c].readAt[v] < req[s].sent
    BY <1>8 DEF MsBelow
  <2>1. c \in Conv /\ q.set[c].readAt[v] = fill(c)[v]
    BY <1>5, <1>6, <1>7, <1>8
  <2>2. fill(c)[v] \in Nat /\ fill(c)[v] \in {row[c].lastAt, row[c].readAt[v]}
    BY <1>3, <1>4, <2>1
  <2> QED
    BY <1>12, <2>1, <2>2, MsBefore
<1>13. q.now <= clock' /\ q.sent <= clock' /\ ~(q.sent > 0) /\ q.kind \notin MsSends
       /\ clock' \in clock..MaxClock /\ shown' \in [Ms!Party -> SUBSET messages]
       /\ \A v \in Ms!Party : shown[v] \subseteq shown'[v]
  BY <1>1, <1>2, <1>8, ChatAssumption DEF MsSends, MsInv, MsType
<1>14. \A c \in q.conv, v \in Ms!Party : row[c].exists => MsReading(q, c, v)'
  BY <1>8, <1>11
<1>15. \A s \in Request \ {r} : MsSent(s) /\ req[s].kind # "price" =>
          \A c \in req[s].conv : MsBelow(q, c, req[s].sent)
  BY <1>12
<1> QED
  <2>1. /\ req' = [req EXCEPT ![r] = q] /\ row' = row /\ messages' = messages /\ q \in MsRequest
        /\ clock' \in clock..MaxClock /\ shown' \in [Ms!Party -> SUBSET messages]
        /\ \A v \in Ms!Party : shown[v] \subseteq shown'[v]
        /\ q.now <= clock' /\ q.sent <= clock'
    BY <1>1, <1>8, <1>13
  <2>2. q.sent > 0 => FALSE
    BY <1>13
  <2>3. q.kind \in MsSends => FALSE
    BY <1>13
  <2> QED
    BY <1>9, <1>10, <1>14, <1>15, <2>1, <2>2, <2>3, MsReplaced

\* A conversation is looked up.
LEMMA MsOpenBegin == ASSUME MsInv, NEW r \in Request, Ms!OpenBegin(r) PROVE MsInv'
<1>a. PICK q : q = [Ms!NoRequest EXCEPT !.kind = "open"]
  OBVIOUS
<1>1. /\ q \in MsRequest /\ q.kind = "open" /\ q.conv = {} /\ q.sent = 0 /\ q.now = 0
      /\ \A c \in Conv : q.set[c] = Ms!NoRow /\ q.read[c] = Ms!NoRow
  BY <1>a, MsNoRequest DEF MsRequest, MsKinds
<1>2. /\ req' = [req EXCEPT ![r] = q]
      /\ row' = row /\ messages' = messages /\ clock' = clock /\ shown' = shown
  BY <1>a DEF Ms!OpenBegin
<1> QED
  BY <1>1, <1>2, MsNames

\* A starting process looks for redundant rows.
LEMMA MsCleanupBegin == ASSUME MsInv, NEW r \in Request, Ms!CleanupBegin(r) PROVE MsInv'
<1>a. PICK q : q = [Ms!NoRequest EXCEPT !.kind = "cleanup", !.conv = Ms!Redundant]
  OBVIOUS
<1>1. Ms!Redundant \in SUBSET Conv /\ \A c \in Ms!Redundant : row[c].exists
  BY DEF Ms!Redundant
<1>2. /\ q \in MsRequest /\ q.kind = "cleanup" /\ q.conv = Ms!Redundant
      /\ q.sent = 0 /\ q.now = 0
      /\ \A c \in Conv : q.set[c] = Ms!NoRow /\ q.read[c] = Ms!NoRow
  BY <1>a, <1>1, MsNoRequest DEF MsRequest, MsKinds
<1>3. /\ req' = [req EXCEPT ![r] = q]
      /\ row' = row /\ messages' = messages /\ clock' = clock /\ shown' = shown
  BY <1>a DEF Ms!CleanupBegin
<1> QED
  BY <1>1, <1>2, <1>3, MsNames

\* A request dies before its commit.
LEMMA MsRequestDies == ASSUME MsInv, NEW r \in Request, Ms!RequestDies(r) PROVE MsInv'
  BY MsEnds DEF Ms!RequestDies

-----------------------------------------------------------------------------
\* The commits: nothing is left of the request, and the others go on.
LEMMA MsCommits ==
  ASSUME MsInv, NEW r \in Request, req' = [req EXCEPT ![r] = Ms!NoRequest]
  PROVE  /\ req' \in [Request -> MsRequest]
         /\ \A s \in Request : s # r => req'[s] = req[s]
         /\ req'[r].conv = {} /\ req'[r].sent = 0 /\ req'[r].kind = "none"
         /\ \A s \in Request :
               /\ req'[s].now <= clock /\ req'[s].sent <= clock
               /\ \A c \in Conv : MsPast(req'[s].read[c], clock) /\ MsPast(req'[s].set[c], clock)
<1>1. clock \in Nat
  BY ChatAssumption DEF MsInv, MsType, Ms!TypeOK
<1>2. req' \in [Request -> MsRequest] /\ req'[r] = Ms!NoRequest
      /\ \A s \in Request : s # r => req'[s] = req[s]
  BY MsNoRequest DEF MsInv, MsType
<1>3. /\ Ms!NoRequest.now <= clock /\ Ms!NoRequest.sent <= clock
      /\ \A c \in Conv : MsPast(Ms!NoRequest.read[c], clock) /\ MsPast(Ms!NoRequest.set[c], clock)
  BY <1>1, MsNoRequest, MsNoRow DEF MsPast
<1>4. ASSUME NEW s \in Request
      PROVE  /\ req'[s].now <= clock /\ req'[s].sent <= clock
             /\ \A c \in Conv : MsPast(req'[s].read[c], clock) /\ MsPast(req'[s].set[c], clock)
  <2>1. CASE s = r
    BY <1>2, <1>3, <2>1
  <2>2. CASE s # r
    BY <1>2, <2>2 DEF MsInv, MsTimes
  <2> QED
    BY <2>1, <2>2
<1> QED
  BY <1>2, <1>4, MsNoRequest

\* A row that is written holds what was there, or what was to be written.
LEMMA MsWrittenRow ==
  ASSUME MsInv, NEW r \in Request, NEW c \in Conv,
         NEW y, y = Ms!Written(r, c), NEW q, q = req[r]
  PROVE  /\ y \in Ms!Conversation /\ y.exists = row[c].exists /\ y.gone = row[c].gone
         /\ y.lastAt \in {row[c].lastAt, q.set[c].lastAt}
         /\ MsPast(y, clock)
         /\ \A u \in Ms!Party :
               /\ y.unread[u] = IF q.set[c].unread[u] = q.read[c].unread[u]
                                THEN row[c].unread[u] ELSE q.set[c].unread[u]
               /\ y.readAt[u] = IF q.set[c].readAt[u] = q.read[c].readAt[u]
                                THEN row[c].readAt[u] ELSE q.set[c].readAt[u]
<1>1. LET z == Ms!Written(r, c)
          p == req[r]
      IN  /\ z \in Ms!Conversation /\ z.exists = row[c].exists /\ z.gone = row[c].gone
          /\ z.lastAt = IF p.set[c].lastAt = p.read[c].lastAt THEN row[c].lastAt
                        ELSE p.set[c].lastAt
          /\ \A u \in Ms!Party :
                /\ z.unread[u] = IF p.set[c].unread[u] = p.read[c].unread[u]
                                 THEN row[c].unread[u] ELSE p.set[c].unread[u]
                /\ z.readAt[u] = IF p.set[c].readAt[u] = p.read[c].readAt[u]
                                 THEN row[c].readAt[u] ELSE p.set[c].readAt[u]
  BY MsWritten DEF MsInv
<1>2. /\ y \in Ms!Conversation /\ y.exists = row[c].exists /\ y.gone = row[c].gone
      /\ y.lastAt \in {row[c].lastAt, q.set[c].lastAt}
      /\ \A u \in Ms!Party :
            /\ y.unread[u] = IF q.set[c].unread[u] = q.read[c].unread[u]
                             THEN row[c].unread[u] ELSE q.set[c].unread[u]
            /\ y.readAt[u] = IF q.set[c].readAt[u] = q.read[c].readAt[u]
                             THEN row[c].readAt[u] ELSE q.set[c].readAt[u]
  BY <1>1
<1>3. MsPast(row[c], clock) /\ MsPast(q.set[c], clock)
  BY DEF MsInv, MsTimes
<1>4. \A u \in Ms!Party : y.readAt[u] \in {row[c].readAt[u], q.set[c].readAt[u]}
  BY <1>2
<1>5. MsPast(y, clock)
  BY <1>2, <1>3, <1>4 DEF MsPast
<1> QED
  BY <1>2, <1>5

\* A read writes what it has changed.
LEMMA MsReadCommit == ASSUME MsInv, NEW r \in Request, Ms!ReadCommit(r) PROVE MsInv'
<1>a. PICK q : q = req[r]
  OBVIOUS
<1>1. /\ q.kind = "read" /\ req' = [req EXCEPT ![r] = Ms!NoRequest]
      /\ \A c \in q.conv : ~Ms!Locked(c)
      /\ row' = [c \in Conv |-> IF c \in q.conv /\ row[c].exists THEN Ms!Written(r, c) ELSE row[c]]
      /\ messages' = messages /\ clock' = clock /\ shown' = shown
  BY <1>a DEF Ms!ReadCommit
<1>2. /\ req' \in [Request -> MsRequest]
      /\ \A s \in Request : s # r => req'[s] = req[s]
      /\ req'[r].conv = {} /\ req'[r].sent = 0 /\ req'[r].kind = "none"
      /\ \A s \in Request :
            /\ req'[s].now <= clock /\ req'[s].sent <= clock
            /\ \A c \in Conv : MsPast(req'[s].read[c], clock) /\ MsPast(req'[s].set[c], clock)
  BY <1>1, MsCommits
<1>3. ASSUME NEW c \in Conv, ~(c \in q.conv /\ row[c].exists) PROVE row'[c] = row[c]
  BY <1>1, <1>3
<1>4. ASSUME NEW c \in q.conv, c \in Conv, row[c].exists
      PROVE  /\ row'[c] \in Ms!Conversation /\ row'[c].exists /\ row'[c].gone = row[c].gone
             /\ row'[c].lastAt \in {row[c].lastAt, q.set[c].lastAt}
             /\ MsPast(row'[c], clock)
             /\ \A u \in Ms!Party :
                   /\ row'[c].unread[u] = IF q.set[c].unread[u] = q.read[c].unread[u]
                                          THEN row[c].unread[u] ELSE q.set[c].unread[u]
                   /\ row'[c].readAt[u] = IF q.set[c].readAt[u] = q.read[c].readAt[u]
                                          THEN row[c].readAt[u] ELSE q.set[c].readAt[u]
  <2>a. PICK y : y = Ms!Written(r, c)
    OBVIOUS
  <2>1. row'[c] = y
    BY <1>1, <1>4, <2>a
  <2> QED
    BY <1>a, <1>4, <2>1, <2>a, MsWrittenRow
<1>5. \A c \in Conv : /\ row'[c] \in Ms!Conversation /\ MsPast(row'[c], clock)
                      /\ row'[c].exists = row[c].exists /\ row'[c].gone = row[c].gone
                      /\ row'[c] = row[c] \/ row[c].exists
  BY <1>3, <1>4 DEF MsInv, MsType, Ms!TypeOK, MsTimes, Ms!Conversation
<1>6. ASSUME NEW c \in q.conv, c \in Conv, row[c].exists, NEW u \in Ms!Party
      PROVE  MsReading(q, c, u)
  BY <1>a, <1>1, <1>6 DEF MsInv, MsReads
<1>7. \A c \in Conv, u \in Ms!Party :
         /\ row[c].readAt[u] \in Nat /\ row[c].unread[u] \in Nat
         /\ q.set[c].readAt[u] \in Nat /\ q.read[c].readAt[u] \in Nat
  BY <1>a DEF MsInv, MsType, Ms!TypeOK, MsRequest, Ms!Conversation
<1>8. \A c \in Conv, u \in Ms!Party : row'[c].readAt[u] = 0 => row[c].readAt[u] = 0
  BY <1>3, <1>4, <1>6, <1>7 DEF MsReading
<1>9. \A c \in Conv, u \in Ms!Party : Ms!In(c, u)' = Ms!In(c, u)
  BY <1>1 DEF Ms!In
<1>10. MsType'
  <2>1. row' \in [Conv -> Ms!Conversation]
    BY <1>1, <1>5
  <2> QED
    BY <1>1, <1>2, <2>1 DEF MsInv, MsType, Ms!TypeOK
<1>11. MsTimes'
  BY <1>1, <1>2, <1>5 DEF MsInv, MsTimes
<1>12. MsRows'
  <2>1. \A s \in Request : \A c \in req'[s].conv : c \in req[s].conv /\ c \in Conv
    BY <1>2 DEF MsInv, MsType, MsRequest
  <2>2. \A m \in messages : m.conv \in Conv
    BY DEF MsInv, MsType, MsMessage
  <2> QED
    BY <1>1, <1>5, <2>1, <2>2 DEF MsInv, MsRows
<1>13. \A s \in Request : MsSent(s)' => s # r /\ MsSent(s) /\ req'[s] = req[s] /\ req[s].conv \subseteq Conv
  BY <1>2 DEF MsSent, MsInv, MsType, MsRequest
<1>14. MsLocks'
  <2>1. \A s \in Request : MsSent(s)' => /\ req'[s].kind \in MsSends
                                         /\ \A c \in req'[s].conv : row'[c].exists
    BY <1>5, <1>13 DEF MsInv, MsLocks
  <2>2. \A s, x \in Request : s # x /\ MsSent(s)' /\ MsSent(x)' => req'[s].conv \cap req'[x].conv = {}
    BY <1>13 DEF MsInv, MsLocks
  <2> QED
    BY <2>1, <2>2 DEF MsLocks
<1>15. MsLatest'
  <2>1. ASSUME NEW s \in Request, MsSent(s)', req'[s].kind # "price", NEW c \in req'[s].conv
        PROVE  /\ MsLast(c, req[s].sent)'
               /\ \A x \in Request : MsBelow(req[x], c, req[s].sent)'
    <3>1. s # r /\ MsSent(s) /\ req'[s] = req[s] /\ c \in Conv
      BY <1>13, <2>1
    <3>2. c \notin q.conv
      BY <1>1, <2>1, <3>1 DEF Ms!Locked, MsSent
    <3>3. row'[c] = row[c]
      BY <1>3, <3>1, <3>2
    <3>4. MsLast(c, req[s].sent) /\ \A x \in Request : MsBelow(req[x], c, req[s].sent)
      BY <2>1, <3>1 DEF MsInv, MsLatest
    <3>5. MsLast(c, req[s].sent)'
      BY <1>1, <3>1, <3>3, <3>4 DEF MsLast
    <3>6. \A x \in Request : MsBelow(req[x], c, req[s].sent)'
      BY <1>2, <3>1, <3>4 DEF MsBelow
    <3> QED
      BY <3>5, <3>6
  <2> QED
    BY <2>1 DEF MsLatest
<1>16. MsUnread'
  <2>1. ASSUME NEW c \in Conv, NEW u \in Ms!Party
        PROVE  /\ row'[c].readAt[u] = 0 /\ Ms!In(c, u) # {} => row'[c].unread[u] > 0
               /\ row'[c].unread[u] > 0 => Ms!In(c, u) # {}
    <3>1. CASE ~(c \in q.conv /\ row[c].exists)
      BY <1>3, <3>1 DEF MsInv, MsUnread
    <3>2. CASE c \in q.conv /\ row[c].exists
      <4>1. MsReading(q, c, u)
        BY <1>6, <3>2
      <4>2. CASE q.set[c].unread[u] = q.read[c].unread[u]
        <5>1. row'[c].unread[u] = row[c].unread[u]
          BY <1>4, <3>2, <4>2
        <5> QED
          BY <1>8, <5>1 DEF MsInv, MsUnread
      <4>3. CASE q.set[c].unread[u] # q.read[c].unread[u]
        <5>1. Ms!In(c, u) # {} /\ q.set[c].readAt[u] > 0
          BY <4>1, <4>3 DEF MsReading
        <5>2. row'[c].readAt[u] # 0
          BY <1>4, <1>7, <3>2, <4>1, <5>1 DEF MsReading
        <5> QED
          BY <5>1, <5>2
      <4> QED
        BY <4>2, <4>3
    <3> QED
      BY <3>1, <3>2
  <2> QED
    BY <1>9, <2>1 DEF MsUnread
<1>17. ASSUME NEW c \in Conv, NEW u \in Ms!Party, NEW t
       PROVE  MsSeen(c, u, t)' <=> MsSeen(c, u, t)
  BY <1>1, <1>9 DEF MsSeen
<1>18. MsReads'
  <2>1. ASSUME NEW s \in Request, req'[s].kind = "read", NEW c \in req'[s].conv, NEW u \in Ms!Party,
               row'[c].exists
        PROVE  MsReading(req[s], c, u)'
    <3>a. PICK p : p = req[s]
      OBVIOUS
    <3>1. s # r /\ req'[s] = p /\ c \in Conv /\ row[c].exists
      BY <1>2, <1>5, <2>1, <3>a DEF MsInv, MsType, MsRequest
    <3>2. MsReading(p, c, u)
      BY <2>1, <3>a, <3>1 DEF MsInv, MsReads
    <3>3. p.read[c].readAt[u] > 0 => row'[c].readAt[u] > 0
      <4>1. row'[c].readAt[u] \in Nat
        BY <1>5, <3>1 DEF Ms!Conversation
      <4> QED
        BY <1>7, <1>8, <3>1, <3>2, <4>1 DEF MsReading
    <3>4. MsReading(p, c, u)'
      BY <1>9, <1>17, <3>1, <3>2, <3>3 DEF MsReading
    <3> QED
      BY <3>1, <3>4
  <2> QED
    BY <2>1 DEF MsReads
<1>19. MsSendings'
  <2>1. ASSUME NEW s \in Request, req'[s].kind \in MsSends, NEW c \in req'[s].conv, row'[c].exists
        PROVE  MsSending(req[s], c, Ms!Other(req[s].by))'
    <3>1. s # r /\ req'[s] = req[s] /\ c \in Conv /\ row[c].exists /\ req[s].by \in Ms!Party
      BY <1>2, <1>5, <2>1 DEF MsSends, MsInv, MsType, MsRequest
    <3>2. MsSending(req[s], c, Ms!Other(req[s].by))
      BY <2>1, <3>1 DEF MsInv, MsSendings
    <3>3. PICK p, v : p = req[s] /\ v = Ms!Other(p.by) /\ v \in Ms!Party
      BY <3>1, MsParty
    <3>4. MsSending(p, c, v)'
      BY <1>9, <3>1, <3>2, <3>3 DEF MsSending
    <3>5. p = req'[s]
      BY <3>1, <3>3
    <3> QED
      BY <3>3, <3>4, <3>5
  <2> QED
    BY <2>1 DEF MsSendings
<1>20. MsAcked'
  <2>1. ASSUME NEW c \in Conv, NEW u \in Ms!Party PROVE MsSeen(c, u, row'[c].readAt[u])
    <3>1. MsSeen(c, u, row[c].readAt[u])
      BY DEF MsInv, MsAcked
    <3>2. CASE row'[c].readAt[u] = row[c].readAt[u]
      BY <3>1, <3>2
    <3>3. CASE row'[c].readAt[u] # row[c].readAt[u]
      BY <1>3, <1>4, <1>6, <3>3 DEF MsReading
    <3> QED
      BY <3>2, <3>3
  <2>2. ASSUME NEW c \in Conv, NEW u \in Ms!Party PROVE MsSeen(c, u, row[c].readAt[u])'
    <3>1. PICK t : t = row'[c].readAt[u]
      OBVIOUS
    <3>2. MsSeen(c, u, t)'
      BY <1>17, <2>1, <3>1
    <3> QED
      BY <3>1, <3>2
  <2> QED
    BY <2>2 DEF MsAcked
<1> QED
  BY <1>10, <1>11, <1>12, <1>14, <1>15, <1>16, <1>18, <1>19, <1>20 DEF MsInv

\* A message becomes visible: it is later than every watermark that is there or
\* about to be written.
LEMMA MsSendCommit == ASSUME MsInv, NEW r \in Request, Ms!SendCommit(r) PROVE MsInv'
<1>a. PICK q, u : q = req[r] /\ u = Ms!Other(q.by)
  OBVIOUS
<1>b. PICK new : new = {[conv |-> c, by |-> q.by, at |-> q.sent, kind |-> q.kind] : c \in q.conv}
  OBVIOUS
<1>1. /\ q.sent > 0 /\ req' = [req EXCEPT ![r] = Ms!NoRequest]
      /\ row' = [c \in Conv |-> IF c \in q.conv THEN Ms!Written(r, c) ELSE row[c]]
      /\ messages' = messages \cup new /\ clock' = clock /\ shown' = shown
  BY <1>a, <1>b DEF Ms!SendCommit
<1>2. /\ req' \in [Request -> MsRequest]
      /\ \A s \in Request : s # r => req'[s] = req[s]
      /\ req'[r].conv = {} /\ req'[r].sent = 0 /\ req'[r].kind = "none"
      /\ \A s \in Request :
            /\ req'[s].now <= clock /\ req'[s].sent <= clock
            /\ \A c \in Conv : MsPast(req'[s].read[c], clock) /\ MsPast(req'[s].set[c], clock)
  BY <1>1, MsCommits
<1>3. /\ q \in MsRequest /\ q.kind \in MsSends /\ q.conv \subseteq Conv
      /\ q.sent \in 1..MaxClock /\ q.sent <= clock
      /\ q.by \in Ms!Party /\ u \in Ms!Party /\ q.by # u /\ Ms!Other(u) = q.by
      /\ \A c \in q.conv : row[c].exists
  <2>1. q \in MsRequest /\ MsSent(r)
    BY <1>a, <1>1 DEF MsInv, MsType, MsSent
  <2>2. q.by \in Ms!Party /\ q.sent \in 0..MaxClock /\ q.conv \subseteq Conv
    BY <2>1 DEF MsRequest
  <2>3. q.sent \in 1..MaxClock
    BY <1>1, <2>2, ChatAssumption
  <2> QED
    BY <1>a, <2>1, <2>2, <2>3, MsParty DEF MsInv, MsLocks, MsTimes
<1>4. ASSUME NEW c \in q.conv PROVE MsSending(q, c, u)
  BY <1>a, <1>3 DEF MsInv, MsSendings
<1>5. \A c \in Conv : c \notin q.conv => row'[c] = row[c]
  BY <1>1
<1>6. ASSUME NEW c \in q.conv
      PROVE  /\ c \in Conv /\ row'[c] \in Ms!Conversation
             /\ row'[c].exists = row[c].exists /\ row'[c].gone = row[c].gone
             /\ MsPast(row'[c], clock)
             /\ row'[c].unread[u] \in {row[c].unread[u], q.set[c].unread[u]}
             /\ row'[c].unread[u] = row[c].unread[u] => q.set[c].unread[u] = q.read[c].unread[u]
                                                          \/ row[c].unread[u] = q.set[c].unread[u]
             /\ \A v \in Ms!Party : v # u => row'[c].unread[v] = row[c].unread[v]
             /\ \A v \in Ms!Party : row'[c].readAt[v] = row[c].readAt[v]
  <2>a. PICK y : y = Ms!Written(r, c)
    OBVIOUS
  <2>1. row'[c] = y /\ c \in Conv
    BY <1>1, <1>3, <2>a
  <2>2. /\ q.set[c].readAt = q.read[c].readAt
        /\ \A v \in Ms!Party : v # u => q.set[c].unread[v] = q.read[c].unread[v]
    BY <1>1, <1>4 DEF MsSending
  <2>3. /\ y \in Ms!Conversation /\ y.exists = row[c].exists /\ y.gone = row[c].gone
        /\ MsPast(y, clock)
        /\ \A v \in Ms!Party :
              /\ y.unread[v] = IF q.set[c].unread[v] = q.read[c].unread[v]
                               THEN row[c].unread[v] ELSE q.set[c].unread[v]
              /\ y.readAt[v] = IF q.set[c].readAt[v] = q.read[c].readAt[v]
                               THEN row[c].readAt[v] ELSE q.set[c].readAt[v]
    BY <1>a, <2>1, <2>a, MsWrittenRow
  <2>4. /\ y.unread[u] \in {row[c].unread[u], q.set[c].unread[u]}
        /\ y.unread[u] = row[c].unread[u] => q.set[c].unread[u] = q.read[c].unread[u]
                                             \/ row[c].unread[u] = q.set[c].unread[u]
        /\ \A v \in Ms!Party : v # u => y.unread[v] = row[c].unread[v]
        /\ \A v \in Ms!Party : y.readAt[v] = row[c].readAt[v]
    BY <1>3, <2>2, <2>3
  <2> QED
    BY <2>1, <2>3, <2>4
<1>7. \A c \in Conv : /\ row'[c] \in Ms!Conversation /\ MsPast(row'[c], clock)
                      /\ row'[c].exists = row[c].exists /\ row'[c].gone = row[c].gone
                      /\ row'[c] = row[c] \/ row[c].exists
                      /\ \A v \in Ms!Party : row'[c].readAt[v] = row[c].readAt[v]
  BY <1>3, <1>5, <1>6 DEF MsInv, MsType, Ms!TypeOK, MsTimes
<1>8. \A m \in new : /\ m \in MsMessage /\ m.conv \in q.conv /\ m.by = q.by
                     /\ m.at = q.sent /\ m.kind = q.kind
  BY <1>b, <1>3 DEF MsMessage
<1>9. ASSUME NEW c \in Conv, NEW v \in Ms!Party
      PROVE  /\ Ms!In(c, v) \subseteq Ms!In(c, v)'
             /\ \A m \in Ms!In(c, v)' : m \in Ms!In(c, v) \/ (m \in new /\ c \in q.conv /\ v = u)
             /\ c \in q.conv => Ms!In(c, u)' # {}
  <2>1. Ms!In(c, v) \subseteq Ms!In(c, v)'
    BY <1>1 DEF Ms!In
  <2>2. ASSUME NEW m \in messages', m.conv = c, m.by = Ms!Other(v)
        PROVE  m \in Ms!In(c, v) \/ (m \in new /\ c \in q.conv /\ v = u)
    <3>1. CASE m \in messages
      BY <2>2, <3>1 DEF Ms!In
    <3>2. CASE m \in new
      <4>1. c \in q.conv /\ Ms!Other(v) = q.by
        BY <1>8, <2>2, <3>2
      <4>2. v = u
        BY <1>3, <4>1, MsParty
      <4> QED
        BY <3>2, <4>1, <4>2
    <3> QED
      BY <1>1, <3>1, <3>2
  <2>3. \A m \in Ms!In(c, v)' : m \in messages' /\ m.conv = c /\ m.by = Ms!Other(v)
    BY DEF Ms!In
  <2>4. ASSUME c \in q.conv PROVE Ms!In(c, u)' # {}
    <3>1. PICK m : m = [conv |-> c, by |-> q.by, at |-> q.sent, kind |-> q.kind]
      OBVIOUS
    <3>2. m \in messages' /\ m.conv = c /\ m.by = Ms!Other(u)
      BY <1>1, <1>b, <1>3, <2>4, <3>1
    <3>3. m \in Ms!In(c, u)'
      BY <3>2 DEF Ms!In
    <3> QED
      BY <3>3
  <2> QED
    BY <2>1, <2>2, <2>3, <2>4
<1>10. MsType'
  <2>1. row' \in [Conv -> Ms!Conversation]
    BY <1>1, <1>7
  <2>2. messages' \subseteq MsMessage /\ messages \subseteq messages'
    BY <1>1, <1>8 DEF MsInv, MsType
  <2>3. IsFiniteSet(messages')
    <3>1. IsFiniteSet(q.conv)
      BY <1>3, FS_Subset, ChatAssumption
    <3> DEFINE f == [c \in q.conv |->
                       [conv |-> c, by |-> q.by, at |-> q.sent, kind |-> q.kind]]
    <3>2. f \in Surjection(q.conv, new)
      BY <1>b DEF Surjection
    <3>3. IsFiniteSet(new)
      BY <3>1, <3>2, FS_Surjection
    <3>4. IsFiniteSet(messages)
      BY DEF MsInv, MsType
    <3> QED
      BY <1>1, <3>3, <3>4, FS_Union
  <2>4. shown' \in [Ms!Party -> SUBSET messages']
    BY <1>1, <2>2 DEF MsInv, MsType
  <2>5. clock' \in 1..MaxClock
    BY <1>1 DEF MsInv, MsType, Ms!TypeOK
  <2> QED
    BY <1>2, <2>1, <2>2, <2>3, <2>4, <2>5 DEF MsType, Ms!TypeOK
<1>11. MsTimes'
  <2>1. \A m \in messages' : m.at <= clock
    BY <1>1, <1>3, <1>8 DEF MsInv, MsTimes
  <2> QED
    BY <1>1, <1>2, <1>7, <2>1 DEF MsTimes
<1>12. MsRows'
  <2>1. \A s \in Request : \A c \in req'[s].conv : c \in req[s].conv /\ c \in Conv
    BY <1>2 DEF MsInv, MsType, MsRequest
  <2>2. \A m \in messages' : m.conv \in Conv /\ row[m.conv].exists
    BY <1>1, <1>3, <1>8 DEF MsInv, MsType, MsMessage, MsRows
  <2> QED
    BY <1>7, <2>1, <2>2 DEF MsInv, MsRows
<1>13. \A s \in Request : MsSent(s)' => s # r /\ MsSent(s) /\ req'[s] = req[s] /\ req[s].conv \subseteq Conv
  BY <1>2 DEF MsSent, MsInv, MsType, MsRequest
<1>14. MsLocks'
  <2>1. \A s \in Request : MsSent(s)' => /\ req'[s].kind \in MsSends
                                         /\ \A c \in req'[s].conv : row'[c].exists
    BY <1>7, <1>13 DEF MsInv, MsLocks
  <2>2. \A s, x \in Request : s # x /\ MsSent(s)' /\ MsSent(x)' => req'[s].conv \cap req'[x].conv = {}
    BY <1>13 DEF MsInv, MsLocks
  <2> QED
    BY <2>1, <2>2 DEF MsLocks
<1>15. MsLatest'
  <2>1. ASSUME NEW s \in Request, MsSent(s)', req'[s].kind # "price", NEW c \in req'[s].conv
        PROVE  /\ MsLast(c, req[s].sent)'
               /\ \A x \in Request : MsBelow(req[x], c, req[s].sent)'
    <3>1. s # r /\ MsSent(s) /\ req'[s] = req[s] /\ c \in Conv
      BY <1>13, <2>1
    <3>2. c \notin q.conv
      BY <1>a, <1>1, <2>1, <3>1 DEF MsInv, MsLocks, MsSent
    <3>3. row'[c] = row[c] /\ \A m \in messages' : m.conv = c => m \in messages
      BY <1>1, <1>5, <1>8, <3>1, <3>2
    <3>4. MsLast(c, req[s].sent) /\ \A x \in Request : MsBelow(req[x], c, req[s].sent)
      BY <2>1, <3>1 DEF MsInv, MsLatest
    <3>5. MsLast(c, req[s].sent)'
      BY <3>1, <3>3, <3>4 DEF MsLast
    <3>6. \A x \in Request : MsBelow(req[x], c, req[s].sent)'
      BY <1>2, <3>1, <3>4 DEF MsBelow
    <3> QED
      BY <3>5, <3>6
  <2> QED
    BY <2>1 DEF MsLatest
<1>16. \A c \in Conv, v \in Ms!Party :
          /\ row[c].readAt[v] \in Nat /\ row[c].unread[v] \in Nat
          /\ q.set[c].unread[v] \in Nat /\ q.read[c].unread[v] \in Nat
  BY <1>3 DEF MsInv, MsType, Ms!TypeOK, MsRequest, Ms!Conversation
<1>17. MsUnread'
  <2>1. ASSUME NEW c \in Conv, NEW v \in Ms!Party
        PROVE  /\ row'[c].readAt[v] = 0 /\ Ms!In(c, v)' # {} => row'[c].unread[v] > 0
               /\ row'[c].unread[v] > 0 => Ms!In(c, v)' # {}
    <3>1. CASE ~(c \in q.conv /\ v = u)
      <4>1. Ms!In(c, v)' = Ms!In(c, v)
        BY <1>9, <3>1
      <4>2. row'[c].unread[v] = row[c].unread[v] /\ row'[c].readAt[v] = row[c].readAt[v]
        BY <1>5, <1>6, <3>1
      <4> QED
        BY <4>1, <4>2 DEF MsInv, MsUnread
    <3>2. CASE c \in q.conv /\ v = u
      <4>1. Ms!In(c, u)' # {}
        BY <1>9, <3>2
      <4>2. MsSending(q, c, u)
        BY <1>4, <3>2
      <4>3. row'[c].readAt[u] = 0 => row'[c].unread[u] > 0
        <5>1. CASE row'[c].unread[u] = q.set[c].unread[u]
          BY <1>1, <4>2, <5>1 DEF MsSending
        <5>2. CASE row'[c].unread[u] # q.set[c].unread[u]
          <6>1. row'[c].unread[u] = row[c].unread[u] /\ q.set[c].unread[u] = q.read[c].unread[u]
            BY <1>6, <3>2, <5>2
          <6>2. Ms!In(c, u) # {}
            BY <1>1, <4>2, <6>1 DEF MsSending
          <6> QED
            BY <1>7, <3>2, <6>1, <6>2 DEF MsInv, MsUnread
        <5> QED
          BY <5>1, <5>2
      <4> QED
        BY <3>2, <4>1, <4>3
    <3> QED
      BY <3>1, <3>2
  <2> QED
    BY <2>1 DEF MsUnread
<1>18. ASSUME NEW c \in Conv, NEW v \in Ms!Party, NEW t, MsSeen(c, v, t),
              c \in q.conv /\ q.kind # "price" => ~(q.sent <= t)
       PROVE  MsSeen(c, v, t)'
  <2>1. \A m \in Ms!In(c, v)' : m.kind # "price" /\ m.at <= t => m \in Ms!In(c, v)
    BY <1>8, <1>9, <1>18
  <2> QED
    BY <1>1, <1>18, <2>1 DEF MsSeen
<1>19. MsReads'
  <2>1. ASSUME NEW s \in Request, req'[s].kind = "read", NEW c \in req'[s].conv, NEW v \in Ms!Party,
               row'[c].exists
        PROVE  MsReading(req[s], c, v)'
    <3>a. PICK p : p = req[s]
      OBVIOUS
    <3>1. s # r /\ req'[s] = p /\ c \in Conv /\ row[c].exists /\ p \in MsRequest
      BY <1>2, <1>7, <2>1, <3>a DEF MsInv, MsType, MsRequest
    <3>2. MsReading(p, c, v)
      BY <2>1, <3>a, <3>1 DEF MsInv, MsReads
    <3>3. c \in q.conv /\ q.kind # "price" => ~(q.sent <= p.set[c].readAt[v])
      <4>1. SUFFICES ASSUME c \in q.conv, q.kind # "price" PROVE p.set[c].readAt[v] < q.sent
        BY <1>3, <3>1 DEF MsRequest, Ms!Conversation
      <4>2. MsBelow(p, c, q.sent)
        BY <1>a, <1>1, <3>a, <4>1 DEF MsInv, MsLatest, MsSent
      <4> QED
        BY <2>1, <3>1, <4>2 DEF MsBelow
    <3>4. /\ row'[c].readAt[v] = row[c].readAt[v]
          /\ Ms!In(c, v) # {} => Ms!In(c, v)' # {}
          /\ MsSeen(c, v, p.set[c].readAt[v]) => MsSeen(c, v, p.set[c].readAt[v])'
      BY <1>7, <1>9, <1>18, <3>1, <3>3
    <3>5. MsReading(p, c, v)'
      BY <3>1, <3>2, <3>4 DEF MsReading
    <3> QED
      BY <3>1, <3>5
  <2> QED
    BY <2>1 DEF MsReads
<1>20. MsSendings'
  <2>1. ASSUME NEW s \in Request, req'[s].kind \in MsSends, NEW c \in req'[s].conv, row'[c].exists
        PROVE  MsSending(req[s], c, Ms!Other(req[s].by))'
    <3>1. s # r /\ req'[s] = req[s] /\ c \in Conv /\ row[c].exists /\ req[s].by \in Ms!Party
      BY <1>2, <1>7, <2>1 DEF MsSends, MsInv, MsType, MsRequest
    <3>2. MsSending(req[s], c, Ms!Other(req[s].by))
      BY <2>1, <3>1 DEF MsInv, MsSendings
    <3>3. PICK p, v : p = req[s] /\ v = Ms!Other(p.by) /\ v \in Ms!Party
      BY <3>1, MsParty
    <3>4. MsSending(p, c, v)'
      BY <1>9, <3>1, <3>2, <3>3 DEF MsSending
    <3>5. p = req'[s]
      BY <3>1, <3>3
    <3> QED
      BY <3>3, <3>4, <3>5
  <2> QED
    BY <2>1 DEF MsSendings
<1>21. MsAcked'
  <2>1. ASSUME NEW c \in Conv, NEW v \in Ms!Party PROVE MsSeen(c, v, row[c].readAt[v])'
    <3>1. PICK t \in Nat : t = row[c].readAt[v]
      BY <1>16
    <3>2. t = row'[c].readAt[v]
      BY <1>7, <3>1
    <3>3. MsSeen(c, v, t)
      BY <3>1 DEF MsInv, MsAcked
    <3>4. c \in q.conv /\ q.kind # "price" => ~(q.sent <= t)
      <4>1. SUFFICES ASSUME c \in q.conv, q.kind # "price" PROVE t < q.sent
        BY <1>3, <3>1
      <4>2. MsLast(c, q.sent)
        BY <1>a, <1>1, <4>1 DEF MsInv, MsLatest, MsSent
      <4> QED
        BY <3>1, <4>2 DEF MsLast
    <3>5. MsSeen(c, v, t)'
      BY <1>18, <3>3, <3>4
    <3> QED
      BY <3>2, <3>5
  <2> QED
    BY <2>1 DEF MsAcked
<1> QED
  BY <1>10, <1>11, <1>12, <1>14, <1>15, <1>17, <1>19, <1>20, <1>21 DEF MsInv

\* A new row is empty, and nobody knows it yet.
LEMMA MsOpenCommit == ASSUME MsInv, NEW r \in Request, Ms!OpenCommit(r) PROVE MsInv'
<1>1. PICK d \in Conv : /\ ~row[d].exists /\ ~row[d].gone
                        /\ row' = [row EXCEPT ![d].exists = TRUE]
  BY DEF Ms!OpenCommit
<1>2. /\ req' = [req EXCEPT ![r] = Ms!NoRequest]
      /\ messages' = messages /\ clock' = clock /\ shown' = shown
  BY DEF Ms!OpenCommit
<1>3. /\ req' \in [Request -> MsRequest]
      /\ \A s \in Request : s # r => req'[s] = req[s]
      /\ req'[r].conv = {} /\ req'[r].sent = 0 /\ req'[r].kind = "none"
      /\ \A s \in Request :
            /\ req'[s].now <= clock /\ req'[s].sent <= clock
            /\ \A c \in Conv : MsPast(req'[s].read[c], clock) /\ MsPast(req'[s].set[c], clock)
  BY <1>2, MsCommits
<1>4. /\ row' \in [Conv -> Ms!Conversation]
      /\ row'[d].exists /\ row'[d].gone = row[d].gone /\ row'[d].lastAt = row[d].lastAt
      /\ row'[d].unread = row[d].unread /\ row'[d].readAt = row[d].readAt
      /\ \A c \in Conv : c # d => row'[c] = row[c]
  <2>a. PICK x : x = [row[d] EXCEPT !.exists = TRUE]
    OBVIOUS
  <2>1. row[d] \in Ms!Conversation /\ row \in [Conv -> Ms!Conversation]
    BY DEF MsInv, MsType, Ms!TypeOK
  <2>2. row' = [row EXCEPT ![d] = x]
    BY <1>1, <2>a
  <2>3. /\ x \in Ms!Conversation /\ x.exists /\ x.gone = row[d].gone /\ x.lastAt = row[d].lastAt
        /\ x.unread = row[d].unread /\ x.readAt = row[d].readAt
    BY <2>a, <2>1 DEF Ms!Conversation
  <2> QED
    BY <2>1, <2>2, <2>3
<1>5. \A s \in Request : /\ req'[s].conv \subseteq req[s].conv /\ req[s].conv \subseteq Conv
                         /\ d \notin req[s].conv
                         /\ s # r \/ req'[s].conv = {}
  BY <1>1, <1>3 DEF MsInv, MsRows, MsType, MsRequest
<1>6. MsType'
  BY <1>2, <1>3, <1>4 DEF MsInv, MsType, Ms!TypeOK
<1>7. \A c \in Conv : /\ row'[c].lastAt = row[c].lastAt /\ row'[c].readAt = row[c].readAt
                      /\ row'[c].unread = row[c].unread /\ row'[c].gone = row[c].gone
                      /\ row[c].exists => row'[c].exists
  BY <1>4
<1>8. MsTimes'
  BY <1>2, <1>3, <1>7 DEF MsInv, MsTimes, MsPast
<1>9. MsRows'
  <2>1. \A m \in messages : m.conv \in Conv
    BY DEF MsInv, MsType, MsMessage
  <2>2. \A s \in Request : \A c \in req'[s].conv : c \in req[s].conv /\ c \in Conv
    BY <1>5
  <2>3. \A c \in Conv : row'[c].exists \/ row'[c].gone \/ row'[c].lastAt = 0
    BY <1>4 DEF MsInv, MsRows
  <2>4. \A m \in messages' : row'[m.conv].exists
    BY <1>2, <1>7, <2>1 DEF MsInv, MsRows
  <2>5. \A s \in Request : \A c \in req'[s].conv : row'[c].exists \/ row'[c].gone
    BY <1>4, <1>7, <2>2 DEF MsInv, MsRows
  <2> QED
    BY <2>3, <2>4, <2>5 DEF MsRows
<1>10. \A s \in Request : MsSent(s)' => s # r /\ MsSent(s) /\ req'[s] = req[s] /\ req[s].conv \subseteq Conv
  BY <1>3 DEF MsSent, MsInv, MsType, MsRequest
<1>11. MsLocks'
  <2>1. \A s \in Request : MsSent(s)' => /\ req'[s].kind \in MsSends
                                         /\ \A c \in req'[s].conv : row'[c].exists
    BY <1>7, <1>10 DEF MsInv, MsLocks
  <2>2. \A s, x \in Request : s # x /\ MsSent(s)' /\ MsSent(x)' => req'[s].conv \cap req'[x].conv = {}
    BY <1>10 DEF MsInv, MsLocks
  <2> QED
    BY <2>1, <2>2 DEF MsLocks
<1>12. MsLatest'
  <2>1. ASSUME NEW s \in Request, MsSent(s)', req'[s].kind # "price", NEW c \in req'[s].conv
        PROVE  /\ MsLast(c, req[s].sent)'
               /\ \A x \in Request : MsBelow(req[x], c, req[s].sent)'
    <3>1. MsSent(s) /\ req'[s] = req[s] /\ c \in Conv
      BY <1>10, <2>1
    <3>2. MsLast(c, req[s].sent) /\ \A x \in Request : MsBelow(req[x], c, req[s].sent)
      BY <2>1, <3>1 DEF MsInv, MsLatest
    <3>3. MsLast(c, req[s].sent)'
      BY <1>2, <1>7, <3>1, <3>2 DEF MsLast
    <3>4. \A x \in Request : MsBelow(req[x], c, req[s].sent)'
      BY <1>3, <3>1, <3>2 DEF MsBelow
    <3> QED
      BY <3>3, <3>4
  <2> QED
    BY <2>1 DEF MsLatest
<1>13. MsUnread'
  BY <1>2, <1>7 DEF MsInv, MsUnread, Ms!In
<1>14. MsReads'
  <2>1. ASSUME NEW s \in Request, req'[s].kind = "read", NEW c \in req'[s].conv, NEW u \in Ms!Party,
               row'[c].exists
        PROVE  MsReading(req[s], c, u)'
    <3>a. PICK p : p = req[s]
      OBVIOUS
    <3>1. req'[s] = p /\ c \in Conv /\ row'[c] = row[c] /\ c \in p.conv
      BY <1>3, <1>4, <1>5, <2>1, <3>a
    <3>2. MsReading(p, c, u)
      BY <2>1, <3>a, <3>1 DEF MsInv, MsReads
    <3>3. MsReading(p, c, u)'
      BY <1>2, <3>1, <3>2 DEF MsReading, MsSeen, Ms!In
    <3> QED
      BY <3>1, <3>3
  <2> QED
    BY <2>1 DEF MsReads
<1>15. MsSendings'
  <2>1. ASSUME NEW s \in Request, req'[s].kind \in MsSends, NEW c \in req'[s].conv, row'[c].exists
        PROVE  MsSending(req[s], c, Ms!Other(req[s].by))'
    <3>1. req'[s] = req[s] /\ c \in Conv /\ row'[c] = row[c] /\ c \in req[s].conv
      BY <1>3, <1>4, <1>5, <2>1
    <3>2. MsSending(req[s], c, Ms!Other(req[s].by))
      BY <2>1, <3>1 DEF MsInv, MsSendings
    <3> QED
      BY <1>2, <3>1, <3>2 DEF MsSending, Ms!In
  <2> QED
    BY <2>1 DEF MsSendings
<1>16. MsAcked'
  BY <1>2, <1>7 DEF MsInv, MsAcked, MsSeen, Ms!In
<1> QED
  BY <1>6, <1>8, <1>9, <1>11, <1>12, <1>13, <1>14, <1>15, <1>16 DEF MsInv

\* Redundant rows are removed with their messages.
LEMMA MsCleanupCommit == ASSUME MsInv, NEW r \in Request, Ms!CleanupCommit(r) PROVE MsInv'
<1>a. PICK C, x : C = req[r].conv /\ x = [Ms!NoRow EXCEPT !.gone = TRUE]
  OBVIOUS
<1>1. /\ req[r].kind = "cleanup" /\ req' = [req EXCEPT ![r] = Ms!NoRequest]
      /\ \A c \in C : ~Ms!Locked(c)
      /\ row' = [c \in Conv |-> IF c \in C THEN x ELSE row[c]]
      /\ messages' = {m \in messages : m.conv \notin C}
      /\ shown' = [u \in Ms!Party |-> {m \in shown[u] : m.conv \notin C}]
      /\ clock' = clock
  BY <1>a DEF Ms!CleanupCommit
<1>2. /\ req' \in [Request -> MsRequest]
      /\ \A s \in Request : s # r => req'[s] = req[s]
      /\ req'[r].conv = {} /\ req'[r].sent = 0 /\ req'[r].kind = "none"
      /\ \A s \in Request :
            /\ req'[s].now <= clock /\ req'[s].sent <= clock
            /\ \A c \in Conv : MsPast(req'[s].read[c], clock) /\ MsPast(req'[s].set[c], clock)
  BY <1>1, MsCommits
<1>3. /\ x \in Ms!Conversation /\ ~x.exists /\ x.gone /\ x.lastAt = 0
      /\ \A u \in Ms!Party : x.unread[u] = 0 /\ x.readAt[u] = 0
  BY <1>a, MsNoRow DEF Ms!NoRow, Ms!Conversation
<1>4. \A c \in Conv : row'[c] = IF c \in C THEN x ELSE row[c]
  BY <1>1
<1>5. ASSUME NEW c \in Conv, NEW u \in Ms!Party
      PROVE  /\ c \in C => Ms!In(c, u)' = {}
             /\ c \notin C => Ms!In(c, u)' = Ms!In(c, u)
  BY <1>1 DEF Ms!In
<1>6. MsType'
  <2>1. row' \in [Conv -> Ms!Conversation]
    BY <1>1, <1>3 DEF MsInv, MsType, Ms!TypeOK
  <2>2. messages' \subseteq messages /\ IsFiniteSet(messages')
    BY <1>1, FS_Subset DEF MsInv, MsType
  <2>3. shown' \in [Ms!Party -> SUBSET messages']
    BY <1>1 DEF MsInv, MsType
  <2> QED
    BY <1>1, <1>2, <2>1, <2>2, <2>3 DEF MsInv, MsType, Ms!TypeOK
<1>7. MsTimes'
  <2>1. MsPast(x, clock)
    BY <1>3, ChatAssumption DEF MsPast, MsInv, MsType, Ms!TypeOK
  <2>2. \A c \in Conv : MsPast(row'[c], clock)
    BY <1>4, <2>1 DEF MsInv, MsTimes
  <2> QED
    BY <1>1, <1>2, <2>2 DEF MsInv, MsTimes
<1>8. MsRows'
  <2>1. \A s \in Request : \A c \in req'[s].conv : c \in req[s].conv /\ c \in Conv
    BY <1>2 DEF MsInv, MsType, MsRequest
  <2>2. \A m \in messages' : m \in messages /\ m.conv \in Conv /\ m.conv \notin C
    BY <1>1 DEF MsInv, MsType, MsMessage
  <2> QED
    BY <1>3, <1>4, <2>1, <2>2 DEF MsInv, MsRows
<1>9. \A s \in Request : MsSent(s)' =>
         /\ s # r /\ MsSent(s) /\ req'[s] = req[s]
         /\ \A c \in req[s].conv : c \in Conv /\ c \notin C
  <2>1. ASSUME NEW s \in Request, MsSent(s)'
        PROVE  s # r /\ MsSent(s) /\ req'[s] = req[s] /\ req[s].conv \subseteq Conv
    BY <1>2, <2>1 DEF MsSent, MsInv, MsType, MsRequest
  <2> QED
    BY <1>1, <2>1 DEF Ms!Locked, MsSent
<1>10. MsLocks'
  <2>1. \A s \in Request : MsSent(s)' => /\ req'[s].kind \in MsSends
                                         /\ \A c \in req'[s].conv : row'[c].exists
    BY <1>4, <1>9 DEF MsInv, MsLocks
  <2>2. \A s, y \in Request : s # y /\ MsSent(s)' /\ MsSent(y)' => req'[s].conv \cap req'[y].conv = {}
    BY <1>9 DEF MsInv, MsLocks
  <2> QED
    BY <2>1, <2>2 DEF MsLocks
<1>11. MsLatest'
  <2>1. ASSUME NEW s \in Request, MsSent(s)', req'[s].kind # "price", NEW c \in req'[s].conv
        PROVE  /\ MsLast(c, req[s].sent)'
               /\ \A y \in Request : MsBelow(req[y], c, req[s].sent)'
    <3>1. MsSent(s) /\ req'[s] = req[s] /\ c \in Conv /\ c \notin C
      BY <1>9, <2>1
    <3>2. MsLast(c, req[s].sent) /\ \A y \in Request : MsBelow(req[y], c, req[s].sent)
      BY <2>1, <3>1 DEF MsInv, MsLatest
    <3>3. MsLast(c, req[s].sent)'
      BY <1>1, <1>4, <3>1, <3>2 DEF MsLast
    <3>4. \A y \in Request : MsBelow(req[y], c, req[s].sent)'
      BY <1>2, <3>1, <3>2 DEF MsBelow
    <3> QED
      BY <3>3, <3>4
  <2> QED
    BY <2>1 DEF MsLatest
<1>12. MsUnread'
  <2>1. ASSUME NEW c \in Conv, NEW u \in Ms!Party
        PROVE  /\ row'[c].readAt[u] = 0 /\ Ms!In(c, u)' # {} => row'[c].unread[u] > 0
               /\ row'[c].unread[u] > 0 => Ms!In(c, u)' # {}
    <3>1. CASE c \in C
      BY <1>3, <1>4, <1>5, <3>1
    <3>2. CASE c \notin C
      BY <1>4, <1>5, <3>2 DEF MsInv, MsUnread
    <3> QED
      BY <3>1, <3>2
  <2> QED
    BY <2>1 DEF MsUnread
<1>13. ASSUME NEW c \in Conv, NEW u \in Ms!Party, NEW t, c \notin C, MsSeen(c, u, t)
       PROVE  MsSeen(c, u, t)'
  <2>1. \A m \in Ms!In(c, u) : m.conv = c
    BY DEF Ms!In
  <2> QED
    BY <1>1, <1>5, <1>13, <2>1 DEF MsSeen
<1>14. MsReads'
  <2>1. ASSUME NEW s \in Request, req'[s].kind = "read", NEW c \in req'[s].conv, NEW u \in Ms!Party,
               row'[c].exists
        PROVE  MsReading(req[s], c, u)'
    <3>a. PICK p : p = req[s]
      OBVIOUS
    <3>1. req'[s] = p /\ c \in Conv /\ c \in p.conv
      BY <1>2, <2>1, <3>a DEF MsInv, MsType, MsRequest
    <3>2. c \notin C /\ row'[c] = row[c]
      BY <1>3, <1>4, <2>1, <3>1
    <3>3. MsReading(p, c, u)
      BY <2>1, <3>a, <3>1, <3>2 DEF MsInv, MsReads
    <3>4. MsSeen(c, u, p.set[c].readAt[u]) => MsSeen(c, u, p.set[c].readAt[u])'
      BY <1>13, <3>1, <3>2
    <3>5. MsReading(p, c, u)'
      BY <1>5, <3>1, <3>2, <3>3, <3>4 DEF MsReading
    <3> QED
      BY <3>1, <3>5
  <2> QED
    BY <2>1 DEF MsReads
<1>15. MsSendings'
  <2>1. ASSUME NEW s \in Request, req'[s].kind \in MsSends, NEW c \in req'[s].conv, row'[c].exists
        PROVE  MsSending(req[s], c, Ms!Other(req[s].by))'
    <3>1. s # r /\ req'[s] = req[s] /\ c \in Conv /\ req[s].by \in Ms!Party
      BY <1>2, <2>1 DEF MsSends, MsInv, MsType, MsRequest
    <3>2. c \notin C /\ row'[c] = row[c]
      BY <1>3, <1>4, <2>1, <3>1
    <3>3. MsSending(req[s], c, Ms!Other(req[s].by))
      BY <2>1, <3>1, <3>2 DEF MsInv, MsSendings
    <3>4. PICK p, v : p = req[s] /\ v = Ms!Other(p.by) /\ v \in Ms!Party
      BY <3>1, MsParty
    <3>5. MsSending(p, c, v)'
      BY <1>5, <3>1, <3>2, <3>3, <3>4 DEF MsSending
    <3>6. p = req'[s]
      BY <3>1, <3>4
    <3> QED
      BY <3>4, <3>5, <3>6
  <2> QED
    BY <2>1 DEF MsSendings
<1>16. MsAcked'
  <2>1. ASSUME NEW c \in Conv, NEW u \in Ms!Party PROVE MsSeen(c, u, row[c].readAt[u])'
    <3>1. PICK t : t = row'[c].readAt[u]
      OBVIOUS
    <3>2. CASE c \in C
      BY <1>5, <3>2 DEF MsSeen
    <3>3. CASE c \notin C
      <4>1. t = row[c].readAt[u]
        BY <1>4, <3>1, <3>3
      <4>2. MsSeen(c, u, t)'
        BY <1>13, <3>3, <4>1 DEF MsInv, MsAcked
      <4> QED
        BY <3>1, <4>2
    <3> QED
      BY <3>2, <3>3
  <2> QED
    BY <2>1 DEF MsAcked
<1> QED
  BY <1>6, <1>7, <1>8, <1>10, <1>11, <1>12, <1>14, <1>15, <1>16 DEF MsInv

\* To begin with there are no messages.
LEMMA MsInit == Ms!Init => MsInv
<1> SUFFICES ASSUME Ms!Init PROVE MsInv
  OBVIOUS
<1>1. /\ messages = {} /\ clock \in 1..MaxClock
      /\ req = [r \in Request |-> Ms!NoRequest] /\ shown = [u \in Ms!Party |-> {}]
  BY DEF Ms!Init
<1>2. \A y \in BOOLEAN :
         LET x == [Ms!NoRow EXCEPT !.exists = y]
         IN  /\ x \in Ms!Conversation /\ x.lastAt = 0
             /\ \A u \in Ms!Party : x.unread[u] = 0 /\ x.readAt[u] = 0
  BY MsNoRow DEF Ms!NoRow, Ms!Conversation
<1>3. /\ row \in [Conv -> Ms!Conversation]
      /\ \A c \in Conv : row[c].lastAt = 0
                         /\ \A u \in Ms!Party : row[c].unread[u] = 0 /\ row[c].readAt[u] = 0
  <2>1. CASE row = [c \in Conv |-> Ms!NoRow]
    BY <2>1, MsNoRow
  <2>2. CASE \E x \in Conv : row = [c \in Conv |-> [Ms!NoRow EXCEPT !.exists = c = x]]
    BY <1>2, <2>2
  <2> QED
    BY <2>1, <2>2 DEF Ms!Init
<1>4. \A r \in Request : req[r] = Ms!NoRequest
  BY <1>1
<1>5. clock \in Nat /\ \A c \in Conv : MsPast(Ms!NoRow, clock) /\ MsPast(row[c], clock)
  BY <1>1, <1>3, MsNoRow, ChatAssumption DEF MsPast
<1>6. MsType
  BY <1>1, <1>3, MsNoRequest, FS_EmptySet DEF MsType, Ms!TypeOK
<1>7. MsTimes
  BY <1>1, <1>4, <1>5, MsNoRequest DEF MsTimes
<1>8. MsRows /\ MsLocks /\ MsLatest /\ MsReads /\ MsSendings
  BY <1>1, <1>3, <1>4, MsNoRequest DEF MsRows, MsLocks, MsLatest, MsSent, MsReads, MsSendings, MsSends
<1>9. MsUnread /\ MsAcked
  BY <1>1, <1>3 DEF MsUnread, MsAcked, MsSeen, Ms!In
<1> QED
  BY <1>6, <1>7, <1>8, <1>9 DEF MsInv

\* Every step of Messages keeps the invariant.
LEMMA MsStep == MsInv /\ [Ms!Next]_(Ms!vars) => MsInv'
<1> SUFFICES ASSUME MsInv, [Ms!Next]_(Ms!vars) PROVE MsInv'
  OBVIOUS
<1>1. CASE UNCHANGED Ms!vars
  BY <1>1 DEF Ms!vars, MsInv, MsType, Ms!TypeOK, MsTimes, MsRows, MsLocks, MsLatest, MsSent, MsLast,
       MsUnread, MsReads, MsReading, MsSendings, MsSending, MsAcked, MsSeen, Ms!In
<1>2. CASE Ms!Next
  <2> PICK r \in Request :
         \/ \E u \in Ms!Party, C \in SUBSET Conv, k \in {"chat", "offer", "price"} :
               Ms!SendBegin(r, u, k, C)
         \/ Ms!SendFlush(r) \/ Ms!SendCommit(r)
         \/ \E u \in Ms!Party, c \in Conv, t \in {0} \cup {m.at : m \in messages} :
               Ms!ReadBegin(r, u, c, t)
         \/ Ms!ReadCommit(r) \/ Ms!OpenBegin(r) \/ Ms!OpenCommit(r)
         \/ Ms!BackfillBegin(r) \/ Ms!CleanupBegin(r) \/ Ms!CleanupCommit(r) \/ Ms!RequestDies(r)
    BY <1>2 DEF Ms!Next
  <2> QED
    BY MsSendBegin, MsSendFlush, MsSendCommit, MsReadBegin, MsReadCommit, MsOpenBegin, MsOpenCommit,
       MsBackfillBegin, MsCleanupBegin, MsCleanupCommit, MsRequestDies DEF MsSends
<1> QED
  BY <1>1, <1>2

\* The invariant, of the component when it is the one that runs.
MessagesHold == component = "messages" => MsInv

\* It holds in every state.
LEMMA MessagesInvariant == Spec => []MessagesHold
<1>1. Init => MessagesHold
  BY MsInit DEF Init, MessagesHold
<1>2. MessagesHold /\ [Next]_vars => MessagesHold'
  <2> SUFFICES ASSUME MessagesHold, [Next]_vars, component' = "messages" PROVE MsInv'
    BY DEF MessagesHold
  <2>1. CASE MessagesStep
    BY <2>1, MsStep DEF MessagesStep, MessagesHold
  <2>2. CASE UNCHANGED vars
    BY <2>2, MsStep DEF vars, msVars, Ms!vars, MessagesHold
  <2>3. CASE Next /\ ~MessagesStep
    BY <2>3 DEF Next, IdentitiesStep, SessionsStep, PhoneCodesStep, CouponsStep, OutboxStep,
       MediaStep, ListingsStep, PayoutsStep, SharingStep
  <2> QED
    BY <2>1, <2>2, <2>3
<1> QED
  BY <1>1, <1>2, PTL DEF Spec

\* AckedWasShown: the sender is told that a message was read only when it was there
\* for a read of the other party to find, whatever sends, reads, opens, cleans up
\* or starts at the same time (messages.py, messaging_read.py, main.py).  A price
\* notice, which has its time before it is inserted, is excepted.
THEOREM AcknowledgedWasShown == Spec => []AckedWasShown
<1>1. MessagesHold => AckedWasShown
  <2> SUFFICES ASSUME MsInv PROVE Ms!AckedWasShown
    BY DEF MessagesHold, AckedWasShown
  <2>1. ASSUME NEW m \in messages, m.kind # "price",
               m.at <= row[m.conv].readAt[Ms!Other(m.by)]
        PROVE  m \in shown[Ms!Other(m.by)]
    <3>1. m.conv \in Conv /\ m.by \in Ms!Party
      BY DEF MsInv, MsType, MsMessage
    <3>2. Ms!Other(m.by) \in Ms!Party /\ m \in Ms!In(m.conv, Ms!Other(m.by))
      BY <3>1, MsParty DEF Ms!In
    <3> QED
      BY <2>1, <3>1, <3>2 DEF MsInv, MsAcked, MsSeen
  <2> QED
    BY <2>1 DEF Ms!AckedWasShown
<1> QED
  BY <1>1, MessagesInvariant, PTL

-----------------------------------------------------------------------------
\* Uploads and the workers that process them.

\* What becomes of an upload session.
MeSessionStatus ==
    {"PENDING_UPLOAD", "UPLOADING", "UPLOADED", "UPLOAD_FAILED", "PROCESSING",
     "COMPLETED", "EXPIRED", "PROCESSING_FAILED"}

\* A worker that has taken the asset.
MeBusy(w) == worker[w].step # "idle"

\* What a worker has read and found.
MeWork ==
    [step : {"idle", "work", "commit"}, read : Me!MediaAsset,
     session : {"none"} \cup MeSessionStatus,
     outcome : {"none", "ready", "duplicate", "failed", "transient", "half"}]

\* What the request of the client is doing.
MeRequest ==
    [kind : {"none", "chunk", "finalize"}, offset : Nat, size : Nat, written : BOOLEAN,
     key : {"upload", "derived"}]

\* The blocks of the file that are there are its first ones.
MeFirst(n) == [b \in 1..n |-> b]

MeType ==
    /\ Me!TypeOK
    /\ worker \in [Worker -> MeWork]
    /\ store \in [{"upload", "derived"} -> Seq(1..Block)]
    /\ local \in BOOLEAN /\ overran \in BOOLEAN /\ torn \in BOOLEAN

\* While no lease ends under a worker: one worker at most has the asset, and no
\* decision about it is made meanwhile.
MeAlone ==
    /\ \A w \in Worker : MeBusy(w) =>
           /\ asset.leased /\ asset.status \notin {"READY", "REJECTED"}
           /\ worker[w].read.status = "PROCESSING"
           /\ worker[w].read.moderation = asset.moderation
    /\ \A v, w \in Worker : MeBusy(v) /\ MeBusy(w) => v = w
    /\ asset.status = "READY" => asset.moderation = "approved"

\* The staged file is a beginning of the client's; a chunk continues it, and what
\* is copied is all of it.
MeStaged ==
    /\ \E n \in 0..Block : part = MeFirst(n)
    /\ req \in MeRequest
    /\ req.kind = "chunk" =>
           /\ req.offset \in 0..Block /\ req.size \in 1..Block
           /\ req.offset + req.size <= Block
           /\ ~req.written => part = MeFirst(req.offset)
    /\ req.kind = "finalize" /\ ~req.written => part = MeFirst(Block)

\* An object is whole or is not there, but for the one that is being copied.
MeStored ==
    ~torn => \A k \in {"upload", "derived"} :
        store[k] \in {<<>>, Me!Whole} \/ (local /\ req.kind = "finalize" /\ ~req.written /\ req.key = k)

MeInv == MeType /\ (~overran => MeAlone) /\ MeStaged /\ MeStored

\* The first blocks are a sequence, and what continues it gives more of them.
LEMMA MeFirstBlocks ==
  ASSUME NEW n \in 0..Block
  PROVE  /\ MeFirst(n) \in Seq(1..Block) /\ Len(MeFirst(n)) = n
         /\ n = 0 => MeFirst(n) = <<>>
         /\ MeFirst(Block) = Me!Whole
<1>1. n \in Nat /\ MeFirst(n) \in [1..n -> 1..Block]
  BY MediaAssumption DEF MeFirst
<1>2. MeFirst(n) \in Seq(1..Block)
  BY <1>1, SeqDef
<1>3. Len(MeFirst(n)) = n
  BY <1>1, <1>2, LenProperties DEF MeFirst
<1>4. n = 0 => MeFirst(n) = <<>>
  BY <1>2, <1>3, EmptySeq
<1> QED
  BY <1>2, <1>3, <1>4 DEF MeFirst, Me!Whole

\* What continues the first blocks gives more of them.
LEMMA MeGrow ==
  ASSUME NEW o \in 0..Block, NEW k \in 1..Block, o + k <= Block
  PROVE  MeFirst(o) \o SubSeq(Me!Whole, o + 1, o + k) = MeFirst(o + k)
<1>1. /\ o \in Nat /\ k \in Nat /\ k > 0 /\ o + k \in 0..Block /\ Block \in Nat
      /\ Block \in 0..Block
  BY MediaAssumption
<1>2. /\ Me!Whole \in Seq(1..Block) /\ Len(Me!Whole) = Block
      /\ MeFirst(o) \in Seq(1..Block) /\ Len(MeFirst(o)) = o
      /\ MeFirst(o + k) \in Seq(1..Block) /\ Len(MeFirst(o + k)) = o + k
  BY <1>1, MeFirstBlocks
<1> DEFINE t == SubSeq(Me!Whole, o + 1, o + k)
<1>3. /\ t \in Seq(1..Block) /\ Len(t) = k
      /\ \A i \in 1..k : t[i] = Me!Whole[o + i]
  <2>1. PICK m \in Int, n \in Int : m = o + 1 /\ n = o + k
    BY <1>1
  <2>2. \A i \in m..n : Me!Whole[i] \in 1..Block
    BY <1>1, <2>1 DEF Me!Whole
  <2>3. /\ SubSeq(Me!Whole, m, n) \in Seq(1..Block)
        /\ Len(SubSeq(Me!Whole, m, n)) = IF m <= n THEN n - m + 1 ELSE 0
        /\ \A i \in 1..(n - m + 1) : SubSeq(Me!Whole, m, n)[i] = Me!Whole[m + i - 1]
    BY <2>2, SubSeqProperties
  <2>4. m <= n /\ n - m + 1 = k /\ \A i \in 1..k : m + i - 1 = o + i
    BY <1>1, <2>1
  <2> QED
    BY <2>1, <2>3, <2>4
<1> HIDE DEF t
<1>4. /\ MeFirst(o) \o t \in Seq(1..Block)
      /\ Len(MeFirst(o) \o t) = o + k
      /\ \A i \in 1..(o + k) : (MeFirst(o) \o t)[i] = IF i <= o THEN MeFirst(o)[i] ELSE t[i - o]
  <2>1. PICK s \in Seq(1..Block) : s = MeFirst(o)
    BY <1>2
  <2>2. /\ s \o t \in Seq(1..Block)
        /\ Len(s \o t) = Len(s) + Len(t)
        /\ \A i \in 1..(Len(s) + Len(t)) :
               (s \o t)[i] = IF i <= Len(s) THEN s[i] ELSE t[i - Len(s)]
    BY <1>3, ConcatProperties
  <2>3. Len(s) = o /\ Len(t) = k
    BY <1>2, <1>3, <2>1
  <2> QED
    BY <2>1, <2>2, <2>3
<1>5. \A i \in 1..(o + k) : (MeFirst(o) \o t)[i] = MeFirst(o + k)[i]
  <2> TAKE i \in 1..(o + k)
  <2>0. i \in 1..Block /\ MeFirst(o + k)[i] = i
    BY <1>1 DEF MeFirst
  <2>1. CASE i <= o
    <3>1. MeFirst(o)[i] = i
      BY <1>1, <2>1 DEF MeFirst
    <3> QED
      BY <1>4, <2>0, <2>1, <3>1
  <2>2. CASE ~(i <= o)
    <3>1. i - o \in 1..k /\ o + (i - o) = i
      BY <1>1, <2>2
    <3>2. t[i - o] = i
      BY <1>3, <2>0, <3>1 DEF Me!Whole
    <3> QED
      BY <1>4, <2>0, <2>2, <3>2
  <2> QED
    BY <2>1, <2>2
<1>6. MeFirst(o) \o t = MeFirst(o + k)
  BY <1>1, <1>2, <1>4, <1>5, SeqEqual
<1> QED
  BY <1>6 DEF t

\* To begin with nothing is uploaded.
LEMMA MeInit == Me!Init => MeInv
<1> SUFFICES ASSUME Me!Init PROVE MeInv
  OBVIOUS
<1>1. /\ Me!NewAsset \in Me!MediaAsset /\ Me!NewAsset.status = "PENDING_UPLOAD"
  BY MediaAssumption DEF Me!NewAsset, Me!MediaAsset
<1>2. Me!NoWork \in MeWork /\ Me!NoWork.step = "idle"
  BY <1>1 DEF Me!NoWork, MeWork
<1>3. upload \in Me!UploadSession
  BY DEF Me!Init, Me!UploadSession
<1>4. <<>> \in Seq(1..Block)
  BY EmptySeq
<1>5. MeType
  <2>1. worker \in [Worker -> MeWork] /\ store \in [{"upload", "derived"} -> Seq(1..Block)]
    BY <1>2, <1>4 DEF Me!Init
  <2>2. local \in BOOLEAN
    BY DEF Me!Init
  <2>3. overran \in BOOLEAN /\ torn \in BOOLEAN
    BY DEF Me!Init
  <2>4. Me!TypeOK
    BY <1>1, <1>3 DEF Me!TypeOK, Me!Init
  <2> QED
    BY <2>1, <2>2, <2>3, <2>4 DEF MeType
<1>6. MeAlone
  BY <1>1, <1>2 DEF MeAlone, MeBusy, Me!Init
<1>7. MeStaged
  <2>1. 0 \in 0..Block /\ part = MeFirst(0)
    BY MeFirstBlocks, MediaAssumption DEF Me!Init
  <2>2. req.kind = "none" /\ req \in MeRequest
    BY DEF Me!Init, Me!NoRequest, MeRequest
  <2> QED
    BY <2>1, <2>2 DEF MeStaged
<1>8. MeStored
  BY DEF MeStored, Me!Init
<1> QED
  BY <1>5, <1>6, <1>7, <1>8 DEF MeInv

\* A step that no worker takes and no decision is made in.
LEMMA MeUpload ==
  ASSUME MeInv, UNCHANGED <<worker, local, overran>>, torn' \in BOOLEAN,
         asset' \in Me!MediaAsset, upload' \in Me!UploadSession,
         store' \in [{"upload", "derived"} -> Seq(1..Block)],
         asset'.leased = asset.leased, asset'.moderation = asset.moderation,
         asset'.status = asset.status \/ asset'.status \notin {"READY", "REJECTED"},
         MeStaged', MeStored'
  PROVE  MeInv'
<1>1. MeType'
  BY DEF MeInv, MeType, Me!TypeOK, MeWork, Me!MediaAsset, Me!UploadSession, MeSessionStatus
<1>2. ~overran' => MeAlone'
  BY DEF MeInv, MeAlone, MeBusy
<1> QED
  BY <1>1, <1>2 DEF MeInv

\* The columns of the asset that uploading writes.
LEMMA MeAssetColumns ==
  ASSUME NEW a \in Me!MediaAsset
  PROVE  /\ \A s \in {"PENDING_UPLOAD", "UPLOADING", "UPLOADED", "UPLOAD_FAILED", "PROCESSING",
                      "READY", "REJECTED", "FAILED", "DELETED"} :
                /\ [a EXCEPT !.status = s] \in Me!MediaAsset
                /\ [a EXCEPT !.status = s].leased = a.leased
                /\ [a EXCEPT !.status = s].moderation = a.moderation
                /\ [a EXCEPT !.status = s].status = s
  BY DEF Me!MediaAsset

\* The columns that uploading writes stay typed.
LEMMA MeUploadColumns ==
  ASSUME NEW u \in Me!UploadSession
  PROVE  /\ \A s \in MeSessionStatus : [u EXCEPT !.status = s] \in Me!UploadSession
         /\ \A s \in MeSessionStatus, n \in Nat :
                [u EXCEPT !.bytes = n, !.status = s] \in Me!UploadSession
  BY DEF Me!UploadSession, MeSessionStatus

\* What the upload leaves alone.
LEMMA MeKept ==
  ASSUME MeInv
  PROVE  /\ UNCHANGED <<part, req>> => MeStaged'
         /\ UNCHANGED <<store, req, local, torn>> => MeStored'
         /\ store \in [{"upload", "derived"} -> Seq(1..Block)]
         /\ asset \in Me!MediaAsset /\ upload \in Me!UploadSession
         /\ torn \in BOOLEAN
         /\ Me!NoRequest.kind = "none" /\ Me!NoRequest \in MeRequest /\ ~Me!NoRequest.written
  BY DEF MeInv, MeType, Me!TypeOK, MeStaged, MeStored, Me!NoRequest, MeRequest, MeFirst, Me!Whole

\* The client puts the file.
LEMMA MeDirectPut == ASSUME MeInv, Me!DirectPut PROVE MeInv'
<1>1. /\ store' = [store EXCEPT !["upload"] = Me!Whole]
      /\ UNCHANGED <<upload, asset, part, req, local, worker, overran, torn>>
  BY DEF Me!DirectPut, Me!settings
<1>2. Me!Whole \in Seq(1..Block)
  BY MeFirstBlocks, MediaAssumption
<1>3. /\ store' \in [{"upload", "derived"} -> Seq(1..Block)]
      /\ store'["upload"] = Me!Whole /\ store'["derived"] = store["derived"]
  BY <1>1, <1>2, MeKept
<1>4. MeStored'
  BY <1>1, <1>3 DEF MeInv, MeStored, Me!Whole
<1>5. MeStaged'
  BY <1>1, MeKept
<1> QED
  BY <1>1, <1>3, <1>4, <1>5, MeKept, MeUpload

\* A chunk is let through, or the session is set to what is staged.
LEMMA MeChunkBegin ==
  ASSUME MeInv, NEW o \in 0..Block, NEW n \in 1..Block, Me!ChunkBegin(o, n)
  PROVE  MeInv'
<1>1. UNCHANGED <<part, store, worker, local, overran, torn>>
  BY DEF Me!ChunkBegin, Me!settings
<1>2. PICK k \in 0..Block : part = MeFirst(k)
  BY DEF MeInv, MeStaged
<1>3. Len(part) = k /\ k \in Nat
  BY <1>2, MeFirstBlocks, MediaAssumption
<1>4. CASE UNCHANGED req
  <2>1. MeStaged' /\ MeStored'
    BY <1>1, <1>4, MeKept
  <2>2. \/ UNCHANGED asset
        \/ \E s \in {"UPLOAD_FAILED", "UPLOADED", "UPLOADING"} :
               asset' = [asset EXCEPT !.status = s]
    BY <1>4 DEF Me!ChunkBegin
  <2>3. /\ asset' \in Me!MediaAsset
        /\ asset'.leased = asset.leased /\ asset'.moderation = asset.moderation
        /\ asset'.status = asset.status \/ asset'.status \notin {"READY", "REJECTED"}
    <3>1. asset \in Me!MediaAsset
      BY MeKept
    <3> QED
      BY <2>2, <3>1 DEF Me!MediaAsset
  <2>4. \/ UNCHANGED upload
        \/ \E s \in MeSessionStatus : upload' = [upload EXCEPT !.status = s]
        \/ \E s \in MeSessionStatus : upload' = [upload EXCEPT !.bytes = k, !.status = s]
    BY <1>3, <1>4 DEF Me!ChunkBegin, MeSessionStatus
  <2>5. upload' \in Me!UploadSession
    <3>1. upload \in Me!UploadSession
      BY MeKept
    <3> QED
      BY <1>3, <2>4, <3>1, MeUploadColumns
  <2> QED
    BY <1>1, <2>1, <2>3, <2>5, MeKept, MeUpload
<1>5. CASE ~UNCHANGED req
  <2>1. /\ UNCHANGED <<upload, asset>>
        /\ o = upload.bytes /\ Len(part) = upload.bytes /\ o + n <= Block
        /\ req' = [Me!NoRequest EXCEPT !.kind = "chunk", !.offset = o, !.size = n]
    BY <1>5 DEF Me!ChunkBegin, Me!OffsetFits
  <2>2. /\ req' \in MeRequest /\ req'.kind = "chunk" /\ ~req'.written
        /\ req'.offset = o /\ req'.size = n
    <3>1. o \in Nat /\ n \in Nat
      BY MediaAssumption
    <3> QED
      BY <2>1, <3>1, MeKept DEF MeRequest
  <2>3. part = MeFirst(o)
    BY <1>2, <1>3, <2>1
  <2>4. MeStaged'
    BY <1>1, <2>1, <2>2, <2>3 DEF MeStaged, MeFirst
  <2>5. Me!Unlocked
    BY DEF Me!ChunkBegin
  <2>6. MeStored'
    BY <1>1, <2>2, <2>5 DEF MeInv, MeStored, Me!Unlocked, Me!Whole
  <2> QED
    BY <1>1, <2>1, <2>4, <2>6, MeKept, MeUpload
<1> QED
  BY <1>4, <1>5

\* Blocks of the chunk are appended.
LEMMA MeChunkWrite == ASSUME MeInv, Me!ChunkWrite PROVE MeInv'
<1>1. /\ req.kind = "chunk" /\ ~req.written
      /\ UNCHANGED <<upload, asset, store, worker, local, overran, torn>>
  BY DEF Me!ChunkWrite, Me!settings
<1>2. PICK k \in 1..req.size :
        /\ part' = part \o SubSeq(Me!Whole, req.offset + 1, req.offset + k)
        /\ req' = IF k = req.size THEN [req EXCEPT !.written = TRUE] ELSE Me!NoRequest
  BY DEF Me!ChunkWrite
<1>3. /\ req.offset \in 0..Block /\ req.size \in 1..Block /\ req.offset + req.size <= Block
      /\ part = MeFirst(req.offset) /\ req \in MeRequest
  BY <1>1 DEF MeInv, MeStaged
<1>4. /\ k \in 1..Block /\ req.offset + k <= Block /\ req.offset + k \in 0..Block
  <2>1. PICK o \in 0..Block, n \in 1..Block : o = req.offset /\ n = req.size
    BY <1>3
  <2>2. k \in 1..n /\ o + n <= Block
    BY <1>2, <1>3, <2>1
  <2>3. k \in 1..Block /\ o + k <= Block /\ o + k \in 0..Block
    BY <2>1, <2>2, MediaAssumption
  <2> QED
    BY <2>1, <2>3
<1>5. part' = MeFirst(req.offset + k)
  BY <1>2, <1>3, <1>4, MeGrow
<1>6. \E n \in 0..Block : part' = MeFirst(n)
  BY <1>4, <1>5
<1>7. CASE k = req.size
  <2>1. req' = [req EXCEPT !.written = TRUE]
    BY <1>2, <1>7
  <2>2. PICK o \in 0..Block, n \in 1..Block : o = req.offset /\ n = req.size
    BY <1>3
  <2>3. /\ req'.kind = "chunk" /\ req'.written
        /\ req'.offset = o /\ req'.size = n /\ req' \in MeRequest
    BY <1>1, <1>3, <2>1, <2>2 DEF MeRequest
  <2>4. MeStaged'
    BY <1>3, <1>6, <2>1, <2>2, <2>3 DEF MeStaged, MeFirst
  <2>5. MeStored'
    BY <1>1, <2>1, <2>3 DEF MeInv, MeStored, Me!Whole
  <2> QED
    BY <1>1, <2>4, <2>5, MeKept, MeUpload
<1>8. CASE k # req.size
  <2>1. req' = Me!NoRequest
    BY <1>2, <1>8
  <2>2. MeStaged'
    BY <1>6, <2>1, MeKept DEF MeStaged, MeFirst
  <2>3. MeStored'
    BY <1>1, <2>1, MeKept DEF MeInv, MeStored, Me!Whole
  <2> QED
    BY <1>1, <2>2, <2>3, MeKept, MeUpload
<1> QED
  BY <1>7, <1>8

\* The chunk is counted.
LEMMA MeChunkCommit == ASSUME MeInv, Me!ChunkCommit PROVE MeInv'
<1>1. /\ req.kind = "chunk" /\ req.written /\ req' = Me!NoRequest
      /\ UNCHANGED <<part, store, worker, local, overran, torn>>
  BY DEF Me!ChunkCommit, Me!settings
<1>2. PICK n \in Nat : n = upload.bytes + req.size
  BY <1>1 DEF MeInv, MeType, MeStaged, Me!TypeOK, Me!UploadSession
<1>3. PICK s \in {"UPLOADED", "UPLOADING"} :
        /\ upload' = [upload EXCEPT !.bytes = n, !.status = s]
        /\ asset' = [asset EXCEPT !.status = s]
  BY <1>2 DEF Me!ChunkCommit
<1>4. /\ asset' \in Me!MediaAsset
      /\ asset'.leased = asset.leased /\ asset'.moderation = asset.moderation
      /\ asset'.status \notin {"READY", "REJECTED"}
  <2>1. asset \in Me!MediaAsset
    BY MeKept
  <2> QED
    BY <1>3, <2>1 DEF Me!MediaAsset
<1>5. upload' \in Me!UploadSession
  BY <1>3, MeKept, MeUploadColumns DEF MeSessionStatus
<1>6. MeStaged'
  BY <1>1, MeKept DEF MeInv, MeStaged, MeFirst
<1>7. MeStored'
  BY <1>1, MeKept DEF MeInv, MeStored, Me!Whole
<1> QED
  BY <1>1, <1>4, <1>5, <1>6, <1>7, MeKept, MeUpload

\* Nothing is committed.
LEMMA MeRequestDies == ASSUME MeInv, Me!RequestDies PROVE MeInv'
<1>1. /\ req' = Me!NoRequest /\ torn' = (torn \/ (local /\ req.kind = "finalize"))
      /\ UNCHANGED <<upload, asset, part, store, worker, local, overran>>
  BY DEF Me!RequestDies, Me!settings
<1>2. torn' \in BOOLEAN
  BY <1>1 DEF MeInv, MeType
<1>3. MeStaged'
  BY <1>1, MeKept DEF MeInv, MeStaged, MeFirst
<1>4. MeStored'
  BY <1>1, MeKept DEF MeInv, MeStored, Me!Whole
<1> QED
  BY <1>1, <1>2, <1>3, <1>4, MeKept, MeUpload

\* The staged file is about to be copied; to a directory this takes a while.
LEMMA MeFinalizeBegin == ASSUME MeInv, Me!FinalizeBegin PROVE MeInv'
<1>1. /\ Me!Unlocked /\ Len(part) = Block
      /\ req' = [Me!NoRequest EXCEPT !.kind = "finalize", !.key = asset.key]
      /\ store' = IF local THEN [store EXCEPT ![asset.key] = SubSeq(part, 1, 1)] ELSE store
      /\ UNCHANGED <<upload, asset, part, worker, local, overran, torn>>
  BY DEF Me!FinalizeBegin, Me!settings
<1>2. asset.key \in {"upload", "derived"}
  BY MeKept DEF Me!MediaAsset
<1>3. req'.kind = "finalize" /\ ~req'.written /\ req' \in MeRequest /\ req'.key = asset.key
  BY <1>1, <1>2 DEF Me!NoRequest, MeRequest
<1>4. PICK n \in 0..Block : part = MeFirst(n)
  BY DEF MeInv, MeStaged
<1>5. n = Block
  BY <1>1, <1>4, MeFirstBlocks
<1>6. MeStaged'
  BY <1>1, <1>2, <1>3, <1>4, <1>5 DEF MeStaged, MeFirst
<1>7. SubSeq(part, 1, 1) \in Seq(1..Block)
  <2>1. \A i \in 1..1 : part[i] \in 1..Block
    BY <1>4, <1>5, MediaAssumption DEF MeFirst
  <2> QED
    BY <2>1, SubSeqProperties
<1>8. /\ store' \in [{"upload", "derived"} -> Seq(1..Block)]
      /\ \A k \in {"upload", "derived"} : k # asset.key => store'[k] = store[k]
      /\ ~local => store' = store
  BY <1>1, <1>2, <1>7, MeKept
<1>9. MeStored'
  BY <1>1, <1>3, <1>8 DEF MeInv, MeStored, Me!Unlocked, Me!Whole
<1> QED
  BY <1>1, <1>6, <1>8, <1>9, MeKept, MeUpload

\* The object is whole; the staged file goes.
LEMMA MeFinalizeCopied == ASSUME MeInv, Me!FinalizeCopied PROVE MeInv'
<1>1. /\ req.kind = "finalize" /\ ~req.written
      /\ store' = [store EXCEPT ![req.key] = part]
      /\ part' = <<>>
      /\ req' = [req EXCEPT !.written = TRUE]
      /\ UNCHANGED <<upload, asset, worker, local, overran, torn>>
  BY DEF Me!FinalizeCopied, Me!settings
<1>2. PICK key \in {"upload", "derived"} : key = req.key
  BY <1>1 DEF MeInv, MeStaged, MeRequest
<1>3. part = Me!Whole /\ part \in Seq(1..Block)
  BY <1>1, MeFirstBlocks, MediaAssumption DEF MeInv, MeStaged
<1>4. /\ store' \in [{"upload", "derived"} -> Seq(1..Block)] /\ store'[key] = Me!Whole
      /\ \A k \in {"upload", "derived"} : k # key => store'[k] = store[k]
  BY <1>1, <1>2, <1>3, MeKept
<1>5. \E n \in 0..Block : part' = MeFirst(n)
  BY <1>1, MeFirstBlocks, MediaAssumption
<1>6. req'.written /\ req'.kind = "finalize" /\ req'.key = key /\ req' \in MeRequest
  <2>1. req \in MeRequest
    BY DEF MeInv, MeStaged
  <2> QED
    BY <1>1, <1>2, <2>1 DEF MeRequest
<1>7. MeStaged'
  BY <1>5, <1>6 DEF MeStaged, MeFirst
<1>8. MeStored'
  BY <1>1, <1>2, <1>4 DEF MeInv, MeStored, Me!Whole
<1> QED
  BY <1>1, <1>4, <1>7, <1>8, MeKept, MeUpload

\* The asset is queued.
LEMMA MeFinalizeCommit == ASSUME MeInv, Me!FinalizeCommit PROVE MeInv'
<1>1. /\ req.kind = "finalize" /\ req.written /\ req' = Me!NoRequest
      /\ asset' = [asset EXCEPT !.status = "PROCESSING", !.url = TRUE,
                                !.key = req.key, !.source = req.key]
      /\ upload' = [upload EXCEPT !.status = "PROCESSING", !.bytes = Block]
      /\ UNCHANGED <<part, store, worker, local, overran, torn>>
  BY DEF Me!FinalizeCommit, Me!settings
<1>2. PICK key \in {"upload", "derived"} : key = req.key
  BY DEF MeInv, MeStaged, MeRequest
<1>3. /\ asset' \in Me!MediaAsset
      /\ asset'.leased = asset.leased /\ asset'.moderation = asset.moderation
      /\ asset'.status = "PROCESSING"
  <2>1. asset \in Me!MediaAsset
    BY MeKept
  <2> QED
    BY <1>1, <1>2, <2>1 DEF Me!MediaAsset
<1>4. upload' \in Me!UploadSession
  <2>1. upload \in Me!UploadSession
    BY MeKept
  <2> QED
    BY <1>1, <2>1, MediaAssumption DEF Me!UploadSession
<1>5. MeStaged'
  BY <1>1, MeKept DEF MeInv, MeStaged, MeFirst
<1>6. MeStored'
  BY <1>1, MeKept DEF MeInv, MeStored, Me!Whole
<1> QED
  BY <1>1, <1>3, <1>4, <1>5, <1>6, MeKept, MeUpload

\* The object store has the whole object or nothing.
LEMMA MeFinalizeFails == ASSUME MeInv, Me!FinalizeFails PROVE MeInv'
<1>1. /\ ~local /\ req.kind = "finalize" /\ ~req.written /\ req' = Me!NoRequest
      /\ store' \in {store, [store EXCEPT ![req.key] = part]}
      /\ asset' = [asset EXCEPT !.status = "UPLOAD_FAILED"]
      /\ upload' = [upload EXCEPT !.status = "UPLOAD_FAILED"]
      /\ UNCHANGED <<part, worker, local, overran, torn>>
  BY DEF Me!FinalizeFails, Me!settings
<1>2. PICK key \in {"upload", "derived"} : key = req.key
  BY DEF MeInv, MeStaged, MeRequest
<1>3. part = Me!Whole /\ part \in Seq(1..Block)
  BY <1>1, MeFirstBlocks, MediaAssumption DEF MeInv, MeStaged
<1>4. /\ store' \in [{"upload", "derived"} -> Seq(1..Block)]
      /\ \A k \in {"upload", "derived"} : store'[k] \in {store[k], Me!Whole}
  BY <1>1, <1>2, <1>3, MeKept
<1>5. /\ asset' \in Me!MediaAsset
      /\ asset'.leased = asset.leased /\ asset'.moderation = asset.moderation
      /\ asset'.status = "UPLOAD_FAILED"
  <2>1. asset \in Me!MediaAsset
    BY MeKept
  <2> QED
    BY <1>1, <2>1 DEF Me!MediaAsset
<1>6. upload' \in Me!UploadSession
  <2>1. upload \in Me!UploadSession
    BY MeKept
  <2> QED
    BY <1>1, <2>1 DEF Me!UploadSession
<1>7. MeStaged'
  BY <1>1, MeKept DEF MeInv, MeStaged, MeFirst
<1>8. MeStored'
  BY <1>1, <1>4, MeKept DEF MeInv, MeStored, Me!Whole
<1> QED
  BY <1>1, <1>4, <1>5, <1>6, <1>7, <1>8, MeKept, MeUpload

\* The client says that it has put the file; the session expires, and who asks
\* for it is told.
LEMMA MeSession ==
  ASSUME MeInv, Me!Complete \/ Me!Expire \/ Me!GetReads \/ Me!GetWrites
  PROVE  MeInv'
<1>1. UNCHANGED <<part, store, req, worker, local, overran, torn>>
  BY DEF Me!Complete, Me!Expire, Me!GetReads, Me!GetWrites, Me!settings
<1>2. asset \in Me!MediaAsset /\ upload \in Me!UploadSession
  BY MeKept
<1>3. /\ asset' \in Me!MediaAsset
      /\ asset'.leased = asset.leased /\ asset'.moderation = asset.moderation
      /\ asset'.status = asset.status \/ asset'.status \notin {"READY", "REJECTED"}
  <2>1. CASE Me!Complete
    BY <1>2, <2>1 DEF Me!Complete, Me!MediaAsset
  <2>2. CASE Me!Expire \/ Me!GetReads
    BY <1>2, <2>2 DEF Me!Expire, Me!GetReads
  <2>3. CASE Me!GetWrites
    <3>1. \/ asset' = [asset EXCEPT !.status = asset.status]
          \/ asset' = [asset EXCEPT !.status = "UPLOAD_FAILED"]
      BY <2>3 DEF Me!GetWrites, Me!Saved
    <3> QED
      BY <1>2, <3>1 DEF Me!MediaAsset
  <2> QED
    BY <2>1, <2>2, <2>3
<1>4. upload' \in Me!UploadSession
  BY <1>2 DEF Me!Complete, Me!Expire, Me!GetReads, Me!GetWrites, Me!UploadSession
<1>5. MeStaged' /\ MeStored'
  BY <1>1, MeKept
<1> QED
  BY <1>1, <1>3, <1>4, <1>5, MeKept, MeUpload

\* The owner tries again.
LEMMA MeRetry == ASSUME MeInv, Me!Retry PROVE MeInv'
<1>1. /\ asset.retries < MaxRetries
      /\ asset' = [asset EXCEPT !.retries = @ + 1, !.auto = 0,
                                !.status = IF asset.url THEN "PROCESSING" ELSE "PENDING_UPLOAD"]
      /\ upload' \in {upload, [upload EXCEPT !.status = "PROCESSING"]}
      /\ UNCHANGED <<part, store, req, worker, local, overran, torn>>
  BY DEF Me!Retry, Me!MayRetry, Me!settings
<1>2. asset \in Me!MediaAsset /\ upload \in Me!UploadSession
  BY MeKept
<1>3. asset.retries + 1 \in 0..MaxRetries
  BY <1>1, <1>2, MediaAssumption DEF Me!MediaAsset
<1>4. PICK s \in {"PROCESSING", "PENDING_UPLOAD"} :
        s = IF asset.url THEN "PROCESSING" ELSE "PENDING_UPLOAD"
  OBVIOUS
<1>5. /\ asset' \in Me!MediaAsset
      /\ asset'.leased = asset.leased /\ asset'.moderation = asset.moderation
      /\ asset'.status = s
  BY <1>1, <1>2, <1>3, <1>4 DEF Me!MediaAsset
<1>6. upload' \in Me!UploadSession
  BY <1>1, <1>2 DEF Me!UploadSession
<1>7. MeStaged' /\ MeStored'
  BY <1>1, MeKept
<1> QED
  BY <1>1, <1>4, <1>5, <1>6, <1>7, MeKept, MeUpload

\* An administrator decides about an asset that is not being processed.
LEMMA MeModerate ==
  ASSUME MeInv, NEW decision \in {"approve", "reject"}, Me!Moderate(decision)
  PROVE  MeInv'
<1>1. /\ asset.status \in {"READY", "REJECTED"}
      /\ UNCHANGED <<upload, part, store, req, worker, local, overran, torn>>
  BY DEF Me!Moderate, Me!MayModerate, Me!settings
<1>2. PICK m \in {"approved", "rejected"}, s \in {"READY", "REJECTED"} :
        /\ asset' = [asset EXCEPT !.moderation = m, !.status = s]
        /\ s = "READY" => m = "approved"
  BY DEF Me!Moderate
<1>3. /\ asset' \in Me!MediaAsset /\ asset'.moderation = m /\ asset'.status = s
  <2>1. asset \in Me!MediaAsset
    BY MeKept
  <2> QED
    BY <1>2, <2>1 DEF Me!MediaAsset
<1>4. MeStaged' /\ MeStored'
  BY <1>1, MeKept
<1>5. MeType'
  BY <1>1, <1>3 DEF MeInv, MeType, Me!TypeOK, MeWork, Me!MediaAsset, Me!UploadSession, MeSessionStatus
<1>6. ~overran' => MeAlone'
  BY <1>1, <1>2, <1>3 DEF MeInv, MeAlone, MeBusy
<1> QED
  BY <1>4, <1>5, <1>6 DEF MeInv

\* A worker takes the asset, which nobody has.
LEMMA MeTake ==
  ASSUME MeInv, NEW w \in Worker, Me!Take(w)
  PROVE  MeInv'
<1>1. /\ asset.status = "PROCESSING" /\ ~asset.leased
      /\ asset' = [asset EXCEPT !.leased = TRUE]
      /\ worker' = [worker EXCEPT ![w] =
             [step |-> "work", read |-> asset', session |-> upload.status, outcome |-> "none"]]
      /\ UNCHANGED <<upload, part, store, req, local, overran, torn>>
  BY DEF Me!Take, Me!settings
<1>2. asset \in Me!MediaAsset /\ upload \in Me!UploadSession
  BY MeKept
<1>3. /\ asset' \in Me!MediaAsset /\ asset'.leased /\ asset'.moderation = asset.moderation
      /\ asset'.status = "PROCESSING"
  BY <1>1, <1>2 DEF Me!MediaAsset
<1>4. upload.status \in MeSessionStatus
  BY <1>2 DEF Me!UploadSession, MeSessionStatus
<1>5. PICK x \in MeWork : /\ x.step = "work" /\ x.read = asset'
                          /\ worker' = [worker EXCEPT ![w] = x]
  BY <1>1, <1>3, <1>4 DEF MeWork
<1>6. /\ worker' \in [Worker -> MeWork] /\ worker'[w] = x
      /\ \A v \in Worker : v # w => worker'[v] = worker[v]
  BY <1>5 DEF MeInv, MeType
<1>7. MeStaged' /\ MeStored'
  BY <1>1, MeKept
<1>8. MeType'
  BY <1>1, <1>3, <1>6 DEF MeInv, MeType, Me!TypeOK, MeWork, Me!MediaAsset, Me!UploadSession, MeSessionStatus
<1>9. ASSUME ~overran PROVE MeAlone'
  <2>1. \A v \in Worker : ~MeBusy(v)
    BY <1>1, <1>9 DEF MeInv, MeAlone
  <2>2. \A v \in Worker : v # w => worker'[v].step = "idle"
    BY <1>6, <2>1 DEF MeBusy
  <2> QED
    BY <1>3, <1>5, <1>6, <2>2 DEF MeAlone, MeBusy
<1> QED
  BY <1>1, <1>7, <1>8, <1>9 DEF MeInv

\* A worker knows the outcome; the bytes of a duplicate are gone.
LEMMA MeOutcome ==
  ASSUME MeInv, NEW w \in Worker,
         NEW o \in {"ready", "duplicate", "failed", "transient", "half"}, Me!Outcome(w, o),
         store' \in [{"upload", "derived"} -> Seq(1..Block)],
         \A k \in {"upload", "derived"} : store'[k] \in {store[k], <<>>}
  PROVE  MeInv'
<1>1. /\ worker[w].step = "work"
      /\ worker' = [worker EXCEPT ![w].step = "commit", ![w].outcome = o]
      /\ UNCHANGED <<upload, asset, part, req, local, overran, torn>>
  BY DEF Me!Outcome, Me!settings
<1>2. worker[w] \in MeWork
  BY DEF MeInv, MeType
<1>3. PICK x : x = [worker[w] EXCEPT !.step = "commit", !.outcome = o]
  OBVIOUS
<1>4. x \in MeWork /\ x.step = "commit" /\ x.read = worker[w].read
  BY <1>2, <1>3 DEF MeWork
<1>5. worker' = [worker EXCEPT ![w] = x]
  BY <1>1, <1>2, <1>3 DEF MeWork, MeInv, MeType
<1>6. /\ worker' \in [Worker -> MeWork] /\ worker'[w] = x
      /\ \A v \in Worker : v # w => worker'[v] = worker[v]
  BY <1>4, <1>5 DEF MeInv, MeType
<1>7. MeStaged'
  BY <1>1, MeKept
<1>8. MeStored'
  BY <1>1 DEF MeInv, MeStored, Me!Whole
<1>9. MeType'
  BY <1>1, <1>6 DEF MeInv, MeType, Me!TypeOK, MeWork, Me!MediaAsset, Me!UploadSession, MeSessionStatus
<1>10. ASSUME ~overran PROVE MeAlone'
  <2>1. \A v \in Worker : MeBusy(v)' <=> MeBusy(v)
    BY <1>1, <1>4, <1>6 DEF MeBusy
  <2>2. \A v \in Worker : worker'[v].read = worker[v].read
    BY <1>4, <1>6
  <2> QED
    BY <1>1, <1>10, <2>1, <2>2 DEF MeInv, MeAlone
<1> QED
  BY <1>1, <1>7, <1>8, <1>9, <1>10 DEF MeInv

\* A worker looks at the bytes.
LEMMA MeWorks ==
  ASSUME MeInv, NEW w \in Worker,
         Me!FindDuplicate(w) \/ Me!Refuse(w) \/ Me!ProcessAssetBytes(w) \/ Me!CannotReach(w)
  PROVE  MeInv'
<1>1. CASE Me!FindDuplicate(w)
  <2>1. store' = [store EXCEPT ![Me!SourceKey(w)] = <<>>] /\ Me!Outcome(w, "duplicate")
    BY <1>1 DEF Me!FindDuplicate
  <2>2. <<>> \in Seq(1..Block)
    BY EmptySeq
  <2>3. /\ store' \in [{"upload", "derived"} -> Seq(1..Block)]
        /\ \A k \in {"upload", "derived"} : store'[k] \in {store[k], <<>>}
    BY <2>1, <2>2, MeKept
  <2> QED
    BY <2>1, <2>3, MeOutcome
<1>2. CASE Me!Refuse(w) \/ Me!ProcessAssetBytes(w) \/ Me!CannotReach(w)
  <2>1. UNCHANGED store
    BY <1>2 DEF Me!Refuse, Me!ProcessAssetBytes, Me!CannotReach
  <2>2. \E o \in {"ready", "failed", "transient", "half"} : Me!Outcome(w, o)
    BY <1>2 DEF Me!Refuse, Me!ProcessAssetBytes, Me!CannotReach
  <2>3. /\ store' \in [{"upload", "derived"} -> Seq(1..Block)]
        /\ \A k \in {"upload", "derived"} : store'[k] \in {store[k], <<>>}
    BY <2>1, MeKept
  <2> QED
    BY <2>2, <2>3, MeOutcome
<1> QED
  BY <1>1, <1>2

\* What a commit writes into the asset, when nothing but the worker's asset was
\* decided about: READY comes with the approval.
LEMMA MeProcessed ==
  ASSUME NEW a \in Me!MediaAsset, NEW w \in Worker, worker[w] \in MeWork,
         worker[w].read = a
  PROVE  /\ Me!Processed(w).status \in {"READY", "DELETED", "FAILED", "PROCESSING"}
         /\ Me!Processed(w).moderation \in {a.moderation, "approved"}
         /\ Me!Processed(w).moderation \in {"pending", "approved", "rejected"}
         /\ Me!Processed(w).status = "READY" => Me!Processed(w).moderation = "approved"
         /\ Me!Processed(w).status # "READY" => Me!Processed(w).moderation = a.moderation
         /\ Me!Processed(w).key \in {"upload", "derived"}
         /\ Me!Processed(w).auto \in Nat
         /\ Me!Processed(w).leased \in BOOLEAN
<1>1. CASE worker[w].outcome = "ready"
  <2>1. Me!Processed(w) = [a EXCEPT !.status = "READY", !.moderation = "approved",
                           !.key = "derived", !.leased = FALSE]
    BY <1>1 DEF Me!Processed
  <2> QED
    BY <2>1 DEF Me!MediaAsset
<1>2. CASE worker[w].outcome = "duplicate"
  <2>1. Me!Processed(w) = [a EXCEPT !.status = "DELETED", !.leased = FALSE]
    BY <1>2 DEF Me!Processed
  <2> QED
    BY <2>1 DEF Me!MediaAsset
<1>3. CASE worker[w].outcome = "failed"
  <2>1. Me!Processed(w) = [a EXCEPT !.status = "FAILED", !.leased = FALSE]
    BY <1>3 DEF Me!Processed
  <2> QED
    BY <2>1 DEF Me!MediaAsset
<1>4. CASE worker[w].outcome \notin {"ready", "duplicate", "failed"}
  <2>1. PICK again \in BOOLEAN : again = (a.auto + 1 < MaxAuto)
    <3>1. CASE a.auto + 1 < MaxAuto
      BY <3>1
    <3>2. CASE ~(a.auto + 1 < MaxAuto)
      <4>1. FALSE = (a.auto + 1 < MaxAuto)
        BY <3>2
      <4> QED
        BY <4>1
    <3> QED
      BY <3>1, <3>2
  <2>2. PICK s \in {"PROCESSING", "FAILED"} : s = IF again THEN "PROCESSING" ELSE "FAILED"
    OBVIOUS
  <2>3. PICK k \in {"upload", "derived"} :
          k = IF worker[w].outcome = "half" THEN "derived" ELSE a.key
    BY DEF Me!MediaAsset
  <2>4. Me!Processed(w) = [a EXCEPT !.status = s, !.key = k, !.auto = a.auto + 1, !.leased = again]
    BY <1>4, <2>1, <2>2, <2>3 DEF Me!Processed
  <2>5. a.auto + 1 \in Nat
    BY DEF Me!MediaAsset
  <2> QED
    BY <2>4, <2>5 DEF Me!MediaAsset
<1> QED
  BY <1>1, <1>2, <1>3, <1>4

\* The worker commits.
LEMMA MeWorkCommit ==
  ASSUME MeInv, NEW w \in Worker, Me!WorkCommit(w)
  PROVE  MeInv'
<1>r. worker[w].read \in Me!MediaAsset
  BY DEF MeInv, MeType, MeWork
<1>1. PICK a, p :
        /\ a \in Me!MediaAsset
        /\ a = worker[w].read /\ p = Me!Processed(w)
        /\ asset' = [asset EXCEPT
               !.status = Me!Saved(@, a.status, p.status),
               !.moderation = Me!Saved(@, a.moderation, p.moderation),
               !.key = Me!Saved(@, a.key, p.key),
               !.auto = Me!Saved(@, a.auto, p.auto),
               !.leased = p.leased]
  BY <1>r DEF Me!WorkCommit
<1>2. /\ worker[w].step = "commit" /\ worker' = [worker EXCEPT ![w] = Me!NoWork]
      /\ UNCHANGED <<part, store, req, local, overran, torn>>
  BY DEF Me!WorkCommit, Me!settings
<1>3. worker[w] \in MeWork /\ asset \in Me!MediaAsset /\ upload \in Me!UploadSession
  BY MeKept DEF MeInv, MeType
<1>4. /\ p.status \in {"READY", "DELETED", "FAILED", "PROCESSING"}
      /\ p.moderation \in {"pending", "approved", "rejected"}
      /\ p.status = "READY" => p.moderation = "approved"
      /\ p.status # "READY" => p.moderation = a.moderation
      /\ p.key \in {"upload", "derived"} /\ p.auto \in Nat /\ p.leased \in BOOLEAN
  BY <1>1, <1>3, MeProcessed
<1>5. /\ asset' \in Me!MediaAsset
      /\ asset'.status = Me!Saved(asset.status, a.status, p.status)
      /\ asset'.moderation = Me!Saved(asset.moderation, a.moderation, p.moderation)
  <2>1. PICK s, m, k, n :
          /\ s = Me!Saved(asset.status, a.status, p.status)
          /\ m = Me!Saved(asset.moderation, a.moderation, p.moderation)
          /\ k = Me!Saved(asset.key, a.key, p.key)
          /\ n = Me!Saved(asset.auto, a.auto, p.auto)
    OBVIOUS
  <2>2. /\ s \in {"PENDING_UPLOAD", "UPLOADING", "UPLOADED", "UPLOAD_FAILED", "PROCESSING",
                  "READY", "REJECTED", "FAILED", "DELETED"}
        /\ m \in {"pending", "approved", "rejected"}
        /\ k \in {"upload", "derived"} /\ n \in Nat
    BY <1>3, <1>4, <2>1 DEF Me!Saved, Me!MediaAsset
  <2>3. asset' = [asset EXCEPT !.status = s, !.moderation = m, !.key = k, !.auto = n,
                               !.leased = p.leased]
    BY <1>1, <1>3, <2>1 DEF Me!MediaAsset
  <2>4. PICK l \in BOOLEAN : l = p.leased
    BY <1>4
  <2>5. asset' = [asset EXCEPT !.status = s, !.moderation = m, !.key = k, !.auto = n, !.leased = l]
    BY <2>3, <2>4
  <2>6. asset' \in Me!MediaAsset /\ asset'.status = s /\ asset'.moderation = m
    <3>1. PICK b : b = [asset EXCEPT !.status = s, !.moderation = m]
      OBVIOUS
    <3>2. b \in Me!MediaAsset /\ b.status = s /\ b.moderation = m
      BY <1>3, <2>2, <3>1 DEF Me!MediaAsset
    <3>3. asset' = [b EXCEPT !.key = k, !.auto = n, !.leased = l]
      BY <1>3, <2>5, <3>1 DEF Me!MediaAsset
    <3> QED
      BY <2>2, <3>2, <3>3 DEF Me!MediaAsset
  <2> QED
    BY <2>1, <2>6
<1>6. upload' \in Me!UploadSession
  <2>1. PICK s : s = Me!Saved(upload.status, worker[w].session, Me!SessionStatus(w))
    OBVIOUS
  <2>2. Me!SessionStatus(w) \in MeSessionStatus
    BY DEF Me!SessionStatus, MeSessionStatus
  <2>3. s \in MeSessionStatus
    BY <1>3, <2>1, <2>2 DEF Me!Saved, Me!UploadSession, MeSessionStatus
  <2>4. PICK n \in Nat : n = IF worker[w].outcome = "ready" THEN Block ELSE upload.bytes
    BY <1>3, MediaAssumption DEF Me!UploadSession
  <2>5. upload' = [upload EXCEPT !.status = s, !.bytes = n]
    BY <1>3, <2>1, <2>4 DEF Me!WorkCommit, Me!UploadSession
  <2> QED
    BY <1>3, <2>3, <2>5 DEF Me!UploadSession, MeSessionStatus
<1>7. Me!NoWork \in MeWork /\ Me!NoWork.step = "idle"
  BY MediaAssumption DEF Me!NoWork, Me!NewAsset, MeWork, Me!MediaAsset
<1>8. /\ worker' \in [Worker -> MeWork] /\ worker'[w].step = "idle"
      /\ \A v \in Worker : v # w => worker'[v] = worker[v]
  BY <1>2, <1>7 DEF MeInv, MeType
<1>9. MeStaged' /\ MeStored'
  BY <1>2, MeKept
<1>10. MeType'
  BY <1>2, <1>5, <1>6, <1>8 DEF MeInv, MeType, Me!TypeOK, MeWork, Me!MediaAsset, Me!UploadSession, MeSessionStatus
<1>11. ASSUME ~overran PROVE MeAlone'
  <2>1. /\ asset.status \notin {"READY", "REJECTED"} /\ a.status = "PROCESSING"
        /\ a.moderation = asset.moderation
        /\ \A v \in Worker : MeBusy(v) => v = w
    BY <1>1, <1>2, <1>11 DEF MeInv, MeAlone, MeBusy
  <2>2. \A v \in Worker : worker'[v].step = "idle"
    BY <1>8, <2>1 DEF MeBusy
  <2>3. asset'.status = "READY" => p.status = "READY"
    BY <1>5, <2>1 DEF Me!Saved
  <2>4. p.status = "READY" => asset'.moderation = "approved"
    BY <1>4, <1>5, <2>1 DEF Me!Saved
  <2> QED
    BY <2>2, <2>3, <2>4 DEF MeAlone, MeBusy
<1> QED
  BY <1>2, <1>9, <1>10, <1>11 DEF MeInv

\* A worker dies and its lease runs on.
LEMMA MeWorkerDies ==
  ASSUME MeInv, NEW w \in Worker, Me!WorkerDies(w)
  PROVE  MeInv'
<1>1. /\ worker' = [worker EXCEPT ![w] = Me!NoWork]
      /\ UNCHANGED <<upload, asset, part, store, req, local, overran, torn>>
  BY DEF Me!WorkerDies, Me!settings
<1>2. Me!NoWork \in MeWork /\ Me!NoWork.step = "idle"
  BY MediaAssumption DEF Me!NoWork, Me!NewAsset, MeWork, Me!MediaAsset
<1>3. /\ worker' \in [Worker -> MeWork] /\ worker'[w].step = "idle"
      /\ \A v \in Worker : v # w => worker'[v] = worker[v]
  BY <1>1, <1>2 DEF MeInv, MeType
<1>4. MeStaged' /\ MeStored'
  BY <1>1, MeKept
<1>5. MeType'
  BY <1>1, <1>3 DEF MeInv, MeType, Me!TypeOK, MeWork, Me!MediaAsset, Me!UploadSession, MeSessionStatus
<1>6. ~overran' => MeAlone'
  BY <1>1, <1>3 DEF MeInv, MeAlone, MeBusy
<1> QED
  BY <1>4, <1>5, <1>6 DEF MeInv

\* A lease ends; with a worker under it, the asset may be taken twice.
LEMMA MeLeaseEnds == ASSUME MeInv, Me!LeaseEnds PROVE MeInv'
<1>1. /\ asset' = [asset EXCEPT !.leased = FALSE]
      /\ overran' = (overran \/ \E w \in Worker : worker[w].step # "idle")
      /\ UNCHANGED <<upload, part, store, req, worker, local, torn>>
  BY DEF Me!LeaseEnds, Me!settings
<1>2. /\ asset' \in Me!MediaAsset /\ asset'.status = asset.status
      /\ asset'.moderation = asset.moderation
  <2>1. asset \in Me!MediaAsset
    BY MeKept
  <2> QED
    BY <1>1, <2>1 DEF Me!MediaAsset
<1>3. overran' \in BOOLEAN
  BY <1>1 DEF MeInv, MeType
<1>4. MeStaged' /\ MeStored'
  BY <1>1, MeKept
<1>5. MeType'
  BY <1>1, <1>2, <1>3 DEF MeInv, MeType, Me!TypeOK, MeWork, Me!MediaAsset, Me!UploadSession, MeSessionStatus
<1>6. ASSUME ~overran' PROVE MeAlone'
  <2>1. ~overran /\ \A w \in Worker : worker[w].step = "idle"
    BY <1>1, <1>6
  <2> QED
    BY <1>1, <1>2, <2>1 DEF MeInv, MeAlone, MeBusy
<1> QED
  BY <1>4, <1>5, <1>6 DEF MeInv

\* What the invariant is about stays.
LEMMA MeStutter ==
  ASSUME MeInv, UNCHANGED <<upload, asset, part, store, req, worker, local, overran, torn>>
  PROVE  MeInv'
<1>1. MeType'
  BY DEF MeInv, MeType, Me!TypeOK, MeWork, Me!MediaAsset, Me!UploadSession, MeSessionStatus
<1>2. ~overran' => MeAlone'
  BY DEF MeInv, MeAlone, MeBusy
<1> QED
  BY <1>1, <1>2, MeKept DEF MeInv

\* Every step of Media keeps the invariant.
LEMMA MeStep == MeInv /\ Me!Next => MeInv'
<1> SUFFICES ASSUME MeInv, Me!Next PROVE MeInv'
  OBVIOUS
<1>1. CASE Me!DirectPut \/ Me!ChunkWrite \/ Me!ChunkCommit \/ Me!RequestDies
  BY <1>1, MeDirectPut, MeChunkWrite, MeChunkCommit, MeRequestDies
<1>2. ASSUME NEW o \in 0..Block, NEW n \in 1..Block, Me!ChunkBegin(o, n) PROVE MeInv'
  BY <1>2, MeChunkBegin
<1>3. CASE Me!FinalizeBegin \/ Me!FinalizeCopied \/ Me!FinalizeCommit \/ Me!FinalizeFails
  BY <1>3, MeFinalizeBegin, MeFinalizeCopied, MeFinalizeCommit, MeFinalizeFails
<1>4. CASE Me!Complete \/ Me!Expire \/ Me!GetReads \/ Me!GetWrites
  BY <1>4, MeSession
<1>5. CASE Me!Retry \/ Me!LeaseEnds
  BY <1>5, MeRetry, MeLeaseEnds
<1>6. ASSUME NEW w \in Worker,
             Me!FindDuplicate(w) \/ Me!Refuse(w) \/ Me!ProcessAssetBytes(w) \/ Me!CannotReach(w)
      PROVE  MeInv'
  BY <1>6, MeWorks
<1>7. ASSUME NEW w \in Worker, Me!Take(w) \/ Me!WorkCommit(w) \/ Me!WorkerDies(w) PROVE MeInv'
  BY <1>7, MeTake, MeWorkCommit, MeWorkerDies
<1>8. ASSUME NEW d \in {"approve", "reject"}, Me!Moderate(d) PROVE MeInv'
  BY <1>8, MeModerate
<1> QED
  BY <1>1, <1>2, <1>3, <1>4, <1>5, <1>6, <1>7, <1>8 DEF Me!Next

\* What the invariant says of what is published and what workers are given.
LEMMA MeShows == MeInv => Me!ReadyIsApproved /\ Me!SourceIsWhole
<1> SUFFICES ASSUME MeInv PROVE Me!ReadyIsApproved /\ Me!SourceIsWhole
  OBVIOUS
<1>1. Me!ReadyIsApproved
  BY DEF Me!ReadyIsApproved, MeInv, MeAlone
<1>2. ASSUME asset.source # "none", ~torn, req.kind # "finalize"
      PROVE  store[asset.source] \in {<<>>, Me!Whole}
  <2>1. asset.source \in {"upload", "derived"}
    BY <1>2, MeKept DEF Me!MediaAsset
  <2> QED
    BY <1>2, <2>1 DEF MeInv, MeStored
<1> QED
  BY <1>1, <1>2 DEF Me!SourceIsWhole

\* The invariant, of the component when it is the one that runs.
MediaHolds == component = "media" => MeInv

\* It holds in every state.
LEMMA MediaInvariant == Spec => []MediaHolds
<1>1. Init => MediaHolds
  BY MeInit DEF Init, MediaHolds
<1>2. MediaHolds /\ [Next]_vars => MediaHolds'
  <2> SUFFICES ASSUME MediaHolds, [Next]_vars, component' = "media" PROVE MeInv'
    BY DEF MediaHolds
  <2>1. CASE MediaStep
    BY <2>1, MeStep DEF MediaStep, MediaHolds
  <2>2. CASE UNCHANGED vars
    BY <2>2, MeStutter DEF vars, meVars, MediaHolds
  <2>3. CASE Next /\ ~MediaStep
    BY <2>3 DEF Next, IdentitiesStep, SessionsStep, PhoneCodesStep, CouponsStep, OutboxStep,
       MessagesStep, ListingsStep, PayoutsStep, SharingStep
  <2> QED
    BY <2>1, <2>2, <2>3
<1> QED
  BY <1>1, <1>2, PTL DEF Spec

\* SourceIsWhole: a worker is never given a file with a hole or with blocks out of
\* order, whatever chunks are lost, repeated or cut short (finalize_resumable_upload),
\* unless a process died while it was copying the staged file.
THEOREM WorkersGetTheWholeFile == Spec => []SourceIsWhole
<1>1. MediaHolds => SourceIsWhole
  BY MeShows DEF MediaHolds, SourceIsWhole
<1> QED
  BY <1>1, MediaInvariant, PTL

\* ReadyIsApproved: an asset that is published as READY was approved, by the scan or
\* by an administrator, as long as no worker works longer than its lease
\* (media_processing.py).
THEOREM PublishedMediaIsApproved == Spec => []ReadyIsApproved
<1>1. MediaHolds => ReadyIsApproved
  BY MeShows DEF MediaHolds, ReadyIsApproved
<1> QED
  BY <1>1, MediaInvariant, PTL
=============================================================================
