-------------------------- MODULE AdmissionProofs --------------------------
(*****************************************************************************)
(* Theorems about the admission layer and the server around it, for every     *)
(* value of the constants: calls make their verdicts of their own answers,    *)
(* every slot is counted once and handed back once, in the process and        *)
(* behind the door, the shared budgets and meters add up, the clients of a    *)
(* fleet spend what they were granted, and the capture accounts for every     *)
(* decision.                                                                  *)
(*****************************************************************************)
EXTENDS MCAdmission, SumTheorems, TLAPS

UnifiedSpec == UnifiedInit /\ [][UnifiedNext]_unifiedVars

Called == {"idle"} \cup Waiting \cup Over
CallType == [pc : Called, cost : AdmitCosts \cup {1}, snap : [Axes -> Answers], heard : [Axes -> Answers],
             slot : BOOLEAN, lane : Axes \cup {"none", "policy"}]
CallsTyped == layout \in Layouts /\ admit \in [Admits -> CallType]

Spoken == {"allow", "deny"}
OnceAllowed(configured) == IF configured THEN "allow" ELSE "none"

\* What a call that waits knows: the slot was granted, an axis it is past has allowed, an axis
\* ahead was not asked, and only the answer under way is not in the snapshot yet.
WaitInv(a) ==
    /\ a.snap["conc"] = OnceAllowed(layout.conc) /\ a.heard["conc"] = OnceAllowed(layout.conc)
    /\ a.snap["rate"] = OnceAllowed(a.pc \in {"cost", "costAnswer"} /\ layout.rate)
    /\ a.snap["cost"] = "none"
    /\ IF a.pc \in {"rateAnswer", "fusedAnswer"} THEN a.heard["rate"] \in Spoken
       ELSE a.heard["rate"] = a.snap["rate"]
    /\ IF a.pc \in {"costAnswer", "fusedAnswer"} THEN a.heard["cost"] \in Spoken
       ELSE a.heard["cost"] = "none"
    /\ a.pc \in {"rate", "rateAnswer"} => layout.rate
    /\ a.pc \in {"cost", "costAnswer"} => layout.cost
    /\ a.pc \in {"fused", "fusedAnswer"} => layout.rate /\ layout.cost

\* An admitted call was allowed by what is configured and asked nothing else.
HeldInv(a) ==
    /\ a.heard["conc"] = OnceAllowed(layout.conc)
    /\ a.heard["rate"] = OnceAllowed(layout.rate)
    /\ a.heard["cost"] = OnceAllowed(layout.cost)

\* A refused one heard the refusal of the axis it names, or names the bid price and spent nothing.
DeniedInv(a) ==
    /\ a.lane # "none"
    /\ a.lane = "policy" =>
          a.heard["conc"] # "deny" /\ a.heard["rate"] = "none" /\ a.heard["cost"] = "none"
    /\ a.lane \in Axes => a.heard[a.lane] = "deny"

CallInv(a) ==
    /\ a.pc \in Waiting => WaitInv(a)
    /\ a.pc \in {"held", "released"} => HeldInv(a)
    /\ a.pc = "denied" => DeniedInv(a)

VerdictInv == CallsTyped /\ \A c \in Admits : CallInv(admit[c])

----------------------------------------------------------------------------
(* One call *)

\* A step that changes one call keeps the invariant if the call it leaves behind has it.
LEMMA OneCall ==
    ASSUME VerdictInv, NEW c \in Admits, NEW a \in CallType, CallInv(a),
           layout' = layout, admit' = [admit EXCEPT ![c] = a]
    PROVE  VerdictInv'
<1>1. CallsTyped'
  BY DEF VerdictInv, CallsTyped
<1>2. ASSUME NEW d \in Admits PROVE CallInv(admit[d])'
  <2>1. admit'[d] = IF d = c THEN a ELSE admit[d]
    BY DEF VerdictInv, CallsTyped
  <2>2. CallInv(admit'[d])
    BY <2>1 DEF VerdictInv
  <2> QED BY <2>2 DEF CallInv, WaitInv, HeldInv, DeniedInv
<1> QED BY <1>1, <1>2 DEF VerdictInv

\* What a layout may be.
LEMMA Layout ==
    ASSUME layout \in Layouts
    PROVE  /\ layout.conc \in BOOLEAN /\ layout.rate \in BOOLEAN /\ layout.cost \in BOOLEAN
           /\ layout.fused \in BOOLEAN /\ (layout.fused => layout.rate /\ layout.cost)
BY UnifiedAssumption

\* What an axis answers is an answer.
LEMMA AxisSpeaks == \A has, n : AxisAnswer(has, n) \in Spoken
BY DEF AxisAnswer, Spoken

\* Refusing names the first axis that refused.
LEMMA Refused ==
    ASSUME VerdictInv, NEW c \in Admits, NEW snap \in [Axes -> Answers], admit[c].pc \in Waiting,
           snap["conc"] # "deny", ~Combined(snap),
           snap["rate"] = "deny" => admit[c].heard["rate"] = "deny",
           snap["cost"] = "deny" => admit[c].heard["cost"] = "deny",
           layout' = layout, Deny(c, snap)
    PROVE  VerdictInv'
<1> DEFINE a == [admit[c] EXCEPT !.pc = "denied", !.snap = snap, !.slot = FALSE, !.lane = Binding(snap)]
<1>1. admit[c] \in CallType
  BY DEF VerdictInv, CallsTyped
<1>2. Binding(snap) \in {"rate", "cost"} /\ snap[Binding(snap)] = "deny"
  BY DEF Binding, Combined, Axes
<1>3. a \in CallType
  BY <1>1, <1>2 DEF CallType, Called, Over, Axes
<1>4. DeniedInv(a)
  BY <1>1, <1>2 DEF DeniedInv, CallType, Axes
<1>5. CallInv(a)
  BY <1>1, <1>4 DEF CallInv, CallType, Waiting
<1>6. admit' = [admit EXCEPT ![c] = a]
  BY DEF Deny
<1> QED BY <1>3, <1>5, <1>6, OneCall

\* Admitting keeps what the call heard.
LEMMA Admitted ==
    ASSUME VerdictInv, NEW c \in Admits, NEW snap \in [Axes -> Answers], HeldInv(admit[c]),
           layout' = layout, Finalize(c, snap)
    PROVE  VerdictInv'
<1> DEFINE a == [admit[c] EXCEPT !.pc = "held", !.snap = snap]
<1>1. admit[c] \in CallType
  BY DEF VerdictInv, CallsTyped
<1>2. a \in CallType
  BY <1>1 DEF CallType, Called, Over
<1>3. CallInv(a)
  BY <1>1 DEF CallInv, CallType, HeldInv, Waiting
<1>4. admit' = [admit EXCEPT ![c] = a]
  BY DEF Finalize
<1> QED BY <1>2, <1>3, <1>4, OneCall

----------------------------------------------------------------------------
(* The steps *)

\* The synchronous part of admit(): refused for want of a slot, refused by the bid price,
\* admitted with no further axis, or off to the first await.
LEMMA AdmitKeeps ==
    ASSUME VerdictInv, NEW c \in Admits, NEW cost \in AdmitCosts, NEW value,
           Admit(c, [cost |-> cost, value |-> value])
    PROVE  VerdictInv'
<1> DEFINE q == [cost |-> cost, value |-> value]
           asked == [FreshAdmit EXCEPT !.cost = cost, !.snap = ConcSnap, !.heard = ConcSnap]
<1>1. layout \in Layouts /\ layout' = layout /\ q.cost = cost
  BY DEF VerdictInv, CallsTyped, Admit, AdmitAt
<1>2. ConcSnap \in [Axes -> Answers] /\ ConcSnap["rate"] = "none" /\ ConcSnap["cost"] = "none"
      /\ ConcSnap["conc"] = IF Full THEN "deny" ELSE OnceAllowed(layout.conc)
  BY <1>1, Layout DEF ConcSnap, NoSnap, Axes, Answers, Full, OnceAllowed
<1>3. asked \in CallType /\ asked.snap = ConcSnap /\ asked.heard = ConcSnap
  BY <1>2 DEF FreshAdmit, CallType, Called, NoSnap, Axes, Answers
<1>4. CASE Full
  <2> DEFINE a == [asked EXCEPT !.pc = "denied", !.lane = "conc"]
  <2>1. a \in CallType
    BY <1>3 DEF CallType, Called, Over, Axes
  <2>2. CallInv(a)
    BY <1>2, <1>3, <1>4 DEF CallInv, DeniedInv, FreshAdmit, Waiting, Axes
  <2>3. admit' = [admit EXCEPT ![c] = a]
    BY <1>4 DEF Admit, AdmitAt
  <2> QED BY <2>1, <2>2, <2>3, <1>1, OneCall
<1>5. CASE ~Full /\ Filtered(Refined(warm, q), q)
  <2> DEFINE a == [asked EXCEPT !.pc = "denied", !.lane = "policy"]
  <2>1. a \in CallType
    BY <1>3 DEF CallType, Called, Over
  <2>2. CallInv(a)
    BY <1>2, <1>3, <1>5 DEF CallInv, DeniedInv, FreshAdmit, Waiting, Axes, OnceAllowed
  <2>3. admit' = [admit EXCEPT ![c] = a]
    BY <1>5 DEF Admit, AdmitAt
  <2> QED BY <2>1, <2>2, <2>3, <1>1, OneCall
<1>6. CASE ~Full /\ ~Filtered(Refined(warm, q), q)
  <2> DEFINE a == [asked EXCEPT !.pc = FirstWait, !.slot = layout.conc]
  <2>1. a \in CallType
    BY ZenonT(60), <1>1, <1>3, Layout DEF CallType, Called, Over, Waiting, FirstWait
  <2>2. a.pc = FirstWait /\ a.snap = ConcSnap /\ a.heard = ConcSnap
    BY <1>3 DEF FreshAdmit
  <2>3. ASSUME FirstWait = "held" PROVE CallInv(a)
    <3>1. ~layout.rate /\ ~layout.cost
      BY <2>3 DEF FirstWait
    <3>2. HeldInv(a)
      BY <1>2, <1>6, <2>2, <3>1 DEF HeldInv, OnceAllowed
    <3> QED BY <2>2, <2>3, <3>2 DEF CallInv, Waiting
  <2>4. ASSUME FirstWait # "held" PROVE CallInv(a)
    <3>1. FirstWait \in {"fused", "rate", "cost"} /\ (FirstWait = "cost" => ~layout.rate /\ layout.cost)
          /\ (FirstWait = "rate" => layout.rate) /\ (FirstWait = "fused" => layout.fused)
      BY <2>4 DEF FirstWait
    <3>2. WaitInv(a)
      BY <1>1, <1>2, <1>6, <2>2, <3>1, Layout DEF WaitInv, OnceAllowed
    <3> QED BY <2>2, <3>1, <3>2 DEF CallInv
  <2>5. admit' = [admit EXCEPT ![c] = a]
    BY <1>6 DEF Admit, AdmitAt
  <2>6. CallInv(a)
    BY <2>3, <2>4
  <2> QED BY <2>1, <2>5, <2>6, <1>1, OneCall
<1> QED BY <1>4, <1>5, <1>6

\* admitSync(): all in one step, and an axis is not asked once an earlier one refused.
LEMMA AdmitSyncKeeps ==
    ASSUME VerdictInv, NEW c \in Admits, NEW cost \in AdmitCosts, NEW value,
           AdmitSync(c, [cost |-> cost, value |-> value])
    PROVE  VerdictInv'
<1> DEFINE q == [cost |-> cost, value |-> value]
           w == Refined(warm, q)
           stopped == Full \/ Filtered(w, q)
           rate == IF layout.rate /\ ~stopped THEN AxisAnswer(left.rate, 1) ELSE "none"
           cst == IF layout.cost /\ ~stopped /\ rate # "deny" THEN AxisAnswer(left.cost, q.cost) ELSE "none"
           snap == [ConcSnap EXCEPT !["rate"] = rate, !["cost"] = cst]
           admitted == ~stopped /\ Combined(snap)
           asked == [FreshAdmit EXCEPT !.cost = q.cost, !.snap = snap, !.heard = snap]
           a == IF admitted THEN [asked EXCEPT !.pc = "held", !.slot = layout.conc]
                ELSE [asked EXCEPT !.pc = "denied", !.lane = Binding(snap)]
<1>1. layout \in Layouts /\ layout' = layout /\ q.cost = cost
  BY DEF VerdictInv, CallsTyped, AdmitSync, AdmitSyncAt
<1>2. admit' = [admit EXCEPT ![c] = a]
  BY DEF AdmitSync, AdmitSyncAt
<1>3. ConcSnap \in [Axes -> Answers]
      /\ ConcSnap["conc"] = IF Full THEN "deny" ELSE OnceAllowed(layout.conc)
  BY <1>1, Layout DEF ConcSnap, NoSnap, Axes, Answers, Full, OnceAllowed
<1>4. rate \in Answers /\ cst \in Answers
      /\ (rate = "none" <=> ~layout.rate \/ stopped)
      /\ (cst = "none" <=> ~layout.cost \/ stopped \/ rate = "deny")
  BY AxisSpeaks DEF Answers, Spoken
<1> HIDE DEF rate, cst
<1>5. snap \in [Axes -> Answers] /\ snap["rate"] = rate /\ snap["cost"] = cst
      /\ snap["conc"] = IF Full THEN "deny" ELSE OnceAllowed(layout.conc)
  BY <1>3, <1>4 DEF Axes
<1> HIDE DEF snap
<1>6. asked \in CallType /\ asked.snap = snap /\ asked.heard = snap
  BY <1>1, <1>5 DEF FreshAdmit, CallType, Called, Axes
<1> HIDE DEF asked
<1>7. Combined(snap) <=> snap["conc"] # "deny" /\ rate # "deny" /\ cst # "deny"
  BY <1>5 DEF Combined, Axes
<1>8. CASE admitted
  <2>1. a = [asked EXCEPT !.pc = "held", !.slot = layout.conc]
    BY <1>8
  <2>2. a \in CallType /\ a.pc = "held" /\ a.heard = snap
    BY <1>1, <1>6, <2>1, Layout DEF CallType, Called, Over
  <2>3. ~stopped /\ rate # "deny" /\ cst # "deny" /\ ~Full
    BY <1>7, <1>8
  <2>4. HeldInv(a)
    BY <1>1, <1>4, <1>5, <2>2, <2>3, Layout DEF HeldInv, OnceAllowed, Answers
  <2>5. CallInv(a)
    BY <2>2, <2>4 DEF CallInv, Waiting
  <2> QED BY <1>1, <1>2, <2>2, <2>5, OneCall
<1>9. CASE ~admitted
  <2>1. a = [asked EXCEPT !.pc = "denied", !.lane = Binding(snap)]
    BY <1>9
  <2>2. Binding(snap) \in Axes \cup {"policy"}
        /\ (Binding(snap) \in Axes => snap[Binding(snap)] = "deny")
        /\ (Binding(snap) = "policy" => snap["conc"] # "deny" /\ rate # "deny" /\ cst # "deny")
    BY <1>5 DEF Binding, Axes
  <2>3. a \in CallType /\ a.pc = "denied" /\ a.heard = snap /\ a.lane = Binding(snap)
    BY <1>6, <2>1, <2>2 DEF CallType, Called, Over, Axes
  <2>4. Binding(snap) = "policy" => rate = "none" /\ cst = "none"
    BY <1>4, <1>7, <1>9, <2>2
  <2>5. DeniedInv(a)
    BY <1>5, <2>2, <2>3, <2>4 DEF DeniedInv, Axes
  <2>6. CallInv(a)
    BY <2>3, <2>5 DEF CallInv, Waiting
  <2> QED BY <1>1, <1>2, <2>3, <2>6, OneCall
<1> QED BY <1>8, <1>9

\* The store serves an axis: its answer is under way, and to this call alone.
LEMMA ServedKeeps ==
    ASSUME VerdictInv, NEW c \in Admits, RateServed(c) \/ CostServed(c) \/ FusedServed(c)
    PROVE  VerdictInv'
<1>1. admit[c] \in CallType /\ layout' = layout
  BY DEF VerdictInv, CallsTyped, RateServed, CostServed, FusedServed
<1>2. WaitInv(admit[c])
  BY DEF VerdictInv, CallInv, Waiting, RateServed, CostServed, FusedServed
<1>3. CASE RateServed(c)
  <2> DEFINE a == [admit[c] EXCEPT !.pc = "rateAnswer", !.heard["rate"] = AxisAnswer(left.rate, 1)]
  <2>1. admit' = [admit EXCEPT ![c] = a]
    BY <1>3 DEF RateServed
  <2>2. a \in CallType
    BY ZenonT(60), <1>1, AxisSpeaks DEF CallType, Called, Waiting, Axes, Answers, Spoken
  <2>3. WaitInv(a)
    BY <1>1, <1>2, <1>3, AxisSpeaks DEF WaitInv, CallType, Axes, RateServed
  <2> QED BY <1>1, <2>1, <2>2, <2>3, OneCall DEF CallInv, CallType
<1>4. CASE CostServed(c)
  <2> DEFINE a == [admit[c] EXCEPT !.pc = "costAnswer", !.heard["cost"] = AxisAnswer(left.cost, admit[c].cost)]
  <2>1. admit' = [admit EXCEPT ![c] = a]
    BY <1>4 DEF CostServed
  <2>2. a \in CallType
    BY ZenonT(60), <1>1, AxisSpeaks DEF CallType, Called, Waiting, Axes, Answers, Spoken
  <2>3. WaitInv(a)
    BY <1>1, <1>2, <1>4, AxisSpeaks DEF WaitInv, CallType, Axes, CostServed
  <2> QED BY <1>1, <2>1, <2>2, <2>3, OneCall DEF CallInv, CallType
<1>5. CASE FusedServed(c)
  <2> DEFINE a == [admit[c] EXCEPT !.pc = "fusedAnswer", !.heard["rate"] = AxisAnswer(left.rate, 1),
                                   !.heard["cost"] = AxisAnswer(left.cost, admit[c].cost)]
  <2>1. admit' = [admit EXCEPT ![c] = a]
    BY ZenonT(60), <1>5 DEF FusedServed
  <2>2. a \in CallType
    <3> DEFINE h == [[admit[c].heard EXCEPT !["rate"] = AxisAnswer(left.rate, 1)]
                        EXCEPT !["cost"] = AxisAnswer(left.cost, admit[c].cost)]
    <3>1. h \in [Axes -> Answers]
      BY <1>1, AxisSpeaks DEF CallType, Axes, Answers, Spoken
    <3>2. a = [admit[c] EXCEPT !.pc = "fusedAnswer", !.heard = h]
      BY <1>1 DEF CallType
    <3> QED BY <1>1, <3>1, <3>2 DEF CallType, Called, Waiting
  <2>3. WaitInv(a)
    BY <1>1, <1>2, <1>5, AxisSpeaks DEF WaitInv, CallType, Axes, FusedServed
  <2> QED BY <1>1, <2>1, <2>2, <2>3, OneCall DEF CallInv, CallType
<1> QED BY <1>3, <1>4, <1>5

\* The answer reaches the call: it goes on, is admitted, or is refused by what it heard.
LEMMA AnsweredKeeps ==
    ASSUME VerdictInv, NEW c \in Admits, RateAnswered(c) \/ CostAnswered(c) \/ FusedAnswered(c)
    PROVE  VerdictInv'
<1>1. admit[c] \in CallType /\ layout \in Layouts /\ layout' = layout
  BY DEF VerdictInv, CallsTyped, RateAnswered, CostAnswered, FusedAnswered
<1>2. admit[c].pc \in Waiting /\ WaitInv(admit[c])
  BY DEF VerdictInv, CallInv, Waiting, RateAnswered, CostAnswered, FusedAnswered
<1>3. admit[c].snap \in [Axes -> Answers] /\ admit[c].snap["conc"] # "deny"
      /\ admit[c].heard["conc"] = OnceAllowed(layout.conc)
  BY <1>1, <1>2 DEF CallType, WaitInv, OnceAllowed
<1>4. CASE RateAnswered(c)
  <2> DEFINE snap == [admit[c].snap EXCEPT !["rate"] = admit[c].heard["rate"]]
             a == [admit[c] EXCEPT !.pc = "cost", !.snap = snap]
  <2>1. admit[c].pc = "rateAnswer" /\ admit[c].heard["rate"] \in Spoken /\ layout.rate
        /\ admit[c].heard["cost"] = "none" /\ admit[c].snap["cost"] = "none"
    BY <1>2, <1>4 DEF RateAnswered, WaitInv
  <2>2. snap \in [Axes -> Answers] /\ snap["conc"] = admit[c].snap["conc"]
        /\ snap["rate"] = admit[c].heard["rate"] /\ snap["cost"] = "none"
    BY <1>3, <2>1 DEF Axes, Answers, Spoken
  <2>3. IF ~Combined(snap) THEN Deny(c, snap)
        ELSE IF layout.cost
             THEN admit' = [admit EXCEPT ![c].pc = "cost", ![c].snap = snap] ELSE Finalize(c, snap)
    BY <1>4 DEF RateAnswered, SnapOf
  <2> HIDE DEF snap
  <2>4. CASE ~Combined(snap)
    BY <1>1, <1>2, <1>3, <2>2, <2>3, <2>4, Refused
  <2>5. ASSUME Combined(snap), layout.cost PROVE VerdictInv'
    <3>1. admit' = [admit EXCEPT ![c] = a]
      BY <2>3, <2>5
    <3>2. a \in CallType
      BY <1>1, <2>2 DEF CallType, Called, Waiting
    <3>3. admit[c].heard["rate"] = "allow"
      BY <2>1, <2>2, <2>5 DEF Combined, Axes, Spoken
    <3>4. WaitInv(a)
      BY <1>1, <1>2, <2>1, <2>2, <2>5, <3>3 DEF WaitInv, CallType, OnceAllowed
    <3> QED BY <1>1, <3>1, <3>2, <3>4, OneCall DEF CallInv, CallType
  <2>6. ASSUME Combined(snap), ~layout.cost PROVE VerdictInv'
    <3>1. admit[c].heard["rate"] = "allow"
      BY <2>1, <2>2, <2>6 DEF Combined, Axes, Spoken
    <3>2. HeldInv(admit[c])
      BY <1>3, <2>1, <2>6, <3>1 DEF HeldInv, OnceAllowed
    <3> QED BY <1>1, <2>2, <2>3, <2>6, <3>2, Admitted
  <2> QED BY <2>4, <2>5, <2>6
<1>5. CASE CostAnswered(c)
  <2> DEFINE snap == [admit[c].snap EXCEPT !["cost"] = admit[c].heard["cost"]]
  <2>1. admit[c].pc = "costAnswer" /\ admit[c].heard["cost"] \in Spoken /\ layout.cost
        /\ admit[c].heard["rate"] = admit[c].snap["rate"]
        /\ admit[c].snap["rate"] = OnceAllowed(layout.rate)
    BY <1>1, <1>2, <1>5, Layout DEF CostAnswered, WaitInv
  <2>2. snap \in [Axes -> Answers] /\ snap["conc"] = admit[c].snap["conc"]
        /\ snap["cost"] = admit[c].heard["cost"] /\ snap["rate"] = admit[c].heard["rate"]
    BY <1>3, <2>1 DEF Axes, Answers, Spoken
  <2>3. IF Combined(snap) THEN Finalize(c, snap) ELSE Deny(c, snap)
    BY <1>5 DEF CostAnswered, SnapOf
  <2> HIDE DEF snap
  <2>4. CASE ~Combined(snap)
    BY <1>1, <1>2, <1>3, <2>2, <2>3, <2>4, Refused
  <2>5. ASSUME Combined(snap) PROVE VerdictInv'
    <3>1. admit[c].heard["cost"] = "allow"
      BY <2>1, <2>2, <2>5 DEF Combined, Axes, Spoken
    <3>2. HeldInv(admit[c])
      BY <1>3, <2>1, <3>1 DEF HeldInv, OnceAllowed
    <3> QED BY <1>1, <2>2, <2>3, <2>5, <3>2, Admitted
  <2> QED BY <2>4, <2>5
<1>6. CASE FusedAnswered(c)
  <2> DEFINE snap == [admit[c].snap EXCEPT !["rate"] = admit[c].heard["rate"], !["cost"] = admit[c].heard["cost"]]
  <2>1. admit[c].pc = "fusedAnswer" /\ admit[c].heard["cost"] \in Spoken /\ admit[c].heard["rate"] \in Spoken
        /\ layout.rate /\ layout.cost
    BY <1>2, <1>6 DEF FusedAnswered, WaitInv
  <2>2. snap \in [Axes -> Answers] /\ snap["conc"] = admit[c].snap["conc"]
        /\ snap["cost"] = admit[c].heard["cost"] /\ snap["rate"] = admit[c].heard["rate"]
    BY <1>3, <2>1 DEF Axes, Answers, Spoken
  <2>3. IF Combined(snap) THEN Finalize(c, snap) ELSE Deny(c, snap)
    BY <1>6 DEF FusedAnswered, SnapOf
  <2> HIDE DEF snap
  <2>4. CASE ~Combined(snap)
    BY <1>1, <1>2, <1>3, <2>2, <2>3, <2>4, Refused
  <2>5. ASSUME Combined(snap) PROVE VerdictInv'
    <3>1. admit[c].heard["cost"] = "allow" /\ admit[c].heard["rate"] = "allow"
      BY <2>1, <2>2, <2>5 DEF Combined, Axes, Spoken
    <3>2. HeldInv(admit[c])
      BY <1>3, <2>1, <3>1 DEF HeldInv, OnceAllowed
    <3> QED BY <1>1, <2>2, <2>3, <2>5, <3>2, Admitted
  <2> QED BY <2>4, <2>5
<1> QED BY <1>4, <1>5, <1>6

\* A throw and a release change nothing of what was heard.
LEMMA EndKeeps ==
    ASSUME VerdictInv, NEW c \in Admits, Thrown(c) \/ Release(c)
    PROVE  VerdictInv'
<1>1. admit[c] \in CallType /\ layout' = layout
  BY DEF VerdictInv, CallsTyped, Thrown, Release
<1>2. CASE Thrown(c)
  <2> DEFINE a == [admit[c] EXCEPT !.pc = "threw", !.slot = FALSE]
  <2>1. admit' = [admit EXCEPT ![c] = a] /\ a \in CallType /\ a.pc = "threw"
    BY <1>1, <1>2 DEF Thrown, CallType, Called, Over
  <2> QED BY <1>1, <2>1, OneCall DEF CallInv, Waiting
<1>3. CASE Release(c)
  <2> DEFINE a == [admit[c] EXCEPT !.pc = "released", !.slot = FALSE]
  <2>1. admit' = [admit EXCEPT ![c] = a] /\ a \in CallType /\ a.pc = "released" /\ a.heard = admit[c].heard
    BY <1>1, <1>3 DEF Release, CallType, Called, Over
  <2>2. HeldInv(admit[c])
    BY <1>3 DEF VerdictInv, CallInv, Release
  <2>3. HeldInv(a)
    BY <2>1, <2>2 DEF HeldInv
  <2> QED BY <1>1, <2>1, <2>3, OneCall DEF CallInv, Waiting
<1> QED BY <1>2, <1>3

\* VerdictInv is inductive.
LEMMA VerdictStep == VerdictInv /\ [UnifiedNext]_unifiedVars => VerdictInv'
<1> SUFFICES ASSUME VerdictInv, [UnifiedNext]_unifiedVars PROVE VerdictInv'
  OBVIOUS
<1>1. ASSUME NEW c \in Admits, NEW cost \in AdmitCosts, NEW value \in AdmitValues,
             Admit(c, [cost |-> cost, value |-> value]) \/ AdmitSync(c, [cost |-> cost, value |-> value])
      PROVE  VerdictInv'
  BY <1>1, AdmitKeeps, AdmitSyncKeeps
<1>2. ASSUME NEW c \in Admits, Answered(c) PROVE VerdictInv'
  BY <1>2, ServedKeeps, AnsweredKeeps DEF Answered
<1>3. ASSUME NEW c \in Admits, Thrown(c) \/ Release(c) PROVE VerdictInv'
  BY <1>3, EndKeeps
<1>4. CASE Replenish \/ UNCHANGED unifiedVars
  <2>1. layout' = layout /\ admit' = admit
    BY <1>4 DEF Replenish, unifiedVars
  <2> QED BY <2>1 DEF VerdictInv, CallsTyped, CallInv, WaitInv, HeldInv, DeniedInv
<1> QED BY <1>1, <1>2, <1>3, <1>4 DEF UnifiedNext

\* VerdictsAreOwn, for any number of concurrent admit() calls: nothing another call was
\* answered, and no report of lastDecisions(), gets into a verdict (unified.ts, the
\* per-call snapshot).
LEMMA VerdictsOwn == UnifiedSpec => []VerdictsAreOwn
<1>1. UnifiedInit => VerdictInv
  <2> SUFFICES ASSUME UnifiedInit PROVE VerdictInv
    OBVIOUS
  <2>1. FreshAdmit \in CallType /\ FreshAdmit.pc = "idle"
    BY DEF FreshAdmit, CallType, Called, NoSnap, Axes, Answers
  <2>2. CallInv(FreshAdmit)
    BY <2>1 DEF CallInv, Waiting
  <2> QED BY <2>1, <2>2 DEF UnifiedInit, VerdictInv, CallsTyped
<1>2. VerdictInv => VerdictsAreOwn
  <2> SUFFICES ASSUME VerdictInv, NEW c \in Admits
               PROVE  /\ admit[c].pc \in {"held", "released"} =>
                            /\ {x \in Axes : admit[c].heard[x] # "none"}
                               = {x \in Axes : CASE x = "conc" -> layout.conc [] x = "rate" -> layout.rate
                                                 [] OTHER -> layout.cost}
                            /\ \A x \in {y \in Axes : admit[c].heard[y] # "none"} : admit[c].heard[x] = "allow"
                      /\ admit[c].pc = "denied" =>
                            IF admit[c].lane = "policy"
                            THEN /\ {x \in Axes : admit[c].heard[x] # "none"} \subseteq {"conc"}
                                 /\ \A x \in {y \in Axes : admit[c].heard[y] # "none"} : admit[c].heard[x] = "allow"
                            ELSE admit[c].heard[admit[c].lane] = "deny"
    BY DEF VerdictsAreOwn
  <2>1. CallInv(admit[c]) /\ admit[c] \in CallType /\ layout \in Layouts
    BY DEF VerdictInv, CallsTyped
  <2>2. ASSUME admit[c].pc \in {"held", "released"}
        PROVE  \A x \in Axes : admit[c].heard[x] =
                  OnceAllowed(CASE x = "conc" -> layout.conc [] x = "rate" -> layout.rate [] OTHER -> layout.cost)
    BY <2>1, <2>2 DEF CallInv, HeldInv, Axes
  <2>3. ASSUME admit[c].pc = "denied" PROVE DeniedInv(admit[c]) /\ admit[c].heard \in [Axes -> Answers]
                                            /\ admit[c].lane \in Axes \cup {"none", "policy"}
    BY <2>1, <2>3 DEF CallInv, CallType
  <2>4. ASSUME admit[c].pc = "denied", admit[c].lane = "policy"
        PROVE  \A x \in Axes : admit[c].heard[x] # "none" => x = "conc" /\ admit[c].heard[x] = "allow"
    BY <2>3, <2>4 DEF DeniedInv, Axes, Answers
  <2>5. ASSUME admit[c].pc = "denied", admit[c].lane # "policy" PROVE admit[c].heard[admit[c].lane] = "deny"
    BY <2>3, <2>5 DEF DeniedInv
  <2> QED BY <2>2, <2>4, <2>5 DEF OnceAllowed
<1> QED BY <1>1, <1>2, VerdictStep, PTL DEF UnifiedSpec

----------------------------------------------------------------------------
(* The slots *)

Holders == {c \in Admits : admit[c].slot}
MayHold(a) == a.slot => layout.conc /\ a.pc \in Waiting \cup {"held"}

SlotInv ==
    /\ VerdictInv
    /\ IsFiniteSet(Holders) /\ inflight = Cardinality(Holders) /\ inflight <= ConcLimit
    /\ \A c \in Admits : MayHold(admit[c])

\* One call changes, and the count with it: by what it held before and holds after.
LEMMA OneHolder ==
    ASSUME SlotInv, VerdictInv', NEW c \in Admits, NEW a \in CallType,
           layout' = layout, admit' = [admit EXCEPT ![c] = a], MayHold(a),
           inflight' = inflight - (IF admit[c].slot THEN 1 ELSE 0) + (IF a.slot THEN 1 ELSE 0),
           a.slot => admit[c].slot \/ inflight < ConcLimit
    PROVE  SlotInv'
<1>1. admit \in [Admits -> CallType] /\ admit[c].slot \in BOOLEAN /\ a.slot \in BOOLEAN
  BY DEF SlotInv, VerdictInv, CallsTyped, CallType
<1>2. Holders' = IF a.slot THEN Holders \cup {c} ELSE Holders \ {c}
  BY <1>1 DEF Holders
<1>3. IsFiniteSet(Holders) /\ Cardinality(Holders) \in Nat
  BY FS_CardinalityType DEF SlotInv
<1>4. c \in Holders <=> admit[c].slot
  BY DEF Holders
<1>5. IsFiniteSet(Holders') /\ Cardinality(Holders') = inflight'
  <2>1. CASE a.slot
    BY <1>1, <1>2, <1>3, <1>4, <2>1, FS_AddElement DEF SlotInv
  <2>2. CASE ~a.slot
    BY <1>1, <1>2, <1>3, <1>4, <2>2, FS_RemoveElement DEF SlotInv
  <2> QED BY <1>1, <2>1, <2>2
<1>6. inflight' <= ConcLimit
  BY <1>1, <1>3, UnifiedAssumption DEF SlotInv
<1>7. ASSUME NEW d \in Admits PROVE MayHold(admit[d])'
  <2>1. admit'[d] = IF d = c THEN a ELSE admit[d]
    BY <1>1
  <2>2. MayHold(admit'[d])
    BY <2>1 DEF SlotInv
  <2> QED BY <2>2 DEF MayHold
<1> QED BY <1>5, <1>6, <1>7 DEF SlotInv

\* The synchronous part takes a slot only below the limit, and a call refused there takes none.
LEMMA AdmitCounts ==
    ASSUME SlotInv, VerdictInv', NEW c \in Admits, NEW q,
           Admit(c, q) \/ AdmitSync(c, q)
    PROVE  SlotInv'
<1>1. admit[c] \in CallType /\ layout \in Layouts /\ layout' = layout /\ admit[c].pc = "idle"
      /\ admit \in [Admits -> CallType]
  BY DEF SlotInv, VerdictInv, CallsTyped, Admit, AdmitAt, AdmitSync, AdmitSyncAt
<1>2. ~admit[c].slot
  BY <1>1 DEF SlotInv, MayHold, Waiting
<1>3. inflight \in Nat /\ (layout.conc /\ ~Full => inflight < ConcLimit)
  BY FS_CardinalityType, UnifiedAssumption DEF SlotInv, Full
<1>4. admit'[c] \in CallType /\ admit' = [admit EXCEPT ![c] = admit'[c]]
  BY <1>1 DEF VerdictInv, CallsTyped, Admit, AdmitAt, AdmitSync, AdmitSyncAt
<1>5. CASE Admit(c, q)
  <2> DEFINE asked == [FreshAdmit EXCEPT !.cost = q.cost, !.snap = ConcSnap, !.heard = ConcSnap]
             a == [asked EXCEPT !.pc = FirstWait, !.slot = layout.conc]
  <2>1. asked.slot = FALSE /\ [asked EXCEPT !.pc = "denied", !.lane = "conc"].slot = FALSE
        /\ [asked EXCEPT !.pc = "denied", !.lane = "policy"].slot = FALSE
        /\ a.slot = layout.conc /\ a.pc = FirstWait
    BY DEF FreshAdmit
  <2>2. \/ /\ admit' = [admit EXCEPT ![c] = [asked EXCEPT !.pc = "denied", !.lane = "conc"]]
           /\ inflight' = inflight
        \/ /\ admit' = [admit EXCEPT ![c] = [asked EXCEPT !.pc = "denied", !.lane = "policy"]]
           /\ inflight' = inflight
        \/ /\ ~Full /\ admit' = [admit EXCEPT ![c] = a]
           /\ inflight' = inflight + (IF layout.conc THEN 1 ELSE 0)
    BY <1>5, Zenon DEF Admit, AdmitAt
  <2>3. admit'[c].slot => layout.conc /\ ~Full /\ admit'[c].pc = FirstWait
    BY <1>1, <2>1, <2>2
  <2>4. \/ admit'[c].slot = FALSE /\ inflight' = inflight
        \/ admit'[c].slot = layout.conc /\ inflight' = inflight + (IF layout.conc THEN 1 ELSE 0)
    BY <1>1, <2>1, <2>2
  <2>5. inflight' = inflight + (IF admit'[c].slot THEN 1 ELSE 0)
    <3>1. CASE layout.conc = TRUE
      BY <1>3, <2>4, <3>1
    <3>2. CASE layout.conc = FALSE
      BY <1>3, <2>4, <3>2
    <3> QED BY <1>1, <3>1, <3>2, Layout
  <2>6. MayHold(admit'[c])
    BY <2>3 DEF MayHold, FirstWait, Waiting
  <2> QED BY <1>1, <1>2, <1>3, <1>4, <2>3, <2>5, <2>6, OneHolder
<1>6. CASE AdmitSync(c, q)
  <2>1. admit'[c].slot => layout.conc /\ ~Full /\ admit'[c].pc = "held"
    BY <1>1, <1>6, Layout DEF AdmitSync, AdmitSyncAt, FreshAdmit
  <2>2. inflight' = inflight + (IF admit'[c].slot THEN 1 ELSE 0)
    BY <1>1, <1>3, <1>6, Layout DEF AdmitSync, AdmitSyncAt, FreshAdmit
  <2>3. MayHold(admit'[c])
    BY <2>1 DEF MayHold
  <2> QED BY <1>1, <1>2, <1>3, <1>4, <2>1, <2>2, <2>3, OneHolder
<1> QED BY <1>5, <1>6

\* Between its awaits a call keeps its slot, and hands it back when it is refused.
LEMMA AnswersCount ==
    ASSUME SlotInv, VerdictInv', NEW c \in Admits, Answered(c)
    PROVE  SlotInv'
<1>1. admit[c] \in CallType /\ layout' = layout /\ admit[c].pc \in Waiting
      /\ admit \in [Admits -> CallType]
  BY DEF SlotInv, VerdictInv, CallsTyped, Answered, RateServed, RateAnswered, CostServed, CostAnswered,
         FusedServed, FusedAnswered, Waiting
<1>2. admit'[c] \in CallType /\ admit' = [admit EXCEPT ![c] = admit'[c]]
  BY <1>1 DEF VerdictInv, CallsTyped, Answered, RateServed, RateAnswered, CostServed, CostAnswered,
              FusedServed, FusedAnswered, Deny, Finalize
<1>3. inflight \in Nat
  BY FS_CardinalityType DEF SlotInv
<1>4. \/ /\ admit'[c].slot = admit[c].slot /\ inflight' = inflight
         /\ admit'[c].pc \in Waiting \cup {"held"}
      \/ admit'[c].slot = FALSE /\ inflight' = Returned(c)
  BY <1>1 DEF Answered, RateServed, RateAnswered, CostServed, CostAnswered,
              FusedServed, FusedAnswered, Deny, Finalize, Waiting, CallType
<1>5. MayHold(admit[c]) /\ admit[c].slot \in BOOLEAN
  BY <1>1 DEF SlotInv, CallType
<1>6. MayHold(admit'[c])
  BY <1>4, <1>5 DEF MayHold
<1> QED BY <1>1, <1>2, <1>3, <1>4, <1>5, <1>6, OneHolder DEF Returned

\* A throw and a release hand the slot back.
LEMMA EndsCount ==
    ASSUME SlotInv, VerdictInv', NEW c \in Admits, Thrown(c) \/ Release(c)
    PROVE  SlotInv'
<1>1. admit[c] \in CallType /\ layout' = layout /\ admit \in [Admits -> CallType]
  BY DEF SlotInv, VerdictInv, CallsTyped, Thrown, Release
<1>2. admit'[c] \in CallType /\ admit' = [admit EXCEPT ![c] = admit'[c]]
  BY <1>1 DEF VerdictInv, CallsTyped, Thrown, Release
<1>3. inflight \in Nat /\ admit'[c].slot = FALSE /\ inflight' = Returned(c)
  BY <1>1, FS_CardinalityType DEF SlotInv, Thrown, Release, CallType
<1> QED BY <1>1, <1>2, <1>3, OneHolder DEF Returned, MayHold, CallType

LEMMA UnifiedInitial == UnifiedInit => VerdictInv /\ SlotInv
<1>1. UnifiedInit => VerdictInv
  <2> SUFFICES ASSUME UnifiedInit PROVE VerdictInv
    OBVIOUS
  <2>1. FreshAdmit \in CallType /\ FreshAdmit.pc = "idle"
    BY DEF FreshAdmit, CallType, Called, NoSnap, Axes, Answers
  <2> QED BY <2>1 DEF UnifiedInit, VerdictInv, CallsTyped, CallInv, Waiting
<1>2. UnifiedInit => SlotInv
  <2> SUFFICES ASSUME UnifiedInit PROVE SlotInv
    OBVIOUS
  <2>1. Holders = {} /\ \A c \in Admits : MayHold(admit[c])
    BY DEF UnifiedInit, Holders, FreshAdmit, MayHold
  <2> QED BY <1>1, <2>1, FS_EmptySet, UnifiedAssumption DEF UnifiedInit, SlotInv
<1> QED BY <1>1, <1>2

\* SlotInv is inductive.
LEMMA SlotStep == SlotInv /\ [UnifiedNext]_unifiedVars => SlotInv'
<1> SUFFICES ASSUME SlotInv, [UnifiedNext]_unifiedVars PROVE SlotInv'
  OBVIOUS
<1>1. VerdictInv'
  BY VerdictStep DEF SlotInv
<1>2. ASSUME NEW c \in Admits, NEW cost \in AdmitCosts, NEW value \in AdmitValues,
             Admit(c, [cost |-> cost, value |-> value]) \/ AdmitSync(c, [cost |-> cost, value |-> value])
      PROVE  SlotInv'
  BY <1>1, <1>2, AdmitCounts
<1>3. ASSUME NEW c \in Admits, Answered(c) PROVE SlotInv'
  BY <1>1, <1>3, AnswersCount
<1>4. ASSUME NEW c \in Admits, Thrown(c) \/ Release(c) PROVE SlotInv'
  BY <1>1, <1>4, EndsCount
<1>5. CASE Replenish \/ UNCHANGED unifiedVars
  <2>1. layout' = layout /\ admit' = admit /\ inflight' = inflight
    BY <1>5 DEF Replenish, unifiedVars
  <2> QED BY <1>1, <2>1 DEF SlotInv, Holders, MayHold
<1> QED BY <1>2, <1>3, <1>4, <1>5 DEF UnifiedNext

\* SlotsConserved, and the limit it keeps: whatever interleaves, the guard counts the calls
\* that hold a slot, never more than its limit, and only a call under way or admitted holds
\* one (unified.ts, the short circuits, the catch and the release).
LEMMA SlotsCounted == UnifiedSpec => [](SlotsConserved /\ inflight \in 0..ConcLimit)
<1>1. UnifiedInit => SlotInv
  BY UnifiedInitial
<1>2. SlotInv => SlotsConserved /\ inflight \in 0..ConcLimit
  BY FS_CardinalityType, UnifiedAssumption DEF SlotInv, SlotsConserved, Holders, MayHold
<1> QED BY <1>1, <1>2, SlotStep, PTL DEF UnifiedSpec

----------------------------------------------------------------------------
(* What is left of the axes, the sample and the report *)

Arrivals == [cost : AdmitCosts, value : AdmitValues]
WarmInv(w) ==
    /\ w = [active |-> w.active, buf |-> w.buf, frozen |-> w.frozen]
    /\ w.frozen \in BOOLEAN /\ w.buf \in Seq(Arrivals) /\ Len(w.buf) < SampleWindow
LeftType == [rate : 0..RateUnits, cost : 0..CostUnits]
RestInv == left \in LeftType /\ WarmInv(warm) /\ lastSnap \in [Axes -> Answers]

\* The sample is emptied for good when its window is full.
LEMMA RefinedKeeps ==
    ASSUME NEW w, WarmInv(w), NEW a \in Arrivals
    PROVE  WarmInv(Refined(w, a))
<1>1. CASE w.frozen
  BY <1>1 DEF Refined
<1>2. CASE ~w.frozen /\ Len(Append(w.buf, a)) < SampleWindow
  <2>1. Refined(w, a) = [w EXCEPT !.buf = Append(w.buf, a)]
    BY <1>2 DEF Refined
  <2>2. Append(w.buf, a) \in Seq(Arrivals)
    BY DEF WarmInv
  <2> QED BY <1>2, <2>1, <2>2 DEF WarmInv
<1>3. CASE ~w.frozen /\ ~(Len(Append(w.buf, a)) < SampleWindow)
  <2>1. \E x : Refined(w, a) = [active |-> x, buf |-> <<>>, frozen |-> TRUE]
    BY <1>3 DEF Refined
  <2> QED BY <2>1, UnifiedAssumption DEF WarmInv
<1> QED BY <1>1, <1>2, <1>3

LEMMA AxisLeftKeeps ==
    ASSUME NEW most \in Nat, NEW has \in 0..most, NEW n \in Nat
    PROVE  AxisLeft(has, n) \in 0..most
BY DEF AxisLeft

\* An axis never owes a unit nor has more than it started with.
LEMMA LeftKeeps == VerdictInv /\ left \in LeftType /\ [UnifiedNext]_unifiedVars => left' \in LeftType
<1> SUFFICES ASSUME VerdictInv, left \in LeftType, [UnifiedNext]_unifiedVars PROVE left' \in LeftType
  OBVIOUS
<1>0. /\ RateUnits \in Nat /\ CostUnits \in Nat /\ AdmitCosts \subseteq Nat
      /\ left = [rate |-> left.rate, cost |-> left.cost] /\ left.rate \in 0..RateUnits /\ left.cost \in 0..CostUnits
  BY UnifiedAssumption DEF LeftType
<1>1. ASSUME NEW n \in Nat PROVE AxisLeft(left.rate, n) \in 0..RateUnits /\ AxisLeft(left.cost, n) \in 0..CostUnits
  BY <1>0, AxisLeftKeeps
<1>2. ASSUME NEW c \in Admits PROVE admit[c].cost \in Nat
  BY <1>0 DEF VerdictInv, CallsTyped, CallType
<1>3. ASSUME NEW c \in Admits, NEW cost \in AdmitCosts, NEW value,
             Admit(c, [cost |-> cost, value |-> value]) PROVE left' \in LeftType
  BY <1>3 DEF Admit, AdmitAt
<1>4. ASSUME NEW c \in Admits, NEW cost \in AdmitCosts, NEW value,
             AdmitSync(c, [cost |-> cost, value |-> value]) PROVE left' \in LeftType
  <2>1. \E r, s \in BOOLEAN : left' = [rate |-> IF r THEN left.rate ELSE AxisLeft(left.rate, 1),
                                      cost |-> IF s THEN left.cost ELSE AxisLeft(left.cost, cost)]
    BY <1>4 DEF AdmitSync, AdmitSyncAt
  <2> QED BY <1>0, <1>1, <2>1 DEF LeftType
<1>5. ASSUME NEW c \in Admits, Answered(c) \/ Thrown(c) \/ Release(c) PROVE left' \in LeftType
  <2>1. RateServed(c) => left' = [left EXCEPT !.rate = AxisLeft(left.rate, 1)]
    BY DEF RateServed
  <2>2. CostServed(c) => left' = [left EXCEPT !.cost = AxisLeft(left.cost, admit[c].cost)]
    BY DEF CostServed
  <2>3. FusedServed(c) => left' = [rate |-> AxisLeft(left.rate, 1), cost |-> AxisLeft(left.cost, admit[c].cost)]
    BY DEF FusedServed, FusedLeft
  <2>4. RateServed(c) \/ CostServed(c) \/ FusedServed(c) \/ left' = left
    BY <1>5 DEF Answered, RateAnswered, CostAnswered, FusedAnswered, Thrown, Release
  <2> QED BY <1>0, <1>1, <1>2, <2>1, <2>2, <2>3, <2>4 DEF LeftType
<1>6. CASE Replenish
  BY <1>0, <1>6 DEF Replenish, LeftType
<1>7. CASE UNCHANGED unifiedVars
  BY <1>7 DEF unifiedVars
<1> QED BY <1>3, <1>4, <1>5, <1>6, <1>7 DEF UnifiedNext

LEMMA RestKeeps == VerdictInv /\ VerdictInv' /\ RestInv /\ [UnifiedNext]_unifiedVars => RestInv'
<1> SUFFICES ASSUME VerdictInv, VerdictInv', RestInv, [UnifiedNext]_unifiedVars PROVE RestInv'
  OBVIOUS
<1>1. left' \in LeftType
  BY LeftKeeps DEF RestInv
<1>2. warm' = warm \/ \E a \in Arrivals : warm' = Refined(warm, a)
  <2>1. ASSUME NEW c \in Admits, NEW cost \in AdmitCosts, NEW value \in AdmitValues,
               Admit(c, [cost |-> cost, value |-> value]) \/ AdmitSync(c, [cost |-> cost, value |-> value])
        PROVE  warm' = warm \/ warm' = Refined(warm, [cost |-> cost, value |-> value])
    BY <2>1 DEF Admit, AdmitAt, AdmitSync, AdmitSyncAt
  <2>2. ASSUME NEW c \in Admits, Answered(c) \/ Thrown(c) \/ Release(c) PROVE warm' = warm
    BY <2>2 DEF Answered, RateServed, RateAnswered, CostServed, CostAnswered, FusedServed, FusedAnswered,
                Thrown, Release
  <2>3. CASE Replenish \/ UNCHANGED unifiedVars
    BY <2>3 DEF Replenish, unifiedVars
  <2> QED BY <2>1, <2>2, <2>3 DEF UnifiedNext, Arrivals
<1>3. lastSnap' = lastSnap \/ \E c \in Admits : lastSnap' = admit'[c].snap
  <2>0. admit \in [Admits -> CallType]
    BY DEF VerdictInv, CallsTyped
  <2>1. ASSUME NEW c \in Admits, NEW q, Admit(c, q)
        PROVE  lastSnap' = lastSnap \/ lastSnap' = admit'[c].snap
    <3>1. lastSnap' = lastSnap \/ lastSnap' = ConcSnap
      BY <2>1 DEF Admit, AdmitAt
    <3>2. admit'[c].snap = ConcSnap
      BY <2>0, <2>1, Zenon DEF Admit, AdmitAt, FreshAdmit
    <3> QED BY <3>1, <3>2
  <2>2. ASSUME NEW c \in Admits, NEW q, AdmitSync(c, q) PROVE lastSnap' = admit'[c].snap
    <3> DEFINE stopped == Full \/ Filtered(Refined(warm, q), q)
               rate == IF layout.rate /\ ~stopped THEN AxisAnswer(left.rate, 1) ELSE "none"
               cst == IF layout.cost /\ ~stopped /\ rate # "deny" THEN AxisAnswer(left.cost, q.cost) ELSE "none"
               snap == [ConcSnap EXCEPT !["rate"] = rate, !["cost"] = cst]
               asked == [FreshAdmit EXCEPT !.cost = q.cost, !.snap = snap, !.heard = snap]
               a == IF ~stopped /\ Combined(snap) THEN [asked EXCEPT !.pc = "held", !.slot = layout.conc]
                    ELSE [asked EXCEPT !.pc = "denied", !.lane = Binding(snap)]
    <3>1. lastSnap' = snap /\ admit' = [admit EXCEPT ![c] = a]
      BY <2>2 DEF AdmitSync, AdmitSyncAt
    <3> HIDE DEF snap
    <3>2. asked.snap = snap /\ "snap" \in DOMAIN asked
      BY DEF FreshAdmit
    <3> HIDE DEF asked
    <3>3. a.snap = snap
      BY <3>2
    <3> HIDE DEF a
    <3> QED BY <2>0, <3>1, <3>3
  <2>3. ASSUME NEW c \in Admits, Answered(c) PROVE lastSnap' = lastSnap \/ lastSnap' = admit'[c].snap
    <3>1. \/ lastSnap' = lastSnap
          \/ \E snap : Deny(c, snap) \/ Finalize(c, snap)
      BY <2>3, Zenon DEF Answered, RateServed, RateAnswered, CostServed, CostAnswered, FusedServed, FusedAnswered
    <3>2. ASSUME NEW snap, Deny(c, snap) \/ Finalize(c, snap) PROVE lastSnap' = snap /\ admit'[c].snap = snap
      <4>1. admit[c] \in CallType
        BY <2>0
      <4>2. lastSnap' = snap
        BY <3>2 DEF Deny, Finalize
      <4>3. \/ \E x : admit' = [admit EXCEPT ![c].pc = "denied", ![c].snap = snap, ![c].slot = FALSE, ![c].lane = x]
            \/ admit' = [admit EXCEPT ![c].pc = "held", ![c].snap = snap]
        BY <3>2 DEF Deny, Finalize
      <4> QED BY <2>0, <4>1, <4>2, <4>3 DEF CallType
    <3> QED BY <3>1, <3>2
  <2>4. ASSUME NEW c \in Admits, Thrown(c) \/ Release(c) PROVE lastSnap' = lastSnap
    BY <2>4 DEF Thrown, Release
  <2>5. CASE Replenish \/ UNCHANGED unifiedVars
    BY <2>5 DEF Replenish, unifiedVars
  <2> QED BY <2>1, <2>2, <2>3, <2>4, <2>5 DEF UnifiedNext
<1>4. WarmInv(warm')
  BY <1>2, RefinedKeeps DEF RestInv
<1>5. lastSnap' \in [Axes -> Answers]
  BY <1>3 DEF RestInv, VerdictInv, CallsTyped, CallType
<1> QED BY <1>1, <1>4, <1>5 DEF RestInv, WarmInv

\* The type invariant of the component: the sample of the warm-up never fills, and the axes keep within
\* what they started with.
LEMMA UnifiedTypes == UnifiedSpec => []UnifiedTypeOK
<1>1. UnifiedInit => VerdictInv /\ SlotInv
  BY UnifiedInitial
<1>2. UnifiedInit => RestInv
  <2> SUFFICES ASSUME UnifiedInit PROVE RestInv
    OBVIOUS
  <2>1. left \in LeftType /\ lastSnap \in [Axes -> Answers]
    BY UnifiedAssumption DEF UnifiedInit, LeftType, NoSnap, Answers
  <2>2. \E x : \E b \in BOOLEAN : warm = [active |-> x, buf |-> <<>>, frozen |-> b]
    BY DEF UnifiedInit
  <2>3. WarmInv(warm)
    BY <2>2, UnifiedAssumption DEF WarmInv
  <2> QED BY <2>1, <2>3 DEF RestInv
<1>3. SlotInv /\ RestInv /\ [UnifiedNext]_unifiedVars => SlotInv' /\ RestInv'
  BY SlotStep, RestKeeps DEF SlotInv
<1>4. SlotInv /\ RestInv => UnifiedTypeOK
  <2> SUFFICES ASSUME SlotInv, RestInv PROVE UnifiedTypeOK
    OBVIOUS
  <2>1. inflight \in 0..ConcLimit
    BY FS_CardinalityType, UnifiedAssumption DEF SlotInv
  <2>2. layout \in Layouts /\ admit \in [Admits -> CallType]
    BY DEF SlotInv, VerdictInv, CallsTyped
  <2>3. Called = Waiting \cup Over \cup {"idle"}
    BY DEF Called
  <2> QED BY <2>1, <2>2, <2>3 DEF UnifiedTypeOK, RestInv, LeftType, WarmInv, CallType
<1> QED BY <1>1, <1>2, <1>3, <1>4, PTL DEF UnifiedSpec

----------------------------------------------------------------------------
(* The leases of the door *)

Taken == {c \in Calls : slot[c] = "taken"}
CallStates == {"idle", "waiting", "held", "denied", "failed"}
SlotStates == {"none", "taken", "back", "dropped", "reclaimed"}

\* A slot is taken as long as its admit is under way or its lease is in the table, and the table holds the
\* deadline that was told.
LeaseInv ==
    /\ dnow \in 0..DoorSpan
    /\ call \in [Calls -> CallStates] /\ slot \in [Calls -> SlotStates] /\ told \in [Calls -> Int]
    /\ DOMAIN leases \subseteq Calls /\ leases = [c \in DOMAIN leases |-> told[c]]
    /\ IsFiniteSet(Taken) /\ busy = Cardinality(Taken) /\ busy <= GuardSlots
    /\ \A c \in Calls : slot[c] = "taken" <=> call[c] = "waiting" \/ c \in DOMAIN leases
    /\ \A c \in DOMAIN leases : call[c] = "held"

\* Leases that leave the table give back the slots they stand for, each one.
LEMMA RemovedKeeps ==
    ASSUME LeaseInv, NEW S \in SUBSET DOMAIN leases, NEW how \in SlotStates \ {"taken"},
           leases' = Removed(S, how).l, slot' = Removed(S, how).s, busy' = Removed(S, how).n,
           UNCHANGED <<dnow, call, told>>
    PROVE  LeaseInv'
<1>1. \A c \in S : slot[c] = "taken" /\ c \in Calls /\ call[c] # "waiting"
  BY DEF LeaseInv
<1>2. slot' = [c \in Calls |-> IF c \in S THEN how ELSE slot[c]]
  <2>1. slot' = [c \in Calls |-> IF c \in S THEN Freed(c, how)[c] ELSE slot[c]]
    BY DEF Removed
  <2>2. \A c \in S : Freed(c, how)[c] = how
    BY <1>1 DEF Freed, LeaseInv
  <2> QED BY <2>1, <2>2
<1>3. leases' = [c \in DOMAIN leases \ S |-> leases[c]]
  BY DEF Removed
<1>4. busy' = busy - Cardinality({c \in S : slot[c] = "taken"}) /\ {c \in S : slot[c] = "taken"} = S
  BY <1>1 DEF Removed, FreedCount
<1>5. Taken' = Taken \ S /\ Taken \cap S = S
  BY <1>1, <1>2 DEF Taken
<1>6. IsFiniteSet(Taken) /\ IsFiniteSet(Taken') /\ Cardinality(Taken') = Cardinality(Taken) - Cardinality(S)
  <2>1. IsFiniteSet(Taken)
    BY DEF LeaseInv
  <2>2. IsFiniteSet(Taken \ S) /\ Cardinality(Taken \ S) = Cardinality(Taken) - Cardinality(Taken \cap S)
    BY <2>1, FS_Difference
  <2> QED BY <1>5, <2>1, <2>2
<1>7. Cardinality(S) \in Nat /\ Cardinality(Taken) \in Nat
  <2>1. S \subseteq Taken
    BY <1>5
  <2> QED BY <1>6, <2>1, FS_Subset, FS_CardinalityType
<1>8. busy' = Cardinality(Taken') /\ busy' <= GuardSlots
  <2>1. busy' = busy - Cardinality(S) /\ busy = Cardinality(Taken) /\ busy <= GuardSlots
    BY <1>4 DEF LeaseInv
  <2> QED BY <1>6, <1>7, <2>1, DoorAssumption
<1>9. DOMAIN leases' = DOMAIN leases \ S /\ leases' = [c \in DOMAIN leases' |-> told'[c]]
  BY <1>3 DEF LeaseInv
<1>10. /\ \A c \in Calls : slot'[c] = "taken" <=> call'[c] = "waiting" \/ c \in DOMAIN leases'
       /\ \A c \in DOMAIN leases' : call'[c] = "held"
  BY <1>1, <1>2, <1>9 DEF LeaseInv
<1>11. slot' \in [Calls -> SlotStates]
  BY <1>2 DEF LeaseInv
<1> QED BY <1>6, <1>8, <1>9, <1>10, <1>11 DEF LeaseInv

LEMMA LeaseStepKeeps ==
    ASSUME LeaseInv, LeaseStep
    PROVE  /\ LeaseInv'
           /\ \A c \in Calls : slot[c] = "taken" /\ slot'[c] = "reclaimed" => told[c] <= dnow
<1>0. /\ IsFiniteSet(Taken) /\ Cardinality(Taken) \in Nat /\ busy \in Nat
      /\ GuardSlots \in Nat /\ LeaseTtl \in Nat /\ DoorSpan \in Nat
  BY FS_CardinalityType, DoorAssumption DEF LeaseInv
<1>1. ASSUME NEW c \in Calls, AdmitCall(c)
      PROVE  LeaseInv' /\ \A d \in Calls : slot'[d] # "reclaimed" \/ slot'[d] = slot[d]
  <2>1. slot[c] # "taken" /\ c \notin DOMAIN leases
    BY <1>1 DEF LeaseInv, AdmitCall
  <2>2. CASE busy < GuardSlots
    <3>1. slot' = [slot EXCEPT ![c] = "taken"] /\ call' = [call EXCEPT ![c] = "waiting"] /\ busy' = busy + 1
          /\ UNCHANGED <<dnow, leases, told>>
      BY <1>0, <1>1, <2>2 DEF AdmitCall
    <3>2. Taken' = Taken \cup {c} /\ c \notin Taken
      <4>1. slot \in [Calls -> SlotStates]
        BY DEF LeaseInv
      <4> QED BY <2>1, <3>1, <4>1 DEF Taken
    <3>3. IsFiniteSet(Taken \cup {c}) /\ Cardinality(Taken \cup {c}) = Cardinality(Taken) + 1
      BY <1>0, <3>2, FS_AddElement
    <3>4. busy' = Cardinality(Taken') /\ busy' <= GuardSlots /\ IsFiniteSet(Taken')
      BY <1>0, <2>2, <3>1, <3>2, <3>3 DEF LeaseInv
    <3>5. /\ call' \in [Calls -> CallStates] /\ slot' \in [Calls -> SlotStates]
          /\ \A d \in Calls : slot'[d] = "taken" <=> call'[d] = "waiting" \/ d \in DOMAIN leases
          /\ \A d \in DOMAIN leases : call'[d] = "held"
      BY <2>1, <3>1 DEF LeaseInv, CallStates, SlotStates
    <3> QED BY <3>1, <3>4, <3>5 DEF LeaseInv
  <2>3. CASE ~(busy < GuardSlots)
    <3>1. call' = [call EXCEPT ![c] = "denied"] /\ UNCHANGED <<dnow, leases, told, slot, busy>>
      BY <1>1, <2>3 DEF AdmitCall
    <3>2. Taken' = Taken
      BY <3>1 DEF Taken
    <3>3. /\ call' \in [Calls -> CallStates]
          /\ \A d \in Calls : slot'[d] = "taken" <=> call'[d] = "waiting" \/ d \in DOMAIN leases
          /\ \A d \in DOMAIN leases : call'[d] = "held"
      BY <1>1, <2>1, <3>1 DEF LeaseInv, CallStates, AdmitCall
    <3> QED BY <3>1, <3>2, <3>3 DEF LeaseInv
  <2> QED BY <2>2, <2>3
<1>2. ASSUME NEW c \in Calls, Mint(c) PROVE LeaseInv' /\ slot' = slot
  <2>1. slot[c] = "taken" /\ UNCHANGED <<dnow, slot, busy>> /\ call' = [call EXCEPT ![c] = "held"]
        /\ told' = [told EXCEPT ![c] = dnow + LeaseTtl] /\ call[c] = "waiting"
    BY <1>2 DEF Mint, LeaseInv
  <2>2. leases' = [x \in DOMAIN leases \cup {c} |-> told'[x]]
    BY <1>2, <2>1 DEF Mint, LeaseInv
  <2>3. /\ call' \in [Calls -> CallStates] /\ told' \in [Calls -> Int]
        /\ \A d \in Calls : slot'[d] = "taken" <=> call'[d] = "waiting" \/ d \in DOMAIN leases'
        /\ \A d \in DOMAIN leases' : call'[d] = "held"
    BY <1>0, <2>1, <2>2 DEF LeaseInv, CallStates
  <2>4. DOMAIN leases' = DOMAIN leases \cup {c} /\ Taken' = Taken
    BY <2>1, <2>2 DEF Taken
  <2> QED BY <2>1, <2>2, <2>3, <2>4 DEF LeaseInv
<1>3. ASSUME NEW c \in Calls, NEW how \in {"denied", "failed"}, Refuse(c, how)
      PROVE  LeaseInv' /\ \A d \in Calls : slot'[d] # "reclaimed" \/ slot'[d] = slot[d]
  <2>1. slot[c] = "taken" /\ UNCHANGED <<dnow, leases, told>> /\ call' = [call EXCEPT ![c] = how]
        /\ call[c] = "waiting" /\ c \notin DOMAIN leases
    BY <1>3 DEF Refuse, LeaseInv
  <2>2. slot' = [slot EXCEPT ![c] = "back"] /\ {d \in {c} : slot[d] = "taken"} = {c}
    BY <1>3, <2>1 DEF Refuse, Freed
  <2>3. busy' = busy - 1
    BY <1>3, <2>2, FS_Singleton DEF Refuse, FreedCount
  <2>4. Taken' = Taken \ {c} /\ c \in Taken
    BY <2>1, <2>2 DEF Taken, LeaseInv
  <2>5. IsFiniteSet(Taken') /\ Cardinality(Taken') = busy - 1
    BY <1>0, <2>4, FS_RemoveElement DEF LeaseInv
  <2>6. busy' = Cardinality(Taken') /\ busy' <= GuardSlots
    BY <1>0, <2>3, <2>5 DEF LeaseInv
  <2>7. /\ call' \in [Calls -> CallStates] /\ slot' \in [Calls -> SlotStates]
        /\ \A d \in Calls : slot'[d] = "taken" <=> call'[d] = "waiting" \/ d \in DOMAIN leases
        /\ \A d \in DOMAIN leases : call'[d] = "held"
    BY <2>1, <2>2 DEF LeaseInv, CallStates, SlotStates
  <2>8. \A d \in Calls : slot'[d] # "reclaimed" \/ slot'[d] = slot[d]
    BY <2>2 DEF LeaseInv
  <2> QED BY <2>1, <2>5, <2>6, <2>7, <2>8 DEF LeaseInv
<1>4. ASSUME NEW c \in Calls, NEW dropped \in BOOLEAN, ReleaseLease(c, dropped)
      PROVE  LeaseInv' /\ \A d \in Calls : slot'[d] # "reclaimed" \/ slot'[d] = slot[d]
  <2> DEFINE how == IF dropped THEN "dropped" ELSE "back"
             S == {c} \cap DOMAIN leases
  <2>1. how \in SlotStates \ {"taken", "reclaimed"}
    BY DEF SlotStates
  <2> HIDE DEF how
  <2>2. leases' = Removed(S, how).l /\ slot' = Removed(S, how).s /\ busy' = Removed(S, how).n
        /\ UNCHANGED <<dnow, call, told>>
    BY <1>4 DEF ReleaseLease, how
  <2>3. LeaseInv'
    BY <2>1, <2>2, RemovedKeeps
  <2>4. slot' = [d \in Calls |-> IF d \in S THEN Freed(d, how)[d] ELSE slot[d]]
    BY <2>2 DEF Removed
  <2>5. \A d \in Calls : Freed(d, how)[d] = how \/ Freed(d, how)[d] = slot[d]
    BY DEF Freed, LeaseInv
  <2> QED BY <2>1, <2>3, <2>4, <2>5
<1>5. ASSUME NEW ids \in SUBSET Calls, Heartbeat(ids) PROVE LeaseInv' /\ slot' = slot
  <2>1. UNCHANGED <<dnow, call, slot, busy>> /\ Taken' = Taken
    BY <1>5 DEF Heartbeat, Taken
  <2>2. DOMAIN leases' = DOMAIN leases /\ leases' = [c \in DOMAIN leases |-> told'[c]]
    BY <1>5 DEF Heartbeat, Renewed, LeaseInv
  <2>3. told' \in [Calls -> Int]
    BY <1>0, <1>5 DEF Heartbeat, LeaseInv
  <2> QED BY <2>1, <2>2, <2>3 DEF LeaseInv
<1>6. ASSUME Sweep PROVE LeaseInv' /\ \A d \in Calls : slot[d] = "taken" /\ slot'[d] = "reclaimed" => told[d] <= dnow
  <2>1. Overdue \subseteq DOMAIN leases /\ \A d \in Overdue : told[d] <= dnow
    BY DEF Overdue, LeaseInv
  <2>2. leases' = Removed(Overdue, "reclaimed").l /\ slot' = Removed(Overdue, "reclaimed").s
        /\ busy' = Removed(Overdue, "reclaimed").n /\ UNCHANGED <<dnow, call, told>>
    BY <1>6 DEF Sweep
  <2>3. LeaseInv'
    BY <2>1, <2>2, RemovedKeeps DEF SlotStates
  <2>4. \A d \in Calls : d \notin Overdue => slot'[d] = slot[d]
    BY <2>2 DEF Removed
  <2> QED BY <2>1, <2>3, <2>4
<1>7. ASSUME DoorTick PROVE LeaseInv' /\ slot' = slot
  <2>1. dnow' \in 0..DoorSpan /\ UNCHANGED <<call, slot, busy, leases, told>> /\ Taken' = Taken
    BY <1>0, <1>7 DEF DoorTick, LeaseInv, Taken
  <2> QED BY <2>1 DEF LeaseInv
<1> QED BY <1>1, <1>2, <1>3, <1>4, <1>5, <1>6, <1>7 DEF LeaseStep
\* LeaseInv holds however admits, releases, heartbeats and the sweep interleave, and the sweep takes back
\* no slot before the deadline its client was told.
LeaseSpec == DoorInit /\ [][LeaseNext \/ MeterNext]_doorVars

LEMMA LeaseInitial == DoorInit => LeaseInv
<1> SUFFICES ASSUME DoorInit PROVE LeaseInv
  OBVIOUS
<1>1. Taken = {} /\ DOMAIN leases = {}
  BY DEF DoorInit, Taken
<1>2. call \in [Calls -> CallStates] /\ slot \in [Calls -> SlotStates] /\ told \in [Calls -> Int]
  BY DEF DoorInit, CallStates, SlotStates
<1>3. \A c \in Calls : call[c] = "idle" /\ slot[c] = "none"
  BY DEF DoorInit
<1>4. leases = [c \in DOMAIN leases |-> told[c]]
  BY <1>1 DEF DoorInit
<1>5. dnow \in 0..DoorSpan /\ busy = 0 /\ busy <= GuardSlots
  BY DoorAssumption DEF DoorInit
<1> QED BY <1>1, <1>2, <1>3, <1>4, <1>5, FS_EmptySet DEF LeaseInv

LEMMA LeaseKeeps ==
    ASSUME LeaseInv, [LeaseNext \/ MeterNext]_doorVars
    PROVE  /\ LeaseInv'
           /\ \A c \in Calls : slot[c] = "taken" /\ slot'[c] = "reclaimed" => told[c] <= dnow
<1>1. CASE LeaseNext
  BY <1>1, LeaseStepKeeps DEF LeaseNext
<1>2. CASE MeterNext \/ UNCHANGED doorVars
  <2>1. UNCHANGED <<dnow, call, slot, busy, leases, told>>
    BY <1>2 DEF MeterNext, DebitKey, Look, Misdirected, doorVars, leaseVars
  <2>2. Taken' = Taken
    BY <2>1 DEF Taken
  <2> QED BY <2>1, <2>2 DEF LeaseInv
<1> QED BY <1>1, <1>2

----------------------------------------------------------------------------
(* The meters of the door *)

Dearest == CHOOSE n \in MeterSizes : \A m \in MeterSizes : m <= n
MostOfMeter == MeterBudget - 1 + Dearest

LEMMA DearestSize == Dearest \in Nat /\ \A m \in MeterSizes : m \in Nat /\ m <= Dearest
<1>1. MeterSizes \subseteq Nat /\ \E n \in MeterSizes : \A m \in MeterSizes : m <= n
  BY DoorAssumption
<1>2. Dearest \in MeterSizes /\ \A m \in MeterSizes : m <= Dearest
  BY <1>1, Zenon DEF Dearest
<1> QED BY <1>1, <1>2

\* A key has used its budget once for every meter built for it but the last, whose spend the cache knows;
\* of a fleet budget it has used what the store knows.
KeyInv(k) ==
    /\ spent[k] <= MostOfMeter
    /\ IF shared THEN charged[k] = spent[k]
       ELSE IF Contains(cache, k) THEN charged[k] <= (lives[k] - 1) * MostOfMeter + spent[k]
            ELSE charged[k] <= lives[k] * MostOfMeter
CacheInv(s) == s \in Seq(MeterKeys) /\ IsInjective(s) /\ Len(s) <= MaxMeters
MeterInv ==
    /\ shared \in BOOLEAN /\ CacheInv(cache)
    /\ spent \in [MeterKeys -> Nat] /\ charged \in [MeterKeys -> Nat] /\ lives \in [MeterKeys -> Nat]
    /\ \A k \in MeterKeys : KeyInv(k)

\* The cache takes the key in, at the cost of the oldest one.
LEMMA AttachedKeeps ==
    ASSUME CacheInv(cache), NEW k \in MeterKeys
    PROVE  /\ CacheInv(Attached(k)) /\ Contains(Attached(k), k)
           /\ \A j : j # k /\ Contains(Attached(k), j) => Contains(cache, j)
<1>0. cache \in Seq(MeterKeys) /\ MaxMeters \in Nat /\ MaxMeters >= 1 /\ Len(cache) \in Nat
  BY DoorAssumption DEF CacheInv
<1>1. CASE Contains(cache, k)
  BY <1>1 DEF Attached
<1>2. CASE ~Contains(cache, k)
  <2> DEFINE t == MadeRoom
  <2>1. t \in Seq(MeterKeys) /\ Len(t) < MaxMeters
    BY <1>0 DEF MadeRoom, CacheInv
  <2>2. \A i, j \in 1..Len(t) : t[i] = t[j] => i = j
    <3>1. \A i, j \in 1..Len(cache) : cache[i] = cache[j] => i = j
      BY <1>0 DEF CacheInv, IsInjective
    <3> QED BY <1>0, <3>1 DEF MadeRoom
  <2>3. \A j : Contains(t, j) => Contains(cache, j)
    BY <1>0 DEF MadeRoom, Contains
  <2>4. Attached(k) = Append(t, k)
    BY <1>2 DEF Attached
  <2> HIDE DEF t
  <2>5. \A i \in 1..Len(t) : t[i] # k
    BY <1>2, <2>3 DEF Contains
  <2>6. /\ Append(t, k) \in Seq(MeterKeys) /\ Len(Append(t, k)) = Len(t) + 1 /\ Append(t, k)[Len(t) + 1] = k
        /\ \A i \in 1..Len(t) : Append(t, k)[i] = t[i]
    BY <2>1
  <2>7. IsInjective(Append(t, k))
    <3>1. DOMAIN Append(t, k) = 1..(Len(t) + 1) /\ Len(t) \in Nat
      BY <2>1, <2>6
    <3>2. \A i, j \in 1..(Len(t) + 1) : Append(t, k)[i] = Append(t, k)[j] => i = j
      BY <2>1, <2>2, <2>5, <2>6
    <3> QED BY <3>1, <3>2 DEF IsInjective
  <2>8. Contains(Append(t, k), k)
    BY <2>1, <2>6 DEF Contains
  <2>9. ASSUME NEW j, j # k, Contains(Append(t, k), j) PROVE Contains(cache, j)
    <3>1. Contains(t, j)
      BY <2>1, <2>6, <2>9 DEF Contains
    <3> QED BY <2>3, <3>1
  <2> QED BY <1>0, <2>1, <2>4, <2>6, <2>7, <2>8, <2>9 DEF CacheInv
<1> QED BY <1>1, <1>2

LEMMA DebitKeeps ==
    ASSUME MeterInv, NEW k \in MeterKeys, NEW n \in MeterSizes, DebitKey(k, n)
    PROVE  MeterInv'
<1>0. /\ MostOfMeter \in Nat /\ n \in Nat /\ MeterBudget \in Nat /\ MeterBudget - 1 + n <= MostOfMeter
      /\ shared \in BOOLEAN /\ shared' = shared
      /\ spent \in [MeterKeys -> Nat] /\ charged \in [MeterKeys -> Nat] /\ lives \in [MeterKeys -> Nat]
  BY DearestSize, DoorAssumption DEF MostOfMeter, MeterInv, DebitKey
<1>1. /\ CacheInv(cache') /\ Contains(cache', k)
      /\ \A j : j # k /\ Contains(cache', j) => Contains(cache, j)
  BY AttachedKeeps DEF MeterInv, DebitKey
<1> DEFINE s == SpentBy(k)
           open == s < MeterBudget
<1>2. s \in Nat /\ s <= MostOfMeter
  BY <1>0 DEF SpentBy, MeterInv, KeyInv
<1>3. /\ spent' = [spent EXCEPT ![k] = IF open THEN s + n ELSE s]
      /\ charged' = [charged EXCEPT ![k] = IF open THEN charged[k] + n ELSE charged[k]]
      /\ lives' = [lives EXCEPT ![k] = IF Contains(cache, k) THEN lives[k] ELSE lives[k] + 1]
  BY DEF DebitKey
<1>4. s = IF shared \/ Contains(cache, k) THEN spent[k] ELSE 0
  BY DEF SpentBy
<1> HIDE DEF s
<1>5. /\ spent' \in [MeterKeys -> Nat] /\ charged' \in [MeterKeys -> Nat] /\ lives' \in [MeterKeys -> Nat]
      /\ spent'[k] <= MostOfMeter
  BY <1>0, <1>2, <1>3
<1>6. KeyInv(k)'
  <2>1. KeyInv(k) /\ MostOfMeter' = MostOfMeter
    BY DEF MeterInv, MostOfMeter, Dearest
  <2>2. CASE shared
    BY <1>0, <1>2, <1>3, <1>4, <1>5, <2>1, <2>2 DEF KeyInv
  <2>3. CASE ~shared /\ Contains(cache, k)
    <3> DEFINE used == (lives[k] - 1) * MostOfMeter
    <3>1. charged[k] <= used + spent[k] /\ used \in Int /\ used = (lives'[k] - 1) * MostOfMeter
      BY <1>0, <1>3, <2>1, <2>3 DEF KeyInv
    <3> HIDE DEF used
    <3>2. charged'[k] <= used + spent'[k]
      BY <1>0, <1>2, <1>3, <1>4, <2>3, <3>1
    <3> QED BY <1>0, <1>1, <1>5, <2>1, <2>3, <3>1, <3>2 DEF KeyInv
  <2>4. CASE ~shared /\ ~Contains(cache, k)
    <3> DEFINE used == lives[k] * MostOfMeter
    <3>1. charged[k] <= used /\ used \in Int /\ used = (lives'[k] - 1) * MostOfMeter
      BY <1>0, <1>3, <2>1, <2>4 DEF KeyInv
    <3> HIDE DEF used
    <3>2. charged'[k] <= used + spent'[k]
      BY <1>0, <1>2, <1>3, <1>4, <2>4, <3>1
    <3> QED BY <1>0, <1>1, <1>5, <2>1, <2>4, <3>1, <3>2 DEF KeyInv
  <2> QED BY <1>0, <2>2, <2>3, <2>4
<1>7. ASSUME NEW j \in MeterKeys, j # k PROVE KeyInv(j)'
  <2>1. KeyInv(j) /\ MostOfMeter' = MostOfMeter /\ spent'[j] = spent[j] /\ charged'[j] = charged[j] /\ lives'[j] = lives[j]
    BY <1>0, <1>3, <1>7 DEF MeterInv, MostOfMeter, Dearest
  <2>2. CASE shared \/ (Contains(cache, j) <=> Contains(cache', j))
    BY <1>0, <2>1, <2>2 DEF KeyInv
  <2>3. CASE ~shared /\ Contains(cache, j) /\ ~Contains(cache', j)
    <3>1. (lives[j] - 1) * MostOfMeter = lives[j] * MostOfMeter - MostOfMeter /\ lives[j] * MostOfMeter \in Int
      BY <1>0
    <3>2. charged[j] <= lives[j] * MostOfMeter
      BY <1>0, <2>1, <2>3, <3>1 DEF KeyInv
    <3> QED BY <1>0, <2>1, <2>3, <3>2 DEF KeyInv
  <2> QED BY <1>1, <1>7, <2>2, <2>3
<1> QED BY <1>0, <1>1, <1>5, <1>6, <1>7 DEF MeterInv

LEMMA MeterInitial == DoorInit => MeterInv
<1> SUFFICES ASSUME DoorInit PROVE MeterInv
  OBVIOUS
<1>1. MostOfMeter \in Nat
  BY DearestSize, DoorAssumption DEF MostOfMeter
<1>2. CacheInv(cache)
  BY DoorAssumption DEF DoorInit, CacheInv, IsInjective
<1>3. ASSUME NEW k \in MeterKeys PROVE KeyInv(k)
  <2>1. spent[k] = 0 /\ charged[k] = 0 /\ lives[k] = 0 /\ ~Contains(cache, k)
    BY DEF DoorInit, Contains
  <2> QED BY <1>1, <2>1 DEF KeyInv
<1> QED BY <1>2, <1>3 DEF DoorInit, MeterInv

LEMMA MeterKeeps == MeterInv /\ [LeaseNext \/ MeterNext]_doorVars => MeterInv'
<1> SUFFICES ASSUME MeterInv, [LeaseNext \/ MeterNext]_doorVars PROVE MeterInv'
  OBVIOUS
<1>1. ASSUME NEW k \in MeterKeys, NEW n \in MeterSizes, DebitKey(k, n) PROVE MeterInv'
  BY <1>1, DebitKeeps
<1>2. ASSUME UNCHANGED meterVars PROVE MeterInv'
  BY <1>2 DEF meterVars, MeterInv, KeyInv, CacheInv, MostOfMeter, Dearest
<1>3. MeterNext => UNCHANGED meterVars \/ \E k \in MeterKeys, n \in MeterSizes : DebitKey(k, n)
  BY DEF MeterNext, Look, Misdirected
<1>4. LeaseNext \/ UNCHANGED doorVars => UNCHANGED meterVars
  BY DEF LeaseNext, doorVars
<1> QED BY <1>1, <1>2, <1>3, <1>4

\* What the door keeps: its leases own their slots until their deadlines, and its meters survive eviction.
LEMMA DoorHolds ==
    LeaseSpec => [](LeasesOwnSlots /\ DoorTypeOK /\ MetersSurviveEviction) /\ DeadlineKept
<1>1. LeaseInv /\ [LeaseNext \/ MeterNext]_doorVars
      => [\A c \in Calls : slot[c] = "taken" /\ slot'[c] = "reclaimed" => told[c] <= dnow]_leaseVars
  BY LeaseKeeps
<1>2. LeaseInv => LeasesOwnSlots
  <2> SUFFICES ASSUME LeaseInv PROVE LeasesOwnSlots
    OBVIOUS
  <2>1. Taken = {c \in Calls : call[c] = "waiting"} \cup DOMAIN leases
    BY DEF LeaseInv, Taken
  <2> QED BY <2>1 DEF LeaseInv, LeasesOwnSlots
<1>3. LeaseInv /\ MeterInv => DoorTypeOK
  <2> SUFFICES ASSUME LeaseInv, MeterInv PROVE DoorTypeOK
    OBVIOUS
  <2>1. busy \in 0..GuardSlots
    BY FS_CardinalityType, DoorAssumption DEF LeaseInv
  <2> QED BY <2>1 DEF LeaseInv, CallStates, SlotStates, MeterInv, CacheInv, DoorTypeOK
<1>4. MeterInv => MetersSurviveEviction
  <2> SUFFICES ASSUME MeterInv, NEW k \in MeterKeys
               PROVE  charged[k] <= (IF shared THEN 1 ELSE lives[k]) * MostOfMeter
    BY DEF MetersSurviveEviction, MostOfMeter, Dearest
  <2>1. /\ MostOfMeter \in Nat /\ lives[k] \in Nat /\ spent[k] \in Nat /\ charged[k] \in Nat
        /\ shared \in BOOLEAN /\ KeyInv(k)
    BY DearestSize, DoorAssumption DEF MostOfMeter, MeterInv
  <2>2. (lives[k] - 1) * MostOfMeter = lives[k] * MostOfMeter - MostOfMeter /\ lives[k] * MostOfMeter \in Int
        /\ 1 * MostOfMeter = MostOfMeter
    BY <2>1
  <2>3. CASE shared
    BY <2>1, <2>2, <2>3 DEF KeyInv
  <2>4. CASE ~shared
    <3> DEFINE all == lives[k] * MostOfMeter
    <3>1. charged[k] <= all - MostOfMeter + spent[k] \/ charged[k] <= all
      BY <2>1, <2>2, <2>4 DEF KeyInv
    <3>2. spent[k] <= MostOfMeter /\ all \in Int
      BY <2>1, <2>2 DEF KeyInv
    <3> HIDE DEF all
    <3>3. charged[k] <= all
      BY <2>1, <3>1, <3>2
    <3> QED BY <2>4, <3>3 DEF all
  <2> QED BY <2>1, <2>3, <2>4
<1>5. LeaseInv /\ [LeaseNext \/ MeterNext]_doorVars => LeaseInv'
  BY LeaseKeeps
<1> QED BY <1>1, <1>2, <1>3, <1>4, <1>5, LeaseInitial, MeterInitial, MeterKeeps, PTL
        DEF LeaseSpec, DeadlineKept

----------------------------------------------------------------------------
(* The leases of a fleet's clients *)

LEMMA DivisionIs ==
    ASSUME NEW t \in Nat, NEW d \in Nat \ {0}
    PROVE  t \div d \in Nat /\ (t \div d) * d <= t /\ t < (t \div d + 1) * d
<1> DEFINE p == t \div d
<1>1. p \in Nat /\ d * p <= t /\ t < d * p + d
  OBVIOUS
<1> HIDE DEF p
<1>2. d * p = p * d /\ (p + 1) * d = d * p + d
  BY <1>1
<1> QED BY <1>1, <1>2 DEF p

LEMMA DivisionMonotone ==
    ASSUME NEW t \in Nat, NEW u \in Nat, t <= u, NEW d \in Nat \ {0}
    PROVE  t \div d <= u \div d /\ (t \div d + 1) * d <= (u \div d + 1) * d
<1> DEFINE p == t \div d
           q == u \div d
<1>1. p \in Nat /\ q \in Nat /\ p * d <= t /\ u < (q + 1) * d
  BY DivisionIs
<1> HIDE DEF p, q
<1>2. ASSUME q < p PROVE FALSE
  <2>1. q + 1 <= p
    BY <1>1, <1>2
  <2>2. (q + 1) * d <= p * d
    BY <1>1, <2>1
  <2>3. (q + 1) * d \in Nat /\ p * d \in Nat
    BY <1>1
  <2> QED BY <1>1, <2>2, <2>3
<1>3. p <= q
  BY <1>1, <1>2
<1>4. (p + 1) * d <= (q + 1) * d
  BY <1>1, <1>3
<1> QED BY <1>3, <1>4 DEF p, q

LEMMA SpenderOptions ==
    /\ IsFiniteSet(Spenders) /\ IsFiniteSet(Requests) /\ IsFiniteSet(Windows)
    /\ SpendCosts \subseteq Nat \ {0} /\ Asks \subseteq Int /\ FleetLimit \in Nat /\ FleetWindow \in Nat \ {0}
    /\ MaxRounds \in Nat /\ FleetSpan \in Nat
<1>1. FleetSpan \div FleetWindow \in Nat
  BY SpenderAssumption, DivisionIs
<1>2. IsFiniteSet(Windows)
  BY <1>1, FS_Interval DEF Windows
<1> QED BY <1>2, SpenderAssumption

\* The window of a time, of which there are as many as the clock reaches.
LEMMA FleetWindows ==
    ASSUME NEW t \in 0..FleetSpan
    PROVE  WindowOf(t) \in Windows /\ WindowOf(t) \in Nat /\ t < EndOf(WindowOf(t)) /\ EndOf(WindowOf(t)) \in Nat
<1>1. t \in Nat /\ FleetSpan \in Nat /\ FleetWindow \in Nat \ {0} /\ t <= FleetSpan
  BY SpenderOptions
<1>2. WindowOf(t) \in Nat /\ t < (WindowOf(t) + 1) * FleetWindow
  BY <1>1, DivisionIs DEF WindowOf
<1>3. WindowOf(t) <= FleetSpan \div FleetWindow /\ FleetSpan \div FleetWindow \in Nat
  BY <1>1, DivisionIs, DivisionMonotone DEF WindowOf
<1>4. EndOf(WindowOf(t)) = (WindowOf(t) + 1) * FleetWindow /\ (WindowOf(t) + 1) * FleetWindow \in Nat
  BY <1>1, <1>2 DEF EndOf
<1> QED BY <1>2, <1>3, <1>4 DEF Windows

PurseType == [credits : Nat, expiresAt : Int]
OutType == [granted : Int, spent : Int, lost : Int]
CallStatus == {"new", "asking", "granted", "allowed", "denied", "failed", "threw"}
ReqType == [st : CallStatus, by : Spenders \cup {0}, cost : Nat, at : 0..FleetSpan, round : 0..MaxRounds,
            asked : Int, cap : Nat, exp : Int]
Awaits(q) == q.st \in {"asking", "granted"}

\* Units of a purse that are not discarded at t, and units on their way to a call.
GoodOf(p, t) == IF t < p.expiresAt THEN p.credits ELSE 0
OwedOf(q) == IF q.st = "granted" THEN q.cap ELSE 0
HeldSum(pu, t) == SumFunctionOnSet([s \in Spenders |-> GoodOf(pu[s], t)], Spenders)
OwedSum(rq) == SumFunctionOnSet([r \in Requests |-> OwedOf(rq[r])], Requests)
GrantedSum(o) == SumFunctionOnSet([s \in Spenders |-> o[s].granted], Spenders)

FleetTypes ==
    /\ fnow \in 0..FleetSpan /\ late \in BOOLEAN
    /\ drained \in [Windows -> 0..FleetLimit] /\ served \in [Windows -> Nat]
    /\ purse \in [Spenders -> PurseType] /\ out \in [Spenders -> OutType] /\ req \in [Requests -> ReqType]
    /\ \A r \in Requests : Awaits(req[r]) => req[r].by \in Spenders /\ req[r].round < MaxRounds

\* Every unit a client was granted is spent, lost or in its purse; and all of them were drained.
BooksInv ==
    /\ \A s \in Spenders : out[s].granted = out[s].spent + out[s].lost + purse[s].credits
    /\ GrantedSum(out) + OwedSum(req) <= SumFunctionOnSet(drained, Windows)

\* When no reply crosses the end of a window: what was spent in the current one, is good and is on its way
\* was drained from it.
ThisWindow(w) ==
    /\ \A r \in Requests : Awaits(req[r]) =>
          /\ WindowOf(req[r].at) = w
          /\ req[r].st = "granted" => req[r].exp = EndOf(w)
          /\ purse[req[r].by].credits > 0 => purse[req[r].by].expiresAt = EndOf(w)
    /\ \A s \in Spenders : purse[s].credits > 0 => purse[s].expiresAt = EndOf(w) \/ purse[s].expiresAt <= fnow
    /\ served[w] + HeldSum(purse, fnow) + OwedSum(req) <= drained[w]
    /\ \A v \in Windows : served[v] <= FleetLimit /\ (v > w => served[v] = 0)
SpendInv == FleetTypes /\ BooksInv /\ (~late => ThisWindow(WindowOf(fnow)))

\* The sums, and how they change with one client or one call.
LEMMA SumsNat ==
    ASSUME NEW pu \in [Spenders -> PurseType], NEW o \in [Spenders -> OutType], NEW rq \in [Requests -> ReqType],
           NEW t \in Int
    PROVE  HeldSum(pu, t) \in Nat /\ OwedSum(rq) \in Nat /\ GrantedSum(o) \in Int
<1>1. \A s \in Spenders : GoodOf(pu[s], t) \in Nat /\ o[s].granted \in Int
  BY DEF GoodOf, PurseType, OutType
<1>2. \A r \in Requests : OwedOf(rq[r]) \in Nat
  BY DEF OwedOf, ReqType
<1>3. HeldSum(pu, t) \in Nat
  BY <1>1, SetSumNat, SpenderOptions DEF HeldSum
<1>4. OwedSum(rq) \in Nat
  BY <1>2, SetSumNat, SpenderOptions DEF OwedSum
<1>5. GrantedSum(o) \in Int
  BY <1>1, SetSumInt, SpenderOptions DEF GrantedSum
<1> QED BY <1>3, <1>4, <1>5

LEMMA HeldChanges ==
    ASSUME NEW pu \in [Spenders -> PurseType], NEW pv \in [Spenders -> PurseType], NEW t \in Int, NEW s \in Spenders,
           \A x \in Spenders : x # s => pv[x] = pu[x]
    PROVE  HeldSum(pv, t) = HeldSum(pu, t) - GoodOf(pu[s], t) + GoodOf(pv[s], t)
<1> DEFINE f == [x \in Spenders |-> GoodOf(pu[x], t)]
           g == [x \in Spenders |-> GoodOf(pv[x], t)]
<1>1. \A x \in Spenders : f[x] \in Int /\ g[x] \in Int
  BY DEF GoodOf, PurseType
<1>2. \A x \in Spenders : x # s => f[x] = g[x]
  OBVIOUS
<1>3. f[s] = GoodOf(pu[s], t) /\ g[s] = GoodOf(pv[s], t)
  OBVIOUS
<1> HIDE DEF f, g
<1>4. SumFunctionOnSet(g, Spenders) = SumFunctionOnSet(f, Spenders) - f[s] + g[s]
  <2>1. IsFiniteSet(Spenders)
    BY SpenderOptions
  <2> QED BY <1>1, <1>2, <2>1, SetSumUpdate
<1> QED BY <1>3, <1>4 DEF HeldSum, f, g

LEMMA OwedChanges ==
    ASSUME NEW rq \in [Requests -> ReqType], NEW rr \in [Requests -> ReqType], NEW r \in Requests,
           \A x \in Requests : x # r => rr[x] = rq[x]
    PROVE  OwedSum(rr) = OwedSum(rq) - OwedOf(rq[r]) + OwedOf(rr[r])
<1> DEFINE f == [x \in Requests |-> OwedOf(rq[x])]
           g == [x \in Requests |-> OwedOf(rr[x])]
<1>1. \A x \in Requests : f[x] \in Int /\ g[x] \in Int
  BY DEF OwedOf, ReqType
<1>2. \A x \in Requests : x # r => f[x] = g[x]
  OBVIOUS
<1>3. f[r] = OwedOf(rq[r]) /\ g[r] = OwedOf(rr[r])
  OBVIOUS
<1> HIDE DEF f, g
<1>4. SumFunctionOnSet(g, Requests) = SumFunctionOnSet(f, Requests) - f[r] + g[r]
  <2>1. IsFiniteSet(Requests)
    BY SpenderOptions
  <2> QED BY <1>1, <1>2, <2>1, SetSumUpdate
<1> QED BY <1>3, <1>4 DEF OwedSum, f, g

LEMMA GrantedChanges ==
    ASSUME NEW o \in [Spenders -> OutType], NEW ov \in [Spenders -> OutType], NEW s \in Spenders,
           \A x \in Spenders : x # s => ov[x] = o[x]
    PROVE  GrantedSum(ov) = GrantedSum(o) - o[s].granted + ov[s].granted
<1> DEFINE f == [x \in Spenders |-> o[x].granted]
           g == [x \in Spenders |-> ov[x].granted]
<1>1. \A x \in Spenders : f[x] \in Int /\ g[x] \in Int
  BY DEF OutType
<1>2. \A x \in Spenders : x # s => f[x] = g[x]
  OBVIOUS
<1>3. f[s] = o[s].granted /\ g[s] = ov[s].granted
  OBVIOUS
<1> HIDE DEF f, g
<1>4. SumFunctionOnSet(g, Spenders) = SumFunctionOnSet(f, Spenders) - f[s] + g[s]
  <2>1. IsFiniteSet(Spenders)
    BY SpenderOptions
  <2> QED BY <1>1, <1>2, <2>1, SetSumUpdate
<1> QED BY <1>3, <1>4 DEF GrantedSum, f, g

\* A turn of the loop spends, asks or gives up; whatever it does, the books stay right.
LEMMA TurnKeeps ==
    ASSUME SpendInv, NEW r \in Requests, NEW q \in ReqType, NEW s \in Spenders, NEW p \in PurseType, NEW o \in OutType,
           Turn(r, q, s, p, o), UNCHANGED <<fnow, late, drained>>,
           q.by = s,
           o.granted = o.spent + o.lost + p.credits, o.granted = out[s].granted + OwedOf(req[r]),
           ~late => /\ WindowOf(q.at) = WindowOf(fnow)
                    /\ p.credits > 0 => p.expiresAt = EndOf(WindowOf(fnow))
                    /\ p.credits <= GoodOf(purse[s], fnow) + OwedOf(req[r])
    PROVE  SpendInv'
<1> DEFINE short == p.credits < q.cost
           v == IF short THEN 0 ELSE q.cost
           p2 == [credits |-> p.credits - v, expiresAt |-> p.expiresAt]
           o2 == [granted |-> o.granted, spent |-> o.spent + v, lost |-> o.lost]
           w == WindowOf(q.at)
           cur == WindowOf(fnow)
<1>0. /\ FleetTypes /\ BooksInv /\ SpendCosts \subseteq Nat \ {0} /\ Asks \subseteq Int /\ MaxRounds \in Nat
      /\ fnow \in 0..FleetSpan /\ q.at \in 0..FleetSpan /\ q.cost \in Nat /\ q.round \in 0..MaxRounds
      /\ p.credits \in Nat /\ p.expiresAt \in Int /\ o.granted \in Int /\ o.spent \in Int /\ o.lost \in Int
      /\ p = [credits |-> p.credits, expiresAt |-> p.expiresAt]
      /\ o = [granted |-> o.granted, spent |-> o.spent, lost |-> o.lost]
  BY SpenderOptions DEF SpendInv, FleetTypes, ReqType, PurseType, OutType
<1>1. w \in Windows /\ cur \in Windows
  BY <1>0, FleetWindows
<1>2. v \in Nat /\ p.credits - v \in Nat /\ p2 \in PurseType /\ o2 \in OutType
  BY <1>0 DEF PurseType, OutType
<1>3. PICK extra \in Asks :
      /\ req' = [req EXCEPT ![r] = IF ~short THEN Ended("allowed")
                                   ELSE IF q.round = MaxRounds THEN Ended("threw")
                                   ELSE [q EXCEPT !.st = "asking", !.asked = q.cost + extra]]
      /\ purse' = [purse EXCEPT ![s] = IF short THEN p ELSE [p EXCEPT !.credits = @ - q.cost]]
      /\ out' = [out EXCEPT ![s] = IF short THEN o ELSE [o EXCEPT !.spent = @ + q.cost]]
      /\ served' = IF short THEN served ELSE [served EXCEPT ![w] = @ + q.cost]
  BY DEF Turn
<1>4. /\ req \in [Requests -> ReqType] /\ purse \in [Spenders -> PurseType] /\ out \in [Spenders -> OutType]
      /\ served \in [Windows -> Nat] /\ drained \in [Windows -> 0..FleetLimit]
  BY <1>0 DEF FleetTypes
<1>5. purse' = [purse EXCEPT ![s] = p2]
  <2>1. CASE short
    <3>1. p.credits - v = p.credits
      BY <1>0, <2>1
    <3>2. p2 = p
      BY <1>0, <3>1, Zenon
    <3> QED BY <1>3, <2>1, <3>2, Zenon
  <2>2. CASE ~short
    BY <1>0, <1>3, <2>2
  <2> QED BY <2>1, <2>2
<1>6. out' = [out EXCEPT ![s] = o2]
  <2>1. CASE short
    <3>1. o.spent + v = o.spent
      BY <1>0, <2>1
    <3>2. o2 = o
      BY <1>0, <3>1, Zenon
    <3> QED BY <1>3, <2>1, <3>2, Zenon
  <2>2. CASE ~short
    BY <1>0, <1>3, <2>2
  <2> QED BY <2>1, <2>2
<1>7. served' = [served EXCEPT ![w] = served[w] + v]
  <2>1. CASE short
    BY <1>1, <1>3, <1>4, <2>1
  <2>2. CASE ~short
    BY <1>1, <1>3, <1>4, <2>2
  <2> QED BY <2>1, <2>2
<1>8. /\ req' = [req EXCEPT ![r] = req'[r]] /\ req'[r] \in ReqType /\ OwedOf(req'[r]) = 0
      /\ Awaits(req'[r]) => req'[r].by = s /\ req'[r].at = q.at /\ req'[r].round < MaxRounds /\ req'[r].st = "asking"
  <2>1. /\ Ended("allowed") \in ReqType /\ Ended("allowed").st = "allowed"
        /\ Ended("threw") \in ReqType /\ Ended("threw").st = "threw"
    BY SpenderOptions DEF Ended, Unborn, ReqType, CallStatus
  <2>2. ASSUME q.round # MaxRounds
        PROVE  LET a == [q EXCEPT !.st = "asking", !.asked = q.cost + extra]
               IN  a \in ReqType /\ a.st = "asking" /\ a.by = s /\ a.at = q.at /\ a.round < MaxRounds
    <3>1. q.cost + extra \in Int /\ q.round < MaxRounds
      BY <1>0, <2>2
    <3> DEFINE want == q.cost + extra
    <3> HIDE DEF want
    <3>2. [q EXCEPT !.st = "asking", !.asked = want] \in ReqType
      BY <3>1 DEF ReqType, CallStatus, want
    <3>3. LET a == [q EXCEPT !.st = "asking", !.asked = want]
          IN  a.st = "asking" /\ a.by = s /\ a.at = q.at /\ a.round < MaxRounds
      BY <3>1 DEF ReqType
    <3> QED BY <3>2, <3>3 DEF want
  <2>3. \/ req' = [req EXCEPT ![r] = Ended("allowed")]
        \/ req' = [req EXCEPT ![r] = Ended("threw")]
        \/ q.round # MaxRounds /\ req' = [req EXCEPT ![r] = [q EXCEPT !.st = "asking", !.asked = q.cost + extra]]
    BY <1>3
  <2> QED BY <1>4, <2>1, <2>2, <2>3 DEF OwedOf, Awaits
<1> HIDE DEF short, v, p2, o2, w, cur
<1>9. FleetTypes'
  <2>1. /\ req' \in [Requests -> ReqType] /\ purse' \in [Spenders -> PurseType] /\ out' \in [Spenders -> OutType]
        /\ served' \in [Windows -> Nat]
    BY <1>1, <1>2, <1>4, <1>5, <1>6, <1>7, <1>8
  <2>2. \A x \in Requests : Awaits(req'[x]) => req'[x].by \in Spenders /\ req'[x].round < MaxRounds
    BY <1>0, <1>4, <1>8 DEF FleetTypes
  <2> QED BY <1>0, <2>1, <2>2 DEF FleetTypes
<1>10. /\ purse' \in [Spenders -> PurseType] /\ out' \in [Spenders -> OutType] /\ req' \in [Requests -> ReqType]
       /\ served' \in [Windows -> Nat]
  BY <1>9 DEF FleetTypes
<1>11. /\ p2.credits = p.credits - v /\ p2.expiresAt = p.expiresAt
       /\ o2.granted = o.granted /\ o2.spent = o.spent + v /\ o2.lost = o.lost
  BY DEF p2, o2
<1>12. OwedSum(req') = OwedSum(req) - OwedOf(req[r])
  <2>1. OwedSum(req') = OwedSum(req) - OwedOf(req[r]) + OwedOf(req'[r])
    BY <1>4, <1>8, <1>10, OwedChanges
  <2>2. OwedOf(req[r]) \in Nat
    BY <1>4 DEF OwedOf, ReqType
  <2>3. OwedSum(req) \in Nat
    <3>1. fnow \in Int
      BY <1>0
    <3> QED BY <1>4, <3>1, SumsNat
  <2> QED BY <1>8, <2>1, <2>2, <2>3
<1>13. HeldSum(purse', fnow) = HeldSum(purse, fnow) - GoodOf(purse[s], fnow) + GoodOf(p2, fnow)
  <2>1. HeldSum(purse', fnow) = HeldSum(purse, fnow) - GoodOf(purse[s], fnow) + GoodOf(purse'[s], fnow)
    <3>1. fnow \in Int /\ \A x \in Spenders : x # s => purse'[x] = purse[x]
      BY <1>0, <1>4, <1>5
    <3> QED BY <1>4, <1>10, <3>1, HeldChanges
  <2> QED BY <1>4, <1>5, <2>1
<1>14. GrantedSum(out') = GrantedSum(out) - out[s].granted + o.granted
  <2>1. GrantedSum(out') = GrantedSum(out) - out[s].granted + out'[s].granted
    BY <1>4, <1>6, <1>10, GrantedChanges
  <2> QED BY <1>4, <1>6, <1>11, <2>1
<1>15. /\ OwedSum(req) \in Nat /\ OwedSum(req') \in Nat /\ HeldSum(purse, fnow) \in Nat /\ HeldSum(purse', fnow) \in Nat
       /\ GrantedSum(out) \in Int /\ OwedOf(req[r]) \in Nat /\ out[s].granted \in Int
       /\ GoodOf(purse[s], fnow) \in Nat /\ GoodOf(p2, fnow) \in Nat /\ GoodOf(p2, fnow) <= p.credits - v
  <2>1. fnow \in Int
    BY <1>0
  <2>2. OwedOf(req[r]) \in Nat /\ out[s].granted \in Int /\ GoodOf(purse[s], fnow) \in Nat
    BY <1>4 DEF OwedOf, ReqType, GoodOf, PurseType, OutType
  <2>3. GoodOf(p2, fnow) \in Nat /\ GoodOf(p2, fnow) <= p.credits - v
    BY <1>0, <1>2, <1>11 DEF GoodOf
  <2> QED BY <1>4, <1>10, <2>1, <2>2, <2>3, SumsNat
<1>16. BooksInv'
  <2>1. GrantedSum(out') + OwedSum(req') <= SumFunctionOnSet(drained, Windows)
    BY <1>0, <1>12, <1>14, <1>15 DEF BooksInv
  <2>2. ASSUME NEW x \in Spenders PROVE out'[x].granted = out'[x].spent + out'[x].lost + purse'[x].credits
    <3>1. CASE x = s
      <4>1. out'[x] = o2 /\ purse'[x] = p2
        BY <1>4, <1>5, <1>6, <3>1
      <4> QED BY <1>0, <1>2, <1>11, <4>1
    <3>2. CASE x # s
      BY <1>0, <1>4, <1>5, <1>6, <3>2 DEF BooksInv
    <3> QED BY <3>1, <3>2
  <2> QED BY <2>1, <2>2 DEF BooksInv
<1>17. ASSUME ~late PROVE ThisWindow(cur)'
  <2>0. ThisWindow(cur) /\ w = cur /\ (p.credits > 0 => p.expiresAt = EndOf(cur))
        /\ p.credits <= GoodOf(purse[s], fnow) + OwedOf(req[r])
    BY <1>17 DEF SpendInv, w, cur
  <2>1. \A x \in Spenders : purse'[x].credits > 0 =>
            \/ x = s /\ purse'[x].expiresAt = EndOf(cur)
            \/ x # s /\ purse[x].credits > 0 /\ purse'[x].expiresAt = purse[x].expiresAt
    BY <1>0, <1>2, <1>4, <1>5, <1>11, <2>0
  <2>2. ASSUME NEW x \in Requests, Awaits(req'[x])
        PROVE  /\ WindowOf(req'[x].at) = cur
               /\ req'[x].st = "granted" => req'[x].exp = EndOf(cur)
               /\ purse'[req'[x].by].credits > 0 => purse'[req'[x].by].expiresAt = EndOf(cur)
    <3>1. CASE x = r
      BY <1>8, <2>0, <2>1, <2>2, <3>1 DEF w
    <3>2. CASE x # r
      <4>1. req'[x] = req[x] /\ req[x].by \in Spenders
        BY <1>0, <1>4, <1>8, <2>2, <3>2 DEF FleetTypes
      <4> QED BY <2>0, <2>1, <2>2, <4>1 DEF ThisWindow
    <3> QED BY <3>1, <3>2
  <2>3. \A x \in Spenders : purse'[x].credits > 0 => purse'[x].expiresAt = EndOf(cur) \/ purse'[x].expiresAt <= fnow
    BY <2>0, <2>1 DEF ThisWindow
  <2>4. served'[cur] + HeldSum(purse', fnow) + OwedSum(req') <= drained[cur]
    <3>1. served'[cur] = served[cur] + v /\ served[cur] \in Nat /\ drained[cur] \in Nat
      BY <1>1, <1>4, <1>7, <2>0
    <3>2. served[cur] + HeldSum(purse, fnow) + OwedSum(req) <= drained[cur]
      BY <2>0 DEF ThisWindow
    <3> QED BY <1>0, <1>2, <1>12, <1>13, <1>15, <2>0, <3>1, <3>2
  <2>5. ASSUME NEW x \in Windows PROVE served'[x] <= FleetLimit /\ (x > cur => served'[x] = 0)
    <3>1. CASE x = cur
      <4>1. served'[cur] \in Nat /\ drained[cur] <= FleetLimit /\ drained[cur] \in Nat /\ FleetLimit \in Nat /\ cur \in Int
        BY <1>0, <1>1, <1>4, <1>10, SpenderOptions, FleetWindows DEF cur
      <4> QED BY <1>15, <2>4, <3>1, <4>1
    <3>2. CASE x # cur
      BY <1>1, <1>4, <1>7, <2>0, <3>2 DEF ThisWindow
    <3> QED BY <3>1, <3>2
  <2>6. cur' = cur /\ fnow' = fnow /\ drained' = drained
    BY DEF cur
  <2> QED BY <2>2, <2>3, <2>4, <2>5, <2>6 DEF ThisWindow
<1> QED BY <1>9, <1>16, <1>17 DEF SpendInv, cur

LEMMA CallKeeps ==
    ASSUME SpendInv, NEW r \in Requests, NEW s \in Spenders, NEW cost \in SpendCosts, Call(r, s, cost)
    PROVE  SpendInv'
<1> DEFINE p == RolledOut(purse[s])
           q == [Unborn EXCEPT !.by = s, !.cost = cost, !.at = fnow]
           o == [out[s] EXCEPT !.lost = @ + purse[s].credits - p.credits]
<1>1. /\ req[r].st = "new" /\ Turn(r, q, s, p, o) /\ UNCHANGED <<fnow, late, drained>>
  BY DEF Call
<1>2. /\ purse[s] \in PurseType /\ out[s] \in OutType /\ fnow \in 0..FleetSpan /\ cost \in Nat /\ MaxRounds \in Nat
      /\ FleetSpan \in Nat
      /\ out[s].granted = out[s].spent + out[s].lost + purse[s].credits
  BY SpenderOptions DEF SpendInv, FleetTypes, BooksInv
<1>3. p \in PurseType /\ (p.credits > 0 => p = purse[s] /\ fnow < p.expiresAt)
  BY <1>2 DEF RolledOut, PurseType
<1>4. q \in ReqType /\ q.by = s /\ q.at = fnow
  <2>1. Unborn \in ReqType
    BY <1>2 DEF Unborn, ReqType, CallStatus
  <2>2. s \in Spenders \cup {0} /\ fnow \in 0..FleetSpan /\ cost \in Nat
    BY <1>2
  <2> QED BY <2>1, <2>2 DEF ReqType
<1>5. o \in OutType /\ o.granted = out[s].granted /\ o.spent = out[s].spent
      /\ o.lost = out[s].lost + purse[s].credits - p.credits
  BY <1>2, <1>3 DEF OutType, PurseType
<1>6. OwedOf(req[r]) = 0
  BY <1>1 DEF OwedOf
<1>7. ASSUME ~late
      PROVE  /\ p.credits > 0 => p.expiresAt = EndOf(WindowOf(fnow))
             /\ p.credits <= GoodOf(purse[s], fnow) + OwedOf(req[r])
  <2>1. ThisWindow(WindowOf(fnow))
    BY <1>7 DEF SpendInv
  <2>2. p.credits > 0 => p.expiresAt = EndOf(WindowOf(fnow)) /\ GoodOf(purse[s], fnow) = p.credits
    BY <1>2, <1>3, <2>1 DEF ThisWindow, GoodOf, PurseType
  <2>3. p.credits \in Nat /\ GoodOf(purse[s], fnow) \in Nat
    BY <1>2, <1>3 DEF GoodOf, PurseType
  <2> QED BY <1>6, <2>2, <2>3
<1> HIDE DEF p, q, o
<1>8. /\ o.granted = o.spent + o.lost + p.credits
      /\ o.granted = out[s].granted + OwedOf(req[r])
  BY <1>2, <1>3, <1>5, <1>6 DEF PurseType, OutType
<1> QED BY <1>1, <1>3, <1>4, <1>5, <1>7, <1>8, TurnKeeps

\* A call that ends with an answer or an error: what was on its way to it is nobody's.
LEMMA EndedKeeps ==
    ASSUME SpendInv, NEW r \in Requests, NEW st \in CallStatus \ {"asking", "granted"},
           req' = [req EXCEPT ![r] = Ended(st)], UNCHANGED <<fnow, late, drained, purse, out, served>>
    PROVE  SpendInv'
<1>1. Ended(st) \in ReqType /\ ~Awaits(Ended(st)) /\ OwedOf(Ended(st)) = 0
  BY SpenderOptions DEF Ended, Unborn, ReqType, CallStatus, Awaits, OwedOf
<1>2. req \in [Requests -> ReqType] /\ req' \in [Requests -> ReqType] /\ fnow \in Int
      /\ purse \in [Spenders -> PurseType] /\ out \in [Spenders -> OutType]
  BY <1>1 DEF SpendInv, FleetTypes
<1>3. req'[r] = Ended(st) /\ \A x \in Requests : x # r => req'[x] = req[x]
  BY <1>2
<1>4. OwedSum(req') <= OwedSum(req) /\ OwedSum(req') \in Nat /\ OwedSum(req) \in Nat
  <2>1. OwedSum(req') = OwedSum(req) - OwedOf(req[r]) + OwedOf(req'[r])
    BY <1>2, <1>3, OwedChanges
  <2>2. OwedOf(req[r]) \in Nat
    BY <1>2 DEF OwedOf, ReqType
  <2>3. OwedSum(req') \in Nat /\ OwedSum(req) \in Nat
    BY <1>2, SumsNat
  <2> QED BY <1>1, <1>3, <2>1, <2>2, <2>3
<1>5. FleetTypes'
  BY <1>1, <1>2, <1>3 DEF SpendInv, FleetTypes
<1>6. GrantedSum(out) \in Int /\ HeldSum(purse, fnow) \in Nat
  BY <1>2, SumsNat
<1>7. BooksInv'
  <2>1. SumFunctionOnSet(drained, Windows) \in Int
    <3>1. IsFiniteSet(Windows) /\ \A w \in Windows : drained[w] \in Int
      BY SpenderOptions DEF SpendInv, FleetTypes
    <3> QED BY <3>1, SetSumInt
  <2>2. GrantedSum(out) + OwedSum(req') <= SumFunctionOnSet(drained, Windows)
    BY <1>4, <1>6, <2>1 DEF SpendInv, BooksInv
  <2> QED BY <2>2 DEF SpendInv, BooksInv
<1>8. ASSUME ~late PROVE ThisWindow(WindowOf(fnow))'
  <2> DEFINE cur == WindowOf(fnow)
  <2>1. ThisWindow(cur) /\ cur \in Windows
    BY <1>8, FleetWindows DEF SpendInv, FleetTypes
  <2> HIDE DEF cur
  <2>2. served[cur] \in Nat /\ drained[cur] \in Int
    BY <2>1 DEF SpendInv, FleetTypes
  <2>3. served[cur] + HeldSum(purse, fnow) + OwedSum(req') <= drained[cur]
    BY <1>4, <1>6, <2>1, <2>2 DEF ThisWindow
  <2>4. \A x \in Requests : Awaits(req'[x]) => req'[x] = req[x]
    BY <1>1, <1>3
  <2>5. cur' = cur
    BY DEF cur
  <2>6. ThisWindow(cur)'
    BY <2>1, <2>3, <2>4, <2>5 DEF ThisWindow
  <2> QED BY <2>6 DEF cur
<1> QED BY <1>5, <1>7, <1>8 DEF SpendInv

LEMMA ReplyKeeps == ASSUME SpendInv, NEW r \in Requests, Reply(r) PROVE SpendInv'
<1> DEFINE q == req[r]
           s == q.by
<1>1. q.st = "granted" /\ UNCHANGED <<fnow, late, drained>>
  BY DEF Reply
<1>2. /\ q \in ReqType /\ s \in Spenders /\ q.round < MaxRounds /\ MaxRounds \in Nat /\ fnow \in 0..FleetSpan
  BY <1>1, SpenderOptions DEF SpendInv, FleetTypes, Awaits
<1>3. /\ purse[s] \in PurseType /\ out[s] \in OutType
      /\ out[s].granted = out[s].spent + out[s].lost + purse[s].credits
  BY <1>2 DEF SpendInv, FleetTypes, BooksInv
<1>4. CASE q.cap > 0
  <2> DEFINE next == [q EXCEPT !.round = @ + 1]
             p == Applied(purse[s], q.cap, q.exp)
             o == [out[s] EXCEPT !.granted = @ + q.cap]
  <2>1. Turn(r, next, s, p, o)
    BY <1>2, <1>4 DEF Reply, ReqType
  <2>2. next \in ReqType /\ next.by = s /\ next.at = q.at
    BY <1>2 DEF ReqType
  <2>3. p \in PurseType /\ p.credits = purse[s].credits + q.cap /\ p.expiresAt = q.exp
    BY <1>2, <1>3 DEF Applied, PurseType, ReqType
  <2>4. o \in OutType /\ o.granted = out[s].granted + q.cap /\ o.spent = out[s].spent /\ o.lost = out[s].lost
    BY <1>2, <1>3 DEF OutType, ReqType
  <2>5. OwedOf(req[r]) = q.cap /\ q.cap \in Nat
    BY <1>1, <1>2 DEF OwedOf, ReqType
  <2>6. ASSUME ~late
        PROVE  /\ WindowOf(q.at) = WindowOf(fnow)
               /\ q.exp = EndOf(WindowOf(fnow))
               /\ purse[s].credits <= GoodOf(purse[s], fnow)
    <3>1. ThisWindow(WindowOf(fnow))
      BY <2>6 DEF SpendInv
    <3>2. WindowOf(q.at) = WindowOf(fnow) /\ q.exp = EndOf(WindowOf(fnow))
          /\ (purse[s].credits > 0 => purse[s].expiresAt = EndOf(WindowOf(fnow)))
      BY <1>1, <3>1 DEF ThisWindow, Awaits
    <3>3. fnow < EndOf(WindowOf(fnow))
      BY <1>2, FleetWindows
    <3> QED BY <1>3, <3>2, <3>3 DEF GoodOf, PurseType
  <2> HIDE DEF next, p, o
  <2>7. /\ o.granted = o.spent + o.lost + p.credits
        /\ o.granted = out[s].granted + OwedOf(req[r])
    BY <1>3, <2>3, <2>4, <2>5 DEF PurseType, OutType
  <2>8. GoodOf(purse[s], fnow) \in Nat /\ purse[s].credits \in Nat
    BY <1>3 DEF GoodOf, PurseType
  <2>9. ~late => p.credits <= GoodOf(purse[s], fnow) + OwedOf(req[r])
    BY <2>3, <2>5, <2>6, <2>8
  <2> QED BY <1>1, <1>2, <2>1, <2>2, <2>3, <2>4, <2>6, <2>7, <2>9, TurnKeeps
<1>5. CASE ~(q.cap > 0)
  <2>1. req' = [req EXCEPT ![r] = Ended("denied")] /\ UNCHANGED <<purse, out, served>>
    BY <1>5 DEF Reply
  <2> QED BY <1>1, <2>1, EndedKeeps DEF CallStatus
<1> QED BY <1>4, <1>5
\* The door drains the window it reads by what the reply will bring.
LEMMA ReserveKeeps == ASSUME SpendInv, NEW r \in Requests, Reserve(r) PROVE SpendInv'
<1> DEFINE w == WindowOf(fnow)
           n == GrantedOf(w, WantsOf(req[r].asked))
           q == [req[r] EXCEPT !.st = "granted", !.cap = n, !.exp = Boundary(w)]
<1>1. /\ req[r].st = "asking" /\ UNCHANGED <<fnow, late, purse, out, served>>
      /\ drained' = [drained EXCEPT ![w] = @ + n]
  BY DEF Reserve
<1>2. /\ req \in [Requests -> ReqType] /\ drained \in [Windows -> 0..FleetLimit] /\ fnow \in 0..FleetSpan
      /\ purse \in [Spenders -> PurseType] /\ out \in [Spenders -> OutType] /\ served \in [Windows -> Nat]
      /\ FleetLimit \in Nat /\ IsFiniteSet(Windows)
  BY SpenderOptions DEF SpendInv, FleetTypes
<1>3. w \in Windows /\ EndOf(w) \in Nat
  BY <1>2, FleetWindows
<1>4. n \in Nat /\ drained[w] + n \in 0..FleetLimit
  <2>1. drained[w] \in 0..FleetLimit /\ req[r].asked \in Int
    BY <1>2, <1>3 DEF ReqType
  <2>2. WantsOf(req[r].asked) \in Nat
    BY <2>1 DEF WantsOf
  <2> QED BY <1>2, <2>1, <2>2 DEF GrantedOf, Least
<1>5. req' = [req EXCEPT ![r] = q]
  BY <1>2 DEF Reserve
<1> HIDE DEF n, w
<1>6. /\ q \in ReqType /\ OwedOf(q) = n /\ q.by = req[r].by /\ q.at = req[r].at /\ q.exp = EndOf(w) /\ q.round = req[r].round
      /\ q.st = "granted"
  <2>1. req[r] \in ReqType /\ "granted" \in CallStatus
    BY <1>2 DEF CallStatus
  <2> DEFINE end == EndOf(w)
             was == req[r]
  <2>2. end \in Int
    BY <1>3
  <2>3. q = [was EXCEPT !.st = "granted", !.cap = n, !.exp = end]
    BY DEF Boundary
  <2> HIDE DEF end, was, q
  <2>4. was \in ReqType
    BY <2>1 DEF was
  <2>5. q \in ReqType /\ q.by = was.by /\ q.at = was.at /\ q.exp = end /\ q.round = was.round /\ q.st = "granted" /\ q.cap = n
    BY <1>4, <2>1, <2>2, <2>3, <2>4 DEF ReqType
  <2> QED BY <2>5 DEF OwedOf, was, end
<1> HIDE DEF q
<1>7. /\ req' \in [Requests -> ReqType] /\ req'[r] = q /\ drained' \in [Windows -> 0..FleetLimit]
      /\ \A x \in Requests : x # r => req'[x] = req[x]
  BY <1>1, <1>2, <1>3, <1>4, <1>5, <1>6
<1>8. FleetTypes'
  <2>1. \A x \in Requests : Awaits(req'[x]) => req'[x].by \in Spenders /\ req'[x].round < MaxRounds
    BY <1>1, <1>6, <1>7 DEF SpendInv, FleetTypes, Awaits
  <2> QED BY <1>1, <1>7, <2>1 DEF SpendInv, FleetTypes
<1>9. OwedSum(req') = OwedSum(req) + n /\ OwedSum(req) \in Nat
  <2>1. OwedSum(req') = OwedSum(req) - OwedOf(req[r]) + OwedOf(req'[r])
    BY <1>2, <1>7, OwedChanges
  <2>2. OwedOf(req[r]) = 0
    BY <1>1 DEF OwedOf
  <2>3. OwedSum(req) \in Nat
    <3>1. fnow \in Int
      BY <1>2
    <3> QED BY <1>2, <3>1, SumsNat
  <2> QED BY <1>4, <1>6, <1>7, <2>1, <2>2, <2>3
<1>10. /\ SumFunctionOnSet(drained', Windows) = SumFunctionOnSet(drained, Windows) + n
       /\ SumFunctionOnSet(drained, Windows) \in Int
  <2>1. \A x \in Windows : drained[x] \in Int /\ drained'[x] \in Int
    BY <1>2, <1>7
  <2>2. \A x \in Windows : x # w => drained[x] = drained'[x]
    BY <1>1, <1>2
  <2>3. drained'[w] = drained[w] + n
    BY <1>1, <1>2, <1>3
  <2>4. SumFunctionOnSet(drained', Windows) = SumFunctionOnSet(drained, Windows) - drained[w] + drained'[w]
    <3>1. IsFiniteSet(Windows)
      BY <1>2
    <3> DEFINE f == drained
               g == drained'
    <3>2. (\A x \in Windows : f[x] \in Int /\ g[x] \in Int) /\ (\A x \in Windows : x # w => f[x] = g[x])
      BY <2>1, <2>2
    <3> HIDE DEF f, g
    <3>3. SumFunctionOnSet(g, Windows) = SumFunctionOnSet(f, Windows) - f[w] + g[w]
      BY <1>3, <3>1, <3>2, SetSumUpdate
    <3> QED BY <3>3 DEF f, g
  <2>5. SumFunctionOnSet(drained, Windows) \in Int
    BY <1>2, <2>1, SetSumInt
  <2>6. drained[w] \in Int /\ n \in Int
    BY <1>3, <1>4, <2>1
  <2> QED BY <2>3, <2>4, <2>5, <2>6
<1>11. HeldSum(purse, fnow) \in Nat /\ GrantedSum(out) \in Int
  <2>1. fnow \in Int
    BY <1>2
  <2> QED BY <1>2, <2>1, SumsNat
<1>12. BooksInv'
  <2>1. GrantedSum(out) + OwedSum(req') <= SumFunctionOnSet(drained', Windows)
    BY <1>4, <1>9, <1>10, <1>11 DEF SpendInv, BooksInv
  <2> QED BY <1>1, <2>1 DEF SpendInv, BooksInv
<1>13. ASSUME ~late PROVE ThisWindow(w)'
  <2>1. ThisWindow(w)
    BY <1>13 DEF SpendInv, w
  <2>2. served[w] \in Nat /\ drained[w] \in Int /\ drained'[w] = drained[w] + n
    BY <1>1, <1>2, <1>3
  <2>3. served[w] + HeldSum(purse, fnow) + OwedSum(req') <= drained'[w]
    BY <1>4, <1>9, <1>11, <2>1, <2>2 DEF ThisWindow
  <2>4. ASSUME NEW x \in Requests, Awaits(req'[x])
        PROVE  /\ WindowOf(req'[x].at) = w
               /\ req'[x].st = "granted" => req'[x].exp = EndOf(w)
               /\ purse[req'[x].by].credits > 0 => purse[req'[x].by].expiresAt = EndOf(w)
    <3>1. Awaits(req[r])
      BY <1>1 DEF Awaits
    <3>2. CASE x = r
      BY <1>6, <1>7, <2>1, <3>1, <3>2 DEF ThisWindow
    <3>3. CASE x # r
      BY <1>7, <2>1, <2>4, <3>3 DEF ThisWindow
    <3> QED BY <3>2, <3>3
  <2>5. w' = w
    BY <1>1 DEF w
  <2> QED BY <1>1, <2>1, <2>3, <2>4, <2>5 DEF ThisWindow
<1> QED BY <1>1, <1>8, <1>12, <1>13 DEF SpendInv, w

\* reset() gives up what the purse holds.
LEMMA ResetSpenderKeeps == ASSUME SpendInv, NEW s \in Spenders, ResetSpender(s) PROVE SpendInv'
<1> DEFINE p == [credits |-> 0, expiresAt |-> NoExpiry]
           o == [out[s] EXCEPT !.lost = @ + purse[s].credits]
<1>1. purse' = [purse EXCEPT ![s] = p] /\ UNCHANGED <<fnow, late, drained, req, served>>
  BY DEF ResetSpender
<1>2. /\ req \in [Requests -> ReqType] /\ drained \in [Windows -> 0..FleetLimit] /\ fnow \in 0..FleetSpan
      /\ purse \in [Spenders -> PurseType] /\ out \in [Spenders -> OutType] /\ served \in [Windows -> Nat]
  BY DEF SpendInv, FleetTypes
<1>3. out' = [out EXCEPT ![s] = o]
  BY <1>2 DEF ResetSpender
<1>4. p \in PurseType /\ p.credits = 0
  BY DEF PurseType, NoExpiry
<1>5. o \in OutType /\ o.granted = out[s].granted /\ o.spent = out[s].spent /\ o.lost = out[s].lost + purse[s].credits
  BY <1>2 DEF OutType, PurseType
<1> HIDE DEF p, o
<1>6. /\ purse' \in [Spenders -> PurseType] /\ out' \in [Spenders -> OutType] /\ purse'[s] = p /\ out'[s] = o
      /\ \A x \in Spenders : x # s => purse'[x] = purse[x] /\ out'[x] = out[x]
  BY <1>1, <1>2, <1>3, <1>4, <1>5
<1>7. FleetTypes'
  BY <1>1, <1>6 DEF SpendInv, FleetTypes
<1>8. GrantedSum(out') = GrantedSum(out)
  <2>1. GrantedSum(out') = GrantedSum(out) - out[s].granted + out'[s].granted
    BY <1>2, <1>6, GrantedChanges
  <2>2. GrantedSum(out) \in Int /\ out[s].granted \in Int
    <3>1. fnow \in Int
      BY <1>2
    <3>2. GrantedSum(out) \in Int
      BY <1>2, <3>1, SumsNat
    <3> QED BY <1>2, <3>2 DEF OutType
  <2> QED BY <1>5, <1>6, <2>1, <2>2
<1>9. BooksInv'
  <2>1. ASSUME NEW x \in Spenders PROVE out'[x].granted = out'[x].spent + out'[x].lost + purse'[x].credits
    <3>1. CASE x = s
      <4>1. out[s].granted = out[s].spent + out[s].lost + purse[s].credits
        BY DEF SpendInv, BooksInv
      <4>2. out[s].spent \in Int /\ out[s].lost \in Int /\ purse[s].credits \in Int
        BY <1>2 DEF OutType, PurseType
      <4> QED BY <1>4, <1>5, <1>6, <3>1, <4>1, <4>2
    <3>2. CASE x # s
      BY <1>6, <3>2 DEF SpendInv, BooksInv
    <3> QED BY <3>1, <3>2
  <2> QED BY <1>1, <1>8, <2>1 DEF SpendInv, BooksInv
<1>10. HeldSum(purse', fnow) <= HeldSum(purse, fnow) /\ HeldSum(purse', fnow) \in Nat /\ HeldSum(purse, fnow) \in Nat
       /\ OwedSum(req) \in Nat
  <2>1. fnow \in Int
    BY <1>2
  <2>2. HeldSum(purse', fnow) = HeldSum(purse, fnow) - GoodOf(purse[s], fnow) + GoodOf(purse'[s], fnow)
    BY <1>2, <1>6, <2>1, HeldChanges
  <2>3. GoodOf(purse'[s], fnow) = 0 /\ GoodOf(purse[s], fnow) \in Nat
    BY <1>2, <1>4, <1>6 DEF GoodOf, PurseType
  <2>4. HeldSum(purse', fnow) \in Nat /\ HeldSum(purse, fnow) \in Nat /\ OwedSum(req) \in Nat
    BY <1>2, <1>6, <2>1, SumsNat
  <2> QED BY <2>2, <2>3, <2>4
<1>11. ASSUME ~late PROVE ThisWindow(WindowOf(fnow))'
  <2> DEFINE cur == WindowOf(fnow)
  <2>1. ThisWindow(cur) /\ cur \in Windows
    BY <1>2, <1>11, FleetWindows DEF SpendInv
  <2> HIDE DEF cur
  <2>2. served[cur] \in Nat /\ drained[cur] \in Int
    BY <1>2, <2>1
  <2>3. served[cur] + HeldSum(purse', fnow) + OwedSum(req) <= drained[cur]
    BY <1>10, <2>1, <2>2 DEF ThisWindow
  <2>4. \A x \in Spenders : purse'[x].credits > 0 => purse'[x] = purse[x]
    BY <1>4, <1>6
  <2>5. \A x \in Requests : Awaits(req[x]) => req[x].by \in Spenders
    BY DEF SpendInv, FleetTypes
  <2>6. cur' = cur
    BY <1>1 DEF cur
  <2>7. ThisWindow(cur)'
    BY <1>1, <2>1, <2>3, <2>4, <2>5, <2>6 DEF ThisWindow
  <2> QED BY <2>7 DEF cur
<1> QED BY <1>1, <1>7, <1>9, <1>11 DEF SpendInv
\* Time passes: what a purse holds goes bad with its window, and when no call waits nothing is carried over.
LEMMA FleetTickKeeps == ASSUME SpendInv, FleetTick PROVE SpendInv'
<1> DEFINE cur == WindowOf(fnow)
           nxt == WindowOf(fnow + 1)
<1>1. fnow < FleetSpan /\ fnow' = fnow + 1 /\ UNCHANGED <<late, drained, purse, req, out, served>>
  BY DEF FleetTick
<1>2. /\ req \in [Requests -> ReqType] /\ drained \in [Windows -> 0..FleetLimit] /\ fnow \in 0..FleetSpan
      /\ purse \in [Spenders -> PurseType] /\ out \in [Spenders -> OutType] /\ served \in [Windows -> Nat]
      /\ FleetSpan \in Nat /\ FleetWindow \in Nat \ {0}
  BY SpenderOptions DEF SpendInv, FleetTypes
<1>3. fnow + 1 \in 0..FleetSpan /\ fnow \in Nat
  BY <1>1, <1>2
<1>4. cur \in Windows /\ nxt \in Windows /\ cur \in Nat /\ nxt \in Nat /\ EndOf(cur) \in Nat /\ EndOf(nxt) \in Nat
  BY <1>2, <1>3, FleetWindows
<1>5. cur <= nxt
  <2>1. fnow + 1 \in Nat /\ fnow <= fnow + 1
    BY <1>3
  <2> QED BY <1>2, <1>3, <2>1, DivisionMonotone DEF WindowOf
<1>6. cur < nxt => EndOf(cur) <= fnow + 1
  <2>1. nxt * FleetWindow <= fnow + 1
    BY <1>2, <1>3, DivisionIs DEF WindowOf
  <2>2. ASSUME cur < nxt PROVE (cur + 1) * FleetWindow <= nxt * FleetWindow
    <3> HIDE DEF cur, nxt
    <3>1. cur + 1 <= nxt
      BY <1>4, <2>2
    <3> QED BY <1>2, <1>4, <3>1
  <2>3. nxt * FleetWindow \in Nat /\ (cur + 1) * FleetWindow \in Nat
    BY <1>2, <1>4
  <2> QED BY <1>3, <2>1, <2>2, <2>3 DEF EndOf
<1> HIDE DEF cur, nxt
<1>7. FleetTypes'
  BY <1>1, <1>3 DEF SpendInv, FleetTypes
<1>8. BooksInv'
  BY <1>1 DEF SpendInv, BooksInv
<1>9. OwedSum(req) \in Nat /\ HeldSum(purse, fnow) \in Nat
  <2>1. fnow \in Int
    BY <1>3
  <2> QED BY <1>2, <2>1, SumsNat
<1>10. ASSUME ~late PROVE ThisWindow(WindowOf(fnow))'
  <2>1. ThisWindow(cur) /\ \A r \in Requests : ~Awaits(req[r])
    BY <1>10 DEF SpendInv, cur, FleetTick, Prompt, Awaits
  <2>2. \A s \in Spenders : purse[s].credits > 0 => purse[s].expiresAt = EndOf(cur) \/ purse[s].expiresAt <= fnow + 1
    <3>1. ASSUME NEW s \in Spenders, purse[s].expiresAt <= fnow PROVE purse[s].expiresAt <= fnow + 1
      <4>1. purse[s].expiresAt \in Int
        BY <1>2 DEF PurseType
      <4> QED BY <1>3, <3>1, <4>1
    <3> QED BY <2>1, <3>1 DEF ThisWindow
  <2>3. \A v \in Windows : served[v] <= FleetLimit /\ (v > nxt => served[v] = 0)
    <3>1. ASSUME NEW v \in Windows, v > nxt PROVE v > cur
      <4>1. v \in Int
        BY DEF Windows
      <4> QED BY <1>4, <1>5, <3>1, <4>1
    <3> QED BY <2>1, <3>1 DEF ThisWindow
  <2>4. \A s \in Spenders : GoodOf(purse[s], fnow) \in Nat /\ GoodOf(purse[s], fnow + 1) \in Nat
                            /\ GoodOf(purse[s], fnow + 1) <= GoodOf(purse[s], fnow)
    BY <1>2, <1>3 DEF GoodOf, PurseType
  <2>5. /\ \A s \in Spenders : purse[s].credits > 0 => purse[s].expiresAt = EndOf(nxt) \/ purse[s].expiresAt <= fnow + 1
        /\ served[nxt] + HeldSum(purse, fnow + 1) + OwedSum(req) <= drained[nxt]
    <3>0. served[nxt] \in Nat /\ drained[nxt] \in Nat /\ drained[cur] \in Nat /\ served[cur] \in Nat
      BY <1>2, <1>4
    <3>1. CASE cur = nxt
      <4>1. HeldSum(purse, fnow + 1) <= HeldSum(purse, fnow)
        <5> DEFINE f == [s \in Spenders |-> GoodOf(purse[s], fnow + 1)]
                   g == [s \in Spenders |-> GoodOf(purse[s], fnow)]
        <5>1. \A s \in Spenders : f[s] \in Int /\ g[s] \in Int /\ f[s] <= g[s]
          BY <2>4
        <5>2. IsFiniteSet(Spenders)
          BY SpenderOptions
        <5> HIDE DEF f, g
        <5>3. SumFunctionOnSet(f, Spenders) <= SumFunctionOnSet(g, Spenders)
          BY <5>1, <5>2, SetSumMonotone
        <5> QED BY <5>3 DEF HeldSum, f, g
      <4>2. HeldSum(purse, fnow + 1) \in Nat
        <5>1. fnow + 1 \in Int
          BY <1>3
        <5> QED BY <1>2, <5>1, SumsNat
      <4>3. served[nxt] + HeldSum(purse, fnow) + OwedSum(req) <= drained[nxt]
        BY <2>1, <3>1 DEF ThisWindow
      <4>4. served[nxt] + HeldSum(purse, fnow + 1) + OwedSum(req) <= drained[nxt]
        BY <1>9, <3>0, <4>1, <4>2, <4>3
      <4> QED BY <2>2, <3>1, <4>4
    <3>2. CASE cur # nxt
      <4>1. cur < nxt /\ nxt > cur
        BY <1>4, <1>5, <3>2
      <4>2. ASSUME NEW s \in Spenders, purse[s].credits > 0 PROVE purse[s].expiresAt <= fnow + 1
        BY <1>6, <2>2, <4>1, <4>2
      <4>3. HeldSum(purse, fnow + 1) = 0
        <5> DEFINE f == [s \in Spenders |-> GoodOf(purse[s], fnow + 1)]
        <5>1. \A s \in Spenders : f[s] = 0
          <6>1. \A s \in Spenders : purse[s].credits \in Nat /\ purse[s].expiresAt \in Int
            BY <1>2 DEF PurseType
          <6> QED BY <1>3, <4>2, <6>1 DEF GoodOf
        <5>2. IsFiniteSet(Spenders)
          BY SpenderOptions
        <5> HIDE DEF f
        <5>3. SumFunctionOnSet(f, Spenders) = 0
          BY <5>1, <5>2, SetSumZero
        <5> QED BY <5>3 DEF HeldSum, f
      <4>4. OwedSum(req) = 0
        <5> DEFINE f == [r \in Requests |-> OwedOf(req[r])]
        <5>1. \A r \in Requests : f[r] = 0
          BY <2>1 DEF OwedOf, Awaits
        <5>2. IsFiniteSet(Requests)
          BY SpenderOptions
        <5> HIDE DEF f
        <5>3. SumFunctionOnSet(f, Requests) = 0
          BY <5>1, <5>2, SetSumZero
        <5> QED BY <5>3 DEF OwedSum, f
      <4>5. served[nxt] = 0
        BY <1>4, <2>1, <4>1 DEF ThisWindow
      <4>6. served[nxt] + HeldSum(purse, fnow + 1) + OwedSum(req) <= drained[nxt]
        BY <3>0, <4>3, <4>4, <4>5
      <4> QED BY <4>2, <4>6
    <3> QED BY <3>1, <3>2
  <2>6. WindowOf(fnow)' = nxt
    BY <1>1 DEF WindowOf, nxt
  <2> QED BY <1>1, <2>1, <2>3, <2>5, <2>6 DEF ThisWindow
<1> QED BY <1>1, <1>7, <1>8, <1>10 DEF SpendInv

LEMMA SpendInitial == FleetInit => SpendInv
<1> SUFFICES ASSUME FleetInit PROVE SpendInv
  OBVIOUS
<1>0. FleetSpan \in Nat /\ FleetWindow \in Nat \ {0} /\ MaxRounds \in Nat /\ FleetLimit \in Nat /\ 0 \in 0..FleetSpan
  BY SpenderOptions
<1>1. Unborn \in ReqType /\ ~Awaits(Unborn) /\ OwedOf(Unborn) = 0
  BY <1>0 DEF Unborn, ReqType, CallStatus, Awaits, OwedOf
<1>2. FleetTypes
  BY <1>0, <1>1 DEF FleetInit, FleetTypes, PurseType, OutType, NoExpiry
<1>3. GrantedSum(out) = 0
  <2> DEFINE f == [s \in Spenders |-> out[s].granted]
  <2>1. \A s \in Spenders : f[s] = 0
    BY DEF FleetInit
  <2>2. IsFiniteSet(Spenders)
    BY SpenderOptions
  <2> HIDE DEF f
  <2>3. SumFunctionOnSet(f, Spenders) = 0
    BY <2>1, <2>2, SetSumZero
  <2> QED BY <2>3 DEF GrantedSum, f
<1>4. HeldSum(purse, fnow) = 0
  <2> DEFINE f == [s \in Spenders |-> GoodOf(purse[s], fnow)]
  <2>1. \A s \in Spenders : f[s] = 0
    BY DEF FleetInit, GoodOf
  <2>2. IsFiniteSet(Spenders)
    BY SpenderOptions
  <2> HIDE DEF f
  <2>3. SumFunctionOnSet(f, Spenders) = 0
    BY <2>1, <2>2, SetSumZero
  <2> QED BY <2>3 DEF HeldSum, f
<1>5. OwedSum(req) = 0
  <2> DEFINE f == [r \in Requests |-> OwedOf(req[r])]
  <2>1. \A r \in Requests : f[r] = 0
    BY <1>1 DEF FleetInit
  <2>2. IsFiniteSet(Requests)
    BY SpenderOptions
  <2> HIDE DEF f
  <2>3. SumFunctionOnSet(f, Requests) = 0
    BY <2>1, <2>2, SetSumZero
  <2> QED BY <2>3 DEF OwedSum, f
<1>6. SumFunctionOnSet(drained, Windows) = 0
  <2>1. \A w \in Windows : drained[w] = 0
    BY DEF FleetInit
  <2>2. IsFiniteSet(Windows)
    BY SpenderOptions
  <2> QED BY <2>1, <2>2, SetSumZero
<1>7. BooksInv
  <2>1. \A s \in Spenders : out[s].granted = out[s].spent + out[s].lost + purse[s].credits
    BY DEF FleetInit
  <2> QED BY <1>3, <1>5, <1>6, <2>1 DEF BooksInv
<1>8. ThisWindow(WindowOf(fnow))
  <2>1. WindowOf(fnow) \in Windows
    BY <1>0, FleetWindows DEF FleetInit
  <2>2. \A r \in Requests : ~Awaits(req[r])
    BY <1>1 DEF FleetInit
  <2>3. /\ \A s \in Spenders : ~(purse[s].credits > 0)
        /\ \A v \in Windows : served[v] = 0 /\ drained[v] = 0
    BY DEF FleetInit
  <2>4. served[WindowOf(fnow)] + HeldSum(purse, fnow) + OwedSum(req) <= drained[WindowOf(fnow)]
    <3>1. served[WindowOf(fnow)] = 0 /\ drained[WindowOf(fnow)] = 0
      BY <2>1, <2>3
    <3> QED BY <1>4, <1>5, <3>1
  <2> QED BY <1>0, <2>2, <2>3, <2>4 DEF ThisWindow
<1> QED BY <1>2, <1>7, <1>8 DEF SpendInv

LEMMA SpendKeeps == SpendInv /\ [FleetNext]_fleetVars => SpendInv'
<1> SUFFICES ASSUME SpendInv, [FleetNext]_fleetVars PROVE SpendInv'
  OBVIOUS
<1>1. CASE UNCHANGED fleetVars
  BY <1>1 DEF fleetVars, SpendInv, FleetTypes, BooksInv, ThisWindow, HeldSum, OwedSum, GrantedSum, WindowOf
<1>2. ASSUME NEW r \in Requests, NEW s \in Spenders, NEW cost \in SpendCosts, Call(r, s, cost) PROVE SpendInv'
  BY <1>2, CallKeeps
<1>3. ASSUME NEW r \in Requests, Answer(r) PROVE SpendInv'
  <2>1. CASE Reserve(r)
    BY <2>1, ReserveKeeps
  <2>2. CASE Reply(r)
    BY <2>2, ReplyKeeps
  <2>3. CASE ReserveFails(r)
    <3>1. req' = [req EXCEPT ![r] = Ended("failed")] /\ UNCHANGED <<fnow, late, drained, purse, out, served>>
      BY <2>3 DEF ReserveFails
    <3>2. "failed" \in CallStatus \ {"asking", "granted"}
      BY DEF CallStatus
    <3> QED BY <3>1, <3>2, EndedKeeps
  <2> QED BY <1>3, <2>1, <2>2, <2>3 DEF Answer
<1>4. ASSUME NEW s \in Spenders, ResetSpender(s) PROVE SpendInv'
  BY <1>4, ResetSpenderKeeps
<1>5. CASE FleetTick
  BY <1>5, FleetTickKeeps
<1> QED BY <1>1, <1>2, <1>3, <1>4, <1>5 DEF FleetNext

LEMMA FoldIsSum == \A f : FoldFunction(+, 0, f) = SumFunctionOnSet(f, DOMAIN f)
BY DEF FoldFunction, SumFunctionOnSet

LEMMA SpendSound == SpendInv => SpendsCovered /\ FleetTypeOK
<1> SUFFICES ASSUME SpendInv PROVE SpendsCovered /\ FleetTypeOK
  OBVIOUS
<1>1. /\ req \in [Requests -> ReqType] /\ drained \in [Windows -> 0..FleetLimit] /\ fnow \in 0..FleetSpan
      /\ purse \in [Spenders -> PurseType] /\ out \in [Spenders -> OutType] /\ served \in [Windows -> Nat]
  BY DEF SpendInv, FleetTypes
<1>2. OwedSum(req) \in Nat /\ GrantedSum(out) \in Int
  <2>1. fnow \in Int
    BY <1>1
  <2> QED BY <1>1, <2>1, SumsNat
<1>3. SumFunctionOnSet(drained, Windows) \in Int
  <2>1. IsFiniteSet(Windows) /\ \A w \in Windows : drained[w] \in Int
    BY <1>1, SpenderOptions
  <2> QED BY <2>1, SetSumInt
<1>4. FoldFunction(+, 0, [s \in Spenders |-> out[s].granted]) = GrantedSum(out)
  <2> DEFINE f == [s \in Spenders |-> out[s].granted]
  <2>1. DOMAIN f = Spenders
    OBVIOUS
  <2> HIDE DEF f
  <2>2. FoldFunction(+, 0, f) = SumFunctionOnSet(f, Spenders)
    BY <2>1, FoldIsSum
  <2> QED BY <2>2 DEF GrantedSum, f
<1>5. FoldFunction(+, 0, drained) = SumFunctionOnSet(drained, Windows)
  <2>1. DOMAIN drained = Windows
    BY <1>1
  <2> QED BY <2>1, FoldIsSum
<1>6. GrantedSum(out) <= SumFunctionOnSet(drained, Windows)
  <2>1. GrantedSum(out) + OwedSum(req) <= SumFunctionOnSet(drained, Windows)
    BY DEF SpendInv, BooksInv
  <2> QED BY <1>2, <1>3, <2>1
<1>7. SpendsCovered
  BY <1>4, <1>5, <1>6 DEF SpendsCovered, SpendInv, BooksInv, ThisWindow
<1>8. FleetTypeOK
  <2>1. \A s \in Spenders : purse[s].credits >= 0
    BY <1>1 DEF PurseType
  <2>2. \A r \in Requests : req[r].st \in CallStatus /\ req[r].round <= MaxRounds
    <3>1. \A r \in Requests : req[r].st \in CallStatus /\ req[r].round \in 0..MaxRounds
      BY <1>1 DEF ReqType
    <3> QED BY <3>1, SpenderOptions
  <2> QED BY <1>1, <2>1, <2>2 DEF FleetTypeOK, CallStatus
<1> QED BY <1>7, <1>8

\* A fleet's client spends what it was granted, and the calls of a window the limit.
FleetSpec == FleetInit /\ [][FleetNext]_fleetVars
LEMMA FleetHolds == FleetSpec => [](SpendsCovered /\ FleetTypeOK)
<1>1. SpendInv => SpendsCovered /\ FleetTypeOK
  BY SpendSound
<1> QED BY SpendInitial, SpendKeeps, <1>1, PTL DEF FleetSpec
----------------------------------------------------------------------------
(* The budgets that are shared *)

UseType == UNION {[D -> Nat] : D \in SUBSET Tenants}
SumOf(f) == SumFunctionOnSet(f, DOMAIN f)
ShareOK(s) == s \in [start : Int, total : 0..ShareLimit, used : UseType] /\ s.total = SumOf(s.used)

LEMMA UsesAre ==
    ASSUME NEW f \in UseType
    PROVE  /\ DOMAIN f \subseteq Tenants /\ IsFiniteSet(DOMAIN f) /\ f \in [DOMAIN f -> Nat]
           /\ \A x \in DOMAIN f : f[x] \in Nat
           /\ SumOf(f) \in Nat
<1>1. PICK D \in SUBSET Tenants : f \in [D -> Nat]
  BY DEF UseType
<1>2. DOMAIN f = D /\ \A x \in DOMAIN f : f[x] \in Nat
  BY <1>1
<1>3. IsFiniteSet(DOMAIN f)
  BY <1>2, FS_Subset, BudgetAssumption
<1>4. SumOf(f) \in Nat
  BY <1>2, <1>3, SetSumNat DEF SumOf
<1> QED BY <1>1, <1>2, <1>3, <1>4

\* What a tenant holds replaced by v, or dropped.
LEMMA WithSums ==
    ASSUME NEW f \in UseType, NEW t \in Tenants, NEW v \in Nat
    PROVE  /\ With(f, t, v) \in UseType
           /\ SumOf(With(f, t, v)) = SumOf(f) - (IF t \in DOMAIN f THEN f[t] ELSE 0) + v
<1> DEFINE D == DOMAIN f
           E == D \cup {t}
           g == With(f, t, v)
<1>1. D \subseteq Tenants /\ IsFiniteSet(D) /\ f \in [D -> Nat] /\ SumOf(f) \in Nat
  BY UsesAre
<1>2. g \in [E -> Nat] /\ DOMAIN g = E /\ g[t] = v /\ \A x \in D : x # t => g[x] = f[x]
  BY <1>1 DEF With
<1> HIDE DEF g
<1>3. g \in UseType
  BY <1>1, <1>2 DEF UseType
<1>4. CASE t \in D
  <2>1. E = D /\ \A x \in D : f[x] \in Int /\ g[x] \in Int
    BY <1>1, <1>2, <1>4
  <2>2. \A x \in D : x # t => f[x] = g[x]
    BY <1>2
  <2> HIDE DEF D, E
  <2>3. SumFunctionOnSet(g, D) = SumFunctionOnSet(f, D) - f[t] + g[t]
    <3>1. IsFiniteSet(D)
      BY <1>1
    <3> QED BY <1>4, <2>1, <2>2, <3>1, SetSumUpdate
  <2>4. SumOf(g) = SumOf(f) - f[t] + v
    BY <1>2, <2>1, <2>3 DEF SumOf, D
  <2> QED BY <1>3, <1>4, <2>4 DEF g, D
<1>5. CASE t \notin D
  <2>1. \A x \in E : g[x] \in Int
    BY <1>2
  <2>2. \A x \in D : f[x] \in Int /\ f[x] = g[x]
    BY <1>1, <1>2, <1>5
  <2>3. IsFiniteSet(E) /\ D \in SUBSET E /\ t \in E
    <3>1. IsFiniteSet(E)
      BY <1>1, FS_AddElement
    <3> QED BY <3>1
  <2>4. SumFunctionOnSet(f, D) = SumFunctionOnSet(g, D)
    <3>1. IsFiniteSet(D)
      BY <1>1
    <3> HIDE DEF D, E
    <3> QED BY <2>2, <3>1, SetSumEqual
  <2>5. SumFunctionOnSet(g, E) = g[t] + SumFunctionOnSet(g, D)
    <3>1. E = D \cup {t}
      OBVIOUS
    <3> HIDE DEF D, E
    <3>2. SumFunctionOnSet(g, D \cup {t}) = g[t] + SumFunctionOnSet(g, D)
      BY <1>5, <2>1, <2>3, SetSumAdd
    <3> QED BY <3>1, <3>2
  <2>6. SumOf(g) = SumOf(f) + v
    BY <1>1, <1>2, <2>4, <2>5 DEF SumOf
  <2> QED BY <1>1, <1>3, <1>5, <2>6 DEF g
<1> QED BY <1>4, <1>5

LEMMA WithoutSums ==
    ASSUME NEW f \in UseType, NEW t \in DOMAIN f
    PROVE  Without(f, t) \in UseType /\ SumOf(Without(f, t)) = SumOf(f) - f[t] /\ SumOf(Without(f, t)) \in Nat
<1> DEFINE D == DOMAIN f
           E == D \ {t}
           g == Without(f, t)
<1>1. D \subseteq Tenants /\ IsFiniteSet(D) /\ f \in [D -> Nat] /\ SumOf(f) \in Nat
  BY UsesAre
<1>2. g \in [E -> Nat] /\ DOMAIN g = E /\ \A x \in E : f[x] \in Int /\ f[x] = g[x]
  BY <1>1 DEF Without
<1> HIDE DEF g
<1>3. g \in UseType
  BY <1>1, <1>2 DEF UseType
<1>4. IsFiniteSet(E) /\ \A x \in D : f[x] \in Int
  <2>1. IsFiniteSet(E)
    BY <1>1, FS_RemoveElement
  <2> QED BY <1>1, <2>1
<1>5. SumFunctionOnSet(f, E) = SumFunctionOnSet(g, E)
  <2> HIDE DEF E
  <2> QED BY <1>2, <1>4, SetSumEqual
<1>6. SumFunctionOnSet(f, D) = f[t] + SumFunctionOnSet(f, E)
  <2>1. IsFiniteSet(D) /\ t \in D /\ \A x \in D : f[x] \in Int
    BY <1>1, <1>4
  <2> HIDE DEF D
  <2>2. SumFunctionOnSet(f, D) = f[t] + SumFunctionOnSet(f, D \ {t})
    BY <2>1, SetSumSplit
  <2> QED BY <2>2
<1>7. SumOf(g) \in Nat
  BY <1>3, UsesAre
<1>8. f[t] \in Int
  BY <1>4
<1> QED BY <1>1, <1>2, <1>3, <1>5, <1>6, <1>7, <1>8 DEF SumOf, g

LEMMA ShareOps ==
    ASSUME NEW s, ShareOK(s), bnow \in Int
    PROVE  /\ ShareOK(Fresh(s))
           /\ \A t \in Tenants, cost \in Nat : \A cap : ShareOK(Debited(s, t, cost, cap))
           /\ \A t \in Tenants : ShareOK(Refunded(s, t))
           /\ ShareOK([start |-> NoTime, total |-> 0, used |-> NoUse])
<1>0. ShareLimit \in Nat /\ BudgetWindow \in Nat \ {0} /\ NoTime \in Int /\ StartOf(bnow) \in Int
  <2>1. \A w \in Nat \ {0} : (bnow \div w) * w \in Int
    OBVIOUS
  <2> QED BY <2>1, BudgetAssumption DEF NoTime, StartOf
<1>1. s \in [start : Int, total : 0..ShareLimit, used : UseType] /\ s.total = SumOf(s.used)
  BY DEF ShareOK
<1>2. NoUse \in UseType /\ SumOf(NoUse) = 0
  <2>1. DOMAIN NoUse = {} /\ NoUse \in [{} -> Nat]
    BY DEF NoUse
  <2> QED BY <2>1, SetSumEmpty DEF UseType, SumOf
<1>3. ASSUME NEW at \in Int PROVE ShareOK([start |-> at, total |-> 0, used |-> NoUse])
  <2>1. 0 \in 0..ShareLimit
    BY <1>0
  <2> QED BY <1>2, <2>1 DEF ShareOK
<1>4. ShareOK(Fresh(s))
  BY <1>0, <1>3 DEF Fresh
<1>5. ASSUME NEW t \in Tenants, NEW cost \in Nat, NEW cap PROVE ShareOK(Debited(s, t, cost, cap))
  <2> DEFINE used == UsedBy(s, t)
             n == IF s.total + cost <= ShareLimit /\ used + cost <= cap THEN cost ELSE 0
             f == With(s.used, t, used + n)
             d == [start |-> s.start, total |-> s.total + n, used |-> f]
  <2>1. used \in Nat /\ used = IF t \in DOMAIN s.used THEN s.used[t] ELSE 0
    <3>1. \A x \in DOMAIN s.used : s.used[x] \in Nat
      BY <1>1, UsesAre
    <3> QED BY <3>1 DEF UsedBy
  <2>2. n \in Nat /\ used + n \in Nat /\ s.total + n \in 0..ShareLimit /\ s.total \in Nat
    BY <1>0, <1>1, <2>1
  <2> HIDE DEF used
  <2>3. Debited(s, t, cost, cap) = d
    <3>1. CASE s.total + cost <= ShareLimit /\ used + cost <= cap
      BY <1>1, <3>1 DEF Debited, used
    <3>2. CASE ~(s.total + cost <= ShareLimit /\ used + cost <= cap)
      <4>1. used + n = used /\ s.total + n = s.total
        BY <2>1, <2>2, <3>2
      <4>2. d = [start |-> s.start, total |-> s.total, used |-> With(s.used, t, used)]
        BY <4>1
      <4>3. Debited(s, t, cost, cap) = [s EXCEPT !.used = With(s.used, t, used)]
        BY <1>1, <3>2 DEF Debited, used
      <4> QED BY <1>1, <4>2, <4>3
    <3> QED BY <3>1, <3>2
  <2> HIDE DEF n
  <2>4. f \in UseType /\ SumOf(f) = SumOf(s.used) - used + (used + n)
    BY <1>1, <2>1, <2>2, WithSums
  <2>5. SumOf(f) = s.total + n
    BY <1>1, <2>1, <2>2, <2>4
  <2> QED BY <1>1, <2>2, <2>3, <2>4, <2>5 DEF ShareOK
<1>6. ASSUME NEW t \in Tenants PROVE ShareOK(Refunded(s, t))
  <2>1. CASE t \in DOMAIN s.used
    <3> DEFINE f == Without(s.used, t)
               v == s.used[t]
               d == [start |-> s.start, total |-> s.total - v, used |-> f]
    <3>1. f \in UseType /\ SumOf(f) = SumOf(s.used) - v /\ SumOf(f) \in Nat
      BY <1>1, <2>1, WithoutSums
    <3>2. v \in Nat
      BY <1>1, <2>1, UsesAre
    <3>3. Refunded(s, t) = d
      BY <1>1, <2>1 DEF Refunded
    <3> HIDE DEF f, v
    <3>4. s.total - v \in 0..ShareLimit /\ s.total - v = SumOf(f)
      BY <1>0, <1>1, <3>1, <3>2
    <3> QED BY <1>1, <3>1, <3>3, <3>4 DEF ShareOK
  <2>2. CASE t \notin DOMAIN s.used
    BY <2>2 DEF Refunded
  <2> QED BY <2>1, <2>2
<1> QED BY <1>0, <1>3, <1>4, <1>5, <1>6
(* Fractions: Divisor is a recursion on its second argument, which the remainder makes smaller. *)

DivisorFcn(f, n) ==
    f = [p \in Nat \X (0..n) |-> IF p[2] = 0 THEN p[1] ELSE f[<<p[2], p[1] % p[2]>>]]

LEMMA DivisorFcnUnique ==
    ASSUME NEW m \in Nat, NEW n \in Nat, m <= n, NEW f, DivisorFcn(f, m), NEW g, DivisorFcn(g, n)
    PROVE  \A a \in Nat, b \in 0..m : f[<<a, b>>] = g[<<a, b>>]
<1> DEFINE S == {k \in Nat : \A b \in 0..k : b <= m => \A a \in Nat : f[<<a, b>>] = g[<<a, b>>]}
<1>1. \A a \in Nat, b \in 0..m :
        /\ f[<<a, b>>] = IF b = 0 THEN a ELSE f[<<b, a % b>>]
        /\ g[<<a, b>>] = IF b = 0 THEN a ELSE g[<<b, a % b>>]
  <2> SUFFICES ASSUME NEW a \in Nat, NEW b \in 0..m
               PROVE  /\ f[<<a, b>>] = IF b = 0 THEN a ELSE f[<<b, a % b>>]
                      /\ g[<<a, b>>] = IF b = 0 THEN a ELSE g[<<b, a % b>>]
    OBVIOUS
  <2>1. <<a, b>> \in Nat \X (0..m) /\ <<a, b>> \in Nat \X (0..n)
    OBVIOUS
  <2> QED BY <2>1 DEF DivisorFcn
<1>2. 0 \in S
  <2>1. \A a \in Nat : f[<<a, 0>>] = g[<<a, 0>>]
    <3>1. 0 \in 0..m
      OBVIOUS
    <3> QED BY <1>1, <3>1, Zenon
  <2>2. \A b \in 0..0 : b = 0
    OBVIOUS
  <2> QED BY <2>1, <2>2
<1>3. ASSUME NEW k \in Nat, k \in S PROVE k + 1 \in S
  <2>0. SUFFICES \A b \in 0..(k + 1) : b <= m => \A a \in Nat : f[<<a, b>>] = g[<<a, b>>]
    <3>1. k + 1 \in Nat
      OBVIOUS
    <3> QED BY <3>1, Zenon
  <2> SUFFICES ASSUME NEW b \in 0..(k + 1), b <= m, NEW a \in Nat PROVE f[<<a, b>>] = g[<<a, b>>]
    BY Zenon
  <2>1. CASE b = 0
    <3>1. b \in 0..m
      BY <2>1
    <3> QED BY <1>1, <2>1, <3>1, Zenon
  <2>2. CASE b # 0
    <3>1. a % b \in 0..k /\ a % b <= m /\ b \in Nat /\ b \in 0..m
      BY <2>2
    <3>2. f[<<b, a % b>>] = g[<<b, a % b>>]
      BY <1>3, <3>1
    <3> QED BY <1>1, <2>2, <3>1, <3>2
  <2> QED BY <2>1, <2>2
<1> HIDE DEF S
<1>4. \A k \in Nat : k \in S
  BY <1>2, <1>3, SetInduction
<1> QED BY <1>4 DEF S

LEMMA DivisorFcnExists == \A n \in Nat : \E f : DivisorFcn(f, n)
<1> DEFINE S == {n \in Nat : \E f : DivisorFcn(f, n)}
<1>1. 0 \in S
  <2> DEFINE f == [p \in Nat \X (0..0) |-> p[1]]
  <2>1. f = [p \in Nat \X (0..0) |-> IF p[2] = 0 THEN p[1] ELSE f[<<p[2], p[1] % p[2]>>]]
    OBVIOUS
  <2> QED BY <2>1 DEF DivisorFcn
<1>2. ASSUME NEW n \in Nat, n \in S PROVE n + 1 \in S
  <2>1. PICK f : DivisorFcn(f, n)
    BY <1>2
  <2> DEFINE g == [p \in Nat \X (0..(n + 1)) |-> IF p[2] = 0 THEN p[1] ELSE f[<<p[2], p[1] % p[2]>>]]
  <2>2. ASSUME NEW p \in Nat \X (0..(n + 1)), p[2] # 0
        PROVE  f[<<p[2], p[1] % p[2]>>] = g[<<p[2], p[1] % p[2]>>]
    <3> DEFINE a == p[2]
               b == p[1] % p[2]
    <3>1. a \in Nat /\ b \in 0..n /\ b \in 0..(n + 1)
      BY <2>2
    <3> HIDE DEF a, b
    <3>2. <<a, b>> \in Nat \X (0..n) /\ <<a, b>> \in Nat \X (0..(n + 1))
      BY <3>1
    <3>3. f[<<a, b>>] = IF b = 0 THEN a ELSE f[<<b, a % b>>]
      BY <2>1, <3>2 DEF DivisorFcn
    <3>4. g[<<a, b>>] = IF b = 0 THEN a ELSE f[<<b, a % b>>]
      BY <3>2
    <3> QED BY <3>3, <3>4 DEF a, b
  <2>3. g = [p \in Nat \X (0..(n + 1)) |-> IF p[2] = 0 THEN p[1] ELSE g[<<p[2], p[1] % p[2]>>]]
    <3> DEFINE R(p) == IF p[2] = 0 THEN p[1] ELSE f[<<p[2], p[1] % p[2]>>]
               Q(p) == IF p[2] = 0 THEN p[1] ELSE g[<<p[2], p[1] % p[2]>>]
    <3>1. \A p \in Nat \X (0..(n + 1)) : R(p) = Q(p)
      BY <2>2
    <3> HIDE DEF R, Q
    <3>2. [p \in Nat \X (0..(n + 1)) |-> R(p)] = [p \in Nat \X (0..(n + 1)) |-> Q(p)]
      BY <3>1
    <3> QED BY <3>2 DEF R, Q
  <2> HIDE DEF g
  <2> QED BY <2>3 DEF DivisorFcn
<1> HIDE DEF S
<1>3. \A n \in Nat : n \in S
  BY <1>1, <1>2, SetInduction
<1> QED BY <1>3 DEF S

LEMMA DivisorIs == \A a \in Nat, b \in Nat : Divisor[<<a, b>>] = IF b = 0 THEN a ELSE Divisor[<<b, a % b>>]
<1> DEFINE C(n) == CHOOSE f : DivisorFcn(f, n)
           F == [p \in Nat \X Nat |-> C(p[2])[p]]
<1>1. \A n \in Nat : DivisorFcn(C(n), n)
  BY DivisorFcnExists
<1>2. ASSUME NEW p \in Nat \X Nat
      PROVE  F[p] = IF p[2] = 0 THEN p[1] ELSE F[<<p[2], p[1] % p[2]>>]
  <2> DEFINE a == p[1]
             b == p[2]
             c == a % b
  <2>0. a \in Nat /\ b \in Nat /\ p = <<a, b>>
    OBVIOUS
  <2> HIDE DEF a, b
  <2>1. p \in Nat \X (0..b) /\ F[p] = C(b)[p]
    BY <2>0 DEF b
  <2> HIDE DEF C, F
  <2>2. F[p] = IF b = 0 THEN a ELSE C(b)[<<b, c>>]
    <3>1. C(b)[p] = IF p[2] = 0 THEN p[1] ELSE C(b)[<<p[2], p[1] % p[2]>>]
      <4>1. DivisorFcn(C(b), b)
        BY <1>1, <2>0
      <4> QED BY <2>1, <4>1 DEF DivisorFcn
    <3> QED BY <2>1, <3>1 DEF a, b
  <2>3. CASE b # 0
    <3>1. c \in Nat /\ c <= b /\ c \in 0..c
      BY <2>0, <2>3
    <3> HIDE DEF c
    <3>2. C(c)[<<b, c>>] = C(b)[<<b, c>>]
      <4>1. DivisorFcn(C(b), b) /\ DivisorFcn(C(c), c)
        BY <1>1, <2>0, <3>1
      <4> QED BY <2>0, <3>1, <4>1, DivisorFcnUnique
    <3>3. F[<<b, c>>] = C(c)[<<b, c>>]
      BY <2>0, <3>1 DEF F
    <3> QED BY <2>2, <2>3, <3>2, <3>3 DEF a, b, c
  <2>4. CASE b = 0
    BY <2>2, <2>4 DEF a, b
  <2> QED BY <2>3, <2>4
<1> HIDE DEF F
<1>3. F = [p \in Nat \X Nat |-> IF p[2] = 0 THEN p[1] ELSE F[<<p[2], p[1] % p[2]>>]]
  <2> DEFINE Q(p) == IF p[2] = 0 THEN p[1] ELSE F[<<p[2], p[1] % p[2]>>]
  <2>1. \A p \in Nat \X Nat : F[p] = Q(p)
    BY <1>2
  <2> HIDE DEF Q
  <2>2. F = [p \in Nat \X Nat |-> Q(p)]
    BY <2>1 DEF F
  <2> QED BY <2>2 DEF Q
<1>4. Divisor = [p \in Nat \X Nat |-> IF p[2] = 0 THEN p[1] ELSE Divisor[<<p[2], p[1] % p[2]>>]]
  BY <1>3, Zenon DEF Divisor
<1>5. ASSUME NEW a \in Nat, NEW b \in Nat PROVE Divisor[<<a, b>>] = IF b = 0 THEN a ELSE Divisor[<<b, a % b>>]
  <2>1. <<a, b>> \in Nat \X Nat
    OBVIOUS
  <2> QED BY <1>4, <2>1
<1> QED BY <1>5
\* The greatest common divisor of 0 and b is b, and of a and b, not both 0, positive.
LEMMA DivisorPositive == \A b \in Nat \ {0} : /\ Divisor[<<0, b>>] = b
                                              /\ \A a \in Nat : Divisor[<<a, b>>] \in Nat \ {0}
<1> DEFINE S == {k \in Nat : \A b \in 0..k, a \in Nat : a + b # 0 => Divisor[<<a, b>>] \in Nat \ {0}}
<1>1. \A a \in Nat : Divisor[<<a, 0>>] = a
  BY DivisorIs, Zenon
<1>2. 0 \in S
  <2>1. \A b \in 0..0 : b = 0
    OBVIOUS
  <2> QED BY <1>1, <2>1
<1>3. ASSUME NEW k \in Nat, k \in S PROVE k + 1 \in S
  <2> SUFFICES ASSUME NEW b \in 0..(k + 1), NEW a \in Nat, a + b # 0 PROVE Divisor[<<a, b>>] \in Nat \ {0}
    OBVIOUS
  <2>1. CASE b = 0
    BY <1>1, <2>1
  <2>2. CASE b # 0
    <3>1. b \in Nat /\ a % b \in 0..k /\ b + (a % b) # 0
      BY <2>2
    <3>2. Divisor[<<b, a % b>>] \in Nat \ {0}
      BY <1>3, <3>1
    <3>3. Divisor[<<a, b>>] = Divisor[<<b, a % b>>]
      BY <2>2, <3>1, DivisorIs, Zenon
    <3> QED BY <3>2, <3>3
  <2> QED BY <2>1, <2>2
<1> HIDE DEF S
<1>4. \A k \in Nat : k \in S
  BY <1>2, <1>3, SetInduction
<1>5. ASSUME NEW b \in Nat \ {0} PROVE Divisor[<<0, b>>] = b
  <2>1. b \in Nat /\ 0 \in Nat /\ 0 % b = 0 /\ b # 0
    OBVIOUS
  <2>2. Divisor[<<0, b>>] = Divisor[<<b, 0 % b>>]
    BY <2>1, DivisorIs, Zenon
  <2>3. Divisor[<<b, 0>>] = b
    BY <1>1, <2>1
  <2> QED BY <2>1, <2>2, <2>3
<1>6. ASSUME NEW b \in Nat \ {0}, NEW a \in Nat PROVE Divisor[<<a, b>>] \in Nat \ {0}
  <2>1. b \in S /\ b \in 0..b /\ a + b # 0
    BY <1>4
  <2> QED BY <2>1 DEF S
<1> QED BY <1>5, <1>6

\* A fraction that is not positive, with a positive denominator, is at most 0; where it is 0 it is written 0/1.
LEMMA NotAboveZero ==
    ASSUME NEW n \in Int, n <= 0, NEW d \in Nat \ {0}
    PROVE  QMax(Whole(0), Ratio(n, d)) = Whole(0)
<1> DEFINE g == Divisor[<<Magnitude(n), Magnitude(d)>>]
<1>1. Magnitude(n) \in Nat /\ Magnitude(d) = d /\ (n = 0 => Magnitude(n) = 0) /\ ~(d < 0)
  BY DEF Magnitude
<1>2. g \in Nat \ {0} /\ (n = 0 => g = d)
  BY <1>1, DivisorPositive
<1> HIDE DEF g
<1>3. Ratio(n, d) = <<(1 * n) \div g, (1 * d) \div g>>
  BY <1>1 DEF Ratio, g
<1>4. 1 * n = n /\ 1 * d = d
  OBVIOUS
<1> DEFINE x == n \div g
           y == d \div g
<1>5. Ratio(n, d) = <<x, y>>
  BY <1>3, <1>4
<1>6. y \in Int /\ x \in Int
  BY <1>2
<1>7. CASE n = 0
  <2>1. x = 0 /\ y = 1
    BY <1>2, <1>7
  <2> HIDE DEF x, y
  <2> QED BY <1>5, <2>1 DEF QMax, Whole, QLeq
<1>8. CASE n # 0
  <2>1. x < 0
    BY <1>2, <1>8
  <2> HIDE DEF x, y
  <2>2. ~QLeq(<<0, 1>>, <<x, y>>)
    BY <1>6, <2>1 DEF QLeq
  <2> QED BY <1>5, <2>2 DEF QMax, Whole
<1> QED BY <1>7, <1>8

(* The windows of the budgets *)

LEMMA WindowStarts ==
    ASSUME NEW t \in Nat
    PROVE  /\ StartOf(t) \in Nat /\ StartOf(t) <= t /\ t < StartOf(t) + BudgetWindow
           /\ \A u \in Nat : StartOf(t) <= u /\ u < StartOf(t) + BudgetWindow => StartOf(u) = StartOf(t)
<1> DEFINE p == t \div BudgetWindow
<1>0. BudgetWindow \in Nat \ {0}
  BY BudgetAssumption
<1>1. p \in Nat /\ p * BudgetWindow <= t /\ t < (p + 1) * BudgetWindow /\ StartOf(t) = p * BudgetWindow
  BY <1>0, DivisionIs DEF StartOf
<1> HIDE DEF p
<1>2. (p + 1) * BudgetWindow = p * BudgetWindow + BudgetWindow /\ p * BudgetWindow \in Nat
  BY <1>0, <1>1
<1>3. ASSUME NEW u \in Nat, p * BudgetWindow <= u, u < (p + 1) * BudgetWindow PROVE StartOf(u) = p * BudgetWindow
  <2> DEFINE q == u \div BudgetWindow
  <2>1. q \in Nat /\ q * BudgetWindow <= u /\ u < (q + 1) * BudgetWindow /\ StartOf(u) = q * BudgetWindow
    BY <1>0, DivisionIs DEF StartOf
  <2> HIDE DEF q
  <2>2. ASSUME q < p PROVE FALSE
    <3>1. q + 1 <= p
      BY <1>1, <2>1, <2>2
    <3>2. (q + 1) * BudgetWindow <= p * BudgetWindow
      BY <1>0, <1>1, <2>1, <3>1
    <3>3. (q + 1) * BudgetWindow \in Nat
      BY <1>0, <2>1
    <3> QED BY <1>2, <1>3, <2>1, <3>2, <3>3
  <2>3. ASSUME p < q PROVE FALSE
    <3>1. p + 1 <= q
      BY <1>1, <2>1, <2>3
    <3>2. (p + 1) * BudgetWindow <= q * BudgetWindow
      BY <1>0, <1>1, <2>1, <3>1
    <3>3. q * BudgetWindow \in Nat /\ (p + 1) * BudgetWindow \in Nat
      BY <1>0, <1>1, <2>1
    <3> QED BY <1>3, <2>1, <3>2, <3>3
  <2>4. q = p
    BY <1>1, <2>1, <2>2, <2>3
  <2> QED BY <2>1, <2>4
<1> QED BY <1>1, <1>2, <1>3

\* The local meter and its row in the store: a row whose window is on is the meter's, and a meter whose
\* window is on without one has served nothing in it.
Most == TokenBudget + Largest(TokenSizes) - 1
MeterBooks ==
    /\ meter \in [start : Int, served : 0..Most] /\ row \in [w : Int, s : 0..Most]
    /\ bnow < meter.start + BudgetWindow => meter.start = StartOf(bnow)
    /\ bnow < row.w + BudgetWindow => row.w = meter.start /\ row.s = meter.served
    /\ bnow < meter.start + BudgetWindow /\ bnow >= row.w + BudgetWindow => meter.served = 0
    /\ tool # "tokens" => meter = [start |-> NoTime, served |-> 0] /\ row = NoRow

\* What is known of a throttle: what was accepted or is out was sent, and as long as nothing was shed or
\* refused whatever was asked in the two windows was accepted or is out.
ThrottleInv ==
    /\ gauge \in [start : Int, requests : Nat, accepts : Nat, prevRequests : Nat, prevAccepts : Nat]
    /\ trips \in [open : Nat, spurned : BOOLEAN, sent : 0..MaxSent]
    /\ gauge.requests <= trips.sent /\ gauge.accepts + trips.open <= trips.sent
    /\ ~trips.spurned => /\ gauge.requests <= gauge.accepts + trips.open
                         /\ gauge.requests + gauge.prevRequests <= gauge.accepts + gauge.prevAccepts + trips.open

BudgetInv ==
    /\ bnow \in 0..BudgetSpan /\ tool \in Tools
    /\ ShareOK(share) /\ DOMAIN weight \subseteq Tenants
    /\ MeterBooks /\ ThrottleInv

LEMMA MostTokens ==
    Largest(TokenSizes) \in Nat /\ Most \in Nat /\ TokenBudget <= Most /\ TokenBudget \in Nat \ {0}
    /\ \A n \in TokenSizes : n \in Nat /\ n <= Largest(TokenSizes)
<1>1. TokenSizes \subseteq Nat \ {0} /\ (\E n \in TokenSizes : \A m \in TokenSizes : m <= n) /\ TokenBudget \in Nat \ {0}
  BY BudgetAssumption
<1>2. Largest(TokenSizes) \in TokenSizes /\ \A m \in TokenSizes : m <= Largest(TokenSizes)
  BY <1>1, Zenon DEF Largest
<1>3. Largest(TokenSizes) \in Nat /\ Largest(TokenSizes) >= 1
  <2>1. Largest(TokenSizes) \in Nat \ {0}
    BY <1>1, <1>2, Zenon
  <2> QED BY <2>1
<1> DEFINE big == Largest(TokenSizes)
<1> HIDE DEF big
<1>4. TokenBudget + big - 1 \in Nat /\ TokenBudget <= TokenBudget + big - 1
  BY <1>1, <1>3 DEF big
<1>5. \A n \in TokenSizes : n \in Nat
  BY <1>1
<1> QED BY <1>1, <1>2, <1>3, <1>4, <1>5, Zenon DEF Most, big

\* Rolled on to the present, the two are the same.
LEMMA MetersRoll ==
    ASSUME bnow \in Nat, MeterBooks
    PROVE  /\ RolledMeter(meter) \in [start : Int, served : 0..Most]
           /\ RolledMeter(meter).start = StartOf(bnow)
           /\ RolledRow(row) = [w |-> StartOf(bnow), s |-> RolledMeter(meter).served]
           /\ bnow < StartOf(bnow) + BudgetWindow
           /\ RolledMeter(meter).served >= TokenBudget => RolledRow(row) = row /\ RolledMeter(meter) = meter
<1>0. /\ BudgetWindow \in Nat \ {0} /\ StartOf(bnow) \in Nat /\ bnow < StartOf(bnow) + BudgetWindow
      /\ Most \in Nat /\ TokenBudget \in Nat \ {0} /\ NoRow.w = -BudgetWindow - 1
      /\ NoRow = [w |-> -BudgetWindow - 1, s |-> 0]
  BY WindowStarts, MostTokens, BudgetAssumption DEF NoRow, NoTime
<1>1. /\ meter \in [start : Int, served : 0..Most] /\ row \in [w : Int, s : 0..Most]
      /\ bnow < meter.start + BudgetWindow => meter.start = StartOf(bnow)
      /\ bnow < row.w + BudgetWindow => row.w = meter.start /\ row.s = meter.served
      /\ bnow < meter.start + BudgetWindow /\ bnow >= row.w + BudgetWindow => meter.served = 0
  BY DEF MeterBooks
<1>2. bnow < row.w + BudgetWindow => row # NoRow
  <2>1. ~(bnow < -BudgetWindow - 1 + BudgetWindow)
    BY <1>0
  <2> QED BY <1>0, <2>1
<1>3. CASE bnow < row.w + BudgetWindow
  <2>1. RolledRow(row) = row
    BY <1>0, <1>1, <1>2, <1>3 DEF RolledRow
  <2>2. RolledMeter(meter) = meter /\ meter.start = StartOf(bnow) /\ row.w = StartOf(bnow) /\ row.s = meter.served
    BY <1>0, <1>1, <1>3 DEF RolledMeter
  <2>3. row = [w |-> StartOf(bnow), s |-> meter.served]
    BY <1>1, <2>2
  <2> QED BY <1>0, <1>1, <2>1, <2>2, <2>3
<1>4. CASE bnow >= row.w + BudgetWindow
  <2>1. RolledRow(row) = [w |-> StartOf(bnow), s |-> 0]
    BY <1>4 DEF RolledRow
  <2>2. RolledMeter(meter) = [start |-> StartOf(bnow), served |-> 0]
    <3>1. CASE bnow < meter.start + BudgetWindow
      <4>1. meter.start = StartOf(bnow) /\ meter.served = 0
        BY <1>1, <1>4, <3>1
      <4>2. RolledMeter(meter) = meter
        BY <1>0, <1>1, <3>1 DEF RolledMeter
      <4> QED BY <1>1, <4>1, <4>2
    <3>2. CASE bnow >= meter.start + BudgetWindow
      BY <3>2 DEF RolledMeter
    <3> QED BY <1>0, <1>1, <3>1, <3>2
  <2> QED BY <1>0, <2>1, <2>2
<1> QED BY <1>0, <1>1, <1>3, <1>4

LEMMA MetersKeep ==
    ASSUME bnow \in Nat, bnow' = bnow, tool' = tool, MeterBooks,
           \/ \E n \in TokenSizes : Debit(n)
           \/ RowExpires \/ ResetBudget \/ Remaining
           \/ UNCHANGED <<meter, row>>
    PROVE  MeterBooks'
<1> DEFINE start == StartOf(bnow)
           m == RolledMeter(meter)
           r == RolledRow(row)
<1>0. /\ BudgetWindow \in Nat \ {0} /\ start \in Nat /\ bnow < start + BudgetWindow
      /\ Most \in Nat /\ TokenBudget \in Nat \ {0} /\ NoTime \in Int /\ 0 \in 0..Most
      /\ ~(bnow < NoTime + BudgetWindow) /\ NoRow = [w |-> NoTime, s |-> 0]
      /\ StartOf(bnow)' = start
  <2>1. BudgetWindow \in Nat \ {0} /\ start \in Nat /\ bnow < start + BudgetWindow /\ Most \in Nat /\ TokenBudget \in Nat \ {0}
    BY WindowStarts, MostTokens, BudgetAssumption
  <2>2. NoTime \in Int /\ ~(bnow < NoTime + BudgetWindow) /\ 0 \in 0..Most
    BY <2>1 DEF NoTime
  <2>3. StartOf(bnow)' = start
    BY DEF StartOf
  <2> QED BY <2>1, <2>2, <2>3 DEF NoRow
<1>1. /\ m \in [start : Int, served : 0..Most] /\ m.start = start /\ r = [w |-> start, s |-> m.served]
      /\ m.served >= TokenBudget => r = row /\ m = meter
  BY MetersRoll
<1>2. /\ meter \in [start : Int, served : 0..Most] /\ row \in [w : Int, s : 0..Most]
      /\ bnow < meter.start + BudgetWindow => meter.start = start
      /\ bnow < row.w + BudgetWindow => row.w = meter.start /\ row.s = meter.served
      /\ bnow < meter.start + BudgetWindow /\ bnow >= row.w + BudgetWindow => meter.served = 0
      /\ tool # "tokens" => meter = [start |-> NoTime, served |-> 0] /\ row = NoRow
  BY DEF MeterBooks
<1> HIDE DEF start, m, r
<1>3. ASSUME NEW n \in TokenSizes, Debit(n) PROVE MeterBooks'
  <2>0. tool = "tokens" /\ n \in Nat /\ n <= Largest(TokenSizes) /\ Largest(TokenSizes) \in Nat
    BY <1>3, MostTokens DEF Debit
  <2>1. CASE m.served >= TokenBudget
    <3>1. meter' = meter /\ row' = row
      BY <1>1, <1>3, <2>1 DEF Debit, DebitMeter, DebitRow, m, r
    <3> QED BY <1>0, <1>2, <2>0, <3>1 DEF MeterBooks
  <2>2. CASE ~(m.served >= TokenBudget)
    <3>1. meter' = [m EXCEPT !.served = @ + n] /\ row' = [r EXCEPT !.s = @ + n]
      BY <1>1, <1>3, <2>2 DEF Debit, DebitMeter, DebitRow, m, r
    <3>2. m.served + n \in 0..Most
      BY <1>0, <1>1, <2>0, <2>2 DEF Most
    <3>3. meter' = [start |-> start, served |-> m.served + n] /\ row' = [w |-> start, s |-> m.served + n]
      BY <1>1, <3>1
    <3> HIDE DEF m, r
    <3> QED BY <1>0, <2>0, <3>2, <3>3 DEF MeterBooks
  <2> QED BY <2>1, <2>2
<1>4. CASE RowExpires
  <2>1. tool = "tokens" /\ bnow >= row.w + BudgetWindow /\ row' = NoRow /\ meter' = meter
    BY <1>4 DEF RowExpires
  <2> QED BY <1>0, <1>2, <2>1 DEF MeterBooks
<1>5. CASE ResetBudget
  <2>1. meter' = [start |-> NoTime, served |-> 0] /\ row' = NoRow
    BY <1>5 DEF ResetBudget
  <2> QED BY <1>0, <2>1 DEF MeterBooks
<1>6. CASE Remaining
  <2>1. tool = "tokens" /\ meter' = m /\ row' = row
    BY <1>6 DEF Remaining, m
  <2>2. bnow < row.w + BudgetWindow => row.w = m.start /\ row.s = m.served
    <3>1. ASSUME bnow < row.w + BudgetWindow PROVE m = meter
      BY <1>0, <1>2, <3>1 DEF RolledMeter, m
    <3> QED BY <1>2, <3>1
  <2>3. bnow >= row.w + BudgetWindow => m.served = 0
    BY <1>1, <1>2 DEF RolledRow, r
  <2> QED BY <1>0, <1>1, <2>1, <2>2, <2>3 DEF MeterBooks
<1>7. CASE UNCHANGED <<meter, row>>
  BY <1>0, <1>2, <1>7 DEF MeterBooks
<1> QED BY <1>3, <1>4, <1>5, <1>6, <1>7

\* The present rolls the counts of a throttle on.
LEMMA ThrottleRolls ==
    ASSUME bnow \in Nat, ThrottleInv
    PROVE  LET g == Rolled(gauge)
           IN  /\ g \in [start : Int, requests : Nat, accepts : Nat, prevRequests : Nat, prevAccepts : Nat]
               /\ g.start = StartOf(bnow)
               /\ g.requests <= trips.sent /\ g.accepts + trips.open <= trips.sent
               /\ ~trips.spurned => /\ g.requests <= g.accepts + trips.open
                                    /\ g.requests + g.prevRequests <= g.accepts + g.prevAccepts + trips.open
<1> DEFINE start == StartOf(bnow)
           pr == IF start = gauge.start + BudgetWindow THEN gauge.requests ELSE 0
           pa == IF start = gauge.start + BudgetWindow THEN gauge.accepts ELSE 0
           g == Rolled(gauge)
<1>0. start \in Int /\ MaxSent \in Nat
  BY WindowStarts, BudgetAssumption
<1>1. /\ gauge \in [start : Int, requests : Nat, accepts : Nat, prevRequests : Nat, prevAccepts : Nat]
      /\ trips \in [open : Nat, spurned : BOOLEAN, sent : 0..MaxSent]
      /\ gauge.requests <= trips.sent /\ gauge.accepts + trips.open <= trips.sent
      /\ ~trips.spurned => /\ gauge.requests <= gauge.accepts + trips.open
                           /\ gauge.requests + gauge.prevRequests <= gauge.accepts + gauge.prevAccepts + trips.open
  BY DEF ThrottleInv
<1> HIDE DEF start
<1>2. g = IF start = gauge.start THEN gauge
          ELSE [start |-> start, requests |-> 0, accepts |-> 0, prevRequests |-> pr, prevAccepts |-> pa]
  BY DEF Rolled, start
<1> HIDE DEF g
<1>3. CASE start = gauge.start
  BY <1>0, <1>1, <1>2, <1>3 DEF g, start
<1>4. CASE start # gauge.start
  <2>1. pr \in Nat /\ pa \in Nat /\ (~trips.spurned => pr <= pa + trips.open)
        /\ trips.open \in Nat /\ trips.sent \in Nat /\ trips.open <= trips.sent
    BY <1>0, <1>1
  <2> HIDE DEF pr, pa
  <2>2. g = [start |-> start, requests |-> 0, accepts |-> 0, prevRequests |-> pr, prevAccepts |-> pa]
    BY <1>2, <1>4
  <2>3. /\ g \in [start : Int, requests : Nat, accepts : Nat, prevRequests : Nat, prevAccepts : Nat]
        /\ g.start = start
        /\ g.requests <= trips.sent /\ g.accepts + trips.open <= trips.sent
        /\ ~trips.spurned => /\ g.requests <= g.accepts + trips.open
                             /\ g.requests + g.prevRequests <= g.accepts + g.prevAccepts + trips.open
    BY <1>0, <2>1, <2>2
  <2> QED BY <2>3 DEF g, start
<1> QED BY <1>3, <1>4

LEMMA ThrottleKeeps ==
    ASSUME bnow \in Nat, ThrottleInv,
           \/ \E sent \in BOOLEAN : Request(sent)
           \/ \E accepted \in BOOLEAN : Record(accepted)
           \/ Stats
           \/ UNCHANGED <<gauge, trips>>
    PROVE  ThrottleInv'
<1> DEFINE g == Rolled(gauge)
           GaugeType == [start : Int, requests : Nat, accepts : Nat, prevRequests : Nat, prevAccepts : Nat]
<1>1. /\ g \in GaugeType
      /\ g.requests <= trips.sent /\ g.accepts + trips.open <= trips.sent
      /\ ~trips.spurned => /\ g.requests <= g.accepts + trips.open
                           /\ g.requests + g.prevRequests <= g.accepts + g.prevAccepts + trips.open
  BY ThrottleRolls
<1>2. trips \in [open : Nat, spurned : BOOLEAN, sent : 0..MaxSent] /\ MaxSent \in Nat
  BY BudgetAssumption DEF ThrottleInv
<1> HIDE DEF g
<1>3. ASSUME NEW sent \in BOOLEAN, Request(sent) PROVE ThrottleInv'
  <2>1. /\ trips.sent < MaxSent
        /\ gauge' = [g EXCEPT !.requests = @ + 1]
        /\ trips' = [trips EXCEPT !.sent = @ + 1, !.open = IF sent THEN @ + 1 ELSE @, !.spurned = @ \/ ~sent]
    BY <1>3 DEF Request, g
  <2>2. /\ gauge' \in GaugeType /\ gauge'.requests = g.requests + 1 /\ gauge'.accepts = g.accepts
        /\ gauge'.prevRequests = g.prevRequests /\ gauge'.prevAccepts = g.prevAccepts
    BY <1>1, <2>1
  <2>3. /\ trips' \in [open : Nat, spurned : BOOLEAN, sent : 0..MaxSent]
        /\ trips'.sent = trips.sent + 1 /\ trips'.open = IF sent THEN trips.open + 1 ELSE trips.open
        /\ ~trips'.spurned => ~trips.spurned /\ sent
    <3> DEFINE b == trips.spurned \/ ~sent
    <3>1. b \in BOOLEAN /\ (~b => ~trips.spurned /\ sent)
      <4>1. b \in BOOLEAN
        <5>1. trips.spurned \in BOOLEAN
          BY <1>2
        <5> QED BY <5>1, Zenon
      <4> QED BY <4>1, Zenon
    <3> HIDE DEF b
    <3> DEFINE n == IF sent THEN trips.open + 1 ELSE trips.open
               k == trips.sent + 1
    <3>2. trips' = [trips EXCEPT !.sent = k, !.open = n, !.spurned = b]
      BY <1>2, <2>1 DEF b
    <3>3. n \in Nat /\ k \in 0..MaxSent
      BY <1>2, <2>1
    <3> HIDE DEF n, k
    <3>4. trips' \in [open : Nat, spurned : BOOLEAN, sent : 0..MaxSent] /\ trips'.sent = k /\ trips'.open = n
      BY <1>2, <3>1, <3>2, <3>3
    <3>5. trips'.spurned = b
      BY <1>2, <3>2, Zenon
    <3> QED BY <3>1, <3>4, <3>5 DEF n, k
  <2> QED BY <1>1, <1>2, <2>2, <2>3 DEF ThrottleInv
<1>4. ASSUME NEW accepted \in BOOLEAN, Record(accepted) PROVE ThrottleInv'
  <2>1. /\ trips.open > 0
        /\ gauge' = IF accepted THEN [g EXCEPT !.accepts = @ + 1] ELSE g
        /\ trips' = [trips EXCEPT !.open = @ - 1, !.spurned = @ \/ ~accepted]
    BY <1>4 DEF Record, g
  <2>2. /\ gauge' \in GaugeType /\ gauge'.requests = g.requests
        /\ gauge'.accepts = IF accepted THEN g.accepts + 1 ELSE g.accepts
        /\ gauge'.prevRequests = g.prevRequests /\ gauge'.prevAccepts = g.prevAccepts
    BY <1>1, <2>1
  <2>3. /\ trips' \in [open : Nat, spurned : BOOLEAN, sent : 0..MaxSent]
        /\ trips'.sent = trips.sent /\ trips'.open = trips.open - 1
        /\ ~trips'.spurned => ~trips.spurned /\ accepted
    <3> DEFINE b == trips.spurned \/ ~accepted
    <3>1. b \in BOOLEAN /\ (~b => ~trips.spurned /\ accepted)
      <4>1. b \in BOOLEAN
        <5>1. trips.spurned \in BOOLEAN
          BY <1>2
        <5> QED BY <5>1, Zenon
      <4> QED BY <4>1, Zenon
    <3> HIDE DEF b
    <3> DEFINE n == trips.open - 1
    <3>2. trips' = [trips EXCEPT !.open = n, !.spurned = b]
      BY <1>2, <2>1 DEF b
    <3>3. n \in Nat
      BY <1>2, <2>1
    <3> HIDE DEF n
    <3>4. trips' \in [open : Nat, spurned : BOOLEAN, sent : 0..MaxSent] /\ trips'.sent = trips.sent /\ trips'.open = n
      BY <1>2, <3>1, <3>2, <3>3
    <3>5. trips'.spurned = b
      BY <1>2, <3>2, Zenon
    <3> QED BY <3>1, <3>4, <3>5 DEF n
  <2> QED BY <1>1, <1>2, <2>2, <2>3 DEF ThrottleInv
<1>5. CASE Stats
  <2>1. gauge' = g /\ trips' = trips
    BY <1>5 DEF Stats, g
  <2> QED BY <1>1, <1>2, <2>1 DEF ThrottleInv
<1>6. CASE UNCHANGED <<gauge, trips>>
  BY <1>6 DEF ThrottleInv
<1> QED BY <1>3, <1>4, <1>5, <1>6
\* What the previous window adds weighs no more than what the current one does.
LEMMA FadingCounts ==
    ASSUME NEW w \in Nat, NEW e \in 0..w, NEW k \in Nat \ {0},
           NEW r \in Nat, NEW a \in Nat, NEW pr \in Nat, NEW pa \in Nat, r <= a, r + pr <= a + pa
    PROVE  /\ r * w + pr * e \in Nat /\ k * (a * w + pa * e) \in Nat
           /\ r * w + pr * e <= k * (a * w + pa * e)
<1>1. \A x \in Nat, y \in Nat : x * y \in Nat
  OBVIOUS
<1>2. e \in Nat /\ r * w \in Nat /\ a * w \in Nat /\ pr * e \in Nat /\ pa * e \in Nat
  BY <1>1
<1>3. r * w + pr * e <= a * w + pa * e
  <2>1. CASE pr <= pa
    <3>1. r * w <= a * w
      BY <1>2
    <3>2. pr * e <= pa * e
      BY <1>2, <2>1
    <3> QED BY <1>2, <3>1, <3>2
  <2>2. CASE pr > pa
    <3> DEFINE x == pr - pa
               y == a - r
    <3>1. x \in Nat /\ y \in Nat /\ x <= y /\ pr = pa + x /\ a = r + y
      BY <2>2
    <3> HIDE DEF x, y
    <3>2. x * e <= y * e
      BY <1>2, <3>1
    <3>3. y * e <= y * w
      BY <1>2, <3>1
    <3>4. pr * e = pa * e + x * e /\ a * w = r * w + y * w
      BY <1>2, <3>1
    <3>5. x * e \in Nat /\ y * e \in Nat /\ y * w \in Nat
      BY <1>1, <1>2, <3>1
    <3> QED BY <1>2, <3>2, <3>3, <3>4, <3>5
  <2> QED BY <2>1, <2>2
<1> DEFINE u == a * w + pa * e
<1>4. u \in Nat
  BY <1>2
<1> HIDE DEF u
<1>5. k * u \in Nat /\ u <= k * u
  <2> DEFINE j == k - 1
  <2>1. j \in Nat /\ k = j + 1
    OBVIOUS
  <2> HIDE DEF j
  <2>2. k * u = j * u + u /\ j * u \in Nat
    BY <1>1, <1>4, <2>1
  <2> QED BY <1>4, <2>2
<1>6. r * w + pr * e <= u
  BY <1>3 DEF u
<1>7. r * w + pr * e <= k * u
  BY <1>2, <1>4, <1>5, <1>6
<1> QED BY <1>2, <1>5, <1>7 DEF u

LEMMA BudgetInitial == BudgetInit => BudgetInv
<1> SUFFICES ASSUME BudgetInit PROVE BudgetInv
  OBVIOUS
<1>0. /\ BudgetSpan \in Nat /\ ShareLimit \in Nat /\ MaxSent \in Nat /\ BudgetWindow \in Nat \ {0} /\ Most \in Nat
      /\ NoTime \in Int /\ ~(0 < NoTime + BudgetWindow)
  BY BudgetAssumption, MostTokens DEF NoTime
<1>1. ShareOK(share)
  <2>1. DOMAIN NoUse = {} /\ NoUse \in [{} -> Nat]
    BY DEF NoUse
  <2>2. NoUse \in UseType /\ SumOf(NoUse) = 0
    BY <2>1, SetSumEmpty DEF UseType, SumOf
  <2>3. share = [start |-> NoTime, total |-> 0, used |-> NoUse] /\ 0 \in 0..ShareLimit
    BY <1>0 DEF BudgetInit
  <2> QED BY <1>0, <2>2, <2>3 DEF ShareOK
<1>2. DOMAIN weight = {}
  BY DEF BudgetInit, NoUse
<1>3. MeterBooks
  BY <1>0 DEF BudgetInit, MeterBooks, NoRow
<1>4. ThrottleInv
  BY <1>0 DEF BudgetInit, ThrottleInv
<1> QED BY <1>0, <1>1, <1>2, <1>3, <1>4 DEF BudgetInit, BudgetInv

LEMMA SharesKeep ==
    ASSUME BudgetInv,
           \/ \E t \in Tenants, cost \in ShareCosts : FairCheck(t, cost)
           \/ \E t \in Tenants, cost \in ShareCosts, w \in TenantWeights : WeightedCheck(t, cost, w)
           \/ \E t \in Tenants : ResetTenant(t)
           \/ ResetShares
    PROVE  ShareOK(share') /\ DOMAIN weight' \subseteq Tenants
<1>0. bnow \in Int /\ ShareOK(share) /\ DOMAIN weight \subseteq Tenants /\ ShareCosts \subseteq Nat
  BY BudgetAssumption DEF BudgetInv
<1>1. ShareOK(Fresh(share))
  BY <1>0, ShareOps
<1>2. ASSUME NEW t \in Tenants, NEW cost \in ShareCosts, FairCheck(t, cost)
      PROVE  ShareOK(share') /\ DOMAIN weight' \subseteq Tenants
  <2>1. PICK cap : share' = Debited(Fresh(share), t, cost, cap)
    BY <1>2 DEF FairCheck
  <2>2. cost \in Nat /\ weight' = weight
    BY <1>0, <1>2 DEF FairCheck
  <2>3. \A u \in Tenants, c \in Nat : \A l : ShareOK(Debited(Fresh(share), u, c, l))
    BY <1>0, <1>1, ShareOps
  <2> QED BY <1>0, <2>1, <2>2, <2>3
<1>3. ASSUME NEW t \in Tenants, NEW cost \in ShareCosts, NEW w \in TenantWeights, WeightedCheck(t, cost, w)
      PROVE  ShareOK(share') /\ DOMAIN weight' \subseteq Tenants
  <2>1. PICK cap : share' = Debited(Fresh(share), t, cost, cap)
    BY <1>3 DEF WeightedCheck
  <2>2. cost \in Nat /\ weight' = With(Kept(share, weight), t, w)
    BY <1>0, <1>3 DEF WeightedCheck
  <2>3. \A u \in Tenants, c \in Nat : \A l : ShareOK(Debited(Fresh(share), u, c, l))
    BY <1>0, <1>1, ShareOps
  <2>4. DOMAIN Kept(share, weight) \subseteq Tenants
    BY <1>0 DEF Kept, NoUse
  <2>5. DOMAIN weight' = DOMAIN Kept(share, weight) \cup {t}
    BY <2>2 DEF With
  <2> QED BY <2>1, <2>2, <2>3, <2>4, <2>5
<1>4. ASSUME NEW t \in Tenants, ResetTenant(t)
      PROVE  ShareOK(share') /\ DOMAIN weight' \subseteq Tenants
  <2>1. share' = Refunded(share, t) /\ weight' = IF t \in DOMAIN share.used THEN Without(weight, t) ELSE weight
    BY <1>4 DEF ResetTenant
  <2>2. DOMAIN Without(weight, t) \subseteq DOMAIN weight
    BY DEF Without
  <2>3. \A u \in Tenants : ShareOK(Refunded(share, u))
    BY <1>0, ShareOps
  <2> QED BY <1>0, <2>1, <2>2, <2>3
<1>5. CASE ResetShares
  <2>1. share' = [start |-> NoTime, total |-> 0, used |-> NoUse] /\ weight' = NoUse
    BY <1>5 DEF ResetShares
  <2>2. ShareOK([start |-> NoTime, total |-> 0, used |-> NoUse])
    BY <1>0, ShareOps
  <2> QED BY <2>1, <2>2 DEF NoUse
<1> QED BY <1>2, <1>3, <1>4, <1>5

\* Time moves on, or back where everything is in memory.
LEMMA BudgetTickKeeps == ASSUME BudgetInv, BudgetTick PROVE BudgetInv'
<1>1. PICK t \in 0..BudgetSpan : bnow' = t /\ (tool = "tokens" => t > bnow)
  BY DEF BudgetTick
<1>2. UNCHANGED <<tool, share, weight, meter, row, gauge, trips>>
  BY DEF BudgetTick
<1>3. bnow \in Nat /\ t \in Nat /\ BudgetWindow \in Nat \ {0} /\ NoTime \in Int /\ ~(t < NoTime + BudgetWindow)
      /\ NoRow = [w |-> NoTime, s |-> 0]
  BY <1>1, BudgetAssumption DEF BudgetInv, NoTime, NoRow
<1>4. MeterBooks
  BY DEF BudgetInv
<1>5. MeterBooks'
  <2>1. CASE tool # "tokens"
    BY <1>1, <1>2, <1>3, <1>4, <2>1 DEF MeterBooks
  <2>2. CASE tool = "tokens"
    <3>0. t > bnow /\ meter.start \in Int /\ row.w \in Int
      BY <1>1, <1>4, <2>2 DEF MeterBooks
    <3>1. ASSUME t < meter.start + BudgetWindow PROVE meter.start = StartOf(t)
      <4>1. meter.start = StartOf(bnow)
        BY <1>3, <1>4, <3>0, <3>1 DEF MeterBooks
      <4>2. StartOf(bnow) \in Nat /\ StartOf(bnow) <= t
        BY <1>3, <3>0, WindowStarts
      <4> QED BY <1>3, <3>1, <4>1, <4>2, WindowStarts
    <3>2. t < row.w + BudgetWindow => row.w = meter.start /\ row.s = meter.served
      BY <1>3, <1>4, <3>0 DEF MeterBooks
    <3>3. t < meter.start + BudgetWindow /\ t >= row.w + BudgetWindow => meter.served = 0
      BY <1>3, <1>4, <3>0 DEF MeterBooks
    <3>4. StartOf(bnow)' = StartOf(t)
      BY <1>1 DEF StartOf
    <3> QED BY <1>1, <1>2, <1>4, <2>2, <3>1, <3>2, <3>3, <3>4 DEF MeterBooks
  <2> QED BY <2>1, <2>2
<1>6. ThrottleInv'
  BY <1>2 DEF BudgetInv, ThrottleInv
<1>7. ShareOK(share)' /\ DOMAIN weight' \subseteq Tenants
  BY <1>2 DEF BudgetInv
<1> QED BY <1>1, <1>2, <1>5, <1>6, <1>7 DEF BudgetInv

LEMMA BudgetKeeps == BudgetInv /\ [BudgetNext]_budgetVars => BudgetInv'
<1> SUFFICES ASSUME BudgetInv, [BudgetNext]_budgetVars PROVE BudgetInv'
  OBVIOUS
<1> DEFINE Sharing == \/ \E t \in Tenants, cost \in ShareCosts : FairCheck(t, cost)
                      \/ \E t \in Tenants, cost \in ShareCosts, w \in TenantWeights : WeightedCheck(t, cost, w)
                      \/ \E t \in Tenants : ResetTenant(t)
                      \/ ResetShares
           Metering == (\E n \in TokenSizes : Debit(n)) \/ RowExpires \/ ResetBudget \/ Remaining
           Throttling == (\E sent \in BOOLEAN : Request(sent)) \/ (\E accepted \in BOOLEAN : Record(accepted)) \/ Stats
<1>0. bnow \in Nat /\ BudgetSpan \in Nat
  BY BudgetAssumption DEF BudgetInv
<1>1. /\ Sharing => UNCHANGED <<bnow, tool, meter, row, gauge, trips>>
      /\ Metering => UNCHANGED <<bnow, tool, share, weight, gauge, trips>>
      /\ Throttling => UNCHANGED <<bnow, tool, share, weight, meter, row>>
  <2>1. Sharing => UNCHANGED <<bnow, tool, meter, row, gauge, trips>>
    BY DEF FairCheck, WeightedCheck, ResetTenant, ResetShares
  <2>2. Metering => UNCHANGED <<bnow, tool, share, weight, gauge, trips>>
    BY DEF Debit, RowExpires, ResetBudget, Remaining
  <2>3. Throttling => UNCHANGED <<bnow, tool, share, weight, meter, row>>
    BY DEF Request, Record, Stats
  <2> QED BY <2>1, <2>2, <2>3
<1>2. CASE BudgetTick
  BY <1>2, BudgetTickKeeps
<1>3. CASE Sharing \/ Metering \/ Throttling \/ UNCHANGED budgetVars
  <2>1. bnow' = bnow /\ tool' = tool
    BY <1>1, <1>3 DEF budgetVars
  <2>2. ShareOK(share') /\ DOMAIN weight' \subseteq Tenants
    <3>1. CASE Sharing
      BY <3>1, SharesKeep
    <3>2. CASE ~Sharing
      BY <1>1, <1>3, <3>2 DEF BudgetInv, budgetVars
    <3> QED BY <3>1, <3>2
  <2>3. MeterBooks'
    <3>1. Metering \/ UNCHANGED <<meter, row>>
      BY <1>1, <1>3 DEF budgetVars
    <3>2. MeterBooks
      BY DEF BudgetInv
    <3> QED BY <1>0, <2>1, <3>1, <3>2, MetersKeep
  <2>4. ThrottleInv'
    <3>1. Throttling \/ UNCHANGED <<gauge, trips>>
      BY <1>1, <1>3 DEF budgetVars
    <3>2. ThrottleInv
      BY DEF BudgetInv
    <3> QED BY <1>0, <3>1, <3>2, ThrottleKeeps
  <2>5. ShareOK(share)'
    BY <2>2 DEF ShareOK
  <2> QED BY <2>1, <2>2, <2>3, <2>4, <2>5 DEF BudgetInv
<1> QED BY <1>2, <1>3 DEF BudgetNext

LEMMA BudgetSound == BudgetInv => SharesAddUp /\ MetersAgree /\ HealthyNeverShed /\ BudgetTypeOK
<1> SUFFICES ASSUME BudgetInv PROVE SharesAddUp /\ MetersAgree /\ HealthyNeverShed /\ BudgetTypeOK
  OBVIOUS
<1>0. /\ bnow \in Nat /\ BudgetWindow \in Nat \ {0} /\ Most \in Nat /\ TokenBudget \in Nat \ {0}
      /\ Largest(TokenSizes) \in Nat /\ MaxSent \in Nat /\ ShareLimit \in Nat /\ Kay \in Nat \ {0}
  BY BudgetAssumption, MostTokens DEF BudgetInv
<1>1. /\ share \in [start : Int, total : 0..ShareLimit, used : UseType] /\ share.total = SumOf(share.used)
  BY DEF BudgetInv, ShareOK
<1>2. SharesAddUp
  <2>1. FoldFunction(+, 0, share.used) = SumOf(share.used)
    BY FoldIsSum DEF SumOf
  <2>2. share.total <= ShareLimit
    BY <1>0, <1>1
  <2>3. share.total = FoldFunction(+, 0, share.used)
    BY <1>1, <2>1, Zenon
  <2> QED BY <2>2, <2>3, Zenon DEF SharesAddUp
<1>3. MetersAgree
  <2>1. RolledRow(row) = [w |-> StartOf(bnow), s |-> RolledMeter(meter).served]
    BY <1>0, MetersRoll DEF BudgetInv
  <2>2. RemainingHere = RemainingInFleet
    BY <2>1 DEF RemainingHere, RemainingInFleet
  <2>3. meter.served <= Most /\ row.s <= Most
    BY <1>0 DEF BudgetInv, MeterBooks
  <2> QED BY <2>2, <2>3 DEF MetersAgree, Most
<1>4. HealthyNeverShed
  <2> SUFFICES ASSUME ~trips.spurned, trips.open = 0 PROVE RejectProbability(Rolled(gauge)) = Whole(0)
    BY DEF HealthyNeverShed
  <2> DEFINE g == Rolled(gauge)
             e == BudgetWindow - (bnow - g.start)
             n == g.requests * BudgetWindow + g.prevRequests * e
             m == Kay * (g.accepts * BudgetWindow + g.prevAccepts * e)
  <2>1. /\ g.requests \in Nat /\ g.accepts \in Nat /\ g.prevRequests \in Nat /\ g.prevAccepts \in Nat
        /\ g.start = StartOf(bnow) /\ g.requests <= g.accepts
        /\ g.requests + g.prevRequests <= g.accepts + g.prevAccepts
    <3>1. /\ g \in [start : Int, requests : Nat, accepts : Nat, prevRequests : Nat, prevAccepts : Nat]
          /\ g.start = StartOf(bnow)
          /\ g.requests <= g.accepts + trips.open
          /\ g.requests + g.prevRequests <= g.accepts + g.prevAccepts + trips.open
      BY <1>0, ThrottleRolls DEF BudgetInv
    <3> HIDE DEF g
    <3> QED BY <3>1
  <2> HIDE DEF g
  <2>2. e \in 0..BudgetWindow
    <3>1. StartOf(bnow) \in Nat /\ StartOf(bnow) <= bnow /\ bnow < StartOf(bnow) + BudgetWindow
      BY <1>0, WindowStarts
    <3> QED BY <1>0, <2>1, <3>1
  <2>3. RollingRequests(g) = n /\ Kay * RollingAccepts(g) = m
    BY DEF RollingRequests, RollingAccepts
  <2> HIDE DEF e
  <2>4. n \in Nat /\ m \in Nat /\ n <= m
    BY <1>0, <2>1, <2>2, FadingCounts
  <2> HIDE DEF n, m
  <2>5. n - m \in Int /\ n - m <= 0 /\ n + BudgetWindow \in Nat \ {0}
    BY <1>0, <2>4
  <2>6. RejectProbability(g) = QMax(Whole(0), Ratio(n - m, n + BudgetWindow))
    BY <2>3 DEF RejectProbability
  <2>7. QMax(Whole(0), Ratio(n - m, n + BudgetWindow)) = Whole(0)
    BY <2>5, NotAboveZero
  <2> QED BY <2>6, <2>7 DEF g
<1>5. BudgetTypeOK
  <2>1. bnow \in 0..BudgetSpan /\ tool \in Tools /\ DOMAIN weight \subseteq Tenants /\ share.total \in 0..ShareLimit
    BY <1>1 DEF BudgetInv
  <2>2. DOMAIN share.used \subseteq Tenants
    BY <1>1, UsesAre
  <2>3. meter.served \in 0..(TokenBudget + Largest(TokenSizes))
    <3>1. meter.served \in 0..Most
      BY DEF BudgetInv, MeterBooks
    <3> QED BY <1>0, <3>1 DEF Most
  <2>4. gauge.requests \in 0..MaxSent /\ gauge.accepts \in 0..MaxSent /\ trips.open \in 0..MaxSent
    BY <1>0 DEF BudgetInv, ThrottleInv
  <2> QED BY <2>1, <2>2, <2>3, <2>4 DEF BudgetTypeOK
<1> QED BY <1>2, <1>3, <1>4, <1>5

\* The shared budgets, whatever checks, debits, resets, answers and clock steps come.
BudgetSpec == BudgetInit /\ [][BudgetNext]_budgetVars
LEMMA BudgetsSound == BudgetSpec => [](SharesAddUp /\ MetersAgree /\ HealthyNeverShed /\ BudgetTypeOK)
BY BudgetInitial, BudgetKeeps, BudgetSound, PTL DEF BudgetSpec

----------------------------------------------------------------------------
(* The capture: what segments weigh *)

\* A segment as the rings make it.
Segment == [at : Int, n : Nat, dropped : Nat]

\* What the flushes under way carry together.
Carried(fl) == SumFunctionOnSet([f \in Flushes |-> WeightOf(fl[f].batch)], Flushes)

\* A flush at rest is the same whatever it did last; another has a purpose and something to write.
FlushType == [st : {"idle", "sweeping", "writing"}, by : {"none", "timer", "caller"}, batch : Seq(Segment)]
Purposeful(a) ==
    /\ a.st = "idle" => a = Resting
    /\ a.st # "idle" => a.by # "none" /\ a.batch # <<>>

RingsTyped ==
    /\ scopes \in Seq(Scopes) /\ Len(scopes) <= MaxScopes /\ IsInjective(scopes)
    /\ IsFiniteSet(DOMAIN rings) /\ DOMAIN rings \subseteq Range(scopes) \X Traced
    /\ rings = [r \in DOMAIN rings |-> rings[r]]
    /\ \A r \in DOMAIN rings : rings[r] \in Segment /\ rings[r].n \in 1..RingSize
FlushesTyped == flush \in [Flushes -> FlushType] /\ \A f \in Flushes : Purposeful(flush[f])
FilesTyped ==
    /\ IsFiniteSet(files) /\ named \in Int
    /\ \A x \in files : x.seg \in Segment /\ x.name \in Int /\ x.name < named
GoneTyped == gone \in [excluded : Nat, evicted : Nat, failed : Nat, purged : Nat]

\* The timer's flush is one, and the flag stands for it.
TimerAlone ==
    /\ \A f, g \in Flushes : flush[f].by = "timer" /\ flush[g].by = "timer" => f = g
    /\ inFlight <=> \E f \in Flushes : flush[f].by = "timer"

Balanced ==
    tallied = WeightOf(rings) + Carried(flush) + WeightOf(Contents(files))
              + gone.excluded + gone.evicted + gone.failed + gone.purged

CaptureInv ==
    /\ lnow \in Int /\ tallied \in 0..MaxEvents
    /\ RingsTyped /\ FlushesTyped /\ FilesTyped /\ GoneTyped
    /\ TimerAlone /\ Balanced

LEMMA WeightNat == ASSUME NEW seg \in Segment PROVE Weight(seg) \in Nat
BY DEF Segment, Weight

LEMMA Accounted == EventsAccounted <=> Balanced
<1> DEFINE w == [f \in Flushes |-> WeightOf(flush[f].batch)]
<1>1. DOMAIN w = Flushes
  OBVIOUS
<1> HIDE DEF w
<1>2. FoldFunction(+, 0, w) = SumFunctionOnSet(w, Flushes)
  BY <1>1, FoldIsSum
<1> QED BY <1>2 DEF EventsAccounted, Balanced, Carried, w

\* WeightOf is the sum of the weights.
LEMMA WeightIsSum == \A t : WeightOf(t) = SumFunctionOnSet([x \in DOMAIN t |-> Weight(t[x])], DOMAIN t)
<1> TAKE t
<1> DEFINE w == [x \in DOMAIN t |-> Weight(t[x])]
<1>1. DOMAIN w = DOMAIN t
  OBVIOUS
<1> HIDE DEF w
<1>2. FoldFunction(+, 0, w) = SumFunctionOnSet(w, DOMAIN t)
  BY <1>1, FoldIsSum
<1> QED BY <1>2 DEF WeightOf, w

\* A table of segments weighs what a part of it and the rest weigh.
Filed(t) == IsFiniteSet(DOMAIN t) /\ \A x \in DOMAIN t : t[x] \in Segment

LEMMA WeightOfNat == ASSUME NEW t, Filed(t) PROVE WeightOf(t) \in Nat
<1> DEFINE w == [x \in DOMAIN t |-> Weight(t[x])]
<1>1. \A x \in DOMAIN t : w[x] \in Nat
  BY WeightNat DEF Filed
<1> HIDE DEF w
<1>2. SumFunctionOnSet(w, DOMAIN t) \in Nat
  BY <1>1, SetSumNat DEF Filed
<1> QED BY <1>2, WeightIsSum DEF w

LEMMA WeightOfEmpty == ASSUME NEW t, DOMAIN t = {} PROVE WeightOf(t) = 0
BY WeightIsSum, SetSumEmpty

\* A segment weighs the same wherever it is filed: the table u holds in h[x] what t holds in x.
LEMMA WeightMoved ==
  ASSUME NEW t, NEW u, Filed(t), Filed(u), NEW h \in [DOMAIN t -> DOMAIN u],
         \A x \in DOMAIN t, y \in DOMAIN t : h[x] = h[y] => x = y,
         \A x \in DOMAIN t : t[x] = u[h[x]]
  PROVE  WeightOf(t) = WeightOf(Restrict(u, {h[x] : x \in DOMAIN t}))
<1> DEFINE wt == [x \in DOMAIN t |-> Weight(t[x])]
           wu == [x \in DOMAIN u |-> Weight(u[x])]
           image == {h[x] : x \in DOMAIN t}
           v == Restrict(u, image)
           wv == [x \in DOMAIN v |-> Weight(v[x])]
<1>1. /\ IsFiniteSet(DOMAIN t) /\ IsFiniteSet(DOMAIN u)
      /\ \A y \in DOMAIN u : wu[y] \in Int
      /\ \A x \in DOMAIN t : wt[x] = wu[h[x]]
  <2>1. IsFiniteSet(DOMAIN t) /\ IsFiniteSet(DOMAIN u) /\ \A y \in DOMAIN u : u[y] \in Segment
    BY DEF Filed
  <2>2. \A y \in DOMAIN u : wu[y] \in Int
    BY <2>1, WeightNat
  <2>3. ASSUME NEW x \in DOMAIN t PROVE wt[x] = wu[h[x]]
    <3>1. h[x] \in DOMAIN u /\ t[x] = u[h[x]]
      OBVIOUS
    <3>2. wt[x] = Weight(t[x]) /\ wu[h[x]] = Weight(u[h[x]])
      BY <3>1
    <3> QED BY <3>1, <3>2
  <2> HIDE DEF wt, wu
  <2> QED BY <2>1, <2>2, <2>3
<1>2. /\ image \subseteq DOMAIN u /\ IsFiniteSet(image) /\ DOMAIN v = image
      /\ \A x \in image : wu[x] \in Int /\ wu[x] = wv[x]
  <2>1. image \subseteq DOMAIN u /\ DOMAIN v = image /\ \A x \in image : v[x] = u[x]
    BY DEF Restrict
  <2>2. IsFiniteSet(image)
    BY <1>1, <2>1, FS_Subset
  <2> HIDE DEF image, v
  <2> QED BY <1>1, <2>1, <2>2
<1> HIDE DEF wt, wu
<1>3. SumFunctionOnSet(wt, DOMAIN t) = SumFunctionOnSet(wu, image)
  BY <1>1, SetSumReindex
<1> HIDE DEF wv, image
<1>4. SumFunctionOnSet(wu, image) = SumFunctionOnSet(wv, image)
  BY <1>2, SetSumEqual
<1>5. WeightOf(t) = SumFunctionOnSet(wt, DOMAIN t)
  BY WeightIsSum DEF wt
<1> HIDE DEF v
<1>6. WeightOf(v) = SumFunctionOnSet(wv, DOMAIN v)
  BY WeightIsSum DEF wv
<1>7. WeightOf(t) = WeightOf(v)
  BY <1>2, <1>3, <1>4, <1>5, <1>6
<1> QED BY <1>7 DEF v, image

LEMMA WeightOfParts ==
  ASSUME NEW t, Filed(t), NEW part \in SUBSET DOMAIN t
  PROVE  /\ WeightOf(t) = WeightOf(Restrict(t, part)) + WeightOf(Restrict(t, DOMAIN t \ part))
         /\ Filed(Restrict(t, part)) /\ Filed(Restrict(t, DOMAIN t \ part))
<1> DEFINE w == [x \in DOMAIN t |-> Weight(t[x])]
<1>1. IsFiniteSet(DOMAIN t) /\ \A x \in DOMAIN t : w[x] \in Int
  BY WeightNat DEF Filed
<1>2. ASSUME NEW s \in SUBSET DOMAIN t
      PROVE WeightOf(Restrict(t, s)) = SumFunctionOnSet(w, s) /\ Filed(Restrict(t, s))
  <2> DEFINE v == [x \in s |-> Weight(t[x])]
  <2>1. DOMAIN Restrict(t, s) = s /\ \A x \in s : Restrict(t, s)[x] = t[x]
    BY DEF Restrict
  <2>2. IsFiniteSet(s)
    BY <1>1, FS_Subset
  <2>3. \A x \in s : w[x] \in Int /\ w[x] = v[x]
    BY <1>1
  <2>4. v = [x \in DOMAIN Restrict(t, s) |-> Weight(Restrict(t, s)[x])]
    BY <2>1
  <2> HIDE DEF v, w
  <2>5. SumFunctionOnSet(w, s) = SumFunctionOnSet(v, s)
    BY <2>2, <2>3, SetSumEqual
  <2>6. WeightOf(Restrict(t, s)) = SumFunctionOnSet(v, s)
    BY <2>1, <2>4, WeightIsSum
  <2> QED BY <2>1, <2>2, <2>5, <2>6 DEF Filed
<1> HIDE DEF w
<1>3. SumFunctionOnSet(w, DOMAIN t) = SumFunctionOnSet(w, part) + SumFunctionOnSet(w, DOMAIN t \ part)
  BY <1>1, SetSumParts
<1>4. WeightOf(t) = SumFunctionOnSet(w, DOMAIN t)
  BY WeightIsSum DEF w
<1> QED BY <1>2, <1>3, <1>4

\* ... and of one entry alone, the weight of its segment.
LEMMA WeightOfOne ==
  ASSUME NEW t, NEW k, DOMAIN t = {k}, t[k] \in Segment
  PROVE  WeightOf(t) = Weight(t[k])
<1> DEFINE w == [x \in DOMAIN t |-> Weight(t[x])]
<1>1. IsFiniteSet({k})
  BY FS_Singleton
<1>2. w[k] = Weight(t[k]) /\ Weight(t[k]) \in Nat
  BY WeightNat
<1>3. WeightOf(t) = SumFunctionOnSet(w, {k})
  BY WeightIsSum
<1> HIDE DEF w
<1>4. SumFunctionOnSet(w, {k}) = w[k] + SumFunctionOnSet(w, {k} \ {k})
  <2>1. \A x \in {k} : w[x] \in Int
    BY <1>2
  <2> QED BY <1>1, <2>1, SetSumSplit
<1>5. {k} \ {k} = {}
  OBVIOUS
<1>6. SumFunctionOnSet(w, {k} \ {k}) = 0
  BY <1>5, SetSumEmpty
<1> QED BY <1>2, <1>3, <1>4, <1>6

\* Taking the entry of k out of the table takes its segment's weight out of it.
LEMMA WeightWithout ==
  ASSUME NEW t, Filed(t), NEW k \in DOMAIN t
  PROVE  /\ WeightOf(t) = WeightOf(Restrict(t, DOMAIN t \ {k})) + Weight(t[k])
         /\ Filed(Restrict(t, DOMAIN t \ {k}))
<1> DEFINE one == Restrict(t, {k})
<1>1. DOMAIN one = {k} /\ one[k] = t[k] /\ t[k] \in Segment
  BY DEF Restrict, Filed
<1> HIDE DEF one
<1>2. WeightOf(one) = Weight(t[k])
  BY <1>1, WeightOfOne
<1>3. /\ WeightOf(t) = WeightOf(one) + WeightOf(Restrict(t, DOMAIN t \ {k}))
      /\ Filed(Restrict(t, DOMAIN t \ {k}))
  BY WeightOfParts DEF one
<1>4. WeightOf(Restrict(t, DOMAIN t \ {k})) \in Nat /\ Weight(t[k]) \in Nat
  BY <1>1, <1>3, WeightOfNat, WeightNat
<1> QED BY <1>2, <1>3, <1>4

\* drain(): the batch holds every ring once.
LEMMA DrainedWhole ==
  ASSUME Filed(rings)
  PROVE  /\ Segments \in Seq(Segment) /\ Filed(Segments) /\ WeightOf(Segments) = WeightOf(rings)
         /\ Segments = <<>> => DOMAIN rings = {}
<1> DEFINE D == DOMAIN rings
           N == Cardinality(D)
           q == SetToSeq(D)
<1>1. IsFiniteSet(D) /\ N \in Nat /\ ExistsBijection(1..N, D) /\ \A r \in D : rings[r] \in Segment
  <2>1. IsFiniteSet(D) /\ \A r \in D : rings[r] \in Segment
    BY DEF Filed
  <2> HIDE DEF D
  <2> QED BY <2>1, FS_CardinalityType
<1>2. IsFiniteSet(1..N) /\ Cardinality(1..N) = N
  BY <1>1, FS_Interval
<1>3. q \in [1..N -> D] /\ IsInjective(q)
  <2>1. \E f \in [1..N -> D] : IsInjective(f)
    BY <1>1 DEF ExistsBijection, Bijection, Injection
  <2> QED BY <2>1 DEF SetToSeq
<1>4. \A y \in D : \E i \in 1..N : q[i] = y
  <2>1. q \in Injection(1..N, D)
    BY <1>3 DEF Injection
  <2> HIDE DEF D, N, q
  <2>2. q \in Surjection(1..N, D)
    <3>1. Cardinality(1..N) = Cardinality(D)
      BY <1>2 DEF N
    <3> QED BY <1>1, <2>1, <3>1, FS_Injection
  <2> QED BY <2>2 DEF Surjection
<1>5. Segments = [i \in 1..N |-> rings[q[i]]]
  BY DEF Segments
<1> HIDE DEF D, N, q
<1>6. Segments \in Seq(Segment) /\ DOMAIN Segments = 1..N
  BY <1>1, <1>3, <1>5
<1>7. Filed(Segments)
  BY <1>1, <1>2, <1>3, <1>5, <1>6 DEF Filed
<1>8. /\ q \in [DOMAIN Segments -> DOMAIN rings]
      /\ \A i, j \in DOMAIN Segments : q[i] = q[j] => i = j
      /\ \A i \in DOMAIN Segments : Segments[i] = rings[q[i]]
      /\ {q[i] : i \in DOMAIN Segments} = DOMAIN rings
  <2>1. q \in [DOMAIN Segments -> DOMAIN rings] /\ \A i \in DOMAIN Segments : Segments[i] = rings[q[i]]
    BY <1>3, <1>5, <1>6 DEF D
  <2>2. \A i, j \in DOMAIN Segments : q[i] = q[j] => i = j
    BY <1>3, <1>6 DEF IsInjective
  <2>3. {q[i] : i \in DOMAIN Segments} = DOMAIN rings
    BY <1>4, <1>6, <2>1 DEF D
  <2> QED BY <2>1, <2>2, <2>3
<1>9. WeightOf(Segments) = WeightOf(Restrict(rings, DOMAIN rings))
  <2>1. WeightOf(Segments) = WeightOf(Restrict(rings, {q[i] : i \in DOMAIN Segments}))
    BY <1>7, <1>8, WeightMoved
  <2> QED BY <1>8, <2>1
<1>10. WeightOf(Restrict(rings, DOMAIN rings)) = WeightOf(rings)
  <2>1. DOMAIN Restrict(rings, DOMAIN rings) = DOMAIN rings
        /\ \A r \in DOMAIN rings : Restrict(rings, DOMAIN rings)[r] = rings[r]
    BY DEF Restrict
  <2>2. [r \in DOMAIN Restrict(rings, DOMAIN rings) |-> Weight(Restrict(rings, DOMAIN rings)[r])]
        = [r \in DOMAIN rings |-> Weight(rings[r])]
    BY <2>1
  <2> QED BY <2>1, <2>2, WeightIsSum
<1>11. Segments = <<>> => DOMAIN rings = {}
  <2>1. Segments = <<>> => DOMAIN Segments = {}
    OBVIOUS
  <2> QED BY <1>8, <2>1
<1> QED BY <1>6, <1>7, <1>9, <1>10, <1>11

LEMMA BatchFiled == ASSUME NEW b \in Seq(Segment) PROVE Filed(b)
<1>1. DOMAIN b = 1..Len(b) /\ Len(b) \in Nat /\ \A i \in DOMAIN b : b[i] \in Segment
  OBVIOUS
<1>2. IsFiniteSet(1..Len(b))
  BY <1>1, FS_Interval
<1> QED BY <1>1, <1>2 DEF Filed

\* Writing the first segment leaves the weight of the others.
LEMMA BatchTail ==
  ASSUME NEW b \in Seq(Segment), b # <<>>
  PROVE  WeightOf(b) = Weight(Head(b)) + WeightOf(Tail(b))
<1> DEFINE t == Tail(b)
           h == [i \in 1..Len(t) |-> i + 1]
<1>1. /\ Len(b) \in Nat \ {0} /\ t \in Seq(Segment) /\ Len(t) = Len(b) - 1 /\ Head(b) = b[1]
      /\ DOMAIN b = 1..Len(b) /\ DOMAIN t = 1..Len(t)
      /\ \A i \in 1..Len(t) : t[i] = b[i + 1]
  OBVIOUS
<1>2. Filed(b) /\ Filed(t)
  BY <1>1, BatchFiled
<1> HIDE DEF t
<1>3. /\ h \in [DOMAIN t -> DOMAIN b]
      /\ \A i, j \in DOMAIN t : h[i] = h[j] => i = j
      /\ \A i \in DOMAIN t : t[i] = b[h[i]]
      /\ {h[i] : i \in DOMAIN t} = DOMAIN b \ {1}
  <2>1. \A i \in DOMAIN t : h[i] = i + 1 /\ i \in Int /\ i + 1 \in DOMAIN b
    BY <1>1
  <2>2. \A k \in DOMAIN b \ {1} : k - 1 \in DOMAIN t /\ h[k - 1] = k
    BY <1>1
  <2>3. DOMAIN h = DOMAIN t
    BY <1>1
  <2>4. \A i \in DOMAIN t : h[i] # 1
    BY <1>1
  <2>5. {h[i] : i \in DOMAIN t} = DOMAIN b \ {1}
    <3> HIDE DEF h
    <3>1. ASSUME NEW k \in DOMAIN b \ {1} PROVE k \in {h[i] : i \in DOMAIN t}
      BY <2>2
    <3> QED BY <2>1, <2>4, <3>1
  <2> QED BY <1>1, <2>1, <2>3, <2>5
<1> HIDE DEF h
<1>4. WeightOf(t) = WeightOf(Restrict(b, DOMAIN b \ {1}))
  <2>1. WeightOf(t) = WeightOf(Restrict(b, {h[i] : i \in DOMAIN t}))
    BY <1>2, <1>3, WeightMoved
  <2> QED BY <1>3, <2>1
<1>5. WeightOf(b) = WeightOf(Restrict(b, DOMAIN b \ {1})) + Weight(b[1])
  <2>1. 1 \in DOMAIN b
    BY <1>1
  <2> QED BY <1>2, <2>1, WeightWithout
<1>6. Weight(b[1]) \in Nat /\ WeightOf(t) \in Nat
  <2>1. b[1] \in Segment
    BY <1>1
  <2> QED BY <1>2, <2>1, WeightNat, WeightOfNat
<1> QED BY <1>1, <1>4, <1>5, <1>6 DEF t

\* The flushes together carry a natural number of events, and when one of them changes, that number
\* changes with its batch.
LEMMA CarriedNat ==
  ASSUME NEW fl \in [Flushes -> FlushType] PROVE Carried(fl) \in Nat
<1> DEFINE w == [f \in Flushes |-> WeightOf(fl[f].batch)]
<1>1. \A f \in Flushes : w[f] \in Nat
  BY BatchFiled, WeightOfNat DEF FlushType
<1> HIDE DEF w
<1>2. SumFunctionOnSet(w, Flushes) \in Nat
  BY <1>1, SetSumNat, CaptureAssumption
<1> QED BY <1>2 DEF Carried, w

LEMMA CarriedChange ==
  ASSUME NEW fl \in [Flushes -> FlushType], NEW g \in Flushes, NEW a \in FlushType
  PROVE  /\ Carried([fl EXCEPT ![g] = a]) = Carried(fl) - WeightOf(fl[g].batch) + WeightOf(a.batch)
         /\ WeightOf(fl[g].batch) \in Nat /\ WeightOf(a.batch) \in Nat
<1> DEFINE new == [fl EXCEPT ![g] = a]
           w == [f \in Flushes |-> WeightOf(fl[f].batch)]
           v == [f \in Flushes |-> WeightOf(new[f].batch)]
<1>1. new \in [Flushes -> FlushType] /\ new[g] = a /\ \A f \in Flushes : f # g => new[f] = fl[f]
  OBVIOUS
<1>2. \A x \in FlushType : WeightOf(x.batch) \in Nat
  BY BatchFiled, WeightOfNat DEF FlushType
<1> HIDE DEF new
<1>3. /\ \A f \in Flushes : w[f] \in Int /\ v[f] \in Int
      /\ \A f \in Flushes : f # g => w[f] = v[f]
      /\ w[g] = WeightOf(fl[g].batch) /\ v[g] = WeightOf(a.batch)
  BY <1>1, <1>2
<1> HIDE DEF w, v
<1>4. SumFunctionOnSet(v, Flushes) = SumFunctionOnSet(w, Flushes) - w[g] + v[g]
  BY <1>3, SetSumUpdate, CaptureAssumption
<1> QED BY <1>2, <1>3, <1>4 DEF Carried, w, v, new

\* What is typed is filed.
LEMMA FilesFiled ==
  ASSUME NEW fs, IsFiniteSet(fs), \A x \in fs : x.seg \in Segment
  PROVE  Filed(Contents(fs))
BY DEF Filed, Contents

LEMMA CaptureFiled == CaptureInv => Filed(rings) /\ Filed(Contents(files))
BY FilesFiled DEF CaptureInv, RingsTyped, FilesTyped, Filed

LEMMA CaptureTotals ==
  CaptureInv => /\ WeightOf(rings) \in Nat /\ WeightOf(Contents(files)) \in Nat /\ Carried(flush) \in Nat
                /\ gone \in [excluded : Nat, evicted : Nat, failed : Nat, purged : Nat]
BY CaptureFiled, WeightOfNat, CarriedNat DEF CaptureInv, FlushesTyped, GoneTyped

\* The sweep: the files past their time weigh what is added to the purged.
LEMMA SweptWeighs ==
  ASSUME CaptureInv
  PROVE  /\ WeightOf(Contents(files)) = WeightOf(Contents(Swept)) + WeightOf(Contents(files \ Swept))
         /\ WeightOf(Contents(Swept)) \in Nat /\ WeightOf(Contents(files \ Swept)) \in Nat
         /\ IsFiniteSet(Swept) /\ Swept \subseteq files
<1> DEFINE t == Contents(files)
<1>1. Filed(t) /\ DOMAIN t = files /\ Swept \subseteq files /\ IsFiniteSet(Swept)
  <2>1. Swept \subseteq files
    BY DEF Swept
  <2>2. IsFiniteSet(Swept)
    BY <2>1, FS_Subset DEF CaptureInv, FilesTyped
  <2> QED BY <2>1, <2>2, CaptureFiled DEF Contents
<1>2. /\ Restrict(t, Swept) = Contents(Swept)
      /\ Restrict(t, DOMAIN t \ Swept) = Contents(files \ Swept)
  BY <1>1 DEF Contents, Restrict
<1> HIDE DEF t
<1>3. /\ WeightOf(t) = WeightOf(Restrict(t, Swept)) + WeightOf(Restrict(t, DOMAIN t \ Swept))
      /\ Filed(Restrict(t, Swept)) /\ Filed(Restrict(t, DOMAIN t \ Swept))
  BY <1>1, WeightOfParts
<1> QED BY <1>1, <1>2, <1>3, WeightOfNat DEF t

\* A new file adds the weight of its segment.
LEMMA NewFileWeighs ==
  ASSUME CaptureInv, NEW seg \in Segment
  PROVE  WeightOf(Contents(files \cup {[name |-> named, seg |-> seg]})) = WeightOf(Contents(files)) + Weight(seg)
<1> DEFINE x == [name |-> named, seg |-> seg]
           fs == files \cup {x}
           t == Contents(fs)
<1>1. IsFiniteSet(files) /\ x \notin files /\ \A y \in files : y.seg \in Segment
  BY DEF CaptureInv, FilesTyped
<1>2. IsFiniteSet(fs) /\ \A y \in fs : y.seg \in Segment
  <2>1. IsFiniteSet(fs)
    <3> HIDE DEF x
    <3> QED BY <1>1, FS_AddElement
  <2> QED BY <1>1, <2>1
<1>3. Filed(t) /\ DOMAIN t = fs /\ t[x] = seg
  BY <1>2, FilesFiled DEF Contents
<1>4. Restrict(t, DOMAIN t \ {x}) = Contents(files)
  <2>1. fs \ {x} = files
    BY <1>1
  <2>2. \A y \in files : t[y] = y.seg
    BY DEF Contents
  <2> HIDE DEF fs, t
  <2> QED BY <1>3, <2>1, <2>2 DEF Contents, Restrict
<1>5. x \in DOMAIN t
  BY <1>3
<1> HIDE DEF t, fs, x
<1>6. WeightOf(t) = WeightOf(Restrict(t, DOMAIN t \ {x})) + Weight(t[x])
  BY <1>3, <1>5, WeightWithout
<1> QED BY <1>3, <1>4, <1>6 DEF t, fs, x

----------------------------------------------------------------------------
(* The capture: its steps *)

LEMMA CaptureInitial == LogInit => CaptureInv
<1> SUFFICES ASSUME LogInit PROVE CaptureInv
  OBVIOUS
<1>1. lnow = 0 /\ tallied = 0 /\ DOMAIN rings = {} /\ rings = [r \in {} |-> 0] /\ files = {} /\ scopes = <<>>
      /\ flush = [f \in Flushes |-> Resting] /\ inFlight = FALSE /\ named = 0
      /\ gone = [excluded |-> 0, evicted |-> 0, failed |-> 0, purged |-> 0]
  BY DEF LogInit, NoRings
<1>2. RingsTyped
  <2>1. IsFiniteSet(DOMAIN rings)
    BY <1>1, FS_EmptySet
  <2>2. scopes \in Seq(Scopes) /\ Len(scopes) <= MaxScopes /\ IsInjective(scopes)
    BY <1>1, CaptureAssumption DEF IsInjective
  <2> QED BY <1>1, <2>1, <2>2 DEF RingsTyped
<1>3. FlushesTyped
  BY <1>1 DEF FlushesTyped, FlushType, Purposeful, Resting
<1>4. FilesTyped /\ GoneTyped
  BY <1>1, FS_EmptySet DEF FilesTyped, GoneTyped
<1>5. TimerAlone
  BY <1>1 DEF TimerAlone, Resting
<1>6. WeightOf(rings) = 0 /\ WeightOf(Contents(files)) = 0
  BY <1>1, WeightOfEmpty DEF Contents
<1>7. Carried(flush) = 0
  <2> DEFINE w == [f \in Flushes |-> WeightOf(flush[f].batch)]
  <2>1. WeightOf(<<>>) = 0
    BY WeightOfEmpty
  <2>2. \A f \in Flushes : w[f] = 0
    BY <1>1, <2>1 DEF Resting
  <2> HIDE DEF w
  <2>3. SumFunctionOnSet(w, Flushes) = 0
    BY <2>2, SetSumZero, CaptureAssumption
  <2> QED BY <2>3 DEF Carried, w
<1>8. Balanced
  BY <1>1, <1>6, <1>7 DEF Balanced
<1>9. lnow \in Int /\ tallied \in 0..MaxEvents
  BY <1>1, CaptureAssumption
<1> QED BY <1>2, <1>3, <1>4, <1>5, <1>8, <1>9 DEF CaptureInv

\* The scopes after an event of s: it is among them, and only an evicted one is gone.
LEMMA ScopesFollow ==
  ASSUME CaptureInv, NEW s \in Scopes, NEW p, RecordEvent(s, p)
  PROVE  /\ scopes' \in Seq(Scopes) /\ Len(scopes') <= MaxScopes /\ IsInjective(scopes')
         /\ s \in Range(scopes') /\ Range(scopes) \ Evicted(s) \subseteq Range(scopes')
<1>1. /\ scopes \in Seq(Scopes) /\ Len(scopes) <= MaxScopes
      /\ \A i, j \in 1..Len(scopes) : scopes[i] = scopes[j] => i = j
      /\ Range(scopes) = {scopes[i] : i \in 1..Len(scopes)}
  BY DEF CaptureInv, RingsTyped, IsInjective, Range
<1>2. scopes' = IF Contains(scopes, s) THEN scopes ELSE Append(IF Evicted(s) = {} THEN scopes ELSE Tail(scopes), s)
  BY DEF RecordEvent
<1>3. CASE Contains(scopes, s)
  <2>1. scopes' = scopes
    BY <1>2, <1>3
  <2>2. s \in Range(scopes)
    BY <1>1, <1>3 DEF Contains
  <2> QED BY <2>1, <2>2 DEF CaptureInv, RingsTyped
<1>4. CASE ~Contains(scopes, s)
  <2> DEFINE b == IF Evicted(s) = {} THEN scopes ELSE Tail(scopes)
  <2>1. /\ b \in Seq(Scopes) /\ Len(b) + 1 <= MaxScopes
        /\ \A i, j \in 1..Len(b) : b[i] = b[j] => i = j
        /\ \A i \in 1..Len(b) : b[i] # s
        /\ \A x \in Range(scopes) \ Evicted(s) : \E i \in 1..Len(b) : b[i] = x
    <3>1. CASE Len(scopes) >= MaxScopes
      <4>1. Evicted(s) = {Head(scopes)} /\ b = Tail(scopes) /\ scopes # <<>>
        BY <1>1, <1>4, <3>1, CaptureAssumption DEF Evicted
      <4>2. b \in Seq(Scopes) /\ Len(b) = Len(scopes) - 1 /\ \A i \in 1..Len(b) : b[i] = scopes[i + 1]
        <5>1. /\ Tail(scopes) \in Seq(Scopes) /\ Len(Tail(scopes)) = Len(scopes) - 1
              /\ \A i \in 1..Len(Tail(scopes)) : Tail(scopes)[i] = scopes[i + 1]
          <6>1. scopes \in Seq(Scopes) /\ scopes # <<>>
            BY <1>1, <4>1
          <6> QED BY <6>1
        <5> QED BY <4>1, <5>1
      <4>3. \A x \in Range(scopes) \ Evicted(s) : \E i \in 1..Len(b) : b[i] = x
        <5> SUFFICES ASSUME NEW x \in Range(scopes) \ Evicted(s)
                     PROVE  \E i \in 1..Len(b) : b[i] = x
          OBVIOUS
        <5>0. PICK k \in 1..Len(scopes) : scopes[k] = x /\ x # Head(scopes)
          BY <1>1, <4>1
        <5>1. k # 1 /\ k - 1 \in 1..Len(b)
          BY <1>1, <4>2, <5>0
        <5> HIDE DEF b
        <5>2. b[k - 1] = scopes[k]
          BY <4>2, <5>1
        <5> QED BY <5>0, <5>1, <5>2
      <4>4. \A i \in 1..Len(b) : i + 1 \in 1..Len(scopes)
        BY <1>1, <4>2
      <4> HIDE DEF b
      <4>5. \A i \in 1..Len(b) : b[i] # s
        BY <1>4, <4>2, <4>4 DEF Contains
      <4>6. \A i, j \in 1..Len(b) : b[i] = b[j] => i = j
        BY <1>1, <4>2, <4>4
      <4> QED BY <1>1, <4>2, <4>3, <4>5, <4>6
    <3>2. CASE ~(Len(scopes) >= MaxScopes)
      <4>1. Evicted(s) = {} /\ b = scopes
        BY <3>2 DEF Evicted
      <4>2. Len(b) + 1 <= MaxScopes
        BY <1>1, <3>2, <4>1, CaptureAssumption
      <4> QED BY <1>1, <1>4, <4>1, <4>2 DEF Contains
    <3> QED BY <3>1, <3>2
  <2> HIDE DEF b
  <2>2. scopes' = Append(b, s)
    BY <1>2, <1>4 DEF b
  <2>3. /\ scopes' \in Seq(Scopes) /\ Len(scopes') = Len(b) + 1 /\ Len(b) \in Nat
        /\ \A i \in 1..Len(b) : scopes'[i] = b[i]
        /\ scopes'[Len(b) + 1] = s
        /\ DOMAIN scopes' = 1..(Len(b) + 1)
    BY <2>1, <2>2
  <2>4. IsInjective(scopes')
    BY <2>1, <2>3 DEF IsInjective
  <2>5. s \in Range(scopes') /\ Range(scopes) \ Evicted(s) \subseteq Range(scopes')
    BY <2>1, <2>3 DEF Range
  <2> QED BY <2>1, <2>3, <2>4, <2>5
<1> QED BY <1>3, <1>4

\* The ring of the event: one more event, held or turned away.
LEMMA FilledOne ==
  ASSUME NEW ring \in Segment, ring.n <= RingSize
  PROVE  /\ Filled(ring) \in Segment /\ Filled(ring).n \in 1..RingSize
         /\ Weight(Filled(ring)) = Weight(ring) + 1
BY CaptureAssumption DEF Filled, Segment, Weight

LEMMA EventWeighs ==
  ASSUME CaptureInv, NEW s \in Scopes, NEW p \in Traced, RecordEvent(s, p)
  PROVE  /\ RingsTyped' /\ GoneTyped'
         /\ WeightOf(rings)' + gone'.evicted = WeightOf(rings) + gone.evicted + 1
         /\ WeightOf(rings)' \in Nat
         /\ gone'.excluded = gone.excluded /\ gone'.failed = gone.failed /\ gone'.purged = gone.purged
<1> DEFINE D == DOMAIN rings
           kept == {r \in D : r[1] \notin Evicted(s)}
           c == <<s, p>>
           ring == IF c \in kept THEN rings[c] ELSE [at |-> lnow, n |-> 0, dropped |-> 0]
           old == Restrict(rings, kept)
           u == rings'
           lost == WeightOf(Restrict(rings, D \ kept))
<1>1. /\ gone' = [gone EXCEPT !.evicted = @ + lost]
      /\ u = [r \in kept \cup {c} |-> IF r = c THEN Filled(ring) ELSE rings[r]]
  BY DEF RecordEvent
<1>2. Filed(rings) /\ IsFiniteSet(D) /\ kept \in SUBSET DOMAIN rings /\ lnow \in Int
      /\ \A r \in D : rings[r] \in Segment /\ rings[r].n \in 1..RingSize
  BY CaptureFiled DEF CaptureInv, RingsTyped
<1>3. /\ WeightOf(rings) = WeightOf(old) + lost
      /\ Filed(old) /\ WeightOf(old) \in Nat /\ lost \in Nat
  <2> HIDE DEF kept
  <2> QED BY <1>2, WeightOfParts, WeightOfNat
<1>4. ring \in Segment /\ ring.n <= RingSize /\ (c \notin kept => Weight(ring) = 0)
  <2>1. CASE c \in kept
    BY <1>2, <2>1, CaptureAssumption
  <2>2. CASE c \notin kept
    BY <1>2, <2>2, CaptureAssumption DEF Segment, Weight
  <2> QED BY <2>1, <2>2
<1> HIDE DEF ring
<1>5. /\ Filled(ring) \in Segment /\ Filled(ring).n \in 1..RingSize
      /\ Weight(Filled(ring)) = Weight(ring) + 1 /\ Weight(ring) \in Nat
  BY <1>4, FilledOne, WeightNat
<1>6. /\ DOMAIN u = kept \cup {c} /\ u[c] = Filled(ring)
      /\ \A r \in kept \ {c} : u[r] = rings[r]
      /\ \A r \in DOMAIN u : u[r] \in Segment /\ u[r].n \in 1..RingSize
  BY <1>1, <1>2, <1>5
<1>7. Filed(u)
  <2>1. IsFiniteSet(kept \cup {c})
    <3>1. IsFiniteSet(kept)
      BY <1>2, FS_Subset
    <3> HIDE DEF kept, c
    <3> QED BY <3>1, FS_AddElement
  <2> QED BY <1>6, <2>1 DEF Filed
<1>8. /\ WeightOf(u) = WeightOf(Restrict(u, DOMAIN u \ {c})) + Weight(u[c])
      /\ Filed(Restrict(u, DOMAIN u \ {c}))
  <2> HIDE DEF u
  <2>1. c \in DOMAIN u
    BY <1>6
  <2> HIDE DEF c
  <2> QED BY <1>7, <2>1, WeightWithout
<1>9. Restrict(u, DOMAIN u \ {c}) = Restrict(old, kept \ {c})
  <2>1. DOMAIN u \ {c} = kept \ {c} /\ \A r \in kept \ {c} : u[r] = rings[r] /\ old[r] = rings[r]
    BY <1>6 DEF Restrict
  <2> HIDE DEF kept, c, u, old
  <2> QED BY <2>1 DEF Restrict
<1>10. WeightOf(old) = WeightOf(Restrict(old, kept \ {c})) + Weight(ring)
  <2>0. DOMAIN old = kept
    BY DEF Restrict
  <2>1. CASE c \in kept
    <3>1. ring = old[c] /\ c \in DOMAIN old
      BY <2>1 DEF Restrict, ring
    <3> HIDE DEF old, c, kept
    <3>2. WeightOf(old) = WeightOf(Restrict(old, DOMAIN old \ {c})) + Weight(old[c])
      BY <1>3, <3>1, WeightWithout
    <3> QED BY <2>0, <3>1, <3>2
  <2>2. CASE c \notin kept
    <3>1. Restrict(old, kept \ {c}) = old
      BY <2>2 DEF Restrict
    <3> QED BY <1>3, <1>4, <2>2, <3>1
  <2> QED BY <2>1, <2>2
<1>11. WeightOf(u) = WeightOf(old) + 1
  <2>1. WeightOf(Restrict(u, DOMAIN u \ {c})) \in Nat
    BY <1>8, WeightOfNat
  <2> HIDE DEF u, old, c, kept
  <2> QED BY <1>5, <1>6, <1>8, <1>9, <1>10, <2>1
<1>12. gone \in [excluded : Nat, evicted : Nat, failed : Nat, purged : Nat]
  BY DEF CaptureInv, GoneTyped
<1>13. RingsTyped'
  <2>1. DOMAIN u \subseteq Range(scopes') \X Traced
    <3>1. D \subseteq Range(scopes) \X Traced
      BY DEF CaptureInv, RingsTyped
    <3>2. \A r \in kept : r \in Range(scopes) \X Traced /\ r[1] \notin Evicted(s)
      BY <3>1
    <3>3. Range(scopes) \ Evicted(s) \subseteq Range(scopes') /\ s \in Range(scopes')
      BY ScopesFollow
    <3> HIDE DEF kept
    <3>4. \A r \in kept : r \in Range(scopes') \X Traced
      BY <3>2, <3>3
    <3> QED BY <1>6, <3>3, <3>4
  <2>2. u = [r \in DOMAIN u |-> u[r]]
    BY <1>1
  <2>3. IsFiniteSet(DOMAIN u)
    BY <1>7 DEF Filed
  <2> QED BY <1>6, <2>1, <2>2, <2>3, ScopesFollow DEF RingsTyped
<1>14. GoneTyped' /\ gone'.evicted = gone.evicted + lost
       /\ gone'.excluded = gone.excluded /\ gone'.failed = gone.failed /\ gone'.purged = gone.purged
  <2> HIDE DEF lost
  <2> QED BY <1>1, <1>3, <1>12 DEF GoneTyped
<1>15. WeightOf(u) \in Nat
  BY <1>3, <1>11
<1> HIDE DEF lost
<1> QED BY <1>3, <1>11, <1>12, <1>13, <1>14, <1>15

LEMMA RecordKeeps ==
  ASSUME CaptureInv, NEW s \in Scopes, NEW p \in Traced, RecordEvent(s, p) PROVE CaptureInv'
<1>1. /\ tallied < MaxEvents /\ tallied' = tallied + 1
      /\ UNCHANGED <<lnow, flush, inFlight, timer, files, named>>
  BY DEF RecordEvent
<1>2. lnow' \in Int /\ tallied' \in 0..MaxEvents
  BY <1>1, CaptureAssumption DEF CaptureInv
<1>3. FlushesTyped' /\ FilesTyped' /\ TimerAlone'
  BY <1>1 DEF CaptureInv, FlushesTyped, FilesTyped, TimerAlone
<1>4. Balanced'
  <2>1. Carried(flush)' = Carried(flush) /\ WeightOf(Contents(files))' = WeightOf(Contents(files))
    BY <1>1
  <2>2. tallied = WeightOf(rings) + Carried(flush) + WeightOf(Contents(files))
                  + gone.excluded + gone.evicted + gone.failed + gone.purged
    BY DEF CaptureInv, Balanced
  <2>3. gone' \in [excluded : Nat, evicted : Nat, failed : Nat, purged : Nat]
    BY EventWeighs DEF GoneTyped
  <2> QED BY <1>1, <2>1, <2>2, <2>3, EventWeighs, CaptureTotals DEF Balanced
<1> QED BY <1>2, <1>3, <1>4, EventWeighs DEF CaptureInv

LEMMA TallyKeeps == ASSUME CaptureInv, RecordTallyOnly PROVE CaptureInv'
<1>1. /\ tallied < MaxEvents /\ tallied' = tallied + 1 /\ gone' = [gone EXCEPT !.excluded = @ + 1]
      /\ UNCHANGED <<lnow, scopes, rings, flush, inFlight, timer, files, named>>
  BY DEF RecordTallyOnly
<1>2. lnow' \in Int /\ tallied' \in 0..MaxEvents
  BY <1>1, CaptureAssumption DEF CaptureInv
<1>3. RingsTyped' /\ FlushesTyped' /\ FilesTyped' /\ TimerAlone'
  BY <1>1 DEF CaptureInv, RingsTyped, FlushesTyped, FilesTyped, TimerAlone
<1>4. gone \in [excluded : Nat, evicted : Nat, failed : Nat, purged : Nat]
  BY DEF CaptureInv, GoneTyped
<1>5. GoneTyped'
  BY <1>1, <1>4 DEF GoneTyped
<1>6. Balanced'
  <2>1. /\ Carried(flush)' = Carried(flush) /\ WeightOf(Contents(files))' = WeightOf(Contents(files))
        /\ WeightOf(rings)' = WeightOf(rings)
    BY <1>1
  <2> QED BY <1>1, <1>4, <2>1, CaptureTotals DEF CaptureInv, Balanced
<1> QED BY <1>2, <1>3, <1>5, <1>6 DEF CaptureInv

\* A flush that starts takes over all the rings held.
LEMMA BeginKeeps ==
  ASSUME CaptureInv, NEW f \in Flushes, NEW by \in {"timer", "caller"}, Begin(f, by)
  PROVE  /\ lnow' \in Int /\ tallied' \in 0..MaxEvents
         /\ RingsTyped' /\ FlushesTyped' /\ FilesTyped' /\ GoneTyped' /\ Balanced'
<1> DEFINE a == [st |-> "sweeping", by |-> by, batch |-> Segments]
<1>1. /\ flush[f] = Resting /\ scopes' = <<>> /\ rings' = NoRings
      /\ flush' = IF Segments = <<>> THEN flush ELSE [flush EXCEPT ![f] = a]
      /\ UNCHANGED <<lnow, tallied, timer, files, named, gone>>
  BY DEF Begin, Drained
<1>2. /\ Segments \in Seq(Segment) /\ WeightOf(Segments) = WeightOf(rings)
      /\ Segments = <<>> => DOMAIN rings = {}
  BY CaptureFiled, DrainedWhole
<1>3. flush \in [Flushes -> FlushType] /\ a \in FlushType
      /\ a.st = "sweeping" /\ a.by # "none" /\ a.batch = Segments
  BY <1>2 DEF CaptureInv, FlushesTyped, FlushType
<1>4. RingsTyped'
  <2>1. DOMAIN rings' = {} /\ IsFiniteSet(DOMAIN rings')
    BY <1>1, FS_EmptySet DEF NoRings
  <2>2. scopes' \in Seq(Scopes) /\ Len(scopes') <= MaxScopes /\ IsInjective(scopes')
    BY <1>1, CaptureAssumption DEF IsInjective
  <2>3. rings' = [r \in DOMAIN rings' |-> rings'[r]]
    BY <1>1 DEF NoRings
  <2> QED BY <2>1, <2>2, <2>3 DEF RingsTyped
<1> HIDE DEF a
<1>5. FlushesTyped'
  <2>1. CASE Segments = <<>>
    BY <1>1, <2>1 DEF CaptureInv, FlushesTyped
  <2>2. CASE Segments # <<>>
    <3>1. flush' = [flush EXCEPT ![f] = a]
      BY <1>1, <2>2
    <3>2. flush' \in [Flushes -> FlushType]
      BY <1>3, <3>1
    <3>3. ASSUME NEW g \in Flushes PROVE Purposeful(flush'[g])
      <4>1. CASE g = f
        BY <1>3, <2>2, <3>1, <4>1 DEF Purposeful
      <4>2. CASE g # f
        BY <1>3, <3>1, <4>2 DEF CaptureInv, FlushesTyped
      <4> QED BY <4>1, <4>2
    <3> QED BY <3>2, <3>3 DEF FlushesTyped
  <2> QED BY <2>1, <2>2
<1>6. FilesTyped' /\ GoneTyped' /\ lnow' \in Int /\ tallied' \in 0..MaxEvents
  BY <1>1 DEF CaptureInv, FilesTyped, GoneTyped
<1>7. WeightOf(rings)' = 0
  <2>1. DOMAIN rings' = {}
    BY <1>1 DEF NoRings
  <2> QED BY <2>1, WeightOfEmpty
<1>8. Carried(flush') = Carried(flush) + WeightOf(rings)
  <2>1. CASE Segments = <<>>
    <3>1. WeightOf(rings) = 0 /\ flush' = flush
      BY <1>1, <1>2, <2>1, WeightOfEmpty
    <3> QED BY <3>1, CaptureTotals
  <2>2. CASE Segments # <<>>
    <3>1. flush' = [flush EXCEPT ![f] = a]
      BY <1>1, <2>2
    <3>2. Carried([flush EXCEPT ![f] = a]) = Carried(flush) - WeightOf(flush[f].batch) + WeightOf(a.batch)
      BY <1>3, CarriedChange
    <3>3. flush[f].batch = <<>> /\ WeightOf(<<>>) = 0
      BY <1>1, WeightOfEmpty DEF Resting
    <3> QED BY <1>2, <1>3, <3>1, <3>2, <3>3, CaptureTotals
  <2> QED BY <2>1, <2>2
<1>9. Balanced'
  <2>1. WeightOf(Contents(files))' = WeightOf(Contents(files)) /\ Carried(flush)' = Carried(flush')
    BY <1>1
  <2> QED BY <1>1, <1>7, <1>8, <2>1, CaptureTotals DEF CaptureInv, Balanced
<1> QED BY <1>4, <1>5, <1>6, <1>9

LEMMA FlushOnceKeeps == ASSUME CaptureInv, NEW f \in Flushes, FlushOnce(f) PROVE CaptureInv'
<1>1. Begin(f, "caller") /\ inFlight' = inFlight
  BY DEF FlushOnce
<1>2. /\ flush[f] = Resting /\ flush \in [Flushes -> FlushType]
      /\ flush' = IF Segments = <<>> THEN flush
                  ELSE [flush EXCEPT ![f] = [st |-> "sweeping", by |-> "caller", batch |-> Segments]]
  BY <1>1 DEF Begin, CaptureInv, FlushesTyped
<1>3. \A g \in Flushes : flush'[g].by = "timer" <=> flush[g].by = "timer"
  BY <1>2 DEF Resting
<1>4. TimerAlone'
  BY <1>1, <1>3 DEF CaptureInv, TimerAlone
<1> QED BY <1>1, <1>4, BeginKeeps DEF CaptureInv

LEMMA TimerKeeps == ASSUME CaptureInv, NEW f \in Flushes, TimerFires(f) PROVE CaptureInv'
<1>1. Begin(f, "timer") /\ ~inFlight /\ inFlight' = (Segments # <<>>)
  BY DEF TimerFires, MayFlush
<1>2. /\ flush[f] = Resting /\ flush \in [Flushes -> FlushType]
      /\ flush' = IF Segments = <<>> THEN flush
                  ELSE [flush EXCEPT ![f] = [st |-> "sweeping", by |-> "timer", batch |-> Segments]]
  BY <1>1 DEF Begin, CaptureInv, FlushesTyped
<1>3. \A g \in Flushes : flush[g].by # "timer"
  BY <1>1 DEF CaptureInv, TimerAlone
<1>4. TimerAlone'
  <2>1. CASE Segments = <<>>
    BY <1>1, <1>2, <1>3, <2>1 DEF TimerAlone
  <2>2. CASE Segments # <<>>
    <3>1. inFlight' /\ \A g \in Flushes : flush'[g].by = "timer" <=> g = f
      BY <1>1, <1>2, <1>3, <2>2
    <3> QED BY <3>1 DEF TimerAlone
  <2> QED BY <2>1, <2>2
<1> QED BY <1>1, <1>4, BeginKeeps DEF CaptureInv

\* A sweep, of a flush or of the command line, moves what it purged from the files to the purged.
LEMMA PurgedAccounted ==
  ASSUME CaptureInv, files' = Swept, named' = named,
         gone' = [gone EXCEPT !.purged = @ + WeightOf(Contents(files \ Swept))]
  PROVE  /\ FilesTyped' /\ GoneTyped'
         /\ WeightOf(Contents(files))' + gone'.purged = WeightOf(Contents(files)) + gone.purged
         /\ WeightOf(Contents(files))' \in Nat
         /\ gone'.excluded = gone.excluded /\ gone'.failed = gone.failed /\ gone'.evicted = gone.evicted
<1>1. FilesTyped'
  BY SweptWeighs DEF CaptureInv, FilesTyped
<1>2. WeightOf(Contents(files))' = WeightOf(Contents(Swept))
  OBVIOUS
<1>3. gone \in [excluded : Nat, evicted : Nat, failed : Nat, purged : Nat]
  BY DEF CaptureInv, GoneTyped
<1> DEFINE lost == WeightOf(Contents(files \ Swept))
<1>4. lost \in Nat /\ gone' = [gone EXCEPT !.purged = @ + lost]
      /\ WeightOf(Contents(files)) = WeightOf(Contents(Swept)) + lost /\ WeightOf(Contents(Swept)) \in Nat
  BY SweptWeighs
<1> HIDE DEF lost
<1> QED BY <1>1, <1>2, <1>3, <1>4 DEF GoneTyped

LEMMA AdminSweepKeeps == ASSUME CaptureInv, AdminSweep PROVE CaptureInv'
<1>1. /\ files' = Swept /\ gone' = [gone EXCEPT !.purged = @ + WeightOf(Contents(files \ Swept))]
      /\ UNCHANGED <<lnow, tallied, scopes, rings, flush, inFlight, timer, named>>
  BY DEF AdminSweep
<1>2. lnow' \in Int /\ tallied' \in 0..MaxEvents /\ RingsTyped' /\ FlushesTyped' /\ TimerAlone'
  BY <1>1 DEF CaptureInv, RingsTyped, FlushesTyped, TimerAlone
<1>3. /\ FilesTyped' /\ GoneTyped'
      /\ WeightOf(Contents(files))' + gone'.purged = WeightOf(Contents(files)) + gone.purged
      /\ WeightOf(Contents(files))' \in Nat
      /\ gone'.excluded = gone.excluded /\ gone'.failed = gone.failed /\ gone'.evicted = gone.evicted
  BY <1>1, PurgedAccounted
<1>4. Balanced'
  <2>1. Carried(flush)' = Carried(flush) /\ WeightOf(rings)' = WeightOf(rings)
    BY <1>1
  <2>2. gone' \in [excluded : Nat, evicted : Nat, failed : Nat, purged : Nat]
    BY <1>3 DEF GoneTyped
  <2>3. tallied' = WeightOf(rings) + Carried(flush) + WeightOf(Contents(files))
                   + gone.excluded + gone.evicted + gone.failed + gone.purged
    BY <1>1 DEF CaptureInv, Balanced
  <2> QED BY <1>3, <2>1, <2>2, <2>3, CaptureTotals DEF Balanced
<1> QED BY <1>2, <1>3, <1>4 DEF CaptureInv

LEMMA SweepKeeps ==
  ASSUME CaptureInv, NEW f \in Flushes, NEW ok \in BOOLEAN, SweepDone(f, ok) PROVE CaptureInv'
<1>1. /\ flush[f].st = "sweeping" /\ flush' = [flush EXCEPT ![f].st = "writing"]
      /\ UNCHANGED <<lnow, tallied, scopes, rings, inFlight, timer, named>>
  BY DEF SweepDone
<1>2. /\ FilesTyped' /\ GoneTyped'
      /\ WeightOf(Contents(files))' + gone'.purged = WeightOf(Contents(files)) + gone.purged
      /\ WeightOf(Contents(files))' \in Nat
      /\ gone'.excluded = gone.excluded /\ gone'.failed = gone.failed /\ gone'.evicted = gone.evicted
  <2>1. CASE ok
    <3>1. files' = Swept /\ gone' = [gone EXCEPT !.purged = @ + WeightOf(Contents(files \ Swept))]
      BY <2>1 DEF SweepDone
    <3> QED BY <1>1, <3>1, PurgedAccounted
  <2>2. CASE ~ok
    <3>1. files' = files /\ gone' = gone
      BY <2>2 DEF SweepDone
    <3> QED BY <1>1, <3>1, CaptureTotals DEF CaptureInv, FilesTyped, GoneTyped
  <2> QED BY <2>1, <2>2
<1> DEFINE a == [flush[f] EXCEPT !.st = "writing"]
<1>3. /\ flush \in [Flushes -> FlushType] /\ flush' = [flush EXCEPT ![f] = a]
      /\ a \in FlushType /\ a.batch = flush[f].batch /\ a.by = flush[f].by /\ a.st = "writing"
      /\ a.by # "none" /\ a.batch # <<>>
  BY <1>1 DEF CaptureInv, FlushesTyped, FlushType, Purposeful
<1> HIDE DEF a
<1>4. FlushesTyped'
  <2>1. flush' \in [Flushes -> FlushType]
    BY <1>3
  <2>2. ASSUME NEW g \in Flushes PROVE Purposeful(flush'[g])
    <3>1. CASE g = f
      BY <1>3, <3>1 DEF Purposeful
    <3>2. CASE g # f
      BY <1>3, <3>2 DEF CaptureInv, FlushesTyped
    <3> QED BY <3>1, <3>2
  <2> QED BY <2>1, <2>2 DEF FlushesTyped
<1>5. TimerAlone'
  <2>1. \A g \in Flushes : flush'[g].by = flush[g].by
    BY <1>3
  <2> QED BY <1>1, <2>1 DEF CaptureInv, TimerAlone
<1>6. Carried(flush)' = Carried(flush)
  <2>1. Carried([flush EXCEPT ![f] = a]) = Carried(flush) - WeightOf(flush[f].batch) + WeightOf(a.batch)
        /\ WeightOf(a.batch) \in Nat
    BY <1>3, CarriedChange
  <2> QED BY <1>3, <2>1, CaptureTotals
<1>7. Balanced'
  <2>1. WeightOf(rings)' = WeightOf(rings)
    BY <1>1
  <2>2. gone' \in [excluded : Nat, evicted : Nat, failed : Nat, purged : Nat]
    BY <1>2 DEF GoneTyped
  <2> QED BY <1>1, <1>2, <1>6, <2>1, <2>2, CaptureTotals DEF CaptureInv, Balanced
<1>8. lnow' \in Int /\ tallied' \in 0..MaxEvents /\ RingsTyped'
  BY <1>1 DEF CaptureInv, RingsTyped
<1> QED BY <1>2, <1>4, <1>5, <1>7, <1>8 DEF CaptureInv

\* The clock and the timer's switch are in no part of the invariant.
LEMMA IdleLog ==
  ASSUME CaptureInv, lnow' \in Int,
         UNCHANGED <<tallied, scopes, rings, flush, inFlight, files, named, gone>>
  PROVE  CaptureInv'
<1>1. tallied' \in 0..MaxEvents /\ RingsTyped' /\ FlushesTyped' /\ FilesTyped' /\ GoneTyped' /\ TimerAlone'
  BY DEF CaptureInv, RingsTyped, FlushesTyped, FilesTyped, GoneTyped, TimerAlone
<1>2. /\ WeightOf(rings)' = WeightOf(rings) /\ Carried(flush)' = Carried(flush)
      /\ WeightOf(Contents(files))' = WeightOf(Contents(files))
  OBVIOUS
<1>3. Balanced'
  BY <1>2 DEF CaptureInv, Balanced
<1> QED BY <1>1, <1>3 DEF CaptureInv

\* The timer's flush ends with its last segment, and its flag with it.
LEMMA WriteFlushes ==
  ASSUME CaptureInv, NEW f \in Flushes, NEW ok \in BOOLEAN, WriteDone(f, ok)
  PROVE  /\ FlushesTyped' /\ TimerAlone'
         /\ Head(flush[f].batch) \in Segment
         /\ Carried(flush)' + Weight(Head(flush[f].batch)) = Carried(flush) /\ Carried(flush)' \in Nat
<1> DEFINE b == flush[f].batch
           a == Advanced(f)
<1>1. flush[f].st = "writing" /\ flush' = [flush EXCEPT ![f] = a] /\ inFlight' = Cleared(f, ok)
  BY DEF WriteDone
<1>2. /\ flush \in [Flushes -> FlushType] /\ b \in Seq(Segment) /\ b # <<>> /\ flush[f].by # "none"
  BY <1>1 DEF CaptureInv, FlushesTyped, FlushType, Purposeful
<1>3. /\ Head(b) \in Segment /\ Len(b) \in Nat /\ Tail(b) \in Seq(Segment)
      /\ Tail(b) = <<>> <=> Len(b) = 1
  <2> HIDE DEF b
  <2>1. b \in Seq(Segment) /\ b # <<>>
    BY <1>2
  <2>2. Head(b) \in Segment /\ Len(b) \in Nat /\ Tail(b) \in Seq(Segment) /\ Len(Tail(b)) = Len(b) - 1
    BY <2>1
  <2>3. Tail(b) = <<>> <=> Len(Tail(b)) = 0
    <3>1. \A q \in Seq(Segment) : q = <<>> <=> Len(q) = 0
      OBVIOUS
    <3> QED BY <2>2, <3>1
  <2> QED BY <2>2, <2>3
<1>4. /\ a \in FlushType /\ Purposeful(a) /\ WeightOf(a.batch) = WeightOf(Tail(b))
      /\ Len(b) = 1 => a.by = "none"
      /\ Len(b) # 1 => a.by = flush[f].by
  <2>1. CASE Len(b) = 1
    <3>1. a = Resting
      BY <2>1 DEF Advanced
    <3>2. Resting \in FlushType /\ Purposeful(Resting) /\ Resting.batch = <<>> /\ Resting.by = "none"
      BY DEF Resting, FlushType, Purposeful
    <3> QED BY <1>3, <2>1, <3>1, <3>2
  <2>2. CASE Len(b) # 1
    <3>1. a = [flush[f] EXCEPT !.batch = Tail(b)]
      BY <2>2 DEF Advanced
    <3>2. Tail(b) # <<>>
      BY <1>3, <2>2
    <3>3. flush[f] \in FlushType
      BY <1>2
    <3> HIDE DEF b, a
    <3> QED BY <1>1, <1>2, <1>3, <2>2, <3>1, <3>2, <3>3 DEF FlushType, Purposeful
  <2> QED BY <2>1, <2>2
<1> HIDE DEF a
<1>5. FlushesTyped'
  <2>1. flush' \in [Flushes -> FlushType]
    BY <1>1, <1>2, <1>4
  <2>2. ASSUME NEW g \in Flushes PROVE Purposeful(flush'[g])
    <3>1. CASE g = f
      BY <1>1, <1>2, <1>4, <3>1
    <3>2. CASE g # f
      BY <1>1, <1>2, <3>2 DEF CaptureInv, FlushesTyped
    <3> QED BY <3>1, <3>2
  <2> QED BY <2>1, <2>2 DEF FlushesTyped, Purposeful
<1>6. Carried(flush') + Weight(Head(b)) = Carried(flush) /\ Carried(flush') \in Nat
  <2>1. /\ Carried([flush EXCEPT ![f] = a]) = Carried(flush) - WeightOf(b) + WeightOf(a.batch)
        /\ WeightOf(b) \in Nat /\ WeightOf(a.batch) \in Nat
    BY <1>2, <1>4, CarriedChange
  <2>2. WeightOf(b) = Weight(Head(b)) + WeightOf(Tail(b))
    BY <1>2, BatchTail
  <2>3. Carried(flush') \in Nat
    BY <1>5, CarriedNat DEF FlushesTyped
  <2>4. Weight(Head(b)) \in Nat
    BY <1>3, WeightNat
  <2> HIDE DEF b
  <2> QED BY <1>1, <1>4, <2>1, <2>2, <2>3, <2>4, CaptureTotals
<1>7. TimerAlone'
  <2>1. /\ \A g, k \in Flushes : flush[g].by = "timer" /\ flush[k].by = "timer" => g = k
        /\ inFlight <=> \E g \in Flushes : flush[g].by = "timer"
    BY DEF CaptureInv, TimerAlone
  <2>2. \A g \in Flushes : g # f => flush'[g].by = flush[g].by
    BY <1>1, <1>2
  <2>3. CASE flush[f].by = "timer" /\ Len(b) = 1
    <3>1. inFlight' = FALSE
      BY <1>1, <2>3 DEF Cleared
    <3>2. flush'[f].by = "none"
      BY <1>1, <1>2, <1>4, <2>3
    <3>3. \A g \in Flushes : flush'[g].by # "timer"
      BY <2>1, <2>2, <2>3, <3>2
    <3> QED BY <3>1, <3>3 DEF TimerAlone
  <2>4. CASE ~(flush[f].by = "timer" /\ Len(b) = 1)
    <3>1. inFlight' = inFlight
      BY <1>1, <2>4 DEF Cleared
    <3>2. flush'[f].by = "timer" <=> flush[f].by = "timer"
      BY <1>1, <1>2, <1>4, <2>4
    <3>3. \A g \in Flushes : flush'[g].by = "timer" <=> flush[g].by = "timer"
      BY <2>2, <3>2
    <3> QED BY <2>1, <3>1, <3>3 DEF TimerAlone
  <2> QED BY <2>3, <2>4
<1>8. Carried(flush)' = Carried(flush')
  OBVIOUS
<1> QED BY <1>3, <1>5, <1>6, <1>7, <1>8

LEMMA WriteKeeps ==
  ASSUME CaptureInv, NEW f \in Flushes, NEW ok \in BOOLEAN, WriteDone(f, ok) PROVE CaptureInv'
<1> DEFINE seg == Head(flush[f].batch)
<1>1. UNCHANGED <<lnow, tallied, scopes, rings, timer>>
  BY DEF WriteDone
<1>2. seg \in Segment /\ Weight(seg) \in Nat
  BY WriteFlushes, WeightNat
<1>3. /\ FilesTyped' /\ GoneTyped'
      /\ WeightOf(Contents(files))' + gone'.failed = WeightOf(Contents(files)) + gone.failed + Weight(seg)
      /\ WeightOf(Contents(files))' \in Nat
      /\ gone'.excluded = gone.excluded /\ gone'.evicted = gone.evicted /\ gone'.purged = gone.purged
  <2>1. CASE ok
    <3>1. files' = files \cup {[name |-> named, seg |-> seg]} /\ named' = named + 1 /\ gone' = gone
      BY <2>1 DEF WriteDone
    <3> HIDE DEF seg
    <3>2. WeightOf(Contents(files))' = WeightOf(Contents(files)) + Weight(seg)
      BY <1>2, <3>1, NewFileWeighs
    <3>3. FilesTyped'
      <4> DEFINE x == [name |-> named, seg |-> seg]
      <4>1. IsFiniteSet(files) /\ named \in Int /\ \A y \in files : y.seg \in Segment /\ y.name \in Int /\ y.name < named
        BY DEF CaptureInv, FilesTyped
      <4>2. x.seg \in Segment /\ x.name = named /\ files' = files \cup {x}
        BY <1>2, <3>1
      <4> HIDE DEF x
      <4>3. IsFiniteSet(files \cup {x})
        BY <4>1, FS_AddElement
      <4>4. \A y \in files \cup {x} : y.seg \in Segment /\ y.name \in Int /\ y.name < named + 1
        BY <4>1, <4>2
      <4>5. named' = named + 1 /\ named' \in Int
        BY <3>1, <4>1
      <4>6. IsFiniteSet(files') /\ \A y \in files' : y.seg \in Segment /\ y.name \in Int /\ y.name < named'
        BY <4>2, <4>3, <4>4, <4>5
      <4> QED BY <4>5, <4>6 DEF FilesTyped
    <3> QED BY <1>2, <3>1, <3>2, <3>3, CaptureTotals DEF GoneTyped
  <2>2. CASE ~ok
    <3>1. files' = files /\ named' = named /\ gone' = [gone EXCEPT !.failed = @ + Weight(seg)]
      BY <2>2 DEF WriteDone
    <3> HIDE DEF seg
    <3>2. WeightOf(Contents(files))' = WeightOf(Contents(files))
      BY <3>1
    <3> QED BY <1>2, <3>1, <3>2, CaptureTotals DEF CaptureInv, FilesTyped, GoneTyped
  <2> QED BY <2>1, <2>2
<1>4. lnow' \in Int /\ tallied' \in 0..MaxEvents /\ RingsTyped'
  BY <1>1 DEF CaptureInv, RingsTyped
<1>5. /\ FlushesTyped' /\ TimerAlone'
      /\ Carried(flush)' + Weight(seg) = Carried(flush) /\ Carried(flush)' \in Nat
  BY WriteFlushes
<1>6. Balanced'
  <2>1. WeightOf(rings)' = WeightOf(rings)
    BY <1>1
  <2>2. gone' \in [excluded : Nat, evicted : Nat, failed : Nat, purged : Nat]
    BY <1>3 DEF GoneTyped
  <2> HIDE DEF seg
  <2> QED BY <1>1, <1>2, <1>3, <1>5, <2>1, <2>2, CaptureTotals DEF CaptureInv, Balanced
<1> QED BY <1>3, <1>4, <1>5, <1>6 DEF CaptureInv

LEMMA CaptureKeeps == CaptureInv /\ [LogNext]_logVars => CaptureInv'
<1> SUFFICES ASSUME CaptureInv, [LogNext]_logVars PROVE CaptureInv'
  OBVIOUS
<1>1. CASE UNCHANGED logVars
  <2>1. UNCHANGED <<lnow, tallied, scopes, rings, flush, inFlight, timer, files, named, gone>>
    BY <1>1 DEF logVars
  <2> QED BY <2>1, IdleLog DEF CaptureInv
<1>2. ASSUME NEW s \in Scopes, NEW p \in Traced, RecordEvent(s, p) PROVE CaptureInv'
  BY <1>2, RecordKeeps
<1>3. CASE RecordTallyOnly
  BY <1>3, TallyKeeps
<1>4. ASSUME NEW f \in Flushes, FlushOnce(f) \/ TimerFires(f) \/ DiskStep(f) PROVE CaptureInv'
  <2>1. CASE FlushOnce(f)
    BY <2>1, FlushOnceKeeps
  <2>2. CASE TimerFires(f)
    BY <2>2, TimerKeeps
  <2>3. CASE DiskStep(f)
    BY <2>3, SweepKeeps, WriteKeeps DEF DiskStep
  <2> QED BY <1>4, <2>1, <2>2, <2>3
<1>5. ASSUME NEW on \in BOOLEAN, SetTimer(on) PROVE CaptureInv'
  <2>1. lnow' = lnow /\ UNCHANGED <<tallied, scopes, rings, flush, inFlight, files, named, gone>>
    BY <1>5 DEF SetTimer
  <2> QED BY <2>1, IdleLog DEF CaptureInv
<1>6. CASE AdminSweep
  BY <1>6, AdminSweepKeeps
<1>7. CASE LogTick
  <2>1. lnow' = lnow + 1 /\ UNCHANGED <<tallied, scopes, rings, flush, inFlight, files, named, gone>>
    BY <1>7 DEF LogTick
  <2>2. lnow' \in Int
    BY <2>1 DEF CaptureInv
  <2> QED BY <2>1, <2>2, IdleLog
<1> QED BY <1>1, <1>2, <1>3, <1>4, <1>5, <1>6, <1>7 DEF LogNext

LEMMA CaptureSafe == CaptureInv => EventsAccounted /\ TimerFlushesAlone /\ LogTypeOK
<1> SUFFICES ASSUME CaptureInv PROVE EventsAccounted /\ TimerFlushesAlone /\ LogTypeOK
  OBVIOUS
<1>1. EventsAccounted
  BY Accounted DEF CaptureInv
<1>2. TimerFlushesAlone
  <2> DEFINE mine == {f \in Flushes : flush[f].by = "timer"}
  <2>1. (\A f, g \in mine : f = g) /\ (inFlight <=> mine # {})
    BY DEF CaptureInv, TimerAlone
  <2>2. Cardinality(mine) <= 1
    <3>1. CASE mine = {}
      BY <3>1, FS_EmptySet
    <3>2. CASE mine # {}
      <4>1. PICK f : mine = {f}
        BY <2>1, <3>2
      <4> QED BY <4>1, FS_Singleton
    <3> QED BY <3>1, <3>2
  <2> QED BY <2>1, <2>2 DEF TimerFlushesAlone
<1>3. LogTypeOK
  BY DEF CaptureInv, RingsTyped, FlushesTyped, FlushType, LogTypeOK
<1> QED BY <1>1, <1>2, <1>3

LogSpec == LogInit /\ [][LogNext]_logVars
LEMMA CaptureHolds == LogSpec => [](EventsAccounted /\ TimerFlushesAlone /\ LogTypeOK)
BY CaptureInitial, CaptureKeeps, CaptureSafe, PTL DEF LogSpec

----------------------------------------------------------------------------
(* The whole admission layer *)

\* A step is a step of the subject's part, and leaves the others as they are.
LEMMA EachPart ==
    /\ [Next]_admissionVars => [UnifiedNext]_unifiedVars
    /\ [Next]_admissionVars => [BudgetNext]_budgetVars
    /\ [Next]_admissionVars => [LeaseNext \/ MeterNext]_doorVars
    /\ [Next]_admissionVars => [FleetNext]_fleetVars
<1>1. UNCHANGED admissionVars => UNCHANGED unifiedVars /\ UNCHANGED budgetVars /\ UNCHANGED serverVars
  BY DEF admissionVars
<1>2. UNCHANGED serverVars => UNCHANGED doorVars /\ UNCHANGED fleetVars
  BY DEF serverVars
<1>3. Next => \/ UnifiedNext /\ UNCHANGED budgetVars /\ UNCHANGED serverVars
              \/ BudgetNext /\ UNCHANGED unifiedVars /\ UNCHANGED serverVars
              \/ (LeaseNext \/ MeterNext) /\ UNCHANGED unifiedVars /\ UNCHANGED budgetVars /\ UNCHANGED fleetVars
              \/ UNCHANGED unifiedVars /\ UNCHANGED budgetVars /\ UNCHANGED doorVars /\ UNCHANGED fleetVars
              \/ FleetNext /\ UNCHANGED unifiedVars /\ UNCHANGED budgetVars /\ UNCHANGED doorVars
  <2> SUFFICES ASSUME Next
               PROVE  \/ UnifiedNext /\ UNCHANGED budgetVars /\ UNCHANGED serverVars
                      \/ BudgetNext /\ UNCHANGED unifiedVars /\ UNCHANGED serverVars
                      \/ (LeaseNext \/ MeterNext) /\ UNCHANGED unifiedVars /\ UNCHANGED budgetVars /\ UNCHANGED fleetVars
                      \/ UNCHANGED unifiedVars /\ UNCHANGED budgetVars /\ UNCHANGED doorVars /\ UNCHANGED fleetVars
                      \/ FleetNext /\ UNCHANGED unifiedVars /\ UNCHANGED budgetVars /\ UNCHANGED doorVars
    OBVIOUS
  <2>1. CASE UnifiedNext /\ UNCHANGED <<budgetVars, serverVars>>
    BY <2>1
  <2>2. CASE BudgetNext /\ UNCHANGED <<unifiedVars, serverVars>>
    BY <2>2
  <2>3. CASE (LeaseNext \/ MeterNext) /\ UNCHANGED <<unifiedVars, budgetVars, logVars, fleetVars>>
    BY <2>3
  <2>4. CASE UNCHANGED <<unifiedVars, budgetVars, doorVars, fleetVars>>
    BY <2>4
  <2>5. CASE FleetNext /\ UNCHANGED <<unifiedVars, budgetVars, doorVars, logVars>>
    BY <2>5
  <2> QED BY <2>1, <2>2, <2>3, <2>4, <2>5 DEF Next
<1>4. [Next]_admissionVars => Next \/ UNCHANGED admissionVars
  OBVIOUS
<1> QED BY <1>1, <1>2, <1>3, <1>4, Zenon

LEMMA PartsOfSpec == Spec => UnifiedSpec /\ BudgetSpec /\ LeaseSpec /\ FleetSpec
<1>1. Init => UnifiedInit /\ BudgetInit /\ DoorInit /\ FleetInit
  BY DEF Init
<1> QED BY <1>1, EachPart, PTL DEF Spec, UnifiedSpec, BudgetSpec, LeaseSpec, FleetSpec

LEMMA CapturePart == [Next]_admissionVars => [LogNext]_logVars
<1>1. UNCHANGED admissionVars => UNCHANGED logVars
  BY DEF admissionVars, serverVars
<1>2. Next => LogNext \/ UNCHANGED logVars
  <2>1. UNCHANGED serverVars => UNCHANGED logVars
    BY DEF serverVars
  <2> QED BY <2>1 DEF Next
<1> QED BY <1>1, <1>2

\* SlotsHeldOnce, whatever admits interleave: in the process every slot counted is held by a call that is
\* under way or admitted, and goes back once; behind the door a slot is out exactly as long as its admit
\* is under way or its lease stands in the table (unified.ts, service.ts: acquire, release, reclaim).
THEOREM SlotsSettle == Spec => []SlotsHeldOnce
<1>1. (SlotsConserved /\ inflight \in 0..ConcLimit) /\ UnifiedTypeOK
      /\ (LeasesOwnSlots /\ DoorTypeOK /\ MetersSurviveEviction) => SlotsHeldOnce
  BY DEF SlotsHeldOnce
<1> QED BY <1>1, PartsOfSpec, SlotsCounted, UnifiedTypes, DoorHolds, PTL

\* VerdictsAreOwn: a verdict is made of the answers the call itself heard (unified.ts, the sequence of the
\* axes and the short circuits).
THEOREM OwnVerdicts == Spec => []VerdictsAreOwn
BY PartsOfSpec, VerdictsOwn, PTL

\* DeadlineKept: the sweep of the door takes no lease before the deadline its client was told last
\* (service.ts, the heartbeat and the reclaim timer).
THEOREM DeadlinesStand == Spec => DeadlineKept
BY PartsOfSpec, DoorHolds, PTL

\* BudgetsHold: what the tenants hold adds up and stays within the limit, the token meter and its stored
\* row agree and cross the budget by less than a debit, a backend that accepts everything is never shed,
\* the door's meters charge at most a budget per life, and the clients of a fleet spend what they were
\* granted and, when replies are prompt, the limit of a window (admission/index.ts, service.ts,
\* twotier/lease-spender.ts).
THEOREM BudgetsStand == Spec => []BudgetsHold
<1>1. (SharesAddUp /\ MetersAgree /\ HealthyNeverShed /\ BudgetTypeOK)
      /\ (LeasesOwnSlots /\ DoorTypeOK /\ MetersSurviveEviction)
      /\ (SpendsCovered /\ FleetTypeOK) => BudgetsHold
  BY DEF BudgetsHold
<1> QED BY <1>1, PartsOfSpec, BudgetsSound, DoorHolds, FleetHolds, PTL

\* CaptureSound: every decision tallied is in a ring, in the batch of a flush, in a file, or known to have
\* been excluded, evicted, lost with a failed write or purged; and the timer flushes alone (recorder.ts
\* record and drain, the flush loop and its flag, store.ts sweep and write).
THEOREM CaptureAccounts == Spec => []CaptureSound
<1>1. Spec => LogSpec
  <2>1. Init => LogInit
    BY DEF Init
  <2> QED BY <2>1, CapturePart, PTL DEF Spec, LogSpec
<1>2. EventsAccounted /\ TimerFlushesAlone /\ LogTypeOK => CaptureSound
  BY DEF CaptureSound
<1> QED BY <1>1, <1>2, CaptureHolds, PTL
=============================================================================
