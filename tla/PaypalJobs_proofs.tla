------------------------- MODULE PaypalJobs_proofs -------------------------
(***************************************************************************)
(* The type invariant and the safety properties of PaypalJobs, for any     *)
(* agreements, tokens and number of slots.                                 *)
(***************************************************************************)
EXTENDS PaypalJobs, FiniteSetTheorems, TLAPS

JobType ==
  [status : ActiveStatuses \cup FinalStatuses \cup {"none"},
   cancel : BOOLEAN, slot : BOOLEAN, good : BOOLEAN,
   at : {"none", "start", "want", "mark", "prepare", "resume", "flow", "ask",
         "await", "judge", "raised", "finish", "fail", "leave", "done"},
   prompts : 0..MaxPrompts, inputs : 0..MaxInputs]

Typed ==
  agr \in [Agreements -> JobType] /\ slots \in Nat /\ dropping \subseteq Agreements

\* What the status, the cancel event and the slot of a job say of its thread.
JobOK(r) ==
  /\ r.at = "none" => r.status = "none"
  /\ r.cancel => r.status \in FinalStatuses
  /\ r.at \in {"start", "want", "mark", "prepare", "resume", "flow", "ask", "await"} =>
       r.cancel \/ r.status \in ActiveStatuses
  /\ r.at \in {"leave", "done"} => r.status \in FinalStatuses
  /\ r.status = "running" => r.slot
  /\ r.at \in {"prepare", "resume"} => r.slot \/ r.cancel
  /\ r.at = "ask" => r.status # "running"
  /\ r.at \in {"none", "start", "want", "mark", "await", "done"} => ~r.slot

\* A slot is out when a job holds it or has just taken it.
Holds(j) == agr[j].slot \/ ThreadAt(j, "mark")
Holders  == {j \in Agreements : Holds(j)}

Balance == slots + Cardinality(Holders) = MaxActiveJobs

AgreementsInv ==
  /\ Typed
  /\ \A j \in Agreements : JobOK(agr[j])
  /\ \A j \in dropping : agr[j].cancel
  /\ OneJobPerAgreement
  /\ Balance

-----------------------------------------------------------------------------

\* A step of one job: it keeps its record in order, never becomes active again,
\* and takes a slot from the free ones or gives one back.
JobStep(j) ==
  /\ agr' \in [Agreements -> JobType]
  /\ \A k \in Agreements : k # j => agr'[k] = agr[k]
  /\ JobOK(agr'[j])
  /\ agr[j].cancel => agr'[j].cancel
  /\ agr'[j].status \in ActiveStatuses => agr[j].status \in ActiveStatuses
  /\ \/ (Holds(j)' <=> Holds(j)) /\ slots' = slots
     \/ ~Holds(j) /\ Holds(j)' /\ slots > 0 /\ slots' = slots - 1
     \/ Holds(j) /\ ~Holds(j)' /\ slots' = slots + 1

LEMMA JobFacts ==
  ASSUME AgreementsInv, NEW j \in Agreements
  PROVE  agr \in [Agreements -> JobType] /\ agr[j] \in JobType /\ JobOK(agr[j]) /\ slots \in Nat
BY DEF AgreementsInv, Typed

LEMMA CancelsJobStep ==
  ASSUME AgreementsInv, AgreementsAssumption, NEW j \in Agreements, CancelsJob(j)
  PROVE  JobStep(j)
<1>1. /\ agr \in [Agreements -> JobType] /\ agr[j] \in JobType
      /\ JobOK(agr[j]) /\ slots \in Nat
  BY JobFacts
<1>2. ASSUME agr' = [agr EXCEPT ![j] = Cancelled(agr[j])], Active(j), UNCHANGED slots
      PROVE  JobStep(j)
  <2>1. /\ agr' \in [Agreements -> JobType]
        /\ \A k \in Agreements : k # j => agr'[k] = agr[k]
    BY <1>1, <1>2, AgreementsAssumption DEF JobType, Cancelled, Active, ActiveStatuses, FinalStatuses
  <2>2. /\ agr'[j].at = agr[j].at /\ agr'[j].status = "cancelled"
        /\ agr'[j].cancel = TRUE /\ agr'[j].slot = agr[j].slot
    BY <1>1, <1>2 DEF JobType, Cancelled, Active, ActiveStatuses, FinalStatuses
  <2>3. JobOK(agr'[j])
    BY <1>1, <1>2, <2>2 DEF JobOK, JobType, ActiveStatuses, FinalStatuses, StatusSet, ThreadAt, Active
  <2>4. /\ agr[j].cancel => agr'[j].cancel
        /\ agr'[j].status \in ActiveStatuses => agr[j].status \in ActiveStatuses
    BY <1>1, <1>2, <2>2 DEF JobOK, JobType, ActiveStatuses, FinalStatuses, StatusSet, ThreadAt, Active
  <2>5. \/ (Holds(j)' <=> Holds(j)) /\ slots' = slots
        \/ ~Holds(j) /\ Holds(j)' /\ slots > 0 /\ slots' = slots - 1
        \/ Holds(j) /\ ~Holds(j)' /\ slots' = slots + 1
    BY <1>1, <1>2, <2>2 DEF Holds, JobOK, ThreadAt, SlotsAfter
  <2> QED BY <2>1, <2>2, <2>3, <2>4, <2>5 DEF JobStep
<1> QED BY <1>2 DEF CancelsJob, Moves, MovesAs

LEMMA DropsSlotStep ==
  ASSUME AgreementsInv, AgreementsAssumption, NEW j \in Agreements, DropsSlot(j)
  PROVE  JobStep(j)
<1>1. /\ agr \in [Agreements -> JobType] /\ agr[j] \in JobType
      /\ JobOK(agr[j]) /\ slots \in Nat
  BY JobFacts
<1>2. ASSUME agr' = [agr EXCEPT ![j].slot = FALSE], agr[j].cancel, slots' = SlotsAfter(j)
      PROVE  JobStep(j)
  <2>1. /\ agr' \in [Agreements -> JobType]
        /\ \A k \in Agreements : k # j => agr'[k] = agr[k]
    BY <1>1, <1>2, AgreementsAssumption DEF JobType, SlotsAfter
  <2>2. /\ agr'[j].at = agr[j].at /\ agr'[j].status = agr[j].status
        /\ agr'[j].cancel = agr[j].cancel /\ agr'[j].slot = FALSE
    BY <1>1, <1>2 DEF JobType, SlotsAfter
  <2>3. JobOK(agr'[j])
    BY <1>1, <1>2, <2>2 DEF JobOK, JobType, ActiveStatuses, FinalStatuses, StatusSet, ThreadAt
  <2>4. /\ agr[j].cancel => agr'[j].cancel
        /\ agr'[j].status \in ActiveStatuses => agr[j].status \in ActiveStatuses
    BY <1>1, <1>2, <2>2 DEF JobOK, JobType, ActiveStatuses, FinalStatuses, StatusSet, ThreadAt
  <2>5. \/ (Holds(j)' <=> Holds(j)) /\ slots' = slots
        \/ ~Holds(j) /\ Holds(j)' /\ slots > 0 /\ slots' = slots - 1
        \/ Holds(j) /\ ~Holds(j)' /\ slots' = slots + 1
    BY <1>1, <1>2, <2>2 DEF Holds, JobOK, ThreadAt, SlotsAfter
  <2> QED BY <2>1, <2>2, <2>3, <2>4, <2>5 DEF JobStep
<1> QED BY <1>2 DEF DropsSlot, Moves, MovesAs, AgreementsInv

LEMMA SubmitsInputStep ==
  ASSUME AgreementsInv, AgreementsAssumption, NEW j \in Agreements, SubmitsInput(j)
  PROVE  JobStep(j)
<1>1. /\ agr \in [Agreements -> JobType] /\ agr[j] \in JobType
      /\ JobOK(agr[j]) /\ slots \in Nat
  BY JobFacts
<1>2. ASSUME agr[j].status = "awaiting_otp", agr[j].inputs < MaxInputs,
             agr' = [agr EXCEPT ![j].inputs = @ + 1], UNCHANGED slots
      PROVE  JobStep(j)
  <2>1. /\ agr' \in [Agreements -> JobType]
        /\ \A k \in Agreements : k # j => agr'[k] = agr[k]
    BY <1>1, <1>2, AgreementsAssumption DEF JobType, ActiveStatuses
  <2>2. /\ agr'[j].at = agr[j].at /\ agr'[j].status = agr[j].status
        /\ agr'[j].cancel = agr[j].cancel /\ agr'[j].slot = agr[j].slot
    BY <1>1, <1>2 DEF JobType, ActiveStatuses
  <2>3. JobOK(agr'[j])
    BY <1>1, <1>2, <2>2 DEF JobOK, JobType, ActiveStatuses, FinalStatuses, StatusSet, ThreadAt
  <2>4. /\ agr[j].cancel => agr'[j].cancel
        /\ agr'[j].status \in ActiveStatuses => agr[j].status \in ActiveStatuses
    BY <1>1, <1>2, <2>2 DEF JobOK, JobType, ActiveStatuses, FinalStatuses, StatusSet, ThreadAt
  <2>5. \/ (Holds(j)' <=> Holds(j)) /\ slots' = slots
        \/ ~Holds(j) /\ Holds(j)' /\ slots > 0 /\ slots' = slots - 1
        \/ Holds(j) /\ ~Holds(j)' /\ slots' = slots + 1
    BY <1>1, <1>2, <2>2 DEF Holds, JobOK, ThreadAt, SlotsAfter
  <2> QED BY <2>1, <2>2, <2>3, <2>4, <2>5 DEF JobStep
<1> QED BY <1>2 DEF SubmitsInput, Moves, MovesAs

LEMMA QueuesUpStep ==
  ASSUME AgreementsInv, AgreementsAssumption, NEW j \in Agreements, QueuesUp(j)
  PROVE  JobStep(j)
<1>1. /\ agr \in [Agreements -> JobType] /\ agr[j] \in JobType
      /\ JobOK(agr[j]) /\ slots \in Nat
  BY JobFacts
<1>2. ASSUME ThreadAt(j, "start"), UNCHANGED slots,
             agr' = [agr EXCEPT ![j].at = "want", ![j].status = StatusSet(j, "queued")]
      PROVE  JobStep(j)
  <2>1. /\ agr' \in [Agreements -> JobType]
        /\ \A k \in Agreements : k # j => agr'[k] = agr[k]
    BY <1>1, <1>2, AgreementsAssumption DEF JobType, StatusSet, ActiveStatuses
  <2>2. /\ agr'[j].at = "want" /\ agr'[j].status = StatusSet(j, "queued")
        /\ agr'[j].cancel = agr[j].cancel /\ agr'[j].slot = agr[j].slot
    BY <1>1, <1>2 DEF JobType, StatusSet, ActiveStatuses
  <2>3. JobOK(agr'[j])
    BY <1>1, <1>2, <2>2 DEF JobOK, JobType, ActiveStatuses, FinalStatuses, StatusSet, ThreadAt
  <2>4. /\ agr[j].cancel => agr'[j].cancel
        /\ agr'[j].status \in ActiveStatuses => agr[j].status \in ActiveStatuses
    BY <1>1, <1>2, <2>2 DEF JobOK, JobType, ActiveStatuses, FinalStatuses, StatusSet, ThreadAt
  <2>5. \/ (Holds(j)' <=> Holds(j)) /\ slots' = slots
        \/ ~Holds(j) /\ Holds(j)' /\ slots > 0 /\ slots' = slots - 1
        \/ Holds(j) /\ ~Holds(j)' /\ slots' = slots + 1
    BY <1>1, <1>2, <2>2 DEF Holds, JobOK, ThreadAt, SlotsAfter
  <2> QED BY <2>1, <2>2, <2>3, <2>4, <2>5 DEF JobStep
<1> QED BY <1>2 DEF QueuesUp, Moves, MovesAs

LEMMA TakesSlotStep ==
  ASSUME AgreementsInv, AgreementsAssumption, NEW j \in Agreements, TakesSlot(j)
  PROVE  JobStep(j)
<1>1. /\ agr \in [Agreements -> JobType] /\ agr[j] \in JobType
      /\ JobOK(agr[j]) /\ slots \in Nat
  BY JobFacts
<1>2. ASSUME ThreadAt(j, "want"), agr[j].cancel, UNCHANGED slots,
             agr' = [agr EXCEPT ![j].at = "raised"]
      PROVE  JobStep(j)
  <2>1. /\ agr' \in [Agreements -> JobType]
        /\ \A k \in Agreements : k # j => agr'[k] = agr[k]
    BY <1>1, <1>2, AgreementsAssumption DEF JobType, ThreadAt
  <2>2. /\ agr'[j].at = "raised" /\ agr'[j].status = agr[j].status
        /\ agr'[j].cancel = agr[j].cancel /\ agr'[j].slot = agr[j].slot
    BY <1>1, <1>2 DEF JobType, ThreadAt
  <2>3. JobOK(agr'[j])
    BY <1>1, <1>2, <2>2 DEF JobOK, JobType, ActiveStatuses, FinalStatuses, StatusSet, ThreadAt
  <2>4. /\ agr[j].cancel => agr'[j].cancel
        /\ agr'[j].status \in ActiveStatuses => agr[j].status \in ActiveStatuses
    BY <1>1, <1>2, <2>2 DEF JobOK, JobType, ActiveStatuses, FinalStatuses, StatusSet, ThreadAt
  <2>5. \/ (Holds(j)' <=> Holds(j)) /\ slots' = slots
        \/ ~Holds(j) /\ Holds(j)' /\ slots > 0 /\ slots' = slots - 1
        \/ Holds(j) /\ ~Holds(j)' /\ slots' = slots + 1
    BY <1>1, <1>2, <2>2 DEF Holds, JobOK, ThreadAt, SlotsAfter
  <2> QED BY <2>1, <2>2, <2>3, <2>4, <2>5 DEF JobStep
<1>3. ASSUME ThreadAt(j, "want"), slots > 0, slots' = slots - 1,
             agr' = [agr EXCEPT ![j].at = "mark"]
      PROVE  JobStep(j)
  <2>1. /\ agr' \in [Agreements -> JobType]
        /\ \A k \in Agreements : k # j => agr'[k] = agr[k]
    BY <1>1, <1>3, AgreementsAssumption DEF JobType, ThreadAt
  <2>2. /\ agr'[j].at = "mark" /\ agr'[j].status = agr[j].status
        /\ agr'[j].cancel = agr[j].cancel /\ agr'[j].slot = agr[j].slot
    BY <1>1, <1>3 DEF JobType, ThreadAt
  <2>3. JobOK(agr'[j])
    BY <1>1, <1>3, <2>2 DEF JobOK, JobType, ActiveStatuses, FinalStatuses, StatusSet, ThreadAt
  <2>4. /\ agr[j].cancel => agr'[j].cancel
        /\ agr'[j].status \in ActiveStatuses => agr[j].status \in ActiveStatuses
    BY <1>1, <1>3, <2>2 DEF JobOK, JobType, ActiveStatuses, FinalStatuses, StatusSet, ThreadAt
  <2>5. \/ (Holds(j)' <=> Holds(j)) /\ slots' = slots
        \/ ~Holds(j) /\ Holds(j)' /\ slots > 0 /\ slots' = slots - 1
        \/ Holds(j) /\ ~Holds(j)' /\ slots' = slots + 1
    BY <1>1, <1>3, <2>2 DEF Holds, JobOK, ThreadAt, SlotsAfter
  <2> QED BY <2>1, <2>2, <2>3, <2>4, <2>5 DEF JobStep
<1> QED BY <1>2, <1>3 DEF TakesSlot, Moves, MovesAs

LEMMA MarksSlotStep ==
  ASSUME AgreementsInv, AgreementsAssumption, NEW j \in Agreements, MarksSlot(j)
  PROVE  JobStep(j)
<1>1. /\ agr \in [Agreements -> JobType] /\ agr[j] \in JobType
      /\ JobOK(agr[j]) /\ slots \in Nat
  BY JobFacts
<1>2. ASSUME ThreadAt(j, "mark"), agr[j].cancel, slots' = slots + 1,
             agr' = [agr EXCEPT ![j].at = "raised"]
      PROVE  JobStep(j)
  <2>1. /\ agr' \in [Agreements -> JobType]
        /\ \A k \in Agreements : k # j => agr'[k] = agr[k]
    BY <1>1, <1>2, AgreementsAssumption DEF JobType, ThreadAt
  <2>2. /\ agr'[j].at = "raised" /\ agr'[j].status = agr[j].status
        /\ agr'[j].cancel = agr[j].cancel /\ agr'[j].slot = agr[j].slot
    BY <1>1, <1>2 DEF JobType, ThreadAt
  <2>3. JobOK(agr'[j])
    BY <1>1, <1>2, <2>2 DEF JobOK, JobType, ActiveStatuses, FinalStatuses, StatusSet, ThreadAt
  <2>4. /\ agr[j].cancel => agr'[j].cancel
        /\ agr'[j].status \in ActiveStatuses => agr[j].status \in ActiveStatuses
    BY <1>1, <1>2, <2>2 DEF JobOK, JobType, ActiveStatuses, FinalStatuses, StatusSet, ThreadAt
  <2>5. \/ (Holds(j)' <=> Holds(j)) /\ slots' = slots
        \/ ~Holds(j) /\ Holds(j)' /\ slots > 0 /\ slots' = slots - 1
        \/ Holds(j) /\ ~Holds(j)' /\ slots' = slots + 1
    BY <1>1, <1>2, <2>2 DEF Holds, JobOK, ThreadAt, SlotsAfter
  <2> QED BY <2>1, <2>2, <2>3, <2>4, <2>5 DEF JobStep
<1>3. ASSUME ThreadAt(j, "mark"), ~agr[j].cancel, UNCHANGED slots, NEW s \in {"resume", "prepare"},
             agr' = [agr EXCEPT ![j].slot = TRUE, ![j].at = s]
      PROVE  JobStep(j)
  <2>1. /\ agr' \in [Agreements -> JobType]
        /\ \A k \in Agreements : k # j => agr'[k] = agr[k]
    BY <1>1, <1>3, AgreementsAssumption DEF JobType, ThreadAt
  <2>2. /\ agr'[j].at = s /\ agr'[j].status = agr[j].status
        /\ agr'[j].cancel = agr[j].cancel /\ agr'[j].slot = TRUE
    BY <1>1, <1>3 DEF JobType, ThreadAt
  <2>3. JobOK(agr'[j])
    BY <1>1, <1>3, <2>2 DEF JobOK, JobType, ActiveStatuses, FinalStatuses, StatusSet, ThreadAt
  <2>4. /\ agr[j].cancel => agr'[j].cancel
        /\ agr'[j].status \in ActiveStatuses => agr[j].status \in ActiveStatuses
    BY <1>1, <1>3, <2>2 DEF JobOK, JobType, ActiveStatuses, FinalStatuses, StatusSet, ThreadAt
  <2>5. \/ (Holds(j)' <=> Holds(j)) /\ slots' = slots
        \/ ~Holds(j) /\ Holds(j)' /\ slots > 0 /\ slots' = slots - 1
        \/ Holds(j) /\ ~Holds(j)' /\ slots' = slots + 1
    BY <1>1, <1>3, <2>2 DEF Holds, JobOK, ThreadAt, SlotsAfter
  <2> QED BY <2>1, <2>2, <2>3, <2>4, <2>5 DEF JobStep
<1> QED BY <1>2, <1>3 DEF MarksSlot, Moves, MovesAs

LEMMA RunsWithSlotStep ==
  ASSUME AgreementsInv, AgreementsAssumption, NEW j \in Agreements, RunsWithSlot(j)
  PROVE  JobStep(j)
<1>1. /\ agr \in [Agreements -> JobType] /\ agr[j] \in JobType
      /\ JobOK(agr[j]) /\ slots \in Nat
  BY JobFacts
<1>2. ASSUME agr[j].at \in {"prepare", "resume"}, agr[j].cancel, UNCHANGED slots,
             agr' = [agr EXCEPT ![j].at = "raised"]
      PROVE  JobStep(j)
  <2>1. /\ agr' \in [Agreements -> JobType]
        /\ \A k \in Agreements : k # j => agr'[k] = agr[k]
    BY <1>1, <1>2, AgreementsAssumption DEF JobType, ThreadAt
  <2>2. /\ agr'[j].at = "raised" /\ agr'[j].status = agr[j].status
        /\ agr'[j].cancel = agr[j].cancel /\ agr'[j].slot = agr[j].slot
    BY <1>1, <1>2 DEF JobType, ThreadAt
  <2>3. JobOK(agr'[j])
    BY <1>1, <1>2, <2>2 DEF JobOK, JobType, ActiveStatuses, FinalStatuses, StatusSet, ThreadAt
  <2>4. /\ agr[j].cancel => agr'[j].cancel
        /\ agr'[j].status \in ActiveStatuses => agr[j].status \in ActiveStatuses
    BY <1>1, <1>2, <2>2 DEF JobOK, JobType, ActiveStatuses, FinalStatuses, StatusSet, ThreadAt
  <2>5. \/ (Holds(j)' <=> Holds(j)) /\ slots' = slots
        \/ ~Holds(j) /\ Holds(j)' /\ slots > 0 /\ slots' = slots - 1
        \/ Holds(j) /\ ~Holds(j)' /\ slots' = slots + 1
    BY <1>1, <1>2, <2>2 DEF Holds, JobOK, ThreadAt, SlotsAfter
  <2> QED BY <2>1, <2>2, <2>3, <2>4, <2>5 DEF JobStep
<1>3. ASSUME agr[j].at \in {"prepare", "resume"}, ~agr[j].cancel, UNCHANGED slots,
             agr' = [agr EXCEPT ![j].at = "flow", ![j].status = "running"]
      PROVE  JobStep(j)
  <2>1. /\ agr' \in [Agreements -> JobType]
        /\ \A k \in Agreements : k # j => agr'[k] = agr[k]
    BY <1>1, <1>3, AgreementsAssumption DEF JobType, ActiveStatuses
  <2>2. /\ agr'[j].at = "flow" /\ agr'[j].status = "running"
        /\ agr'[j].cancel = agr[j].cancel /\ agr'[j].slot = agr[j].slot
    BY <1>1, <1>3 DEF JobType, ActiveStatuses
  <2>3. JobOK(agr'[j])
    BY <1>1, <1>3, <2>2 DEF JobOK, JobType, ActiveStatuses, FinalStatuses, StatusSet, ThreadAt
  <2>4. /\ agr[j].cancel => agr'[j].cancel
        /\ agr'[j].status \in ActiveStatuses => agr[j].status \in ActiveStatuses
    BY <1>1, <1>3, <2>2 DEF JobOK, JobType, ActiveStatuses, FinalStatuses, StatusSet, ThreadAt
  <2>5. \/ (Holds(j)' <=> Holds(j)) /\ slots' = slots
        \/ ~Holds(j) /\ Holds(j)' /\ slots > 0 /\ slots' = slots - 1
        \/ Holds(j) /\ ~Holds(j)' /\ slots' = slots + 1
    BY <1>1, <1>3, <2>2 DEF Holds, JobOK, ThreadAt, SlotsAfter
  <2> QED BY <2>1, <2>2, <2>3, <2>4, <2>5 DEF JobStep
<1> QED BY <1>2, <1>3 DEF RunsWithSlot, Moves, MovesAs

LEMMA FlowRaisesStep ==
  ASSUME AgreementsInv, AgreementsAssumption, NEW j \in Agreements, FlowRaises(j)
  PROVE  JobStep(j)
<1>1. /\ agr \in [Agreements -> JobType] /\ agr[j] \in JobType
      /\ JobOK(agr[j]) /\ slots \in Nat
  BY JobFacts
<1>2. ASSUME ThreadAt(j, "flow"), UNCHANGED slots,
             agr' = [agr EXCEPT ![j].at = "raised"]
      PROVE  JobStep(j)
  <2>1. /\ agr' \in [Agreements -> JobType]
        /\ \A k \in Agreements : k # j => agr'[k] = agr[k]
    BY <1>1, <1>2, AgreementsAssumption DEF JobType, ThreadAt
  <2>2. /\ agr'[j].at = "raised" /\ agr'[j].status = agr[j].status
        /\ agr'[j].cancel = agr[j].cancel /\ agr'[j].slot = agr[j].slot
    BY <1>1, <1>2 DEF JobType, ThreadAt
  <2>3. JobOK(agr'[j])
    BY <1>1, <1>2, <2>2 DEF JobOK, JobType, ActiveStatuses, FinalStatuses, StatusSet, ThreadAt
  <2>4. /\ agr[j].cancel => agr'[j].cancel
        /\ agr'[j].status \in ActiveStatuses => agr[j].status \in ActiveStatuses
    BY <1>1, <1>2, <2>2 DEF JobOK, JobType, ActiveStatuses, FinalStatuses, StatusSet, ThreadAt
  <2>5. \/ (Holds(j)' <=> Holds(j)) /\ slots' = slots
        \/ ~Holds(j) /\ Holds(j)' /\ slots > 0 /\ slots' = slots - 1
        \/ Holds(j) /\ ~Holds(j)' /\ slots' = slots + 1
    BY <1>1, <1>2, <2>2 DEF Holds, JobOK, ThreadAt, SlotsAfter
  <2> QED BY <2>1, <2>2, <2>3, <2>4, <2>5 DEF JobStep
<1> QED BY <1>2 DEF FlowRaises, Moves, MovesAs

LEMMA AsksInputStep ==
  ASSUME AgreementsInv, AgreementsAssumption, NEW j \in Agreements, AsksInput(j)
  PROVE  JobStep(j)
<1>1. /\ agr \in [Agreements -> JobType] /\ agr[j] \in JobType
      /\ JobOK(agr[j]) /\ slots \in Nat
  BY JobFacts
<1>2. ASSUME ThreadAt(j, "flow"), UNCHANGED slots,
             agr' = [agr EXCEPT ![j].at = "raised"]
      PROVE  JobStep(j)
  <2>1. /\ agr' \in [Agreements -> JobType]
        /\ \A k \in Agreements : k # j => agr'[k] = agr[k]
    BY <1>1, <1>2, AgreementsAssumption DEF JobType, ThreadAt
  <2>2. /\ agr'[j].at = "raised" /\ agr'[j].status = agr[j].status
        /\ agr'[j].cancel = agr[j].cancel /\ agr'[j].slot = agr[j].slot
    BY <1>1, <1>2 DEF JobType, ThreadAt
  <2>3. JobOK(agr'[j])
    BY <1>1, <1>2, <2>2 DEF JobOK, JobType, ActiveStatuses, FinalStatuses, StatusSet, ThreadAt
  <2>4. /\ agr[j].cancel => agr'[j].cancel
        /\ agr'[j].status \in ActiveStatuses => agr[j].status \in ActiveStatuses
    BY <1>1, <1>2, <2>2 DEF JobOK, JobType, ActiveStatuses, FinalStatuses, StatusSet, ThreadAt
  <2>5. \/ (Holds(j)' <=> Holds(j)) /\ slots' = slots
        \/ ~Holds(j) /\ Holds(j)' /\ slots > 0 /\ slots' = slots - 1
        \/ Holds(j) /\ ~Holds(j)' /\ slots' = slots + 1
    BY <1>1, <1>2, <2>2 DEF Holds, JobOK, ThreadAt, SlotsAfter
  <2> QED BY <2>1, <2>2, <2>3, <2>4, <2>5 DEF JobStep
<1>3. ASSUME ThreadAt(j, "flow"), ~agr[j].cancel, agr[j].prompts < MaxPrompts, UNCHANGED slots,
             agr' = [agr EXCEPT ![j].at = "ask", ![j].status = "awaiting_otp", ![j].prompts = @ + 1]
      PROVE  JobStep(j)
  <2>1. /\ agr' \in [Agreements -> JobType]
        /\ \A k \in Agreements : k # j => agr'[k] = agr[k]
    BY <1>1, <1>3, AgreementsAssumption DEF JobType, ActiveStatuses
  <2>2. /\ agr'[j].at = "ask" /\ agr'[j].status = "awaiting_otp"
        /\ agr'[j].cancel = agr[j].cancel /\ agr'[j].slot = agr[j].slot
    BY <1>1, <1>3 DEF JobType, ActiveStatuses
  <2>3. JobOK(agr'[j])
    BY <1>1, <1>3, <2>2 DEF JobOK, JobType, ActiveStatuses, FinalStatuses, StatusSet, ThreadAt
  <2>4. /\ agr[j].cancel => agr'[j].cancel
        /\ agr'[j].status \in ActiveStatuses => agr[j].status \in ActiveStatuses
    BY <1>1, <1>3, <2>2 DEF JobOK, JobType, ActiveStatuses, FinalStatuses, StatusSet, ThreadAt
  <2>5. \/ (Holds(j)' <=> Holds(j)) /\ slots' = slots
        \/ ~Holds(j) /\ Holds(j)' /\ slots > 0 /\ slots' = slots - 1
        \/ Holds(j) /\ ~Holds(j)' /\ slots' = slots + 1
    BY <1>1, <1>3, <2>2 DEF Holds, JobOK, ThreadAt, SlotsAfter
  <2> QED BY <2>1, <2>2, <2>3, <2>4, <2>5 DEF JobStep
<1> QED BY <1>2, <1>3 DEF AsksInput, Moves, MovesAs

LEMMA LendsSlotStep ==
  ASSUME AgreementsInv, AgreementsAssumption, NEW j \in Agreements, LendsSlot(j)
  PROVE  JobStep(j)
<1>1. /\ agr \in [Agreements -> JobType] /\ agr[j] \in JobType
      /\ JobOK(agr[j]) /\ slots \in Nat
  BY JobFacts
<1>2. ASSUME ThreadAt(j, "ask"), slots' = SlotsAfter(j),
             agr' = [agr EXCEPT ![j].at = "await", ![j].slot = FALSE]
      PROVE  JobStep(j)
  <2>1. /\ agr' \in [Agreements -> JobType]
        /\ \A k \in Agreements : k # j => agr'[k] = agr[k]
    BY <1>1, <1>2, AgreementsAssumption DEF JobType, ThreadAt
  <2>2. /\ agr'[j].at = "await" /\ agr'[j].status = agr[j].status
        /\ agr'[j].cancel = agr[j].cancel /\ agr'[j].slot = FALSE
    BY <1>1, <1>2 DEF JobType, ThreadAt
  <2>3. JobOK(agr'[j])
    BY <1>1, <1>2, <2>2 DEF JobOK, JobType, ActiveStatuses, FinalStatuses, StatusSet, ThreadAt
  <2>4. /\ agr[j].cancel => agr'[j].cancel
        /\ agr'[j].status \in ActiveStatuses => agr[j].status \in ActiveStatuses
    BY <1>1, <1>2, <2>2 DEF JobOK, JobType, ActiveStatuses, FinalStatuses, StatusSet, ThreadAt
  <2>5. \/ (Holds(j)' <=> Holds(j)) /\ slots' = slots
        \/ ~Holds(j) /\ Holds(j)' /\ slots > 0 /\ slots' = slots - 1
        \/ Holds(j) /\ ~Holds(j)' /\ slots' = slots + 1
    BY <1>1, <1>2, <2>2 DEF Holds, JobOK, ThreadAt, SlotsAfter
  <2> QED BY <2>1, <2>2, <2>3, <2>4, <2>5 DEF JobStep
<1> QED BY <1>2 DEF LendsSlot, Moves, MovesAs

LEMMA GetsInputStep ==
  ASSUME AgreementsInv, AgreementsAssumption, NEW j \in Agreements, GetsInput(j)
  PROVE  JobStep(j)
<1>1. /\ agr \in [Agreements -> JobType] /\ agr[j] \in JobType
      /\ JobOK(agr[j]) /\ slots \in Nat
  BY JobFacts
<1>2. ASSUME ThreadAt(j, "await"), agr[j].inputs > 0, UNCHANGED slots, NEW s \in {"raised", "want"},
             agr' = [agr EXCEPT ![j].inputs = @ - 1, ![j].at = s, ![j].status = StatusSet(j, "queued")]
      PROVE  JobStep(j)
  <2>1. /\ agr' \in [Agreements -> JobType]
        /\ \A k \in Agreements : k # j => agr'[k] = agr[k]
    <3>1. /\ agr[j].inputs - 1 \in 0..MaxInputs
          /\ StatusSet(j, "queued") \in ActiveStatuses \cup FinalStatuses \cup {"none"}
          /\ s \in {"want", "raised"}
      BY <1>1, <1>2, AgreementsAssumption DEF JobType, StatusSet, ActiveStatuses
    <3> QED BY <1>1, <1>2, <3>1 DEF JobType
  <2>2. /\ agr'[j].at = s /\ agr'[j].status = StatusSet(j, "queued")
        /\ agr'[j].cancel = agr[j].cancel /\ agr'[j].slot = agr[j].slot
    BY <1>1, <1>2 DEF JobType, StatusSet, ActiveStatuses
  <2>3. JobOK(agr'[j])
    BY <1>1, <1>2, <2>2 DEF JobOK, JobType, ActiveStatuses, FinalStatuses, StatusSet, ThreadAt
  <2>4. /\ agr[j].cancel => agr'[j].cancel
        /\ agr'[j].status \in ActiveStatuses => agr[j].status \in ActiveStatuses
    BY <1>1, <1>2, <2>2 DEF JobOK, JobType, ActiveStatuses, FinalStatuses, StatusSet, ThreadAt
  <2>5. \/ (Holds(j)' <=> Holds(j)) /\ slots' = slots
        \/ ~Holds(j) /\ Holds(j)' /\ slots > 0 /\ slots' = slots - 1
        \/ Holds(j) /\ ~Holds(j)' /\ slots' = slots + 1
    BY <1>1, <1>2, <2>2 DEF Holds, JobOK, ThreadAt, SlotsAfter
  <2> QED BY <2>1, <2>2, <2>3, <2>4, <2>5 DEF JobStep
<1> QED BY <1>2 DEF GetsInput, Moves, MovesAs

LEMMA InputFailsStep ==
  ASSUME AgreementsInv, AgreementsAssumption, NEW j \in Agreements, InputFails(j)
  PROVE  JobStep(j)
<1>1. /\ agr \in [Agreements -> JobType] /\ agr[j] \in JobType
      /\ JobOK(agr[j]) /\ slots \in Nat
  BY JobFacts
<1>2. ASSUME ThreadAt(j, "await"), UNCHANGED slots,
             agr' = [agr EXCEPT ![j].at = "raised"]
      PROVE  JobStep(j)
  <2>1. /\ agr' \in [Agreements -> JobType]
        /\ \A k \in Agreements : k # j => agr'[k] = agr[k]
    BY <1>1, <1>2, AgreementsAssumption DEF JobType, ThreadAt
  <2>2. /\ agr'[j].at = "raised" /\ agr'[j].status = agr[j].status
        /\ agr'[j].cancel = agr[j].cancel /\ agr'[j].slot = agr[j].slot
    BY <1>1, <1>2 DEF JobType, ThreadAt
  <2>3. JobOK(agr'[j])
    BY <1>1, <1>2, <2>2 DEF JobOK, JobType, ActiveStatuses, FinalStatuses, StatusSet, ThreadAt
  <2>4. /\ agr[j].cancel => agr'[j].cancel
        /\ agr'[j].status \in ActiveStatuses => agr[j].status \in ActiveStatuses
    BY <1>1, <1>2, <2>2 DEF JobOK, JobType, ActiveStatuses, FinalStatuses, StatusSet, ThreadAt
  <2>5. \/ (Holds(j)' <=> Holds(j)) /\ slots' = slots
        \/ ~Holds(j) /\ Holds(j)' /\ slots > 0 /\ slots' = slots - 1
        \/ Holds(j) /\ ~Holds(j)' /\ slots' = slots + 1
    BY <1>1, <1>2, <2>2 DEF Holds, JobOK, ThreadAt, SlotsAfter
  <2> QED BY <2>1, <2>2, <2>3, <2>4, <2>5 DEF JobStep
<1> QED BY <1>2 DEF InputFails, Moves, MovesAs

LEMMA FlowReturnsStep ==
  ASSUME AgreementsInv, AgreementsAssumption, NEW j \in Agreements, FlowReturns(j)
  PROVE  JobStep(j)
<1>1. /\ agr \in [Agreements -> JobType] /\ agr[j] \in JobType
      /\ JobOK(agr[j]) /\ slots \in Nat
  BY JobFacts
<1>2. ASSUME ThreadAt(j, "flow"), UNCHANGED slots,
             agr' = [agr EXCEPT ![j].at = "raised"]
      PROVE  JobStep(j)
  <2>1. /\ agr' \in [Agreements -> JobType]
        /\ \A k \in Agreements : k # j => agr'[k] = agr[k]
    BY <1>1, <1>2, AgreementsAssumption DEF JobType, ThreadAt
  <2>2. /\ agr'[j].at = "raised" /\ agr'[j].status = agr[j].status
        /\ agr'[j].cancel = agr[j].cancel /\ agr'[j].slot = agr[j].slot
    BY <1>1, <1>2 DEF JobType, ThreadAt
  <2>3. JobOK(agr'[j])
    BY <1>1, <1>2, <2>2 DEF JobOK, JobType, ActiveStatuses, FinalStatuses, StatusSet, ThreadAt
  <2>4. /\ agr[j].cancel => agr'[j].cancel
        /\ agr'[j].status \in ActiveStatuses => agr[j].status \in ActiveStatuses
    BY <1>1, <1>2, <2>2 DEF JobOK, JobType, ActiveStatuses, FinalStatuses, StatusSet, ThreadAt
  <2>5. \/ (Holds(j)' <=> Holds(j)) /\ slots' = slots
        \/ ~Holds(j) /\ Holds(j)' /\ slots > 0 /\ slots' = slots - 1
        \/ Holds(j) /\ ~Holds(j)' /\ slots' = slots + 1
    BY <1>1, <1>2, <2>2 DEF Holds, JobOK, ThreadAt, SlotsAfter
  <2> QED BY <2>1, <2>2, <2>3, <2>4, <2>5 DEF JobStep
<1>3. ASSUME ThreadAt(j, "flow"), UNCHANGED slots, NEW g \in BOOLEAN,
             agr' = [agr EXCEPT ![j].at = "judge", ![j].good = g]
      PROVE  JobStep(j)
  <2>1. /\ agr' \in [Agreements -> JobType]
        /\ \A k \in Agreements : k # j => agr'[k] = agr[k]
    BY <1>1, <1>3, AgreementsAssumption DEF JobType, ThreadAt
  <2>2. /\ agr'[j].at = "judge" /\ agr'[j].status = agr[j].status
        /\ agr'[j].cancel = agr[j].cancel /\ agr'[j].slot = agr[j].slot
    BY <1>1, <1>3 DEF JobType, ThreadAt
  <2>3. JobOK(agr'[j])
    BY <1>1, <1>3, <2>2 DEF JobOK, JobType, ActiveStatuses, FinalStatuses, StatusSet, ThreadAt
  <2>4. /\ agr[j].cancel => agr'[j].cancel
        /\ agr'[j].status \in ActiveStatuses => agr[j].status \in ActiveStatuses
    BY <1>1, <1>3, <2>2 DEF JobOK, JobType, ActiveStatuses, FinalStatuses, StatusSet, ThreadAt
  <2>5. \/ (Holds(j)' <=> Holds(j)) /\ slots' = slots
        \/ ~Holds(j) /\ Holds(j)' /\ slots > 0 /\ slots' = slots - 1
        \/ Holds(j) /\ ~Holds(j)' /\ slots' = slots + 1
    BY <1>1, <1>3, <2>2 DEF Holds, JobOK, ThreadAt, SlotsAfter
  <2> QED BY <2>1, <2>2, <2>3, <2>4, <2>5 DEF JobStep
<1> QED BY <1>2, <1>3 DEF FlowReturns, Moves, MovesAs

LEMMA LooksForCancelStep ==
  ASSUME AgreementsInv, AgreementsAssumption, NEW j \in Agreements, LooksForCancel(j)
  PROVE  JobStep(j)
<1>1. /\ agr \in [Agreements -> JobType] /\ agr[j] \in JobType
      /\ JobOK(agr[j]) /\ slots \in Nat
  BY JobFacts
<1>2. ASSUME agr[j].at \in {"judge", "raised"}, UNCHANGED slots,
             agr' = [agr EXCEPT ![j].at = "leave", ![j].status = "cancelled"]
      PROVE  JobStep(j)
  <2>1. /\ agr' \in [Agreements -> JobType]
        /\ \A k \in Agreements : k # j => agr'[k] = agr[k]
    BY <1>1, <1>2, AgreementsAssumption DEF JobType, FinalStatuses
  <2>2. /\ agr'[j].at = "leave" /\ agr'[j].status = "cancelled"
        /\ agr'[j].cancel = agr[j].cancel /\ agr'[j].slot = agr[j].slot
    BY <1>1, <1>2 DEF JobType, FinalStatuses
  <2>3. JobOK(agr'[j])
    BY <1>1, <1>2, <2>2 DEF JobOK, JobType, ActiveStatuses, FinalStatuses, StatusSet, ThreadAt
  <2>4. /\ agr[j].cancel => agr'[j].cancel
        /\ agr'[j].status \in ActiveStatuses => agr[j].status \in ActiveStatuses
    BY <1>1, <1>2, <2>2 DEF JobOK, JobType, ActiveStatuses, FinalStatuses, StatusSet, ThreadAt
  <2>5. \/ (Holds(j)' <=> Holds(j)) /\ slots' = slots
        \/ ~Holds(j) /\ Holds(j)' /\ slots > 0 /\ slots' = slots - 1
        \/ Holds(j) /\ ~Holds(j)' /\ slots' = slots + 1
    BY <1>1, <1>2, <2>2 DEF Holds, JobOK, ThreadAt, SlotsAfter
  <2> QED BY <2>1, <2>2, <2>3, <2>4, <2>5 DEF JobStep
<1>3. ASSUME agr[j].at \in {"judge", "raised"}, UNCHANGED slots, NEW s \in {"finish", "fail"},
             agr' = [agr EXCEPT ![j].at = s]
      PROVE  JobStep(j)
  <2>1. /\ agr' \in [Agreements -> JobType]
        /\ \A k \in Agreements : k # j => agr'[k] = agr[k]
    BY <1>1, <1>3, AgreementsAssumption DEF JobType, ThreadAt
  <2>2. /\ agr'[j].at = s /\ agr'[j].status = agr[j].status
        /\ agr'[j].cancel = agr[j].cancel /\ agr'[j].slot = agr[j].slot
    BY <1>1, <1>3 DEF JobType, ThreadAt
  <2>3. JobOK(agr'[j])
    BY <1>1, <1>3, <2>2 DEF JobOK, JobType, ActiveStatuses, FinalStatuses, StatusSet, ThreadAt
  <2>4. /\ agr[j].cancel => agr'[j].cancel
        /\ agr'[j].status \in ActiveStatuses => agr[j].status \in ActiveStatuses
    BY <1>1, <1>3, <2>2 DEF JobOK, JobType, ActiveStatuses, FinalStatuses, StatusSet, ThreadAt
  <2>5. \/ (Holds(j)' <=> Holds(j)) /\ slots' = slots
        \/ ~Holds(j) /\ Holds(j)' /\ slots > 0 /\ slots' = slots - 1
        \/ Holds(j) /\ ~Holds(j)' /\ slots' = slots + 1
    BY <1>1, <1>3, <2>2 DEF Holds, JobOK, ThreadAt, SlotsAfter
  <2> QED BY <2>1, <2>2, <2>3, <2>4, <2>5 DEF JobStep
<1> QED BY <1>2, <1>3 DEF LooksForCancel, Moves, MovesAs

LEMMA WritesEndStep ==
  ASSUME AgreementsInv, AgreementsAssumption, NEW j \in Agreements, WritesEnd(j)
  PROVE  JobStep(j)
<1>1. /\ agr \in [Agreements -> JobType] /\ agr[j] \in JobType
      /\ JobOK(agr[j]) /\ slots \in Nat
  BY JobFacts
<1>2. ASSUME agr[j].at \in {"finish", "fail"}, UNCHANGED slots, NEW s \in {"completed", "failed"},
             agr' = [agr EXCEPT ![j].at = "leave", ![j].status = s]
      PROVE  JobStep(j)
  <2>1. /\ agr' \in [Agreements -> JobType]
        /\ \A k \in Agreements : k # j => agr'[k] = agr[k]
    BY <1>1, <1>2, AgreementsAssumption DEF JobType, FinalStatuses
  <2>2. /\ agr'[j].at = "leave" /\ agr'[j].status = s
        /\ agr'[j].cancel = agr[j].cancel /\ agr'[j].slot = agr[j].slot
    BY <1>1, <1>2 DEF JobType, FinalStatuses
  <2>3. JobOK(agr'[j])
    BY <1>1, <1>2, <2>2 DEF JobOK, JobType, ActiveStatuses, FinalStatuses, StatusSet, ThreadAt
  <2>4. /\ agr[j].cancel => agr'[j].cancel
        /\ agr'[j].status \in ActiveStatuses => agr[j].status \in ActiveStatuses
    BY <1>1, <1>2, <2>2 DEF JobOK, JobType, ActiveStatuses, FinalStatuses, StatusSet, ThreadAt
  <2>5. \/ (Holds(j)' <=> Holds(j)) /\ slots' = slots
        \/ ~Holds(j) /\ Holds(j)' /\ slots > 0 /\ slots' = slots - 1
        \/ Holds(j) /\ ~Holds(j)' /\ slots' = slots + 1
    BY <1>1, <1>2, <2>2 DEF Holds, JobOK, ThreadAt, SlotsAfter
  <2> QED BY <2>1, <2>2, <2>3, <2>4, <2>5 DEF JobStep
<1> QED BY <1>2 DEF WritesEnd, Moves, MovesAs

LEMMA LeavesJobStep ==
  ASSUME AgreementsInv, AgreementsAssumption, NEW j \in Agreements, LeavesJob(j)
  PROVE  JobStep(j)
<1>1. /\ agr \in [Agreements -> JobType] /\ agr[j] \in JobType
      /\ JobOK(agr[j]) /\ slots \in Nat
  BY JobFacts
<1>2. ASSUME ThreadAt(j, "leave"), slots' = SlotsAfter(j),
             agr' = [agr EXCEPT ![j].at = "done", ![j].slot = FALSE]
      PROVE  JobStep(j)
  <2>1. /\ agr' \in [Agreements -> JobType]
        /\ \A k \in Agreements : k # j => agr'[k] = agr[k]
    BY <1>1, <1>2, AgreementsAssumption DEF JobType, ThreadAt
  <2>2. /\ agr'[j].at = "done" /\ agr'[j].status = agr[j].status
        /\ agr'[j].cancel = agr[j].cancel /\ agr'[j].slot = FALSE
    BY <1>1, <1>2 DEF JobType, ThreadAt
  <2>3. JobOK(agr'[j])
    BY <1>1, <1>2, <2>2 DEF JobOK, JobType, ActiveStatuses, FinalStatuses, StatusSet, ThreadAt
  <2>4. /\ agr[j].cancel => agr'[j].cancel
        /\ agr'[j].status \in ActiveStatuses => agr[j].status \in ActiveStatuses
    BY <1>1, <1>2, <2>2 DEF JobOK, JobType, ActiveStatuses, FinalStatuses, StatusSet, ThreadAt
  <2>5. \/ (Holds(j)' <=> Holds(j)) /\ slots' = slots
        \/ ~Holds(j) /\ Holds(j)' /\ slots > 0 /\ slots' = slots - 1
        \/ Holds(j) /\ ~Holds(j)' /\ slots' = slots + 1
    BY <1>1, <1>2, <2>2 DEF Holds, JobOK, ThreadAt, SlotsAfter
  <2> QED BY <2>1, <2>2, <2>3, <2>4, <2>5 DEF JobStep
<1> QED BY <1>2 DEF LeavesJob, Moves, MovesAs


LEMMA HolderFacts ==
  ASSUME AgreementsAssumption
  PROVE  IsFiniteSet(Holders) /\ Cardinality(Holders) \in Nat
<1>1. Holders \in SUBSET Agreements
  BY DEF Holders
<1> QED BY <1>1, FS_Subset, FS_CardinalityType DEF AgreementsAssumption

\* A step of one job keeps the count of the slots.
LEMMA StepBalance ==
  ASSUME AgreementsInv, AgreementsAssumption, NEW j \in Agreements, JobStep(j)
  PROVE  Balance' /\ slots' \in Nat
<1>1. /\ IsFiniteSet(Holders) /\ Cardinality(Holders) \in Nat
      /\ slots \in Nat /\ slots + Cardinality(Holders) = MaxActiveJobs
  BY HolderFacts DEF AgreementsInv, Typed, Balance
<1>2. \A k \in Agreements : k # j => (Holds(k)' <=> Holds(k))
  BY DEF JobStep, Holds, ThreadAt
<1>3. CASE (Holds(j)' <=> Holds(j)) /\ slots' = slots
  <2>1. Holders' = Holders
    BY <1>2, <1>3 DEF Holders
  <2> QED BY <1>1, <1>3, <2>1 DEF Balance
<1>4. CASE ~Holds(j) /\ Holds(j)' /\ slots > 0 /\ slots' = slots - 1
  <2>1. Holders' = Holders \cup {j} /\ j \notin Holders
    BY <1>2, <1>4 DEF Holders
  <2>2. Cardinality(Holders') = Cardinality(Holders) + 1
    BY <1>1, <2>1, FS_AddElement
  <2> QED BY <1>1, <1>4, <2>2 DEF Balance
<1>5. CASE Holds(j) /\ ~Holds(j)' /\ slots' = slots + 1
  <2>1. Holders' = Holders \ {j} /\ j \in Holders
    BY <1>2, <1>5 DEF Holders
  <2>2. Cardinality(Holders') = Cardinality(Holders) - 1
    BY <1>1, <2>1, FS_RemoveElement
  <2> QED BY <1>1, <1>5, <2>2 DEF Balance
<1> QED BY <1>3, <1>4, <1>5 DEF JobStep

LEMMA StepInvariant ==
  ASSUME AgreementsInv, AgreementsAssumption, NEW j \in Agreements, JobStep(j),
         dropping' \subseteq dropping \cup {j},
         j \in dropping' => agr'[j].cancel
  PROVE  AgreementsInv'
<1>1. Balance' /\ slots' \in Nat
  BY StepBalance
<1>2. Typed'
  BY <1>1 DEF AgreementsInv, Typed, JobStep
<1>3. \A k \in Agreements : JobOK(agr'[k])
  BY DEF AgreementsInv, JobStep
<1>4. \A k \in dropping' : agr'[k].cancel
  BY DEF AgreementsInv, Typed, JobStep
<1>5. OneJobPerAgreement'
  <2>1. \A k \in Agreements : agr'[k].status \in ActiveStatuses => agr[k].status \in ActiveStatuses
    BY DEF JobStep
  <2> QED BY <2>1 DEF AgreementsInv, OneJobPerAgreement, Active
<1> QED BY <1>1, <1>2, <1>3, <1>4, <1>5 DEF AgreementsInv

\* A new job, and the end of the records it replaces.
LEMMA CreatesInvariant ==
  ASSUME AgreementsInv, AgreementsAssumption, NEW j \in Agreements, CreatesJob(j)
  PROVE  AgreementsInv'
<1> DEFINE old == {k \in Agreements : Active(k) /\ TokenOf[k] = TokenOf[j]}
           new == [NoJob EXCEPT !.status = "queued", !.at = "start"]
<1>1. /\ agr \in [Agreements -> JobType] /\ slots \in Nat /\ slots' = slots
      /\ dropping' = dropping \cup old /\ dropping \subseteq Agreements
      /\ \A k \in Agreements : JobOK(agr[k]) /\ agr[k] \in JobType
      /\ agr[j].at = "none"
  BY DEF AgreementsInv, Typed, CreatesJob, ThreadAt
<1>2. PICK refused \in BOOLEAN :
        agr' = [k \in Agreements |->
                  CASE k \in old           -> Cancelled(agr[k])
                    [] k = j /\ ~refused   -> new
                    [] OTHER               -> agr[k]]
  BY DEF CreatesJob
<1>3. agr[j].status = "none" /\ j \notin old /\ ~agr[j].slot
  BY <1>1 DEF JobOK, Active, ActiveStatuses
<1>4. ASSUME NEW k \in old
      PROVE  /\ agr'[k] \in JobType /\ JobOK(agr'[k])
             /\ agr'[k].cancel /\ agr'[k].status = "cancelled"
             /\ agr'[k].slot = agr[k].slot /\ agr'[k].at = agr[k].at
  <2>1. k \in Agreements /\ agr[k] \in JobType /\ JobOK(agr[k])
    BY <1>1
  <2>2. agr'[k] = Cancelled(agr[k])
    BY <1>2, <1>3, <1>4, <2>1
  <2>3. agr'[k] = [agr[k] EXCEPT !.cancel = TRUE, !.status = "cancelled"]
    BY <2>2 DEF Cancelled
  <2>4. agr[k].status # "none"
    BY <1>4 DEF Active, ActiveStatuses
  <2>5. /\ agr'[k] \in JobType
        /\ agr'[k].cancel /\ agr'[k].status = "cancelled"
        /\ agr'[k].slot = agr[k].slot /\ agr'[k].at = agr[k].at
    BY <2>1, <2>3 DEF JobType, FinalStatuses
  <2>6. JobOK(agr'[k])
    BY <2>1, <2>4, <2>5 DEF JobOK, JobType, FinalStatuses
  <2> QED BY <2>5, <2>6
<1>5. new \in JobType /\ JobOK(new) /\ new.at = "start" /\ ~new.slot
  <2>1. 0 \in 0..MaxPrompts /\ 0 \in 0..MaxInputs
    BY DEF AgreementsAssumption
  <2>2. /\ NoJob \in JobType
        /\ ~NoJob.cancel /\ ~NoJob.slot
    BY <2>1 DEF NoJob, JobType
  <2>3. /\ new \in JobType /\ new.at = "start" /\ new.status = "queued"
        /\ new.cancel = NoJob.cancel /\ new.slot = NoJob.slot
    BY <2>2 DEF JobType, ActiveStatuses
  <2> HIDE DEF new
  <2> QED BY <2>2, <2>3 DEF JobOK, ActiveStatuses
<1> HIDE DEF new
<1>6. ASSUME NEW k \in Agreements, k \notin old
      PROVE  agr'[k] = agr[k] \/ (k = j /\ agr'[k] = new)
  <2>1. CASE k = j /\ ~refused
    BY <1>2, <1>6, <2>1
  <2>2. CASE ~(k = j /\ ~refused)
    BY <1>2, <1>6, <2>2
  <2> QED BY <2>1, <2>2
<1>7. agr' = [k \in Agreements |-> agr'[k]]
  BY <1>2
<1>8. \A k \in Agreements : agr'[k] \in JobType /\ JobOK(agr'[k])
  BY <1>1, <1>4, <1>5, <1>6
<1>9. Typed'
  BY <1>1, <1>7, <1>8 DEF Typed
<1>10. \A k \in dropping' : agr'[k].cancel
  <2> SUFFICES ASSUME NEW k \in dropping' PROVE agr'[k].cancel
    OBVIOUS
  <2>1. CASE k \in old
    BY <1>4, <2>1
  <2>2. CASE k \notin old
    <3>1. k \in dropping /\ agr[k].cancel /\ k \in Agreements
      BY <1>1, <2>2 DEF AgreementsInv
    <3>2. k # j
      BY <1>1, <1>3, <3>1 DEF JobOK, FinalStatuses
    <3> QED BY <1>6, <2>2, <3>1, <3>2
  <2> QED BY <2>1, <2>2
<1>11. OneJobPerAgreement'
  <2> SUFFICES ASSUME NEW k \in Agreements, NEW l \in Agreements, k # l,
                      TokenOf[k] = TokenOf[l],
                      agr'[k].status \in ActiveStatuses, agr'[l].status \in ActiveStatuses
               PROVE  FALSE
    BY DEF OneJobPerAgreement, Active
  <2>1. k \notin old /\ l \notin old
    BY <1>4 DEF ActiveStatuses
  <2>2. ASSUME NEW m \in Agreements, m \notin old, m # j, agr'[m].status \in ActiveStatuses
        PROVE  TokenOf[m] # TokenOf[j] /\ Active(m)
    BY <1>6, <2>2 DEF Active
  <2>3. CASE k = j
    BY <2>1, <2>2, <2>3
  <2>4. CASE l = j
    BY <2>1, <2>2, <2>4
  <2>5. CASE k # j /\ l # j
    BY <2>1, <2>2, <2>5 DEF AgreementsInv, OneJobPerAgreement
  <2> QED BY <2>3, <2>4, <2>5
<1>12. Holders' = Holders
  <2>1. ASSUME NEW k \in Agreements PROVE Holds(k)' <=> Holds(k)
    <3>1. CASE k \in old
      BY <1>4, <3>1 DEF Holds, ThreadAt
    <3>2. CASE k \notin old
      BY <1>1, <1>3, <1>5, <1>6, <3>2 DEF Holds, ThreadAt
    <3> QED BY <3>1, <3>2
  <2> QED BY <2>1 DEF Holders
<1>13. Balance'
  BY <1>1, <1>12 DEF Balance, AgreementsInv
<1> QED BY <1>8, <1>9, <1>10, <1>11, <1>13 DEF AgreementsInv

LEMMA AgreementsStart ==
  ASSUME AgreementsInit, AgreementsAssumption
  PROVE  AgreementsInv
<1>1. NoJob \in JobType /\ JobOK(NoJob)
  <2>1. 0 \in 0..MaxPrompts /\ 0 \in 0..MaxInputs
    BY DEF AgreementsAssumption
  <2>2. NoJob \in JobType
    BY <2>1 DEF NoJob, JobType
  <2> QED BY <2>2 DEF NoJob, JobOK, ActiveStatuses, FinalStatuses
<1>2. MaxActiveJobs \in Nat
  BY DEF AgreementsAssumption
<1>3. Typed
  BY <1>1, <1>2 DEF AgreementsInit, Typed
<1>4. /\ \A j \in Agreements : JobOK(agr[j])
      /\ \A j \in dropping : agr[j].cancel
      /\ OneJobPerAgreement
  BY <1>1 DEF AgreementsInit, OneJobPerAgreement, Active, NoJob, ActiveStatuses
<1>5. Holders = {}
  BY DEF AgreementsInit, Holders, Holds, ThreadAt, NoJob
<1>6. Balance
  BY <1>2, <1>5, FS_EmptySet DEF AgreementsInit, Balance
<1> QED BY <1>3, <1>4, <1>6 DEF AgreementsInv

LEMMA AgreementsStep ==
  ASSUME AgreementsInv, AgreementsAssumption, [AgreementsNext]_agreementVars
  PROVE  AgreementsInv'
<1>1. ASSUME NEW j \in Agreements, JobThread(j)
      PROVE  AgreementsInv'
  <2>1. JobStep(j)
    BY <1>1, QueuesUpStep, TakesSlotStep, MarksSlotStep, RunsWithSlotStep, FlowRaisesStep,
       AsksInputStep, LendsSlotStep, GetsInputStep, InputFailsStep, FlowReturnsStep,
       LooksForCancelStep, WritesEndStep, LeavesJobStep DEF JobThread
  <2>2. dropping' = dropping
    BY <1>1 DEF JobThread, QueuesUp, TakesSlot, MarksSlot, RunsWithSlot, FlowRaises, AsksInput,
       LendsSlot, GetsInput, InputFails, FlowReturns, LooksForCancel, WritesEnd, LeavesJob
  <2>3. j \in dropping => agr'[j].cancel
    BY <2>1 DEF JobStep, AgreementsInv
  <2> QED BY <2>1, <2>2, <2>3, StepInvariant
<1>2. ASSUME NEW j \in Agreements, CancelsJob(j)
      PROVE  AgreementsInv'
  <2>1. JobStep(j) /\ dropping' = dropping \cup {j}
    BY <1>2, CancelsJobStep DEF CancelsJob
  <2>2. agr'[j].cancel
    BY <1>2, JobFacts DEF CancelsJob, Cancelled, JobType
  <2> QED BY <2>1, <2>2, StepInvariant
<1>3. ASSUME NEW j \in Agreements, DropsSlot(j)
      PROVE  AgreementsInv'
  <2>1. JobStep(j) /\ dropping' = dropping \ {j}
    BY <1>3, DropsSlotStep DEF DropsSlot
  <2> QED BY <2>1, StepInvariant
<1>4. ASSUME NEW j \in Agreements, SubmitsInput(j)
      PROVE  AgreementsInv'
  <2>1. JobStep(j) /\ dropping' = dropping
    BY <1>4, SubmitsInputStep DEF SubmitsInput
  <2>2. j \in dropping => agr'[j].cancel
    BY <2>1 DEF JobStep, AgreementsInv
  <2> QED BY <2>1, <2>2, StepInvariant
<1>5. CASE UNCHANGED agreementVars
  <2>1. Holders' = Holders
    BY <1>5 DEF agreementVars, Holders, Holds, ThreadAt
  <2> QED BY <1>5, <2>1
       DEF agreementVars, AgreementsInv, Typed, OneJobPerAgreement, Active, Balance
<1> QED BY <1>1, <1>2, <1>3, <1>4, <1>5, CreatesInvariant DEF AgreementsNext

LEMMA AgreementsAlways == AgreementsSpec => []AgreementsInv
<1>1. AgreementsInit => AgreementsInv
  BY AgreementsStart, AgreementsAssumption
<1>2. AgreementsInv /\ [AgreementsNext]_agreementVars => AgreementsInv'
  BY AgreementsStep, AgreementsAssumption
<1> QED BY <1>1, <1>2, PTL DEF AgreementsSpec

-----------------------------------------------------------------------------
(* The theorems. *)

LEMMA AgreementsTypes ==
  ASSUME AgreementsInv
  PROVE  AgreementsTypeOK
<1>1. Cardinality(Holders) \in Nat /\ slots \in Nat /\ MaxActiveJobs \in Nat
  BY HolderFacts, AgreementsAssumption DEF AgreementsInv, Typed, AgreementsAssumption
<1>2. slots + Cardinality(Holders) = MaxActiveJobs
  BY DEF AgreementsInv, Balance
<1>3. slots \in 0..MaxActiveJobs
  BY <1>1, <1>2
<1> QED BY <1>3 DEF AgreementsInv, Typed, JobType, AgreementsTypeOK

\* The records and the free slots stay in their ranges; the free slots only
\* because the count balances.
THEOREM AgreementsTypeCorrect == AgreementsSpec => []AgreementsTypeOK
BY AgreementsTypes, AgreementsAlways, PTL

\* Every slot is free or with one job, although a thread and its cancel may both
\* give it back.
THEOREM SlotsAlwaysBalance == AgreementsSpec => []SlotsBalance
<1>1. AgreementsInv => SlotsBalance
  <2> SUFFICES ASSUME AgreementsInv PROVE SlotsBalance
    OBVIOUS
  <2>1. \A j \in Agreements : ThreadAt(j, "done") => ~agr[j].slot
    BY DEF AgreementsInv, JobOK, ThreadAt
  <2> QED BY <2>1 DEF AgreementsInv, Balance, Holders, Holds, SlotsBalance
<1> QED BY <1>1, AgreementsAlways, PTL

\* A job that is shown as running holds a slot.
THEOREM RunningHolds == AgreementsSpec => []RunningHoldsSlot
<1>1. AgreementsInv => RunningHoldsSlot
  BY DEF AgreementsInv, JobOK, RunningHoldsSlot
<1> QED BY <1>1, AgreementsAlways, PTL

\* An agreement has at most one unfinished job, for any number of jobs.
THEOREM AgreementsExclusive == AgreementsSpec => []OneJobPerAgreement
<1>1. AgreementsInv => OneJobPerAgreement
  BY DEF AgreementsInv
<1> QED BY <1>1, AgreementsAlways, PTL
=============================================================================
