------------------------ MODULE SignalPipelineProofs ------------------------
(* Type correctness of SignalPipeline, that a strategy has one order per    *)
(* target, and that signals keep the dedup window.                          *)
EXTENDS SignalPipeline, FiniteSetTheorems, TLAPS

(* Ids that have not been given out are unused; the id being saved is the  *)
(* newest one and has no order yet.                                        *)
FreshIds ==
    /\ \A i \in Ids : i >= next => orders[i] = "NONE" /\ cands[i].status = "NONE"
    /\ \A n \in 1..Len(job.out) : job.out[n] < next
    /\ job.pc \in {"save", "enqueue"} => job.id \in Ids /\ job.id < next
    /\ job.pc = "save" => job.id = next - 1 /\ orders[job.id] = "NONE" /\ job.inp \in Input
    /\ job.pc = "save" => job.verdict \in Verdicts
    /\ job.pc \in {"send", "mark"} => job.out # <<>>

(* What the dedup check found is still so when the candidate is saved.     *)
Checked ==
    /\ job.pc # "idle" => job.win \in Windows
    /\ job.pc = "save" /\ job.verdict = "PUSHED" =>
          \A i \in Ids : cands[i].tgt = job.inp.tgt /\ cands[i].status = "PUSHED"
                         => cands[i].at + job.win < now

Inv == TypeOK /\ FreshIds /\ Checked /\ OneOrderPerTarget /\ DedupRespected

LEMMA InputTyped ==
    /\ \A c \in Input : c.tgt \in Targets /\ c.stop \in {"ok", "wide"}
    /\ IdleJob \in Jobs /\ NoCandidate \in Candidate
<1>1. \A c \in Input : c.tgt \in Targets /\ c.stop \in {"ok", "wide"}
    BY PipelineConstants DEF Input
<1>2. <<>> \in Seq(Ids) /\ {} \in SUBSET Input
    OBVIOUS
<1>3. IdleJob \in Jobs
    BY <1>2 DEF IdleJob, Jobs
<1>4. NoCandidate \in Candidate
    BY PipelineConstants DEF NoCandidate, Candidate
<1> QED BY <1>1, <1>3, <1>4

(* A scan's job from its fields. *)
LEMMA JobTyped ==
    ASSUME TypeOK
    PROVE  /\ job.pc \in {"idle", "gate", "save", "enqueue", "send", "mark"}
           /\ job.cap \in Caps \cup {0} /\ job.win \in Windows \cup {0}
           /\ job.filter \in BOOLEAN /\ job.batch \in SUBSET Input
           /\ job.id \in Ids \cup {0} /\ job.inp \in Input \cup {None}
           /\ job.verdict \in Verdicts \cup {"NONE"} /\ job.out \in Seq(Ids)
           /\ job = [pc |-> job.pc, cap |-> job.cap, win |-> job.win,
                     filter |-> job.filter, batch |-> job.batch, id |-> job.id,
                     inp |-> job.inp, verdict |-> job.verdict, out |-> job.out]
BY DEF TypeOK, Jobs

LEMMA InitInv == Init => Inv
<1> SUFFICES ASSUME Init PROVE Inv
    OBVIOUS
<1>1. TypeOK
    BY InputTyped, PipelineConstants DEF Init, TypeOK, Ids
<1>2. FreshIds /\ Checked
    BY PipelineConstants DEF Init, FreshIds, Checked, IdleJob, NoCandidate, Ids
<1>3. OneOrderPerTarget /\ DedupRespected
    BY DEF Init, OneOrderPerTarget, DedupRespected, NoCandidate
<1> QED BY <1>1, <1>2, <1>3 DEF Inv

(* The steps that leave the tables alone: only the job, the clock, the     *)
(* settings or the faults change.                                          *)
LEMMA TablesKept ==
    ASSUME Inv, UNCHANGED tables
    PROVE  OneOrderPerTarget' /\ DedupRespected'
BY DEF Inv, tables, OneOrderPerTarget, DedupRespected

LEMMA StartScanStep == Inv /\ StartScan => Inv'
<1> SUFFICES ASSUME Inv, StartScan PROVE Inv'
    OBVIOUS
<1> USE DEF Inv
<1> DEFINE started(batch, cap, win, filter) ==
        [pc |-> "gate", cap |-> cap, win |-> win, filter |-> filter, batch |-> batch,
         id |-> 0, inp |-> None, verdict |-> "NONE", out |-> <<>>]
<1>1. \E batch \in SUBSET Input, cap \in Caps, win \in Windows, filter \in BOOLEAN :
          job' = started(batch, cap, win, filter)
  <2>1. limits.cap \in Caps /\ limits.win \in Windows
      BY DEF TypeOK
  <2>2. PICK batch \in SUBSET Input :
            \/ job' = [IdleJob EXCEPT !.pc = "gate", !.batch = batch,
                          !.cap = limits.cap, !.win = limits.win]
            \/ \E cap \in Caps, win \in Windows :
                  job' = [IdleJob EXCEPT !.pc = "gate", !.batch = batch,
                             !.cap = cap, !.win = win, !.filter = TRUE]
      BY DEF StartScan
  <2>3. CASE job' = [IdleJob EXCEPT !.pc = "gate", !.batch = batch,
                          !.cap = limits.cap, !.win = limits.win]
    <3>1. job' = started(batch, limits.cap, limits.win, FALSE)
        BY <2>3 DEF IdleJob
    <3> QED BY <2>1, <3>1
  <2>4. ASSUME NEW cap \in Caps, NEW win \in Windows,
               job' = [IdleJob EXCEPT !.pc = "gate", !.batch = batch,
                             !.cap = cap, !.win = win, !.filter = TRUE]
        PROVE  \E b \in SUBSET Input, c \in Caps, w \in Windows, filter \in BOOLEAN :
                  job' = started(b, c, w, filter)
    <3>1. job' = started(batch, cap, win, TRUE)
        BY <2>4 DEF IdleJob
    <3> QED BY <3>1
  <2> QED BY <2>2, <2>3, <2>4
<1>2. PICK batch \in SUBSET Input, cap \in Caps, win \in Windows, filter \in BOOLEAN :
          job' = started(batch, cap, win, filter)
    BY <1>1
<1>3. faults' \in 0..MaxFaults
  <2>1. faults' = faults \/ Fault
      BY DEF StartScan
  <2> QED BY <2>1, PipelineConstants DEF Fault, TypeOK
<1>4. <<>> \in Seq(Ids)
    OBVIOUS
<1>5. job' \in Jobs
    BY <1>2, <1>4 DEF Jobs
<1>6. TypeOK'
    BY <1>3, <1>5 DEF StartScan, TypeOK, tables
<1>7. FreshIds' /\ Checked'
  <2>1. UNCHANGED <<now, next, cands, orders>>
      BY DEF StartScan, tables
  <2>2. job'.pc = "gate" /\ job'.out = <<>> /\ job'.win \in Windows
      BY <1>2
  <2> QED BY <2>1, <2>2 DEF FreshIds, Checked
<1> QED BY <1>6, <1>7, TablesKept DEF StartScan

LEMMA GateStep == ASSUME Inv, NEW c \in Input, Gate(c) PROVE Inv'
<1> USE DEF Inv
<1>1. Verdict(c) \in Verdicts
    BY DEF Verdict, Verdicts
<1>2. next \in Ids /\ next' = next + 1 /\ next' \in 1..(MaxIds + 1)
    BY PipelineConstants DEF Gate, TypeOK, Ids
<1>3. job' = [pc |-> "save", cap |-> job.cap, win |-> job.win, filter |-> job.filter,
              batch |-> job.batch \ {c}, id |-> next, inp |-> c,
              verdict |-> Verdict(c), out |-> job.out]
  <2> HIDE DEF Inv
  <2> QED BY JobTyped DEF Gate, Inv
<1>4. job' \in Jobs
    BY <1>1, <1>2, <1>3, JobTyped DEF Jobs
<1>5. TypeOK'
    BY <1>2, <1>4 DEF Gate, TypeOK, tables
<1>6. FreshIds'
  <2>1. UNCHANGED <<orders, cands>>
      BY DEF Gate, tables
  <2>2. \A n \in 1..Len(job.out) : job.out[n] < next + 1
    <3> SUFFICES ASSUME NEW n \in 1..Len(job.out) PROVE job.out[n] < next + 1
        OBVIOUS
    <3>1. job.out \in Seq(Ids)
        BY JobTyped
    <3>2. job.out[n] \in Ids /\ job.out[n] < next
        BY <3>1 DEF FreshIds
    <3> QED BY <1>2, <3>2 DEF Ids
  <2> QED BY <1>1, <1>2, <1>3, <2>1, <2>2 DEF FreshIds, Ids
<1>7. Verdict(c) = "PUSHED" =>
          \A i \in Ids : cands[i].tgt = c.tgt /\ cands[i].status = "PUSHED"
                         => cands[i].at + job.win < now
  <2>1. \A i \in Ids : cands[i].at \in 0..MaxTime
      BY DEF TypeOK, Candidate
  <2>2. job.win \in Nat /\ now \in Nat
      BY PipelineConstants DEF Gate, Checked, TypeOK
  <2>3. Verdict(c) = "PUSHED" => ~IsDup(c.tgt)
      BY DEF Verdict
  <2> QED BY <2>1, <2>2, <2>3, PipelineConstants DEF IsDup
<1>8. Checked'
  <2>1. UNCHANGED <<now, cands>>
      BY DEF Gate, tables
  <2>2. job.win \in Windows
      BY DEF Gate, Checked
  <2> QED BY <1>3, <1>7, <2>1, <2>2 DEF Checked
<1> QED BY <1>5, <1>6, <1>8, TablesKept DEF Gate

LEMMA SaveStep == Inv /\ SaveCandidate => Inv'
<1> SUFFICES ASSUME Inv, SaveCandidate PROVE Inv'
    OBVIOUS
<1> USE DEF Inv
<1> DEFINE new == [tgt |-> job.inp.tgt, stop |-> job.inp.stop,
                   status |-> job.verdict, at |-> now]
<1>1. /\ job.id \in Ids /\ job.id = next - 1 /\ orders[job.id] = "NONE"
      /\ job.inp \in Input /\ job.verdict \in Verdicts
    BY DEF SaveCandidate, FreshIds
<1>2. new \in Candidate
    BY <1>1, InputTyped DEF Candidate, TypeOK
<1>3. /\ cands' = [cands EXCEPT ![job.id] = new]
      /\ UNCHANGED <<now, next, queue, orders, limits, faults>>
      /\ job' = [job EXCEPT !.pc = IF job.verdict = "PUSHED" THEN "enqueue" ELSE "gate"]
    BY DEF SaveCandidate
<1>4. /\ cands'[job.id] = new
      /\ \A i \in Ids : i # job.id => cands'[i] = cands[i]
    BY <1>1, <1>3 DEF TypeOK
<1> HIDE DEF new
<1>5. TypeOK'
    BY <1>1, <1>2, <1>3 DEF TypeOK, Jobs
<1>6. FreshIds'
  <2>1. job'.pc \in {"gate", "enqueue"} /\ job'.out = job.out /\ job'.id = job.id
      BY <1>3 DEF TypeOK, Jobs
  <2>2. \A i \in Ids : i >= next => cands'[i].status = "NONE"
    <3> SUFFICES ASSUME NEW i \in Ids, i >= next PROVE cands'[i].status = "NONE"
        OBVIOUS
    <3>1. i # job.id
        BY <1>1 DEF Ids, TypeOK
    <3> QED BY <1>4, <3>1 DEF FreshIds
  <2> QED BY <1>1, <1>3, <2>1, <2>2 DEF FreshIds, SaveCandidate
<1>7. Checked'
    BY <1>3 DEF Checked, TypeOK, Jobs, SaveCandidate
<1>8. OneOrderPerTarget'
    BY <1>1, <1>3, <1>4 DEF OneOrderPerTarget
<1>9. DedupRespected'
  <2> SUFFICES ASSUME NEW i \in Ids, NEW j \in Ids, i < j,
                      cands'[i].tgt = cands'[j].tgt,
                      cands'[i].status = "PUSHED", cands'[j].status = "PUSHED"
               PROVE  \E win \in Windows : cands'[j].at > cands'[i].at + win
      BY DEF DedupRespected
  <2>1. i # job.id
      BY <1>1, <1>4, PipelineConstants DEF FreshIds, Ids, TypeOK
  <2>2. CASE j # job.id
      BY <1>4, <2>1, <2>2 DEF DedupRespected
  <2>3. CASE j = job.id
    <3>1. cands'[j].tgt = job.inp.tgt /\ cands'[j].at = now /\ job.verdict = "PUSHED"
        BY <1>4, <2>3 DEF new
    <3>2. cands[i].at + job.win < now /\ job.win \in Windows
        BY <1>4, <2>1, <3>1 DEF Checked, SaveCandidate
    <3>3. cands[i].at \in Nat /\ now \in Nat /\ job.win \in Nat
      <4>1. cands[i].at \in 0..MaxTime /\ now \in 0..MaxTime
          BY DEF TypeOK, Candidate
      <4>2. MaxTime \in Nat /\ job.win \in Nat
          BY <3>2, PipelineConstants
      <4> QED BY <4>1, <4>2
    <3> QED BY <1>4, <2>1, <3>1, <3>2, <3>3
  <2> QED BY <2>2, <2>3
<1> QED BY <1>5, <1>6, <1>7, <1>8, <1>9

(* Steps that take the scan to its next step and leave the tables and the  *)
(* ids alone: the job keeps its limits, its id and, of out, a tail.        *)
LEMMA JobStepKeeps ==
    ASSUME Inv, UNCHANGED <<now, next, cands, orders, limits>>,
           queue' \in [Ids -> {"NONE", "QUEUED", "SENT"}], faults' \in 0..MaxFaults,
           job' \in Jobs, job'.pc \in {"idle", "gate", "mark"},
           job'.pc # "idle" => job'.win = job.win /\ job.pc # "idle",
           job'.pc = "mark" => job'.out # <<>>,
           \A n \in 1..Len(job'.out) : job'.out[n] < next
    PROVE  Inv'
<1> USE DEF Inv
<1>1. TypeOK'
    BY DEF TypeOK
<1>2. FreshIds'
    BY DEF FreshIds
<1>3. Checked'
    BY DEF Checked
<1> QED BY <1>1, <1>2, <1>3 DEF OneOrderPerTarget, DedupRespected

LEMMA FaultTyped == TypeOK /\ (Fault \/ UNCHANGED faults) => faults' \in 0..MaxFaults
BY PipelineConstants DEF Fault, TypeOK

LEMMA JobEnds ==
    ASSUME Inv, UNCHANGED <<now, next, tables, limits>>, Fault \/ UNCHANGED faults,
           job' = IdleJob
    PROVE  Inv'
<1>1. job' \in Jobs /\ job'.pc = "idle" /\ job'.out = <<>>
    BY InputTyped DEF IdleJob
<1>2. queue' \in [Ids -> {"NONE", "QUEUED", "SENT"}] /\ faults' \in 0..MaxFaults
    BY FaultTyped DEF Inv, TypeOK, tables
<1> QED BY <1>1, <1>2, JobStepKeeps DEF tables

LEMMA EnqueueStep == Inv /\ Enqueue => Inv'
<1> SUFFICES ASSUME Inv, Enqueue PROVE Inv'
    OBVIOUS
<1>1. job.id \in Ids /\ job.id < next /\ job.pc = "enqueue"
    BY DEF Inv, Enqueue, FreshIds
<1>2. job' = [pc |-> "gate", cap |-> job.cap, win |-> job.win, filter |-> job.filter,
              batch |-> job.batch, id |-> job.id, inp |-> job.inp,
              verdict |-> job.verdict, out |-> Append(job.out, job.id)]
    BY JobTyped DEF Inv, Enqueue
<1>3. Append(job.out, job.id) \in Seq(Ids)
    BY <1>1, JobTyped DEF Inv
<1>4. job' \in Jobs
    BY <1>2, <1>3, JobTyped DEF Inv, Jobs
<1>5. \A n \in 1..Len(job'.out) : job'.out[n] < next
  <2> SUFFICES ASSUME NEW n \in 1..Len(Append(job.out, job.id))
               PROVE  Append(job.out, job.id)[n] < next
      BY <1>2
  <2>1. job.out \in Seq(Ids)
      BY JobTyped DEF Inv
  <2>2. CASE n \in 1..Len(job.out)
      BY <2>1, <2>2 DEF Inv, FreshIds
  <2>3. CASE n = Len(job.out) + 1
      BY <1>1, <2>1, <2>3
  <2> QED BY <2>1, <2>2, <2>3
<1>6. queue' \in [Ids -> {"NONE", "QUEUED", "SENT"}] /\ faults' \in 0..MaxFaults
    BY FaultTyped DEF Inv, TypeOK, Enqueue
<1> QED BY <1>1, <1>2, <1>4, <1>5, <1>6, JobStepKeeps DEF Enqueue

LEMMA CandidateFailsStep == Inv /\ CandidateFails => Inv'
<1> SUFFICES ASSUME Inv, CandidateFails PROVE Inv'
    OBVIOUS
<1>1. PICK batch \in SUBSET Input :
          job' = [pc |-> "gate", cap |-> job.cap, win |-> job.win, filter |-> job.filter,
                  batch |-> batch, id |-> job.id, inp |-> job.inp,
                  verdict |-> job.verdict, out |-> job.out]
  <2>1. CASE job' = [job EXCEPT !.pc = "gate"]
    <3>1. job.batch \in SUBSET Input
        BY JobTyped DEF Inv
    <3> QED BY <2>1, <3>1, JobTyped DEF Inv
  <2>2. ASSUME NEW c \in job.batch, job.pc = "gate", job' = [job EXCEPT !.batch = @ \ {c}]
        PROVE  \E batch \in SUBSET Input :
                  job' = [pc |-> "gate", cap |-> job.cap, win |-> job.win,
                          filter |-> job.filter, batch |-> batch, id |-> job.id,
                          inp |-> job.inp, verdict |-> job.verdict, out |-> job.out]
    <3>1. job.batch \ {c} \in SUBSET Input
        BY JobTyped DEF Inv
    <3> QED BY <2>2, <3>1, JobTyped DEF Inv
  <2> QED BY <2>1, <2>2 DEF CandidateFails
<1>2. job' \in Jobs
    BY <1>1, JobTyped DEF Inv, Jobs
<1>3. queue' \in [Ids -> {"NONE", "QUEUED", "SENT"}] /\ faults' \in 0..MaxFaults
    BY FaultTyped DEF Inv, TypeOK, CandidateFails, tables
<1>4. job.pc # "idle" /\ UNCHANGED <<now, next, cands, orders, limits>>
    BY DEF CandidateFails, tables
<1> QED BY <1>1, <1>2, <1>3, <1>4, JobStepKeeps DEF Inv, FreshIds

(* Going on to the next order of the scan. *)
LEMMA NextOrder ==
    ASSUME Inv, job.out # <<>>,
           job' = [job EXCEPT !.pc = "gate", !.out = Tail(@)]
    PROVE  /\ job' \in Jobs /\ job'.pc = "gate" /\ job'.win = job.win
           /\ \A n \in 1..Len(job'.out) : job'.out[n] < next
<1>1. job' = [pc |-> "gate", cap |-> job.cap, win |-> job.win, filter |-> job.filter,
              batch |-> job.batch, id |-> job.id, inp |-> job.inp,
              verdict |-> job.verdict, out |-> Tail(job.out)]
    BY JobTyped DEF Inv
<1>2. job.out \in Seq(Ids)
    BY JobTyped DEF Inv
<1>3. Tail(job.out) \in Seq(Ids)
    BY <1>2
<1>4. job' \in Jobs
    BY <1>1, <1>3, JobTyped DEF Inv, Jobs
<1>5. \A n \in 1..Len(Tail(job.out)) : Tail(job.out)[n] < next
  <2> SUFFICES ASSUME NEW n \in 1..Len(Tail(job.out)) PROVE Tail(job.out)[n] < next
      OBVIOUS
  <2>1. n + 1 \in 1..Len(job.out) /\ Tail(job.out)[n] = job.out[n + 1]
      BY <1>2
  <2> QED BY <2>1 DEF Inv, FreshIds
<1> QED BY <1>1, <1>4, <1>5

LEMMA CreateOrderStep == Inv /\ CreateOrder => Inv'
<1> SUFFICES ASSUME Inv, CreateOrder PROVE Inv'
    OBVIOUS
<1> DEFINE id == Head(job.out)
<1>1. job.out \in Seq(Ids) /\ job.out # <<>> /\ job.pc = "gate"
    BY JobTyped DEF Inv, CreateOrder
<1>2. id \in Ids /\ id < next
  <2>1. 1 \in 1..Len(job.out) /\ id = job.out[1] /\ job.out[1] \in Ids
      BY <1>1
  <2> QED BY <2>1 DEF Inv, FreshIds
<1>3. CASE HasOpen(cands[id].tgt)
  <2>1. job' = [job EXCEPT !.out = Tail(@)] /\ UNCHANGED orders
      BY <1>3 DEF CreateOrder
  <2>2. job' = [job EXCEPT !.pc = "gate", !.out = Tail(@)]
      BY <1>1, <2>1, JobTyped DEF Inv
  <2>3. queue' \in [Ids -> {"NONE", "QUEUED", "SENT"}] /\ faults' \in 0..MaxFaults
      BY FaultTyped DEF Inv, TypeOK, CreateOrder
  <2> QED BY <1>1, <2>1, <2>2, <2>3, NextOrder, JobStepKeeps DEF CreateOrder
<1>4. CASE ~HasOpen(cands[id].tgt)
  <2>1. /\ orders' = [orders EXCEPT ![id] = "OPEN"]
        /\ job' = [job EXCEPT !.pc = "send"]
        /\ UNCHANGED <<now, next, cands, queue, limits, faults>>
      BY <1>4 DEF CreateOrder
  <2>2. job' = [pc |-> "send", cap |-> job.cap, win |-> job.win, filter |-> job.filter,
                batch |-> job.batch, id |-> job.id, inp |-> job.inp,
                verdict |-> job.verdict, out |-> job.out]
      BY <2>1, JobTyped DEF Inv
  <2>3. job' \in Jobs
      BY <2>2, JobTyped DEF Inv, Jobs
  <2>4. TypeOK'
      BY <2>1, <2>3 DEF Inv, TypeOK
  <2>5. \A i \in Ids : orders'[i] = IF i = id THEN "OPEN" ELSE orders[i]
      BY <2>1 DEF Inv, TypeOK
  <2> HIDE DEF id
  <2>6. FreshIds'
    <3>1. \A i \in Ids : i >= next => orders'[i] = "NONE"
        BY <1>2, <2>5 DEF Inv, FreshIds, TypeOK, Ids
    <3> QED BY <1>1, <2>1, <2>2, <3>1 DEF Inv, FreshIds
  <2>7. Checked' /\ DedupRespected'
      BY <1>1, <2>1, <2>2 DEF Inv, Checked, DedupRespected
  <2>8. OneOrderPerTarget'
    <3> SUFFICES ASSUME NEW i \in Ids, NEW j \in Ids, i # j,
                        orders'[i] \in {"OPEN", "FILLED"}, orders'[j] \in {"OPEN", "FILLED"},
                        cands[i].tgt = cands[j].tgt
                 PROVE  FALSE
        BY <2>1 DEF OneOrderPerTarget
    <3>1. CASE i # id /\ j # id
        BY <2>5, <3>1 DEF Inv, OneOrderPerTarget
    <3>2. CASE i = id
        BY <1>4, <2>5, <3>2 DEF HasOpen, OpenIds
    <3>3. CASE j = id
        BY <1>4, <2>5, <3>3 DEF HasOpen, OpenIds
    <3> QED BY <3>1, <3>2, <3>3
  <2> QED BY <2>4, <2>6, <2>7, <2>8 DEF Inv
<1> QED BY <1>3, <1>4

LEMMA SendStep == Inv /\ (SendCandidate \/ MarkSent) => Inv'
<1> SUFFICES ASSUME Inv, SendCandidate \/ MarkSent PROVE Inv'
    OBVIOUS
<1>1. queue' \in [Ids -> {"NONE", "QUEUED", "SENT"}] /\ faults' \in 0..MaxFaults
  <2>1. faults' \in 0..MaxFaults
      BY FaultTyped DEF Inv, SendCandidate, MarkSent
  <2> QED BY <2>1 DEF Inv, TypeOK, SendCandidate, MarkSent, tables
<1>2. CASE SendCandidate
  <2>1. job' = [pc |-> "mark", cap |-> job.cap, win |-> job.win, filter |-> job.filter,
                batch |-> job.batch, id |-> job.id, inp |-> job.inp,
                verdict |-> job.verdict, out |-> job.out]
      BY <1>2, JobTyped DEF Inv, SendCandidate
  <2>2. job' \in Jobs
      BY <2>1, JobTyped DEF Inv, Jobs
  <2>3. job.pc = "send" /\ UNCHANGED <<now, next, cands, orders, limits>>
      BY <1>2 DEF SendCandidate, tables
  <2> QED BY <1>1, <2>1, <2>2, <2>3, JobStepKeeps DEF Inv, FreshIds
<1>3. CASE MarkSent
  <2>1. job.out # <<>>
      BY <1>3 DEF Inv, FreshIds, MarkSent
  <2> QED BY <1>1, <1>3, <2>1, NextOrder, JobStepKeeps DEF MarkSent
<1> QED BY <1>2, <1>3

(* What happens outside the scan. *)
LEMMA OutsideStep ==
    Inv /\ ((\E id \in Ids : SettleOrder(id)) \/ SetLimit \/ Tick) => Inv'
<1>1. ASSUME Inv, NEW id \in Ids, SettleOrder(id) PROVE Inv'
  <2>1. /\ \/ orders[id] = "OPEN" /\ orders' = [orders EXCEPT ![id] = "FILLED"]
           \/ orders[id] \in {"OPEN", "FILLED"} /\ orders' = [orders EXCEPT ![id] = "CLOSED"]
        /\ UNCHANGED <<now, next, cands, queue, limits, job, faults>>
        /\ job.pc = "idle"
      BY <1>1 DEF SettleOrder
  <2>2. TypeOK'
      BY <1>1, <2>1 DEF Inv, TypeOK
  <2>3. \A i \in Ids :
            /\ orders[i] = "NONE" => orders'[i] = "NONE"
            /\ orders'[i] \in {"OPEN", "FILLED"} => orders[i] \in {"OPEN", "FILLED"}
      BY <1>1, <2>1 DEF Inv, TypeOK
  <2>4. FreshIds'
      BY <1>1, <2>1, <2>3 DEF Inv, FreshIds
  <2>5. Checked' /\ DedupRespected'
      BY <1>1, <2>1 DEF Inv, Checked, DedupRespected
  <2>6. OneOrderPerTarget'
      BY <1>1, <2>1, <2>3 DEF Inv, OneOrderPerTarget
  <2> QED BY <2>2, <2>4, <2>5, <2>6 DEF Inv
<1>2. ASSUME Inv, SetLimit PROVE Inv'
  <2>1. TypeOK'
      BY <1>2 DEF Inv, TypeOK, SetLimit, tables
  <2>2. FreshIds' /\ Checked'
      BY <1>2 DEF Inv, FreshIds, Checked, SetLimit, tables
  <2> QED BY <1>2, <2>1, <2>2, TablesKept DEF Inv, SetLimit
<1>3. ASSUME Inv, Tick PROVE Inv'
  <2>1. now \in 0..MaxTime /\ now' = now + 1 /\ now' \in 0..MaxTime
      BY <1>3, PipelineConstants DEF Inv, TypeOK, Tick
  <2>2. TypeOK' /\ FreshIds'
      BY <1>3, <2>1 DEF Inv, TypeOK, FreshIds, Tick, tables
  <2>3. ASSUME job.pc = "save", job.verdict = "PUSHED", NEW i \in Ids,
               cands[i].at + job.win < now
        PROVE  cands[i].at + job.win < now'
    <3>1. job.win \in Nat /\ cands[i].at \in 0..MaxTime
        BY <1>3, <2>3, PipelineConstants DEF Inv, TypeOK, Candidate, Checked
    <3> QED BY <2>1, <2>3, <3>1
  <2>4. Checked'
      BY <1>3, <2>3 DEF Inv, Checked, Tick, tables
  <2> QED BY <1>3, <2>2, <2>4, TablesKept DEF Inv, Tick
<1> QED BY <1>1, <1>2, <1>3

LEMMA InvStep == Inv /\ [Next]_vars => Inv'
<1> SUFFICES ASSUME Inv, [Next]_vars PROVE Inv'
    OBVIOUS
<1>1. CASE TaskFails \/ Crash
    BY <1>1, JobEnds DEF TaskFails, Crash
<1>2. CASE EndScan
    BY <1>2, JobEnds DEF EndScan, tables
<1>3. CASE UNCHANGED vars
    BY <1>3 DEF vars, tables, Inv, TypeOK, FreshIds, Checked, OneOrderPerTarget,
                DedupRespected
<1> QED BY <1>1, <1>2, <1>3, StartScanStep, GateStep, SaveStep, EnqueueStep,
           CandidateFailsStep, CreateOrderStep, SendStep, OutsideStep DEF Next

-----------------------------------------------------------------------------
(* The candidates of a scan that may still become orders: those to check,  *)
(* the one being saved and those to order.                                 *)
Pending == IF job.pc \in {"save", "enqueue"} THEN 1 ELSE 0
Left    == Len(job.out) + Cardinality(job.batch) + Pending
Ordered == IF job.pc \in {"send", "mark"} THEN 1 ELSE 0
Pushing == job.out # <<>> \/ (job.pc \in {"save", "enqueue"} /\ job.verdict = "PUSHED")

(* When the first candidate of a scan is let through, an order less than   *)
(* the cap is at work at most, and no more candidates than the batch are   *)
(* left; from then on each order takes a candidate's place.                *)
Room ==
    /\ IsFiniteSet(job.batch)
    /\ Left <= MaxBatch
    /\ job.pc = "idle" => job.out = <<>>
    /\ job.pc # "idle" => job.cap \in Caps
    /\ job.pc = "enqueue" => job.verdict = "PUSHED"
    /\ Pushing => Cardinality(OpenIds) + Left <= job.cap - 1 + MaxBatch + Ordered

LEMMA Counted ==
    ASSUME TypeOK
    PROVE  /\ IsFiniteSet(OpenIds) /\ Cardinality(OpenIds) \in Nat
           /\ Len(job.out) \in Nat /\ job.out \in Seq(Ids)
           /\ IsFiniteSet(job.batch) => Cardinality(job.batch) \in Nat
           /\ MaxBatch \in Nat \ {0} /\ \A cap \in Caps : cap \in Nat \ {0}
<1>1. IsFiniteSet(Ids)
    BY PipelineConstants, FS_Interval DEF Ids
<1>2. OpenIds \in SUBSET Ids
    BY DEF OpenIds
<1>3. IsFiniteSet(OpenIds)
    BY <1>1, <1>2, FS_Subset
<1>4. Cardinality(OpenIds) \in Nat
    BY <1>3, FS_CardinalityType
<1>5. IsFiniteSet(job.batch) => Cardinality(job.batch) \in Nat
    BY FS_CardinalityType
<1>6. job.out \in Seq(Ids)
    BY JobTyped
<1> QED BY <1>3, <1>4, <1>5, <1>6, PipelineConstants

(* What each step of the scan does to the candidates that are left. *)
LEMMA JobMoves ==
    ASSUME TypeOK
    PROVE  /\ \A c \in Input : Gate(c) =>
                  /\ job'.pc = "save" /\ job'.cap = job.cap /\ job'.batch = job.batch \ {c}
                  /\ job'.out = job.out /\ job'.verdict = Verdict(c)
           /\ SaveCandidate =>
                  /\ job'.pc = IF job.verdict = "PUSHED" THEN "enqueue" ELSE "gate"
                  /\ job'.cap = job.cap /\ job'.batch = job.batch
                  /\ job'.out = job.out /\ job'.verdict = job.verdict
           /\ Enqueue =>
                  /\ job'.pc = "gate" /\ job'.cap = job.cap /\ job'.batch = job.batch
                  /\ job'.out = Append(job.out, job.id)
           /\ CandidateFails =>
                  /\ job'.pc = "gate" /\ job'.cap = job.cap /\ job'.out = job.out
                  /\ job'.batch = job.batch \/ \E c \in job.batch : job'.batch = job.batch \ {c}
           /\ SendCandidate =>
                  /\ job'.pc = "mark" /\ job'.cap = job.cap /\ job'.batch = job.batch
                  /\ job'.out = job.out
           /\ MarkSent =>
                  /\ job'.pc = "gate" /\ job'.cap = job.cap /\ job'.batch = job.batch
                  /\ job'.out = Tail(job.out)
           /\ CreateOrder =>
                  /\ job'.cap = job.cap /\ job'.batch = job.batch
                  /\ \/ job'.pc = "gate" /\ job'.out = Tail(job.out) /\ UNCHANGED orders
                     \/ /\ job'.pc = "send" /\ job'.out = job.out
                        /\ orders' = [orders EXCEPT ![Head(job.out)] = "OPEN"]
<1>1. \A c \in Input : Gate(c) =>
          /\ job'.pc = "save" /\ job'.cap = job.cap /\ job'.batch = job.batch \ {c}
          /\ job'.out = job.out /\ job'.verdict = Verdict(c)
    BY DEF TypeOK, Jobs, Gate
<1>2. SaveCandidate =>
          /\ job'.pc = IF job.verdict = "PUSHED" THEN "enqueue" ELSE "gate"
          /\ job'.cap = job.cap /\ job'.batch = job.batch
          /\ job'.out = job.out /\ job'.verdict = job.verdict
    BY DEF TypeOK, Jobs, SaveCandidate
<1>3. Enqueue =>
          /\ job'.pc = "gate" /\ job'.cap = job.cap /\ job'.batch = job.batch
          /\ job'.out = Append(job.out, job.id)
    BY DEF TypeOK, Jobs, Enqueue
<1>4. CandidateFails =>
          /\ job'.pc = "gate" /\ job'.cap = job.cap /\ job'.out = job.out
          /\ job'.batch = job.batch \/ \E c \in job.batch : job'.batch = job.batch \ {c}
    BY DEF TypeOK, Jobs, CandidateFails
<1>5. SendCandidate =>
          /\ job'.pc = "mark" /\ job'.cap = job.cap /\ job'.batch = job.batch
          /\ job'.out = job.out
    BY DEF TypeOK, Jobs, SendCandidate
<1>6. MarkSent =>
          /\ job'.pc = "gate" /\ job'.cap = job.cap /\ job'.batch = job.batch
          /\ job'.out = Tail(job.out)
    BY DEF TypeOK, Jobs, MarkSent
<1>7. CreateOrder =>
          /\ job'.cap = job.cap /\ job'.batch = job.batch
          /\ \/ job'.pc = "gate" /\ job'.out = Tail(job.out) /\ UNCHANGED orders
             \/ /\ job'.pc = "send" /\ job'.out = job.out
                /\ orders' = [orders EXCEPT ![Head(job.out)] = "OPEN"]
    BY DEF TypeOK, Jobs, CreateOrder
<1> QED BY <1>1, <1>2, <1>3, <1>4, <1>5, <1>6, <1>7

(* The steps that change no order. *)
LEMMA RoomKept == Inv /\ Room /\ OverfillBounded /\ [Next]_vars /\ UNCHANGED orders
                  => Room' /\ OverfillBounded'
<1> SUFFICES ASSUME Inv, Room, OverfillBounded, [Next]_vars, UNCHANGED orders
             PROVE  Room' /\ OverfillBounded'
    OBVIOUS
<1>1. TypeOK
    BY DEF Inv
<1>2. OpenIds' = OpenIds /\ OverfillBounded'
    BY DEF OpenIds, OverfillBounded
<1>3. /\ Cardinality(OpenIds) \in Nat /\ Len(job.out) \in Nat /\ job.out \in Seq(Ids)
      /\ IsFiniteSet(job.batch) /\ Cardinality(job.batch) \in Nat /\ MaxBatch \in Nat \ {0}
      /\ job.pc # "idle" => job.cap \in Nat \ {0}
    BY <1>1, Counted DEF Room
<1>4. \A c \in job.batch : /\ IsFiniteSet(job.batch \ {c})
                           /\ Cardinality(job.batch \ {c}) = Cardinality(job.batch) - 1
    BY <1>3, FS_RemoveElement
<1>5. Pending \in 0..1 /\ Ordered \in 0..1 /\ Left \in Nat
    BY <1>3 DEF Left, Pending, Ordered
<1> SUFFICES Room'
    BY <1>2
<1>6. ASSUME IsFiniteSet(job'.batch), job'.pc # "idle", job.pc # "idle", job'.cap = job.cap,
              job'.pc = "enqueue" => job'.verdict = "PUSHED",
              Left' <= MaxBatch,
              Pushing' => Cardinality(OpenIds) + Left' <= job.cap - 1 + MaxBatch + Ordered'
       PROVE  Room'
  <2>1. job'.cap \in Caps
      BY <1>6 DEF Room
  <2>2. Pushing' => Cardinality(OpenIds)' + Left' <= job'.cap - 1 + MaxBatch + Ordered'
      BY <1>2, <1>6
  <2>3. job'.pc = "idle" => job'.out = <<>>
      BY <1>6
  <2> QED BY <1>6, <2>1, <2>2, <2>3 DEF Room
<1>7. ASSUME job' = IdleJob PROVE Room'
  <2>1. job'.pc = "idle" /\ job'.out = <<>> /\ job'.batch = {}
      BY <1>7 DEF IdleJob
  <2>2. IsFiniteSet({}) /\ Cardinality({}) = 0
      BY FS_EmptySet
  <2> QED BY <1>3, <2>1, <2>2 DEF Room, Left, Pending, Pushing
<1>8. CASE StartScan
  <2>1. PICK batch \in SUBSET Input :
            /\ Cardinality(batch) \in 1..MaxBatch
            /\ \A c, d \in batch : c.tgt = d.tgt => c = d
            /\ job'.pc = "gate" /\ job'.batch = batch /\ job'.out = <<>> /\ job'.cap \in Caps
      BY <1>1, <1>8 DEF StartScan, IdleJob, TypeOK
  <2>2. IsFiniteSet(batch)
    <3> DEFINE target == [c \in batch |-> c.tgt]
    <3>1. target \in Injection(batch, Targets)
      <4>1. target \in [batch -> Targets]
          BY <2>1, InputTyped
      <4> QED BY <2>1, <4>1 DEF Injection, IsInjective
    <3>2. IsFiniteSet(Targets)
        BY PipelineConstants
    <3> QED BY <3>1, <3>2, FS_Injection
  <2>3. Cardinality(batch) <= MaxBatch /\ Cardinality(batch) \in Nat
      BY <1>3, <2>1
  <2>4. Len(job'.out) = 0 /\ Pending' = 0 /\ ~Pushing'
      BY <2>1 DEF Pending, Pushing
  <2>5. Left' <= MaxBatch
      BY <1>3, <2>1, <2>3, <2>4 DEF Left
  <2> QED BY <2>1, <2>2, <2>4, <2>5 DEF Room
<1>9. ASSUME NEW c \in Input, Gate(c) PROVE Room'
  <2>1. /\ job'.pc = "save" /\ job'.cap = job.cap /\ job'.batch = job.batch \ {c}
        /\ job'.out = job.out /\ job'.verdict = Verdict(c)
      BY <1>1, <1>9, JobMoves
  <2>2. job.pc = "gate" /\ c \in job.batch
      BY <1>9 DEF Gate
  <2>3. job'.verdict = "PUSHED" => Cardinality(OpenIds) < job.cap
      BY <2>1 DEF Verdict, RiskAllows
  <2>4. job.out # <<>> => Pushing
      BY DEF Pushing
  <2>5. Pending = 0 /\ Pending' = 1 /\ Ordered = 0 /\ Ordered' = 0
      BY <2>1, <2>2 DEF Pending, Ordered
  <2>6. Left' = Left
    <3>1. Cardinality(job'.batch) = Cardinality(job.batch) - 1
        BY <1>4, <2>1, <2>2
    <3> QED BY <1>3, <2>1, <2>5, <3>1 DEF Left
  <2>7. Pushing' => Pushing \/ Cardinality(OpenIds) < job.cap
      BY <2>1, <2>3 DEF Pushing
  <2>8. Left \in Int
      BY <1>3, <1>5
  <2>9. Pushing' => Cardinality(OpenIds) + Left' <= job.cap - 1 + MaxBatch + Ordered'
    <3> QED BY <1>3, <1>5, <2>2, <2>5, <2>6, <2>7, <2>8 DEF Room
  <2> QED BY <1>4, <1>6, <2>1, <2>2, <2>6, <2>9 DEF Room
<1>10. CASE SaveCandidate
  <2>1. /\ job'.pc = IF job.verdict = "PUSHED" THEN "enqueue" ELSE "gate"
        /\ job'.cap = job.cap /\ job'.batch = job.batch
        /\ job'.out = job.out /\ job'.verdict = job.verdict /\ job.pc = "save"
      BY <1>1, <1>10, JobMoves DEF SaveCandidate
  <2> QED BY <1>2, <1>3, <2>1 DEF Room, Left, Pending, Pushing, Ordered
<1>11. CASE Enqueue
  <2>1. /\ job'.pc = "gate" /\ job'.cap = job.cap /\ job'.batch = job.batch
        /\ job'.out = Append(job.out, job.id) /\ job.pc = "enqueue"
      BY <1>1, <1>11, JobMoves DEF Enqueue
  <2>2. Len(job'.out) = Len(job.out) + 1
    <3>1. job.id \in Ids
        BY <2>1 DEF Inv, FreshIds
    <3> QED BY <1>3, <2>1, <3>1
  <2>3. Pushing
      BY <2>1 DEF Pushing, Room
  <2>4. Pending = 1 /\ Pending' = 0 /\ Ordered = 0 /\ Ordered' = 0
      BY <2>1 DEF Pending, Ordered
  <2>5. Left' = Left
      BY <1>3, <2>1, <2>2, <2>4 DEF Left
  <2> QED BY <1>3, <1>5, <1>6, <2>1, <2>3, <2>4, <2>5 DEF Room
<1>12. CASE CandidateFails
  <2>1. /\ job'.pc = "gate" /\ job'.cap = job.cap /\ job'.out = job.out
        /\ job'.batch = job.batch \/ \E c \in job.batch : job'.batch = job.batch \ {c}
        /\ job.pc \in {"gate", "save", "enqueue"}
      BY <1>1, <1>12, JobMoves DEF CandidateFails
  <2>2. IsFiniteSet(job'.batch) /\ Cardinality(job'.batch) \in Nat
        /\ Cardinality(job'.batch) <= Cardinality(job.batch)
    <3>1. CASE job'.batch = job.batch
        BY <1>3, <3>1
    <3>2. ASSUME NEW c \in job.batch, job'.batch = job.batch \ {c}
          PROVE  /\ IsFiniteSet(job'.batch) /\ Cardinality(job'.batch) \in Nat
                 /\ Cardinality(job'.batch) <= Cardinality(job.batch)
      <4>1. IsFiniteSet(job'.batch) /\ Cardinality(job'.batch) = Cardinality(job.batch) - 1
          BY <1>4, <3>2
      <4>2. Cardinality(job'.batch) \in Nat
          BY <4>1, FS_CardinalityType
      <4> QED BY <1>3, <4>1, <4>2
    <3> QED BY <2>1, <3>1, <3>2
  <2>3. job'.out # <<>> => Pushing
      BY <2>1 DEF Pushing
  <2>4. Pending' = 0 /\ Ordered = 0 /\ Ordered' = 0
      BY <2>1 DEF Pending, Ordered
  <2>5. Left' <= Left /\ Left' \in Int /\ Left \in Int
      BY <1>3, <1>5, <2>1, <2>2, <2>4 DEF Left
  <2>6. Pushing' => Pushing
      BY <2>1, <2>3 DEF Pushing
  <2>7. job.cap \in Int /\ MaxBatch \in Int /\ Cardinality(OpenIds) \in Int
      BY <1>3, <2>1
  <2> QED BY <1>5, <1>6, <2>1, <2>2, <2>4, <2>5, <2>6, <2>7 DEF Room
<1>13. CASE SendCandidate
  <2>1. /\ job'.pc = "mark" /\ job'.cap = job.cap /\ job'.batch = job.batch
        /\ job'.out = job.out /\ job.pc = "send"
      BY <1>1, <1>13, JobMoves DEF SendCandidate
  <2> QED BY <1>2, <1>3, <2>1 DEF Room, Left, Pending, Pushing, Ordered
<1>14. ASSUME job.pc \in {"gate", "mark"}, job.out # <<>>, job'.pc = "gate",
              job'.cap = job.cap, job'.batch = job.batch, job'.out = Tail(job.out)
       PROVE  Room'
  <2>1. Len(job'.out) = Len(job.out) - 1
      BY <1>3, <1>14
  <2>2. Pushing
      BY <1>14 DEF Pushing
  <2>3. Pending = 0 /\ Pending' = 0 /\ Ordered' = 0
      BY <1>14 DEF Pending, Ordered
  <2>4. Left' = Left - 1 /\ Left \in Int
      BY <1>3, <1>14, <2>1, <2>3 DEF Left
  <2>5. /\ job.cap \in Int /\ MaxBatch \in Int /\ Cardinality(OpenIds) \in Int
        /\ Ordered \in 0..1
      BY <1>3, <1>14, <1>5
  <2> QED BY <1>3, <1>14, <1>5, <1>6, <2>2, <2>3, <2>4, <2>5 DEF Room
<1>15. CASE MarkSent
  <2>1. /\ job'.pc = "gate" /\ job'.cap = job.cap /\ job'.batch = job.batch
        /\ job'.out = Tail(job.out)
      BY <1>1, <1>15, JobMoves
  <2>2. job.pc = "mark" /\ job.out # <<>>
      BY <1>15 DEF MarkSent, Inv, FreshIds
  <2> QED BY <1>14, <2>1, <2>2
<1>16. CASE CreateOrder
  <2>1. /\ job.pc = "gate" /\ job.out # <<>> /\ job'.cap = job.cap /\ job'.batch = job.batch
      BY <1>1, <1>16, JobMoves DEF CreateOrder
  <2>2. job'.pc = "gate" /\ job'.out = Tail(job.out)
    <3>1. CASE HasOpen(cands[Head(job.out)].tgt)
      <4>1. job' = [job EXCEPT !.out = Tail(@)]
          BY <1>16, <3>1 DEF CreateOrder
      <4> QED BY <1>1, <2>1, <4>1 DEF TypeOK, Jobs
    <3>2. CASE ~HasOpen(cands[Head(job.out)].tgt)
      <4>1. orders' = [orders EXCEPT ![Head(job.out)] = "OPEN"] /\ UNCHANGED cands
          BY <1>16, <3>2 DEF CreateOrder
      <4>2. Head(job.out) \in Ids
          BY <1>3, <2>1
      <4>3. orders[Head(job.out)] = "OPEN"
          BY <1>1, <4>1, <4>2 DEF TypeOK
      <4> QED BY <3>2, <4>2, <4>3 DEF HasOpen, OpenIds
    <3> QED BY <3>1, <3>2
  <2> QED BY <1>14, <2>1, <2>2
<1>17. CASE UNCHANGED job
    BY <1>2, <1>17 DEF Room, Left, Pending, Pushing, Ordered
<1>18. CASE TaskFails \/ EndScan \/ Crash
  <2>1. job' = IdleJob
      BY <1>18 DEF TaskFails, EndScan, Crash
  <2> QED BY <1>7, <2>1
<1>19. CASE (\E id \in Ids : SettleOrder(id)) \/ SetLimit \/ Tick \/ UNCHANGED vars
    BY <1>17, <1>19 DEF SettleOrder, SetLimit, Tick, vars
<1> QED BY <1>2, <1>8, <1>9, <1>10, <1>11, <1>12, <1>13, <1>15, <1>16, <1>18, <1>19 DEF Next

LEMMA RoomStep == Inv /\ Room /\ OverfillBounded /\ [Next]_vars => Room' /\ OverfillBounded'
<1> SUFFICES ASSUME Inv, Room, OverfillBounded, [Next]_vars, orders' # orders
             PROVE  Room' /\ OverfillBounded'
    BY RoomKept
<1>1. TypeOK
    BY DEF Inv
<1>2. /\ Cardinality(OpenIds) \in Nat /\ Len(job.out) \in Nat /\ job.out \in Seq(Ids)
      /\ IsFiniteSet(job.batch) /\ Cardinality(job.batch) \in Nat /\ MaxBatch \in Nat \ {0}
      /\ IsFiniteSet(OpenIds) /\ \A cap \in Caps : cap \in Nat \ {0}
    BY <1>1, Counted DEF Room
<1>3. CASE CreateOrder
  <2>1. /\ job.pc = "gate" /\ job.out # <<>> /\ job'.cap = job.cap /\ job'.batch = job.batch
        /\ job'.pc = "send" /\ job'.out = job.out
        /\ orders' = [orders EXCEPT ![Head(job.out)] = "OPEN"]
      BY <1>1, <1>3, JobMoves DEF CreateOrder
  <2>2. OpenIds' \in SUBSET (OpenIds \cup {Head(job.out)})
      BY <1>1, <2>1 DEF OpenIds, TypeOK
  <2>3. /\ IsFiniteSet(OpenIds \cup {Head(job.out)})
        /\ Cardinality(OpenIds \cup {Head(job.out)}) <= Cardinality(OpenIds) + 1
        /\ Cardinality(OpenIds \cup {Head(job.out)}) \in Nat
    <3>1. /\ IsFiniteSet(OpenIds \cup {Head(job.out)})
          /\ Cardinality(OpenIds \cup {Head(job.out)})
                 = IF Head(job.out) \in OpenIds THEN Cardinality(OpenIds)
                   ELSE Cardinality(OpenIds) + 1
        BY <1>2, FS_AddElement
    <3> QED BY <1>2, <3>1
  <2>4. Cardinality(OpenIds') <= Cardinality(OpenIds) + 1 /\ Cardinality(OpenIds') \in Nat
    <3>1. /\ Cardinality(OpenIds') <= Cardinality(OpenIds \cup {Head(job.out)})
          /\ IsFiniteSet(OpenIds')
        BY <2>2, <2>3, FS_Subset
    <3>2. Cardinality(OpenIds') \in Nat
        BY <3>1, FS_CardinalityType
    <3> QED BY <1>2, <2>3, <3>1, <3>2
  <2>5. job.cap \in Caps /\ job.cap \in Nat /\ Pushing /\ Len(job.out) > 0
      BY <1>2, <2>1 DEF Room, Pushing
  <2>6. Cardinality(OpenIds) + Len(job.out) + Cardinality(job.batch) <= job.cap - 1 + MaxBatch
      BY <1>2, <2>1, <2>5 DEF Room, Left, Pending, Ordered
  <2>7. Room'
      BY <1>2, <2>1, <2>4, <2>5, <2>6 DEF Room, Left, Pending, Ordered
  <2>8. Cardinality(OpenIds') <= job.cap + MaxBatch - 1
      BY <1>2, <2>4, <2>5, <2>6
  <2>9. OverfillBounded'
      BY <2>5, <2>8 DEF OverfillBounded, OpenIds
  <2> QED BY <2>7, <2>9
<1>4. ASSUME NEW id \in Ids, SettleOrder(id) PROVE Room' /\ OverfillBounded'
  <2>1. UNCHANGED job /\ job.pc = "idle"
      BY <1>4 DEF SettleOrder
  <2>2. OpenIds' \in SUBSET OpenIds
      BY <1>1, <1>4 DEF OpenIds, SettleOrder, TypeOK
  <2>3. Cardinality(OpenIds') <= Cardinality(OpenIds) /\ IsFiniteSet(OpenIds')
      BY <1>2, <2>2, FS_Subset
  <2>4. Cardinality(OpenIds') \in Nat
      BY <2>3, FS_CardinalityType
  <2>5. Room'
      BY <2>1 DEF Room, Left, Pending, Pushing
  <2>6. OverfillBounded'
    <3>1. PICK cap \in Caps : Cardinality(OpenIds) <= cap + MaxBatch - 1
        BY DEF OverfillBounded, OpenIds
    <3>2. Cardinality(OpenIds') <= cap + MaxBatch - 1
        BY <1>2, <2>3, <2>4, <3>1
    <3> QED BY <3>2 DEF OverfillBounded, OpenIds
  <2> QED BY <2>5, <2>6
<1>5. CreateOrder \/ \E id \in Ids : SettleOrder(id)
    BY DEF Next, vars, StartScan, SaveCandidate, Enqueue, CandidateFails, Gate, SendCandidate,
           MarkSent, TaskFails, EndScan, SetLimit, Tick, Crash, tables
<1> QED BY <1>3, <1>4, <1>5

LEMMA AlwaysInv == Spec => []Inv
BY InitInv, InvStep, PTL DEF Spec

(* The signal pipeline keeps its types, for any targets, limits, windows,  *)
(* batches and failures.                                                   *)
THEOREM PipelineTyped == Spec => []TypeOK
<1>1. Inv => TypeOK
    BY DEF Inv
<1> QED BY <1>1, AlwaysInv, PTL

(* A strategy never has two orders at work on a symbol in one direction:   *)
(* the check before each order and the one thread of the tasks suffice.    *)
THEOREM OneOrderEach == Spec => []OneOrderPerTarget
<1>1. Inv => OneOrderPerTarget
    BY DEF Inv
<1> QED BY <1>1, AlwaysInv, PTL

(* Two pushed signals of a target are further apart than some window the   *)
(* settings allow, although the check, the save and /setlimit are separate *)
(* transactions.                                                           *)
THEOREM DedupKept == Spec => []DedupRespected
<1>1. Inv => DedupRespected
    BY DEF Inv
<1> QED BY <1>1, AlwaysInv, PTL

(* The risk engine counts orders and not the candidates it has just let    *)
(* through, yet the orders at work exceed max_open_orders by a scan's      *)
(* batch less one at the most, whatever fails and whenever /setlimit comes. *)
THEOREM OverfillLimited == Spec => []OverfillBounded
<1>1. Init => Room /\ OverfillBounded
  <2> SUFFICES ASSUME Init PROVE Room /\ OverfillBounded
      OBVIOUS
  <2>1. job.pc = "idle" /\ job.out = <<>> /\ job.batch = {} /\ OpenIds = {}
      BY DEF Init, IdleJob, OpenIds
  <2>2. IsFiniteSet({}) /\ Cardinality({}) = 0
      BY FS_EmptySet
  <2>3. MaxBatch \in Nat \ {0} /\ Caps \subseteq Nat \ {0} /\ Caps # {}
      BY PipelineConstants
  <2>4. PICK cap \in Caps : cap \in Nat
      BY <2>3
  <2>5. OverfillBounded
    <3>1. 0 <= cap + MaxBatch - 1
        BY <2>3, <2>4
    <3>2. Cardinality({i \in Ids : orders[i] \in {"OPEN", "FILLED"}}) = 0
        BY <2>1, <2>2 DEF OpenIds
    <3> QED BY <3>1, <3>2 DEF OverfillBounded
  <2> QED BY <2>1, <2>2, <2>3, <2>5 DEF Room, Left, Pending, Pushing
<1> QED BY <1>1, AlwaysInv, RoomStep, PTL DEF Spec
=============================================================================
