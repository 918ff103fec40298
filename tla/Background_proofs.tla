-------------------------- MODULE Background_proofs --------------------------
(***************************************************************************)
(* For any number of mails, images, imports, requests and runs: what goes  *)
(* on in the background after a request is answered is accounted for.  A   *)
(* mail is sent once or its job says why not, a row keeps the image it     *)
(* names until another is in its place, and the record of an import tells  *)
(* what its runs have done.                                                *)
(***************************************************************************)
EXTENDS MC_Services, Services_proofs, FiniteSetTheorems

-----------------------------------------------------------------------------
(* Emails.  A step about one mail leaves the others as they are.           *)
OtherMails(m) ==
  \A n \in Mails \ {m} :
    /\ mail'[n] = mail[n] /\ job'[n] = job[n] /\ copies'[n] = copies[n]
    /\ n \in unsure' <=> n \in unsure
    /\ n \in swallowed' <=> n \in swallowed

LEMMA MailStep ==
  ASSUME EmailInv, NEW m \in Mails, EmailTypeOK', OtherMails(m), MailFits(m)'
  PROVE  EmailInv'
<1>1. ASSUME NEW n \in Mails, n # m PROVE MailFits(n)'
  <2>1. /\ mail'[n] = mail[n] /\ job'[n] = job[n] /\ copies'[n] = copies[n]
        /\ n \in unsure' <=> n \in unsure
        /\ n \in swallowed' <=> n \in swallowed
    BY <1>1 DEF OtherMails
  <2>2. MailFits(n)
    BY DEF EmailInv
  <2>3. QED BY <2>1, <2>2 DEF MailFits
<1>2. QED BY <1>1 DEF EmailInv

(* What the steps do to the one mail, field by field.                      *)
LEMMA MailFields ==
  ASSUME EmailTypeOK, NEW m \in Mails
  PROVE  /\ \A stage : MailGoes(m, stage) =>
              /\ mail'[m].stage = stage /\ mail'[m].bulk = mail[m].bulk
              /\ mail'[m].host = 1
              /\ \A n \in Mails \ {m} : mail'[n] = mail[n]
         /\ \A state : JobIs(m, state) =>
              /\ job'[m].state = state /\ job'[m].attempts = job[m].attempts
              /\ job'[m].host = 1
              /\ \A n \in Mails \ {m} : job'[n] = job[n]
         /\ Delivered(m) => /\ copies'[m] > 0
                            /\ copies[m] = 0 => copies'[m] = 1
                            /\ copies' \in [Mails -> 0 .. MaxCopies]
                            /\ \A n \in Mails \ {m} : copies'[n] = copies[n]
         /\ PerhapsDelivered(m) => /\ copies[m] > 0 => copies'[m] > 0
                                   /\ m \in unsure' /\ unsure' \subseteq Mails
                                   /\ copies' \in [Mails -> 0 .. MaxCopies]
                                   /\ \A n \in Mails \ {m} : copies'[n] = copies[n]
                                   /\ \A n \in Mails \ {m} : n \in unsure' <=> n \in unsure
<1>1. MaxCopies \in Nat \ {0}
  BY MailAssumption DEF MailAssumption
<1>2. ASSUME Delivered(m)
      PROVE  /\ copies'[m] > 0
             /\ copies[m] = 0 => copies'[m] = 1
             /\ copies' \in [Mails -> 0 .. MaxCopies]
             /\ \A n \in Mails \ {m} : copies'[n] = copies[n]
  <2>1. copies \in [Mails -> 0 .. MaxCopies]
    BY DEF EmailTypeOK
  <2>2. copies[m] \in 0 .. MaxCopies
    BY <2>1
  <2>3. PICK c : /\ copies' = [copies EXCEPT ![m] = c]
                 /\ c = IF copies[m] = MaxCopies THEN copies[m] ELSE copies[m] + 1
    BY <1>2, <2>1 DEF Delivered
  <2>4. c \in 1 .. MaxCopies /\ (copies[m] = 0 => c = 1)
    BY <1>1, <2>2, <2>3
  <2>5. QED BY <2>1, <2>3, <2>4
<1>3. PerhapsDelivered(m) => /\ copies[m] > 0 => copies'[m] > 0
                             /\ m \in unsure' /\ unsure' \subseteq Mails
                             /\ copies' \in [Mails -> 0 .. MaxCopies]
                             /\ \A n \in Mails \ {m} : copies'[n] = copies[n]
                             /\ \A n \in Mails \ {m} : n \in unsure' <=> n \in unsure
  BY <1>2 DEF PerhapsDelivered, EmailTypeOK
<1>4. ASSUME NEW stage, MailGoes(m, stage)
      PROVE  /\ mail'[m].stage = stage /\ mail'[m].bulk = mail[m].bulk
             /\ mail'[m].host = 1
             /\ \A n \in Mails \ {m} : mail'[n] = mail[n]
  BY <1>4 DEF MailGoes, EmailTypeOK
<1>5. ASSUME NEW state, JobIs(m, state)
      PROVE  /\ job'[m].state = state /\ job'[m].attempts = job[m].attempts
             /\ job'[m].host = 1
             /\ \A n \in Mails \ {m} : job'[n] = job[n]
  BY <1>5 DEF JobIs, EmailTypeOK
<1>6. QED BY <1>2, <1>3, <1>4, <1>5

MailStages == {"unsent", "checking", "adding", "sending", "accepted", "refused", "lost"}
JobStates == {"none", "waiting", "active", "done", "dead"}
MailRows == [stage: MailStages, bulk: BOOLEAN, host: 1 .. Hosts]
JobRows == [state: JobStates, host: 1 .. Hosts, attempts: 0 .. MailAttempts]

LEMMA MailTypes ==
  ASSUME EmailTypeOK, NEW m \in Mails
  PROVE  /\ \A stage \in MailStages : MailGoes(m, stage) => mail' \in [Mails -> MailRows]
         /\ \A state \in JobStates : JobIs(m, state) => job' \in [Mails -> JobRows]
<1>1. 1 \in 1 .. Hosts
  BY MailAssumption DEF MailAssumption
<1>2. mail \in [Mails -> MailRows] /\ job \in [Mails -> JobRows]
  BY DEF EmailTypeOK, MailRows, JobRows, MailStages, JobStates
<1>3. ASSUME NEW stage \in MailStages, MailGoes(m, stage)
      PROVE  mail' \in [Mails -> MailRows]
  <2>1. [mail[m] EXCEPT !.stage = stage, !.host = 1] \in MailRows
    BY <1>1, <1>2 DEF MailRows
  <2>2. mail' = [mail EXCEPT ![m] = [mail[m] EXCEPT !.stage = stage, !.host = 1]]
    BY <1>2, <1>3 DEF MailGoes
  <2>3. QED BY <1>2, <2>1, <2>2
<1>4. ASSUME NEW state \in JobStates, JobIs(m, state)
      PROVE  job' \in [Mails -> JobRows]
  <2>1. [job[m] EXCEPT !.state = state, !.host = 1] \in JobRows
    BY <1>1, <1>2 DEF JobRows
  <2>2. job' = [job EXCEPT ![m] = [job[m] EXCEPT !.state = state, !.host = 1]]
    BY <1>2, <1>4 DEF JobIs
  <2>3. QED BY <1>2, <2>1, <2>2
<1>5. QED BY <1>3, <1>4

(* The next host, of a send that failed on one before the last.            *)
LEMMA HostTypes ==
  ASSUME EmailTypeOK, NEW m \in Mails
  PROVE  /\ mail[m].host < Hosts =>
              [mail EXCEPT ![m].host = @ + 1] \in [Mails -> MailRows]
         /\ job[m].host < Hosts =>
              [job EXCEPT ![m].host = @ + 1] \in [Mails -> JobRows]
<1>1. mail \in [Mails -> MailRows] /\ job \in [Mails -> JobRows] /\ Hosts \in Nat
  BY MailAssumption DEF EmailTypeOK, MailRows, JobRows, MailStages, JobStates,
                        MailAssumption
<1>2. /\ mail[m] \in MailRows /\ mail[m].host \in 1 .. Hosts
      /\ job[m] \in JobRows /\ job[m].host \in 1 .. Hosts
  BY <1>1 DEF MailRows, JobRows
<1>3. ASSUME mail[m].host < Hosts
      PROVE  [mail EXCEPT ![m].host = @ + 1] \in [Mails -> MailRows]
  <2>1. mail[m].host + 1 \in 1 .. Hosts
    BY <1>1, <1>2, <1>3
  <2>2. [mail[m] EXCEPT !.host = mail[m].host + 1] \in MailRows
    BY <1>2, <2>1 DEF MailRows
  <2>3. QED BY <1>1, <2>2
<1>4. ASSUME job[m].host < Hosts
      PROVE  [job EXCEPT ![m].host = @ + 1] \in [Mails -> JobRows]
  <2>1. job[m].host + 1 \in 1 .. Hosts
    BY <1>1, <1>2, <1>4
  <2>2. [job[m] EXCEPT !.host = job[m].host + 1] \in JobRows
    BY <1>2, <2>1 DEF JobRows
  <2>3. QED BY <1>1, <2>2
<1>5. QED BY <1>3, <1>4

-----------------------------------------------------------------------------
(* The web process's steps.                                                *)
LEMMA DispatchStep ==
  ASSUME EmailInv, NEW m \in Mails, NEW bulk \in BOOLEAN, Dispatch(m, bulk)
  PROVE  EmailInv'
<1>1. 1 \in 1 .. Hosts
  BY MailAssumption DEF MailAssumption
<1>2. /\ mail'[m].stage \in {"checking", "sending"}
      /\ UNCHANGED <<job, copies, unsure, swallowed>>
      /\ mail[m].stage = "unsent"
      /\ \A n \in Mails \ {m} : mail'[n] = mail[n]
  BY DEF Dispatch, MailAt, EmailInv, EmailTypeOK
<1>3. EmailTypeOK'
  BY <1>1 DEF Dispatch, EmailInv, EmailTypeOK
<1>4. MailFits(m)'
  BY <1>2 DEF EmailInv, MailFits
<1>5. QED BY <1>2, <1>3, <1>4, MailStep DEF OtherMails

LEMMA CheckWorkersStep ==
  ASSUME EmailInv, NEW m \in Mails, CheckWorkers(m)
  PROVE  EmailInv'
<1>1. PICK stage \in {"adding", "sending"} : MailGoes(m, stage)
  BY DEF CheckWorkers
<1>2. /\ UNCHANGED <<job, copies, redisUp, workersUp, unsure, swallowed>>
      /\ mail[m].stage = "checking"
  BY DEF CheckWorkers, MailAt
<1>3. EmailTypeOK'
  BY <1>1, <1>2, MailTypes DEF CheckWorkers, EmailInv, EmailTypeOK, MailRows, JobRows, MailStages, JobStates
<1>4. MailFits(m)'
  BY <1>1, <1>2, MailFields DEF EmailInv, MailFits
<1>5. QED BY <1>1, <1>2, <1>3, <1>4, MailStep, MailFields DEF OtherMails, EmailInv

LEMMA AddEmailStep ==
  ASSUME EmailInv, NEW m \in Mails, AddEmail(m)
  PROVE  EmailInv'
<1>1. /\ JobIs(m, "waiting") /\ MailGoes(m, "accepted")
      /\ UNCHANGED <<copies, redisUp, workersUp, workerCheck, unsure, swallowed>>
      /\ mail[m].stage = "adding"
  BY DEF AddEmail, MailAt
<1>2. EmailTypeOK'
  BY <1>1, MailTypes DEF EmailInv, EmailTypeOK,
     MailRows, JobRows, MailStages, JobStates
<1>3. MailFits(m)'
  BY <1>1, MailFields, MailAssumption DEF EmailInv, MailFits, MailAssumption
<1>4. QED BY <1>1, <1>2, <1>3, MailStep, MailFields DEF OtherMails, EmailInv

LEMMA AddUnconfirmedStep ==
  ASSUME EmailInv, NEW m \in Mails, NEW landed \in BOOLEAN, AddUnconfirmed(m, landed)
  PROVE  EmailInv'
<1>1. /\ MailGoes(m, "sending") /\ mail[m].stage = "adding"
      /\ UNCHANGED <<copies, redisUp, workersUp, workerCheck, swallowed>>
      /\ \/ JobIs(m, "waiting") /\ unsure' = unsure \cup {m}
         \/ UNCHANGED <<job, unsure>>
  BY DEF AddUnconfirmed, MailAt
<1>2. EmailTypeOK'
  BY <1>1, MailTypes DEF EmailInv, EmailTypeOK,
     MailRows, JobRows, MailStages, JobStates
<1>3. MailFits(m)'
  BY <1>1, MailFields, MailAssumption DEF EmailInv, MailFits, MailAssumption
<1>4. QED BY <1>1, <1>2, <1>3, MailStep, MailFields DEF OtherMails, EmailInv

LEMMA SendDirectlyStep ==
  ASSUME EmailInv, NEW m \in Mails, SendDirectly(m)
  PROVE  EmailInv'
<1>1. /\ MailGoes(m, "accepted") /\ Delivered(m) /\ mail[m].stage = "sending"
      /\ UNCHANGED <<job, redisUp, workersUp, workerCheck, unsure, swallowed>>
  BY DEF SendDirectly, MailAt
<1>2. EmailTypeOK'
  BY <1>1, MailTypes, MailFields DEF EmailInv, EmailTypeOK,
     MailRows, JobRows, MailStages, JobStates
<1>3. MailFits(m)'
  BY <1>1, MailFields DEF EmailInv, MailFits
<1>4. QED BY <1>1, <1>2, <1>3, MailStep, MailFields DEF OtherMails, EmailInv

LEMMA DirectSendFailsStep ==
  ASSUME EmailInv, NEW m \in Mails, DirectSendFails(m)
  PROVE  EmailInv'
<1>1. /\ mail[m].stage = "sending" /\ NextHost(m)
      /\ PerhapsDelivered(m) \/ UNCHANGED <<copies, unsure>>
      /\ UNCHANGED <<job, redisUp, workersUp, workerCheck>>
  BY DEF DirectSendFails, MailAt
<1>2. /\ mail' \in [Mails -> MailRows]
      /\ swallowed' \subseteq Mails /\ swallowed \subseteq swallowed'
      /\ mail'[m].stage \in {"sending", "accepted", "refused"}
      /\ mail'[m].stage = "accepted" => m \in swallowed'
      /\ \A n \in Mails \ {m} : mail'[n] = mail[n] /\ (n \in swallowed' <=> n \in swallowed)
  <2>1. CASE mail[m].host < Hosts
    <3>1. mail' = [mail EXCEPT ![m].host = @ + 1] /\ UNCHANGED swallowed
      BY <1>1, <2>1 DEF NextHost
    <3>2. mail'[m].stage = "sending" /\ \A n \in Mails \ {m} : mail'[n] = mail[n]
      BY <1>1, <3>1 DEF EmailInv, EmailTypeOK
    <3>3. QED BY <2>1, <3>1, <3>2, HostTypes DEF EmailInv, EmailTypeOK
  <2>2. CASE ~(mail[m].host < Hosts)
    <3>1. MailGoes(m, IF mail[m].bulk THEN "accepted" ELSE "refused")
          /\ swallowed' = IF mail[m].bulk THEN swallowed \cup {m} ELSE swallowed
      BY <1>1, <2>2 DEF NextHost
    <3>2. EmailTypeOK /\ swallowed \subseteq Mails
      BY DEF EmailInv, EmailTypeOK
    <3>3. PICK stage \in {"accepted", "refused"} :
            MailGoes(m, stage) /\ (stage = "accepted" <=> mail[m].bulk)
      BY <3>1
    <3>4. mail' \in [Mails -> MailRows]
      BY <3>2, <3>3, MailTypes DEF MailStages
    <3>5. mail'[m].stage = stage /\ \A n \in Mails \ {m} : mail'[n] = mail[n]
      BY <3>2, <3>3, MailFields
    <3>6. QED BY <3>1, <3>2, <3>3, <3>4, <3>5
  <2>3. QED BY <2>1, <2>2
<1>3. EmailTypeOK'
  BY <1>1, <1>2, MailFields DEF EmailInv, EmailTypeOK,
     MailRows, JobRows, MailStages, JobStates
<1>4. MailFits(m)'
  BY <1>1, <1>2, MailFields DEF EmailInv, MailFits
<1>5. OtherMails(m)
  BY <1>1, <1>2, MailFields DEF OtherMails, EmailInv
<1>6. QED BY <1>3, <1>4, <1>5, MailStep

LEMMA WebStopsStep ==
  ASSUME EmailInv, NEW m \in Mails, WebStops(m)
  PROVE  EmailInv'
<1>1. /\ mail[m].stage \in {"checking", "adding", "sending"} /\ MailGoes(m, "lost")
      /\ \/ mail[m].stage = "sending" /\ PerhapsDelivered(m)
         \/ UNCHANGED <<copies, unsure>>
      /\ \/ mail[m].stage = "adding" /\ JobIs(m, "waiting")
         \/ UNCHANGED job
      /\ UNCHANGED <<redisUp, workersUp, workerCheck, swallowed>>
  BY DEF WebStops, MailAt
<1>2. EmailTypeOK'
  BY <1>1, MailTypes, MailFields DEF EmailInv, EmailTypeOK,
     MailRows, JobRows, MailStages, JobStates
<1>3. MailFits(m)'
  BY <1>1, MailFields, MailAssumption DEF EmailInv, MailFits, MailAssumption
<1>4. OtherMails(m)
  BY <1>1, MailFields DEF OtherMails, EmailInv
<1>5. QED BY <1>2, <1>3, <1>4, MailStep

-----------------------------------------------------------------------------
(* The worker's steps.                                                     *)
LEMMA TakeEmailStep ==
  ASSUME EmailInv, NEW m \in Mails, TakeEmail(m)
  PROVE  EmailInv'
<1>1. /\ job[m].state = "waiting"
      /\ UNCHANGED <<mail, redisUp, workersUp, workerCheck, swallowed, copies, unsure>>
      /\ job' = [job EXCEPT ![m] = [state |-> "active", host |-> 1,
                                    attempts |-> job[m].attempts + 1]]
  BY DEF TakeEmail, WorkerOnly
<1>2. job[m].attempts + 1 \in 0 .. MailAttempts /\ 1 \in 1 .. Hosts
  <2>1. job[m].attempts \in 0 .. MailAttempts
    BY DEF EmailInv, EmailTypeOK
  <2>2. job[m].attempts < MailAttempts
    BY <1>1 DEF EmailInv, MailFits
  <2>3. QED BY <2>1, <2>2, MailAssumption DEF MailAssumption
<1>3. EmailTypeOK'
  BY <1>1, <1>2 DEF EmailInv, EmailTypeOK
<1>4. job'[m].state = "active" /\ \A n \in Mails \ {m} : job'[n] = job[n]
  BY <1>1 DEF EmailInv, EmailTypeOK
<1>5. MailFits(m)'
  BY <1>1, <1>4 DEF EmailInv, MailFits
<1>6. QED BY <1>1, <1>3, <1>4, <1>5, MailStep DEF OtherMails

LEMMA WorkerSendsStep ==
  ASSUME EmailInv, NEW m \in Mails, WorkerSends(m)
  PROVE  EmailInv'
<1>1. /\ job[m].state = "active" /\ Delivered(m) /\ JobIs(m, "done")
      /\ UNCHANGED <<mail, redisUp, workersUp, workerCheck, swallowed, unsure>>
  BY DEF WorkerSends, WorkerOnly, Working
<1>2. EmailTypeOK'
  BY <1>1, MailTypes, MailFields DEF EmailInv, EmailTypeOK,
     MailRows, JobRows, MailStages, JobStates
<1>3. MailFits(m)'
  BY <1>1, MailFields DEF EmailInv, MailFits
<1>4. QED BY <1>1, <1>2, <1>3, MailStep, MailFields DEF OtherMails, EmailInv

(* The job stays active, waits again or is dead.                           *)
LEMMA JobFailsStep ==
  ASSUME EmailInv, NEW m \in Mails, job[m].state = "active",
         JobFails(m) \/ (job[m].host < Hosts /\ job' = [job EXCEPT ![m].host = @ + 1]),
         PerhapsDelivered(m) \/ UNCHANGED <<copies, unsure>>,
         WorkerOnly
  PROVE  EmailInv'
<1>1. UNCHANGED <<mail, redisUp, workersUp, workerCheck, swallowed>>
  BY DEF WorkerOnly
<1>2. /\ job' \in [Mails -> JobRows]
      /\ job'[m].state \in {"waiting", "active", "dead"}
      /\ job'[m].state = "waiting" => job'[m].attempts < MailAttempts
      /\ \A n \in Mails \ {m} : job'[n] = job[n]
  <2>1. CASE JobFails(m)
    BY <2>1, MailTypes, MailFields DEF JobFails, EmailInv, JobStates
  <2>2. CASE job[m].host < Hosts /\ job' = [job EXCEPT ![m].host = @ + 1]
    <3>1. job'[m].state = "active" /\ \A n \in Mails \ {m} : job'[n] = job[n]
      BY <2>2 DEF EmailInv, EmailTypeOK
    <3>2. QED BY <2>2, <3>1, HostTypes DEF EmailInv
  <2>3. QED BY <2>1, <2>2
<1>3. EmailTypeOK'
  BY <1>1, <1>2, MailFields DEF EmailInv, EmailTypeOK,
     MailRows, JobRows, MailStages, JobStates
<1>4. MailFits(m)'
  BY <1>1, <1>2, MailFields DEF EmailInv, MailFits
<1>5. OtherMails(m)
  BY <1>1, <1>2, MailFields DEF OtherMails, EmailInv
<1>6. QED BY <1>3, <1>4, <1>5, MailStep

LEMMA EmailInitInv == EmailInit => EmailInv
<1>1. {Hosts, MailAttempts, MaxCopies} \subseteq Nat \ {0}
  BY MailAssumption DEF MailAssumption
<1>2. QED BY <1>1 DEF EmailInit, EmailInv, EmailTypeOK, MailFits

LEMMA EmailNextInv ==
  ASSUME EmailInv, [EmailNext]_mailVars
  PROVE  EmailInv'
<1>1. ASSUME NEW m \in Mails, NEW bulk \in BOOLEAN, NEW landed \in BOOLEAN,
             \/ Dispatch(m, bulk) \/ CheckWorkers(m) \/ AddEmail(m) \/ SendDirectly(m)
             \/ DirectSendFails(m) \/ WebStops(m) \/ AddUnconfirmed(m, landed)
      PROVE  EmailInv'
  BY <1>1, DispatchStep, CheckWorkersStep, AddEmailStep, SendDirectlyStep,
     DirectSendFailsStep, WebStopsStep, AddUnconfirmedStep
<1>2. ASSUME NEW m \in Mails,
             \/ TakeEmail(m) \/ WorkerSends(m) \/ WorkerSendFails(m)
             \/ BreakerRejects(m) \/ Overtaken(m)
      PROVE  EmailInv'
  <2>1. CASE WorkerSendFails(m) \/ BreakerRejects(m) \/ Overtaken(m)
    <3>1. /\ job[m].state = "active" /\ WorkerOnly
          /\ JobFails(m) \/ (job[m].host < Hosts /\ job' = [job EXCEPT ![m].host = @ + 1])
          /\ PerhapsDelivered(m) \/ UNCHANGED <<copies, unsure>>
      BY <2>1 DEF WorkerSendFails, BreakerRejects, Overtaken, Working
    <3>2. QED BY <3>1, JobFailsStep
  <2>2. QED BY <1>2, <2>1, TakeEmailStep, WorkerSendsStep
<1>3. ASSUME ForgetWorkerCheck \/ WorkersChange \/ RedisGoes \/ UNCHANGED mailVars
      PROVE  EmailInv'
  BY <1>3 DEF ForgetWorkerCheck, WorkersChange, RedisGoes, mailVars, EmailInv,
              EmailTypeOK, MailFits
<1>4. QED BY <1>1, <1>2, <1>3 DEF EmailNext

(* What queueEmail accepts is sent, or its job says where it is; a second  *)
(* copy, or a copy of a refused mail, needs a lost answer.                 *)
THEOREM MailAccounted == EmailSpec => []SentOnceOrAccounted
<1>1. EmailInv => SentOnceOrAccounted
  BY DEF EmailInv, EmailTypeOK, MailFits, SentOnceOrAccounted
<1>2. QED BY <1>1, EmailInitInv, EmailNextInv, PTL DEF EmailSpec

-----------------------------------------------------------------------------
(* Payment QR codes.                                                       *)
LEMMA RacedQr ==
  ASSUME NEW x \in QrRequest, NEW y, y = [x EXCEPT !.raced = TRUE]
  PROVE  /\ y \in QrRequest /\ y.stage = x.stage /\ y.op = x.op /\ y.row = x.row
         /\ y.entity = x.entity /\ y.old = x.old /\ y.reads = x.reads /\ y.raced
BY DEF QrRequest

LEMMA BesideQr ==
  ASSUME NEW x \in QrRequest, NEW items, NEW y, Beside(x, y, items)
  PROVE  /\ y \in QrRequest /\ y.stage = x.stage /\ y.op = x.op /\ y.row = x.row
         /\ y.entity = x.entity /\ y.old = x.old /\ y.reads = x.reads
         /\ x.raced => y.raced
         /\ x.reads \cap items # {} => y.raced
<1>1. CASE y = x /\ x.reads \cap items = {}
  BY <1>1
<1>2. CASE y = [x EXCEPT !.raced = TRUE] /\ x.reads \cap items # {}
  BY <1>2, RacedQr
<1>3. QED BY <1>1, <1>2 DEF Beside

(* What a step of request q leaves of the others.                          *)
LEMMA QrOthers ==
  ASSUME QrTypeOK, NEW q \in Requests, NEW r \in QrRequest, NEW items,
         QrGoesOn(q, r, items)
  PROVE  /\ qrReq' \in [Requests -> QrRequest] /\ qrReq'[q] = r
         /\ \A p \in Requests \ {q} :
              /\ qrReq'[p].stage = qrReq[p].stage /\ qrReq'[p].op = qrReq[p].op
              /\ qrReq'[p].row = qrReq[p].row /\ qrReq'[p].entity = qrReq[p].entity
              /\ qrReq'[p].old = qrReq[p].old /\ qrReq'[p].reads = qrReq[p].reads
              /\ qrReq[p].raced => qrReq'[p].raced
              /\ qrReq[p].reads \cap items # {} => qrReq'[p].raced
<1>1. qrReq' = GoesOn(qrReq, q, r, items)
  BY DEF QrGoesOn
<1>2. /\ qrReq'[q] = r
      /\ \A p \in Requests \ {q} : Beside(qrReq[p], qrReq'[p], items)
  BY <1>1, StepBeside
<1>3. ASSUME NEW p \in Requests \ {q}
      PROVE  /\ qrReq'[p] \in QrRequest
             /\ qrReq'[p].stage = qrReq[p].stage /\ qrReq'[p].op = qrReq[p].op
             /\ qrReq'[p].row = qrReq[p].row /\ qrReq'[p].entity = qrReq[p].entity
             /\ qrReq'[p].old = qrReq[p].old /\ qrReq'[p].reads = qrReq[p].reads
             /\ qrReq[p].raced => qrReq'[p].raced
             /\ qrReq[p].reads \cap items # {} => qrReq'[p].raced
  <2>1. qrReq[p] \in QrRequest /\ Beside(qrReq[p], qrReq'[p], items)
    BY <1>2 DEF QrTypeOK
  <2>2. QED BY <2>1, BesideQr
<1>4. \A p \in Requests : qrReq'[p] \in QrRequest
  BY <1>2, <1>3
<1>5. qrReq' \in [Requests -> QrRequest]
  BY <1>1, <1>4 DEF GoesOn
<1>6. QED BY <1>2, <1>3, <1>5

(* Whose an image is stays, unless more know of it.                        *)
LEMMA BelongsKept ==
  ASSUME OfOneRow, fresh' \subseteq fresh,
         \A a \in Assets, i \in QrRows : Belongs(a, i)' => Belongs(a, i)
  PROVE  OfOneRow'
BY DEF OfOneRow

(* Whatever a request names is of its row, and so not uploaded anew.       *)
LEMMA NamesBelong ==
  ASSUME QrInv, NEW q \in Requests, NEW a \in Assets,
         QrRequestNames(q, a) \/ qrReq[q].old = a
  PROVE  /\ qrReq[q].stage # "unsent" /\ qrReq[q].row \in QrRows
         /\ Belongs(a, qrReq[q].row) /\ a \notin fresh
<1>1. qrReq[q].stage # "unsent"
  BY NoImageAssumption DEF QrInv, QrKnows, QrRequestNames, NoImageAssumption
<1>2. qrReq[q].row \in QrRows
  BY <1>1 DEF QrInv, QrKnows
<1>3. Belongs(a, qrReq[q].row)
  BY DEF Belongs
<1>4. QED BY <1>1, <1>2, <1>3 DEF QrInv, OfOneRow

(* The upload a request is about to save.                                  *)
Uploads(q, a) == QrAt(q, "ready", {"create file", "file"}) /\ QrRequestNames(q, a)

LEMMA UploadOfOne ==
  ASSUME QrInv, NEW q \in Requests, QrAt(q, "ready", {"create file", "file"})
  PROVE  LET a == qrReq[q].entity.publicId
         IN  a \in Assets /\ UploadIsNew(q) /\ Uploads(q, a)
<1>1. UploadIsNew(q)
  BY DEF QrInv, QrKnows
<1>2. qrReq[q].entity.publicId \in Assets
  BY <1>1 DEF UploadIsNew, QrInv, QrTypeOK
<1>3. QED BY <1>1, <1>2 DEF Uploads, QrRequestNames, QrAt

LEMMA UploadsNew ==
  ASSUME QrInv, NEW q \in Requests, NEW a \in Assets, Uploads(q, a)
  PROVE  /\ a \in assets \ doomed
         /\ \A i \in QrRows : ~RowNames(i, a)
         /\ \A p \in Requests \ {q} : ~QrRequestNames(p, a)
<1>1. UploadIsNew(q) /\ qrReq[q].entity.publicId = a
  BY DEF QrInv, QrKnows, Uploads, QrRequestNames
<1>2. QED BY <1>1 DEF UploadIsNew

(* What request p knows as q goes on: its upload is not taken, doomed or   *)
(* named by another, and the row is as it was or it is raced.              *)
LEMMA QrStillKnows ==
  ASSUME QrInv, NEW q \in Requests, NEW r \in QrRequest, NEW items,
         QrGoesOn(q, r, items), NEW p \in Requests \ {q},
         \A i \in QrRows : qrs'[i] = qrs[i] \/ i \in items,
         \A a \in Assets : Uploads(p, a) =>
           /\ a \in assets' \ doomed' /\ ~QrRequestNames(q, a)'
           /\ \A i \in QrRows : ~RowNames(i, a)'
  PROVE  QrKnows(p)'
<1>1. /\ qrReq'[p].stage = qrReq[p].stage /\ qrReq'[p].op = qrReq[p].op
      /\ qrReq'[p].row = qrReq[p].row /\ qrReq'[p].entity = qrReq[p].entity
      /\ qrReq'[p].old = qrReq[p].old /\ qrReq'[p].reads = qrReq[p].reads
      /\ qrReq[p].raced => qrReq'[p].raced
      /\ qrReq[p].reads \cap items # {} => qrReq'[p].raced
  BY QrOthers DEF QrInv
<1>2. QrKnows(p)
  BY DEF QrInv
<1>3. ASSUME QrAt(p, "ready", {"create file", "file"})'
      PROVE  UploadIsNew(p)'
  <2>1. QrAt(p, "ready", {"create file", "file"})
    BY <1>1, <1>3 DEF QrAt
  <2>2. PICK a \in Assets :
          a = qrReq[p].entity.publicId /\ UploadIsNew(p) /\ Uploads(p, a)
    BY <2>1, UploadOfOne
  <2>3. ASSUME NEW o \in Requests \ {p} PROVE ~QrRequestNames(o, a)'
    <3>1. CASE o = q
      BY <2>2, <3>1
    <3>2. CASE o # q
      <4>1. /\ qrReq'[o].entity = qrReq[o].entity
              /\ qrReq'[o].stage = qrReq[o].stage
        BY <3>2, QrOthers DEF QrInv
      <4>2. ~QrRequestNames(o, a)
        BY <2>2, UploadsNew
      <4>3. QED BY <4>1, <4>2 DEF QrRequestNames
    <3>3. QED BY <3>1, <3>2
  <2>4. qrReq[p].entity.url = a
    BY <2>2 DEF UploadIsNew
  <2>5. QED BY <1>1, <2>2, <2>3, <2>4 DEF UploadIsNew
<1>4. ASSUME QrAt(p, "found", {"file", "url", "toggle", "demo", "delete"})'
      PROVE  qrReq'[p].row \in qrReq'[p].reads
             /\ \/ qrReq'[p].raced
                \/ /\ qrs'[qrReq'[p].row] # None
                   /\ qrs'[qrReq'[p].row] = qrReq'[p].entity
  <2>1. /\ QrAt(p, "found", {"file", "url", "toggle", "demo", "delete"})
        /\ qrReq[p].row \in QrRows
    BY <1>1, <1>2, <1>4 DEF QrAt, QrKnows
  <2>2. QED BY <1>1, <1>2, <2>1 DEF QrKnows
<1>5. QED BY <1>1, <1>2, <1>3, <1>4 DEF QrKnows

(* A step that touches neither rows nor images but the requests' q.        *)
LEMMA QrOnlyStep ==
  ASSUME QrInv, NEW q \in Requests, NEW r \in QrRequest, QrOnly(q, r), QrKnows(q)',
         \A a \in Assets, i \in QrRows :
           r.row = i /\ (QrRequestNames(q, a)' \/ r.old = a) => Belongs(a, i),
         \A p \in Requests \ {q}, a \in Assets :
           Uploads(p, a) => ~QrRequestNames(q, a)',
         \A a \in Assets : LetsGo(q, a) => LetsGo(q, a)'
  PROVE  QrInv'
<1>1. QrGoesOn(q, r, {}) /\ UNCHANGED <<qrs, assets, doomed, fresh, staleRows>>
  BY DEF QrOnly
<1>2. /\ qrReq' \in [Requests -> QrRequest] /\ qrReq'[q] = r
      /\ \A p \in Requests \ {q} :
           /\ qrReq'[p].stage = qrReq[p].stage /\ qrReq'[p].row = qrReq[p].row
           /\ qrReq'[p].entity = qrReq[p].entity /\ qrReq'[p].old = qrReq[p].old
  <2>1. QrTypeOK
    BY DEF QrInv
  <2>2. QED BY <1>1, <2>1, QrOthers
<1>3. QrTypeOK' /\ (fresh \cap doomed = {})'
  BY <1>1, <1>2 DEF QrInv, QrTypeOK
<1>4. \A i \in QrRows : (qrs[i] # None => Scannable(qrs[i]))'
  BY <1>1 DEF QrInv, Scannable
<1>5. OfOneRow'
  <2>1. ASSUME NEW a \in Assets, NEW i \in QrRows, Belongs(a, i)'
        PROVE  Belongs(a, i)
    BY <1>1, <1>2, <2>1 DEF Belongs, RowNames, QrRequestNames
  <2>2. QED BY <1>1, <2>1, BelongsKept DEF QrInv
<1>6. ASSUME NEW p \in Requests PROVE QrKnows(p)'
  <2>1. CASE p # q
    <3>1. ASSUME NEW a \in Assets, Uploads(p, a)
          PROVE  /\ a \in assets' \ doomed' /\ ~QrRequestNames(q, a)'
                 /\ \A i \in QrRows : ~RowNames(i, a)'
      BY <1>1, <2>1, <3>1, UploadsNew DEF RowNames
    <3>2. QED BY <1>1, <2>1, <3>1, QrStillKnows
  <2>2. QED BY <2>1
<1>7. RowsKeepTheirImages'
  <2>1. ASSUME NEW p \in Requests, NEW a \in Assets, LetsGo(p, a) PROVE LetsGo(p, a)'
    BY <1>2, <2>1 DEF LetsGo
  <2>2. ASSUME NEW i \in QrRows \ staleRows, qrs[i] # None, NEW a \in Assets,
               qrs[i].url = a
        PROVE  a \in assets \ doomed \/ \E p \in Requests : LetsGo(p, a)'
    BY <2>1, <2>2 DEF QrInv, RowsKeepTheirImages
  <2>3. QED BY <1>1, <2>2 DEF RowsKeepTheirImages, LetsGo
<1>8. QED BY <1>3, <1>4, <1>5, <1>6, <1>7 DEF QrInv

LEMMA StartQrStep ==
  ASSUME QrInv, NEW q \in Requests, NEW i \in QrRows,
         NEW op \in {"create file", "create url"}, StartQr(q, i, op)
  PROVE  QrInv'
<1> DEFINE r == [NoQrRequest EXCEPT !.stage = "found", !.op = op, !.row = i,
                                    !.entity = [url |-> External, publicId |-> None]]
<1>1. /\ r \in QrRequest /\ r.stage = "found" /\ r.op = op /\ r.row = i /\ r.old = None
      /\ r.entity \in QrRow /\ r.entity.url = External /\ r.entity.publicId = None
  BY DEF NoQrRequest, QrRequest, QrRow, QrOps
<1>2. qrReq[q].stage = "unsent" /\ QrOnly(q, r)
  BY DEF StartQr
<1> HIDE DEF r
<1>3. qrReq'[q] = r
  BY <1>1, <1>2, QrOthers DEF QrOnly, QrInv
<1>4. QrKnows(q)'
  BY <1>1, <1>3, NoImageAssumption DEF QrKnows, QrAt, Scannable, QrOps, NoImageAssumption
<1>5. \A a \in Assets : ~QrRequestNames(q, a)' /\ r.old # a /\ ~LetsGo(q, a)
  BY <1>1, <1>2, <1>3, NoImageAssumption DEF QrRequestNames, NoImageAssumption, LetsGo
<1>6. QED BY <1>1, <1>2, <1>4, <1>5, QrOnlyStep

LEMMA FindQrStep ==
  ASSUME QrInv, NEW q \in Requests, NEW i \in QrRows,
         NEW op \in {"file", "url", "toggle", "demo", "delete"}, FindQr(q, i, op)
  PROVE  QrInv'
<1> DEFINE r == [NoQrRequest EXCEPT !.stage = "found", !.op = op, !.row = i,
                                    !.entity = qrs[i], !.reads = {i}]
<1>1. qrReq[q].stage = "unsent" /\ qrs[i] # None /\ QrOnly(q, r)
  BY DEF FindQr
<1>2. qrs[i] \in QrRow /\ Scannable(qrs[i])
  BY <1>1 DEF QrInv, QrTypeOK
<1>3. /\ r \in QrRequest /\ r.stage = "found" /\ r.op = op /\ r.row = i /\ r.old = None
      /\ r.entity = qrs[i] /\ r.reads = {i}
  BY <1>2 DEF NoQrRequest, QrRequest, QrOps
<1> HIDE DEF r
<1>4. qrReq'[q] = r /\ qrs' = qrs
  BY <1>1, <1>3, QrOthers DEF QrOnly, QrInv
<1>5. QrKnows(q)'
  <2>1. qrs'[qrReq'[q].row] # None /\ qrs'[qrReq'[q].row] = qrReq'[q].entity
    BY <1>1, <1>3, <1>4
  <2>2. QED BY <1>2, <1>3, <1>4, <2>1 DEF QrKnows, QrAt, QrOps, Scannable
<1>6. \A a \in Assets : /\ QrRequestNames(q, a)' => RowNames(i, a)
                        /\ r.old # a /\ ~LetsGo(q, a)
  BY <1>1, <1>3, <1>4, NoImageAssumption
  DEF QrRequestNames, NoImageAssumption, LetsGo, RowNames
<1>7. ASSUME NEW p \in Requests \ {q}, NEW a \in Assets, Uploads(p, a)
      PROVE  ~QrRequestNames(q, a)'
  BY <1>6, <1>7, UploadsNew
<1>8. \A a \in Assets, j \in QrRows :
        r.row = j /\ (QrRequestNames(q, a)' \/ r.old = a) => Belongs(a, j)
  BY <1>3, <1>6 DEF Belongs
<1>9. QED BY <1>1, <1>3, <1>5, <1>6, <1>7, <1>8, QrOnlyStep

LEMMA FailQrStep ==
  ASSUME QrInv, NEW q \in Requests, FailQr(q)
  PROVE  QrInv'
<1> DEFINE r == Over(qrReq[q], "failed")
<1>1. qrReq[q].stage # "unsent" /\ QrOnly(q, r)
  BY DEF FailQr
<1>2. /\ r \in QrRequest /\ r.stage = "failed" /\ r.op = qrReq[q].op
      /\ r.row = qrReq[q].row /\ r.entity = qrReq[q].entity /\ r.old = qrReq[q].old
  BY DEF Over, QrRequest, QrInv, QrTypeOK
<1> HIDE DEF r
<1>3. qrReq'[q] = r
  BY <1>1, <1>2, QrOthers DEF QrOnly, QrInv
<1>4. QrKnows(q)'
  BY <1>1, <1>2, <1>3 DEF QrKnows, QrAt, QrInv, Scannable
<1>5. ASSUME NEW a \in Assets
      PROVE  /\ QrRequestNames(q, a)' => QrRequestNames(q, a)
             /\ r.old = a => qrReq[q].old = a
             /\ LetsGo(q, a) => LetsGo(q, a)'
  BY <1>1, <1>2, <1>3 DEF QrRequestNames, LetsGo
<1>6. \A a \in Assets, i \in QrRows :
        r.row = i /\ (QrRequestNames(q, a)' \/ r.old = a) => Belongs(a, i)
  BY <1>2, <1>5 DEF Belongs
<1>7. ASSUME NEW p \in Requests \ {q}, NEW a \in Assets, Uploads(p, a)
      PROVE  ~QrRequestNames(q, a)'
  BY <1>5, <1>7, UploadsNew
<1>8. QED BY <1>1, <1>2, <1>4, <1>5, <1>6, <1>7, QrOnlyStep

(* An upload, or the deletion of the image before the row's: the image of  *)
(* the entity is doomed, and another may be in its place.                  *)
LEMMA PartStep ==
  ASSUME QrInv, NEW q \in Requests, qrReq[q].stage = "found", NEW r \in QrRequest,
         QrGoesOn(q, r, {}), UNCHANGED <<qrs, staleRows>>, NEW news,
         news \subseteq fresh, assets' = assets \cup news, fresh' = fresh \ news,
         doomed' = doomed \cup ({qrReq[q].entity.publicId} \ {None}),
         r.stage \in {"ready", "parting"}, r.old = qrReq[q].entity.publicId,
         r.row = qrReq[q].row,
         r.entity.publicId \in news \cup {qrReq[q].entity.publicId},
         /\ r.op \in QrOps /\ r.entity \in QrRow /\ Scannable(r.entity)
         /\ r.op = "create url" => r.entity.url = External
         /\ r.stage = "ready" => r.entity.publicId \in news
                                 /\ r.entity.url = r.entity.publicId
  PROVE  QrInv'
<1> DEFINE old == qrReq[q].entity.publicId
<1>0. QrTypeOK /\ news \subseteq Assets
  BY DEF QrInv, QrTypeOK
<1>1. /\ qrReq' \in [Requests -> QrRequest] /\ qrReq'[q] = r
      /\ \A p \in Requests \ {q} :
           /\ qrReq'[p].stage = qrReq[p].stage /\ qrReq'[p].row = qrReq[p].row
           /\ qrReq'[p].op = qrReq[p].op
           /\ qrReq'[p].entity = qrReq[p].entity /\ qrReq'[p].old = qrReq[p].old
  BY <1>0, QrOthers, ZenonT(60)
<1>2. qrReq[q].row \in QrRows /\ qrReq[q].entity \in QrRow
  BY DEF QrInv, QrKnows
<1>3. old \in Assets \cup {None}
  BY <1>2 DEF QrRow
<1>4. old \in Assets => QrRequestNames(q, old) /\ Belongs(old, qrReq[q].row) /\ old \notin fresh
  <2>1. QrRequestNames(q, old)
    BY DEF QrRequestNames
  <2>2. QED BY <2>1, NamesBelong
<1>5. \A a \in news : a \in assets' \ doomed'
  BY <1>0, <1>3, <1>4 DEF QrInv
<1> HIDE DEF old
<1>6. QrTypeOK' /\ (fresh \cap doomed = {})'
  BY <1>0, <1>1, <1>3, <1>4 DEF QrInv, QrTypeOK, old
<1>7. \A i \in QrRows : (qrs[i] # None => Scannable(qrs[i]))'
  BY DEF QrInv, Scannable
<1>8. ASSUME NEW a \in Assets, a \notin news, NEW i \in QrRows, Belongs(a, i)'
      PROVE  Belongs(a, i)
  <2>1. CASE RowNames(i, a)'
    BY <2>1 DEF RowNames, Belongs
  <2>2. ASSUME NEW p \in Requests, qrReq'[p].row = i,
               QrRequestNames(p, a)' \/ qrReq'[p].old = a
        PROVE  Belongs(a, i)
    <3>1. CASE p = q
      BY <1>1, <1>8, <2>2, <3>1 DEF Belongs, QrRequestNames
    <3>2. CASE p # q
      BY <1>1, <2>2, <3>2 DEF Belongs, QrRequestNames
    <3>3. QED BY <3>1, <3>2
  <2>3. QED BY <1>8, <2>1, <2>2 DEF Belongs
<1>9. ASSUME NEW a \in news, NEW i \in QrRows, Belongs(a, i)'
      PROVE  i = qrReq[q].row
  <2>1. ~Belongs(a, i) /\ a # old /\ a \in Assets
    BY <1>0, <1>4, <1>9 DEF QrInv, OfOneRow
  <2>2. ~RowNames(i, a)'
    BY <2>1 DEF Belongs, RowNames
  <2>3. ASSUME NEW p \in Requests \ {q}, qrReq'[p].row = i
        PROVE  ~QrRequestNames(p, a)' /\ qrReq'[p].old # a
    BY <1>1, <2>1, <2>3 DEF Belongs, QrRequestNames
  <2>4. QED BY <1>1, <1>9, <2>2, <2>3 DEF Belongs
<1>10. OfOneRow'
  <2>1. ASSUME NEW a \in Assets, NEW i \in QrRows, Belongs(a, i)'
        PROVE  a \notin fresh' /\ \A j \in QrRows : Belongs(a, j)' => i = j
    <3>1. CASE a \in news
      BY <1>9, <2>1, <3>1
    <3>2. CASE a \notin news
      BY <1>8, <2>1, <3>2 DEF QrInv, OfOneRow
    <3>3. QED BY <3>1, <3>2
  <2>2. QED BY <2>1 DEF OfOneRow
<1>11. ASSUME NEW p \in Requests \ {q}, NEW a \in Assets, Uploads(p, a)
       PROVE  /\ a \in assets' \ doomed' /\ ~QrRequestNames(q, a)'
              /\ \A i \in QrRows : ~RowNames(i, a)'
  <2>1. /\ a \in assets \ doomed /\ ~QrRequestNames(q, a)
        /\ \A i \in QrRows : ~RowNames(i, a)
    BY <1>11, UploadsNew
  <2>2. a \notin fresh /\ a # old
    <3>1. QrRequestNames(p, a)
      BY <1>11 DEF Uploads
    <3>2. QED BY <2>1, <3>1, NamesBelong DEF QrRequestNames, old
  <2>3. QED BY <1>1, <2>1, <2>2 DEF RowNames, QrRequestNames, old
<1>12. ASSUME NEW p \in Requests PROVE QrKnows(p)'
  <2>1. CASE p # q
    BY <1>11, <2>1, QrStillKnows
  <2>2. CASE p = q
    <3>1. ASSUME QrAt(q, "ready", {"create file", "file"})'
          PROVE  UploadIsNew(q)'
      <4>1. PICK a \in news : r.entity.publicId = a /\ r.entity.url = a
        BY <1>1, <3>1 DEF QrAt
      <4>2. a \in Assets /\ \A i \in QrRows : ~Belongs(a, i)
        BY <1>0 DEF QrInv, OfOneRow
      <4>3. \A i \in QrRows : ~RowNames(i, a)'
        BY <4>2 DEF Belongs, RowNames
      <4>4. ASSUME NEW o \in Requests \ {q} PROVE ~QrRequestNames(o, a)'
        <5>1. ~QrRequestNames(o, a)
          BY <4>2, NamesBelong
        <5>2. QED BY <1>1, <5>1 DEF QrRequestNames
      <4>5. QED BY <1>1, <1>5, <4>1, <4>3, <4>4 DEF UploadIsNew
    <3>2. QED BY <1>1, <1>2, <2>2, <3>1 DEF QrKnows, QrAt, Scannable
  <2>3. QED BY <2>1, <2>2
<1>13. RowsKeepTheirImages'
  <2>1. ASSUME NEW i \in QrRows \ staleRows, qrs[i] # None, NEW a \in Assets,
               qrs[i].url = a
        PROVE  a \in assets' \ doomed' \/ \E p \in Requests : LetsGo(p, a)'
    <3>1. CASE a = old
      <4>1. LetsGo(q, a)'
        BY <1>1, <3>1 DEF LetsGo, old
      <4>2. QED BY <4>1
    <3>2. CASE a # old /\ a \in assets \ doomed
      BY <3>2 DEF old
    <3>3. ASSUME NEW p \in Requests, LetsGo(p, a) PROVE LetsGo(p, a)'
      BY <1>1, <3>3 DEF LetsGo
    <3>4. QED BY <2>1, <3>1, <3>2, <3>3 DEF QrInv, RowsKeepTheirImages
  <2>2. QED BY <2>1 DEF RowsKeepTheirImages, LetsGo
<1>14. QED BY <1>6, <1>7, <1>10, <1>12, <1>13 DEF QrInv

LEMMA UploadStep ==
  ASSUME QrInv, NEW q \in Requests, NEW a \in Assets, Upload(q, a)
  PROVE  QrInv'
<1> DEFINE r == [qrReq[q] EXCEPT !.stage = "ready", !.old = qrReq[q].entity.publicId,
                                 !.entity = [url |-> a, publicId |-> a]]
<1>1. /\ qrReq[q].stage = "found" /\ qrReq[q].op \in {"create file", "file"}
      /\ a \in fresh /\ assets' = assets \cup {a} /\ fresh' = fresh \ {a}
      /\ doomed' = doomed \cup ({qrReq[q].entity.publicId} \ {None})
      /\ QrGoesOn(q, r, {}) /\ UNCHANGED <<qrs, staleRows>>
  BY DEF Upload, QrAt
<1>2. qrReq[q] \in QrRequest /\ qrReq[q].entity.publicId \in Assets \cup {None}
  BY <1>1 DEF QrInv, QrTypeOK, QrKnows, QrRow
<1>3. /\ r \in QrRequest /\ r.stage = "ready" /\ r.old = qrReq[q].entity.publicId
      /\ r.row = qrReq[q].row /\ r.op = qrReq[q].op
      /\ r.entity \in QrRow /\ r.entity.url = a /\ r.entity.publicId = a
  BY <1>2 DEF QrRequest, QrRow
<1> HIDE DEF r
<1>4. Scannable(r.entity) /\ r.op \in QrOps /\ r.op # "create url"
  BY <1>1, <1>3 DEF Scannable, QrOps
<1> DEFINE news == {a}
<1>5. /\ news \subseteq fresh /\ assets' = assets \cup news /\ fresh' = fresh \ news
      /\ r.entity.publicId \in news
  BY <1>1, <1>3
<1> HIDE DEF news
<1>6. QED BY <1>1, <1>3, <1>4, <1>5, PartStep

LEMMA PartWithImageStep ==
  ASSUME QrInv, NEW q \in Requests, PartWithImage(q)
  PROVE  QrInv'
<1> DEFINE r == [qrReq[q] EXCEPT !.stage = "parting", !.old = qrReq[q].entity.publicId]
<1>1. /\ qrReq[q].stage = "found" /\ qrReq[q].op = "delete"
      /\ doomed' = doomed \cup ({qrReq[q].entity.publicId} \ {None})
      /\ QrGoesOn(q, r, {}) /\ UNCHANGED <<qrs, assets, fresh, staleRows>>
  BY DEF PartWithImage, QrAt
<1>2. /\ qrReq[q] \in QrRequest /\ qrReq[q].entity \in QrRow
      /\ Scannable(qrReq[q].entity) /\ qrReq[q].op \in QrOps
  BY <1>1 DEF QrInv, QrTypeOK, QrKnows
<1>3. qrReq[q].entity.publicId \in Assets \cup {None}
  BY <1>2 DEF QrRow
<1>4. /\ r \in QrRequest /\ r.stage = "parting" /\ r.old = qrReq[q].entity.publicId
      /\ r.row = qrReq[q].row /\ r.op = qrReq[q].op /\ r.entity = qrReq[q].entity
  BY <1>2, <1>3 DEF QrRequest
<1> HIDE DEF r
<1> DEFINE news == {}
<1>5. /\ news \subseteq fresh /\ assets' = assets \cup news /\ fresh' = fresh \ news
      /\ Scannable(r.entity) /\ r.op # "create url"
      /\ r.entity.publicId \in news \cup {qrReq[q].entity.publicId}
  BY <1>1, <1>2, <1>4
<1> HIDE DEF news
<1>6. QED BY <1>1, <1>2, <1>4, <1>5, PartStep

(* The end of a request that has begun a row's change: the row is saved or *)
(* deleted, and stands for an image of the request's entity or for none.   *)
LEMMA EndQrStep ==
  ASSUME QrInv, NEW q \in Requests, NEW r \in QrRequest, NEW i \in QrRows, NEW new,
         QrGoesOn(q, r, {i}), UNCHANGED <<assets, doomed, fresh>>,
         /\ qrReq[q].stage # "unsent" /\ qrReq[q].row = i
         /\ r.stage = "done" /\ r.op = qrReq[q].op /\ r.row = i
         /\ r.entity = qrReq[q].entity /\ r.old = qrReq[q].old,
         qrs' = [qrs EXCEPT ![i] = new],
         \/ new = None
         \/ /\ new \in QrRow /\ Scannable(new)
            /\ new.publicId \in {qrReq[q].entity.publicId, None},
         staleRows' \subseteq QrRows, staleRows \subseteq staleRows' \cup {i},
         i \notin staleRows' /\ new # None /\ new.url \in Assets =>
           \/ new.url \in assets \ doomed
           \/ \E p \in Requests \ {q} : LetsGo(p, new.url)
  PROVE  QrInv'
<1>0. QrTypeOK
  BY DEF QrInv
<1>1. /\ qrReq' \in [Requests -> QrRequest] /\ qrReq'[q] = r
      /\ \A p \in Requests \ {q} :
           /\ qrReq'[p].stage = qrReq[p].stage /\ qrReq'[p].row = qrReq[p].row
           /\ qrReq'[p].op = qrReq[p].op
           /\ qrReq'[p].entity = qrReq[p].entity /\ qrReq'[p].old = qrReq[p].old
  BY <1>0, QrOthers, ZenonT(60)
<1>2. /\ qrs' \in [QrRows -> QrRow \cup {None}] /\ qrs'[i] = new
      /\ \A j \in QrRows \ {i} : qrs'[j] = qrs[j]
  BY <1>0 DEF QrTypeOK
<1>3. QrTypeOK' /\ (fresh \cap doomed = {})'
  BY <1>0, <1>1, <1>2 DEF QrTypeOK, QrInv
<1>4. ASSUME NEW j \in QrRows, qrs'[j] # None
      PROVE  Scannable(qrs'[j])
  BY <1>2, <1>4 DEF QrInv
<1>5. ASSUME NEW j \in QrRows, NEW a \in Assets, RowNames(j, a)'
      PROVE  RowNames(j, a) \/ (j = i /\ QrRequestNames(q, a))
  BY <1>2, <1>5, NoImageAssumption DEF RowNames, QrRequestNames, NoImageAssumption
<1>6. ASSUME NEW p \in Requests, NEW a \in Assets
      PROVE  /\ QrRequestNames(p, a)' <=> QrRequestNames(p, a)
             /\ qrReq'[p].old = a <=> qrReq[p].old = a
             /\ qrReq'[p].row = qrReq[p].row
  BY <1>1 DEF QrRequestNames
<1>7. OfOneRow'
  <2>1. ASSUME NEW a \in Assets, NEW j \in QrRows, Belongs(a, j)'
        PROVE  Belongs(a, j)
    <3>1. CASE RowNames(j, a)'
      BY <1>5, <3>1 DEF Belongs
    <3>2. CASE \E p \in Requests : qrReq'[p].row = j
                 /\ (QrRequestNames(p, a)' \/ qrReq'[p].old = a)
      BY <1>6, <3>2 DEF Belongs
    <3>3. QED BY <2>1, <3>1, <3>2 DEF Belongs
  <2>2. QED BY <2>1, BelongsKept DEF QrInv
<1>8. ASSUME NEW p \in Requests PROVE QrKnows(p)'
  <2>1. CASE p # q
    <3>1. ASSUME NEW a \in Assets, Uploads(p, a)
          PROVE  /\ a \in assets' \ doomed' /\ ~QrRequestNames(q, a)'
                 /\ \A j \in QrRows : ~RowNames(j, a)'
      BY <1>5, <1>6, <2>1, <3>1, UploadsNew
    <3>2. \A j \in QrRows : qrs'[j] = qrs[j] \/ j \in {i}
      BY <1>2
    <3>3. QED BY <2>1, <3>1, <3>2, QrStillKnows
  <2>2. CASE p = q
    <3>1. QrKnows(q)
      BY DEF QrInv
    <3>2. QED BY <1>1, <2>2, <3>1 DEF QrKnows, QrAt, Scannable
  <2>3. QED BY <2>1, <2>2
<1>9. RowsKeepTheirImages'
  <2>1. ASSUME NEW p \in Requests \ {q}, NEW a \in Assets, LetsGo(p, a)
        PROVE  LetsGo(p, a)'
    BY <1>1, <2>1 DEF LetsGo
  <2>2. ASSUME NEW j \in QrRows \ staleRows', qrs'[j] # None, NEW a \in Assets,
               qrs'[j].url = a
        PROVE  a \in assets' \ doomed' \/ \E p \in Requests : LetsGo(p, a)'
    <3>1. CASE j = i
      BY <1>2, <2>1, <2>2, <3>1
    <3>2. CASE j # i
      <4>1. qrs[j] # None /\ qrs[j].url = a /\ j \notin staleRows
        BY <1>2, <2>2, <3>2
      <4>2. a \in assets \ doomed \/ \E p \in Requests : LetsGo(p, a)
        BY <4>1 DEF QrInv, RowsKeepTheirImages
      <4>3. RowNames(j, a)
        BY <4>1 DEF QrInv, Scannable, RowNames
      <4>4. ~LetsGo(q, a)
        <5>1. Belongs(a, j)
          BY <4>3 DEF Belongs
        <5>2. ASSUME qrReq[q].old = a PROVE FALSE
          BY <3>2, <5>1, <5>2, NamesBelong DEF QrInv, OfOneRow
        <5>3. QED BY <5>2 DEF LetsGo
      <4>5. QED BY <2>1, <4>2, <4>4
    <3>3. QED BY <3>1, <3>2
  <2>3. QED BY <2>2 DEF RowsKeepTheirImages, LetsGo
<1>10. QED BY <1>3, <1>4, <1>7, <1>8, <1>9 DEF QrInv, Scannable

LEMMA OverQr ==
  ASSUME NEW r \in QrRequest, NEW stage \in {"done", "failed"}
  PROVE  /\ Over(r, stage) \in QrRequest /\ Over(r, stage).stage = stage
         /\ Over(r, stage).op = r.op /\ Over(r, stage).row = r.row
         /\ Over(r, stage).entity = r.entity /\ Over(r, stage).old = r.old
BY DEF Over, QrRequest

LEMMA DeleteQrStep ==
  ASSUME QrInv, NEW q \in Requests, DeleteQr(q)
  PROVE  QrInv'
<1> DEFINE i == qrReq[q].row
<1> DEFINE r == Over(qrReq[q], "done")
<1>1. /\ qrReq[q].stage = "parting" /\ QrGoesOn(q, r, {i})
      /\ qrs' = [qrs EXCEPT ![i] = None]
      /\ UNCHANGED <<assets, doomed, fresh, staleRows>>
  BY DEF DeleteQr, QrAt
<1>2. qrReq[q] \in QrRequest /\ i \in QrRows /\ staleRows \subseteq QrRows
  BY <1>1 DEF QrInv, QrTypeOK, QrKnows
<1>3. /\ r \in QrRequest /\ r.stage = "done" /\ r.op = qrReq[q].op /\ r.row = i
      /\ r.entity = qrReq[q].entity /\ r.old = qrReq[q].old
  BY <1>2, OverQr
<1>4. qrReq[q].row = i
  OBVIOUS
<1> HIDE DEF r, i
<1>5. QED BY <1>1, <1>2, <1>3, <1>4, EndQrStep

LEMMA SaveQrStep ==
  ASSUME QrInv, NEW q \in Requests, SaveQr(q)
  PROVE  QrInv'
<1> DEFINE i == qrReq[q].row
<1> DEFINE r == Over(qrReq[q], "done")
<1> DEFINE new == Changed(qrReq[q])
<1>1. /\ \/ QrAt(q, "ready", {"create file", "file"})
         \/ QrAt(q, "found", {"create url", "url", "toggle", "demo"})
      /\ QrGoesOn(q, r, {i}) /\ qrs' = [qrs EXCEPT ![i] = new]
      /\ staleRows' = IF qrReq[q].raced THEN staleRows \cup {i}
                      ELSE IF qrReq[q].op = "toggle" THEN staleRows ELSE staleRows \ {i}
      /\ UNCHANGED <<assets, doomed, fresh>>
  BY DEF SaveQr
<1>2. /\ qrReq[q] \in QrRequest /\ i \in QrRows /\ staleRows \subseteq QrRows
      /\ qrReq[q].stage # "unsent" /\ qrReq[q].entity \in QrRow
      /\ Scannable(qrReq[q].entity)
      /\ qrReq[q].op = "create url" => qrReq[q].entity.url = External
  BY <1>1 DEF QrInv, QrTypeOK, QrKnows, QrAt
<1>3. /\ r \in QrRequest /\ r.stage = "done" /\ r.op = qrReq[q].op /\ r.row = i
      /\ r.entity = qrReq[q].entity /\ r.old = qrReq[q].old
  BY <1>2, OverQr
<1>4. /\ new \in QrRow /\ Scannable(new)
      /\ new.publicId \in {qrReq[q].entity.publicId, None}
  BY <1>2, NoImageAssumption DEF Changed, QrRow, Scannable, NoImageAssumption
<1>5. ASSUME i \notin staleRows', new.url \in Assets
      PROVE  \/ new.url \in assets \ doomed
             \/ \E p \in Requests \ {q} : LetsGo(p, new.url)
  <2>1. qrReq[q].op \notin {"url", "demo", "create url"} /\ new = qrReq[q].entity
    BY <1>2, <1>5, NoImageAssumption DEF Changed, NoImageAssumption
  <2>2. CASE QrAt(q, "ready", {"create file", "file"})
    BY <2>1, <2>2 DEF QrInv, QrKnows, UploadIsNew
  <2>3. CASE QrAt(q, "found", {"toggle"})
    <3>1. ~qrReq[q].raced /\ i \notin staleRows /\ qrReq[q].stage = "found"
      BY <1>1, <1>5, <2>3 DEF QrAt
    <3>2. qrs[i] = new
      BY <2>1, <2>3, <3>1 DEF QrInv, QrKnows, QrAt
    <3>3. qrs[i] # None
      BY <2>3, <3>1 DEF QrInv, QrKnows, QrAt
    <3>4. \/ new.url \in assets \ doomed
          \/ \E p \in Requests : LetsGo(p, new.url)
      BY <1>2, <1>5, <3>1, <3>2, <3>3 DEF QrInv, RowsKeepTheirImages
    <3>5. ~LetsGo(q, new.url)
      BY <3>1 DEF LetsGo
    <3>6. QED BY <3>4, <3>5
  <2>4. QED BY <1>1, <2>1, <2>2, <2>3 DEF QrAt
<1>6. qrReq[q].row = i
  OBVIOUS
<1>7. staleRows' \subseteq QrRows /\ staleRows \subseteq staleRows' \cup {i}
  BY <1>1, <1>2
<1> HIDE DEF r, i, new
<1>8. QED BY <1>1, <1>2, <1>3, <1>4, <1>5, <1>6, <1>7, EndQrStep

LEMMA AssetGoesStep ==
  ASSUME QrInv, NEW a \in Assets, NEW deleted \in BOOLEAN, AssetGoes(a, deleted)
  PROVE  QrInv'
<1>1. /\ a \in doomed /\ doomed' = doomed \ {a}
      /\ assets' \subseteq assets /\ assets \ {a} \subseteq assets'
      /\ UNCHANGED <<qrs, fresh, qrReq, staleRows>>
  BY DEF AssetGoes
<1>2. assets \ doomed \subseteq assets' \ doomed'
  BY <1>1
<1>3. QrTypeOK' /\ (fresh \cap doomed = {})'
  BY <1>1 DEF QrInv, QrTypeOK
<1>4. ASSUME NEW q \in Requests PROVE QrKnows(q)'
  <2>1. QrKnows(q)
    BY DEF QrInv
  <2>2. UploadIsNew(q) => UploadIsNew(q)'
    BY <1>1, <1>2 DEF UploadIsNew, RowNames, QrRequestNames
  <2>3. QED BY <1>1, <2>1, <2>2 DEF QrKnows, QrAt, Scannable
<1>5. OfOneRow'
  BY <1>1 DEF QrInv, OfOneRow, Belongs, RowNames, QrRequestNames
<1>6. RowsKeepTheirImages'
  BY <1>1, <1>2 DEF QrInv, RowsKeepTheirImages, LetsGo
<1>7. QED BY <1>1, <1>3, <1>4, <1>5, <1>6 DEF QrInv, Scannable

LEMMA QrInitInv == QrInit => QrInv
<1> SUFFICES ASSUME QrInit PROVE QrInv
  OBVIOUS
<1>1. /\ NoQrRequest \in QrRequest /\ NoQrRequest.stage = "unsent"
      /\ NoQrRequest.entity = None /\ NoQrRequest.old = None
  BY DEF NoQrRequest, QrRequest
<1>2. \A q \in Requests : qrReq[q] = NoQrRequest
  BY DEF QrInit
<1>3. QrTypeOK
  BY <1>1 DEF QrInit, QrTypeOK
<1>4. \A q \in Requests : QrKnows(q)
  BY <1>1, <1>2 DEF QrKnows, QrAt
<1>5. \A i \in QrRows : qrs[i] = None
  BY DEF QrInit
<1>6. \A a \in Assets, i \in QrRows : ~Belongs(a, i)
  BY <1>1, <1>2, <1>5, NoImageAssumption
  DEF Belongs, RowNames, QrRequestNames, NoImageAssumption
<1>7. QED BY <1>3, <1>4, <1>5, <1>6 DEF QrInv, QrInit, OfOneRow, RowsKeepTheirImages

LEMMA QrNextInv ==
  ASSUME QrInv, [QrNext]_qrVars
  PROVE  QrInv'
<1>1. ASSUME NEW q \in Requests, NEW i \in QrRows,
             \/ StartQr(q, i, "create file") \/ StartQr(q, i, "create url")
             \/ \E op \in {"file", "url", "toggle", "demo", "delete"} : FindQr(q, i, op)
      PROVE  QrInv'
  BY <1>1, StartQrStep, FindQrStep
<1>2. ASSUME NEW q \in Requests,
             \/ \E a \in Assets : Upload(q, a)
             \/ SaveQr(q) \/ PartWithImage(q) \/ DeleteQr(q) \/ FailQr(q)
      PROVE  QrInv'
  BY <1>2, UploadStep, SaveQrStep, PartWithImageStep, DeleteQrStep, FailQrStep
<1>3. ASSUME NEW a \in Assets, NEW deleted \in BOOLEAN, AssetGoes(a, deleted)
      PROVE  QrInv'
  BY <1>3, AssetGoesStep
<1>4. ASSUME UNCHANGED qrVars PROVE QrInv'
  <2>1. UNCHANGED <<qrs, assets, doomed, fresh, qrReq, staleRows>>
    BY <1>4 DEF qrVars
  <2>2. QrTypeOK' /\ (fresh \cap doomed = {})'
    BY <2>1 DEF QrInv, QrTypeOK
  <2>3. \A i \in QrRows : (qrs[i] # None => Scannable(qrs[i]))'
    BY <2>1 DEF QrInv, Scannable
  <2>4. OfOneRow'
    BY <2>1 DEF QrInv, OfOneRow, Belongs, RowNames, QrRequestNames
  <2>5. \A q \in Requests : QrKnows(q)'
    BY <2>1 DEF QrInv, QrKnows, QrAt, UploadIsNew, RowNames, QrRequestNames, Scannable
  <2>6. RowsKeepTheirImages'
    BY <2>1 DEF QrInv, RowsKeepTheirImages, LetsGo
  <2>7. QED BY <2>2, <2>3, <2>4, <2>5, <2>6 DEF QrInv
<1>5. QED BY <1>1, <1>2, <1>3, <1>4 DEF QrNext

(* The image a row names is there and nobody deletes it, but while another *)
(* takes its place, where that failed, or where an old entity was saved.   *)
THEOREM ImagesKept == QrSpec => []RowsKeepTheirImages
<1>1. QrInv => RowsKeepTheirImages
  BY DEF QrInv
<1>2. QED BY <1>1, QrInitInv, QrNextInv, PTL DEF QrSpec

-----------------------------------------------------------------------------
(* Imports.  Sets of rows and of imports are small...                      *)
LEMMA UpTo ==
  ASSUME NEW n \in Nat, NEW S \in SUBSET (1 .. n), NEW T \in SUBSET S
  PROVE  /\ IsFiniteSet(S) /\ Cardinality(S) \in 0 .. n
         /\ Cardinality(S) = n => S = 1 .. n
         /\ IsFiniteSet(T) /\ Cardinality(T) \in 0 .. n
         /\ Cardinality(T) <= Cardinality(S)
<1>1. IsFiniteSet(1 .. n) /\ Cardinality(1 .. n) = n
  BY FS_Interval
<1>2. IsFiniteSet(S) /\ Cardinality(S) <= n /\ (Cardinality(S) = n => S = 1 .. n)
  BY <1>1, FS_Subset
<1>3. IsFiniteSet(T) /\ Cardinality(T) <= Cardinality(S)
  BY <1>2, FS_Subset
<1>4. Cardinality(S) \in Nat /\ Cardinality(T) \in Nat
  BY <1>2, <1>3, FS_CardinalityType
<1>5. QED BY <1>2, <1>3, <1>4

(* ...and grow by one row at a time.                                       *)
LEMMA OneMore ==
  ASSUME NEW n \in Nat, NEW S \in SUBSET (1 .. n), NEW x \in 1 .. n, x \notin S
  PROVE  Cardinality(S \cup {x}) = Cardinality(S) + 1 /\ Cardinality(S) < n
<1>1. IsFiniteSet(S) /\ Cardinality(S) \in 0 .. n /\ Cardinality(S) # n
  BY UpTo
<1>2. QED BY <1>1, FS_AddElement

(* A run adds no more failures than the file has rows.                     *)
LEMMA FailedRoom ==
  ASSUME NEW n \in 0 .. JobAttempts + 1
  PROVE  /\ FailedBound(n) \in Nat /\ FailedBound(n) <= MaxFailed
         /\ BadRows <= FailedBound(n)
         /\ FailedBound(n + 1) = FailedBound(n) + FileRows
<1>1. /\ BadRows \in Nat /\ FileRows \in Nat /\ JobAttempts \in Nat /\ n \in Nat
      /\ n <= JobAttempts + 1
  BY ImportAssumption DEF ImportAssumption
<1>2. PICK k \in Nat : JobAttempts + 1 = n + k
  <2>1. JobAttempts + 1 - n \in Nat /\ JobAttempts + 1 = n + (JobAttempts + 1 - n)
    BY <1>1
  <2>2. QED BY <2>1
<1>3. n * FileRows \in Nat /\ k * FileRows \in Nat
  BY <1>1
<1>4. (n + k) * FileRows = n * FileRows + k * FileRows
  BY <1>1
<1>5. (n + 1) * FileRows = n * FileRows + FileRows
  BY <1>1
<1>6. (JobAttempts + 1) * FileRows = n * FileRows + k * FileRows
  BY <1>2, <1>4
<1>7. QED BY <1>1, <1>3, <1>5, <1>6 DEF FailedBound, MaxFailed

LEMMA BegunTyped ==
  ASSUME ImportInv, NEW i \in ImportIds
  PROVE  /\ jobs[i].attempts \in 0 .. JobAttempts /\ Begun(i) \in 0 .. JobAttempts + 1
         /\ FailedBound(Begun(i)) \in Nat /\ FailedBound(Begun(i)) <= MaxFailed
<1>1. jobs[i].attempts \in 0 .. JobAttempts
  BY DEF ImportInv, ImportJobsTypeOK
<1>2. Begun(i) \in 0 .. JobAttempts + 1
  BY <1>1, ImportAssumption DEF Begun, ImportAssumption
<1>3. QED BY <1>1, <1>2, FailedRoom

LEMMA MadeTyped ==
  ASSUME NEW i, NEW n
  PROVE  /\ CreatedBy(i) \subseteq 1 .. FileRows /\ IsFiniteSet(CreatedBy(i))
         /\ Cardinality(CreatedBy(i)) \in 0 .. FileRows
         /\ MadeBefore(i, n) \subseteq CreatedBy(i)
         /\ Cardinality(MadeBefore(i, n)) \in 0 .. FileRows
         /\ Cardinality(MadeBefore(i, n)) <= Cardinality(CreatedBy(i))
<1>1. FileRows \in Nat
  BY ImportAssumption DEF ImportAssumption
<1>2. CreatedBy(i) \in SUBSET (1 .. FileRows)
  BY DEF CreatedBy
<1>3. MadeBefore(i, n) \in SUBSET CreatedBy(i)
  BY DEF MadeBefore
<1>4. QED BY <1>1, <1>2, <1>3, UpTo

LEMMA MadeGrown ==
  ASSUME NEW i, NEW n, CreatedBy(i) \subseteq CreatedBy(i)'
  PROVE  /\ Cardinality(CreatedBy(i)') \in 0 .. FileRows
         /\ Cardinality(CreatedBy(i)) <= Cardinality(CreatedBy(i)')
         /\ Cardinality(MadeBefore(i, n)') \in 0 .. FileRows
         /\ Cardinality(MadeBefore(i, n)) <= Cardinality(MadeBefore(i, n)')
         /\ Cardinality(MadeBefore(i, n)') <= Cardinality(CreatedBy(i)')
<1>1. FileRows \in Nat /\ CreatedBy(i)' \in SUBSET (1 .. FileRows)
  BY ImportAssumption DEF ImportAssumption, CreatedBy
<1>2. MadeBefore(i, n)' \in SUBSET CreatedBy(i)'
  BY DEF MadeBefore
<1>3. MadeBefore(i, n) \in SUBSET MadeBefore(i, n)'
  BY DEF MadeBefore
<1>4. MadeBefore(i, n)' \in SUBSET (1 .. FileRows)
  BY <1>1, <1>2
<1>5. CreatedBy(i) \in SUBSET CreatedBy(i)'
  OBVIOUS
<1>6. QED BY <1>1, <1>2, <1>3, <1>4, <1>5, UpTo

(* Runs are finite in number.                                              *)
LEMMA RunsFinite ==
  ASSUME ImportInv, NEW i
  PROVE  /\ IsFiniteSet(RunsOf(i)) /\ Cardinality(RunsOf(i)) \in Nat
         /\ \A w \in RunsOf(i) : Cardinality(RunsOf(i)) <= 1 => RunsOf(i) = {w}
<1>1. RunsOf(i) \in SUBSET {w \in Runs : run[w] # None}
  BY DEF RunsOf
<1>2. IsFiniteSet(RunsOf(i)) /\ Cardinality(RunsOf(i)) \in Nat
  BY <1>1, FS_Subset, FS_CardinalityType DEF ImportInv
<1>3. ASSUME NEW w \in RunsOf(i), Cardinality(RunsOf(i)) <= 1 PROVE RunsOf(i) = {w}
  <2>1. Cardinality(RunsOf(i)) # 0
    BY <1>2, FS_EmptySet
  <2>2. Cardinality(RunsOf(i)) = 1
    BY <1>2, <1>3, <2>1
  <2>3. QED BY <1>2, <2>2, FS_Singleton
<1>4. QED BY <1>2, <1>3

(* A step of run w, of import i: the runs of every import are as they were *)
(* and as many of it can still begin.                                      *)
LEMMA RunFrame ==
  ASSUME ImportInv, NEW w \in Runs, run[w] # None, NEW i \in ImportIds, run[w].import = i,
         NEW r \in RunState, r.import = i, run' = [run EXCEPT ![w] = r],
         UNCHANGED importReq, \A j \in ImportIds : jobs'[j].attempts = jobs[j].attempts
  PROVE  /\ run[w] \in RunState /\ w \in RunsOf(i) /\ imports[i] \in ImportRow
         /\ imports[i] # None
         /\ run' \in [Runs -> RunState \cup {None}] /\ run'[w] = r /\ r # None
         /\ \A v \in Runs \ {w} : run'[v] = run[v]
         /\ {v \in Runs : run[v] # None}' = {v \in Runs : run[v] # None}
         /\ \A j \in ImportIds : /\ RunsOf(j)' = RunsOf(j) /\ Begun(j)' = Begun(j)
                                 /\ ToQueue(j)' <=> ToQueue(j)
<1>1. run \in [Runs -> RunState \cup {None}] /\ imports \in [ImportIds -> ImportRow \cup {None}]
  BY DEF ImportInv, ImportJobsTypeOK
<1>2. run[w] \in RunState /\ w \in RunsOf(i)
  BY <1>1 DEF RunsOf
<1>3. imports[i] # None
  BY <1>2 DEF ImportInv, JobFits
<1>4. r # None
  BY NoImportAssumption DEF NoImportAssumption
<1>5. /\ run' \in [Runs -> RunState \cup {None}] /\ run'[w] = r
      /\ \A v \in Runs \ {w} : run'[v] = run[v]
  BY <1>1
<1>6. {v \in Runs : run'[v] # None} = {v \in Runs : run[v] # None}
  BY <1>4, <1>5
<1>7. \A j \in ImportIds : RunsOf(j)' = RunsOf(j)
  BY <1>4, <1>5 DEF RunsOf
<1>8. \A j \in ImportIds : ToQueue(j)' <=> ToQueue(j)
  BY DEF ToQueue
<1>9. \A j \in ImportIds : Begun(j)' = Begun(j)
  BY <1>8 DEF Begun
<1>10. QED BY <1>1, <1>2, <1>3, <1>4, <1>5, <1>6, <1>7, <1>8, <1>9

(* The limits stay while nothing is recorded.                              *)
LEMMA LimitsKept ==
  ASSUME ImportInv, RunOnce' \subseteq RunOnce, UNCHANGED overlapped,
         \A j \in ImportIds :
           /\ imports'[j] = None <=> imports[j] = None
           /\ imports[j] # None => imports'[j].key = imports[j].key
  PROVE  ImportsLimited' /\ \A k \in ImportKeys : OfKey(k)' \subseteq OfKey(k)
<1> DEFINE Counted == {i \in ImportIds \ overlapped :
                         Running(i) /\ Cardinality(RunsOf(i)) <= 1}
<1>1. Cardinality(Counted) <= MaxActive
  BY DEF ImportInv, ImportsLimited
<1>2. Counted = RunOnce \ overlapped /\ Counted' = RunOnce' \ overlapped'
  BY DEF RunOnce
<1>3. Counted \subseteq 1 .. MaxImports
  BY DEF ImportIds
<1>4. Counted' \in SUBSET Counted
  BY <1>2
<1>5. Cardinality(Counted') <= MaxActive
  <2>1. MaxImports \in Nat /\ MaxActive \in Nat
    BY ImportAssumption DEF ImportAssumption
  <2> HIDE DEF Counted
  <2>2. /\ Cardinality(Counted) \in 0 .. MaxImports
        /\ Cardinality(Counted') \in 0 .. MaxImports
        /\ Cardinality(Counted') <= Cardinality(Counted)
    BY <1>3, <1>4, <2>1, UpTo
  <2>3. QED BY <1>1, <2>1, <2>2
<1>6. ASSUME NEW i \in ImportIds, NEW j \in ImportIds, i # j,
             imports'[i] # None, imports'[j] # None,
             imports'[i].key = imports'[j].key, imports'[i].key # None
      PROVE  {i, j} \cap overlapped' # {}
  <2>1. /\ imports[i] # None /\ imports[j] # None
        /\ imports[i].key = imports[j].key /\ imports[i].key # None
    BY <1>6
  <2>2. {i, j} \cap overlapped # {}
    BY <1>6, <2>1 DEF ImportInv, ImportsLimited
  <2>3. QED BY <2>2
<1>7. \A k \in ImportKeys : OfKey(k)' \subseteq OfKey(k)
  BY DEF OfKey
<1>8. QED BY <1>5, <1>6, <1>7 DEF ImportsLimited

(* What a request that does not act still knows.                           *)
LEMMA ImportStillKnows ==
  ASSUME ImportInv, NEW q \in Requests, NEW items,
         /\ importReq'[q].stage = importReq[q].stage /\ importReq'[q].key = importReq[q].key
         /\ importReq'[q].import = importReq[q].import
         /\ importReq'[q].reads = importReq[q].reads
         /\ importReq[q].raced => importReq'[q].raced
         /\ importReq[q].reads \cap items # {} => importReq'[q].raced,
         \A k \in ImportKeys : OfKey(k)' \subseteq OfKey(k) \/ <<"key", k>> \in items,
         RunOnce' \subseteq RunOnce \/ <<"active", "count">> \in items,
         \A j \in ImportIds : imports[j] # None => imports'[j] # None,
         \A j \in ImportIds :
           importReq[q].stage = "saved" /\ importReq[q].import = j =>
             jobs'[j].state = "none" /\ RunsOf(j)' = {},
         \A p \in Requests \ {q} :
           importReq'[p].stage \in {"saved", "unsure"} =>
             \/ importReq'[p].import # importReq[q].import
             \/ importReq[q].stage \notin {"saved", "unsure"}
  PROVE  ImportKnows(q)'
<1> DEFINE r == importReq[q]
<1>1. ImportKnows(q) /\ r.key \in ImportKeys \cup {None}
  BY DEF ImportInv, ImportJobsTypeOK, ImportRequest
<1>2. ASSUME r.stage \in {"keyed", "counted"}, r.key # None
      PROVE  <<"key", r.key>> \in r.reads /\ (importReq'[q].raced \/ OfKey(importReq[q].key)' = {})
  <2>1. <<"key", r.key>> \in r.reads /\ (r.raced \/ OfKey(r.key) = {})
    BY <1>1, <1>2 DEF ImportKnows
  <2>2. PICK k \in ImportKeys : k = r.key
    BY <1>1, <1>2
  <2>3. CASE <<"key", k>> \in items
    BY <2>1, <2>2, <2>3
  <2>4. CASE OfKey(k)' \subseteq OfKey(k)
    <3>1. OfKey(k) = {} => OfKey(k)' = {}
      BY <2>4
    <3>2. OfKey(importReq[q].key)' = OfKey(k)'
      BY <2>2 DEF OfKey
    <3>3. QED BY <2>1, <2>2, <3>1, <3>2
  <2>5. QED BY <2>2, <2>3, <2>4
<1>3. ASSUME r.stage = "counted"
      PROVE  /\ <<"active", "count">> \in r.reads
             /\ importReq'[q].raced \/ Cardinality(RunOnce') < MaxActive
  <2>1. /\ <<"active", "count">> \in r.reads
        /\ r.raced \/ Cardinality(RunOnce) < MaxActive
    BY <1>1, <1>3 DEF ImportKnows
  <2>2. CASE <<"active", "count">> \in items
    BY <2>1, <2>2
  <2>3. CASE RunOnce' \subseteq RunOnce
    <3>1. RunOnce \in SUBSET (1 .. MaxImports) /\ RunOnce' \in SUBSET RunOnce
      BY <2>3 DEF RunOnce, ImportIds
    <3>2. MaxImports \in Nat /\ MaxActive \in Nat
      BY ImportAssumption DEF ImportAssumption
    <3>3. /\ Cardinality(RunOnce) \in 0 .. MaxImports
          /\ Cardinality(RunOnce') \in 0 .. MaxImports
          /\ Cardinality(RunOnce') <= Cardinality(RunOnce)
      BY <3>1, <3>2, UpTo
    <3>4. QED BY <2>1, <3>2, <3>3
  <2>4. QED BY <2>2, <2>3
<1>4. ASSUME r.stage \in {"saved", "unsure"}
      PROVE  /\ r.import \in ImportIds /\ imports'[r.import] # None
             /\ \A p \in Requests \ {q} :
                  importReq'[p].stage \in {"saved", "unsure"} =>
                    importReq'[p].import # r.import
             /\ r.stage = "saved" => /\ jobs'[r.import].state = "none"
                                     /\ RunsOf(importReq[q].import)' = {}
  <2>1. PICK j \in ImportIds : j = r.import /\ imports[j] # None
    BY <1>1, <1>4 DEF ImportKnows
  <2>2. r.stage = "saved" => jobs'[j].state = "none" /\ RunsOf(j)' = {}
    BY <2>1
  <2>3. RunsOf(importReq[q].import)' = RunsOf(j)'
    BY <2>1 DEF RunsOf
  <2>4. QED BY <1>4, <2>1, <2>2, <2>3
<1>5. QED BY <1>2, <1>3, <1>4 DEF ImportKnows

(* A step of run w, of import i, after which it stands as r and the record *)
(* as rec: it is enough that these fit.                                    *)
LEMMA RunStep ==
  ASSUME ImportInv, NEW w \in Runs, run[w] # None, NEW i \in ImportIds, run[w].import = i,
         NEW r \in RunState, r.import = i, run' = [run EXCEPT ![w] = r],
         NEW rec \in ImportRow, rec.key = imports[i].key, rec.bad = imports[i].bad,
         imports' = [imports EXCEPT ![i] = rec],
         created' \in [1 .. FileRows -> ImportIds \cup {None}],
         \A j \in ImportIds : CreatedBy(j) \subseteq CreatedBy(j)',
         \A j \in ImportIds \ {i} : CreatedBy(j)' = CreatedBy(j),
         NEW job2, jobs' = [jobs EXCEPT ![i] = job2],
         job2 \in [state: {"none", "waiting", "active", "done", "dead"},
                   attempts: 0 .. JobAttempts],
         job2.attempts = jobs[i].attempts,
         job2.state = jobs[i].state \/ job2.state # "none",
         job2.state = "waiting" => job2.attempts < JobAttempts,
         UNCHANGED <<importReq, overlapped>>,
         RecordFits(i)', ImportRunFits(w)', SingleRunFits(i, w)',
         RunsOf(i) = {w} /\ Running(i)' => Running(i)
  PROVE  ImportInv'
<1>0. ImportJobsTypeOK /\ \A j \in ImportIds : JobFits(j)
  BY DEF ImportInv
<1>1. /\ jobs' \in [ImportIds -> [state: {"none", "waiting", "active", "done", "dead"},
                                 attempts: 0 .. JobAttempts]]
      /\ jobs'[i] = job2 /\ \A j \in ImportIds \ {i} : jobs'[j] = jobs[j]
      /\ \A j \in ImportIds : jobs'[j].attempts = jobs[j].attempts
  BY <1>0 DEF ImportJobsTypeOK
<1>2. /\ run[w] \in RunState /\ w \in RunsOf(i) /\ imports[i] \in ImportRow
      /\ imports[i] # None
      /\ run' \in [Runs -> RunState \cup {None}] /\ run'[w] = r /\ r # None
      /\ \A v \in Runs \ {w} : run'[v] = run[v]
      /\ {v \in Runs : run[v] # None}' = {v \in Runs : run[v] # None}
      /\ \A j \in ImportIds : /\ RunsOf(j)' = RunsOf(j) /\ Begun(j)' = Begun(j)
                              /\ ToQueue(j)' <=> ToQueue(j)
  BY <1>1, RunFrame
<1>3. /\ imports' \in [ImportIds -> ImportRow \cup {None}] /\ imports'[i] = rec
      /\ rec # None /\ \A j \in ImportIds \ {i} : imports'[j] = imports[j]
  BY <1>0, NoImportAssumption DEF ImportJobsTypeOK, NoImportAssumption
<1>4. ImportJobsTypeOK'
  BY <1>0, <1>1, <1>2, <1>3 DEF ImportJobsTypeOK
<1>5. IsFiniteSet({v \in Runs : run[v] # None})'
  BY <1>2 DEF ImportInv
<1>6. ASSUME NEW j \in ImportIds
      PROVE  JobFits(j)' /\ (imports'[j] # None => RecordFits(j)')
  <2>1. CASE j = i
    <3>1. JobFits(i)
      BY <1>0
    <3>2. jobs'[i].state = "none" => jobs'[i].attempts = 0
      BY <1>1, <3>1 DEF JobFits
    <3>3. QED BY <1>1, <1>3, <2>1, <3>2 DEF JobFits
  <2>2. CASE j # i
    <3>1. /\ jobs'[j] = jobs[j] /\ imports'[j] = imports[j] /\ CreatedBy(j)' = CreatedBy(j)
          /\ RunsOf(j)' = RunsOf(j) /\ Begun(j)' = Begun(j) /\ (ToQueue(j)' <=> ToQueue(j))
      BY <1>1, <1>2, <1>3, <2>2
    <3>2. JobFits(j) /\ (imports[j] # None => RecordFits(j))
      BY DEF ImportInv
    <3>3. JobFits(j)'
      BY <3>1, <3>2 DEF JobFits
    <3>4. imports[j] # None => RecordFits(j)'
      BY <3>1, <3>2 DEF RecordFits, Startable
    <3>5. QED BY <3>1, <3>3, <3>4
  <2>3. QED BY <2>1, <2>2
<1>7. ASSUME NEW v \in Runs, run'[v] # None
      PROVE  ImportRunFits(v)' /\ \A j \in ImportIds : SingleRunFits(j, v)'
  <2>1. CASE v = w
    <3>1. ASSUME NEW j \in ImportIds, j # i PROVE SingleRunFits(j, w)'
      <4>1. w \notin RunsOf(j)
        BY <3>1 DEF RunsOf
      <4>2. RunsOf(j)' # {w}
        BY <1>2, <4>1
      <4>3. QED BY <4>2 DEF SingleRunFits
    <3>2. QED BY <2>1, <3>1
  <2>2. CASE v # w
    <3>1. run'[v] = run[v] /\ run[v] # None /\ run[v] \in RunState
      BY <1>0, <1>2, <1>7, <2>2 DEF ImportJobsTypeOK
    <3>2. PICK j \in ImportIds : run[v].import = j
      BY <3>1 DEF RunState
    <3>3. ImportRunFits(v) /\ SingleRunFits(j, v)
      BY <3>1 DEF ImportInv
    <3>4. /\ imports'[j].bad = imports[j].bad /\ Begun(j)' = Begun(j)
          /\ CreatedBy(j) \subseteq CreatedBy(j)'
      BY <1>2, <1>3
    <3>5. PICK n \in Int : run[v].next = n
      BY <3>1, ImportAssumption DEF RunState, ImportAssumption
    <3>6. ImportRunFits(v)'
      <4>1. /\ Cardinality(CreatedBy(j)) \in Int /\ Cardinality(MadeBefore(j, n)) \in Int
            /\ Cardinality(CreatedBy(j)') \in Int /\ Cardinality(MadeBefore(j, n)') \in Int
            /\ Cardinality(CreatedBy(j)) <= Cardinality(CreatedBy(j)')
            /\ Cardinality(MadeBefore(j, n)) <= Cardinality(MadeBefore(j, n)')
        BY <3>4, MadeTyped, MadeGrown
      <4>2. run[v].success \in Int
        BY <3>1 DEF RunState
      <4>3. QED BY <3>1, <3>2, <3>3, <3>4, <3>5, <4>1, <4>2 DEF ImportRunFits
    <3>7. ASSUME NEW k \in ImportIds PROVE SingleRunFits(k, v)'
      <4>1. CASE k = i
        BY <1>2, <2>2, <4>1 DEF SingleRunFits
      <4>2. CASE k # i
        <5>1. /\ imports'[k] = imports[k] /\ CreatedBy(k)' = CreatedBy(k)
              /\ RunsOf(k)' = RunsOf(k)
          BY <1>2, <1>3, <4>2
        <5>2. SingleRunFits(k, v)
          BY <3>1 DEF ImportInv
        <5>3. QED BY <3>1, <5>1, <5>2 DEF SingleRunFits, Running
      <4>3. QED BY <4>1, <4>2
    <3>8. QED BY <3>6, <3>7
  <2>3. QED BY <2>1, <2>2
<1>8. RunOnce' \subseteq RunOnce
  <2>1. ASSUME NEW j \in ImportIds, j \in RunOnce' PROVE j \in RunOnce
    <3>1. CASE j = i
      <4>1. Cardinality(RunsOf(i)) <= 1 /\ Running(i)'
        BY <1>2, <2>1, <3>1 DEF RunOnce
      <4>2. RunsOf(i) = {w}
        BY <1>2, <4>1, RunsFinite
      <4>3. QED BY <3>1, <4>1, <4>2 DEF RunOnce
    <3>2. CASE j # i
      BY <1>2, <1>3, <2>1, <3>2 DEF RunOnce, Running
    <3>3. QED BY <3>1, <3>2
  <2>2. QED BY <2>1 DEF RunOnce
<1>9. \A j \in ImportIds :
        /\ imports'[j] = None <=> imports[j] = None
        /\ imports[j] # None => imports'[j].key = imports[j].key
  BY <1>2, <1>3
<1>10. ImportsLimited' /\ \A k \in ImportKeys : OfKey(k)' \subseteq OfKey(k)
  BY <1>8, <1>9, LimitsKept
<1>11. ASSUME NEW q \in Requests PROVE ImportKnows(q)'
  <2>1. ImportKnows(q)
    BY DEF ImportInv
  <2>2. \A j \in ImportIds :
          importReq[q].stage = "saved" /\ importReq[q].import = j =>
            jobs'[j].state = "none" /\ RunsOf(j)' = {}
    BY <1>1, <1>2, <2>1 DEF ImportKnows
  <2>3. \A p \in Requests \ {q} :
           importReq'[p].stage \in {"saved", "unsure"} =>
             \/ importReq'[p].import # importReq[q].import
             \/ importReq[q].stage \notin {"saved", "unsure"}
    BY <2>1 DEF ImportKnows
  <2> DEFINE items == {}
  <2>4. /\ importReq'[q] = importReq[q] /\ importReq[q].reads \cap items = {}
        /\ \A j \in ImportIds : imports[j] # None => imports'[j] # None
    BY <1>9
  <2> HIDE DEF items
  <2>5. QED BY <1>8, <1>10, <2>2, <2>3, <2>4, ImportStillKnows
<1>12. QED BY <1>4, <1>5, <1>6, <1>7, <1>10, <1>11 DEF ImportInv

(* The numbers of a run and of its import's record.                        *)
LEMMA RunNumbers ==
  ASSUME ImportInv, NEW w \in Runs, run[w] # None, NEW i \in ImportIds, run[w].import = i
  PROVE  /\ run[w] \in RunState /\ imports[i] \in ImportRow /\ w \in RunsOf(i)
         /\ imports \in [ImportIds -> ImportRow \cup {None}]
         /\ jobs \in [ImportIds -> [state: {"none", "waiting", "active", "done", "dead"},
                                   attempts: 0 .. JobAttempts]]
         /\ created \in [1 .. FileRows -> ImportIds \cup {None}]
         /\ run[w].success \in 0 .. FileRows /\ run[w].failed \in 0 .. MaxFailed
         /\ run[w].next \in 1 .. FileRows + 1
         /\ imports[i] # None
         /\ imports[i].success \in 0 .. FileRows /\ imports[i].failed \in 0 .. MaxFailed
         /\ imports[i].bad \in 0 .. BadRows
         /\ FileRows \in Nat \ {0} /\ BadRows \in Nat /\ MaxFailed \in Nat
         /\ FailedBound(Begun(i)) \in Nat /\ FailedBound(Begun(i)) <= MaxFailed
         /\ ImportRunFits(w) /\ SingleRunFits(i, w) /\ RecordFits(i) /\ JobFits(i)
<1>1. /\ imports \in [ImportIds -> ImportRow \cup {None}]
      /\ run \in [Runs -> RunState \cup {None}]
      /\ jobs \in [ImportIds -> [state: {"none", "waiting", "active", "done", "dead"},
                                attempts: 0 .. JobAttempts]]
      /\ created \in [1 .. FileRows -> ImportIds \cup {None}]
  BY DEF ImportInv, ImportJobsTypeOK
<1>2. run[w] \in RunState /\ w \in RunsOf(i)
  BY <1>1 DEF RunsOf
<1>3. imports[i] # None
  BY <1>2 DEF ImportInv, JobFits
<1>4. imports[i] \in ImportRow
  BY <1>1, <1>3
<1>5. /\ run[w].success \in 0 .. FileRows /\ run[w].failed \in 0 .. MaxFailed
      /\ run[w].next \in 1 .. FileRows + 1
      /\ imports[i].success \in 0 .. FileRows /\ imports[i].failed \in 0 .. MaxFailed
      /\ imports[i].bad \in 0 .. BadRows
  BY <1>2, <1>4 DEF RunState, ImportRow
<1>6. FileRows \in Nat \ {0} /\ BadRows \in Nat /\ JobAttempts \in Nat
  BY ImportAssumption DEF ImportAssumption
<1>7. MaxFailed \in Nat
  BY <1>6 DEF MaxFailed
<1>8. /\ ImportRunFits(w) /\ SingleRunFits(i, w) /\ RecordFits(i) /\ JobFits(i)
  BY <1>3 DEF ImportInv
<1>9. QED BY <1>1, <1>2, <1>3, <1>4, <1>5, <1>6, <1>7, <1>8, BegunTyped

(* A step of the run that touches its job alone: it ends or loses the job. *)
LEMMA QuietRunStep ==
  ASSUME ImportInv, NEW w \in Runs, run[w] # None, NEW i \in ImportIds, run[w].import = i,
         NEW r \in RunState, r.import = i, run' = [run EXCEPT ![w] = r],
         \/ r.stage = "ended"
         \/ /\ r.stage = run[w].stage /\ r.next = run[w].next
            /\ r.success = run[w].success /\ r.failed = run[w].failed,
         UNCHANGED <<imports, created, importReq, overlapped>>,
         UNCHANGED jobs
         \/ (\E state \in {"waiting", "done", "dead"} :
               /\ JobEnds(i, state)
               /\ state = "waiting" => jobs[i].attempts < JobAttempts)
  PROVE  ImportInv'
<1>1. /\ run[w] \in RunState /\ imports[i] \in ImportRow /\ w \in RunsOf(i)
      /\ imports \in [ImportIds -> ImportRow \cup {None}]
      /\ jobs \in [ImportIds -> [state: {"none", "waiting", "active", "done", "dead"},
                                   attempts: 0 .. JobAttempts]]
      /\ created \in [1 .. FileRows -> ImportIds \cup {None}]
      /\ ImportRunFits(w) /\ SingleRunFits(i, w) /\ RecordFits(i) /\ JobFits(i)
  BY RunNumbers
<1>2. PICK job2 \in [state: {"none", "waiting", "active", "done", "dead"},
                     attempts: 0 .. JobAttempts] :
        /\ jobs' = [jobs EXCEPT ![i] = job2]
        /\ job2.attempts = jobs[i].attempts
        /\ job2.state = jobs[i].state \/ job2.state # "none"
        /\ job2.state = "waiting" => job2.attempts < JobAttempts
  <2>1. CASE UNCHANGED jobs
    <3>1. jobs' = [jobs EXCEPT ![i] = jobs[i]]
      BY <1>1, <2>1
    <3>2. jobs[i].state = "waiting" => jobs[i].attempts < JobAttempts
      BY <1>1 DEF JobFits
    <3>3. QED BY <1>1, <3>1, <3>2
  <2>2. ASSUME NEW state \in {"waiting", "done", "dead"}, JobEnds(i, state),
               state = "waiting" => jobs[i].attempts < JobAttempts
        PROVE  \E x \in [state: {"none", "waiting", "active", "done", "dead"},
                          attempts: 0 .. JobAttempts] :
                 /\ jobs' = [jobs EXCEPT ![i] = x]
                 /\ x.attempts = jobs[i].attempts
                 /\ x.state = jobs[i].state \/ x.state # "none"
                 /\ x.state = "waiting" => x.attempts < JobAttempts
    <3> DEFINE x == [jobs[i] EXCEPT !.state = state]
    <3>1. jobs' = [jobs EXCEPT ![i] = x]
      BY <1>1, <2>2 DEF JobEnds
    <3>2. /\ x \in [state: {"none", "waiting", "active", "done", "dead"},
                    attempts: 0 .. JobAttempts]
          /\ x.attempts = jobs[i].attempts /\ x.state = state
      BY <1>1
    <3>3. QED BY <2>2, <3>1, <3>2
  <2>3. QED BY <2>1, <2>2
<1>3. \A j \in ImportIds : jobs'[j].attempts = jobs[j].attempts
  BY <1>1, <1>2
<1>4. /\ run'[w] = r
      /\ \A j \in ImportIds : RunsOf(j)' = RunsOf(j) /\ Begun(j)' = Begun(j)
  BY <1>3, RunFrame
<1>5. \A j : CreatedBy(j)' = CreatedBy(j)
  BY DEF CreatedBy
<1>6. \A n : MadeBefore(i, n)' = MadeBefore(i, n)
  BY <1>5 DEF MadeBefore
<1>7. imports' = [imports EXCEPT ![i] = imports[i]]
  BY <1>1
<1>8. RecordFits(i)'
  BY <1>1, <1>4, <1>5 DEF RecordFits
<1>9. ImportRunFits(w)'
  <2>1. CASE r.stage = "ended"
    BY <1>4, <2>1 DEF ImportRunFits
  <2>2. CASE /\ r.stage = run[w].stage /\ r.next = run[w].next
             /\ r.success = run[w].success /\ r.failed = run[w].failed
    BY <1>1, <1>4, <1>5, <1>6, <2>2 DEF ImportRunFits
  <2>3. QED BY <2>1, <2>2
<1>10. SingleRunFits(i, w)'
  BY <1>1, <1>4, <1>5 DEF SingleRunFits, Running
<1>11. Running(i)' => Running(i)
  BY DEF Running
<1>12. QED BY <1>1, <1>2, <1>5, <1>7, <1>8, <1>9, <1>10, <1>11, RunStep

LEMMA EndedRun ==
  ASSUME NEW r \in RunState
  PROVE  /\ Ended(r) \in RunState /\ Ended(r).stage = "ended"
         /\ Ended(r).import = r.import
<1>1. 0 \in 0 .. FileRows /\ 1 \in 1 .. FileRows + 1 /\ 0 \in 0 .. MaxFailed
  BY ImportAssumption DEF ImportAssumption, MaxFailed
<1>2. QED BY <1>1 DEF Ended, RunState

LEMMA EndRunSteps ==
  ASSUME ImportInv, NEW w \in Runs, ReportDone(w) \/ LoseRun(w)
  PROVE  ImportInv'
<1>1. run[w] # None /\ run \in [Runs -> RunState \cup {None}]
  BY DEF ReportDone, LoseRun, In, ImportInv, ImportJobsTypeOK
<1>2. PICK i \in ImportIds : run[w].import = i /\ run[w] \in RunState
  BY <1>1 DEF RunState
<1> DEFINE r == Ended(run[w])
<1>3. r \in RunState /\ r.stage = "ended" /\ r.import = i
  BY <1>2, EndedRun
<1>4. run' = [run EXCEPT ![w] = r] /\ UNCHANGED <<imports, created, importReq, overlapped>>
  BY DEF ReportDone, LoseRun, EndRun
<1>5. UNCHANGED jobs
      \/ (\E state \in {"waiting", "done", "dead"} :
            /\ JobEnds(i, state)
            /\ state = "waiting" => jobs[i].attempts < JobAttempts)
  BY <1>2 DEF ReportDone, LoseRun, JobRunsAgain
<1> HIDE DEF r
<1>6. QED BY <1>1, <1>2, <1>3, <1>4, <1>5, QuietRunStep

LEMMA StallStep ==
  ASSUME ImportInv, NEW w \in Runs, Stall(w)
  PROVE  ImportInv'
<1>1. run[w] # None /\ run \in [Runs -> RunState \cup {None}]
  BY DEF Stall, ImportInv, ImportJobsTypeOK
<1>2. PICK i \in ImportIds : run[w].import = i /\ run[w] \in RunState
  BY <1>1 DEF RunState
<1> DEFINE r == [run[w] EXCEPT !.owned = FALSE]
<1>3. /\ r \in RunState /\ r.import = i /\ r.stage = run[w].stage /\ r.next = run[w].next
      /\ r.success = run[w].success /\ r.failed = run[w].failed
  BY <1>2 DEF RunState
<1>4. run' = [run EXCEPT ![w] = r] /\ UNCHANGED <<imports, created, importReq, overlapped>>
  BY <1>1 DEF Stall
<1>5. \E state \in {"waiting", "done", "dead"} :
        /\ JobEnds(i, state)
        /\ state = "waiting" => jobs[i].attempts < JobAttempts
  BY <1>2 DEF Stall, JobRunsAgain
<1> HIDE DEF r
<1>6. QED BY <1>1, <1>2, <1>3, <1>4, <1>5, QuietRunStep

LEMMA RunFits ==
  ASSUME ImportInv, NEW w \in Runs, run[w] # None, NEW i \in ImportIds, run[w].import = i
  PROVE  /\ run[w].stage = "found" =>
              /\ run[w].success <= Cardinality(CreatedBy(i))
              /\ imports[i].bad <= run[w].failed /\ run[w].next = 1
         /\ run[w].stage \in {"rows", "saving", "finishing", "over"} =>
              /\ run[w].success <= Cardinality(MadeBefore(i, run[w].next))
              /\ run[w].success <= run[w].next - 1 /\ imports[i].bad <= run[w].failed
              /\ run[w].next - 1 + imports[i].bad <= run[w].success + run[w].failed
         /\ run[w].stage # "ended" =>
              run[w].failed + FileRows <= FailedBound(Begun(i)) + run[w].next - 1
         /\ run[w].stage = "rows" => run[w].next <= FileRows
         /\ run[w].stage \in {"finishing", "over"} => run[w].next = FileRows + 1
<1>1. ImportRunFits(w)
  BY RunNumbers
<1>2. QED BY <1>1 DEF ImportRunFits

(* A step of the run that saves its counts: with the status they call for, *)
(* it is enough that the run goes on as one that fits.                     *)
LEMMA SaveRecordStep ==
  ASSUME ImportInv, NEW w \in Runs, run[w] # None, NEW i \in ImportIds, run[w].import = i,
         NEW r \in RunState, r.import = i, NEW status \in ImportStatus,
         SaveRecord(w, [Processing(w) EXCEPT !.status = status], r),
         run[w].stage \in {"found", "rows", "saving", "finishing"},
         status = "COMPLETED" => run[w].stage = "finishing" /\ run[w].failed = 0,
         ImportRunFits(w)', SingleRunFits(i, w)'
  PROVE  ImportInv'
<1>1. /\ run[w] \in RunState /\ imports[i] \in ImportRow /\ w \in RunsOf(i)
      /\ imports \in [ImportIds -> ImportRow \cup {None}]
      /\ jobs \in [ImportIds -> [state: {"none", "waiting", "active", "done", "dead"},
                                   attempts: 0 .. JobAttempts]]
      /\ created \in [1 .. FileRows -> ImportIds \cup {None}]
      /\ run[w].success \in 0 .. FileRows /\ run[w].failed \in 0 .. MaxFailed
      /\ run[w].next \in 1 .. FileRows + 1 /\ imports[i].bad \in 0 .. BadRows
      /\ FileRows \in Nat \ {0} /\ BadRows \in Nat /\ MaxFailed \in Nat
      /\ FailedBound(Begun(i)) \in Nat
      /\ ImportRunFits(w) /\ SingleRunFits(i, w) /\ RecordFits(i) /\ JobFits(i)
  BY RunNumbers
<1> DEFINE rec == [Processing(w) EXCEPT !.status = status]
<1>2. /\ rec \in ImportRow /\ rec.status = status
      /\ rec.success = run[w].success /\ rec.failed = run[w].failed
      /\ rec.bad = imports[i].bad /\ rec.key = imports[i].key
  BY <1>1 DEF Processing, Recorded, ImportRow
<1>3. /\ imports' = [imports EXCEPT ![i] = rec] /\ run' = [run EXCEPT ![w] = r]
      /\ UNCHANGED <<created, jobs, importReq, overlapped>>
  BY DEF SaveRecord
<1> HIDE DEF rec
<1>4. /\ imports'[i] = rec
      /\ \A j \in ImportIds : RunsOf(j)' = RunsOf(j) /\ Begun(j)' = Begun(j)
  <2>1. \A j \in ImportIds : jobs'[j].attempts = jobs[j].attempts
    BY <1>3
  <2>2. \A j \in ImportIds : RunsOf(j)' = RunsOf(j) /\ Begun(j)' = Begun(j)
    BY <1>3, <2>1, RunFrame
  <2>3. QED BY <1>1, <1>3, <2>2
<1>5. \A j : CreatedBy(j)' = CreatedBy(j)
  BY <1>3 DEF CreatedBy
<1>6. /\ Cardinality(CreatedBy(i)) \in 0 .. FileRows
      /\ Cardinality(MadeBefore(i, run[w].next)) \in 0 .. FileRows
      /\ Cardinality(MadeBefore(i, run[w].next)) <= Cardinality(CreatedBy(i))
  BY MadeTyped
<1>7. RecordFits(i)'
  <2>1. imports[i].bad <= run[w].failed
    BY RunFits
  <2>2. run[w].failed <= FailedBound(Begun(i))
    <3>1. run[w].failed + FileRows <= FailedBound(Begun(i)) + run[w].next - 1
      BY RunFits
    <3>2. run[w].failed \in Int /\ run[w].next \in Int /\ run[w].next <= FileRows + 1
      BY <1>1
    <3>3. QED BY <1>1, <3>1, <3>2
  <2>3. run[w].success <= Cardinality(CreatedBy(i))
    <3>1. \/ run[w].success <= Cardinality(CreatedBy(i))
          \/ run[w].success <= Cardinality(MadeBefore(i, run[w].next))
      BY RunFits
    <3>2. QED BY <1>1, <1>6, <3>1
  <2>4. ASSUME status = "COMPLETED"
        PROVE  imports[i].bad = 0 /\ Cardinality(CreatedBy(i)) = FileRows
    <3>1. /\ run[w].next = FileRows + 1 /\ run[w].failed = 0
          /\ run[w].next - 1 + imports[i].bad <= run[w].success + run[w].failed
      BY <2>4, RunFits
    <3>2. imports[i].bad = 0
      BY <1>1, <2>1, <3>1
    <3>3. FileRows <= run[w].success
      BY <1>1, <3>1, <3>2
    <3>4. QED BY <1>1, <1>6, <2>3, <3>2, <3>3
  <2>5. RunsOf(i)' # {}
    BY <1>1, <1>4
  <2>6. QED BY <1>2, <1>4, <1>5, <2>1, <2>2, <2>3, <2>4, <2>5 DEF RecordFits
<1>8. RunsOf(i) = {w} => Running(i)
  BY <1>1 DEF SingleRunFits
<1>9. jobs' = [jobs EXCEPT ![i] = jobs[i]] /\ jobs[i] \in
         [state: {"none", "waiting", "active", "done", "dead"}, attempts: 0 .. JobAttempts]
      /\ (jobs[i].state = "waiting" => jobs[i].attempts < JobAttempts)
  BY <1>1, <1>3 DEF JobFits
<1>10. created' \in [1 .. FileRows -> ImportIds \cup {None}]
  BY <1>1, <1>3
<1>11. QED BY <1>1, <1>2, <1>3, <1>5, <1>7, <1>8, <1>9, <1>10, RunStep

LEMMA ProcessingRecord ==
  ASSUME ImportInv, NEW w \in Runs, run[w] # None
  PROVE  /\ Processing(w) = [Processing(w) EXCEPT !.status = "PROCESSING"]
         /\ \A status : /\ [Processing(w) EXCEPT !.status = status].status = status
                       /\ [Processing(w) EXCEPT !.status = status].success = run[w].success
                       /\ [Processing(w) EXCEPT !.status = status].failed = run[w].failed
                       /\ [Processing(w) EXCEPT !.status = status].bad
                            = imports[run[w].import].bad
<1>1. PICK i \in ImportIds : run[w].import = i
  BY DEF ImportInv, ImportJobsTypeOK, RunState
<1>2. imports[i] \in ImportRow
  BY <1>1, RunNumbers
<1>3. QED BY <1>1, <1>2 DEF Processing, Recorded, ImportRow

LEMMA NotNoRecord ==
  ASSUME ImportInv, NEW w \in Runs, run[w] # None, NEW status \in ImportStatus
  PROVE  /\ [Processing(w) EXCEPT !.status = status] \in ImportRow
         /\ [Processing(w) EXCEPT !.status = status] # None
         /\ Processing(w) # None
<1>1. PICK i \in ImportIds : run[w].import = i
  BY DEF ImportInv, ImportJobsTypeOK, RunState
<1>2. /\ imports[i] \in ImportRow /\ run[w].success \in 0 .. FileRows
      /\ run[w].failed \in 0 .. MaxFailed
  BY <1>1, RunNumbers
<1>3. [Processing(w) EXCEPT !.status = status] \in ImportRow /\ Processing(w) \in ImportRow
  BY <1>1, <1>2 DEF Processing, Recorded, ImportRow, ImportStatus
<1>4. QED BY <1>3, NoImportAssumption DEF NoImportAssumption

LEMMA BeginStep ==
  ASSUME ImportInv, NEW w \in Runs, Begin(w)
  PROVE  ImportInv'
<1>1. run[w] # None /\ run[w].stage = "found"
  BY DEF Begin, In
<1>2. PICK i \in ImportIds : run[w].import = i
  BY <1>1 DEF ImportInv, ImportJobsTypeOK, RunState
<1>3. /\ run[w] \in RunState /\ imports[i] \in ImportRow /\ w \in RunsOf(i)
      /\ imports \in [ImportIds -> ImportRow \cup {None}]
      /\ run[w].failed \in 0 .. MaxFailed /\ imports[i].bad \in 0 .. BadRows
      /\ FileRows \in Nat \ {0} /\ BadRows \in Nat /\ MaxFailed \in Nat
      /\ ImportRunFits(w) /\ SingleRunFits(i, w)
  BY <1>1, <1>2, RunNumbers
<1> DEFINE r == [run[w] EXCEPT !.stage = "rows", !.success = 0]
<1>4. /\ r \in RunState /\ r.stage = "rows" /\ r.success = 0 /\ r.import = i
      /\ r.next = run[w].next /\ r.failed = run[w].failed
  <2>1. 0 \in 0 .. FileRows
    BY <1>3
  <2>2. QED BY <1>2, <1>3, <2>1 DEF RunState
<1>5. SaveRecord(w, Processing(w), r)
  BY DEF Begin
<1> HIDE DEF r
<1>6. /\ run'[w] = r /\ imports'[i] = Processing(w)
      /\ \A j \in ImportIds : RunsOf(j)' = RunsOf(j) /\ Begun(j)' = Begun(j)
  <2>1. run' = [run EXCEPT ![w] = r] /\ UNCHANGED <<jobs, importReq>>
    BY <1>5 DEF SaveRecord
  <2>2. imports'[i] = Processing(w)
    BY <1>3, <1>4, <1>5 DEF SaveRecord
  <2>3. QED BY <1>1, <1>2, <1>4, <2>1, <2>2, RunFrame
<1>7. /\ Processing(w).status = "PROCESSING" /\ Processing(w).failed = run[w].failed
      /\ Processing(w).bad = imports[i].bad
  <2>1. Processing(w) = [Processing(w) EXCEPT !.status = "PROCESSING"]
    BY <1>1, ProcessingRecord
  <2> DEFINE rec == [Processing(w) EXCEPT !.status = "PROCESSING"]
  <2>2. rec.status = "PROCESSING" /\ rec.failed = run[w].failed /\ rec.bad = imports[i].bad
    BY <1>1, <1>2, ProcessingRecord
  <2> HIDE DEF rec
  <2>3. QED BY <2>1, <2>2 DEF rec
<1>8. CreatedBy(i)' = CreatedBy(i)
  BY <1>5 DEF SaveRecord, CreatedBy
<1>9. ImportRunFits(w)'
  <2>1. run[w].next = 1 /\ imports[i].bad <= run[w].failed
        /\ run[w].failed + FileRows <= FailedBound(Begun(i)) + run[w].next - 1
    BY <1>1, <1>2, <1>3 DEF ImportRunFits
  <2>2. Cardinality(MadeBefore(i, 1)') \in 0 .. FileRows
    BY <1>8, MadeGrown
  <2>3. QED BY <1>3, <1>4, <1>6, <1>7, <2>1, <2>2 DEF ImportRunFits
<1>10. SingleRunFits(i, w)'
  <2>1. CASE RunsOf(i) = {w}
    <3>1. CreatedBy(i) = {} /\ run[w].failed = imports[i].bad
      BY <1>1, <1>3, <2>1 DEF SingleRunFits
    <3>2. Cardinality(CreatedBy(i)') = 0 /\ run[w].next = 1
      BY <1>1, <1>3, <1>8, <3>1, FS_EmptySet DEF ImportRunFits
    <3>3. Running(i)'
      <4>1. imports'[i] # None
        BY <1>1, <1>6, NotNoRecord DEF ImportStatus
      <4>2. QED BY <1>6, <1>7, <4>1 DEF Running
    <3>4. QED BY <1>3, <1>4, <1>6, <1>7, <3>1, <3>2, <3>3 DEF SingleRunFits
  <2>2. QED BY <1>6, <2>1 DEF SingleRunFits
<1>11. SaveRecord(w, [Processing(w) EXCEPT !.status = "PROCESSING"], r)
  BY <1>1, <1>5, ProcessingRecord
<1>12. "PROCESSING" \in ImportStatus
  BY DEF ImportStatus
<1>13. QED BY <1>1, <1>2, <1>4, <1>9, <1>10, <1>11, <1>12, SaveRecordStep

(* The next save, of what was counted so far, or the last.                 *)
LEMMA NextSaveStep ==
  ASSUME ImportInv, NEW w \in Runs, run[w] # None, NEW status \in ImportStatus,
         NEW stage \in {"rows", "finishing", "over"},
         SaveRecord(w, [Processing(w) EXCEPT !.status = status],
                    [run[w] EXCEPT !.stage = stage]),
         \/ /\ run[w].stage = "saving" /\ status = "PROCESSING"
            /\ stage = "rows" => run[w].next <= FileRows
            /\ stage # "rows" => stage = "finishing" /\ run[w].next = FileRows + 1
         \/ run[w].stage = "finishing" /\ stage = "over" /\ status = Outcome(run[w])
  PROVE  ImportInv'
<1>1. PICK i \in ImportIds : run[w].import = i
  BY DEF ImportInv, ImportJobsTypeOK, RunState
<1>2. /\ run[w] \in RunState /\ imports[i] \in ImportRow /\ w \in RunsOf(i)
      /\ imports \in [ImportIds -> ImportRow \cup {None}]
      /\ run[w].success \in 0 .. FileRows
      /\ run[w].failed \in 0 .. MaxFailed /\ imports[i].bad \in 0 .. BadRows
      /\ run[w].next \in 1 .. FileRows + 1
      /\ FileRows \in Nat \ {0} /\ BadRows \in Nat /\ MaxFailed \in Nat
      /\ SingleRunFits(i, w)
  BY <1>1, RunNumbers
<1> DEFINE r == [run[w] EXCEPT !.stage = stage]
<1>3. /\ r \in RunState /\ r.stage = stage /\ r.success = run[w].success /\ r.import = i
      /\ r.next = run[w].next /\ r.failed = run[w].failed
  BY <1>1, <1>2 DEF RunState
<1> DEFINE rec == [Processing(w) EXCEPT !.status = status]
<1>4. /\ rec.status = status /\ rec.success = run[w].success /\ rec.failed = run[w].failed
      /\ rec.bad = imports[i].bad /\ rec # None
  BY <1>1, ProcessingRecord, NotNoRecord
<1>5. SaveRecord(w, rec, r)
  OBVIOUS
<1> HIDE DEF r, rec
<1>6. /\ run'[w] = r /\ imports'[i] = rec
      /\ \A j \in ImportIds : RunsOf(j)' = RunsOf(j) /\ Begun(j)' = Begun(j)
  <2>1. run' = [run EXCEPT ![w] = r] /\ UNCHANGED <<jobs, importReq>>
    BY <1>5 DEF SaveRecord
  <2>2. imports'[i] = rec
    BY <1>2, <1>3, <1>5 DEF SaveRecord
  <2>3. QED BY <1>1, <1>3, <2>1, <2>2, RunFrame
<1>7. CreatedBy(i)' = CreatedBy(i) /\ \A n : MadeBefore(i, n)' = MadeBefore(i, n)
  BY <1>5 DEF SaveRecord, CreatedBy, MadeBefore
<1>8. ImportRunFits(w)'
  <2>1. /\ run[w].success <= Cardinality(MadeBefore(i, run[w].next))
        /\ run[w].success <= run[w].next - 1 /\ imports[i].bad <= run[w].failed
        /\ run[w].next - 1 + imports[i].bad <= run[w].success + run[w].failed
        /\ run[w].failed + FileRows <= FailedBound(Begun(i)) + run[w].next - 1
        /\ run[w].stage = "finishing" => run[w].next = FileRows + 1
    BY <1>1, RunFits
  <2>2. PICK n \in 1 .. FileRows + 1 : n = run[w].next
    BY <1>2
  <2>3. QED BY <1>3, <1>4, <1>6, <1>7, <2>1, <2>2 DEF ImportRunFits
<1>9. SingleRunFits(i, w)'
  <2>1. CASE RunsOf(i) = {w}
    <3>1. /\ run[w].success = Cardinality(CreatedBy(i))
          /\ run[w].success + run[w].failed = run[w].next - 1 + imports[i].bad
      BY <1>2, <2>1 DEF SingleRunFits
    <3>2. CASE status = "PROCESSING"
      <4>1. Running(i)' /\ stage # "found"
        BY <1>4, <1>6, <3>2 DEF Running
      <4>2. QED BY <1>3, <1>4, <1>6, <1>7, <3>1, <4>1 DEF SingleRunFits
    <3>3. CASE status = Outcome(run[w]) /\ stage = "over" /\ run[w].stage = "finishing"
      <4>1. run[w].next = FileRows + 1
        BY <1>1, <3>3, RunFits
      <4>2. run[w].success + run[w].failed = FileRows + imports[i].bad
        BY <1>2, <3>1, <4>1
      <4>3. status = "FAILED" => CreatedBy(i) = {}
        <5>1. status = "FAILED" => Cardinality(CreatedBy(i)) = 0
          BY <1>2, <3>1, <3>3 DEF Outcome
        <5>2. QED BY <5>1, MadeTyped, FS_EmptySet
      <4>4. QED BY <1>3, <1>4, <1>6, <1>7, <3>1, <3>3, <4>2, <4>3 DEF SingleRunFits
    <3>4. QED BY <3>2, <3>3
  <2>2. QED BY <1>6, <2>1 DEF SingleRunFits
<1>10. status = "COMPLETED" => run[w].stage = "finishing" /\ run[w].failed = 0
  BY <1>2 DEF Outcome
<1>11. SaveRecord(w, [Processing(w) EXCEPT !.status = status], r)
  BY <1>5 DEF rec
<1>12. QED BY <1>1, <1>3, <1>8, <1>9, <1>10, <1>11, SaveRecordStep

LEMMA SaveCountsStep ==
  ASSUME ImportInv, NEW w \in Runs, SaveCounts(w)
  PROVE  ImportInv'
<1>1. run[w] # None /\ run[w].stage = "saving"
  BY DEF SaveCounts, In
<1>2. PICK i \in ImportIds : run[w].import = i
  BY <1>1 DEF ImportInv, ImportJobsTypeOK, RunState
<1>3. run[w].next \in 1 .. FileRows + 1 /\ FileRows \in Nat
  BY <1>1, <1>2, RunNumbers
<1>4. PICK stage \in {"rows", "finishing"} :
        /\ SaveRecord(w, Processing(w), [run[w] EXCEPT !.stage = stage])
        /\ stage = IF run[w].next > FileRows THEN "finishing" ELSE "rows"
  BY DEF SaveCounts
<1>5. SaveRecord(w, [Processing(w) EXCEPT !.status = "PROCESSING"],
                 [run[w] EXCEPT !.stage = stage])
  BY <1>1, <1>4, ProcessingRecord
<1>6. /\ stage = "rows" => run[w].next <= FileRows
      /\ stage # "rows" => stage = "finishing" /\ run[w].next = FileRows + 1
  BY <1>3, <1>4
<1>7. "PROCESSING" \in ImportStatus
  BY DEF ImportStatus
<1>8. QED BY <1>1, <1>5, <1>6, <1>7, NextSaveStep

LEMMA FinishStep ==
  ASSUME ImportInv, NEW w \in Runs, Finish(w)
  PROVE  ImportInv'
<1>1. /\ run[w] # None /\ run[w].stage = "finishing"
      /\ SaveRecord(w, [Processing(w) EXCEPT !.status = Outcome(run[w])],
                    [run[w] EXCEPT !.stage = "over"])
  BY DEF Finish, In
<1>2. Outcome(run[w]) \in ImportStatus
  BY DEF Outcome, ImportStatus
<1>3. QED BY <1>1, <1>2, NextSaveStep

(* A row is over: it was made a resident, or counts as a failure.          *)
LEMMA AfterRowStep ==
  ASSUME ImportInv, NEW w \in Runs, run[w] # None, run[w].stage = "rows",
         NEW i \in ImportIds, run[w].import = i, NEW n, run[w].next = n,
         NEW r \in RunState, r.import = i, r.next = n + 1, r.stage \in {"rows", "saving"},
         r.stage = "rows" => n # FileRows,
         run' = [run EXCEPT ![w] = r], UNCHANGED <<imports, jobs, importReq, overlapped>>,
         \/ /\ UNCHANGED created
            /\ r.success = run[w].success /\ r.failed = run[w].failed + 1
         \/ /\ created[n] = None /\ created' = [created EXCEPT ![n] = i]
            /\ r.success = run[w].success + 1 /\ r.failed = run[w].failed
  PROVE  ImportInv'
<1>1. /\ run[w] \in RunState /\ imports[i] \in ImportRow /\ w \in RunsOf(i)
      /\ imports \in [ImportIds -> ImportRow \cup {None}]
      /\ jobs \in [ImportIds -> [state: {"none", "waiting", "active", "done", "dead"},
                                   attempts: 0 .. JobAttempts]]
      /\ created \in [1 .. FileRows -> ImportIds \cup {None}]
      /\ run[w].success \in 0 .. FileRows /\ run[w].failed \in 0 .. MaxFailed
      /\ imports[i].success \in 0 .. FileRows /\ imports[i].failed \in 0 .. MaxFailed
      /\ n \in 1 .. FileRows + 1 /\ imports[i].bad \in 0 .. BadRows
      /\ FileRows \in Nat \ {0} /\ BadRows \in Nat /\ MaxFailed \in Nat
      /\ FailedBound(Begun(i)) \in Nat
      /\ SingleRunFits(i, w) /\ RecordFits(i) /\ JobFits(i)
  BY RunNumbers
<1>2. n \in 1 .. FileRows
  <2>1. n <= FileRows
    BY RunFits
  <2>2. QED BY <1>1, <2>1
<1>3. /\ run'[w] = r
      /\ \A j \in ImportIds : RunsOf(j)' = RunsOf(j) /\ Begun(j)' = Begun(j)
  BY RunFrame
<1>4. created' \in [1 .. FileRows -> ImportIds \cup {None}]
  BY <1>1, <1>2
<1>5. /\ \A j \in ImportIds : CreatedBy(j) \subseteq CreatedBy(j)'
      /\ \A j \in ImportIds \ {i} : CreatedBy(j)' = CreatedBy(j)
      /\ r.success = run[w].success =>
           CreatedBy(i)' = CreatedBy(i) /\ MadeBefore(i, n) \subseteq MadeBefore(i, n + 1)'
      /\ r.success = run[w].success + 1 =>
           /\ CreatedBy(i)' = CreatedBy(i) \cup {n} /\ n \notin CreatedBy(i)
           /\ MadeBefore(i, n + 1)' = MadeBefore(i, n) \cup {n}
  <2>1. ASSUME UNCHANGED created, r.success = run[w].success
        PROVE  /\ \A j \in ImportIds : CreatedBy(j)' = CreatedBy(j)
               /\ MadeBefore(i, n) \subseteq MadeBefore(i, n + 1)'
    <3>1. \A j \in ImportIds : CreatedBy(j)' = CreatedBy(j)
      BY <2>1 DEF CreatedBy
    <3>2. \A m \in CreatedBy(i) : m \in Int
      BY DEF CreatedBy
    <3>3. QED BY <1>2, <3>1, <3>2 DEF MadeBefore
  <2>2. ASSUME created[n] = None, created' = [created EXCEPT ![n] = i]
        PROVE  /\ \A j \in ImportIds \ {i} : CreatedBy(j)' = CreatedBy(j)
               /\ CreatedBy(i)' = CreatedBy(i) \cup {n} /\ n \notin CreatedBy(i)
               /\ MadeBefore(i, n + 1)' = MadeBefore(i, n) \cup {n}
    <3>1. /\ created'[n] = i /\ \A m \in 1 .. FileRows : m # n => created'[m] = created[m]
      BY <1>1, <1>2, <2>2
    <3>2. \A j \in ImportIds : created[n] # j
      BY <2>2, NoImportAssumption DEF NoImportAssumption
    <3>3. /\ \A j \in ImportIds \ {i} : CreatedBy(j)' = CreatedBy(j)
          /\ CreatedBy(i)' = CreatedBy(i) \cup {n} /\ n \notin CreatedBy(i)
      BY <1>2, <3>1, <3>2 DEF CreatedBy
    <3>4. \A m \in CreatedBy(i) : m \in Int /\ m # n
      BY <3>3 DEF CreatedBy
    <3>5. MadeBefore(i, n + 1)' = {m \in CreatedBy(i)' : m < n + 1}
      BY DEF MadeBefore
    <3>6. \A m \in CreatedBy(i) : m < n + 1 <=> m < n
      BY <1>2, <3>4
    <3>7. QED BY <1>2, <3>3, <3>5, <3>6 DEF MadeBefore
  <2>3. run[w].success # run[w].success + 1
    BY <1>1
  <2>4. QED BY <2>1, <2>2, <2>3
<1>6. /\ FileRows \in Nat /\ CreatedBy(i) \in SUBSET (1 .. FileRows)
      /\ MadeBefore(i, n) \in SUBSET (1 .. FileRows) /\ MadeBefore(i, n) \subseteq CreatedBy(i)
  BY <1>1, MadeTyped
<1>7. /\ Cardinality(CreatedBy(i)) \in 0 .. FileRows
      /\ Cardinality(CreatedBy(i)') \in 0 .. FileRows
      /\ Cardinality(CreatedBy(i)) <= Cardinality(CreatedBy(i)')
  BY <1>5, MadeTyped, MadeGrown
<1>8. /\ Cardinality(MadeBefore(i, n)) \in 0 .. FileRows
      /\ Cardinality(MadeBefore(i, n + 1)') \in 0 .. FileRows
  <2>1. CreatedBy(i) \subseteq CreatedBy(i)'
    BY <1>5
  <2>2. n + 1 \in Int
    BY <1>2
  <2>3. QED BY <2>1, <2>2, MadeTyped, MadeGrown
<1>9. \/ /\ r.success = run[w].success /\ r.failed = run[w].failed + 1
         /\ Cardinality(CreatedBy(i)') = Cardinality(CreatedBy(i))
         /\ Cardinality(MadeBefore(i, n)) <= Cardinality(MadeBefore(i, n + 1)')
      \/ /\ r.success = run[w].success + 1 /\ r.failed = run[w].failed
         /\ Cardinality(CreatedBy(i)') = Cardinality(CreatedBy(i)) + 1
         /\ Cardinality(CreatedBy(i)) < FileRows
         /\ Cardinality(MadeBefore(i, n + 1)') = Cardinality(MadeBefore(i, n)) + 1
  <2>1. CASE r.success = run[w].success /\ r.failed = run[w].failed + 1
    <3>1. CreatedBy(i)' = CreatedBy(i)
      BY <1>5, <2>1
    <3>2. MadeBefore(i, n + 1)' \in SUBSET (1 .. FileRows)
      BY <1>6, <3>1 DEF MadeBefore
    <3>3. MadeBefore(i, n) \in SUBSET MadeBefore(i, n + 1)'
      BY <1>5, <2>1
    <3>4. QED BY <1>6, <2>1, <3>1, <3>2, <3>3, UpTo
  <2>2. CASE r.success = run[w].success + 1 /\ r.failed = run[w].failed
    <3>1. /\ CreatedBy(i)' = CreatedBy(i) \cup {n} /\ n \notin CreatedBy(i)
          /\ MadeBefore(i, n + 1)' = MadeBefore(i, n) \cup {n}
      BY <1>5, <2>2
    <3>2. /\ Cardinality(CreatedBy(i) \cup {n}) = Cardinality(CreatedBy(i)) + 1
          /\ Cardinality(CreatedBy(i)) < FileRows
      BY <1>2, <1>6, <3>1, OneMore
    <3>3. Cardinality(MadeBefore(i, n) \cup {n}) = Cardinality(MadeBefore(i, n)) + 1
      <4>1. n \notin MadeBefore(i, n)
        BY <1>6, <3>1
      <4>2. QED BY <1>2, <1>6, <4>1, OneMore
    <3>4. QED BY <2>2, <3>1, <3>2, <3>3
  <2>3. QED BY <2>1, <2>2
<1>10. /\ run[w].success <= Cardinality(MadeBefore(i, n))
       /\ run[w].success <= n - 1 /\ imports[i].bad <= run[w].failed
       /\ n - 1 + imports[i].bad <= run[w].success + run[w].failed
       /\ run[w].failed + FileRows <= FailedBound(Begun(i)) + n - 1
  BY RunFits
<1>11. ImportRunFits(w)'
  <2>1. /\ r.success <= Cardinality(MadeBefore(i, n + 1)')
        /\ r.success <= n /\ imports[i].bad <= r.failed
        /\ n + imports[i].bad <= r.success + r.failed
        /\ r.failed + FileRows <= FailedBound(Begun(i)) + n
        /\ r.stage = "rows" => n + 1 <= FileRows
    <3>1. /\ run[w].success \in Int /\ run[w].failed \in Int /\ n \in Int
          /\ imports[i].bad \in Int /\ FileRows \in Int /\ FailedBound(Begun(i)) \in Int
          /\ Cardinality(MadeBefore(i, n)) \in Int
          /\ Cardinality(MadeBefore(i, n + 1)') \in Int
          /\ n <= FileRows
      BY <1>1, <1>2, <1>8
    <3>2. CASE /\ r.success = run[w].success /\ r.failed = run[w].failed + 1
               /\ Cardinality(MadeBefore(i, n)) <= Cardinality(MadeBefore(i, n + 1)')
      BY <1>10, <3>1, <3>2
    <3>3. CASE /\ r.success = run[w].success + 1 /\ r.failed = run[w].failed
               /\ Cardinality(MadeBefore(i, n + 1)') = Cardinality(MadeBefore(i, n)) + 1
      BY <1>10, <3>1, <3>3
    <3>4. QED BY <1>9, <3>2, <3>3
  <2>2. PICK m \in Nat : m = n + 1 /\ m - 1 = n
    BY <1>2
  <2>3. /\ r.success <= Cardinality(MadeBefore(i, m)')
        /\ r.success <= m - 1 /\ imports[i].bad <= r.failed
        /\ m - 1 + imports[i].bad <= r.success + r.failed
        /\ r.failed + FileRows <= FailedBound(Begun(i)) + m - 1
        /\ r.stage = "rows" => m <= FileRows
    <3>1. FailedBound(Begun(i)) + m - 1 = FailedBound(Begun(i)) + n
      BY <1>1, <1>2, <2>2
    <3>2. QED BY <2>1, <2>2, <3>1
  <2>4. r.next = m
    BY <2>2
  <2>5. QED BY <1>3, <2>3, <2>4 DEF ImportRunFits
<1>12. RecordFits(i)'
  <2>1. /\ imports[i].success <= Cardinality(CreatedBy(i)')
        /\ imports[i].status = "COMPLETED" =>
             imports[i].bad = 0 /\ Cardinality(CreatedBy(i)') = FileRows
    BY <1>1, <1>7, <1>9 DEF RecordFits
  <2>2. RunsOf(i)' # {}
    BY <1>1, <1>3
  <2>3. QED BY <1>1, <1>3, <2>1, <2>2 DEF RecordFits
<1>13. SingleRunFits(i, w)'
  <2>1. CASE RunsOf(i) = {w}
    <3>1. /\ run[w].success = Cardinality(CreatedBy(i)) /\ Running(i)
          /\ run[w].success + run[w].failed = n - 1 + imports[i].bad
      BY <1>1, <2>1 DEF SingleRunFits
    <3>2. /\ r.success = Cardinality(CreatedBy(i)') /\ Running(i)'
          /\ r.success + r.failed = (n + 1) - 1 + imports[i].bad
      <4>1. Running(i)'
        BY <3>1 DEF Running
      <4>2. /\ run[w].success \in Int /\ run[w].failed \in Int /\ n \in Int
            /\ imports[i].bad \in Int
        BY <1>1, <1>2
      <4>3. CASE /\ r.success = run[w].success /\ r.failed = run[w].failed + 1
                 /\ Cardinality(CreatedBy(i)') = Cardinality(CreatedBy(i))
        BY <3>1, <4>1, <4>2, <4>3
      <4>4. CASE /\ r.success = run[w].success + 1 /\ r.failed = run[w].failed
                 /\ Cardinality(CreatedBy(i)') = Cardinality(CreatedBy(i)) + 1
        BY <3>1, <4>1, <4>2, <4>4
      <4>5. QED BY <1>9, <4>3, <4>4
    <3>3. QED BY <1>3, <3>2 DEF SingleRunFits
  <2>2. QED BY <1>3, <2>1 DEF SingleRunFits
<1>14. Running(i)' => Running(i)
  BY DEF Running
<1>15. /\ jobs' = [jobs EXCEPT ![i] = jobs[i]] /\ imports' = [imports EXCEPT ![i] = imports[i]]
       /\ jobs[i] \in [state: {"none", "waiting", "active", "done", "dead"},
                       attempts: 0 .. JobAttempts]
       /\ (jobs[i].state = "waiting" => jobs[i].attempts < JobAttempts)
  BY <1>1 DEF JobFits
<1>16. QED BY <1>1, <1>4, <1>5, <1>11, <1>12, <1>13, <1>14, <1>15, RunStep

LEMMA RowSteps ==
  ASSUME ImportInv, NEW w \in Runs, ImportRowOk(w) \/ ImportRowFails(w)
  PROVE  ImportInv'
<1>1. run[w] # None /\ run[w].stage = "rows"
  BY DEF ImportRowOk, ImportRowFails, In
<1>2. PICK i \in ImportIds : run[w].import = i
  BY <1>1 DEF ImportInv, ImportJobsTypeOK, RunState
<1>3. /\ run[w] \in RunState /\ run[w].success \in 0 .. FileRows
      /\ run[w].failed \in 0 .. MaxFailed /\ run[w].next \in 1 .. FileRows + 1
      /\ FileRows \in Nat /\ MaxFailed \in Nat
      /\ FailedBound(Begun(i)) \in Nat /\ FailedBound(Begun(i)) <= MaxFailed
  BY <1>1, <1>2, RunNumbers
<1>4. PICK n : n = run[w].next
  OBVIOUS
<1>5. /\ n <= FileRows /\ run[w].success <= n - 1
      /\ run[w].failed + FileRows <= FailedBound(Begun(i)) + n - 1
  BY <1>1, <1>2, <1>4, RunFits
<1>6. /\ n + 1 \in 1 .. FileRows + 1 /\ run[w].success + 1 \in 0 .. FileRows
      /\ run[w].failed + 1 \in 0 .. MaxFailed
  BY <1>3, <1>4, <1>5
<1>7. PICK stage \in {"rows", "saving"} :
        /\ AfterRow(run[w]) = [run[w] EXCEPT !.next = n + 1, !.stage = stage]
        /\ stage = "rows" => n # FileRows
  <2>1. /\ AfterRow(run[w]) = [run[w] EXCEPT !.next = n + 1,
             !.stage = IF n % Checkpoint = 0 \/ n = FileRows THEN "saving" ELSE "rows"]
    BY <1>3, <1>4 DEF AfterRow
  <2>2. QED BY <2>1
<1>8. CASE ImportRowOk(w)
  <2> DEFINE r == [AfterRow(run[w]) EXCEPT !.success = @ + 1]
  <2>1. /\ r \in RunState /\ r.import = i /\ r.next = n + 1 /\ r.stage = stage
        /\ r.success = run[w].success + 1 /\ r.failed = run[w].failed
    BY <1>2, <1>3, <1>6, <1>7 DEF RunState
  <2>2. /\ run' = [run EXCEPT ![w] = r] /\ UNCHANGED <<imports, jobs, importReq, overlapped>>
        /\ created[n] = None /\ created' = [created EXCEPT ![n] = i]
    BY <1>2, <1>4, <1>8 DEF ImportRowOk
  <2> HIDE DEF r
  <2>3. QED BY <1>1, <1>2, <1>4, <1>7, <2>1, <2>2, AfterRowStep
<1>9. CASE ImportRowFails(w)
  <2> DEFINE r == [AfterRow(run[w]) EXCEPT !.failed = @ + 1]
  <2>1. /\ r \in RunState /\ r.import = i /\ r.next = n + 1 /\ r.stage = stage
        /\ r.success = run[w].success /\ r.failed = run[w].failed + 1
    BY <1>2, <1>3, <1>6, <1>7 DEF RunState
  <2>2. /\ run' = [run EXCEPT ![w] = r]
        /\ UNCHANGED <<imports, created, jobs, importReq, overlapped>>
    BY <1>9 DEF ImportRowFails
  <2> HIDE DEF r
  <2>3. QED BY <1>1, <1>2, <1>4, <1>7, <2>1, <2>2, AfterRowStep
<1>10. QED BY <1>8, <1>9

(* What the invariant says of runs, records and jobs.                      *)
JobMay(i) ==
  /\ jobs[i].state = "none" => jobs[i].attempts = 0
  /\ jobs[i].state = "waiting" => jobs[i].attempts < JobAttempts
  /\ imports[i] = None => jobs[i].state = "none"
RunsAllFit ==
  /\ IsFiniteSet({w \in Runs : run[w] # None})
  /\ \A i \in ImportIds : JobFits(i) /\ (imports[i] # None => RecordFits(i))
  /\ \A w \in Runs : run[w] # None =>
       ImportRunFits(w) /\ \A i \in ImportIds : SingleRunFits(i, w)

LEMMA FailedGrows ==
  ASSUME NEW n \in 0 .. JobAttempts + 1, NEW m \in {n, n + 1}
  PROVE  FailedBound(n) <= FailedBound(m)
<1>1. /\ FailedBound(n) \in Nat /\ FailedBound(n + 1) = FailedBound(n) + FileRows
      /\ FileRows \in Nat
  BY FailedRoom, ImportAssumption DEF ImportAssumption
<1>2. CASE m = n
  BY <1>1, <1>2
<1>3. CASE m = n + 1
  BY <1>1, <1>3
<1>4. QED BY <1>2, <1>3

(* They fit while no run goes on.                                          *)
LEMMA FitKept ==
  ASSUME ImportInv, UNCHANGED <<imports, created, run>>,
         \A j \in ImportIds :
           /\ Begun(j)' \in {Begun(j), Begun(j) + 1} /\ (Startable(j)' => Startable(j))
           /\ JobMay(j)'
  PROVE  RunsAllFit' /\ \A j \in ImportIds : RunsOf(j)' = RunsOf(j)
<1>1. /\ \A j : CreatedBy(j)' = CreatedBy(j) /\ RunsOf(j)' = RunsOf(j)
      /\ \A j, n : MadeBefore(j, n)' = MadeBefore(j, n)
  BY DEF CreatedBy, RunsOf, MadeBefore
<1>2. ASSUME NEW j \in ImportIds
      PROVE  /\ FailedBound(Begun(j)) \in Int /\ FailedBound(Begun(j)') \in Int
             /\ FailedBound(Begun(j)) <= FailedBound(Begun(j)')
  <2>1. Begun(j) \in 0 .. JobAttempts + 1 /\ FailedBound(Begun(j)) \in Nat
    BY BegunTyped
  <2>2. FailedBound(Begun(j)') \in Int
    <3>1. FailedBound(Begun(j) + 1) = FailedBound(Begun(j)) + FileRows /\ FileRows \in Nat
      BY <2>1, FailedRoom, ImportAssumption DEF ImportAssumption
    <3>2. CASE Begun(j)' = Begun(j)
      BY <2>1, <3>2
    <3>3. CASE Begun(j)' = Begun(j) + 1
      BY <2>1, <3>1, <3>3
    <3>4. QED BY <3>2, <3>3
  <2>3. FailedBound(Begun(j)) <= FailedBound(Begun(j)')
    BY <2>1, FailedGrows
  <2>4. QED BY <2>1, <2>2, <2>3
<1>3. ASSUME NEW j \in ImportIds
      PROVE  JobFits(j)' /\ (imports'[j] # None => RecordFits(j)')
  <2>1. JobFits(j)'
    BY <1>1 DEF ImportInv, JobFits, JobMay
  <2>2. ASSUME imports[j] # None PROVE RecordFits(j)'
    <3>1. RecordFits(j) /\ imports[j] \in ImportRow
      BY <2>2 DEF ImportInv, ImportJobsTypeOK
    <3>2. imports[j].failed \in Int
      BY <3>1 DEF ImportRow
    <3>3. imports[j].failed <= FailedBound(Begun(j)')
      BY <1>2, <3>1, <3>2 DEF RecordFits
    <3>4. QED BY <1>1, <3>1, <3>3 DEF RecordFits
  <2>3. QED BY <2>1, <2>2
<1>4. ASSUME NEW v \in Runs, run[v] # None
      PROVE  ImportRunFits(v)' /\ \A j \in ImportIds : SingleRunFits(j, v)'
  <2>1. PICK j \in ImportIds : run[v].import = j /\ run[v] \in RunState
    BY <1>4 DEF ImportInv, ImportJobsTypeOK, RunState
  <2>2. run[v].failed \in Int /\ run[v].next \in Int /\ FileRows \in Int
    BY <2>1, ImportAssumption DEF RunState, ImportAssumption
  <2>3. ImportRunFits(v)'
    <3>1. run[v].stage # "ended" =>
            run[v].failed + FileRows <= FailedBound(Begun(j)') + run[v].next - 1
      <4>1. run[v].stage # "ended" =>
              run[v].failed + FileRows <= FailedBound(Begun(j)) + run[v].next - 1
        BY <1>4, <2>1, RunFits
      <4>2. QED BY <1>2, <2>2, <4>1
    <3>2. ImportRunFits(v)
      BY <1>4 DEF ImportInv
    <3>3. QED BY <1>1, <2>1, <3>1, <3>2 DEF ImportRunFits
  <2>4. ASSUME NEW k \in ImportIds PROVE SingleRunFits(k, v)'
    <3>1. SingleRunFits(k, v)
      BY <1>4 DEF ImportInv
    <3>2. QED BY <1>1, <3>1 DEF SingleRunFits, Running
  <2>5. QED BY <2>3, <2>4
<1>5. IsFiniteSet({w \in Runs : run[w] # None})'
  BY DEF ImportInv
<1>6. QED BY <1>1, <1>3, <1>4, <1>5 DEF RunsAllFit

(* Nothing becomes of what runs once while the records are as they are.    *)
LEMMA FewerRunOnce ==
  ASSUME ImportInv, UNCHANGED imports,
         \A j \in ImportIds : RunsOf(j) \subseteq RunsOf(j)' /\ IsFiniteSet(RunsOf(j)')
  PROVE  RunOnce' \subseteq RunOnce
<1>1. ASSUME NEW j \in ImportIds, j \in RunOnce' PROVE j \in RunOnce
  <2>1. Cardinality(RunsOf(j)) <= Cardinality(RunsOf(j)')
    BY FS_Subset
  <2>2. Cardinality(RunsOf(j)) \in Nat /\ Cardinality(RunsOf(j)') \in Nat
    BY RunsFinite, FS_CardinalityType
  <2>3. QED BY <1>1, <2>1, <2>2 DEF RunOnce, Running
<1>2. QED BY <1>1 DEF RunOnce

(* They fit when a run begins that finds its import as it is recorded.     *)
LEMMA FitNewRun ==
  ASSUME ImportInv, NEW w \in Runs, run[w] = None, NEW i \in ImportIds, NEW owned \in BOOLEAN,
         imports[i] # None, imports[i].status # "COMPLETED", Startable(i),
         run' = [run EXCEPT ![w] = NewRun(i, owned)], UNCHANGED <<imports, created>>,
         Begun(i)' = Begun(i) + 1, JobMay(i)', Begun(i)' \in 0 .. JobAttempts + 1,
         \A j \in ImportIds \ {i} :
           Begun(j)' = Begun(j) /\ (Startable(j)' => Startable(j)) /\ JobMay(j)'
  PROVE  /\ RunsAllFit' /\ run' \in [Runs -> RunState \cup {None}]
         /\ RunOnce' \subseteq RunOnce
         /\ \A j \in ImportIds \ {i} : RunsOf(j)' = RunsOf(j)
<1> DEFINE r == NewRun(i, owned)
<1>1. /\ imports[i] \in ImportRow /\ RecordFits(i) /\ run \in [Runs -> RunState \cup {None}]
      /\ FileRows \in Nat \ {0} /\ JobFits(i)
  BY ImportAssumption DEF ImportInv, ImportJobsTypeOK, ImportAssumption
<1>2. /\ r.import = i /\ r.stage = "found" /\ r.next = 1 /\ r.success = imports[i].success
      /\ r.failed = imports[i].failed
  BY DEF NewRun
<1>3. r \in RunState /\ r # None
  <2>1. r \in RunState
    BY <1>1 DEF NewRun, RunState, ImportRow
  <2>2. QED BY <2>1, NoImportAssumption DEF NoImportAssumption
<1>4. run' = [run EXCEPT ![w] = r]
  OBVIOUS
<1> HIDE DEF r
<1>5. /\ run' \in [Runs -> RunState \cup {None}] /\ run'[w] = r
      /\ \A v \in Runs \ {w} : run'[v] = run[v]
  BY <1>1, <1>3, <1>4
<1>6. /\ RunsOf(i)' = RunsOf(i) \cup {w} /\ w \notin RunsOf(i)
      /\ \A j \in ImportIds \ {i} : RunsOf(j)' = RunsOf(j) /\ w \notin RunsOf(j)
  BY <1>2, <1>3, <1>5 DEF RunsOf
<1>7. /\ \A j : CreatedBy(j)' = CreatedBy(j)
      /\ \A j, n : MadeBefore(j, n)' = MadeBefore(j, n)
  BY DEF CreatedBy, MadeBefore
<1>8. IsFiniteSet({v \in Runs : run[v] # None})'
  <2>1. {v \in Runs : run'[v] # None} = {v \in Runs : run[v] # None} \cup {w}
    BY <1>3, <1>5
  <2>2. QED BY <2>1, FS_AddElement DEF ImportInv
<1>9. RunOnce' \subseteq RunOnce
  <2>1. ASSUME NEW j \in ImportIds PROVE RunsOf(j) \subseteq RunsOf(j)' /\ IsFiniteSet(RunsOf(j)')
    <3>1. IsFiniteSet(RunsOf(j)) /\ IsFiniteSet(RunsOf(j) \cup {w})
      BY RunsFinite, FS_AddElement
    <3>2. CASE j = i
      BY <1>6, <3>1, <3>2
    <3>3. CASE j # i
      BY <1>6, <3>1, <3>3
    <3>4. QED BY <3>2, <3>3
  <2>2. QED BY <2>1, FewerRunOnce
<1>10. /\ FailedBound(Begun(i)) \in Int /\ FailedBound(Begun(i)') \in Int
       /\ FailedBound(Begun(i)') = FailedBound(Begun(i)) + FileRows
  BY BegunTyped, FailedRoom
<1>11. /\ imports[i].failed \in Int /\ imports[i].bad <= imports[i].failed
       /\ imports[i].failed <= FailedBound(Begun(i))
       /\ imports[i].success <= Cardinality(CreatedBy(i))
  BY <1>1 DEF RecordFits, ImportRow
<1>12. ASSUME NEW j \in ImportIds
       PROVE  JobFits(j)' /\ (imports'[j] # None => RecordFits(j)')
  <2>1. CASE j = i
    <3>1. JobFits(i)'
      BY DEF JobMay, JobFits
    <3>2. imports[i].failed <= FailedBound(Begun(i)')
      BY <1>1, <1>10, <1>11
    <3>3. RunsOf(i)' # {}
      BY <1>6
    <3>4. RecordFits(i)'
      BY <1>1, <1>7, <3>2, <3>3 DEF RecordFits
    <3>5. QED BY <2>1, <3>1, <3>4
  <2>2. CASE j # i
    <3>1. RunsOf(j)' = RunsOf(j) /\ Begun(j)' = Begun(j) /\ (Startable(j)' => Startable(j))
      BY <1>6, <2>2
    <3>2. JobFits(j) /\ (imports[j] # None => RecordFits(j)) /\ JobMay(j)'
      BY <2>2 DEF ImportInv
    <3>3. JobFits(j)'
      BY <1>7, <3>1, <3>2 DEF JobFits, JobMay
    <3>4. imports[j] # None => RecordFits(j)'
      BY <1>7, <3>1, <3>2 DEF RecordFits
    <3>5. QED BY <3>3, <3>4
  <2>3. QED BY <2>1, <2>2
<1>13. ASSUME NEW v \in Runs, run'[v] # None
       PROVE  ImportRunFits(v)' /\ \A j \in ImportIds : SingleRunFits(j, v)'
  <2>1. CASE v = w
    <3>1. imports[i].failed + FileRows <= FailedBound(Begun(i)') + 1 - 1
      BY <1>1, <1>10, <1>11
    <3>2. ImportRunFits(w)'
      BY <1>1, <1>2, <1>5, <1>7, <1>11, <3>1 DEF ImportRunFits
    <3>3. SingleRunFits(i, w)'
      <4>1. RunsOf(i)' = {w} => RunsOf(i) = {}
        BY <1>6
      <4>2. RunsOf(i) = {} =>
              /\ CreatedBy(i) = {} /\ imports[i].success = 0 /\ imports[i].failed = imports[i].bad
              /\ Running(i)'
        BY <1>1 DEF RecordFits, Running
      <4>3. QED BY <1>2, <1>5, <1>7, <4>1, <4>2 DEF SingleRunFits
    <3>4. ASSUME NEW j \in ImportIds, j # i PROVE SingleRunFits(j, w)'
      <4>1. RunsOf(j)' # {w}
        BY <1>6, <3>4
      <4>2. QED BY <4>1 DEF SingleRunFits
    <3>5. QED BY <2>1, <3>2, <3>3, <3>4
  <2>2. CASE v # w
    <3>1. run'[v] = run[v] /\ run[v] # None
      BY <1>5, <1>13, <2>2
    <3>2. PICK j \in ImportIds : run[v].import = j /\ run[v] \in RunState
      BY <1>1, <3>1 DEF RunState
    <3>3. run[v].failed \in Int /\ run[v].next \in Int
      BY <1>1, <3>2 DEF RunState
    <3>4. ImportRunFits(v)'
      <4>1. run[v].stage # "ended" =>
              run[v].failed + FileRows <= FailedBound(Begun(j)') + run[v].next - 1
        <5>1. run[v].stage # "ended" =>
                run[v].failed + FileRows <= FailedBound(Begun(j)) + run[v].next - 1
          BY <3>1, <3>2, RunFits
        <5>2. CASE j = i
          BY <1>1, <1>10, <3>3, <5>1, <5>2
        <5>3. CASE j # i
          BY <5>1, <5>3
        <5>4. QED BY <5>2, <5>3
      <4>2. ImportRunFits(v)
        BY <3>1 DEF ImportInv
      <4>3. QED BY <1>7, <3>1, <3>2, <4>1, <4>2 DEF ImportRunFits
    <3>5. ASSUME NEW k \in ImportIds PROVE SingleRunFits(k, v)'
      <4>1. CASE k = i
        <5>1. RunsOf(i)' # {v}
          BY <1>6, <2>2
        <5>2. QED BY <4>1, <5>1 DEF SingleRunFits
      <4>2. CASE k # i
        <5>1. SingleRunFits(k, v) /\ RunsOf(k)' = RunsOf(k)
          BY <1>6, <3>1, <4>2 DEF ImportInv
        <5>2. QED BY <1>7, <3>1, <5>1 DEF SingleRunFits, Running
      <4>3. QED BY <4>1, <4>2
    <3>6. QED BY <3>4, <3>5
  <2>3. QED BY <2>1, <2>2
<1>14. QED BY <1>5, <1>6, <1>8, <1>9, <1>12, <1>13 DEF RunsAllFit

(* The requests beside the one that goes on.                               *)
LEMMA RacedImport ==
  ASSUME NEW x \in ImportRequest, NEW y, y = [x EXCEPT !.raced = TRUE]
  PROVE  /\ y \in ImportRequest /\ y.stage = x.stage /\ y.key = x.key
         /\ y.import = x.import /\ y.reads = x.reads /\ y.raced
BY DEF ImportRequest

LEMMA ImportOthers ==
  ASSUME ImportJobsTypeOK, NEW q \in Requests, NEW r \in ImportRequest, NEW items,
         ImportGoesOn(q, r, items)
  PROVE  /\ importReq' \in [Requests -> ImportRequest] /\ importReq'[q] = r
         /\ \A p \in Requests \ {q} :
              /\ importReq'[p].stage = importReq[p].stage
              /\ importReq'[p].key = importReq[p].key
              /\ importReq'[p].import = importReq[p].import
              /\ importReq'[p].reads = importReq[p].reads
              /\ importReq[p].raced => importReq'[p].raced
              /\ importReq[p].reads \cap items # {} => importReq'[p].raced
<1>1. importReq' = GoesOn(importReq, q, r, items)
  BY DEF ImportGoesOn
<1>2. /\ importReq'[q] = r
      /\ \A p \in Requests \ {q} : Beside(importReq[p], importReq'[p], items)
  BY <1>1, StepBeside
<1>3. ASSUME NEW p \in Requests \ {q}
      PROVE  /\ importReq'[p] \in ImportRequest
             /\ importReq'[p].stage = importReq[p].stage
             /\ importReq'[p].key = importReq[p].key
             /\ importReq'[p].import = importReq[p].import
             /\ importReq'[p].reads = importReq[p].reads
             /\ importReq[p].raced => importReq'[p].raced
             /\ importReq[p].reads \cap items # {} => importReq'[p].raced
  <2>1. importReq[p] \in ImportRequest /\ Beside(importReq[p], importReq'[p], items)
    BY <1>2 DEF ImportJobsTypeOK
  <2>2. CASE importReq'[p] = importReq[p] /\ importReq[p].reads \cap items = {}
    BY <2>1, <2>2
  <2>3. CASE importReq'[p] = [importReq[p] EXCEPT !.raced = TRUE]
    BY <2>1, <2>3, RacedImport
  <2>4. QED BY <2>1, <2>2, <2>3 DEF Beside
<1>4. \A p \in Requests : importReq'[p] \in ImportRequest
  BY <1>2, <1>3
<1>5. importReq' \in [Requests -> ImportRequest]
  BY <1>1, <1>4 DEF GoesOn
<1>6. QED BY <1>2, <1>3, <1>5

(* A step that records nothing, seen by the requests that do not act.      *)
LEMMA OthersKnow ==
  ASSUME ImportInv, NEW p \in Requests, UNCHANGED <<imports, overlapped>>,
         RunOnce' \subseteq RunOnce,
         /\ importReq'[p].stage = importReq[p].stage /\ importReq'[p].key = importReq[p].key
         /\ importReq'[p].import = importReq[p].import
         /\ importReq'[p].reads = importReq[p].reads
         /\ importReq[p].raced => importReq'[p].raced,
         \A j \in ImportIds :
           importReq[p].stage = "saved" /\ importReq[p].import = j =>
             jobs'[j].state = "none" /\ RunsOf(j)' = {},
         \A o \in Requests \ {p} :
           importReq'[o].stage \in {"saved", "unsure"} =>
             /\ importReq[o].stage \in {"saved", "unsure"}
             /\ importReq'[o].import = importReq[o].import
  PROVE  ImportKnows(p)'
<1> DEFINE items == {}
<1>1. importReq[p].reads \cap items = {}
  OBVIOUS
<1>2. /\ \A k \in ImportKeys : OfKey(k)' \subseteq OfKey(k)
      /\ \A j \in ImportIds : imports[j] # None => imports'[j] # None
  BY DEF OfKey
<1>3. \A o \in Requests \ {p} :
        importReq'[o].stage \in {"saved", "unsure"} =>
          \/ importReq'[o].import # importReq[p].import
          \/ importReq[p].stage \notin {"saved", "unsure"}
  BY DEF ImportInv, ImportKnows
<1> HIDE DEF items
<1>4. QED BY <1>1, <1>2, <1>3, ImportStillKnows

LEMMA SavedKnows ==
  ASSUME ImportInv, NEW q \in Requests, importReq[q].stage \in {"saved", "unsure"}
  PROVE  /\ importReq[q].import \in ImportIds /\ imports[importReq[q].import] # None
         /\ ToQueue(importReq[q].import)
         /\ \A p \in Requests \ {q} :
              importReq[p].stage \in {"saved", "unsure"} =>
                importReq[p].import # importReq[q].import
         /\ importReq[q].stage = "saved" =>
              jobs[importReq[q].import].state = "none" /\ RunsOf(importReq[q].import) = {}
BY DEF ImportInv, ImportKnows, ToQueue

LEMMA JobsMay == ASSUME ImportInv, NEW i \in ImportIds PROVE JobMay(i)
BY DEF ImportInv, JobFits, JobMay

(* A handler reads, or is answered.                                        *)
LEMMA ReadImportStep ==
  ASSUME ImportInv, NEW q \in Requests, NEW r \in ImportRequest, ImportGoesOn(q, r, {}),
         UNCHANGED <<imports, created, jobs, run, overlapped>>,
         importReq[q].stage \notin {"saved", "unsure"}, r.stage \notin {"saved", "unsure"},
         ImportKnows(q)'
  PROVE  ImportInv'
<1>0. ImportJobsTypeOK
  BY DEF ImportInv
<1>1. /\ importReq' \in [Requests -> ImportRequest] /\ importReq'[q] = r
      /\ \A p \in Requests \ {q} :
           /\ importReq'[p].stage = importReq[p].stage
           /\ importReq'[p].key = importReq[p].key
           /\ importReq'[p].import = importReq[p].import
           /\ importReq'[p].reads = importReq[p].reads
           /\ importReq[p].raced => importReq'[p].raced
  BY <1>0, ImportOthers, ZenonT(60)
<1>2. ImportJobsTypeOK'
  BY <1>0, <1>1 DEF ImportJobsTypeOK
<1>3. ASSUME NEW j \in ImportIds
      PROVE  /\ Begun(j)' \in {Begun(j), Begun(j) + 1} /\ (Startable(j)' => Startable(j))
             /\ JobMay(j)'
  <2>1. ToQueue(j)' <=> ToQueue(j)
    BY <1>1 DEF ToQueue
  <2>2. QED BY <2>1, JobsMay DEF Begun, Startable, JobMay
<1>4. RunsAllFit' /\ \A j \in ImportIds : RunsOf(j)' = RunsOf(j)
  BY <1>3, FitKept
<1>5. RunOnce' \subseteq RunOnce
  BY <1>4 DEF RunOnce, Running
<1>6. ImportsLimited'
  BY <1>5, LimitsKept
<1>7. ASSUME NEW p \in Requests \ {q} PROVE ImportKnows(p)'
  <2>1. \A j \in ImportIds :
          importReq[p].stage = "saved" /\ importReq[p].import = j =>
            jobs'[j].state = "none" /\ RunsOf(j)' = {}
    BY <1>4, SavedKnows
  <2>2. \A o \in Requests \ {p} :
          importReq'[o].stage \in {"saved", "unsure"} =>
            /\ importReq[o].stage \in {"saved", "unsure"}
            /\ importReq'[o].import = importReq[o].import
    BY <1>1
  <2>3. QED BY <1>1, <1>5, <2>1, <2>2, OthersKnow
<1>8. QED BY <1>2, <1>4, <1>6, <1>7 DEF ImportInv, RunsAllFit

LEMMA NoImportFields ==
  /\ NoImportRequest \in ImportRequest
  /\ NoImportRequest.stage = "unsent" /\ NoImportRequest.key = None
  /\ NoImportRequest.import = None /\ NoImportRequest.reads = {}
BY DEF NoImportRequest, ImportRequest

LEMMA AnsweredFields ==
  ASSUME NEW stage \in {"done", "refused"}
  PROVE  /\ Answered(stage) \in ImportRequest /\ Answered(stage).stage = stage
         /\ Answered(stage).key = None /\ Answered(stage).import = None
BY DEF Answered, NoImportRequest, ImportRequest

LEMMA FindByKeyStep ==
  ASSUME ImportInv, NEW q \in Requests, NEW k \in ImportKeys \cup {None}, FindByKey(q, k)
  PROVE  ImportInv'
<1>0. ImportJobsTypeOK
  BY DEF ImportInv
<1> DEFINE keyed == [NoImportRequest EXCEPT !.key = k, !.stage = "keyed",
                                            !.reads = {"key"} \X ({k} \ {None})]
<1>1. PICK r : /\ ImportGoesOn(q, r, {})
               /\ r = IF k # None /\ OfKey(k) # {} THEN Answered("done") ELSE keyed
  BY DEF FindByKey, NoImportRequest
<1>2. /\ importReq[q].stage = "unsent"
      /\ UNCHANGED <<imports, created, jobs, run, overlapped>>
  BY DEF FindByKey, ImportStage
<1>3. /\ keyed \in ImportRequest /\ keyed.stage = "keyed" /\ keyed.key = k
      /\ k # None => <<"key", k>> \in keyed.reads
  <2>1. {"key"} \X ({k} \ {None}) \subseteq ImportItems
    BY DEF ImportItems
  <2>2. QED BY <2>1 DEF NoImportRequest, ImportRequest
<1> HIDE DEF keyed
<1>4. r \in ImportRequest /\ r.stage \in {"done", "keyed"}
  BY <1>1, <1>3, AnsweredFields
<1>5. importReq'[q] = r
  BY <1>0, <1>1, <1>4, ImportOthers
<1>6. ImportKnows(q)'
  <2>1. CASE r = Answered("done")
    BY <1>5, <2>1, AnsweredFields DEF ImportKnows
  <2>2. CASE r = keyed /\ (k = None \/ OfKey(k) = {})
    <3>1. OfKey(k)' = OfKey(k)
      BY <1>2 DEF OfKey
    <3>2. QED BY <1>3, <1>5, <2>2, <3>1 DEF ImportKnows
  <2>3. QED BY <1>1, <2>1, <2>2
<1>7. QED BY <1>1, <1>2, <1>4, <1>6, ReadImportStep

LEMMA CountActiveStep ==
  ASSUME ImportInv, NEW q \in Requests, CountActive(q)
  PROVE  ImportInv'
<1>0. ImportJobsTypeOK /\ importReq[q] \in ImportRequest
  BY DEF ImportInv, ImportJobsTypeOK
<1> DEFINE counted == [importReq[q] EXCEPT !.stage = "counted",
                                           !.reads = @ \cup {<<"active", "count">>}]
<1> DEFINE count == Cardinality({i \in ImportIds : Running(i)})
<1>1. PICK r : /\ ImportGoesOn(q, r, {})
               /\ r = IF count >= MaxActive THEN Answered("refused") ELSE counted
  BY DEF CountActive
<1>2. /\ importReq[q].stage = "keyed"
      /\ UNCHANGED <<imports, created, jobs, run, overlapped>>
  BY DEF CountActive, ImportStage
<1>3. /\ counted \in ImportRequest /\ counted.stage = "counted"
      /\ counted.key = importReq[q].key /\ counted.raced = importReq[q].raced
      /\ counted.reads = importReq[q].reads \cup {<<"active", "count">>}
  BY <1>0 DEF ImportRequest, ImportItems
<1>4. ~(count >= MaxActive) => Cardinality(RunOnce) < MaxActive
  <2>1. MaxImports \in Nat /\ MaxActive \in Nat
    BY ImportAssumption DEF ImportAssumption
  <2>2. /\ {i \in ImportIds : Running(i)} \in SUBSET (1 .. MaxImports)
        /\ RunOnce \in SUBSET {i \in ImportIds : Running(i)}
    BY DEF ImportIds, RunOnce
  <2>3. count \in 0 .. MaxImports /\ Cardinality(RunOnce) \in 0 .. MaxImports
        /\ Cardinality(RunOnce) <= count
    BY <2>1, <2>2, UpTo
  <2> HIDE DEF count
  <2>4. QED BY <2>1, <2>3
<1> HIDE DEF counted, count
<1>5. r \in ImportRequest /\ r.stage \in {"refused", "counted"}
  BY <1>1, <1>3, AnsweredFields
<1>6. importReq'[q] = r
  BY <1>0, <1>1, <1>5, ImportOthers
<1>7. ImportKnows(q)'
  <2>1. CASE r = Answered("refused")
    BY <1>6, <2>1, AnsweredFields DEF ImportKnows
  <2>2. CASE r = counted /\ Cardinality(RunOnce) < MaxActive
    <3>1. RunOnce' = RunOnce
      BY <1>2 DEF RunOnce, Running, RunsOf
    <3>2. PICK k : k = importReq[q].key
      OBVIOUS
    <3>3. k # None => <<"key", k>> \in r.reads /\ (r.raced \/ OfKey(k) = {})
      BY <1>2, <1>3, <2>2, <3>2 DEF ImportInv, ImportKnows
    <3>4. OfKey(k)' = OfKey(k)
      BY <1>2 DEF OfKey
    <3>5. <<"active", "count">> \in r.reads /\ r.key = k /\ r.stage = "counted"
      BY <1>3, <2>2, <3>2
    <3>6. QED BY <1>6, <2>2, <3>1, <3>3, <3>4, <3>5 DEF ImportKnows
  <2>3. QED BY <1>1, <1>4, <2>1, <2>2
<1>8. QED BY <1>1, <1>2, <1>5, <1>7, ReadImportStep

(* A request sees its import queued, or runs it: how many may still begin. *)
LEMMA QueueLeft ==
  ASSUME ImportInv, NEW q \in Requests, importReq[q].stage \in {"saved", "unsure"},
         NEW i \in ImportIds, importReq[q].import = i,
         NEW r \in ImportRequest, ImportGoesOn(q, r, {}),
         r.stage = "done" \/ (r.stage = "unsure" /\ r.import = i)
  PROVE  /\ ToQueue(i) /\ (ToQueue(i)' <=> r.stage = "unsure")
         /\ \A j \in ImportIds \ {i} : ToQueue(j)' <=> ToQueue(j)
<1>0. ImportJobsTypeOK
  BY DEF ImportInv
<1>1. /\ importReq'[q] = r
      /\ \A p \in Requests \ {q} :
           /\ importReq'[p].stage = importReq[p].stage
           /\ importReq'[p].import = importReq[p].import
  BY <1>0, ImportOthers, ZenonT(60)
<1>2. \A p \in Requests \ {q} :
        importReq[p].stage \in {"saved", "unsure"} => importReq[p].import # i
  BY SavedKnows
<1>3. ToQueue(i)
  BY DEF ToQueue
<1>4. ToQueue(i)' <=> r.stage = "unsure"
  BY <1>1, <1>2 DEF ToQueue
<1>5. \A j \in ImportIds \ {i} : ToQueue(j)' <=> ToQueue(j)
  BY <1>1 DEF ToQueue
<1>6. QED BY <1>3, <1>4, <1>5

LEMMA QueueStep ==
  ASSUME ImportInv, NEW q \in Requests, importReq[q].stage \in {"saved", "unsure"},
         NEW i \in ImportIds, importReq[q].import = i,
         NEW r \in ImportRequest, ImportGoesOn(q, r, {}),
         r.stage = "done" \/ (r.stage = "unsure" /\ r.import = i),
         UNCHANGED <<imports, created, overlapped>>, RunsAllFit', RunOnce' \subseteq RunOnce,
         jobs' \in [ImportIds -> [state: {"none", "waiting", "active", "done", "dead"},
                                  attempts: 0 .. JobAttempts]],
         run' \in [Runs -> RunState \cup {None}],
         \A j \in ImportIds \ {i} : jobs'[j] = jobs[j] /\ RunsOf(j)' = RunsOf(j)
  PROVE  ImportInv'
<1>0. ImportJobsTypeOK
  BY DEF ImportInv
<1>1. /\ importReq' \in [Requests -> ImportRequest] /\ importReq'[q] = r
      /\ \A p \in Requests \ {q} :
           /\ importReq'[p].stage = importReq[p].stage
           /\ importReq'[p].key = importReq[p].key
           /\ importReq'[p].import = importReq[p].import
           /\ importReq'[p].reads = importReq[p].reads
           /\ importReq[p].raced => importReq'[p].raced
  BY <1>0, ImportOthers, ZenonT(60)
<1>2. ImportJobsTypeOK'
  BY <1>0, <1>1 DEF ImportJobsTypeOK
<1>3. ImportsLimited'
  BY LimitsKept
<1>4. \A p \in Requests \ {q} :
        importReq[p].stage \in {"saved", "unsure"} => importReq[p].import # i
  BY SavedKnows
<1>5. ASSUME NEW p \in Requests \ {q} PROVE ImportKnows(p)'
  <2>1. ASSUME NEW j \in ImportIds, importReq[p].stage = "saved", importReq[p].import = j
        PROVE  jobs'[j].state = "none" /\ RunsOf(j)' = {}
    <3>1. j # i
      BY <1>4, <2>1
    <3>2. jobs[j].state = "none" /\ RunsOf(j) = {}
      BY <2>1, SavedKnows
    <3>3. QED BY <3>1, <3>2
  <2>2. \A o \in Requests \ {p} :
          importReq'[o].stage \in {"saved", "unsure"} =>
            /\ importReq[o].stage \in {"saved", "unsure"}
            /\ importReq'[o].import = importReq[o].import
    BY <1>1
  <2>3. QED BY <1>1, <2>1, <2>2, OthersKnow
<1>6. ImportKnows(q)'
  <2>1. CASE r.stage = "done"
    BY <1>1, <2>1 DEF ImportKnows
  <2>2. CASE r.stage = "unsure" /\ r.import = i
    <3>1. imports'[i] # None
      BY SavedKnows
    <3>2. \A p \in Requests \ {q} :
            importReq'[p].stage \in {"saved", "unsure"} => importReq'[p].import # i
      BY <1>1, <1>4
    <3>3. QED BY <1>1, <2>2, <3>1, <3>2 DEF ImportKnows
  <2>3. QED BY <2>1, <2>2
<1>7. QED BY <1>2, <1>3, <1>5, <1>6 DEF ImportInv, RunsAllFit

LEMMA AddJobStep ==
  ASSUME ImportInv, NEW q \in Requests, NEW answered \in BOOLEAN, AddJob(q, answered)
  PROVE  ImportInv'
<1>1. /\ importReq[q].stage = "saved" /\ importReq[q] \in ImportRequest
      /\ UNCHANGED <<imports, created, run, overlapped>>
  BY DEF AddJob, ImportStage, ImportInv, ImportJobsTypeOK
<1>2. PICK i \in ImportIds : i = importReq[q].import /\ imports[i] # None
  BY <1>1, SavedKnows
<1>3. PICK r : /\ ImportGoesOn(q, r, {})
               /\ r = IF answered THEN Answered("done")
                      ELSE [importReq[q] EXCEPT !.stage = "unsure"]
  BY DEF AddJob
<1>4. r \in ImportRequest /\ (r.stage = "done" \/ (r.stage = "unsure" /\ r.import = i))
  <2>1. CASE r = Answered("done")
    BY <2>1, AnsweredFields
  <2>2. CASE r = [importReq[q] EXCEPT !.stage = "unsure"]
    BY <1>1, <1>2, <2>2 DEF ImportRequest
  <2>3. QED BY <1>3, <2>1, <2>2
<1>5. /\ jobs' = [jobs EXCEPT ![i].state = "waiting"]
      /\ jobs \in [ImportIds -> [state: {"none", "waiting", "active", "done", "dead"},
                                 attempts: 0 .. JobAttempts]]
  BY <1>2 DEF AddJob, ImportInv, ImportJobsTypeOK
<1>6. /\ jobs' \in [ImportIds -> [state: {"none", "waiting", "active", "done", "dead"},
                                  attempts: 0 .. JobAttempts]]
      /\ jobs'[i].state = "waiting" /\ jobs'[i].attempts = jobs[i].attempts
      /\ \A j \in ImportIds \ {i} : jobs'[j] = jobs[j]
  BY <1>5
<1>7. /\ ToQueue(i) /\ (ToQueue(i)' <=> r.stage = "unsure")
      /\ \A j \in ImportIds \ {i} : ToQueue(j)' <=> ToQueue(j)
  BY <1>1, <1>2, <1>3, <1>4, QueueLeft
<1>8. ASSUME NEW j \in ImportIds
      PROVE  /\ Begun(j)' \in {Begun(j), Begun(j) + 1} /\ (Startable(j)' => Startable(j))
             /\ JobMay(j)'
  <2>1. CASE j = i
    <3>1. jobs[i].attempts = 0
      BY <1>1, <1>2, SavedKnows, JobsMay DEF JobMay
    <3>2. JobMay(i)'
      BY <1>1, <1>2, <1>6, <3>1, ImportAssumption DEF JobMay, ImportAssumption
    <3>3. Startable(i)
      BY <1>7 DEF Startable
    <3>4. Begun(i)' \in {Begun(i), Begun(i) + 1}
      BY <1>6, <1>7, <3>1 DEF Begun
    <3>5. QED BY <2>1, <3>2, <3>3, <3>4
  <2>2. CASE j # i
    <3>1. jobs'[j] = jobs[j] /\ (ToQueue(j)' <=> ToQueue(j))
      BY <1>6, <1>7, <2>2
    <3>2. QED BY <1>1, <3>1, JobsMay DEF Begun, Startable, JobMay
  <2>3. QED BY <2>1, <2>2
<1>9. RunsAllFit' /\ \A j \in ImportIds : RunsOf(j)' = RunsOf(j)
  BY <1>1, <1>8, FitKept
<1>10. RunOnce' \subseteq RunOnce
  BY <1>1, <1>9 DEF RunOnce, Running
<1>11. run' \in [Runs -> RunState \cup {None}]
  BY <1>1 DEF ImportInv, ImportJobsTypeOK
<1>12. QED BY <1>1, <1>2, <1>3, <1>4, <1>6, <1>9, <1>10, <1>11, QueueStep

LEMMA RunDirectlyStep ==
  ASSUME ImportInv, NEW q \in Requests, NEW w \in Runs, RunDirectly(q, w)
  PROVE  ImportInv'
<1>1. /\ importReq[q].stage \in {"saved", "unsure"} /\ run[w] = None
      /\ UNCHANGED <<imports, created, jobs, overlapped>>
  BY DEF RunDirectly
<1>2. PICK i \in ImportIds : i = importReq[q].import /\ imports[i] # None
  BY <1>1, SavedKnows
<1>3. PICK r : ImportGoesOn(q, r, {}) /\ r = Answered("done")
  BY DEF RunDirectly
<1>4. r \in ImportRequest /\ r.stage = "done"
  BY <1>3, AnsweredFields
<1>5. /\ ToQueue(i) /\ ~ToQueue(i)'
      /\ \A j \in ImportIds \ {i} : ToQueue(j)' <=> ToQueue(j)
  BY <1>1, <1>2, <1>3, <1>4, QueueLeft
<1>6. /\ Begun(i)' = Begun(i) + 1 /\ Startable(i) /\ JobMay(i)'
      /\ Begun(i)' \in 0 .. JobAttempts + 1 /\ (Startable(i)' => Startable(i))
  <2>1. jobs[i].attempts \in 0 .. JobAttempts
    BY BegunTyped
  <2>2. Begun(i)' = Begun(i) + 1 /\ Begun(i)' \in 0 .. JobAttempts + 1
    BY <1>1, <1>5, <2>1, ImportAssumption DEF Begun, ImportAssumption
  <2>3. QED BY <1>1, <1>5, <2>2, JobsMay DEF Startable, JobMay
<1>7. \A j \in ImportIds \ {i} :
        Begun(j)' = Begun(j) /\ (Startable(j)' => Startable(j)) /\ JobMay(j)'
  BY <1>1, <1>5, JobsMay DEF Begun, Startable, JobMay
<1>8. /\ RunsAllFit' /\ run' \in [Runs -> RunState \cup {None}] /\ RunOnce' \subseteq RunOnce
      /\ \A j \in ImportIds \ {i} : RunsOf(j)' = RunsOf(j)
  <2>1. CASE imports[i].status = "COMPLETED"
    <3>1. UNCHANGED run
      BY <1>2, <2>1 DEF RunDirectly
    <3>2. \A j \in ImportIds :
            /\ Begun(j)' \in {Begun(j), Begun(j) + 1} /\ (Startable(j)' => Startable(j))
            /\ JobMay(j)'
      BY <1>6, <1>7
    <3>3. RunsAllFit' /\ \A j \in ImportIds : RunsOf(j)' = RunsOf(j)
      BY <1>1, <3>1, <3>2, FitKept
    <3>4. RunOnce' \subseteq RunOnce
      BY <1>1, <3>3 DEF RunOnce, Running
    <3>5. run' \in [Runs -> RunState \cup {None}]
      BY <3>1 DEF ImportInv, ImportJobsTypeOK
    <3>6. QED BY <3>3, <3>4, <3>5
  <2>2. CASE imports[i].status # "COMPLETED"
    <3>1. run' = [run EXCEPT ![w] = NewRun(i, FALSE)]
      BY <1>2, <2>2 DEF RunDirectly
    <3>2. QED BY <1>1, <1>2, <1>6, <1>7, <2>2, <3>1, FitNewRun, Zenon
  <2>3. QED BY <2>1, <2>2
<1>9. jobs' \in [ImportIds -> [state: {"none", "waiting", "active", "done", "dead"},
                               attempts: 0 .. JobAttempts]]
      /\ \A j \in ImportIds \ {i} : jobs'[j] = jobs[j]
  BY <1>1 DEF ImportInv, ImportJobsTypeOK
<1>10. QED BY <1>1, <1>2, <1>3, <1>4, <1>8, <1>9, QueueStep

(* A worker takes a job: no request has its import still to queue unheard. *)
LEMMA TakeJobStep ==
  ASSUME ImportInv, NEW w \in Runs, NEW i \in ImportIds, TakeJob(w, i)
  PROVE  ImportInv'
<1> DEFINE JobRecords == [state: {"none", "waiting", "active", "done", "dead"},
                          attempts: 0 .. JobAttempts]
<1>1. /\ jobs[i].state = "waiting" /\ run[w] = None
      /\ UNCHANGED <<imports, created, importReq, overlapped>>
  BY DEF TakeJob
<1>2. /\ imports[i] # None /\ jobs[i].attempts < JobAttempts /\ jobs[i].attempts \in Nat
      /\ Startable(i)
  BY <1>1 DEF ImportInv, ImportJobsTypeOK, JobFits, Startable
<1>3. \A j \in ImportIds : ToQueue(j)' <=> ToQueue(j)
  BY <1>1 DEF ToQueue
<1>4. jobs \in [ImportIds -> JobRecords] /\ run \in [Runs -> RunState \cup {None}]
  BY DEF ImportInv, ImportJobsTypeOK
<1>5. JobAttempts \in Nat \ {0}
  BY ImportAssumption DEF ImportAssumption
<1>6. /\ jobs' \in [ImportIds -> JobRecords] /\ run' \in [Runs -> RunState \cup {None}]
      /\ RunsAllFit' /\ RunOnce' \subseteq RunOnce /\ jobs'[i].state # "none"
      /\ \A j \in ImportIds \ {i} : RunsOf(j)' = RunsOf(j) /\ jobs'[j] = jobs[j]
  <2>1. CASE imports[i].status = "COMPLETED"
    <3>1. UNCHANGED run /\ jobs' = [jobs EXCEPT ![i].state = "done"]
      BY <2>1 DEF TakeJob, JobEnds
    <3>2. /\ jobs' \in [ImportIds -> JobRecords] /\ jobs'[i].state = "done"
          /\ jobs'[i].attempts = jobs[i].attempts
          /\ \A j \in ImportIds \ {i} : jobs'[j] = jobs[j]
      BY <1>4, <3>1
    <3>3. ASSUME NEW j \in ImportIds
          PROVE  /\ Begun(j)' \in {Begun(j), Begun(j) + 1} /\ (Startable(j)' => Startable(j))
                 /\ JobMay(j)'
      <4>1. Begun(j)' = Begun(j)
        BY <1>3, <3>2 DEF Begun
      <4>2. (Startable(j)' => Startable(j)) /\ JobMay(j)'
        BY <1>1, <1>2, <1>3, <3>2, JobsMay DEF Startable, JobMay
      <4>3. QED BY <4>1, <4>2
    <3>4. RunsAllFit' /\ \A j \in ImportIds : RunsOf(j)' = RunsOf(j)
      BY <1>1, <3>1, <3>3, FitKept
    <3>5. RunOnce' \subseteq RunOnce
      BY <1>1, <3>4 DEF RunOnce, Running
    <3>6. QED BY <1>4, <3>1, <3>2, <3>4, <3>5
  <2>2. CASE imports[i].status # "COMPLETED"
    <3>1. /\ run' = [run EXCEPT ![w] = NewRun(i, TRUE)]
          /\ jobs' = [jobs EXCEPT ![i] = [state |-> "active", attempts |-> @.attempts + 1]]
      BY <2>2 DEF TakeJob
    <3>2. /\ jobs' \in [ImportIds -> JobRecords] /\ jobs'[i].state = "active"
          /\ jobs'[i].attempts = jobs[i].attempts + 1
          /\ \A j \in ImportIds \ {i} : jobs'[j] = jobs[j]
      BY <1>2, <1>4, <1>5, <3>1
    <3>3. Begun(i)' = Begun(i) + 1 /\ Begun(i)' \in 0 .. JobAttempts + 1 /\ JobMay(i)'
      <4>1. Begun(i)' = Begun(i) + 1 /\ Begun(i)' \in 0 .. JobAttempts + 1
        BY <1>2, <1>3, <1>5, <3>2 DEF Begun
      <4>2. JobMay(i)'
        BY <1>1, <1>2, <3>2 DEF JobMay
      <4>3. QED BY <4>1, <4>2
    <3>4. \A j \in ImportIds \ {i} :
            Begun(j)' = Begun(j) /\ (Startable(j)' => Startable(j)) /\ JobMay(j)'
      BY <1>1, <1>3, <3>2, JobsMay DEF Begun, Startable, JobMay
    <3>5. /\ RunsAllFit' /\ run' \in [Runs -> RunState \cup {None}]
          /\ RunOnce' \subseteq RunOnce
          /\ \A j \in ImportIds \ {i} : RunsOf(j)' = RunsOf(j)
      BY <1>1, <1>2, <2>2, <3>1, <3>3, <3>4, FitNewRun, Zenon
    <3>6. QED BY <3>2, <3>5
  <2>3. QED BY <2>1, <2>2
<1>7. ImportJobsTypeOK'
  BY <1>1, <1>6 DEF ImportJobsTypeOK, ImportInv
<1>8. ImportsLimited'
  BY <1>1, <1>6, LimitsKept
<1>9. ASSUME NEW p \in Requests PROVE ImportKnows(p)'
  <2>1. ASSUME NEW j \in ImportIds, importReq[p].stage = "saved", importReq[p].import = j
        PROVE  jobs'[j].state = "none" /\ RunsOf(j)' = {}
    <3>1. jobs[j].state = "none" /\ RunsOf(j) = {}
      BY <2>1, SavedKnows
    <3>2. QED BY <1>1, <1>6, <3>1
  <2>2. /\ \A o \in Requests \ {p} :
             importReq'[o].stage \in {"saved", "unsure"} =>
               /\ importReq[o].stage \in {"saved", "unsure"}
               /\ importReq'[o].import = importReq[o].import
        /\ importReq'[p].stage = importReq[p].stage /\ importReq'[p].key = importReq[p].key
        /\ importReq'[p].import = importReq[p].import
        /\ importReq'[p].reads = importReq[p].reads
        /\ importReq[p].raced => importReq'[p].raced
    BY <1>1
  <2>3. QED BY <1>1, <1>6, <2>1, <2>2, OthersKnow
<1>10. QED BY <1>6, <1>7, <1>8, <1>9 DEF ImportInv, RunsAllFit

(* A record is made, of no run yet.                                        *)
LEMMA SavedRecord ==
  ASSUME ImportInv, NEW q \in Requests, NEW i \in ImportIds, NEW bad \in 0 .. BadRows,
         NEW valid \in BOOLEAN, SaveImport(q, i, bad, valid)
  PROVE  \E row \in ImportRow, r \in ImportRequest :
           /\ importReq[q].stage = "counted" /\ imports[i] = None
           /\ imports' = [imports EXCEPT ![i] = row] /\ row # None
           /\ row.success = 0 /\ row.failed = bad /\ row.bad = bad
           /\ row.status = (IF valid THEN "QUEUED" ELSE "FAILED")
           /\ row.key = importReq[q].key
           /\ overlapped' = IF importReq[q].raced THEN overlapped \cup {i} ELSE overlapped
           /\ ImportGoesOn(q, r, ({"key"} \X ({row.key} \ {None})) \cup {<<"active", "count">>})
           /\ r.stage = IF valid THEN "saved" ELSE "done"
           /\ valid => r.import = i
           /\ UNCHANGED <<created, jobs, run>>
<1> DEFINE row == [status |-> IF valid THEN "QUEUED" ELSE "FAILED", success |-> 0,
                   failed |-> bad, bad |-> bad, key |-> importReq[q].key]
<1> DEFINE r == IF valid THEN [NoImportRequest EXCEPT !.stage = "saved", !.import = i]
                ELSE Answered("done")
<1>1. importReq[q].key \in ImportKeys \cup {None}
  BY DEF ImportInv, ImportJobsTypeOK, ImportRequest
<1>2. /\ FileRows \in Nat /\ BadRows \in Nat /\ MaxFailed \in Nat /\ BadRows <= MaxFailed
  <2>1. FileRows \in Nat /\ BadRows \in Nat /\ JobAttempts \in Nat
    BY ImportAssumption DEF ImportAssumption
  <2>2. FailedBound(0) \in Nat /\ FailedBound(0) <= MaxFailed /\ BadRows <= FailedBound(0)
    BY <2>1, FailedRoom
  <2>3. (JobAttempts + 1) * FileRows \in Nat
    BY <2>1
  <2>4. QED BY <2>1, <2>2, <2>3 DEF MaxFailed
<1>3. bad \in 0 .. MaxFailed /\ 0 \in 0 .. FileRows
  BY <1>2
<1>4. row \in ImportRow
  BY <1>1, <1>3 DEF ImportRow, ImportStatus
<1>5. row # None
  BY <1>4, NoImportAssumption DEF NoImportAssumption
<1>6. r \in ImportRequest /\ r.stage = (IF valid THEN "saved" ELSE "done")
      /\ (valid => r.import = i)
  <2>1. CASE valid
    BY <2>1 DEF NoImportRequest, ImportRequest
  <2>2. CASE ~valid
    BY <2>2, AnsweredFields
  <2>3. QED BY <2>1, <2>2
<1>7. /\ ImportStage(q, "counted") /\ imports[i] = None
      /\ imports' = [imports EXCEPT ![i] = row]
      /\ overlapped' = IF importReq[q].raced THEN overlapped \cup {i} ELSE overlapped
      /\ ImportGoesOn(q, r, ({"key"} \X ({row.key} \ {None})) \cup {<<"active", "count">>})
      /\ UNCHANGED <<created, jobs, run>>
  BY DEF SaveImport
<1>8. /\ row.success = 0 /\ row.failed = bad /\ row.bad = bad
      /\ row.status = (IF valid THEN "QUEUED" ELSE "FAILED")
      /\ row.key = importReq[q].key
  OBVIOUS
<1> HIDE DEF row, r
<1>9. QED BY <1>4, <1>5, <1>6, <1>7, <1>8 DEF ImportStage

LEMMA SavedFits ==
  ASSUME ImportInv, NEW i \in ImportIds, NEW row \in ImportRow, row # None, imports[i] = None,
         imports' = [imports EXCEPT ![i] = row], UNCHANGED <<created, jobs, run>>,
         row.success = 0, row.failed = row.bad, row.status # "COMPLETED",
         ToQueue(i)' => row.status = "QUEUED",
         \A j \in ImportIds \ {i} : ToQueue(j)' <=> ToQueue(j)
  PROVE  RunsAllFit'
<1>1. /\ imports'[i] = row /\ \A j \in ImportIds \ {i} : imports'[j] = imports[j]
      /\ imports' \in [ImportIds -> ImportRow \cup {None}]
  BY DEF ImportInv, ImportJobsTypeOK
<1>2. /\ \A j : CreatedBy(j)' = CreatedBy(j) /\ RunsOf(j)' = RunsOf(j)
      /\ \A j, n : MadeBefore(j, n)' = MadeBefore(j, n)
  BY DEF CreatedBy, RunsOf, MadeBefore
<1>3. jobs[i].state = "none" /\ jobs[i].attempts = 0 /\ RunsOf(i) = {} /\ CreatedBy(i) = {}
  BY DEF ImportInv, JobFits
<1>4. \A j \in ImportIds \ {i} : Begun(j)' = Begun(j) /\ (Startable(j)' <=> Startable(j))
  BY DEF Begun, Startable
<1>5. JobFits(i)' /\ RecordFits(i)'
  <2>1. JobFits(i)'
    BY <1>1, <1>3 DEF JobFits
  <2>2. Startable(i)' => row.status = "QUEUED"
    BY <1>3 DEF Startable
  <2>3. row.failed <= FailedBound(Begun(i)')
    <3>1. Begun(i)' \in {0, 1} /\ JobAttempts + 1 \in Nat \ {0, 1}
      BY <1>3, ImportAssumption DEF Begun, ImportAssumption
    <3>2. BadRows <= FailedBound(Begun(i)') /\ FailedBound(Begun(i)') \in Nat
      BY <3>1, FailedRoom
    <3>3. row.failed \in Int /\ row.failed <= BadRows /\ BadRows \in Nat
      BY ImportAssumption DEF ImportRow, ImportAssumption
    <3>4. QED BY <3>2, <3>3
  <2>4. row.bad <= row.failed /\ row.success <= Cardinality(CreatedBy(i))
    BY MadeTyped DEF ImportRow
  <2>5. RecordFits(i)'
    BY <1>1, <1>2, <1>3, <2>2, <2>3, <2>4 DEF RecordFits
  <2>6. QED BY <2>1, <2>5
<1>6. ASSUME NEW j \in ImportIds, j # i
      PROVE  JobFits(j)' /\ (imports'[j] # None => RecordFits(j)')
  <2>1. JobFits(j) /\ (imports[j] # None => RecordFits(j))
    BY DEF ImportInv
  <2>2. /\ imports'[j] = imports[j] /\ Begun(j)' = Begun(j)
        /\ (Startable(j)' <=> Startable(j))
    BY <1>1, <1>4, <1>6
  <2>3. QED BY <1>2, <2>1, <2>2 DEF JobFits, RecordFits
<1>7. ASSUME NEW v \in Runs, run[v] # None
      PROVE  ImportRunFits(v)' /\ \A j \in ImportIds : SingleRunFits(j, v)'
  <2>1. PICK j \in ImportIds : run[v].import = j
    BY <1>7 DEF ImportInv, ImportJobsTypeOK, RunState
  <2>2. j # i /\ v \notin RunsOf(i)
    BY <1>3, <1>7, <2>1 DEF RunsOf
  <2>3. ImportRunFits(v) /\ \A k \in ImportIds : SingleRunFits(k, v)
    BY <1>7 DEF ImportInv
  <2>4. imports'[j] = imports[j] /\ Begun(j)' = Begun(j)
    BY <1>1, <1>4, <2>2
  <2>5. ImportRunFits(v)'
    BY <1>2, <2>1, <2>3, <2>4 DEF ImportRunFits
  <2>6. ASSUME NEW k \in ImportIds PROVE SingleRunFits(k, v)'
    <3>1. CASE k = i
      BY <1>2, <2>2, <3>1 DEF SingleRunFits
    <3>2. CASE k # i
      <4>1. SingleRunFits(k, v) /\ imports'[k] = imports[k]
        BY <1>1, <2>3, <3>2
      <4>2. QED BY <1>2, <4>1 DEF SingleRunFits, Running
    <3>3. QED BY <3>1, <3>2
  <2>7. QED BY <2>5, <2>6
<1>8. IsFiniteSet({v \in Runs : run[v] # None})'
  BY DEF ImportInv
<1>9. QED BY <1>5, <1>6, <1>7, <1>8 DEF RunsAllFit

(* The limits hold of one more import, of a request not overtaken.         *)
LEMMA SavedLimits ==
  ASSUME ImportInv, NEW q \in Requests, importReq[q].stage = "counted",
         NEW i \in ImportIds, NEW row \in ImportRow, row # None, imports[i] = None,
         imports' = [imports EXCEPT ![i] = row], row.key = importReq[q].key, UNCHANGED run,
         overlapped' = IF importReq[q].raced THEN overlapped \cup {i} ELSE overlapped
  PROVE  ImportsLimited'
<1> DEFINE Counted == {j \in ImportIds \ overlapped :
                         Running(j) /\ Cardinality(RunsOf(j)) <= 1}
<1>1. /\ imports'[i] = row /\ \A j \in ImportIds \ {i} : imports'[j] = imports[j]
      /\ row.key \in ImportKeys \cup {None}
  BY DEF ImportInv, ImportJobsTypeOK, ImportRow
<1>2. \A j : RunsOf(j)' = RunsOf(j)
  BY DEF RunsOf
<1>3. PICK k : k = row.key
  OBVIOUS
<1>4. /\ importReq[q].raced \/ Cardinality(RunOnce) < MaxActive
      /\ k # None => importReq[q].raced \/ OfKey(k) = {}
  BY <1>3 DEF ImportInv, ImportKnows
<1>5. Cardinality(Counted') <= MaxActive
  <2>1. MaxImports \in Nat /\ MaxActive \in Nat
    BY ImportAssumption DEF ImportAssumption
  <2>2. Counted = RunOnce \ overlapped /\ Counted' = RunOnce' \ overlapped'
    BY DEF RunOnce
  <2>3. RunOnce' \subseteq RunOnce \cup {i}
    BY <1>1, <1>2 DEF RunOnce, Running
  <2>4. RunOnce \in SUBSET (1 .. MaxImports) /\ RunOnce' \in SUBSET (1 .. MaxImports)
        /\ i \in 1 .. MaxImports
    BY DEF RunOnce, ImportIds
  <2>5. Cardinality(Counted) <= MaxActive
    BY DEF ImportInv, ImportsLimited
  <2> HIDE DEF Counted
  <2>6. CASE importReq[q].raced
    <3>1. Counted' \in SUBSET Counted /\ Counted \in SUBSET (1 .. MaxImports)
      BY <2>2, <2>3, <2>4, <2>6
    <3>2. /\ Cardinality(Counted) \in 0 .. MaxImports
          /\ Cardinality(Counted') \in 0 .. MaxImports
          /\ Cardinality(Counted') <= Cardinality(Counted)
      BY <2>1, <3>1, UpTo
    <3>3. QED BY <2>1, <2>5, <3>2
  <2>7. CASE ~importReq[q].raced
    <3>1. i \notin RunOnce
      BY DEF RunOnce, Running
    <3>2. Cardinality(RunOnce \cup {i}) = Cardinality(RunOnce) + 1
      BY <2>1, <2>4, <3>1, OneMore
    <3>3. Counted' \in SUBSET (RunOnce \cup {i}) /\ RunOnce \cup {i} \in SUBSET (1 .. MaxImports)
      BY <2>2, <2>3, <2>4
    <3>4. /\ Cardinality(RunOnce \cup {i}) \in 0 .. MaxImports
          /\ Cardinality(Counted') \in 0 .. MaxImports
          /\ Cardinality(Counted') <= Cardinality(RunOnce \cup {i})
      BY <2>1, <3>3, UpTo
    <3>5. Cardinality(RunOnce) \in 0 .. MaxImports /\ Cardinality(RunOnce) < MaxActive
      BY <1>4, <2>1, <2>4, <2>7, UpTo
    <3>6. QED BY <2>1, <3>2, <3>4, <3>5
  <2>8. QED BY <2>6, <2>7
<1>6. ASSUME NEW a \in ImportIds, NEW b \in ImportIds, a # b,
             imports'[a] # None, imports'[b] # None,
             imports'[a].key = imports'[b].key, imports'[a].key # None
      PROVE  {a, b} \cap overlapped' # {}
  <2>1. CASE a # i /\ b # i
    <3>1. /\ imports[a] # None /\ imports[b] # None
          /\ imports[a].key = imports[b].key /\ imports[a].key # None
      BY <1>1, <1>6, <2>1
    <3>2. {a, b} \cap overlapped # {}
      BY <1>6, <3>1 DEF ImportInv, ImportsLimited
    <3>3. QED BY <3>2
  <2>2. CASE i \in {a, b}
    <3>1. CASE importReq[q].raced
      BY <2>2, <3>1
    <3>2. CASE ~importReq[q].raced
      <4>1. PICK c \in {a, b} : c # i
        BY <1>6
      <4>2. c \in OfKey(k) /\ k # None
        BY <1>1, <1>3, <1>6, <2>2, <4>1 DEF OfKey
      <4>3. QED BY <1>4, <3>2, <4>2
    <3>3. QED BY <3>1, <3>2
  <2>3. QED BY <2>1, <2>2
<1>7. QED BY <1>5, <1>6 DEF ImportsLimited

LEMMA SaveImportStep ==
  ASSUME ImportInv, NEW q \in Requests, NEW i \in ImportIds, NEW bad \in 0 .. BadRows,
         NEW valid \in BOOLEAN, SaveImport(q, i, bad, valid)
  PROVE  ImportInv'
<1>0. ImportJobsTypeOK
  BY DEF ImportInv
<1>1. PICK row \in ImportRow, r \in ImportRequest :
        /\ importReq[q].stage = "counted" /\ imports[i] = None
        /\ imports' = [imports EXCEPT ![i] = row] /\ row # None
        /\ row.success = 0 /\ row.failed = bad /\ row.bad = bad
        /\ row.status = (IF valid THEN "QUEUED" ELSE "FAILED")
        /\ row.key = importReq[q].key
        /\ overlapped' = IF importReq[q].raced THEN overlapped \cup {i} ELSE overlapped
        /\ ImportGoesOn(q, r, ({"key"} \X ({row.key} \ {None})) \cup {<<"active", "count">>})
        /\ r.stage = IF valid THEN "saved" ELSE "done"
        /\ valid => r.import = i
        /\ UNCHANGED <<created, jobs, run>>
  BY SavedRecord
<1>2. PICK items : items = ({"key"} \X ({row.key} \ {None})) \cup {<<"active", "count">>}
  OBVIOUS
<1>3. ImportGoesOn(q, r, items)
  BY <1>1, <1>2
<1>4. /\ importReq' \in [Requests -> ImportRequest] /\ importReq'[q] = r
      /\ \A p \in Requests \ {q} :
           /\ importReq'[p].stage = importReq[p].stage
           /\ importReq'[p].key = importReq[p].key
           /\ importReq'[p].import = importReq[p].import
           /\ importReq'[p].reads = importReq[p].reads
           /\ importReq[p].raced => importReq'[p].raced
           /\ importReq[p].reads \cap items # {} => importReq'[p].raced
  BY <1>0, <1>3, ImportOthers, ZenonT(60)
<1>5. /\ imports'[i] = row /\ \A j \in ImportIds \ {i} : imports'[j] = imports[j]
      /\ \A j : RunsOf(j)' = RunsOf(j)
  BY <1>0, <1>1 DEF ImportJobsTypeOK, RunsOf
<1>6. ImportJobsTypeOK'
  BY <1>0, <1>1, <1>4 DEF ImportJobsTypeOK
<1>7. \A p \in Requests : importReq[p].stage \in {"saved", "unsure"} => importReq[p].import # i
  BY <1>1, SavedKnows
<1>8. RunsAllFit'
  <2>1. \A j \in ImportIds \ {i} : ToQueue(j)' <=> ToQueue(j)
    BY <1>1, <1>4 DEF ToQueue
  <2>2. ToQueue(i)' => row.status = "QUEUED"
    BY <1>1, <1>4, <1>7 DEF ToQueue
  <2>3. row.status # "COMPLETED" /\ row.failed = row.bad
    BY <1>1
  <2>4. QED BY <1>1, <2>1, <2>2, <2>3, SavedFits
<1>9. ImportsLimited'
  BY <1>1, SavedLimits
<1>10. ASSUME NEW p \in Requests, p # q PROVE ImportKnows(p)'
  <2>1. ASSUME NEW k \in ImportKeys PROVE OfKey(k)' \subseteq OfKey(k) \/ <<"key", k>> \in items
    <3>1. CASE k = row.key
      BY <1>2, <3>1, NoImportAssumption DEF NoImportAssumption
    <3>2. CASE k # row.key
      BY <1>5, <3>2 DEF OfKey
    <3>3. QED BY <3>1, <3>2
  <2>2. <<"active", "count">> \in items
    BY <1>2
  <2>3. \A j \in ImportIds : imports[j] # None => imports'[j] # None
    BY <1>1, <1>5
  <2>4. \A j \in ImportIds :
          importReq[p].stage = "saved" /\ importReq[p].import = j =>
            jobs'[j].state = "none" /\ RunsOf(j)' = {}
    BY <1>1, <1>5, SavedKnows
  <2>5. ASSUME NEW o \in Requests \ {p}, importReq'[o].stage \in {"saved", "unsure"}
        PROVE  \/ importReq'[o].import # importReq[p].import
               \/ importReq[p].stage \notin {"saved", "unsure"}
    <3>1. CASE o = q
      BY <1>1, <1>4, <1>7, <2>5, <3>1
    <3>2. CASE o # q
      <4>1. /\ importReq'[o].import = importReq[o].import
            /\ importReq[o].stage \in {"saved", "unsure"}
        BY <1>4, <2>5, <3>2
      <4>2. QED BY <4>1, SavedKnows
    <3>3. QED BY <3>1, <3>2
  <2>6. /\ importReq'[p].stage = importReq[p].stage /\ importReq'[p].key = importReq[p].key
        /\ importReq'[p].import = importReq[p].import
        /\ importReq'[p].reads = importReq[p].reads
        /\ importReq[p].raced => importReq'[p].raced
        /\ importReq[p].reads \cap items # {} => importReq'[p].raced
    BY <1>4, <1>10
  <2>7. QED BY <2>1, <2>2, <2>3, <2>4, <2>5, <2>6, ImportStillKnows
<1>11. ImportKnows(q)'
  <2>1. CASE ~valid
    BY <1>1, <1>4, <2>1 DEF ImportKnows
  <2>2. CASE valid
    <3>1. importReq'[q].stage = "saved" /\ importReq'[q].import = i
      BY <1>1, <1>4, <2>2
    <3>2. imports'[i] # None /\ jobs'[i].state = "none" /\ RunsOf(i)' = {}
      BY <1>1, <1>5 DEF ImportInv, JobFits
    <3>3. \A p \in Requests \ {q} :
            importReq'[p].stage \in {"saved", "unsure"} => importReq'[p].import # i
      BY <1>4, <1>7
    <3>4. QED BY <3>1, <3>2, <3>3 DEF ImportKnows, RunsOf
  <2>3. QED BY <2>1, <2>2
<1>12. QED BY <1>6, <1>8, <1>9, <1>10, <1>11 DEF ImportInv, RunsAllFit

LEMMA ImportInitInv == ImportJobsInit => ImportInv
<1> SUFFICES ASSUME ImportJobsInit PROVE ImportInv
  OBVIOUS
<1>1. /\ imports = [i \in ImportIds |-> None] /\ run = [w \in Runs |-> None]
      /\ created = [n \in 1 .. FileRows |-> None]
      /\ jobs = [i \in ImportIds |-> [state |-> "none", attempts |-> 0]]
      /\ importReq = [q \in Requests |-> NoImportRequest] /\ overlapped = {}
  BY DEF ImportJobsInit
<1>2. MaxImports \in Nat /\ MaxActive \in Nat /\ JobAttempts \in Nat
  BY ImportAssumption DEF ImportAssumption
<1>3. ImportJobsTypeOK
  BY <1>1, <1>2, NoImportFields DEF ImportJobsTypeOK
<1>4. IsFiniteSet({w \in Runs : run[w] # None})
  <2>1. {w \in Runs : run[w] # None} = {}
    BY <1>1
  <2>2. QED BY <2>1, FS_EmptySet
<1>5. \A i \in ImportIds : JobFits(i) /\ imports[i] = None
  <2>1. \A i \in ImportIds : CreatedBy(i) = {}
    BY <1>1, NoImportAssumption DEF CreatedBy, NoImportAssumption
  <2>2. \A i \in ImportIds : RunsOf(i) = {}
    BY <1>1 DEF RunsOf
  <2>3. QED BY <1>1, <2>1, <2>2 DEF JobFits
<1>6. \A q \in Requests : ImportKnows(q)
  BY <1>1, NoImportFields DEF ImportKnows
<1>7. ImportsLimited
  <2>1. {i \in ImportIds \ overlapped : Running(i) /\ Cardinality(RunsOf(i)) <= 1} = {}
    BY <1>1 DEF Running
  <2>2. Cardinality({}) = 0
    BY FS_EmptySet
  <2>3. 0 <= MaxActive
    BY <1>2
  <2>4. Cardinality({i \in ImportIds \ overlapped :
                       Running(i) /\ Cardinality(RunsOf(i)) <= 1}) <= MaxActive
    BY <2>1, <2>2, <2>3, Zenon
  <2>5. \A i \in ImportIds : imports[i] = None
    BY <1>1
  <2>6. QED BY <2>4, <2>5 DEF ImportsLimited
<1>8. QED BY <1>1, <1>3, <1>4, <1>5, <1>6, <1>7 DEF ImportInv

LEMMA ImportUnchanged ==
  ASSUME ImportInv, UNCHANGED importVars
  PROVE  ImportInv'
<1>0. UNCHANGED <<imports, created, jobs, run, importReq, overlapped>>
  BY DEF importVars
<1>1. \A j : /\ CreatedBy(j)' = CreatedBy(j) /\ RunsOf(j)' = RunsOf(j)
             /\ (ToQueue(j)' <=> ToQueue(j)) /\ (Running(j)' <=> Running(j))
             /\ OfKey(j)' = OfKey(j)
  BY <1>0 DEF CreatedBy, RunsOf, ToQueue, Running, OfKey
<1>2. ASSUME NEW j \in ImportIds
      PROVE  /\ Begun(j)' \in {Begun(j), Begun(j) + 1} /\ (Startable(j)' => Startable(j))
             /\ JobMay(j)'
  BY <1>0, <1>1, JobsMay DEF Begun, Startable, JobMay
<1>3. RunsAllFit'
  BY <1>0, <1>2, FitKept
<1>4. RunOnce' \subseteq RunOnce
  BY <1>1 DEF RunOnce
<1>5. ImportsLimited'
  BY <1>0, <1>4, LimitsKept
<1>6. ASSUME NEW p \in Requests PROVE ImportKnows(p)'
  <2>1. \A j \in ImportIds :
          importReq[p].stage = "saved" /\ importReq[p].import = j =>
            jobs'[j].state = "none" /\ RunsOf(j)' = {}
    BY <1>0, <1>1, SavedKnows
  <2>2. QED BY <1>0, <1>4, <2>1, OthersKnow
<1>7. ImportJobsTypeOK'
  BY <1>0 DEF ImportInv, ImportJobsTypeOK
<1>8. QED BY <1>3, <1>5, <1>6, <1>7 DEF ImportInv, RunsAllFit

LEMMA ImportNextInv ==
  ASSUME ImportInv, [ImportJobsNext]_importVars
  PROVE  ImportInv'
<1>1. CASE UNCHANGED importVars
  BY <1>1, ImportUnchanged
<1>2. CASE ImportJobsNext
  <2>1. ASSUME NEW q \in Requests, NEW k \in ImportKeys \cup {None}, FindByKey(q, k)
        PROVE  ImportInv'
    BY <2>1, FindByKeyStep
  <2>2. ASSUME NEW q \in Requests, NEW i \in ImportIds, NEW bad \in 0 .. BadRows,
               NEW valid \in BOOLEAN, SaveImport(q, i, bad, valid)
        PROVE  ImportInv'
    BY <2>2, SaveImportStep
  <2>3. ASSUME NEW q \in Requests, CountActive(q) PROVE ImportInv'
    BY <2>3, CountActiveStep
  <2>4. ASSUME NEW q \in Requests, NEW answered \in BOOLEAN, AddJob(q, answered)
        PROVE  ImportInv'
    BY <2>4, AddJobStep
  <2>5. ASSUME NEW q \in Requests, NEW w \in Runs, RunDirectly(q, w) PROVE ImportInv'
    BY <2>5, RunDirectlyStep
  <2>6. ASSUME NEW w \in Runs, NEW i \in ImportIds, TakeJob(w, i) PROVE ImportInv'
    BY <2>6, TakeJobStep
  <2>7. ASSUME NEW w \in Runs, Begin(w) PROVE ImportInv'
    BY <2>7, BeginStep
  <2>8. ASSUME NEW w \in Runs, ImportRowOk(w) \/ ImportRowFails(w) PROVE ImportInv'
    BY <2>8, RowSteps
  <2>9. ASSUME NEW w \in Runs, SaveCounts(w) PROVE ImportInv'
    BY <2>9, SaveCountsStep
  <2>10. ASSUME NEW w \in Runs, Finish(w) PROVE ImportInv'
    BY <2>10, FinishStep
  <2>11. ASSUME NEW w \in Runs, ReportDone(w) \/ LoseRun(w) PROVE ImportInv'
    BY <2>11, EndRunSteps
  <2>12. ASSUME NEW w \in Runs, Stall(w) PROVE ImportInv'
    BY <2>12, StallStep
  <2>13. QED
    BY <1>2, <2>1, <2>2, <2>3, <2>4, <2>5, <2>6, <2>7, <2>8, <2>9, <2>10, <2>11, <2>12
    DEF ImportJobsNext
<1>3. QED BY <1>1, <1>2

LEMMA ImportsHonest == ImportInv => ImportsAccountedFor
<1> SUFFICES ASSUME ImportInv PROVE ImportsAccountedFor
  OBVIOUS
<1>1. ASSUME NEW i \in ImportIds, imports[i] # None
      PROVE  /\ imports[i].success <= Cardinality(CreatedBy(i))
             /\ imports[i].status = "COMPLETED" =>
                  imports[i].bad = 0 /\ Cardinality(CreatedBy(i)) = FileRows
  BY <1>1 DEF ImportInv, RecordFits
<1>2. ASSUME NEW i \in ImportIds, imports[i] # None, ~Running(i), Cardinality(RunsOf(i)) = 1
      PROVE  /\ imports[i].success = Cardinality(CreatedBy(i))
             /\ imports[i].success + imports[i].failed = FileRows + imports[i].bad
             /\ imports[i].status = "FAILED" => CreatedBy(i) = {}
  <2>1. RunsOf(i) # {}
    BY <1>2, FS_EmptySet
  <2>2. PICK w \in RunsOf(i) : RunsOf(i) = {w}
    BY <1>2, <2>1, RunsFinite
  <2>3. SingleRunFits(i, w)
    BY <2>2 DEF ImportInv, RunsOf
  <2>4. QED BY <1>2, <2>2, <2>3 DEF SingleRunFits
<1>3. ReportHonest
  BY <1>1, <1>2 DEF ReportHonest
<1>4. QED BY <1>3 DEF ImportInv, ImportsAccountedFor

(* What the owner reads of an import is true, and imports stay within      *)
(* their limits: what is recorded fits what was created, however often the *)
(* import was run, and what a single run counts is exact.                  *)
THEOREM ImportsCounted == ImportJobsSpec => []ImportsAccountedFor
<1>1. ImportInv /\ [ImportJobsNext]_importVars => ImportInv'
  BY ImportNextInv
<1>2. QED BY ImportInitInv, ImportsHonest, <1>1, PTL DEF ImportJobsSpec

-----------------------------------------------------------------------------
(* The services beside each other: each does what its specification says,  *)
(* whichever of them moves.                                                *)
LEMMA EachMoves ==
  [ServicesNext]_<<service, subVars, bookVars, markVars, importVars, mailVars, qrVars,
                   mealVars>>
    => /\ [SubscriptionsNext]_subVars /\ [BookingsNext]_bookVars /\ [AttendanceNext]_markVars
       /\ [ImportJobsNext]_importVars /\ [EmailNext]_mailVars /\ [QrNext]_qrVars
       /\ [MealsNext]_mealVars
BY DEF ServicesNext, Moves

LEMMA EachService ==
  ServicesSpec => /\ SubscriptionsSpec /\ BookingsSpec /\ AttendanceSpec /\ ImportJobsSpec
                  /\ EmailSpec /\ QrSpec /\ MealsSpec
<1>1. ServicesInit => /\ SubscriptionsInit /\ BookingsInit /\ AttendanceInit /\ ImportJobsInit
                      /\ EmailInit /\ QrInit /\ MealsInit
  BY DEF ServicesInit
<1>2. QED
  BY <1>1, EachMoves, PTL
  DEF ServicesSpec, SubscriptionsSpec, BookingsSpec, AttendanceSpec, ImportJobsSpec,
      EmailSpec, QrSpec, MealsSpec

(* Every service's tables and requests keep the shape the code gives them. *)
THEOREM ServicesTyped == ServicesSpec => []ServicesTypeOK
<1>1. SubscriptionsSpec => []SubIInv
  BY SubSpecIInv
<1>2. BookingsSpec => []BookIInv
  BY BookInitIInv, BookNextIInv, PTL DEF BookingsSpec
<1>3. AttendanceSpec => []MarkIInv
  BY MarkInitIInv, MarkNextIInv, PTL DEF AttendanceSpec
<1>4. ImportJobsSpec => []ImportInv
  <2>1. ImportInv /\ [ImportJobsNext]_importVars => ImportInv'
    BY ImportNextInv
  <2>2. QED BY ImportInitInv, <2>1, PTL DEF ImportJobsSpec
<1>5. EmailSpec => []EmailInv
  <2>1. EmailInv /\ [EmailNext]_mailVars => EmailInv'
    BY EmailNextInv
  <2>2. QED BY EmailInitInv, <2>1, PTL DEF EmailSpec
<1>6. QrSpec => []QrInv
  <2>1. QrInv /\ [QrNext]_qrVars => QrInv'
    BY QrNextInv
  <2>2. QED BY QrInitInv, <2>1, PTL DEF QrSpec
<1>7. MealsSpec => []MealIInv
  BY MealInitIInv, MealNextIInv, PTL DEF MealsSpec
<1>8. SubIInv /\ BookIInv /\ MarkIInv /\ ImportInv /\ EmailInv /\ QrInv /\ MealIInv
        => ServicesTypeOK
  BY DEF ServicesTypeOK, SubIInv, BookIInv, MarkIInv, ImportInv, EmailInv, QrInv, MealIInv
<1>9. QED BY EachService, <1>1, <1>2, <1>3, <1>4, <1>5, <1>6, <1>7, <1>8, PTL

(* What each service promises by itself holds of the seven that run as     *)
(* MC_Services composes them.                                              *)
THEOREM ServicesKeepTheirWord ==
  ServicesSpec =>
    /\ []OneRunningPlan /\ []PlanGivesWayToAnother
    /\ []BookedOnce /\ DaysSettle /\ []MenuFromOneSave
    /\ []SentOnceOrAccounted /\ []RowsKeepTheirImages /\ []ImportsAccountedFor
BY EachService, OnePlanRuns, PlansGiveWay, AppliedOnce, DaysDoSettle, MenuIsOfOneSave,
   MailAccounted, ImagesKept, ImportsCounted
=============================================================================
