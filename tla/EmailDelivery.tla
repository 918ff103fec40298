---------------------------- MODULE EmailDelivery ----------------------------
(***************************************************************************)
(* An email from queueEmail, or queueEmailsBulk, to the mail server: sent  *)
(* by the web process when Redis is down or no worker listens, else added  *)
(* to the queue and sent by a worker behind a circuit breaker, with        *)
(* retries.  Each send tries the configured host and then local ones; an   *)
(* answer may be lost after the server has taken the mail.  The texts, and *)
(* when the breaker opens, are left out: it may at any time.               *)
(***************************************************************************)
EXTENDS Integers

CONSTANTS Mails,    \* emails, each dispatched once
          Hosts,    \* SMTP hosts a send tries, one after another
          MailAttempts, \* defaultJobOptions.attempts
          MaxCopies \* bound: copies counted, the last standing for more

ASSUME MailAssumption == {Hosts, MailAttempts, MaxCopies} \subseteq Nat \ {0}

VARIABLES mail,        \* the call of queueEmail
          job,         \* the job in the email queue
          copies,      \* copies the mail server has taken
          redisUp,     \* redisClient.status is ready
          workersUp,   \* a worker listens on the queue
          workerCheck, \* cachedWorkerCheck
          unsure,      \* history: mails one of whose answers was lost
          swallowed    \* history: bulk mails sent directly in vain

mailVars == <<mail, job, copies, redisUp, workersUp, workerCheck, unsure, swallowed>>

EmailTypeOK ==
  /\ mail \in [Mails -> [stage: {"unsent", "checking", "adding", "sending", "accepted",
                                 "refused", "lost"},
                         bulk: BOOLEAN, host: 1 .. Hosts]]
  /\ job \in [Mails -> [state: {"none", "waiting", "active", "done", "dead"},
                        host: 1 .. Hosts, attempts: 0 .. MailAttempts]]
  /\ copies \in [Mails -> 0 .. MaxCopies]
  /\ redisUp \in BOOLEAN /\ workersUp \in BOOLEAN
  /\ workerCheck \in {"none", "workers", "no workers"}
  /\ unsure \subseteq Mails /\ swallowed \subseteq Mails

EmailInit ==
  /\ mail = [m \in Mails |-> [stage |-> "unsent", bulk |-> FALSE, host |-> 1]]
  /\ job = [m \in Mails |-> [state |-> "none", host |-> 1, attempts |-> 0]]
  /\ copies = [m \in Mails |-> 0]
  /\ redisUp \in BOOLEAN /\ workersUp \in BOOLEAN
  /\ workerCheck = "none"
  /\ unsure = {} /\ swallowed = {}

-----------------------------------------------------------------------------
MailAt(m, stage) == mail[m].stage = stage
MailGoes(m, stage) == mail' = [mail EXCEPT ![m].stage = stage, ![m].host = 1]
JobIs(m, state) == job' = [job EXCEPT ![m].state = state, ![m].host = 1]

(* The server takes a copy, or may have: nobody heard.                     *)
Delivered(m) == copies' = [copies EXCEPT ![m] = IF @ = MaxCopies THEN @ ELSE @ + 1]
PerhapsDelivered(m) ==
  /\ UNCHANGED copies \/ Delivered(m)
  /\ unsure' = unsure \cup {m}

(* Direct mode when Redis is down, else the worker check.                  *)
Dispatch(m, bulk) ==
  /\ MailAt(m, "unsent")
  /\ mail' = [mail EXCEPT ![m] = [stage |-> IF redisUp THEN "checking" ELSE "sending",
                                  bulk |-> bulk, host |-> 1]]
  /\ UNCHANGED <<job, copies, redisUp, workersUp, workerCheck, unsure, swallowed>>

(* What was found in the last 30 seconds, or the queue's workers; a check  *)
(* that fails finds none and is not kept.                                  *)
CheckWorkers(m) ==
  LET found == IF workersUp THEN "workers" ELSE "no workers"
  IN  /\ MailAt(m, "checking")
      /\ workerCheck' = IF workerCheck = "none" /\ redisUp THEN found ELSE workerCheck
      /\ MailGoes(m, IF workerCheck' = "workers" THEN "adding" ELSE "sending")
      /\ UNCHANGED <<job, copies, redisUp, workersUp, unsure, swallowed>>

ForgetWorkerCheck ==
  /\ workerCheck # "none"
  /\ workerCheck' = "none"
  /\ UNCHANGED <<mail, job, copies, redisUp, workersUp, unsure, swallowed>>

AddEmail(m) ==
  /\ MailAt(m, "adding") /\ redisUp
  /\ JobIs(m, "waiting")
  /\ MailGoes(m, "accepted")
  /\ UNCHANGED <<copies, redisUp, workersUp, workerCheck, unsure, swallowed>>

(* The add fails or is not confirmed in time, and lands all the same.      *)
AddUnconfirmed(m, landed) ==
  /\ MailAt(m, "adding")
  /\ IF landed THEN JobIs(m, "waiting") /\ unsure' = unsure \cup {m}
               ELSE UNCHANGED <<job, unsure>>
  /\ MailGoes(m, "sending")
  /\ UNCHANGED <<copies, redisUp, workersUp, workerCheck, swallowed>>

(* send, by the web process: sendMail of a host succeeds...                *)
SendDirectly(m) ==
  /\ MailAt(m, "sending")
  /\ Delivered(m)
  /\ MailGoes(m, "accepted")
  /\ UNCHANGED <<job, redisUp, workersUp, workerCheck, unsure, swallowed>>

(* ...or fails, and the next is tried; after the last the error reaches    *)
(* the caller, but for bulk mails, whose outcomes are not looked at.       *)
NextHost(m) ==
  IF mail[m].host < Hosts
  THEN mail' = [mail EXCEPT ![m].host = @ + 1] /\ UNCHANGED swallowed
  ELSE /\ MailGoes(m, IF mail[m].bulk THEN "accepted" ELSE "refused")
       /\ swallowed' = IF mail[m].bulk THEN swallowed \cup {m} ELSE swallowed
DirectSendFails(m) ==
  /\ MailAt(m, "sending")
  /\ NextHost(m)
  /\ PerhapsDelivered(m) \/ UNCHANGED <<copies, unsure>>
  /\ UNCHANGED <<job, redisUp, workersUp, workerCheck>>

WebStops(m) ==
  /\ mail[m].stage \in {"checking", "adding", "sending"}
  /\ MailGoes(m, "lost")
  /\ IF MailAt(m, "sending") THEN PerhapsDelivered(m) ELSE UNCHANGED <<copies, unsure>>
  /\ IF MailAt(m, "adding") THEN UNCHANGED job \/ JobIs(m, "waiting") ELSE UNCHANGED job
  /\ UNCHANGED <<redisUp, workersUp, workerCheck, swallowed>>

-----------------------------------------------------------------------------
WorkerOnly == UNCHANGED <<mail, redisUp, workersUp, workerCheck, swallowed>>
Working(m) == job[m].state = "active"

TakeEmail(m) ==
  /\ job[m].state = "waiting" /\ redisUp /\ workersUp
  /\ job' = [job EXCEPT ![m] = [state |-> "active", host |-> 1,
                                 attempts |-> @.attempts + 1]]
  /\ UNCHANGED <<copies, unsure>> /\ WorkerOnly

WorkerSends(m) ==
  /\ Working(m) /\ redisUp
  /\ Delivered(m) /\ JobIs(m, "done")
  /\ UNCHANGED unsure /\ WorkerOnly

(* The job is retried, as often as it may be, or left as failed.           *)
JobFailsQuietly(m) == JobIs(m, "done")
JobFailsForEver(m) == JobIs(m, "waiting")
JobFails(m) == JobIs(m, IF job[m].attempts < MailAttempts THEN "waiting" ELSE "dead")

WorkerSendFails(m) ==
  /\ Working(m)
  /\ IF job[m].host < Hosts THEN job' = [job EXCEPT ![m].host = @ + 1] ELSE JobFails(m)
  /\ PerhapsDelivered(m) \/ UNCHANGED <<copies, unsure>>
  /\ WorkerOnly

(* The open breaker rejects the job before anything is sent.               *)
BreakerRejects(m) ==
  /\ Working(m) /\ job[m].host = 1
  /\ JobFails(m)
  /\ UNCHANGED <<copies, unsure>> /\ WorkerOnly

(* The breaker's 8 seconds are over and the send goes on behind it; or the *)
(* worker stops, and its job stalls.                                       *)
Overtaken(m) ==
  /\ Working(m)
  /\ JobFails(m) /\ PerhapsDelivered(m) /\ WorkerOnly

WorkersChange ==
  /\ workersUp' = ~workersUp
  /\ UNCHANGED <<mail, job, copies, redisUp, workerCheck, unsure, swallowed>>
RedisGoes ==
  /\ redisUp' = ~redisUp
  /\ UNCHANGED <<mail, job, copies, workersUp, workerCheck, unsure, swallowed>>

EmailNext ==
  \/ \E m \in Mails :
       \/ \E bulk \in BOOLEAN : Dispatch(m, bulk)
       \/ CheckWorkers(m) \/ AddEmail(m) \/ SendDirectly(m) \/ DirectSendFails(m)
       \/ WebStops(m)
       \/ \E landed \in BOOLEAN : AddUnconfirmed(m, landed)
       \/ TakeEmail(m) \/ WorkerSends(m) \/ WorkerSendFails(m)
       \/ BreakerRejects(m) \/ Overtaken(m)
  \/ ForgetWorkerCheck \/ WorkersChange \/ RedisGoes

EmailSpec == EmailInit /\ [][EmailNext]_mailVars

-----------------------------------------------------------------------------
(* "Ensures critical user emails are reliably delivered": what queueEmail  *)
(* accepts is sent, or its job waits, is worked on or is left as failed; a *)
(* bulk mail may be lost when it is sent directly.  Nobody gets a second   *)
(* copy, and no mail goes out that was refused, unless an answer was lost. *)
SentOnceOrAccounted ==
  \A m \in Mails :
    /\ mail[m].stage = "accepted" /\ m \notin swallowed =>
         copies[m] > 0 \/ job[m].state \in {"waiting", "active", "dead"}
    /\ job[m].state = "done" => copies[m] > 0
    /\ m \notin unsure =>
         /\ copies[m] <= 1
         /\ mail[m].stage = "refused" => copies[m] = 0 /\ job[m].state = "none"
         /\ job[m].state \in {"waiting", "dead"} => copies[m] = 0

-----------------------------------------------------------------------------
(* What the proofs rest on: how far a mail has come says where its job and *)
(* its copies can be.                                                      *)
MailFits(m) ==
  LET state == job[m].state
  IN  /\ mail[m].stage \in {"unsent", "checking", "adding"} => m \notin unsure
      /\ m \notin unsure =>
           /\ mail[m].stage \in {"unsent", "checking", "adding", "sending", "refused"} =>
                copies[m] = 0 /\ state = "none"
           /\ state \in {"waiting", "active", "dead"} => copies[m] = 0
           /\ copies[m] <= 1
      /\ state = "done" => copies[m] > 0
      /\ mail[m].stage = "accepted" /\ m \notin swallowed =>
           copies[m] > 0 \/ state \in {"waiting", "active", "dead"}
      /\ state = "none" => job[m].attempts = 0
      /\ state = "waiting" => job[m].attempts < MailAttempts

EmailInv == EmailTypeOK /\ \A m \in Mails : MailFits(m)
=============================================================================
