----------------------------- MODULE Notifications -----------------------------
(***************************************************************************)
(* The notification outbox.  A change of authority over an account appends *)
(* a pending notification to the security events in its own transaction;   *)
(* workers list the pending ones, take an advisory lock on each, check it  *)
(* again, send the mail and append the one terminal event.  A notification *)
(* waits while its account waits for its verification.                     *)
(***************************************************************************)
EXTENDS Naturals, FiniteSets

CONSTANTS
  Notes,      \* the notifications, one per operation
  Target,     \* the account each is about
  Accounts,
  Age,        \* when each operation occurred
  Batch,      \* notifications a pass takes on
  Workers,    \* one per API instance
  MaxFaults   \* model bound: failures, lost answers, crashes

NotificationAssumption ==
  /\ Target \in [Notes -> Accounts] /\ Age \in [Notes -> Nat]
  /\ Batch \in Nat \ {0} /\ MaxFaults \in Nat
  /\ "none" \notin Workers

VARIABLES
  status,   \* database: the accounts
  event,    \* database: the last event of each notification
  holder,   \* database: the worker whose transaction locks the notification
  worker,   \* what each worker is doing
  outbox,   \* mail server: how often each message was accepted
  clock,    \* history: status of the target when each message was accepted
  doubled,  \* history: how often a terminal event was lost after the mail
  faults    \* how many failures so far

notificationVars == <<status, event, holder, worker, outbox, clock, doubled, faults>>

Idle == [pc |-> "idle", batch |-> {}, note |-> "none", seen |-> "none"]
Terminal == {"delivered", "failed"}

TypeOK ==
  /\ status \in [Accounts -> {"pending", "active", "disabled", "missing"}]
  /\ event \in [Notes -> {"none", "pending"} \cup Terminal]
  /\ \A n \in Notes : holder[n] # "none" =>
       worker[holder[n]].note = n /\ worker[holder[n]].pc \in {"locked", "ready", "failing", "sent"}
  /\ \A w \in Workers : /\ worker[w].pc \in {"idle", "pass", "locked", "ready", "failing", "sent"}
                        /\ worker[w].batch \subseteq Notes
  /\ outbox \in [Notes -> Nat] /\ doubled \in [Notes -> Nat]
  /\ faults \in 0 .. MaxFaults

Init ==
  /\ status \in [Accounts -> {"pending", "active"}]
  /\ event = [n \in Notes |-> "none"] /\ holder = [n \in Notes |-> "none"]
  /\ worker = [w \in Workers |-> Idle]
  /\ outbox = [n \in Notes |-> 0] /\ clock = [n \in Notes |-> "none"]
  /\ doubled = [n \in Notes |-> 0] /\ faults = 0

NoFault   == UNCHANGED faults
Fault     == faults < MaxFaults /\ faults' = faults + 1
At(w, pc) == worker[w].pc = pc
Note(w)   == worker[w].note

-----------------------------------------------------------------------------
(* The transaction that changes the authority *)

\* Audit event and pending notification have identifiers derived from the
\* operation, so a replay finds its own rows and appends nothing.
Recorded_Reset(n) == "pending"
Recorded(n) == IF event[n] = "none" THEN "pending" ELSE event[n]

RecordTx(n) ==
  /\ status[Target[n]] \in {"pending", "active"}
  /\ event' = [event EXCEPT ![n] = Recorded(n)]
  /\ NoFault /\ UNCHANGED <<status, holder, worker, outbox, clock, doubled>>

-----------------------------------------------------------------------------
(* A pass of a worker *)

Pending(n) == event[n] = "pending"

\* The list leaves out what waits for a verification, so that it does not
\* fill the batch.
Listed_All(n) == Pending(n)
Listed(n) == Pending(n) /\ status[Target[n]] # "pending"

\* The oldest ones, up to the limit.
Oldest == {n \in Notes : Listed(n) /\ Cardinality({m \in Notes : Listed(m) /\ Age[m] < Age[n]}) < Batch}

ListPending(w) ==
  /\ At(w, "idle") /\ Oldest # {}
  /\ worker' = [worker EXCEPT ![w].pc = "pass", ![w].batch = Oldest]
  /\ NoFault /\ UNCHANGED <<status, event, holder, outbox, clock, doubled>>

Next1(w, note) ==
  worker' = [worker EXCEPT ![w].pc = IF worker[w].batch \ {note} = {} THEN "idle" ELSE "pass",
                           ![w].batch = worker[w].batch \ {note}, ![w].note = "none", ![w].seen = "none"]

\* Under the lock the notification is read again: another worker may have
\* brought it to its end since the list was made.
Recheck_Skipped(n) == TRUE
Recheck(n) == Pending(n)

Lock(w, n) ==
  /\ At(w, "pass") /\ n \in worker[w].batch
  /\ \/ /\ holder[n] = "none" /\ Recheck(n)
        /\ holder' = [holder EXCEPT ![n] = w]
        /\ worker' = [worker EXCEPT ![w].pc = "locked", ![w].note = n]
        /\ NoFault
     \/ /\ holder[n] # "none" \/ ~Recheck(n)
        /\ Next1(w, n) /\ UNCHANGED holder /\ NoFault
     \/ Next1(w, n) /\ UNCHANGED holder /\ Fault
  /\ UNCHANGED <<status, event, outbox, clock, doubled>>

Released_Never(w) == UNCHANGED holder
Released(w) == holder' = [holder EXCEPT ![Note(w)] = "none"]

Ready(s) == s = "active"

\* What the target's row says decides: send, wait, or fail for good.
ReadTarget(w) ==
  LET s == status[Target[Note(w)]] IN
  /\ At(w, "locked")
  /\ \/ /\ Ready(s)
        /\ worker' = [worker EXCEPT ![w].pc = "ready", ![w].seen = s] /\ UNCHANGED holder /\ NoFault
     \/ /\ s \in {"disabled", "missing"}
        /\ worker' = [worker EXCEPT ![w].pc = "failing"] /\ UNCHANGED holder /\ NoFault
     \/ /\ s = "pending" /\ ~Ready(s) /\ Next1(w, Note(w)) /\ Released(w) /\ NoFault
     \/ /\ Next1(w, Note(w)) /\ Released(w) /\ Fault
  /\ UNCHANGED <<status, event, outbox, clock, doubled>>

\* The mail server accepts the message, rejects it for good, or fails in a way
\* that leaves the notification pending, perhaps after accepting it.
Accepted(n, s) == outbox' = [outbox EXCEPT ![n] = @ + 1] /\ clock' = [clock EXCEPT ![n] = s]

Send(w) ==
  LET n == Note(w) IN
  /\ At(w, "ready")
  /\ \/ /\ Accepted(n, worker[w].seen)
        /\ \/ /\ worker' = [worker EXCEPT ![w].pc = "sent"]
              /\ UNCHANGED <<holder, doubled>> /\ NoFault
           \/ /\ Next1(w, n) /\ Released(w)
              /\ doubled' = [doubled EXCEPT ![n] = @ + 1] /\ Fault
     \/ /\ worker' = [worker EXCEPT ![w].pc = "failing"]
        /\ UNCHANGED <<holder, outbox, clock, doubled>> /\ Fault
     \/ /\ Next1(w, n) /\ Released(w) /\ UNCHANGED <<outbox, clock, doubled>> /\ Fault
  /\ UNCHANGED <<status, event>>

Outcome_Delivered(w) == "delivered"
Outcome(w) == IF At(w, "sent") THEN "delivered" ELSE "failed"

AppendTerminal(w) ==
  LET n == Note(w) IN
  /\ worker[w].pc \in {"sent", "failing"} /\ Next1(w, n) /\ Released(w)
  /\ \/ event' = [event EXCEPT ![n] = Outcome(w)] /\ UNCHANGED doubled /\ NoFault
     \/ /\ UNCHANGED event /\ Fault
        /\ doubled' = [doubled EXCEPT ![n] = IF At(w, "sent") THEN @ + 1 ELSE @]
  /\ UNCHANGED <<status, outbox, clock>>

Dispatch(w) == (\E n \in Notes : Lock(w, n)) \/ ReadTarget(w) \/ Send(w) \/ AppendTerminal(w)

-----------------------------------------------------------------------------
(* The environment *)

\* Verified, suspended, or removed with a registration that was undone.
StatusChange(a) ==
  /\ \/ status[a] = "pending" /\ \E s \in {"active", "disabled", "missing"} :
          status' = [status EXCEPT ![a] = s]
     \/ status[a] = "active" /\ status' = [status EXCEPT ![a] = "disabled"]
  /\ NoFault /\ UNCHANGED <<event, holder, worker, outbox, clock, doubled>>

\* A process that dies drops its transaction, and the lock with it.
CrashWorker(w) ==
  /\ ~At(w, "idle") /\ worker' = [worker EXCEPT ![w] = Idle] /\ Fault
  /\ holder' = [n \in Notes |-> IF holder[n] = w THEN "none" ELSE holder[n]]
  /\ doubled' = [n \in Notes |-> IF At(w, "sent") /\ n = Note(w) THEN doubled[n] + 1 ELSE doubled[n]]
  /\ UNCHANGED <<status, event, outbox, clock>>

-----------------------------------------------------------------------------
RunOnce(w) == ListPending(w) \/ Dispatch(w)

Next ==
  \/ \E n \in Notes : RecordTx(n)
  \/ \E w \in Workers : RunOnce(w) \/ CrashWorker(w)
  \/ \E a \in Accounts : StatusChange(a)

Spec == Init /\ [][Next]_notificationVars

-----------------------------------------------------------------------------
(* Properties *)

\* A message goes out once more only when the record of an earlier sending
\* was lost: two workers with the same list do not both send it.
SentOnce == \A n \in Notes : outbox[n] <= 1 + doubled[n]

\* Delivered says a message was accepted for a verified, active account;
\* failed is not said of a message whose sending is recorded.
DeliveredWasSent ==
  \A n \in Notes : /\ event[n] = "delivered" => outbox[n] > 0
                   /\ outbox[n] > doubled[n] /\ event[n] # "pending" => event[n] = "delivered"
                   /\ outbox[n] > 0 => clock[n] = "active"

\* A terminal event is the last one, though the operation is replayed.
Final(n)      == event[n] \in Terminal => event'[n] = event[n]
TerminalKept  == \A n \in Notes : Final(n)

\* A notification has come to its end, or its account keeps it waiting.
Attended(n) == event[n] \in Terminal \/ status[Target[n]] = "pending"
==============================================================================
