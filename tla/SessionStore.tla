---------------------------- MODULE SessionStore ----------------------------
(***************************************************************************)
(* The session inventory in Redis (ADR-0006 section 1): a record per token *)
(* hash, a locator per session id and an index per user, with the Lua      *)
(* scripts that write them together and the readers that heal them with    *)
(* single commands.  Clients touch and rotate their sessions; callers list *)
(* and revoke them.  Every step is one command or script, which Redis runs *)
(* atomically; what a caller read before is in its job.                    *)
(*                                                                         *)
(* A behaviour has one of Mixes: who calls what, and what happens beside   *)
(* it.  No step changes the mix.                                           *)
(***************************************************************************)
EXTENDS Naturals, FiniteSets

CONSTANTS
  Sids,       \* session ids
  Tokens,     \* token hashes, each minted once
  Users,
  Owner,      \* the user of each session id
  Callers,    \* handlers of the inventory
  Mixes       \* callers at work, their users and operations; whether password
              \* changes rotate sessions meanwhile, whether a touch may write
              \* after the idle deadline it met; a bound on failed commands

AllOps == {"revoke", "others", "epoch", "list"}
Nil    == "nil"
Mix    == [callers: SUBSET Callers, users: SUBSET Users, ops: SUBSET AllOps,
           rotate: BOOLEAN, late: BOOLEAN, maxFaults: Nat]

ASSUME SessionAssumption ==
  /\ Owner \in [Sids -> Users]
  /\ Nil \notin Sids \cup Tokens \cup Users
  /\ Mixes \subseteq Mix

VARIABLES
  mix,       \* the mix of this behaviour
  rec,       \* session:{hash}
  loc,       \* session_locator:{sid}
  idx,       \* members of the user_sessions:{user} sets
  touching,  \* tokens whose client read the record and will touch it
  rotating,  \* tokens whose client read the record and will rotate it
  pc,        \* next command of a caller
  job,       \* what a caller works on and has read
  faults     \* failed commands spent of mix.maxFaults

keys    == <<rec, loc, idx>>
clients == <<touching, rotating>>
vars    == <<mix, keys, clients, pc, job, faults>>

-----------------------------------------------------------------------------
(* Types *)

Hash   == Tokens \cup {Nil}
Labels == {"idle", "next", "fetch", "delLocator", "zremHeal", "zremWalk", "delete",
           "purge", "range", "mgetLocators", "mgetRecords", "heal"}

\* found: locators a listing read; dead: members it saw expired; aims: what
\* was live when a walk began; victims: what it reports as revoked.
NoJob == [op |-> "none", user |-> Nil, keep |-> Nil, first |-> FALSE, todo |-> {},
          sid |-> Nil, hash |-> Nil, found |-> [s \in Sids |-> Nil], dead |-> {},
          aims |-> {}, victims |-> {}, reply |-> "none"]

Record == [st: {"unused", "live", "gone"}, sid: Sids \cup {Nil}, dead: BOOLEAN,
           fresh: BOOLEAN]
Job    == [op: AllOps \cup {"none"}, user: Users \cup {Nil}, keep: Sids \cup {Nil},
           first: BOOLEAN, todo: SUBSET Sids, sid: Sids \cup {Nil}, hash: Hash,
           found: [Sids -> Hash], dead: SUBSET Sids, aims: SUBSET Sids,
           victims: SUBSET Sids, reply: {"none", "ok", "notFound", "error"}]

TypeOK ==
  /\ mix \in Mixes
  /\ rec \in [Tokens -> Record] /\ loc \in [Sids -> Hash] /\ idx \subseteq Sids
  /\ touching \subseteq Tokens /\ rotating \subseteq Tokens
  /\ pc \in [Callers -> Labels] /\ job \in [Callers -> Job]
  /\ faults \in 0..mix.maxFaults

Init ==
  /\ mix \in Mixes
  /\ rec = [t \in Tokens |-> [st |-> "unused", sid |-> Nil, dead |-> FALSE, fresh |-> FALSE]]
  /\ loc = [s \in Sids |-> Nil] /\ idx = {}
  /\ touching = {} /\ rotating = {}
  /\ pc = [c \in Callers |-> "idle"] /\ job = [c \in Callers |-> NoJob]
  /\ faults = 0

-----------------------------------------------------------------------------
(* Scripts and operators *)

Exists(t)    == rec[t].st = "live"
Usable(t)    == Exists(t) /\ ~rec[t].dead
Live(s)      == \E t \in Tokens : Usable(t) /\ rec[t].sid = s
Known(s)     == \E t \in Tokens : rec[t].sid = s
Members(u)   == {s \in idx : Owner[s] = u}

\* sessionDeleteScript: record, locator and index entry, if there is a record.
Delete(t) ==
  IF Exists(t)
  THEN /\ rec' = [rec EXCEPT ![t].st = "gone"]
       /\ loc' = [loc EXCEPT ![rec[t].sid] = Nil]
       /\ idx' = idx \ {rec[t].sid}
  ELSE UNCHANGED keys

\* The part the writing scripts share: locator and index entry of a record.
Inventory_Swapped(t, s) == loc' = [loc EXCEPT ![s] = s] /\ idx' = idx \cup {t}
Inventory(t, s) == loc' = [loc EXCEPT ![s] = t] /\ idx' = idx \cup {s}

Stumble == faults < mix.maxFaults /\ faults' = faults + 1

Goto(c, l) == pc' = [pc EXCEPT ![c] = l]

End(c, answer) ==
  /\ Goto(c, "idle")
  /\ job' = [job EXCEPT ![c] = [NoJob EXCEPT !.op = job[c].op, !.user = job[c].user,
               !.aims = job[c].aims, !.victims = job[c].victims, !.reply = answer]]

\* The job goes on without the session it was at.
Dropped(j) == [j EXCEPT !.todo = j.todo \ {j.sid}, !.sid = Nil, !.hash = Nil]

\* A failed read or script aborts the walk.
Abort_Skip(c) ==
  /\ Goto(c, "next")
  /\ job' = [job EXCEPT ![c] = Dropped(@)]
Abort(c) == End(c, "error")

Walks(c) == job[c].op \in {"others", "epoch"}

Advance(c) == Goto(c, "next") /\ job' = [job EXCEPT ![c] = Dropped(@)]

-----------------------------------------------------------------------------
(* Clients *)

Create(s, t) ==
  /\ ~Known(s) /\ rec[t].st = "unused"
  /\ rec' = [rec EXCEPT ![t] = [st |-> "live", sid |-> s, dead |-> FALSE, fresh |-> FALSE]]
  /\ Inventory(t, s)
  /\ UNCHANGED <<clients, pc, job, faults>>

\* TouchSession: Get, then the script, which needs the record to exist.
TouchRead(t) ==
  /\ Usable(t) /\ t \notin touching
  /\ touching' = touching \cup {t}
  /\ UNCHANGED <<keys, rotating, pc, job, faults>>

Refreshable_Always(t) == rec[t].st # "unused"
Refreshable(t) == Exists(t)

Reindex_RecordOnly(t) == UNCHANGED <<loc, idx>>
Reindex(t) == Inventory(t, rec[t].sid)

TouchWrite(t) ==
  /\ t \in touching
  /\ touching' = touching \ {t}
  /\ IF Refreshable(t)
     THEN /\ rec' = [rec EXCEPT ![t] = [@ EXCEPT !.st = "live", !.dead = FALSE]]
          /\ Reindex(t)
     ELSE UNCHANGED keys
  /\ UNCHANGED <<rotating, pc, job, faults>>

\* RotateSession: Get, then the script, with the new generation's stamp.
RotateRead(t) ==
  /\ mix.rotate /\ Usable(t) /\ t \notin rotating
  /\ rotating' = rotating \cup {t}
  /\ UNCHANGED <<keys, touching, pc, job, faults>>

Rotatable_Unchecked(t) == TRUE
Rotatable(t) == Exists(t)

RotateWrite(t, new) ==
  /\ t \in rotating /\ rec[new].st = "unused"
  /\ rotating' = rotating \ {t}
  /\ IF Rotatable(t)
     THEN /\ rec' = [rec EXCEPT ![t].st = "gone",
               ![new] = [st |-> "live", sid |-> rec[t].sid, dead |-> FALSE, fresh |-> TRUE]]
          /\ Inventory(new, rec[t].sid)
     ELSE UNCHANGED keys
  /\ UNCHANGED <<touching, pc, job, faults>>

\* Logout, and the cleanup of an expired record its client presents.
EndByToken(t) == Exists(t) /\ Delete(t) /\ UNCHANGED <<clients, pc, job, faults>>

\* The idle deadline passes; the index score passes with it.
Idle(t) ==
  /\ Usable(t) /\ (t \in touching => mix.late)
  /\ rec' = [rec EXCEPT ![t].dead = TRUE]
  /\ UNCHANGED <<loc, idx, clients, pc, job, faults>>

\* The keys' TTL, which record and locator share; index members have none.
Evaporate(t) ==
  /\ Exists(t) /\ rec[t].dead
  /\ rec' = [rec EXCEPT ![t].st = "gone"]
  /\ loc' = IF loc[rec[t].sid] = t THEN [loc EXCEPT ![rec[t].sid] = Nil] ELSE loc
  /\ UNCHANGED <<idx, clients, pc, job, faults>>

-----------------------------------------------------------------------------
(* Revocation by id and the bulk walks *)

\* RevokeSession, refused for the caller's current session.
StartRevoke(c, s, u) ==
  /\ pc[c] = "idle" /\ "revoke" \in mix.ops
  /\ Goto(c, "next")
  /\ job' = [job EXCEPT ![c] = [NoJob EXCEPT !.op = "revoke", !.user = u, !.first = TRUE,
                                             !.todo = {s}, !.aims = {s}]]
  /\ UNCHANGED <<keys, clients, faults>>

\* The walks take the index as it is; only RevokeAllOtherSessions leaves the
\* current session out of it.
Targets(members, keep) == members \ {keep}

StartWalk(c, op, u, keep) ==
  /\ pc[c] = "idle" /\ op \in mix.ops \cap {"others", "epoch"}
  /\ op = "epoch" => keep = Nil
  /\ keep # Nil => Owner[keep] = u /\ Live(keep)
  /\ Goto(c, "next")
  /\ job' = [job EXCEPT ![c] =
       [NoJob EXCEPT !.op = op, !.user = u, !.keep = keep,
                     !.todo = Targets(Members(u), keep),
                     !.aims = {s \in Sids : Owner[s] = u /\ Live(s) /\ s # keep}]]
  /\ UNCHANGED <<keys, clients, faults>>

\* resolve: the locator ...
Miss(c) == IF Walks(c) THEN Goto(c, "zremWalk") /\ UNCHANGED job ELSE End(c, "notFound")

Locate(c, s) ==
  /\ pc[c] = "next" /\ s \in job[c].todo
  /\ \/ /\ job' = [job EXCEPT ![c] = [@ EXCEPT !.sid = s, !.hash = loc[s]]]
        /\ Goto(c, IF loc[s] # Nil THEN "fetch" ELSE "zremWalk")
        /\ loc[s] = Nil => Walks(c)
        /\ UNCHANGED faults
     \/ loc[s] = Nil /\ ~Walks(c) /\ End(c, "notFound") /\ UNCHANGED faults
     \/ Stumble /\ Abort(c)
  /\ UNCHANGED <<keys, clients>>

\* ... and the record it names, checked for its owner and its expiry.
Foreign_AnyOwner(s, u, r) == r.sid # s
Foreign(s, u, r) == r.sid # s \/ Owner[r.sid] # u

Fetch(c) ==
  LET s == job[c].sid
      r == rec[job[c].hash]
      mine == ~Foreign(s, job[c].user, r) IN
  /\ pc[c] = "fetch"
  /\ \/ r.st # "live" /\ Goto(c, "delLocator") /\ UNCHANGED <<job, faults>>
     \/ r.st = "live" /\ ~mine /\ Miss(c) /\ UNCHANGED faults
     \/ r.st = "live" /\ mine /\ r.dead /\ Goto(c, "purge") /\ UNCHANGED <<job, faults>>
     \/ /\ r.st = "live" /\ mine /\ ~r.dead /\ UNCHANGED faults
        /\ IF job[c].op = "epoch" /\ r.fresh THEN Advance(c)
           ELSE IF job[c].first
           THEN /\ Goto(c, "next")
                /\ job' = [job EXCEPT ![c] = [@ EXCEPT !.first = FALSE, !.sid = Nil,
                                                        !.hash = Nil]]
           ELSE Goto(c, "delete") /\ UNCHANGED job
     \/ Stumble /\ Abort(c)
  /\ UNCHANGED <<keys, clients>>

\* The heal of a locator without record: two commands, whose failures are
\* ignored ...
HealLocator(c) ==
  /\ pc[c] = "delLocator"
  /\ \/ loc' = [loc EXCEPT ![job[c].sid] = Nil] /\ UNCHANGED faults
     \/ Stumble /\ UNCHANGED loc
  /\ Goto(c, "zremHeal")
  /\ UNCHANGED <<rec, idx, clients, job>>

HealIndex(c) ==
  /\ pc[c] = "zremHeal"
  /\ \/ idx' = idx \ (Members(job[c].user) \cap {job[c].sid}) /\ UNCHANGED faults
     \/ Stumble /\ UNCHANGED idx
  /\ Miss(c)
  /\ UNCHANGED <<rec, loc, clients>>

\* ... and a third one by the walks, after any miss.
HealWalk(c) ==
  /\ pc[c] = "zremWalk"
  /\ \/ idx' = idx \ (Members(job[c].user) \cap {job[c].sid}) /\ UNCHANGED faults
     \/ Stumble /\ UNCHANGED idx
  /\ Advance(c)
  /\ UNCHANGED <<rec, loc, clients>>

\* The revocation proper: by the token that resolve found.
Reported(j) == [Dropped(j) EXCEPT !.victims = j.victims \cup {j.sid}]

Revoke(c) ==
  /\ pc[c] = "delete"
  /\ \/ /\ Delete(job[c].hash) /\ Goto(c, "next") /\ UNCHANGED faults
        /\ job' = [job EXCEPT ![c] = Reported(job[c])]
     \/ Stumble /\ (Delete(job[c].hash) \/ UNCHANGED keys) /\ Abort(c)
  /\ UNCHANGED clients

\* An expired record is deleted, best effort, and not reported.
Purge(c) ==
  /\ pc[c] = "purge"
  /\ \/ Delete(job[c].hash) /\ UNCHANGED faults
     \/ Stumble /\ UNCHANGED keys
  /\ CASE job[c].op = "revoke" -> End(c, "notFound")
       [] job[c].op = "list"   -> /\ Goto(c, "heal")
                                  /\ job' = [job EXCEPT ![c].hash = Nil]
       [] OTHER                -> Advance(c)
  /\ UNCHANGED clients

Finish(c) ==
  /\ pc[c] = "next" /\ job[c].todo = {}
  /\ End(c, "ok")
  /\ UNCHANGED <<keys, clients, faults>>

-----------------------------------------------------------------------------
(* ListUserSessions *)

\* Members whose score has passed; it does with the record it was written for.
Prunable_All(u) == Members(u)
Prunable(u) == {s \in Members(u) : ~Live(s)}

StartList(c, u) ==
  /\ pc[c] = "idle" /\ "list" \in mix.ops
  /\ idx' = idx \ Prunable(u)
  /\ Goto(c, "range")
  /\ job' = [job EXCEPT ![c] = [NoJob EXCEPT !.op = "list", !.user = u]]
  /\ UNCHANGED <<rec, loc, clients, faults>>

\* A failed read ends the listing.
Range(c) ==
  /\ pc[c] = "range"
  /\ \/ /\ Goto(c, "mgetLocators")
        /\ job' = [job EXCEPT ![c].todo = Members(job[c].user)]
        /\ UNCHANGED faults
     \/ Stumble /\ Abort(c)
  /\ UNCHANGED <<keys, clients>>

MGetLocators(c) ==
  /\ pc[c] = "mgetLocators"
  /\ \/ /\ Goto(c, "mgetRecords")
        /\ job' = [job EXCEPT ![c].found =
             [s \in Sids |-> IF s \in job[c].todo THEN loc[s] ELSE Nil]]
        /\ UNCHANGED faults
     \/ Stumble /\ Abort(c)
  /\ UNCHANGED <<keys, clients>>

\* Members without a usable record stay in todo, to be healed.
MGetRecords(c) ==
  LET stale(s)   == job[c].found[s] = Nil \/ ~Exists(job[c].found[s])
      expired(s) == ~stale(s) /\ rec[job[c].found[s]].dead IN
  /\ pc[c] = "mgetRecords"
  /\ \/ /\ Goto(c, "heal")
        /\ job' = [job EXCEPT ![c] =
             [@ EXCEPT !.todo = {s \in job[c].todo : stale(s) \/ expired(s)},
                       !.dead = {s \in job[c].todo : expired(s)}]]
        /\ UNCHANGED faults
     \/ Stumble /\ Abort(c)
  /\ UNCHANGED <<keys, clients>>

HealMember(c, s) ==
  /\ pc[c] = "heal" /\ s \in job[c].todo
  /\ \/ idx' = idx \ {s} /\ UNCHANGED faults
     \/ Stumble /\ UNCHANGED idx
  /\ job' = [job EXCEPT ![c] =
       [@ EXCEPT !.todo = job[c].todo \ {s},
                 !.hash = IF s \in job[c].dead THEN job[c].found[s] ELSE Nil]]
  /\ Goto(c, IF s \in job[c].dead THEN "purge" ELSE "heal")
  /\ UNCHANGED <<rec, loc, clients>>

FinishList(c) ==
  /\ pc[c] = "heal" /\ job[c].todo = {}
  /\ End(c, "ok")
  /\ UNCHANGED <<keys, clients, faults>>

-----------------------------------------------------------------------------
Step(c) == \/ \E s \in Sids : Locate(c, s) \/ HealMember(c, s)
           \/ Fetch(c) \/ HealLocator(c) \/ HealIndex(c) \/ HealWalk(c) \/ Revoke(c)
           \/ Purge(c) \/ Finish(c) \/ Range(c) \/ MGetLocators(c) \/ MGetRecords(c)
           \/ FinishList(c)

Move ==
  \/ \E t \in Tokens :
       \/ \E s \in Sids : Create(s, t)
       \/ TouchRead(t) \/ TouchWrite(t) \/ RotateRead(t)
       \/ \E new \in Tokens : RotateWrite(t, new)
       \/ EndByToken(t) \/ Idle(t) \/ Evaporate(t)
  \/ \E c \in mix.callers, u \in mix.users :
       \/ \E s \in Sids : StartRevoke(c, s, u)
       \/ \E op \in mix.ops, keep \in Sids \cup {Nil} : StartWalk(c, op, u, keep)
       \/ StartList(c, u)
  \/ \E c \in mix.callers : Step(c)

Next == Move /\ mix' = mix

Spec == Init /\ [][Next]_vars

-----------------------------------------------------------------------------
(* Properties *)

\* A session has one record, whatever touches, rotations and revocations race
\* for it, so a revocation that finds it finds all of it (sessionRotateScript).
OneToken ==
  \A t1, t2 \in Tokens : Exists(t1) /\ Exists(t2) /\ rec[t1].sid = rec[t2].sid => t1 = t2

\* A session that has ended never comes back: neither a touch nor a rotation
\* that read it before its end writes it again (sessionTouchScript).
EndsOnce ==
  [][\A s \in Sids : Known(s) /\ (\A t \in Tokens : Exists(t) => rec[t].sid # s)
       => \A t \in Tokens : rec'[t].st = "live" => rec'[t].sid # s]_vars

\* A revocation removes sessions of its own user only, never the one it was
\* told to keep, and a settlement's never one of the new generation (resolve,
\* RevokeAllOtherSessions, RevokeSessionsBeforeEpoch).
RevocationStaysInScope ==
  [][\A c \in Callers, t \in Tokens :
       Exists(t) /\ rec'[t].st = "gone" /\ Revoke(c) =>
         /\ Owner[rec[t].sid] = job[c].user
         /\ rec[t].sid # job[c].keep
         /\ job[c].op = "epoch" => ~rec[t].fresh]_vars

\* A session reported as revoked is gone (RevokeAllOtherSessions).
RevokedIsGone == \A c \in Callers : \A s \in job[c].victims : ~Live(s)

\* No session rotates and no touch outlives the deadline it met.
Steady == ~mix.rotate /\ ~mix.late

\* Every usable session is in the inventory: its locator names its record and
\* its user's index holds it (the multi-key invariant of SessionStore).
InventoryComplete ==
  Steady => \A t \in Tokens : Usable(t) => loc[rec[t].sid] = t /\ rec[t].sid \in idx

\* What a revocation reports is gone and stays gone.
ReportedIsGone == Steady => RevokedIsGone

\* A walk that answers success left none of the sessions that were usable when
\* it began, but for the one it keeps.
WalkComplete ==
  Steady => \A c \in Callers : job[c].reply = "ok" => \A s \in job[c].aims : ~Live(s)

\* A session is back in the inventory.
InInventory(s) == s \in idx /\ \E t \in Tokens : Usable(t) /\ rec[t].sid = s /\ loc[s] = t

=============================================================================
